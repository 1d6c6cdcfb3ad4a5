------------------------ MODULE PacketCaptureProofs -------------------------
(***************************************************************************)
(* Proofs about PacketCapture: what the packet lane says of a TCP probe is *)
(* never contradicted by the connection the probe made.  The argument      *)
(* follows each event of that connection within the window of the capture: *)
(* while nothing was lost, garbled or cut off, what the connection has     *)
(* done before the deadline is in the observations or is on its way to     *)
(* them in the buffer (TrailInv); a capture that Stop declares complete    *)
(* has drained the buffer (LifeInv), so its snapshot holds the whole trail *)
(* (SnapshotInv), and Correlate finds it there.  And that the answers to a *)
(* path probe are attributed to the requests their keys name: what is      *)
(* filed comes from one whole report (PathInv), in which the keys decide   *)
(* which pairs fit.                                                        *)
(***************************************************************************)
EXTENDS PacketCapture, FiniteSetTheorems, WellFoundedInduction, TLAPS

Events        == [type : {"requested", "sent", "confirmed", "reset", "garbled"}, flow : Flows,
                  late : BOOLEAN]
TcpKinds      == {"outbound_tcp_syn", "tcp_handshake_confirmed", "tcp_rst"}
Observations  == {TcpObservation(f, kind, late) : f \in Flows, kind \in TcpKinds, late \in BOOLEAN}
Captures      == [observations : Seq(Observations), flows : SUBSET (Lanes \cup {Own}), lost : Nat,
                  garbled : Nat, cancelled : BOOLEAN, complete : BOOLEAN, error : BOOLEAN]
Starting      == {"starting", "enabling", "opening"}

-----------------------------------------------------------------------------
\* Events of the probe's own connection within the window, in a buffer and in a log.
OwnEvent(type)    == [type |-> type, flow |-> Own, late |-> FALSE]
Pending(b, type)  == \E i \in DOMAIN b : b[i] = OwnEvent(type)
Seen(log, kind)   == \E i \in DOMAIN log : log[i] = TcpObservation(Own, kind, FALSE)
HasSent(state)    == state \in {"sent", "confirmed", "reset"}

\* Its SYN is in the buffer and the flow will be in the table when it is consumed.
SynPending(b, flows) ==
    \E i \in DOMAIN b :
        /\ b[i] = OwnEvent("sent")
        /\ Own \in flows \/ \E j \in 1..(i - 1) : b[j] = OwnEvent("requested")

\* Something was lost, garbled or cut off.
Garbled(b) == \E i \in DOMAIN b : b[i].type = "garbled"

Broken(b, c, dropped) ==
    dropped # 0 \/ c.lost # 0 \/ c.garbled # 0 \/ c.cancelled \/ c.error \/ Garbled(b)

\* What a connection has done is in the capture or on its way to it.
Trail(state, b, c) ==
    /\ state # "idle" => Own \in c.flows \/ Pending(b, "requested")
    /\ HasSent(state) => Seen(c.observations, "outbound_tcp_syn") \/ SynPending(b, c.flows)
    /\ state = "confirmed" =>
          Seen(c.observations, "tcp_handshake_confirmed") \/ Pending(b, "confirmed")

Whole(c) == c.complete /\ c.lost = 0 /\ ~c.cancelled /\ ~c.error

CaptureTypeInv ==
    /\ pc \in Starting \cup {"running", "stopping", "waiting", "correlating", "filed"}
    /\ probeType \in {"tcp", "path"}
    /\ ctx \in {"live", "cancelled", "deadline"}
    /\ startError \in {None} \cup StartErrors
    /\ conn \in [Flows -> States] /\ atDeadline \in {None} \cup States
    /\ session \in BOOLEAN /\ registered \in BOOLEAN
    /\ buffer \in Seq(Events)
    /\ kernelLost \in Nat /\ faults \in Nat
    /\ consumer \in {None, "processing", "ended"}
    /\ watcher \in {None, "waiting", "stopping", "ended"}
    /\ capture \in Captures

\* Nothing happens before the start; the probe runs without its session only
\* after a cancellation; a consumer that ended has drained the buffer or failed.
LifeInv ==
    /\ pc \in Starting =>
          startError = None /\ conn[Own] = "idle" /\ consumer = None /\ watcher = None
    /\ pc \in Starting => (session <=> pc # "starting")
    /\ pc = "running" /\ startError = None /\ ~session => capture.cancelled
    /\ watcher = "stopping" => capture.cancelled
    /\ capture.error => consumer = "ended"
    /\ consumer = "ended" =>
          capture.error \/ (buffer = <<>> /\ ~session /\ capture.lost >= kernelLost)

TrailInv ==
    startError = None /\ ~Broken(buffer, capture, kernelLost) => Trail(InTime, buffer, capture)

ResetInv ==
    Pending(buffer, "reset") \/ Seen(capture.observations, "tcp_rst") => conn[Own] = "reset"

SnapshotInv ==
    probeType = "tcp" /\ startError = None /\ pc \in {"correlating", "filed"} =>
        /\ snapshot.observations \in Seq(Observations)
        /\ Seen(snapshot.observations, "tcp_rst") => conn[Own] = "reset"
        /\ Whole(snapshot) =>
              /\ HasSent(InTime) => Seen(snapshot.observations, "outbound_tcp_syn")
              /\ InTime = "confirmed" => Seen(snapshot.observations, "tcp_handshake_confirmed")

ResultInv ==
    probeType = "tcp" /\ pc \notin Starting \cup {"running"} => result = ResultOf(conn[Own])

EmissionInv ==
    pc = "filed" => evidence.emission \in {"observed", "not_observed", "unknown"}

CaptureInv ==
    /\ CaptureTypeInv /\ LifeInv /\ TrailInv /\ ResetInv
    /\ SnapshotInv /\ ResultInv /\ EmissionInv /\ NoContradiction /\ NegativeIsTrue

\* The places of the answers in a report, after those of the requests.
AnswerPlaces(r) == (r.requests + 1)..(r.requests + Len(r.answers))

\* What a report of such a backend says.
EchoReport(log, r) ==
    /\ Len(r.answers) \in Nat /\ Len(r.answers) > 0
    /\ Len(log) = r.requests + Len(r.answers) /\ DOMAIN log = 1..(r.requests + Len(r.answers))
    /\ \A i \in 1..r.requests :
          /\ log[i].kind = "outbound_icmp_echo" /\ log[i].peer = 1 /\ log[i].inWindow = TRUE
          /\ log[i].keys = Reported(TrueKeys(i, r.retry), r.requestKeys)
    /\ \A a \in AnswerPlaces(r) :
          /\ log[a].kind = r.kind /\ log[a].quoted \in {0, 1}
          /\ log[a].truth \in (1..r.requests) \cup {3}
          /\ log[a].keys = Reported(TrueKeys(log[a].truth, r.retry), r.answerKeys)
    /\ \A i \in DOMAIN log :
          /\ log[i].correlation = r.stamped /\ log[i].process = 0
          /\ log[i].peer = 1 \/ log[i].quoted = 1

\* What a path probe files comes from one whole report of a backend, whose context
\* and start are never in question.
PathCapture == \E r \in Echoes : EchoReport(snapshot.observations, r)

PathInv ==
    probeType = "path" =>
        /\ pc \in {"starting", "correlating", "filed"} /\ ctx = "live" /\ startError = None
        /\ pc # "starting" => PathCapture /\ Whole(snapshot)
        /\ pc = "filed" => evidence = Correlate(CorrelationInput)

-----------------------------------------------------------------------------
(* The probe's own connection and the choices of Correlate.                *)

\* The probe's connection is one of the flows and in the scope of the capture.
LEMMA OwnFlow == Own \in Flows /\ Own \notin Aliens /\ FlowInScope(Own) /\ Process(Own) = 1
  BY CaptureAssumption DEF Flows, Own, FlowInScope, Process

\* The flows in the scope of the capture are those that may enter its table.
LEMMA FlowsInScope == ASSUME NEW f \in Flows, FlowInScope(f) PROVE f \in Lanes \cup {Own}
  BY DEF Flows, FlowInScope, Process

NatLess == {p \in Nat \X Nat : p[1] < p[2]}

\* A set of places that is not empty has a first one.
LEMMA FirstPlace ==
  ASSUME NEW S, S \subseteq Nat, S # {}
  PROVE  \E m \in S : \A k \in S : m <= k
<1>1. IsWellFoundedOn(NatLess, Nat)
  BY NatLessThanWellFounded, Zenon DEF NatLess, OpToRel
<1>2. PICK m \in S : \A k \in S : ~ (<<k, m>> \in NatLess)
  BY <1>1, WFMin, Zenon
<1>3. \A k \in S : <<k, m>> \in Nat \X Nat /\ <<k, m>>[1] = k /\ <<k, m>>[2] = m
  OBVIOUS
<1>4. \A k \in S : ~ (k < m)
  BY <1>2, <1>3, Zenon DEF NatLess
<1>5. \A k \in S : m <= k
  BY <1>4
<1>. QED BY <1>5

\* If some request fits some answer, some answer keeps a request (correlateTCP,
\* correlatePath: the inner loop stops at the first).
LEMMA SomeFirstFit ==
  ASSUME NEW fits, fits \subseteq Nat \X Nat, fits # {}
  PROVE  FirstFits(fits) # {}
<1>1. PICK p \in fits : TRUE
  OBVIOUS
<1>. DEFINE S == {q[1] : q \in {r \in fits : r[2] = p[2]}}
<1>2. S \subseteq Nat /\ S # {}
  <2>1. p[1] \in S
    BY <1>1
  <2>2. \A q \in fits : q[1] \in Nat
    OBVIOUS
  <2>. QED BY <2>1, <2>2
<1>3. PICK m \in S : \A k \in S : m <= k
  <2>. HIDE DEF S
  <2>. QED BY <1>2, FirstPlace
<1>4. PICK q \in fits : q[2] = p[2] /\ q[1] = m
  BY <1>3
<1>5. \A r \in fits : r[2] = q[2] => q[1] <= r[1]
  BY <1>3, <1>4
<1>. QED BY <1>5, <1>4 DEF FirstFits

\* The pair that decides is one of the pairs.
LEMMA DecisiveIsAPair ==
  ASSUME NEW pairs, pairs \subseteq Nat \X Nat, pairs # {}
  PROVE  Decisive(pairs) \in pairs
<1>. DEFINE S == {p[2] : p \in pairs}
<1>1. S \subseteq Nat /\ S # {}
  OBVIOUS
<1>2. PICK m \in S : \A k \in S : m <= k
  <2>. HIDE DEF S
  <2>. QED BY <1>1, FirstPlace
<1>3. PICK p \in pairs : p[2] = m
  BY <1>2
<1>4. \A q \in pairs : p[2] <= q[2]
  BY <1>2, <1>3
<1>. QED BY <1>3, <1>4 DEF Decisive

\* What Correlate can say of the probe's packets.
EmissionStates == {"observed", "not_observed", "unknown"}

\* The fields of a flow (PacketFlowEvidence).
LEMMA FlowFields ==
  ASSUME NEW status, NEW emission, NEW outcome, NEW matched, NEW certainty, NEW method
  PROVE  /\ Flow(status, emission, outcome, matched, certainty, method).emission = emission
         /\ Flow(status, emission, outcome, matched, certainty, method).outcome = outcome
  BY DEF Flow

\* The three things a search for a TCP exchange can end with (correlateTCP).
LEMMA TcpForms ==
  ASSUME NEW in, NEW relevant
  PROVE  LET log       == in.capture.observations
             emissions == {e \in Emissions(log, "outbound_tcp_syn", relevant) :
                              in.tuple.port # 0 => log[e].localPort = in.tuple.port}
             flow      == CorrelateTCP(in, relevant)
         IN  \/ emissions = {} /\ flow = Undecided("available", "capture_unavailable")
             \/ emissions # {} /\ \E method : flow = Unanswered(method)
             \/ emissions # {} /\ \E kind, matched, certainty, method :
                   flow = Flow("available", "observed", TcpOutcome(kind), matched, certainty, method)
<1>. DEFINE log == in.capture.observations
            emissions == {e \in Emissions(log, "outbound_tcp_syn", relevant) :
                            in.tuple.port # 0 => log[e].localPort = in.tuple.port}
            pairs == FirstFits({p \in emissions \X relevant :
                       log[p[2]].kind \in Responses /\ TcpPair(log[p[1]], log[p[2]])})
            method == Method(log, emissions, "correlation_id_and_tcp_tuple", "process_and_tcp_tuple")
<1>1. CASE emissions = {}
  <2>1. CorrelateTCP(in, relevant) = Undecided("available", "capture_unavailable")
    BY <1>1, Zenon DEF CorrelateTCP
  <2>. QED BY <1>1, <2>1
<1>2. CASE emissions # {} /\ pairs = {}
  <2>1. CorrelateTCP(in, relevant) = Unanswered(method)
    BY <1>2, Zenon DEF CorrelateTCP
  <2>. QED BY <1>2, <2>1, Zenon
<1>3. CASE emissions # {} /\ pairs # {}
  <2>1. CorrelateTCP(in, relevant) =
          Flow("available", "observed", TcpOutcome(log[Decisive(pairs)[2]].kind), Matched(log, pairs),
               "confirmed_endpoint_response", method)
    BY <1>3, Zenon DEF CorrelateTCP
  <2>. QED BY <1>3, <2>1, Zenon
<1>. QED BY <1>1, <1>2, <1>3, Zenon

\* A TCP probe was seen to send or nothing is said of it, and only Correlate
\* itself speaks of a probe that was not observed (correlateTCP).
LEMMA TcpSays ==
  ASSUME NEW in, NEW relevant
  PROVE  /\ CorrelateTCP(in, relevant).emission \in EmissionStates
         /\ CorrelateTCP(in, relevant).outcome # "probe_not_observed"
<1>1. \A status, outcome : Undecided(status, outcome).emission = "unknown"
                           /\ Undecided(status, outcome).outcome = outcome
  BY DEF Undecided, Flow
<1>2. \A method : Unanswered(method).emission = "observed"
                  /\ Unanswered(method).outcome = "no_matching_response_observed"
  BY DEF Unanswered, Flow
<1>3. \A kind : TcpOutcome(kind) # "probe_not_observed"
  BY DEF TcpOutcome
<1>4. \/ CorrelateTCP(in, relevant) = Undecided("available", "capture_unavailable")
      \/ \E method : CorrelateTCP(in, relevant) = Unanswered(method)
      \/ \E kind, matched, certainty, method : CorrelateTCP(in, relevant) =
            Flow("available", "observed", TcpOutcome(kind), matched, certainty, method)
  BY TcpForms, Zenon
<1>5. CASE CorrelateTCP(in, relevant) = Undecided("available", "capture_unavailable")
  BY <1>1, <1>5 DEF EmissionStates
<1>6. ASSUME NEW method, CorrelateTCP(in, relevant) = Unanswered(method)
      PROVE  /\ CorrelateTCP(in, relevant).emission \in EmissionStates
             /\ CorrelateTCP(in, relevant).outcome # "probe_not_observed"
  BY <1>2, <1>6 DEF EmissionStates
<1>7. ASSUME NEW kind, NEW matched, NEW certainty, NEW method,
             CorrelateTCP(in, relevant) =
               Flow("available", "observed", TcpOutcome(kind), matched, certainty, method)
      PROVE  /\ CorrelateTCP(in, relevant).emission \in EmissionStates
             /\ CorrelateTCP(in, relevant).outcome # "probe_not_observed"
  BY <1>3, <1>7, FlowFields DEF EmissionStates
<1>. QED BY <1>4, <1>5, <1>6, <1>7, Zenon

\* Likewise of a path probe (correlatePath).
LEMMA PathSays ==
  ASSUME NEW in, NEW relevant
  PROVE  CorrelatePath(in, relevant).emission \in EmissionStates
<1>1. \A status, outcome : Undecided(status, outcome).emission = "unknown"
  BY DEF Undecided, Flow
<1>2. \A method : Unanswered(method).emission = "observed"
  BY DEF Unanswered, Flow
<1>3. \/ CorrelatePath(in, relevant) = Undecided("available", "capture_unavailable")
      \/ \E outcome, matched, certainty, method : CorrelatePath(in, relevant) =
            Flow("available", "observed", outcome, matched, certainty, method)
      \/ CorrelatePath(in, relevant) = Unanswered("none")
  BY Zenon DEF CorrelatePath
<1>. QED BY <1>1, <1>2, <1>3, FlowFields DEF EmissionStates

\* And so of Correlate as a whole.
LEMMA CorrelateSays ==
  ASSUME NEW in
  PROVE  Correlate(in).emission \in EmissionStates
<1>1. \A status, outcome : Undecided(status, outcome).emission = "unknown"
  BY DEF Undecided, Flow
<1>2. NotEmitted.emission = "not_observed"
  BY DEF NotEmitted, Flow
<1>3. \/ \E status, outcome : Correlate(in) = Undecided(status, outcome)
      \/ Correlate(in) = NotEmitted
      \/ \E relevant : Correlate(in) = CorrelatePath(in, relevant)
      \/ \E relevant : Correlate(in) = CorrelateTCP(in, relevant)
  BY Zenon DEF Correlate
<1>. QED BY <1>1, <1>2, <1>3, TcpSays, PathSays DEF EmissionStates

\* A SYN of the connection among the relevant observations is an emission.
LEMMA SynIsEmission ==
  ASSUME NEW in, NEW relevant, NEW e \in relevant,
         in.capture.observations[e].kind = "outbound_tcp_syn",
         in.tuple.port # 0 => in.capture.observations[e].localPort = in.tuple.port
  PROVE  CorrelateTCP(in, relevant).emission = "observed"
<1>1. \A method : Unanswered(method).emission = "observed"
  BY DEF Unanswered, Flow
<1>2. e \in {x \in Emissions(in.capture.observations, "outbound_tcp_syn", relevant) :
               in.tuple.port # 0 => in.capture.observations[x].localPort = in.tuple.port}
  BY DEF Emissions
<1>3. \/ \E method : CorrelateTCP(in, relevant) = Unanswered(method)
      \/ \E kind, matched, certainty, method : CorrelateTCP(in, relevant) =
            Flow("available", "observed", TcpOutcome(kind), matched, certainty, method)
  BY <1>2, TcpForms, Zenon
<1>. QED BY <1>1, <1>3, FlowFields

\* A SYN that a confirmation fits, with no other kind of answer around, makes
\* the confirmation the outcome.
LEMMA ConfirmationDecides ==
  ASSUME NEW in, NEW relevant, relevant \subseteq Nat, NEW e \in relevant, NEW a \in relevant,
         in.capture.observations[e].kind = "outbound_tcp_syn",
         in.capture.observations[e].localPort = in.tuple.port,
         in.capture.observations[a].kind = "tcp_handshake_confirmed",
         TcpPair(in.capture.observations[e], in.capture.observations[a]),
         \A i \in relevant : in.capture.observations[i].kind \notin {"inbound_tcp_syn_ack", "tcp_rst"}
  PROVE  CorrelateTCP(in, relevant).outcome = "tcp_handshake_confirmed"
<1>. DEFINE log == in.capture.observations
            emissions == {x \in Emissions(log, "outbound_tcp_syn", relevant) :
                            in.tuple.port # 0 => log[x].localPort = in.tuple.port}
            fits == {p \in emissions \X relevant :
                       log[p[2]].kind \in Responses /\ TcpPair(log[p[1]], log[p[2]])}
            pairs == FirstFits(fits)
            method == Method(log, emissions, "correlation_id_and_tcp_tuple", "process_and_tcp_tuple")
<1>1. e \in emissions
  BY DEF Emissions
<1>2. emissions \subseteq relevant
  BY DEF Emissions
<1>3. <<e, a>> \in fits
  BY <1>1 DEF Responses
<1>4. fits \subseteq Nat \X Nat /\ \A p \in fits : p[2] \in relevant /\ log[p[2]].kind \in Responses
  BY <1>2
<1>5. pairs # {} /\ pairs \subseteq fits
  <2>. HIDE DEF fits
  <2>. QED BY <1>3, <1>4, SomeFirstFit DEF FirstFits
<1>6. Decisive(pairs) \in fits
  <2>. HIDE DEF fits, pairs
  <2>. QED BY <1>4, <1>5, DecisiveIsAPair
<1>7. log[Decisive(pairs)[2]].kind = "tcp_handshake_confirmed"
  <2>. HIDE DEF pairs, fits
  <2>. QED BY <1>4, <1>6 DEF Responses
<1>8. CorrelateTCP(in, relevant) =
        Flow("available", "observed", TcpOutcome(log[Decisive(pairs)[2]].kind), Matched(log, pairs),
             "confirmed_endpoint_response", method)
  <2>1. emissions # {} /\ pairs # {}
    BY <1>1, <1>5
  <2>. QED BY <2>1, Zenon DEF CorrelateTCP
<1>9. TcpOutcome(log[Decisive(pairs)[2]].kind) = "tcp_handshake_confirmed"
  BY <1>7 DEF TcpOutcome
<1>. QED
  <2>. HIDE DEF log, emissions, pairs, method
  <2>. QED BY <1>8, <1>9, FlowFields

\* Without any other kind of answer around, a confirmation, no answer or nothing
\* at all is the outcome.
LEMMA NoOtherAnswer ==
  ASSUME NEW in, NEW relevant, relevant \subseteq Nat,
         \A i \in relevant : in.capture.observations[i].kind \notin {"inbound_tcp_syn_ack", "tcp_rst"}
  PROVE  CorrelateTCP(in, relevant).outcome
           \in {"tcp_handshake_confirmed", "capture_unavailable", "no_matching_response_observed"}
<1>. DEFINE log == in.capture.observations
            emissions == {x \in Emissions(log, "outbound_tcp_syn", relevant) :
                            in.tuple.port # 0 => log[x].localPort = in.tuple.port}
            fits == {p \in emissions \X relevant :
                       log[p[2]].kind \in Responses /\ TcpPair(log[p[1]], log[p[2]])}
            pairs == FirstFits(fits)
            method == Method(log, emissions, "correlation_id_and_tcp_tuple", "process_and_tcp_tuple")
<1>1. CASE emissions = {}
  <2>1. CorrelateTCP(in, relevant) = Undecided("available", "capture_unavailable")
    BY <1>1, Zenon DEF CorrelateTCP
  <2>. QED BY <2>1 DEF Undecided, Flow
<1>2. CASE emissions # {} /\ pairs = {}
  <2>1. CorrelateTCP(in, relevant) = Unanswered(method)
    BY <1>2, Zenon DEF CorrelateTCP
  <2>. HIDE DEF method
  <2>. QED BY <2>1 DEF Unanswered, Flow
<1>3. CASE emissions # {} /\ pairs # {}
  <2>1. emissions \subseteq relevant
    BY DEF Emissions
  <2>2. fits \subseteq Nat \X Nat /\ \A p \in fits : p[2] \in relevant /\ log[p[2]].kind \in Responses
    BY <2>1
  <2>3. pairs \subseteq fits
    <3>. HIDE DEF fits
    <3>. QED BY DEF FirstFits
  <2>4. Decisive(pairs) \in fits
    <3>. HIDE DEF fits, pairs
    <3>. QED BY <1>3, <2>2, <2>3, DecisiveIsAPair
  <2>5. log[Decisive(pairs)[2]].kind = "tcp_handshake_confirmed"
    <3>. HIDE DEF pairs, fits
    <3>. QED BY <2>2, <2>4 DEF Responses
  <2>6. CorrelateTCP(in, relevant) =
          Flow("available", "observed", TcpOutcome(log[Decisive(pairs)[2]].kind), Matched(log, pairs),
               "confirmed_endpoint_response", method)
    BY <1>3, Zenon DEF CorrelateTCP
  <2>7. TcpOutcome(log[Decisive(pairs)[2]].kind) = "tcp_handshake_confirmed"
    BY <2>5 DEF TcpOutcome
  <2>. HIDE DEF log, emissions, pairs, method
  <2>. QED BY <2>6, <2>7, FlowFields
<1>. QED BY <1>1, <1>2, <1>3

-----------------------------------------------------------------------------
(* What is filed of a TCP probe.                                           *)

\* The fields of what runWithPacketEvidence hands to Correlate.
LEMMA InputFields ==
  /\ CorrelationInput.probeType = probeType /\ CorrelationInput.correlation = 1
  /\ CorrelationInput.process = 1 /\ CorrelationInput.port = 1
  /\ CorrelationInput.addresses = {1} /\ CorrelationInput.selected = 1
  /\ CorrelationInput.passed = result.passed /\ CorrelationInput.tuple = result.tuple
  /\ CorrelationInput.capture = snapshot /\ CorrelationInput.startError = startError
  /\ CorrelationInput.cancelled = (ctx = "cancelled")
  BY DEF CorrelationInput

\* What the result tells Correlate of a connection that was started.
LEMMA ResultFields ==
  ASSUME NEW state
  PROVE  /\ ResultOf(state).passed = (state = "confirmed")
         /\ ResultOf(state).tuple.port = IF state = "confirmed" THEN Own ELSE 0
         /\ ResultOf(state).tuple.remote = IF state = "idle" THEN 0 ELSE 1
  BY DEF ResultOf

\* Every observation of the probe's own connection within the window is relevant
\* to it (identityMatches, processMatches, withinWindow, tcpTargetMatches).
LEMMA OwnIsRelevant ==
  ASSUME probeType = "tcp", NEW state, result = ResultOf(state), NEW kind,
         NEW i \in DOMAIN snapshot.observations,
         snapshot.observations[i] = TcpObservation(Own, kind, FALSE)
  PROVE  i \in RelevantObservations(CorrelationInput)
<1>. DEFINE o == TcpObservation(Own, kind, FALSE)
            in == CorrelationInput
<1>1. /\ o.correlation = 1 /\ o.process = 1 /\ o.localPort = Own
      /\ o.peer = 1 /\ o.peerPort = 1 /\ o.inWindow
  BY OwnFlow DEF TcpObservation
<1>2. in.tuple.port \in {0, Own} /\ in.tuple.remote \in {0, 1} /\ in.selected = 1
  BY InputFields, ResultFields
<1>3. Relevant(o, in)
  <2>. HIDE DEF o, in
  <2>1. in.probeType = "tcp" /\ in.correlation = 1 /\ in.process = 1 /\ in.port = 1
    BY InputFields DEF in
  <2>. QED BY <1>1, <1>2, <2>1 DEF Relevant, IdentityMatches, ProcessMatches, TcpTargetMatches, Own
<1>. QED BY <1>3, InputFields, Zenon DEF RelevantObservations

\* For a connection that was made only observations of it within the window are
\* relevant, since its result names its local port.
LEMMA RelevantIsOwn ==
  ASSUME probeType = "tcp", result = ResultOf("confirmed"),
         snapshot.observations \in Seq(Observations),
         NEW i \in RelevantObservations(CorrelationInput)
  PROVE  /\ i \in DOMAIN snapshot.observations
         /\ \E kind \in TcpKinds : snapshot.observations[i] = TcpObservation(Own, kind, FALSE)
<1>. DEFINE o == snapshot.observations[i]
            in == CorrelationInput
<1>1. i \in DOMAIN snapshot.observations /\ Relevant(o, in)
  BY InputFields DEF RelevantObservations
<1>2. PICK f \in Flows, kind \in TcpKinds, late \in BOOLEAN : o = TcpObservation(f, kind, late)
  BY <1>1 DEF Observations
<1>3. in.probeType = "tcp" /\ in.tuple.port = Own
  BY InputFields, ResultFields
<1>4. o.localPort = Own
  <2>. HIDE DEF o, in
  <2>. QED BY <1>1, <1>3 DEF Relevant, TcpTargetMatches, Own
<1>5. f = Own
  BY <1>2, <1>4 DEF TcpObservation
<1>6. o.inWindow
  <2>. HIDE DEF o, in
  <2>. QED BY <1>1 DEF Relevant
<1>7. late = FALSE
  <2>1. o.inWindow = ~late
    BY <1>2 DEF TcpObservation
  <2>. HIDE DEF o
  <2>2. ~late
    BY <1>6, <2>1, Zenon
  <2>. QED BY <2>2
<1>. QED BY <1>1, <1>2, <1>5, <1>7

\* A SYN and a confirmation of one connection are a pair.
LEMMA OwnPair ==
  TcpPair(TcpObservation(Own, "outbound_tcp_syn", FALSE),
          TcpObservation(Own, "tcp_handshake_confirmed", FALSE))
  BY DEF TcpPair, Agrees, TcpObservation

\* What a capture whose status is available promises (captureStatus).
LEMMA AvailableIsWhole ==
  ASSUME CaptureStatus(CorrelationInput) = "available", startError \in {None} \cup StartErrors
  PROVE  startError = None /\ Whole(snapshot)
  BY InputFields DEF CaptureStatus, Whole, StartErrors, None

\* What Correlate says when the capture has no result of its own (Correlate's
\* two early returns).
LEMMA EarlyReturns ==
  ASSUME NEW in, CaptureStatus(in) # "available"
  PROVE  Correlate(in).outcome \in {"cancelled", "capture_unavailable"}
<1>1. \A status, outcome : Undecided(status, outcome).outcome = outcome
  BY DEF Undecided, Flow
<1>2. \/ \E status : Correlate(in) = Undecided(status, "cancelled")
      \/ \E status : Correlate(in) = Undecided(status, "capture_unavailable")
  BY Zenon DEF Correlate
<1>. QED BY <1>1, <1>2

\* What Correlate says of a TCP probe whose capture is available: what the search
\* ended with, or that the probe was not seen to send.
LEMMA AvailableSays ==
  ASSUME NEW in, CaptureStatus(in) = "available", in.probeType = "tcp"
  PROVE  \/ Correlate(in) = CorrelateTCP(in, RelevantObservations(in))
         \/ Correlate(in) = NotEmitted
<1>1. CaptureStatus(in) # "cancelled" /\ in.probeType # "path"
  OBVIOUS
<1>. QED BY <1>1, Zenon DEF Correlate

\* What Correlate says of a TCP probe that was seen to send.
LEMMA SeenToSend ==
  ASSUME NEW in, CaptureStatus(in) = "available", in.probeType = "tcp",
         CorrelateTCP(in, RelevantObservations(in)).emission = "observed"
  PROVE  Correlate(in) = CorrelateTCP(in, RelevantObservations(in))
<1>. DEFINE flow == CorrelateTCP(in, RelevantObservations(in))
<1>1. CaptureStatus(in) # "cancelled" /\ in.probeType # "path" /\ flow.emission # "unknown"
  OBVIOUS
<1>2. Correlate(in) = IF flow.emission = "unknown" /\ in.capture.complete
                         /\ CanClassifyProbeNotEmitted(in)
                      THEN NotEmitted ELSE flow
  BY <1>1, Zenon DEF Correlate
<1>. QED BY <1>1, <1>2, Zenon

\* What is filed of a TCP probe: with the whole trail of its connection in the
\* snapshot, Correlate says nothing the connection contradicts.
LEMMA WhatIsFiled ==
  ASSUME CaptureTypeInv, SnapshotInv, ResultInv, pc = "correlating", probeType = "tcp"
  PROVE  /\ result.passed =>
              \/ Correlate(CorrelationInput).outcome
                   \in {"tcp_handshake_confirmed", "capture_unavailable", "cancelled"}
              \/ /\ InTime # "confirmed"
                 /\ Correlate(CorrelationInput).outcome
                      \in {"no_matching_response_observed", "probe_not_observed"}
         /\ Correlate(CorrelationInput).outcome = "probe_not_observed"
              => InTime \in {"idle", "requested"}
<1>. DEFINE in   == CorrelationInput
            log  == snapshot.observations
            flow == CorrelateTCP(in, RelevantObservations(in))
<1>1. CASE CaptureStatus(in) # "available"
  <2>1. Correlate(in).outcome \in {"cancelled", "capture_unavailable"}
    BY <1>1, EarlyReturns
  <2>. QED BY <2>1
<1>2. CASE CaptureStatus(in) = "available"
  <2>1. startError = None /\ Whole(snapshot)
    BY <1>2, AvailableIsWhole DEF CaptureTypeInv
  <2>2. /\ log \in Seq(Observations)
        /\ Seen(log, "tcp_rst") => conn[Own] = "reset"
        /\ HasSent(InTime) => Seen(log, "outbound_tcp_syn")
        /\ InTime = "confirmed" => Seen(log, "tcp_handshake_confirmed")
    BY <2>1 DEF SnapshotInv
  <2>3. result = ResultOf(conn[Own]) /\ conn[Own] \in States /\ InTime \in States
    BY OwnFlow DEF ResultInv, CaptureTypeInv, InTime, Late, Starting
  <2>4. in.probeType = "tcp" /\ in.capture.observations = log /\ in.tuple = result.tuple
    BY InputFields
  <2>5. ASSUME HasSent(InTime)
        PROVE  Correlate(in) = flow
    <3>1. PICK e \in DOMAIN log : log[e] = TcpObservation(Own, "outbound_tcp_syn", FALSE)
      BY <2>2, <2>5 DEF Seen
    <3>2. e \in RelevantObservations(in)
      BY <3>1, <2>3, OwnIsRelevant
    <3>3. log[e].kind = "outbound_tcp_syn" /\ log[e].localPort = Own
      BY <3>1 DEF TcpObservation
    <3>4. result.tuple.port # 0 => result.tuple.port = Own
      BY <2>3, ResultFields
    <3>5. flow.emission = "observed"
      BY <2>4, <3>2, <3>3, <3>4, SynIsEmission
    <3>. QED BY <1>2, <2>4, <3>5, SeenToSend
  <2>6. ASSUME result.passed
        PROVE  \A i \in RelevantObservations(in) :
                  i \in Nat /\ log[i].kind \notin {"inbound_tcp_syn_ack", "tcp_rst"}
    <3>1. conn[Own] = "confirmed" /\ result = ResultOf("confirmed")
      BY <2>3, <2>6, ResultFields
    <3>. SUFFICES ASSUME NEW i \in RelevantObservations(in)
                  PROVE  i \in Nat /\ log[i].kind \notin {"inbound_tcp_syn_ack", "tcp_rst"}
      OBVIOUS
    <3>2. PICK kind \in TcpKinds : log[i] = TcpObservation(Own, kind, FALSE)
      BY <2>2, <3>1, RelevantIsOwn
    <3>3. i \in DOMAIN log
      BY <2>2, <3>1, RelevantIsOwn
    <3>4. kind # "tcp_rst"
      BY <2>2, <3>1, <3>2, <3>3 DEF Seen
    <3>5. log[i].kind = kind
      BY <3>2 DEF TcpObservation
    <3>. QED BY <2>2, <3>3, <3>4, <3>5 DEF TcpKinds
  <2>7. ASSUME result.passed, InTime = "confirmed"
        PROVE  Correlate(in).outcome = "tcp_handshake_confirmed"
    <3>1. result.tuple.port = Own
      BY <2>3, <2>7, ResultFields
    <3>2. PICK e \in DOMAIN log : log[e] = TcpObservation(Own, "outbound_tcp_syn", FALSE)
      BY <2>2, <2>7 DEF Seen, HasSent
    <3>3. PICK a \in DOMAIN log : log[a] = TcpObservation(Own, "tcp_handshake_confirmed", FALSE)
      BY <2>2, <2>7 DEF Seen
    <3>4. e \in RelevantObservations(in) /\ a \in RelevantObservations(in)
      BY <2>3, <3>2, <3>3, OwnIsRelevant
    <3>5. /\ log[e].kind = "outbound_tcp_syn" /\ log[e].localPort = Own
          /\ log[a].kind = "tcp_handshake_confirmed" /\ TcpPair(log[e], log[a])
      BY <3>2, <3>3, OwnPair DEF TcpObservation
    <3>6. flow.outcome = "tcp_handshake_confirmed"
      <4>1. \A i \in RelevantObservations(in) :
               i \in Nat /\ log[i].kind \notin {"inbound_tcp_syn_ack", "tcp_rst"}
        BY <2>6, <2>7
      <4>. HIDE DEF in, log
      <4>. QED BY <2>4, <3>1, <3>4, <3>5, <4>1, ConfirmationDecides
    <3>7. Correlate(in) = flow
      BY <2>5, <2>7 DEF HasSent
    <3>. QED BY <3>6, <3>7
  <2>8. ASSUME result.passed
        PROVE  Correlate(in).outcome \in {"tcp_handshake_confirmed", "capture_unavailable",
                                          "no_matching_response_observed", "probe_not_observed"}
    <3>1. flow.outcome \in {"tcp_handshake_confirmed", "capture_unavailable",
                            "no_matching_response_observed"}
      <4>1. \A i \in RelevantObservations(in) :
               i \in Nat /\ log[i].kind \notin {"inbound_tcp_syn_ack", "tcp_rst"}
        BY <2>6, <2>8
      <4>. HIDE DEF in, log
      <4>. QED BY <2>4, <4>1, NoOtherAnswer
    <3>2. Correlate(in) = flow \/ Correlate(in) = NotEmitted
      BY <1>2, <2>4, AvailableSays
    <3>3. NotEmitted.outcome = "probe_not_observed"
      BY DEF NotEmitted, Flow
    <3>. QED BY <3>1, <3>2, <3>3
  <2>9. ASSUME Correlate(in).outcome = "probe_not_observed"
        PROVE  InTime \in {"idle", "requested"}
    <3>1. flow.outcome # "probe_not_observed"
      BY TcpSays
    <3>2. ~HasSent(InTime)
      BY <2>5, <2>9, <3>1
    <3>. QED BY <2>3, <3>2 DEF HasSent, States
  <2>. QED BY <2>7, <2>8, <2>9
<1>. QED BY <1>1, <1>2

-----------------------------------------------------------------------------
(* What the callback makes of an event.                                    *)

\* The ways consume can end (etwCapture.consume).
LEMMA ConsumedForms ==
  ASSUME NEW c \in Captures, NEW event \in Events
  PROVE  LET f == event.flow
             d == Consumed(c, event)
         IN  \/ d = [c EXCEPT !.lost = @ + 1]
             \/ event.type = "garbled" /\ d = [c EXCEPT !.garbled = @ + 1]
             \/ event.type = "requested" /\ FlowInScope(f) /\ d = [c EXCEPT !.flows = @ \cup {f}]
             \/ /\ event.type = "reset" /\ FlowInScope(f)
                /\ d = Observed([c EXCEPT !.flows = @ \cup {f}], f, "tcp_rst", event.late)
             \/ /\ event.type = "sent" /\ f \in c.flows
                /\ d = Observed(c, f, "outbound_tcp_syn", event.late)
             \/ event.type = "confirmed" /\ d = Observed(c, f, "tcp_handshake_confirmed", event.late)
             \/ /\ d = c /\ event.type # "garbled"
                /\ f = Own => event.type = "sent" /\ Own \notin c.flows
<1>1. event.type \in {"requested", "sent", "confirmed", "reset", "garbled"}
  BY DEF Events
<1>. QED BY <1>1, OwnFlow DEF Consumed

\* What is seen in a log after one more observation.
LEMMA SeenAfterAppend ==
  ASSUME NEW log \in Seq(Observations), NEW f \in Flows, NEW k \in TcpKinds, NEW late \in BOOLEAN
  PROVE  /\ Append(log, TcpObservation(f, k, late)) \in Seq(Observations)
         /\ \A kind : Seen(log, kind) => Seen(Append(log, TcpObservation(f, k, late)), kind)
         /\ f = Own /\ ~late => Seen(Append(log, TcpObservation(f, k, late)), k)
         /\ \A kind : Seen(Append(log, TcpObservation(f, k, late)), kind)
                        => Seen(log, kind) \/ (f = Own /\ ~late /\ k = kind)
<1>. DEFINE o == TcpObservation(f, k, late)
            more == Append(log, o)
<1>1. o \in Observations
  BY DEF Observations
<1>2. \A kind : o = TcpObservation(Own, kind, FALSE) => f = Own /\ ~late /\ k = kind
  BY DEF TcpObservation
<1>3. f = Own /\ ~late => o = TcpObservation(Own, k, FALSE)
  OBVIOUS
<1>. HIDE DEF o
<1>4. /\ more \in Seq(Observations) /\ Len(more) = Len(log) + 1 /\ more[Len(log) + 1] = o
      /\ DOMAIN log = 1..Len(log) /\ DOMAIN more = 1..(Len(log) + 1) /\ Len(log) \in Nat
      /\ \A i \in 1..Len(log) : more[i] = log[i]
  BY <1>1
<1>5. \A i \in DOMAIN more : i \in DOMAIN log \/ i = Len(log) + 1
  BY <1>4
<1>6. DOMAIN log \subseteq DOMAIN more /\ Len(log) + 1 \in DOMAIN more
  BY <1>4
<1>. HIDE DEF more
<1>7. \A kind : Seen(log, kind) => Seen(more, kind)
  BY <1>4, <1>6 DEF Seen
<1>8. f = Own /\ ~late => Seen(more, k)
  BY <1>3, <1>4, <1>6 DEF Seen
<1>9. \A kind : Seen(more, kind) => Seen(log, kind) \/ (f = Own /\ ~late /\ k = kind)
  BY <1>2, <1>4, <1>5 DEF Seen
<1>. QED BY <1>4, <1>7, <1>8, <1>9 DEF more, o

\* A capture with one more observation.
LEMMA ObservedFields ==
  ASSUME NEW c \in Captures, NEW f \in Flows, NEW k \in TcpKinds, NEW late \in BOOLEAN
  PROVE  /\ Observed(c, f, k, late) \in Captures
         /\ Observed(c, f, k, late).observations = Append(c.observations, TcpObservation(f, k, late))
         /\ Observed(c, f, k, late).flows = c.flows /\ Observed(c, f, k, late).lost = c.lost
         /\ Observed(c, f, k, late).garbled = c.garbled /\ Observed(c, f, k, late).cancelled = c.cancelled
         /\ Observed(c, f, k, late).complete = c.complete /\ Observed(c, f, k, late).error = c.error
<1>1. Append(c.observations, TcpObservation(f, k, late)) \in Seq(Observations)
  BY SeenAfterAppend DEF Captures
<1>. HIDE DEF Observations
<1>. QED BY <1>1 DEF Captures, Observed

\* What an event changes: nothing already recorded is forgotten, only a reset of
\* the connection shows as one, and an event of the connection is recorded unless
\* something is counted as lost or garbled.
Recorded(c, event, d) ==
    /\ d \in Captures
    /\ c.flows \subseteq d.flows /\ c.lost <= d.lost /\ c.garbled <= d.garbled
    /\ d.cancelled = c.cancelled /\ d.error = c.error
    /\ \A kind : Seen(c.observations, kind) => Seen(d.observations, kind)
    /\ Seen(d.observations, "tcp_rst") =>
         Seen(c.observations, "tcp_rst") \/ event = OwnEvent("reset")
    /\ d.lost = 0 /\ d.garbled = 0 =>
         /\ event.type # "garbled"
         /\ event = OwnEvent("requested") => Own \in d.flows
         /\ event = OwnEvent("sent") /\ Own \in c.flows => Seen(d.observations, "outbound_tcp_syn")
         /\ event = OwnEvent("confirmed") => Seen(d.observations, "tcp_handshake_confirmed")

\* consume does no more and no less (etwCapture.consume).
LEMMA EventIsRecorded ==
  ASSUME NEW c \in Captures, NEW event \in Events, NEW d, d = Consumed(c, event)
  PROVE  Recorded(c, event, d)
<1>. DEFINE f == event.flow
            known == [c EXCEPT !.flows = @ \cup {f}]
<1>0. /\ f \in Flows /\ event.late \in BOOLEAN /\ c.lost \in Nat /\ c.garbled \in Nat
      /\ c.flows \subseteq (Lanes \cup {Own})
      /\ c.observations \in Seq(Observations)
      /\ \A type : event = OwnEvent(type) <=> event.type = type /\ f = Own /\ ~event.late
  BY DEF Events, Captures, OwnEvent
<1>1. CASE d = [c EXCEPT !.lost = @ + 1]
  <2>1. /\ d \in Captures /\ d.lost = c.lost + 1 /\ d.flows = c.flows /\ d.garbled = c.garbled
        /\ d.cancelled = c.cancelled /\ d.error = c.error /\ d.observations = c.observations
    <3>. HIDE DEF Observations
    <3>. QED BY <1>0, <1>1 DEF Captures
  <2>. QED BY <1>0, <2>1 DEF Recorded
<1>2. CASE event.type = "garbled" /\ d = [c EXCEPT !.garbled = @ + 1]
  <2>1. /\ d \in Captures /\ d.garbled = c.garbled + 1 /\ d.flows = c.flows /\ d.lost = c.lost
        /\ d.cancelled = c.cancelled /\ d.error = c.error /\ d.observations = c.observations
    <3>. HIDE DEF Observations
    <3>. QED BY <1>0, <1>2 DEF Captures
  <2>. QED BY <1>0, <2>1 DEF Recorded
<1>3. ASSUME FlowInScope(f)
      PROVE  /\ known \in Captures /\ known.lost = c.lost /\ known.flows = c.flows \cup {f}
             /\ known.garbled = c.garbled /\ known.cancelled = c.cancelled
             /\ known.error = c.error /\ known.observations = c.observations
  <2>1. f \in Lanes \cup {Own}
    BY <1>0, <1>3, FlowsInScope
  <2>. HIDE DEF Observations
  <2>. QED BY <1>0, <2>1 DEF Captures
<1>4. CASE event.type = "requested" /\ FlowInScope(f) /\ d = known
  <2>. HIDE DEF known
  <2>1. /\ known \in Captures /\ known.lost = c.lost /\ known.flows = c.flows \cup {f}
        /\ known.garbled = c.garbled /\ known.cancelled = c.cancelled
        /\ known.error = c.error /\ known.observations = c.observations
    BY <1>3, <1>4
  <2>2. d = known /\ event.type = "requested"
    BY <1>4
  <2>. QED BY <1>0, <2>1, <2>2 DEF Recorded
<1>5. CASE event.type = "reset" /\ FlowInScope(f) /\ d = Observed(known, f, "tcp_rst", event.late)
  <2>. HIDE DEF known
  <2>0. /\ known \in Captures /\ known.lost = c.lost /\ known.flows = c.flows \cup {f}
        /\ known.garbled = c.garbled /\ known.cancelled = c.cancelled
        /\ known.error = c.error /\ known.observations = c.observations
    BY <1>3, <1>5
  <2>1. /\ d \in Captures /\ d.lost = c.lost /\ d.flows = c.flows \cup {f} /\ d.garbled = c.garbled
        /\ d.cancelled = c.cancelled /\ d.error = c.error
        /\ d.observations = Append(c.observations, TcpObservation(f, "tcp_rst", event.late))
    <3>1. d = Observed(known, f, "tcp_rst", event.late)
      BY <1>5
    <3>2. "tcp_rst" \in TcpKinds
      BY DEF TcpKinds
    <3>. HIDE DEF f
    <3>. QED BY <1>0, <2>0, <3>1, <3>2, ObservedFields
  <2>2. /\ \A kind : Seen(c.observations, kind) => Seen(d.observations, kind)
        /\ \A kind : Seen(d.observations, kind) =>
             Seen(c.observations, kind) \/ (f = Own /\ ~event.late /\ kind = "tcp_rst")
    BY <1>0, <2>1, SeenAfterAppend DEF TcpKinds
  <2>. QED BY <1>0, <1>5, <2>1, <2>2 DEF Recorded
<1>6. CASE event.type = "sent" /\ f \in c.flows /\ d = Observed(c, f, "outbound_tcp_syn", event.late)
  <2>1. /\ d \in Captures /\ d.lost = c.lost /\ d.flows = c.flows /\ d.garbled = c.garbled
        /\ d.cancelled = c.cancelled /\ d.error = c.error
        /\ d.observations = Append(c.observations, TcpObservation(f, "outbound_tcp_syn", event.late))
    BY <1>0, <1>6, ObservedFields DEF TcpKinds
  <2>2. /\ \A kind : Seen(c.observations, kind) => Seen(d.observations, kind)
        /\ f = Own /\ ~event.late => Seen(d.observations, "outbound_tcp_syn")
        /\ \A kind : Seen(d.observations, kind) =>
             Seen(c.observations, kind) \/ (f = Own /\ ~event.late /\ kind = "outbound_tcp_syn")
    BY <1>0, <2>1, SeenAfterAppend DEF TcpKinds
  <2>. QED BY <1>0, <1>6, <2>1, <2>2 DEF Recorded
<1>7. CASE event.type = "confirmed" /\ d = Observed(c, f, "tcp_handshake_confirmed", event.late)
  <2>1. /\ d \in Captures /\ d.lost = c.lost /\ d.flows = c.flows /\ d.garbled = c.garbled
        /\ d.cancelled = c.cancelled /\ d.error = c.error
        /\ d.observations = Append(c.observations, TcpObservation(f, "tcp_handshake_confirmed", event.late))
    BY <1>0, <1>7, ObservedFields DEF TcpKinds
  <2>2. /\ \A kind : Seen(c.observations, kind) => Seen(d.observations, kind)
        /\ f = Own /\ ~event.late => Seen(d.observations, "tcp_handshake_confirmed")
        /\ \A kind : Seen(d.observations, kind) =>
             Seen(c.observations, kind) \/ (f = Own /\ ~event.late /\ kind = "tcp_handshake_confirmed")
    BY <1>0, <2>1, SeenAfterAppend DEF TcpKinds
  <2>. QED BY <1>0, <1>7, <2>1, <2>2 DEF Recorded
<1>8. CASE d = c /\ event.type # "garbled" /\ (f = Own => event.type = "sent" /\ Own \notin c.flows)
  <2>. QED BY <1>0, <1>8 DEF Recorded
<1>. QED
  <2>. HIDE DEF known
  <2>1. \/ d = [c EXCEPT !.lost = @ + 1]
        \/ event.type = "garbled" /\ d = [c EXCEPT !.garbled = @ + 1]
        \/ event.type = "requested" /\ FlowInScope(f) /\ d = known
        \/ event.type = "reset" /\ FlowInScope(f) /\ d = Observed(known, f, "tcp_rst", event.late)
        \/ event.type = "sent" /\ f \in c.flows /\ d = Observed(c, f, "outbound_tcp_syn", event.late)
        \/ event.type = "confirmed" /\ d = Observed(c, f, "tcp_handshake_confirmed", event.late)
        \/ d = c /\ event.type # "garbled" /\ (f = Own => event.type = "sent" /\ Own \notin c.flows)
    BY ConsumedForms, Zenon DEF known
  <2>. QED BY <2>1, <1>1, <1>2, <1>4, <1>5, <1>6, <1>7, <1>8, Zenon

-----------------------------------------------------------------------------
(* What becomes of the trail when the buffer grows and shrinks.            *)

\* What a buffer holds after one more event (etwRecordCallback's queue).
LEMMA BufferGrows ==
  ASSUME NEW b \in Seq(Events), NEW event \in Events
  PROVE  /\ Append(b, event) \in Seq(Events)
         /\ \A type : Pending(b, type) => Pending(Append(b, event), type)
         /\ \A type : event = OwnEvent(type) => Pending(Append(b, event), type)
         /\ \A type : Pending(Append(b, event), type) => Pending(b, type) \/ event = OwnEvent(type)
         /\ \A flows : SynPending(b, flows) => SynPending(Append(b, event), flows)
         /\ \A flows : event = OwnEvent("sent") /\ (Own \in flows \/ Pending(b, "requested"))
                         => SynPending(Append(b, event), flows)
         /\ Garbled(b) => Garbled(Append(b, event))
         /\ event.type = "garbled" => Garbled(Append(b, event))
<1>. DEFINE more == Append(b, event)
<1>1. /\ more \in Seq(Events) /\ Len(more) = Len(b) + 1 /\ more[Len(b) + 1] = event
      /\ DOMAIN b = 1..Len(b) /\ DOMAIN more = 1..(Len(b) + 1) /\ Len(b) \in Nat
      /\ \A i \in 1..Len(b) : more[i] = b[i]
  OBVIOUS
<1>2. /\ \A i \in DOMAIN more : i \in DOMAIN b \/ i = Len(b) + 1
      /\ DOMAIN b \subseteq DOMAIN more /\ Len(b) + 1 \in DOMAIN more
      /\ 1..(Len(b) + 1 - 1) = DOMAIN b
      /\ \A i \in DOMAIN b : 1..(i - 1) \subseteq DOMAIN b
  BY <1>1
<1>3. \A i \in DOMAIN b : more[i] = b[i]
  BY <1>1
<1>4. more[Len(b) + 1] = event /\ more \in Seq(Events)
  BY <1>1
<1>. HIDE DEF more
<1>5. /\ \A type : Pending(b, type) => Pending(more, type)
      /\ \A type : event = OwnEvent(type) => Pending(more, type)
      /\ \A type : Pending(more, type) => Pending(b, type) \/ event = OwnEvent(type)
  BY <1>2, <1>3, <1>4 DEF Pending
<1>6. \A flows : SynPending(b, flows) => SynPending(more, flows)
  <2>. SUFFICES ASSUME NEW flows, SynPending(b, flows) PROVE SynPending(more, flows)
    OBVIOUS
  <2>1. PICK i \in DOMAIN b :
          /\ b[i] = OwnEvent("sent")
          /\ Own \in flows \/ \E j \in 1..(i - 1) : b[j] = OwnEvent("requested")
    BY DEF SynPending
  <2>2. i \in DOMAIN more /\ more[i] = OwnEvent("sent")
    BY <1>2, <1>3, <2>1
  <2>3. Own \in flows \/ \E j \in 1..(i - 1) : more[j] = OwnEvent("requested")
    BY <1>2, <1>3, <2>1
  <2>. QED BY <2>2, <2>3 DEF SynPending
<1>7. \A flows : event = OwnEvent("sent") /\ (Own \in flows \/ Pending(b, "requested"))
                   => SynPending(more, flows)
  <2>. SUFFICES ASSUME NEW flows, event = OwnEvent("sent"),
                       Own \in flows \/ Pending(b, "requested")
                PROVE  SynPending(more, flows)
    OBVIOUS
  <2>1. Pending(b, "requested") =>
          \E j \in 1..(Len(b) + 1 - 1) : more[j] = OwnEvent("requested")
    BY <1>2, <1>3 DEF Pending
  <2>. QED BY <1>2, <1>4, <2>1 DEF SynPending
<1>8. /\ Garbled(b) => Garbled(more)
      /\ event.type = "garbled" => Garbled(more)
  BY <1>2, <1>3, <1>4 DEF Garbled
<1>. QED BY <1>4, <1>5, <1>6, <1>7, <1>8 DEF more

\* What a buffer holds after its first event was consumed.
LEMMA BufferShrinks ==
  ASSUME NEW b \in Seq(Events), b # <<>>
  PROVE  /\ Tail(b) \in Seq(Events) /\ Head(b) \in Events
         /\ \A type : Pending(b, type) => Head(b) = OwnEvent(type) \/ Pending(Tail(b), type)
         /\ \A type : Pending(Tail(b), type) => Pending(b, type)
         /\ Head(b) \in Events /\ \A type : Head(b) = OwnEvent(type) => Pending(b, type)
         /\ Garbled(b) => Head(b).type = "garbled" \/ Garbled(Tail(b))
         /\ \A flows : SynPending(b, flows) =>
              \/ Head(b) = OwnEvent("sent") /\ Own \in flows
              \/ Head(b) = OwnEvent("requested") /\ Pending(Tail(b), "sent")
              \/ SynPending(Tail(b), flows)
<1>. DEFINE h == Head(b)
            rest == Tail(b)
<1>1. /\ rest \in Seq(Events) /\ h \in Events /\ h = b[1] /\ Len(rest) = Len(b) - 1
      /\ DOMAIN b = 1..Len(b) /\ DOMAIN rest = 1..(Len(b) - 1) /\ Len(b) \in Nat /\ Len(b) > 0
      /\ \A i \in 1..(Len(b) - 1) : rest[i] = b[i + 1]
  OBVIOUS
<1>2. /\ \A i \in DOMAIN b : i = 1 \/ (i - 1 \in DOMAIN rest /\ rest[i - 1] = b[i])
      /\ \A i \in DOMAIN rest : i + 1 \in DOMAIN b /\ rest[i] = b[i + 1]
      /\ 1 \in DOMAIN b /\ b[1] = h
  BY <1>1
<1>3. \A i \in DOMAIN b : \A j \in 1..(i - 1) :
        j = 1 \/ (j - 1 \in 1..((i - 1) - 1) /\ j \in DOMAIN b)
  BY <1>1
<1>4. \A i \in DOMAIN b : i = 1 => 1..(i - 1) = {}
  BY <1>1
<1>5. rest \in Seq(Events) /\ h \in Events
  BY <1>1
<1>. HIDE DEF h, rest
<1>6. /\ \A type : Pending(b, type) => h = OwnEvent(type) \/ Pending(rest, type)
      /\ \A type : Pending(rest, type) => Pending(b, type)
      /\ \A type : h = OwnEvent(type) => Pending(b, type)
  BY <1>2 DEF Pending
<1>7. Garbled(b) => h.type = "garbled" \/ Garbled(rest)
  BY <1>2 DEF Garbled
<1>8. ASSUME NEW flows, SynPending(b, flows)
      PROVE  \/ h = OwnEvent("sent") /\ Own \in flows
             \/ h = OwnEvent("requested") /\ Pending(rest, "sent")
             \/ SynPending(rest, flows)
  <2>1. PICK i \in DOMAIN b :
          /\ b[i] = OwnEvent("sent")
          /\ Own \in flows \/ \E j \in 1..(i - 1) : b[j] = OwnEvent("requested")
    BY <1>8 DEF SynPending
  <2>2. CASE i = 1
    BY <1>2, <1>4, <2>1, <2>2
  <2>3. CASE i # 1
    <3>1. i - 1 \in DOMAIN rest /\ rest[i - 1] = OwnEvent("sent")
      BY <1>2, <2>1, <2>3
    <3>2. CASE Own \in flows
      BY <3>1, <3>2 DEF SynPending
    <3>3. ASSUME NEW j \in 1..(i - 1), b[j] = OwnEvent("requested")
          PROVE  \/ h = OwnEvent("requested") /\ Pending(rest, "sent")
                 \/ SynPending(rest, flows)
      <4>1. CASE j = 1
        BY <1>2, <3>1, <3>3, <4>1 DEF Pending
      <4>2. CASE j # 1
        <5>1. j - 1 \in 1..((i - 1) - 1) /\ rest[j - 1] = OwnEvent("requested")
          BY <1>2, <1>3, <3>3, <4>2
        <5>. QED BY <3>1, <5>1 DEF SynPending
      <4>. QED BY <4>1, <4>2
    <3>. QED BY <2>1, <3>2, <3>3
  <2>. QED BY <2>2, <2>3
<1>. QED BY <1>5, <1>6, <1>7, <1>8 DEF h, rest

\* Nothing that is broken becomes whole by consuming an event.
LEMMA BrokenStays ==
  ASSUME NEW b \in Seq(Events), b # <<>>, NEW c \in Captures, NEW d, NEW dropped,
         Recorded(c, Head(b), d), ~Broken(Tail(b), d, dropped)
  PROVE  ~Broken(b, c, dropped) /\ d.lost = 0 /\ d.garbled = 0
<1>1. d.lost = 0 /\ d.garbled = 0 /\ dropped = 0 /\ ~d.cancelled /\ ~d.error /\ ~Garbled(Tail(b))
  BY DEF Broken
<1>2. /\ c.lost <= d.lost /\ c.garbled <= d.garbled /\ d.cancelled = c.cancelled
      /\ d.error = c.error /\ Head(b).type # "garbled"
  BY <1>1 DEF Recorded
<1>3. c.lost \in Nat /\ c.garbled \in Nat
  BY DEF Captures
<1>4. c.lost = 0 /\ c.garbled = 0
  BY <1>1, <1>2, <1>3
<1>5. ~Garbled(b)
  BY <1>1, <1>2, BufferShrinks
<1>. QED BY <1>1, <1>2, <1>4, <1>5 DEF Broken

\* The trail survives the consumption of an event, unless something breaks.
LEMMA TrailConsumed ==
  ASSUME NEW b \in Seq(Events), b # <<>>, NEW c \in Captures, NEW d, NEW dropped, NEW state,
         Recorded(c, Head(b), d), ~Broken(Tail(b), d, dropped), Trail(state, b, c)
  PROVE  Trail(state, Tail(b), d)
<1>1. d.lost = 0 /\ d.garbled = 0
  BY BrokenStays
<1>2. /\ c.flows \subseteq d.flows
      /\ \A kind : Seen(c.observations, kind) => Seen(d.observations, kind)
      /\ Head(b) = OwnEvent("requested") => Own \in d.flows
      /\ Head(b) = OwnEvent("sent") /\ Own \in c.flows => Seen(d.observations, "outbound_tcp_syn")
      /\ Head(b) = OwnEvent("confirmed") => Seen(d.observations, "tcp_handshake_confirmed")
  BY <1>1 DEF Recorded
<1>3. ASSUME state # "idle" PROVE Own \in d.flows \/ Pending(Tail(b), "requested")
  <2>1. Own \in c.flows \/ Pending(b, "requested")
    BY <1>3 DEF Trail
  <2>. QED BY <1>2, <2>1, BufferShrinks
<1>4. ASSUME HasSent(state)
      PROVE  Seen(d.observations, "outbound_tcp_syn") \/ SynPending(Tail(b), d.flows)
  <2>1. Seen(c.observations, "outbound_tcp_syn") \/ SynPending(b, c.flows)
    BY <1>4 DEF Trail
  <2>2. CASE SynPending(b, c.flows)
    <3>1. \/ Head(b) = OwnEvent("sent") /\ Own \in c.flows
          \/ Head(b) = OwnEvent("requested") /\ Pending(Tail(b), "sent")
          \/ SynPending(Tail(b), c.flows)
      BY <2>2, BufferShrinks
    <3>2. Pending(Tail(b), "sent") /\ Own \in d.flows => SynPending(Tail(b), d.flows)
      BY DEF Pending, SynPending
    <3>3. SynPending(Tail(b), c.flows) => SynPending(Tail(b), d.flows)
      BY <1>2 DEF SynPending
    <3>. QED BY <1>2, <3>1, <3>2, <3>3
  <2>. QED BY <1>2, <2>1, <2>2
<1>5. ASSUME state = "confirmed"
      PROVE  Seen(d.observations, "tcp_handshake_confirmed") \/ Pending(Tail(b), "confirmed")
  <2>1. Seen(c.observations, "tcp_handshake_confirmed") \/ Pending(b, "confirmed")
    BY <1>5 DEF Trail
  <2>. QED BY <1>2, <2>1, BufferShrinks
<1>. QED BY <1>3, <1>4, <1>5 DEF Trail

\* A step of the connection whose event reaches the buffer extends the trail, and
\* an event of another connection leaves it.
LEMMA TrailExtended ==
  ASSUME NEW b \in Seq(Events), NEW c, NEW event \in Events, NEW state, Trail(state, b, c)
  PROVE  /\ Trail(state, Append(b, event), c)
         /\ event = OwnEvent("requested") => Trail("requested", Append(b, event), c)
         /\ event = OwnEvent("sent") /\ state = "requested" => Trail("sent", Append(b, event), c)
         /\ event = OwnEvent("confirmed") /\ state = "sent"
              => Trail("confirmed", Append(b, event), c)
         /\ event = OwnEvent("reset") /\ state = "sent" => Trail("reset", Append(b, event), c)
<1>1. Trail(state, Append(b, event), c)
  BY BufferGrows DEF Trail
<1>2. event = OwnEvent("requested") => Trail("requested", Append(b, event), c)
  BY BufferGrows DEF Trail, HasSent
<1>3. ASSUME event = OwnEvent("sent"), state = "requested"
      PROVE  Trail("sent", Append(b, event), c)
  <2>1. Own \in c.flows \/ Pending(b, "requested")
    BY <1>3 DEF Trail
  <2>2. SynPending(Append(b, event), c.flows)
    BY <1>3, <2>1, BufferGrows
  <2>3. Own \in c.flows \/ Pending(Append(b, event), "requested")
    BY <2>1, BufferGrows
  <2>. QED BY <2>2, <2>3 DEF Trail
<1>4. ASSUME event = OwnEvent("confirmed"), state = "sent"
      PROVE  Trail("confirmed", Append(b, event), c)
  <2>1. Pending(Append(b, event), "confirmed")
    BY <1>4, BufferGrows
  <2>. QED BY <1>1, <1>4, <2>1 DEF Trail, HasSent
<1>5. ASSUME event = OwnEvent("reset"), state = "sent"
      PROVE  Trail("reset", Append(b, event), c)
  BY <1>1, <1>5 DEF Trail, HasSent
<1>. QED BY <1>1, <1>2, <1>3, <1>4, <1>5

\* Nothing that is broken becomes whole by one more event.
LEMMA BrokenGrows ==
  ASSUME NEW b \in Seq(Events), NEW event \in Events, NEW c, NEW dropped,
         ~Broken(Append(b, event), c, dropped)
  PROVE  ~Broken(b, c, dropped) /\ event.type # "garbled"
  BY BufferGrows DEF Broken

-----------------------------------------------------------------------------
(* Every step keeps the invariant.                                         *)

\* The invariant holds before the capture starts.
LEMMA CaptureInit == Init => CaptureInv
<1>. SUFFICES ASSUME Init PROVE CaptureInv
  OBVIOUS
<1>. USE DEF Init
<1>1. CaptureTypeInv
  <2>1. EmptyETW \in Captures
    <3>1. <<>> \in Seq(Observations)
      OBVIOUS
    <3>. HIDE DEF Observations
    <3>. QED BY <3>1 DEF EmptyETW, Captures
  <2>2. buffer \in Seq(Events)
    OBVIOUS
  <2>3. conn \in [Flows -> States]
    BY DEF States
  <2>. QED BY <2>1, <2>2, <2>3 DEF CaptureTypeInv, None, Starting
<1>2. conn[Own] = "idle"
  BY OwnFlow
<1>3. LifeInv
  BY <1>2 DEF LifeInv, None, EmptyETW, Starting
<1>4. TrailInv
  BY <1>2 DEF TrailInv, Trail, HasSent, InTime, Late
<1>5. ResetInv
  <2>1. buffer = <<>> /\ capture.observations = <<>>
    BY DEF EmptyETW
  <2>. QED BY <2>1 DEF ResetInv, Pending, Seen
<1>6. SnapshotInv /\ ResultInv /\ EmissionInv
  BY DEF SnapshotInv, ResultInv, EmissionInv, Starting
<1>7. NoContradiction /\ NegativeIsTrue
  BY DEF NoContradiction, NegativeIsTrue, Filed
<1>. QED BY <1>1, <1>3, <1>4, <1>5, <1>6, <1>7 DEF CaptureInv

\* The four things the kernel does with an event (etwRecordCallback).
LEMMA LogForms ==
  ASSUME CaptureTypeInv, NEW event \in Events, Log(event)
  PROVE  /\ buffer' \in Seq(Events) /\ kernelLost' \in Nat /\ faults' \in Nat
         /\ \/ ~Listening /\ buffer' = buffer /\ kernelLost' = kernelLost
            \/ Listening /\ buffer' = Append(buffer, event) /\ kernelLost' = kernelLost
            \/ /\ Listening /\ kernelLost' = kernelLost
               /\ \E other \in Events : other.type = "garbled" /\ buffer' = Append(buffer, other)
            \/ Listening /\ kernelLost' = kernelLost + 1 /\ buffer' = buffer
<1>1. buffer \in Seq(Events) /\ kernelLost \in Nat /\ faults \in Nat
  BY DEF CaptureTypeInv
<1>2. [event EXCEPT !.type = "garbled"] \in Events /\ [event EXCEPT !.type = "garbled"].type = "garbled"
  BY DEF Events
<1>3. \A other \in Events : Append(buffer, other) \in Seq(Events)
  BY <1>1, BufferGrows
<1>4. CASE ~Listening
  BY <1>1, <1>4 DEF Log
<1>5. CASE Listening /\ buffer' = Append(buffer, event) /\ UNCHANGED <<kernelLost, faults>>
  BY <1>1, <1>3, <1>5
<1>6. CASE /\ Listening /\ faults' = faults + 1 /\ UNCHANGED kernelLost
           /\ buffer' = Append(buffer, [event EXCEPT !.type = "garbled"])
  <2>1. PICK other \in Events : other.type = "garbled" /\ buffer' = Append(buffer, other)
    BY <1>2, <1>6
  <2>2. buffer' \in Seq(Events)
    BY <1>3, <2>1
  <2>. QED BY <1>1, <1>6, <2>1, <2>2
<1>7. CASE Listening /\ faults' = faults + 1 /\ kernelLost' = kernelLost + 1 /\ UNCHANGED buffer
  BY <1>1, <1>7
<1>8. \/ ~Listening
      \/ Listening /\ buffer' = Append(buffer, event) /\ UNCHANGED <<kernelLost, faults>>
      \/ /\ Listening /\ faults' = faults + 1 /\ UNCHANGED kernelLost
         /\ buffer' = Append(buffer, [event EXCEPT !.type = "garbled"])
      \/ Listening /\ faults' = faults + 1 /\ kernelLost' = kernelLost + 1 /\ UNCHANGED buffer
  BY Zenon DEF Log
<1>. QED BY <1>4, <1>5, <1>6, <1>7, <1>8

\* What a connection can do next.
Moves == {<<"idle", "requested">>, <<"requested", "sent">>, <<"sent", "confirmed">>, <<"sent", "reset">>}

\* A step of a connection: its event extends the trail unless it comes after the
\* deadline, or something is lost.
LEMMA AdvanceStep ==
  ASSUME CaptureInv, NEW f \in Flows, NEW from, NEW to, <<from, to>> \in Moves, Advance(f, from, to)
  PROVE  CaptureInv'
<1>. DEFINE event == [type |-> to, flow |-> f, late |-> Late]
<1>1. /\ probeType = "tcp" /\ conn[f] = from /\ Log(event)
      /\ f = Own => pc = "running"
      /\ conn' = [conn EXCEPT ![f] = to]
      /\ UNCHANGED <<pc, probeType, ctx, startError, atDeadline, result, session, registered,
                     threadVars, capture, snapshot, evidence>>
  BY DEF Advance
<1>2. /\ to \in States /\ event \in Events
      /\ \/ from = "idle" /\ to = "requested"
         \/ from = "requested" /\ to = "sent"
         \/ from = "sent" /\ to = "confirmed"
         \/ from = "sent" /\ to = "reset"
  BY DEF Moves, States, Events, Late
<1>3. /\ CaptureTypeInv /\ LifeInv /\ TrailInv /\ ResetInv
      /\ SnapshotInv /\ ResultInv /\ EmissionInv /\ NoContradiction /\ NegativeIsTrue
  BY DEF CaptureInv
<1>4. /\ buffer' \in Seq(Events) /\ kernelLost' \in Nat /\ faults' \in Nat
      /\ \/ ~Listening /\ buffer' = buffer /\ kernelLost' = kernelLost
         \/ Listening /\ buffer' = Append(buffer, event) /\ kernelLost' = kernelLost
         \/ /\ Listening /\ kernelLost' = kernelLost
            /\ \E other \in Events : other.type = "garbled" /\ buffer' = Append(buffer, other)
         \/ Listening /\ kernelLost' = kernelLost + 1 /\ buffer' = buffer
  <2>. HIDE DEF event
  <2>. QED BY <1>1, <1>2, <1>3, LogForms
<1>5. /\ buffer \in Seq(Events) /\ kernelLost \in Nat /\ conn \in [Flows -> States]
      /\ conn' \in [Flows -> States]
      /\ conn'[Own] = IF f = Own THEN to ELSE conn[Own]
  BY <1>1, <1>2, <1>3, OwnFlow DEF CaptureTypeInv
<1>6. \A type : event = OwnEvent(type) <=> f = Own /\ to = type /\ ~Late
  BY DEF OwnEvent, Late
<1>. HIDE DEF event
<1>7. InTime' = IF f = Own /\ ~Late THEN to ELSE InTime
  BY <1>1, <1>5 DEF InTime, Late
<1>8. CaptureTypeInv'
  BY <1>1, <1>3, <1>4, <1>5 DEF CaptureTypeInv, threadVars
<1>9. LifeInv'
  <2>1. pc' \in Starting => conn'[Own] = "idle"
    BY <1>1, <1>3, <1>5 DEF LifeInv, Starting
  <2>2. consumer' = "ended" =>
          capture'.error \/ (buffer' = <<>> /\ ~session' /\ capture'.lost >= kernelLost')
    BY <1>1, <1>3, <1>4 DEF LifeInv, threadVars, Listening
  <2>. QED BY <1>1, <1>3, <2>1, <2>2 DEF LifeInv, threadVars
<1>10. TrailInv'
  <2>. SUFFICES ASSUME startError = None, ~Broken(buffer', capture, kernelLost')
                PROVE  Trail(InTime', buffer', capture)
    BY <1>1 DEF TrailInv
  <2>1. CASE ~Listening /\ buffer' = buffer /\ kernelLost' = kernelLost
    <3>1. f # Own
      <4>1. ~capture.cancelled
        BY DEF Broken
      <4>. QED BY <1>1, <1>3, <2>1, <4>1 DEF LifeInv, Listening
    <3>. QED BY <1>3, <1>7, <2>1, <3>1 DEF TrailInv
  <2>2. CASE Listening /\ buffer' = Append(buffer, event) /\ kernelLost' = kernelLost
    <3>1. ~Broken(buffer, capture, kernelLost)
      BY <1>2, <1>5, <2>2, BrokenGrows
    <3>2. Trail(InTime, buffer, capture)
      BY <1>3, <3>1 DEF TrailInv
    <3>3. CASE f # Own \/ Late
      <4>1. InTime' = InTime
        BY <1>7, <3>3
      <4>. QED BY <1>2, <1>5, <2>2, <3>2, <4>1, TrailExtended
    <3>4. CASE f = Own /\ ~Late
      <4>1. event = OwnEvent(to) /\ InTime = from /\ InTime' = to
        BY <1>1, <1>6, <1>7, <3>4 DEF InTime
      <4>. QED BY <1>2, <1>5, <2>2, <3>2, <4>1, TrailExtended
    <3>. QED BY <3>3, <3>4
  <2>3. ASSUME NEW other \in Events, other.type = "garbled", buffer' = Append(buffer, other)
        PROVE  FALSE
    BY <1>5, <2>3, BrokenGrows
  <2>4. CASE Listening /\ kernelLost' = kernelLost + 1 /\ buffer' = buffer
    <3>1. kernelLost' = 0
      BY DEF Broken
    <3>. QED BY <1>5, <2>4, <3>1
  <2>. QED BY <1>4, <2>1, <2>2, <2>3, <2>4
<1>11. ResetInv'
  <2>1. conn[Own] = "reset" => conn'[Own] = "reset"
    BY <1>1, <1>2, <1>5
  <2>2. Pending(buffer', "reset") => Pending(buffer, "reset") \/ conn'[Own] = "reset"
    <3>1. CASE buffer' = buffer
      BY <3>1
    <3>2. CASE buffer' = Append(buffer, event)
      BY <1>2, <1>5, <1>6, <3>2, BufferGrows
    <3>3. ASSUME NEW other \in Events, other.type = "garbled", buffer' = Append(buffer, other)
          PROVE  Pending(buffer', "reset") => Pending(buffer, "reset")
      <4>1. other # OwnEvent("reset")
        BY <3>3 DEF OwnEvent
      <4>. QED BY <1>5, <3>3, <4>1, BufferGrows
    <3>. QED BY <1>4, <3>1, <3>2, <3>3
  <2>. QED BY <1>1, <1>3, <2>1, <2>2 DEF ResetInv
<1>12. pc # "running" => conn'[Own] = conn[Own] /\ InTime' = InTime
  BY <1>1, <1>5, <1>7
<1>13. SnapshotInv' /\ ResultInv' /\ EmissionInv'
  BY <1>1, <1>3, <1>12 DEF SnapshotInv, ResultInv, EmissionInv
<1>14. NoContradiction' /\ NegativeIsTrue'
  BY <1>1, <1>3, <1>12 DEF NoContradiction, NegativeIsTrue, Filed
<1>. QED BY <1>8, <1>9, <1>10, <1>11, <1>13, <1>14 DEF CaptureInv

\* The parts of the invariant under their names.
LEMMA Parts ==
  ASSUME CaptureInv
  PROVE  /\ CaptureTypeInv /\ LifeInv /\ TrailInv /\ ResetInv
         /\ SnapshotInv /\ ResultInv /\ EmissionInv /\ NoContradiction /\ NegativeIsTrue
  BY DEF CaptureInv

\* What a step leaves that leaves the connection, the deadline and what was filed.
LEMMA FiledStays ==
  ASSUME CaptureInv, conn'[Own] = conn[Own], InTime' = InTime,
         UNCHANGED <<probeType, startError, result, snapshot, evidence>>,
         pc' = pc \/ pc' \in Starting \cup {"running"}
         \/ (pc \notin Starting \cup {"running"} /\ pc' \notin {"correlating", "filed"})
  PROVE  /\ SnapshotInv' /\ ResultInv' /\ EmissionInv' /\ NoContradiction' /\ NegativeIsTrue'
<1>. USE Parts DEF Starting
<1>1. SnapshotInv' /\ ResultInv' /\ EmissionInv'
  BY DEF SnapshotInv, ResultInv, EmissionInv
<1>2. NoContradiction' /\ NegativeIsTrue'
  BY DEF NoContradiction, NegativeIsTrue, Filed
<1>. QED BY <1>1, <1>2

\* The end of the context changes nothing by itself.
LEMMA ContextStep == ASSUME CaptureInv, ContextEnds PROVE CaptureInv'
<1>. USE Parts DEF ContextEnds, nativeVars, threadVars
<1>1. CaptureTypeInv' /\ LifeInv'
  BY DEF CaptureTypeInv, LifeInv
<1>2. InTime' = InTime
  BY DEF InTime, Late
<1>3. TrailInv' /\ ResetInv'
  BY <1>2 DEF TrailInv, ResetInv
<1>4. SnapshotInv' /\ ResultInv' /\ EmissionInv' /\ NoContradiction' /\ NegativeIsTrue'
  BY <1>2, FiledStays
<1>. QED BY <1>1, <1>3, <1>4 DEF CaptureInv

\* When the deadline passes, what the connection has done so far is in time.
LEMMA DeadlineStep == ASSUME CaptureInv, DeadlinePasses PROVE CaptureInv'
<1>. USE Parts DEF DeadlinePasses, nativeVars, threadVars
<1>1. conn[Own] \in States
  BY OwnFlow DEF CaptureTypeInv
<1>2. CaptureTypeInv' /\ LifeInv'
  BY <1>1 DEF CaptureTypeInv, LifeInv
<1>3. InTime' = InTime
  BY <1>1 DEF InTime, Late, States, None
<1>4. TrailInv' /\ ResetInv'
  BY <1>3 DEF TrailInv, ResetInv
<1>5. SnapshotInv' /\ ResultInv' /\ EmissionInv' /\ NoContradiction' /\ NegativeIsTrue'
  BY <1>3, FiledStays
<1>. QED BY <1>2, <1>4, <1>5 DEF CaptureInv

\* What a probe without its capture can say: nothing is promised of the trail.
LEMMA WithoutCaptureSteps ==
  ASSUME CaptureInv, CaptureTypeInv', WithoutCapture, pc \in Starting,
         UNCHANGED <<probeType, conn, atDeadline, result, buffer, threadVars, capture, snapshot,
                     evidence>>
  PROVE  CaptureInv'
<1>. USE Parts DEF WithoutCapture, threadVars
<1>1. startError' # None /\ pc' = "running"
  BY DEF StartErrors, None
<1>2. conn[Own] = "idle" /\ consumer = None /\ watcher = None
  BY DEF LifeInv
<1>3. LifeInv'
  BY <1>1, <1>2 DEF LifeInv, Starting, None
<1>4. TrailInv' /\ ResetInv'
  BY <1>1 DEF TrailInv, ResetInv
<1>5. SnapshotInv' /\ ResultInv' /\ EmissionInv'
  BY <1>1 DEF SnapshotInv, ResultInv, EmissionInv
<1>6. NoContradiction' /\ NegativeIsTrue'
  BY <1>1 DEF NoContradiction, NegativeIsTrue, Filed
<1>. QED BY <1>3, <1>4, <1>5, <1>6 DEF CaptureInv

\* What the start of a capture leaves as it is, up to the last of its calls.
LEMMA StartingSteps ==
  ASSUME CaptureInv, CaptureTypeInv', LifeInv', pc \in Starting,
         pc' \in Starting \cup {"running"},
         UNCHANGED <<probeType, startError, conn, atDeadline, result, buffer, kernelLost, capture,
                     snapshot, evidence>>
  PROVE  CaptureInv'
<1>. USE Parts
<1>1. InTime' = InTime
  BY DEF InTime, Late
<1>2. TrailInv' /\ ResetInv'
  BY <1>1 DEF TrailInv, ResetInv
<1>3. SnapshotInv' /\ ResultInv' /\ EmissionInv' /\ NoContradiction' /\ NegativeIsTrue'
  BY <1>1, FiledStays
<1>. QED BY <1>2, <1>3 DEF CaptureInv

\* The session starts before the connection does anything.
LEMMA StartTraceStep == ASSUME CaptureInv, StartTrace PROVE CaptureInv'
<1>. USE Parts DEF StartTrace, threadVars
<1>1. CaptureTypeInv'
  BY DEF CaptureTypeInv, WithoutCapture, Starting
<1>2. CASE WithoutCapture
  BY <1>1, <1>2, WithoutCaptureSteps DEF Starting
<1>3. CASE session' = TRUE /\ pc' = "enabling" /\ UNCHANGED startError
  <2>1. LifeInv'
    BY <1>3 DEF LifeInv, Starting, None
  <2>. QED BY <1>1, <1>3, <2>1, StartingSteps DEF Starting
<1>. QED BY <1>2, <1>3

\* The provider is enabled while the session runs.
LEMMA EnableTraceStep == ASSUME CaptureInv, EnableTrace PROVE CaptureInv'
<1>. USE Parts DEF EnableTrace, StopNative, threadVars
<1>1. CaptureTypeInv'
  BY DEF CaptureTypeInv, WithoutCapture, Starting
<1>2. CASE WithoutCapture
  BY <1>1, <1>2, WithoutCaptureSteps DEF Starting
<1>3. CASE pc' = "opening" /\ UNCHANGED <<startError, session>>
  <2>1. LifeInv'
    BY <1>3 DEF LifeInv, Starting, None
  <2>. QED BY <1>1, <1>3, <2>1, StartingSteps DEF Starting
<1>. QED BY <1>2, <1>3

\* The goroutines start with a session that runs.
LEMMA OpenTraceStep == ASSUME CaptureInv, OpenTrace PROVE CaptureInv'
<1>. USE Parts DEF OpenTrace, StopNative, threadVars
<1>1. CaptureTypeInv'
  BY DEF CaptureTypeInv, WithoutCapture, Starting
<1>2. CASE WithoutCapture /\ UNCHANGED <<consumer, watcher>>
  BY <1>1, <1>2, WithoutCaptureSteps DEF Starting
<1>3. CASE /\ consumer' = "processing" /\ watcher' = "waiting" /\ pc' = "running"
           /\ UNCHANGED <<startError, session>>
  <2>1. LifeInv'
    BY <1>3 DEF LifeInv, Starting, None
  <2>. QED BY <1>1, <1>3, <2>1, StartingSteps DEF Starting
<1>. QED BY <1>2, <1>3

\* The connection of the probe makes no step after the probe returned.
LEMMA ProbeReturnsStep == ASSUME CaptureInv, ProbeReturns PROVE CaptureInv'
<1>. USE Parts DEF ProbeReturns, nativeVars, threadVars, InTime, Late, Starting
<1>1. CaptureTypeInv' /\ LifeInv'
  BY DEF CaptureTypeInv, LifeInv
<1>2. TrailInv' /\ ResetInv'
  BY DEF TrailInv, ResetInv
<1>3. SnapshotInv' /\ ResultInv' /\ EmissionInv'
  BY DEF SnapshotInv, ResultInv, EmissionInv
<1>4. NoContradiction' /\ NegativeIsTrue'
  BY DEF NoContradiction, NegativeIsTrue, Filed
<1>. QED BY <1>1, <1>2, <1>3, <1>4 DEF CaptureInv

\* Stopping the session lets no event into the buffer any more.
LEMMA StopStep == ASSUME CaptureInv, Stop PROVE CaptureInv'
<1>. USE Parts DEF Stop, StopNative, threadVars, InTime, Late, Starting
<1>1. CaptureTypeInv' /\ LifeInv'
  BY DEF CaptureTypeInv, LifeInv
<1>2. TrailInv' /\ ResetInv'
  BY DEF TrailInv, ResetInv
<1>3. SnapshotInv' /\ ResultInv' /\ EmissionInv'
  BY DEF SnapshotInv, ResultInv, EmissionInv
<1>4. NoContradiction' /\ NegativeIsTrue'
  BY DEF NoContradiction, NegativeIsTrue, Filed
<1>. QED BY <1>1, <1>2, <1>3, <1>4 DEF CaptureInv

\* The snapshot of a capture that is whole holds the whole trail.
LEMMA StopReturnsStep == ASSUME CaptureInv, StopReturns PROVE CaptureInv'
<1>1. /\ pc = "waiting" /\ consumer = "ended" /\ pc' = "correlating"
      /\ snapshot'.observations = capture.observations /\ snapshot'.lost = capture.lost
      /\ snapshot'.cancelled = capture.cancelled /\ snapshot'.error = capture.error
      /\ snapshot'.complete => capture.garbled = 0
      /\ UNCHANGED <<probeType, ctx, startError, conn, atDeadline, result, nativeVars, threadVars,
                     capture, evidence>>
  BY DEF StopReturns
<1>1b. InTime' = InTime
  BY <1>1 DEF InTime, Late
<1>. USE Parts DEF nativeVars, threadVars
<1>2. CaptureTypeInv' /\ LifeInv'
  BY <1>1 DEF CaptureTypeInv, LifeInv, Starting
<1>3. TrailInv' /\ ResetInv'
  BY <1>1, <1>1b DEF TrailInv, ResetInv
<1>4. SnapshotInv'
  <2>. SUFFICES ASSUME startError = None
                PROVE  /\ capture.observations \in Seq(Observations)
                       /\ Seen(capture.observations, "tcp_rst") => conn[Own] = "reset"
                       /\ Whole(snapshot') =>
                             /\ HasSent(InTime) => Seen(capture.observations, "outbound_tcp_syn")
                             /\ InTime = "confirmed" =>
                                  Seen(capture.observations, "tcp_handshake_confirmed")
    BY <1>1, <1>1b DEF SnapshotInv
  <2>1. capture.observations \in Seq(Observations) /\ kernelLost \in Nat /\ capture.lost \in Nat
    BY DEF CaptureTypeInv, Captures
  <2>2. Seen(capture.observations, "tcp_rst") => conn[Own] = "reset"
    BY DEF ResetInv
  <2>3. ASSUME Whole(snapshot')
        PROVE  /\ HasSent(InTime) => Seen(capture.observations, "outbound_tcp_syn")
               /\ InTime = "confirmed" => Seen(capture.observations, "tcp_handshake_confirmed")
    <3>1. capture.lost = 0 /\ capture.garbled = 0 /\ ~capture.cancelled /\ ~capture.error
      BY <1>1, <2>3 DEF Whole
    <3>2. buffer = <<>> /\ kernelLost = 0
      BY <1>1, <2>1, <3>1 DEF LifeInv, Starting
    <3>3. ~Broken(buffer, capture, kernelLost)
      BY <3>1, <3>2 DEF Broken, Garbled
    <3>4. Trail(InTime, buffer, capture)
      BY <3>3 DEF TrailInv
    <3>5. ~Pending(buffer, "confirmed") /\ ~SynPending(buffer, capture.flows)
      BY <3>2 DEF Pending, SynPending
    <3>. QED BY <3>4, <3>5 DEF Trail
  <2>. QED BY <2>1, <2>2, <2>3
<1>5. ResultInv' /\ EmissionInv'
  BY <1>1 DEF ResultInv, EmissionInv, Starting
<1>6. NoContradiction' /\ NegativeIsTrue'
  BY <1>1, <1>1b DEF NoContradiction, NegativeIsTrue, Filed
<1>. QED BY <1>2, <1>3, <1>4, <1>5, <1>6 DEF CaptureInv

\* Filing is where the trail meets Correlate.
LEMMA FileStep == ASSUME CaptureInv, File PROVE CaptureInv'
<1>. USE Parts
<1>1. /\ pc = "correlating" /\ pc' = "filed" /\ evidence' = Correlate(CorrelationInput)
      /\ UNCHANGED <<probeType, ctx, startError, conn, atDeadline, result, nativeVars, threadVars,
                     capture, snapshot>>
  BY DEF File
<1>1b. InTime' = InTime
  BY <1>1 DEF InTime, Late
<1>2. CaptureTypeInv' /\ LifeInv'
  BY <1>1 DEF CaptureTypeInv, LifeInv, nativeVars, threadVars, Starting
<1>3. TrailInv' /\ ResetInv'
  BY <1>1, <1>1b DEF TrailInv, ResetInv, nativeVars
<1>4. SnapshotInv' /\ ResultInv'
  BY <1>1, <1>1b DEF SnapshotInv, ResultInv, Starting
<1>5. EmissionInv'
  BY <1>1, CorrelateSays DEF EmissionInv, EmissionStates
<1>6. NoContradiction' /\ NegativeIsTrue'
  BY <1>1, <1>1b, WhatIsFiled DEF NoContradiction, NegativeIsTrue, Filed
<1>. QED BY <1>2, <1>3, <1>4, <1>5, <1>6 DEF CaptureInv

\* An event is consumed: the trail moves from the buffer into the capture.
LEMMA ConsumeStep == ASSUME CaptureInv, Consume PROVE CaptureInv'
<1>. USE Parts
<1>1. /\ consumer = "processing" /\ buffer # <<>> /\ buffer' = Tail(buffer)
      /\ capture' = Consumed(capture, Head(buffer))
      /\ UNCHANGED <<pc, probeType, ctx, startError, conn, atDeadline, result, session, registered,
                     kernelLost, faults, threadVars, snapshot, evidence>>
  BY DEF Consume
<1>1b. InTime' = InTime
  BY <1>1 DEF InTime, Late
<1>2. buffer \in Seq(Events) /\ capture \in Captures
  BY DEF CaptureTypeInv
<1>3. Tail(buffer) \in Seq(Events) /\ Head(buffer) \in Events
  BY <1>1, <1>2, BufferShrinks
<1>4. Recorded(capture, Head(buffer), capture')
  BY <1>1, <1>2, <1>3, EventIsRecorded
<1>5. capture' \in Captures /\ capture'.cancelled = capture.cancelled /\ capture'.error = capture.error
  BY <1>4 DEF Recorded
<1>6. CaptureTypeInv'
  BY <1>1, <1>3, <1>5 DEF CaptureTypeInv, threadVars
<1>7. LifeInv'
  BY <1>1, <1>5 DEF LifeInv, threadVars, Starting
<1>8. TrailInv'
  <2>. SUFFICES ASSUME startError = None, ~Broken(Tail(buffer), capture', kernelLost)
                PROVE  Trail(InTime, Tail(buffer), capture')
    BY <1>1, <1>1b DEF TrailInv
  <2>1. ~Broken(buffer, capture, kernelLost)
    BY <1>1, <1>2, <1>4, BrokenStays
  <2>2. Trail(InTime, buffer, capture)
    BY <2>1 DEF TrailInv
  <2>. QED BY <1>1, <1>2, <1>4, <2>2, TrailConsumed
<1>9. ResetInv'
  <2>1. Pending(Tail(buffer), "reset") => Pending(buffer, "reset")
    BY <1>1, <1>2, BufferShrinks
  <2>2. Head(buffer) = OwnEvent("reset") => Pending(buffer, "reset")
    BY <1>1, <1>2, BufferShrinks
  <2>3. Seen(capture'.observations, "tcp_rst") =>
          Seen(capture.observations, "tcp_rst") \/ Head(buffer) = OwnEvent("reset")
    BY <1>4 DEF Recorded
  <2>. QED BY <1>1, <2>1, <2>2, <2>3 DEF ResetInv
<1>10. SnapshotInv' /\ ResultInv' /\ EmissionInv'
  BY <1>1, <1>1b DEF SnapshotInv, ResultInv, EmissionInv, Starting
<1>11. NoContradiction' /\ NegativeIsTrue'
  BY <1>1, <1>1b DEF NoContradiction, NegativeIsTrue, Filed
<1>. QED BY <1>6, <1>7, <1>8, <1>9, <1>10, <1>11 DEF CaptureInv

\* The consumer ends by itself, with an error, or after the last event.
LEMMA ProcessReturnsStep ==
  ASSUME CaptureInv, NEW failed \in BOOLEAN, ProcessReturns(failed)
  PROVE  CaptureInv'
<1>. USE Parts
<1>. DEFINE garbled == IF failed THEN capture.garbled + 1 ELSE capture.garbled
            lost == IF ~session /\ kernelLost > capture.lost THEN kernelLost ELSE capture.lost
            error == failed \/ capture.garbled # 0
<1>1. /\ consumer = "processing" /\ consumer' = "ended" /\ registered' = FALSE
      /\ IF failed THEN TRUE ELSE ~session /\ buffer = <<>>
      /\ faults' = IF failed THEN faults + 1 ELSE faults
      /\ capture' = [capture EXCEPT !.garbled = garbled, !.lost = lost, !.error = error,
                                    !.complete = TRUE]
      /\ UNCHANGED <<pc, probeType, ctx, startError, conn, atDeadline, result, session, buffer,
                     kernelLost, watcher, snapshot, evidence>>
  BY DEF ProcessReturns
<1>1b. InTime' = InTime
  BY <1>1 DEF InTime, Late
<1>2. capture \in Captures /\ kernelLost \in Nat /\ faults \in Nat
  BY DEF CaptureTypeInv
<1>3. capture.lost \in Nat /\ capture.garbled \in Nat
  BY <1>2 DEF Captures
<1>3b. garbled \in Nat /\ lost \in Nat /\ error \in BOOLEAN
  BY <1>2, <1>3
<1>4. /\ capture' \in Captures /\ capture'.observations = capture.observations
      /\ capture'.flows = capture.flows /\ capture'.cancelled = capture.cancelled
      /\ capture'.garbled = garbled /\ capture'.lost = lost /\ capture'.error = error
  <2>. HIDE DEF Observations, garbled, lost, error
  <2>. QED BY <1>1, <1>2, <1>3b DEF Captures
<1>5. CaptureTypeInv'
  <2>1. faults' \in Nat
    BY <1>1, <1>2
  <2>. HIDE DEF garbled, lost, error
  <2>. QED BY <1>1, <1>4, <2>1 DEF CaptureTypeInv
<1>6. LifeInv'
  <2>1. capture'.error \/ (buffer = <<>> /\ ~session /\ capture'.lost >= kernelLost)
    <3>1. failed => error
      OBVIOUS
    <3>2. lost >= kernelLost \/ session
      BY <1>2, <1>3
    <3>. HIDE DEF garbled, lost, error
    <3>. QED BY <1>1, <1>4, <3>1, <3>2
  <2>2. consumer' = "ended" /\ pc' = pc /\ startError' = startError /\ conn' = conn
        /\ session' = session /\ watcher' = watcher /\ buffer' = buffer /\ kernelLost' = kernelLost
    BY <1>1
  <2>3. pc \notin Starting
    BY <1>1 DEF LifeInv, None, Starting
  <2>4. pc = "running" /\ startError = None /\ ~session => capture'.cancelled
    BY <1>4 DEF LifeInv, Starting
  <2>5. watcher = "stopping" => capture'.cancelled
    BY <1>4 DEF LifeInv, Starting
  <2>. QED BY <2>1, <2>2, <2>3, <2>4, <2>5 DEF LifeInv, Starting
<1>7. TrailInv'
  <2>. SUFFICES ASSUME startError = None, ~Broken(buffer, capture', kernelLost)
                PROVE  Trail(InTime, buffer, capture')
    BY <1>1, <1>1b DEF TrailInv
  <2>1. /\ kernelLost = 0 /\ capture'.lost = 0 /\ capture'.garbled = 0 /\ ~capture'.cancelled
        /\ ~capture'.error /\ ~Garbled(buffer)
    BY DEF Broken
  <2>2. capture.lost = 0 /\ capture.garbled = 0 /\ ~capture.cancelled /\ ~failed
    BY <1>3, <1>4, <2>1
  <2>3. ~capture.error
    BY <1>1, <2>2 DEF LifeInv, Starting
  <2>4. ~Broken(buffer, capture, kernelLost)
    BY <2>1, <2>2, <2>3 DEF Broken
  <2>5. Trail(InTime, buffer, capture)
    BY <2>4 DEF TrailInv
  <2>. QED BY <1>4, <2>5 DEF Trail
<1>8. ResetInv'
  BY <1>1, <1>4 DEF ResetInv
<1>9. SnapshotInv' /\ ResultInv' /\ EmissionInv'
  BY <1>1, <1>1b DEF SnapshotInv, ResultInv, EmissionInv, Starting
<1>10. NoContradiction' /\ NegativeIsTrue'
  BY <1>1, <1>1b DEF NoContradiction, NegativeIsTrue, Filed
<1>. QED BY <1>5, <1>6, <1>7, <1>8, <1>9, <1>10 DEF CaptureInv

\* The watcher marks the capture before it stops the session.
LEMMA WatcherCancelsStep == ASSUME CaptureInv, WatcherCancels PROVE CaptureInv'
<1>. USE Parts
<1>1. /\ UNCHANGED <<pc, probeType, ctx, startError, conn, atDeadline, result, registered, buffer,
                     kernelLost, faults, consumer, snapshot, evidence>>
      /\ \/ /\ watcher = "waiting" /\ watcher' = "stopping" /\ session' = session
            /\ capture' = [capture EXCEPT !.cancelled = TRUE]
         \/ /\ watcher = "stopping" /\ watcher' = "ended" /\ session' = FALSE /\ capture' = capture
  BY DEF WatcherCancels, StopNative
<1>1b. InTime' = InTime
  BY <1>1 DEF InTime, Late
<1>2. capture \in Captures
  BY DEF CaptureTypeInv
<1>3. /\ capture' \in Captures /\ capture'.observations = capture.observations
      /\ capture'.flows = capture.flows /\ capture'.lost = capture.lost
      /\ capture'.garbled = capture.garbled /\ capture'.error = capture.error
      /\ capture.cancelled => capture'.cancelled
      /\ watcher' = "stopping" => capture'.cancelled
  <2>. HIDE DEF Observations
  <2>. QED BY <1>1, <1>2 DEF Captures
<1>4. CaptureTypeInv'
  BY <1>1, <1>3 DEF CaptureTypeInv
<1>5. LifeInv'
  <2>1. session' = session \/ (session' = FALSE /\ capture.cancelled)
    BY <1>1 DEF LifeInv, Starting
  <2>2. pc \notin Starting
    BY <1>1 DEF LifeInv, None, Starting
  <2>3. pc = "running" /\ startError = None /\ ~session' => capture'.cancelled
    BY <1>3, <2>1 DEF LifeInv, Starting
  <2>4. consumer = "ended" =>
          capture'.error \/ (buffer = <<>> /\ ~session' /\ capture'.lost >= kernelLost)
    BY <1>3, <2>1 DEF LifeInv, Starting
  <2>5. capture'.error => consumer = "ended"
    BY <1>3 DEF LifeInv, Starting
  <2>. QED BY <1>1, <1>3, <2>2, <2>3, <2>4, <2>5 DEF LifeInv, Starting
<1>6. TrailInv'
  <2>. SUFFICES ASSUME startError = None, ~Broken(buffer, capture', kernelLost)
                PROVE  Trail(InTime, buffer, capture')
    BY <1>1, <1>1b DEF TrailInv
  <2>1. ~Broken(buffer, capture, kernelLost)
    BY <1>3 DEF Broken
  <2>2. Trail(InTime, buffer, capture)
    BY <2>1 DEF TrailInv
  <2>. QED BY <1>3, <2>2 DEF Trail
<1>7. ResetInv'
  BY <1>1, <1>3 DEF ResetInv
<1>8. SnapshotInv' /\ ResultInv' /\ EmissionInv'
  BY <1>1, <1>1b DEF SnapshotInv, ResultInv, EmissionInv, Starting
<1>9. NoContradiction' /\ NegativeIsTrue'
  BY <1>1, <1>1b DEF NoContradiction, NegativeIsTrue, Filed
<1>. QED BY <1>4, <1>5, <1>6, <1>7, <1>8, <1>9 DEF CaptureInv

\* The watcher of a capture that ended goes quietly.
LEMMA WatcherEndsStep == ASSUME CaptureInv, WatcherEnds PROVE CaptureInv'
<1>. USE Parts DEF WatcherEnds, nativeVars, InTime, Late, Starting
<1>1. CaptureTypeInv' /\ LifeInv'
  BY DEF CaptureTypeInv, LifeInv
<1>2. TrailInv' /\ ResetInv'
  BY DEF TrailInv, ResetInv
<1>3. SnapshotInv' /\ ResultInv' /\ EmissionInv'
  BY DEF SnapshotInv, ResultInv, EmissionInv
<1>4. NoContradiction' /\ NegativeIsTrue'
  BY DEF NoContradiction, NegativeIsTrue, Filed
<1>. QED BY <1>1, <1>2, <1>3, <1>4 DEF CaptureInv

\* A path probe says nothing of a connection.
LEMMA RunPathStep == ASSUME CaptureInv, RunPath PROVE CaptureInv'
<1>. USE Parts DEF nativeVars, threadVars, InTime, Late, Starting
<1>1. /\ pc = "starting" /\ probeType = "path" /\ pc' = "correlating"
      /\ UNCHANGED <<probeType, ctx, startError, conn, atDeadline, nativeVars, threadVars, capture,
                     evidence>>
  BY DEF RunPath
<1>2. CaptureTypeInv' /\ LifeInv'
  BY <1>1 DEF CaptureTypeInv, LifeInv
<1>3. TrailInv' /\ ResetInv'
  BY <1>1 DEF TrailInv, ResetInv
<1>4. SnapshotInv' /\ ResultInv' /\ EmissionInv'
  BY <1>1 DEF SnapshotInv, ResultInv, EmissionInv
<1>5. NoContradiction' /\ NegativeIsTrue'
  BY <1>1 DEF NoContradiction, NegativeIsTrue, Filed
<1>. QED BY <1>2, <1>3, <1>4, <1>5 DEF CaptureInv

\* Nothing changes in a step of other variables.
LEMMA IdleStep == ASSUME CaptureInv, UNCHANGED vars PROVE CaptureInv'
<1>. USE Parts DEF vars, nativeVars, threadVars, InTime, Late, Starting
<1>1. CaptureTypeInv' /\ LifeInv'
  BY DEF CaptureTypeInv, LifeInv
<1>2. TrailInv' /\ ResetInv'
  BY DEF TrailInv, ResetInv
<1>3. SnapshotInv' /\ ResultInv' /\ EmissionInv'
  BY DEF SnapshotInv, ResultInv, EmissionInv
<1>4. NoContradiction' /\ NegativeIsTrue'
  BY DEF NoContradiction, NegativeIsTrue, Filed
<1>. QED BY <1>1, <1>2, <1>3, <1>4 DEF CaptureInv

\* Every step keeps the invariant.
LEMMA CaptureStep == CaptureInv /\ [Next]_vars => CaptureInv'
<1>. SUFFICES ASSUME CaptureInv, [Next]_vars PROVE CaptureInv'
  OBVIOUS
<1>1. ASSUME NEW f \in Flows, Request(f) \/ Emit(f) \/ Answer(f) PROVE CaptureInv'
  <2>1. \/ Advance(f, "idle", "requested") \/ Advance(f, "requested", "sent")
        \/ Advance(f, "sent", "confirmed") \/ Advance(f, "sent", "reset")
    BY <1>1 DEF Request, Emit, Answer
  <2>. QED BY <2>1, AdvanceStep DEF Moves
<1>2. CASE ContextEnds
  BY <1>2, ContextStep
<1>3. CASE DeadlinePasses
  BY <1>3, DeadlineStep
<1>4. CASE StartTrace \/ EnableTrace \/ OpenTrace
  BY <1>4, StartTraceStep, EnableTraceStep, OpenTraceStep
<1>5. CASE ProbeReturns
  BY <1>5, ProbeReturnsStep
<1>6. CASE Stop
  BY <1>6, StopStep
<1>7. CASE StopReturns
  BY <1>7, StopReturnsStep
<1>8. CASE File
  BY <1>8, FileStep
<1>9. CASE Consume
  BY <1>9, ConsumeStep
<1>10. CASE ProcessReturns(FALSE) \/ ProcessReturns(TRUE)
  BY <1>10, ProcessReturnsStep
<1>11. CASE WatcherCancels
  BY <1>11, WatcherCancelsStep
<1>12. CASE WatcherEnds
  BY <1>12, WatcherEndsStep
<1>13. CASE RunPath
  BY <1>13, RunPathStep
<1>14. CASE UNCHANGED vars
  BY <1>14, IdleStep
<1>. QED BY <1>1, <1>2, <1>3, <1>4, <1>5, <1>6, <1>7, <1>8, <1>9, <1>10, <1>11, <1>12, <1>13, <1>14,
            Zenon DEF Next

-----------------------------------------------------------------------------
\* The inductive invariant holds in every reachable state.
LEMMA CaptureInvariant == Spec => []CaptureInv
<1>1. Init => CaptureInv
  BY CaptureInit
<1>2. CaptureInv /\ [Next]_vars => CaptureInv'
  BY CaptureStep
<1>. QED BY <1>1, <1>2, PTL DEF Spec

\* Every variable of a capture has its type: the table holds flows of this
\* process alone, and what is filed says one of the three things of the probe.
THEOREM EvidenceTypeCorrect == Spec => []TypeOK
<1>1. CaptureInv => TypeOK
  BY Parts DEF CaptureTypeInv, EmissionInv, Captures, States, TypeOK, Starting
<1>. QED BY <1>1, CaptureInvariant, PTL

\* What is filed of a connection that was made is its confirmation, or nothing,
\* unless the confirmation came after the window of the capture.
THEOREM EvidenceNeverContradicts == Spec => []NoContradiction
<1>1. CaptureInv => NoContradiction
  BY Parts
<1>. QED BY <1>1, CaptureInvariant, PTL

\* "Not emitted" is only said of a probe that sent no SYN within the window of its
\* capture, whose end is its deadline.
THEOREM NegativesAreTrue == Spec => []NegativeIsTrue
<1>1. CaptureInv => NegativeIsTrue
  BY Parts
<1>. QED BY <1>1, CaptureInvariant, PTL

\* While nothing was lost, garbled or cut off, what the probe's connection has done
\* is among the observations or on its way to them in the buffer.
THEOREM TrailIsKept == Spec => []TrailInv
<1>1. CaptureInv => TrailInv
  BY Parts
<1>. QED BY <1>1, CaptureInvariant, PTL

-----------------------------------------------------------------------------
(* What is filed of a path probe, and to whose request an answer belongs.  *)

\* The keys that a backend reports of a request or an answer.
LEMMA KeysOfEcho ==
  ASSUME NEW i \in 1..3, NEW retry, NEW exposed
  PROVE  LET keys == Reported(TrueKeys(i, retry), exposed) IN
         /\ \A k \in EchoKeys : keys[k] # 0 <=> k \in exposed
         /\ \A k \in {"ident", "quotedIdent"} : k \in exposed => keys[k] = IF i = 3 THEN 8 ELSE 7
         /\ \A k \in {"seq", "quotedSeq"} : k \in exposed => keys[k] = IF i = 3 THEN 1 ELSE i
         /\ \A k \in EchoKeys : k \in exposed => keys[k] = TrueKeys(i, retry)[k]
<1>. DEFINE true == TrueKeys(i, retry)
            keys == Reported(true, exposed)
<1>1. \A k \in EchoKeys : keys[k] = IF k \in exposed THEN true[k] ELSE 0
  <2>. HIDE DEF true
  <2>. QED BY Zenon DEF Reported
<1>2. /\ true["ident"] = (IF i = 3 THEN 8 ELSE 7) /\ true["quotedIdent"] = (IF i = 3 THEN 8 ELSE 7)
      /\ true["seq"] = (IF i = 3 THEN 1 ELSE i) /\ true["quotedSeq"] = (IF i = 3 THEN 1 ELSE i)
      /\ true["ttl"] = (IF retry \/ i = 3 THEN 1 ELSE i)
      /\ true["attempt"] = (IF retry /\ i # 3 THEN i ELSE 1)
  BY DEF TrueKeys, EchoKeys
<1>3. \A k \in EchoKeys : true[k] # 0
  <2>. HIDE DEF true
  <2>. QED BY <1>2 DEF EchoKeys
<1>. HIDE DEF true, keys
<1>4. \A k \in EchoKeys : keys[k] # 0 <=> k \in exposed
  BY <1>1, <1>3
<1>5. \A k \in EchoKeys : k \in exposed => keys[k] = true[k]
  BY <1>1
<1>6. {"ident", "quotedIdent", "seq", "quotedSeq"} \subseteq EchoKeys
  BY DEF EchoKeys
<1>7. \A k \in {"ident", "quotedIdent"} : k \in exposed => keys[k] = IF i = 3 THEN 8 ELSE 7
  BY <1>2, <1>5, <1>6
<1>8. \A k \in {"seq", "quotedSeq"} : k \in exposed => keys[k] = IF i = 3 THEN 1 ELSE i
  BY <1>2, <1>5, <1>6
<1>. QED BY <1>4, <1>5, <1>7, <1>8 DEF keys, true

\* The answer to a request carries the keys of that request, to whose values
\* those it quotes are equal.
LEMMA QuotedKeys ==
  ASSUME NEW i \in 1..3, NEW retry, NEW p \in ComparableKeys
  PROVE  p[1] \in EchoKeys /\ p[2] \in EchoKeys
         /\ TrueKeys(i, retry)[p[1]] = TrueKeys(i, retry)[p[2]]
<1>1. p \in {<<"ident", "ident">>, <<"seq", "seq">>, <<"quotedIdent", "ident">>,
             <<"quotedSeq", "seq">>, <<"ttl", "ttl">>, <<"attempt", "attempt">>}
  BY DEF ComparableKeys
<1>2. p[1] \in EchoKeys /\ p[2] \in EchoKeys
  BY <1>1 DEF EchoKeys
<1>3. /\ TrueKeys(i, retry)["ident"] = TrueKeys(i, retry)["quotedIdent"]
      /\ TrueKeys(i, retry)["seq"] = TrueKeys(i, retry)["quotedSeq"]
  BY DEF TrueKeys, EchoKeys
<1>4. \/ p[1] = p[2]
      \/ p[1] = "quotedIdent" /\ p[2] = "ident"
      \/ p[1] = "quotedSeq" /\ p[2] = "seq"
  BY <1>1
<1>. QED BY <1>2, <1>3, <1>4

\* The fields of the requests and of the answers in a report.
LEMMA ReportFields ==
  ASSUME NEW r \in Echoes, Plausible(r), NEW log, log = PathReport(r)
  PROVE  EchoReport(log, r)
<1>. DEFINE n == r.requests
            m == Len(r.answers)
            request(i) == PathObservation("outbound_icmp_echo", r.stamped,
                                          Reported(TrueKeys(i, r.retry), r.requestKeys), FALSE, i)
            answer(j) == PathObservation(r.kind, r.stamped,
                                         Reported(TrueKeys(r.answers[j].cause, r.retry),
                                                  r.answerKeys),
                                         r.answers[j].late, r.answers[j].cause)
            sent == [i \in 1..n |-> request(i)]
            got  == [j \in DOMAIN r.answers |-> answer(j)]
<1>1. n \in 1..2 /\ n \in Nat /\ r.kind \in EchoAnswers /\ r.answers \in Answers
  BY DEF Echoes
<1>2. PICK k \in 1..MaxAnswers : r.answers \in [1..k -> [cause : 1..3, late : BOOLEAN]]
  BY <1>1 DEF Answers
<1>3. MaxAnswers \in Nat
  BY CaptureAssumption
<1>4. k \in Nat /\ k > 0 /\ DOMAIN r.answers = 1..k /\ m = k
  <2>1. k \in Nat /\ k > 0
    BY <1>3
  <2>2. \A S : \A f \in [1..k -> S] : f \in Seq(S) /\ Len(f) \in Nat /\ DOMAIN f = 1..Len(f)
    BY <2>1
  <2>3. DOMAIN r.answers = 1..k
    BY <1>2
  <2>4. DOMAIN r.answers = 1..m /\ m \in Nat
    BY <1>2, <2>2, Zenon
  <2>. HIDE DEF m
  <2>. QED BY <2>1, <2>3, <2>4
<1>5. \A j \in 1..k : r.answers[j].cause \in (1..n) \cup {3}
  <2>1. \A j \in 1..k : r.answers[j].cause \in 1..3
    BY <1>2
  <2>2. \A j \in 1..k : r.answers[j].cause # 3 => r.answers[j].cause <= n
    BY <1>4 DEF Plausible
  <2>. QED BY <1>1, <2>1, <2>2
<1>. HIDE DEF m
<1>6. /\ Len(log) = n + k /\ DOMAIN log = 1..(n + k)
      /\ \A i \in 1..n : log[i] = request(i)
      /\ \A j \in 1..k : log[n + j] = answer(j)
  <2>1. log = sent \o got
    BY Zenon DEF PathReport
  <2>. HIDE DEF request, answer
  <2>. DEFINE S == {request(i) : i \in 1..n} \cup {answer(j) : j \in 1..k}
  <2>2. sent \in Seq(S) /\ Len(sent) = n /\ \A i \in 1..n : sent[i] = request(i)
    BY <1>1
  <2>3. got \in Seq(S) /\ Len(got) = k /\ \A j \in 1..k : got[j] = answer(j)
    BY <1>4
  <2>. HIDE DEF S, sent, got, n
  <2>4. sent \o got \in Seq(S) /\ Len(sent \o got) = n + k
    BY <2>2, <2>3
  <2>5. \A i \in 1..n : (sent \o got)[i] = sent[i]
    BY <1>1, <1>4, <2>2, <2>3
  <2>6. \A j \in 1..k : (sent \o got)[n + j] = got[j]
    BY <1>1, <1>4, <2>2, <2>3
  <2>7. DOMAIN (sent \o got) = 1..(n + k)
    BY <2>4
  <2>. QED BY <2>1, <2>2, <2>3, <2>4, <2>5, <2>6, <2>7, Zenon
<1>7. \A i \in 1..n :
         /\ log[i].kind = "outbound_icmp_echo" /\ log[i].peer = 1 /\ log[i].inWindow = TRUE
         /\ log[i].keys = Reported(TrueKeys(i, r.retry), r.requestKeys)
         /\ log[i].correlation = r.stamped /\ log[i].process = 0
  <2>. SUFFICES ASSUME NEW i \in 1..n
                PROVE  /\ log[i].kind = "outbound_icmp_echo" /\ log[i].peer = 1
                       /\ log[i].inWindow = TRUE
                       /\ log[i].keys = Reported(TrueKeys(i, r.retry), r.requestKeys)
                       /\ log[i].correlation = r.stamped /\ log[i].process = 0
    OBVIOUS
  <2>1. log[i] = request(i)
    BY <1>6, Zenon
  <2>2. request(i).inWindow = ~FALSE /\ ~FALSE = TRUE
    BY DEF PathObservation
  <2>3. /\ request(i).kind = "outbound_icmp_echo" /\ request(i).peer = 1
        /\ request(i).keys = Reported(TrueKeys(i, r.retry), r.requestKeys)
        /\ request(i).correlation = r.stamped /\ request(i).process = 0
    BY DEF PathObservation
  <2>. HIDE DEF request
  <2>. QED BY <2>1, <2>2, <2>3, Zenon
<1>8. \A j \in 1..k :
         /\ log[n + j].kind = r.kind /\ log[n + j].quoted \in {0, 1}
         /\ log[n + j].truth = r.answers[j].cause
         /\ log[n + j].keys = Reported(TrueKeys(r.answers[j].cause, r.retry), r.answerKeys)
         /\ log[n + j].correlation = r.stamped /\ log[n + j].process = 0
         /\ log[n + j].peer = 1 \/ log[n + j].quoted = 1
  <2>. SUFFICES ASSUME NEW j \in 1..k, NEW o, o = log[n + j]
                PROVE  /\ o.kind = r.kind /\ o.quoted \in {0, 1}
                       /\ o.truth = r.answers[j].cause
                       /\ o.keys = Reported(TrueKeys(r.answers[j].cause, r.retry), r.answerKeys)
                       /\ o.correlation = r.stamped /\ o.process = 0
                       /\ o.peer = 1 \/ o.quoted = 1
    BY Zenon
  <2>1. o = answer(j)
    BY <1>6, Zenon
  <2>. QED BY <2>1 DEF PathObservation
<1>9. \A a \in AnswerPlaces(r) : a - n \in 1..k /\ n + (a - n) = a
  BY <1>1, <1>4 DEF AnswerPlaces, m
<1>10. \A i \in 1..(n + k) : i \in 1..n \/ (i - n \in 1..k /\ n + (i - n) = i)
  BY <1>1, <1>4
<1>. HIDE DEF n
<1>11. \A a \in AnswerPlaces(r) :
          /\ log[a].kind = r.kind /\ log[a].quoted \in {0, 1}
          /\ log[a].truth \in (1..n) \cup {3}
          /\ log[a].keys = Reported(TrueKeys(log[a].truth, r.retry), r.answerKeys)
  <2>. SUFFICES ASSUME NEW a \in AnswerPlaces(r)
                PROVE  /\ log[a].kind = r.kind /\ log[a].quoted \in {0, 1}
                       /\ log[a].truth \in (1..n) \cup {3}
                       /\ log[a].keys = Reported(TrueKeys(log[a].truth, r.retry), r.answerKeys)
    BY Zenon
  <2>1. PICK j \in 1..k : j = a - n /\ n + j = a
    BY <1>9
  <2>2. /\ log[a].kind = r.kind /\ log[a].quoted \in {0, 1}
        /\ log[a].truth = r.answers[j].cause
        /\ log[a].keys = Reported(TrueKeys(r.answers[j].cause, r.retry), r.answerKeys)
    BY <1>8, <2>1
  <2>. QED BY <1>5, <2>2, Zenon
<1>12. \A i \in DOMAIN log :
          /\ log[i].correlation = r.stamped /\ log[i].process = 0
          /\ log[i].peer = 1 \/ log[i].quoted = 1
  <2>. SUFFICES ASSUME NEW i \in 1..(n + k)
                PROVE  /\ log[i].correlation = r.stamped /\ log[i].process = 0
                       /\ log[i].peer = 1 \/ log[i].quoted = 1
    BY <1>6, Zenon
  <2>1. CASE i \in 1..n
    BY <1>7, <2>1, Zenon
  <2>2. CASE i - n \in 1..k /\ n + (i - n) = i
    <3>1. PICK j \in 1..k : n + j = i
      BY <2>2
    <3>. QED BY <1>8, <3>1
  <2>. QED BY <1>10, <2>1, <2>2
<1>. QED BY <1>4, <1>6, <1>7, <1>11, <1>12, Zenon DEF EchoReport, n, m

\* A report is a sequence of requests and then at least one answer.
LEMMA ReportPlaces ==
  ASSUME NEW r \in Echoes, NEW log, EchoReport(log, r)
  PROVE  /\ r.requests \in 1..2 /\ r.requests \in Nat /\ r.kind \in EchoAnswers
         /\ Len(log) \in AnswerPlaces(r)
         /\ DOMAIN log = (1..r.requests) \cup AnswerPlaces(r)
         /\ \A i \in 1..r.requests : i \notin AnswerPlaces(r) /\ log[i].kind \notin EchoAnswers
         /\ \A a \in AnswerPlaces(r) :
               log[a].kind \in EchoAnswers /\ log[a].truth \in 1..3 /\ a \in Nat
<1>1. r.requests \in 1..2 /\ r.requests \in Nat /\ r.kind \in EchoAnswers
  BY DEF Echoes
<1>. DEFINE m == Len(r.answers)
<1>2. /\ m \in Nat /\ m > 0 /\ Len(log) = r.requests + m /\ DOMAIN log = 1..(r.requests + m)
      /\ \A i \in 1..r.requests : log[i].kind = "outbound_icmp_echo"
      /\ \A a \in AnswerPlaces(r) :
            log[a].kind = r.kind /\ log[a].truth \in (1..r.requests) \cup {3}
  BY Zenon DEF EchoReport
<1>. HIDE DEF m
<1>3. AnswerPlaces(r) = (r.requests + 1)..(r.requests + m)
  BY DEF AnswerPlaces, m
<1>4. /\ Len(log) \in AnswerPlaces(r) /\ DOMAIN log = (1..r.requests) \cup AnswerPlaces(r)
      /\ \A i \in 1..r.requests : i \notin AnswerPlaces(r)
      /\ \A a \in AnswerPlaces(r) : a \in Nat
  BY <1>1, <1>2, <1>3
<1>5. "outbound_icmp_echo" \notin EchoAnswers
  BY DEF EchoAnswers
<1>6. \A i \in 1..r.requests : log[i].kind \notin EchoAnswers
  BY <1>2, <1>5
<1>7. \A a \in AnswerPlaces(r) : log[a].kind \in EchoAnswers /\ log[a].truth \in 1..3
  BY <1>1, <1>2
<1>. QED BY <1>1, <1>4, <1>6, <1>7

\* The observations in the window of the capture.
InWindow(log) == {i \in DOMAIN log : log[i].inWindow}

\* Everything that such a backend reports within the window may belong to the
\* probe, and its requests are the emissions (identityMatches, pathTargetMatches).
LEMMA ReportIsRelevant ==
  ASSUME NEW r \in Echoes,
         EchoReport(snapshot.observations, r),
         probeType = "path"
  PROVE  /\ RelevantObservations(CorrelationInput) = InWindow(snapshot.observations)
         /\ Emissions(snapshot.observations, "outbound_icmp_echo", InWindow(snapshot.observations)) =
              1..r.requests
<1>. DEFINE in == CorrelationInput
            log == snapshot.observations
<1>1. /\ \A i \in DOMAIN log :
            /\ log[i].correlation = r.stamped /\ log[i].process = 0
            /\ log[i].peer = 1 \/ log[i].quoted = 1
      /\ \A i \in 1..r.requests : log[i].kind = "outbound_icmp_echo" /\ log[i].inWindow = TRUE
  BY Zenon DEF EchoReport
<1>2. in.probeType = "path" /\ in.correlation = 1 /\ in.process = 1 /\ in.addresses = {1}
      /\ in.capture.observations = log
  BY InputFields
<1>3. r.stamped \in {0, 1}
  BY DEF Echoes
<1>. HIDE DEF in
<1>4. \A i \in DOMAIN log : Relevant(log[i], in) <=> log[i].inWindow
  <2>. SUFFICES ASSUME NEW i \in DOMAIN log, NEW o, o = log[i]
                PROVE  Relevant(o, in) <=> o.inWindow
    OBVIOUS
  <2>1. o.correlation \in {0, 1} /\ o.process = 0 /\ (o.peer = 1 \/ o.quoted = 1)
    BY <1>1, <1>3
  <2>2. IdentityMatches(o, in) /\ ProcessMatches(o, in) /\ PathTargetMatches(o, in)
    BY <1>2, <2>1 DEF IdentityMatches, ProcessMatches, PathTargetMatches
  <2>. QED BY <1>2, <2>2, Zenon DEF Relevant
<1>5. RelevantObservations(in) = InWindow(log)
  <2>. HIDE DEF log
  <2>1. RelevantObservations(in) = {i \in DOMAIN log : Relevant(log[i], in)}
    BY <1>2, Zenon DEF RelevantObservations
  <2>2. \A i : i \in RelevantObservations(in) <=> i \in InWindow(log)
    BY <1>4, <2>1, Zenon DEF InWindow
  <2>. QED BY <2>2
<1>6. Emissions(log, "outbound_icmp_echo", InWindow(log)) = 1..r.requests
  <2>1. DOMAIN log = (1..r.requests) \cup AnswerPlaces(r)
        /\ \A a \in AnswerPlaces(r) : log[a].kind \in EchoAnswers
    BY ReportPlaces, Zenon
  <2>2. "outbound_icmp_echo" \notin EchoAnswers
    BY DEF EchoAnswers
  <2>. HIDE DEF log
  <2>3. \A i \in 1..r.requests : i \in InWindow(log)
    BY <1>1, <2>1 DEF InWindow
  <2>. QED BY <1>1, <2>1, <2>2, <2>3 DEF Emissions, InWindow
<1>. QED BY <1>5, <1>6 DEF in, log

\* The pairs that correlatePath keeps.
PathPairs(in, relevant) ==
    LET log       == in.capture.observations
        emissions == Emissions(log, "outbound_icmp_echo", relevant)
    IN  FirstFits({p \in emissions \X relevant :
                      /\ log[p[2]].kind \in EchoAnswers
                      /\ PathPair(log, p[1], p[2], emissions, relevant)})

\* What the search for an answer to a path probe ends with: the pairs it keeps or
\* nothing (correlatePath).
LEMMA PathForms ==
  ASSUME NEW in, NEW relevant,
         Emissions(in.capture.observations, "outbound_icmp_echo", relevant) # {}
  PROVE  /\ CorrelatePath(in, relevant).emission = "observed"
         /\ PathPairs(in, relevant) = {} => CorrelatePath(in, relevant).matched = {}
         /\ PathPairs(in, relevant) # {}
            /\ (\E k \in EchoKeys \ {"attempt"} :
                   in.capture.observations[Decisive(PathPairs(in, relevant))[2]].keys[k] # 0)
              => CorrelatePath(in, relevant).matched =
                   Matched(in.capture.observations, PathPairs(in, relevant))
<1>. DEFINE log   == in.capture.observations
            pairs == PathPairs(in, relevant)
            keyed == \E k \in EchoKeys \ {"attempt"} : log[Decisive(pairs)[2]].keys[k] # 0
            flow  == CorrelatePath(in, relevant)
            Found == \E outcome, certainty, method :
                        flow = Flow("available", "observed", outcome, Matched(log, pairs),
                                    certainty, method)
            Lost  == flow = Unanswered("none")
<1>1. pairs # {} /\ keyed => Found
  BY Zenon DEF CorrelatePath, PathPairs
<1>2. pairs # {} /\ ~keyed => Found \/ Lost
  BY Zenon DEF CorrelatePath, PathPairs
<1>3. pairs = {} => Lost
  BY Zenon DEF CorrelatePath, PathPairs
<1>4. Found => flow.emission = "observed" /\ flow.matched = Matched(log, pairs)
  BY DEF Flow
<1>5. Lost => flow.emission = "observed" /\ flow.matched = {}
  BY DEF Flow, Unanswered
<1>. HIDE DEF Found, Lost
<1>. QED BY <1>1, <1>2, <1>3, <1>4, <1>5, Zenon

\* The keys that an answer of a report and one of its requests both have.
Shared(log, i, a) == {p \in ComparableKeys : log[a].keys[p[1]] # 0 /\ log[i].keys[p[2]] # 0}

SharedNames(log, i, a) == {p[2] : p \in Shared(log, i, a)}

Reports(answerKeys, requestKeys) ==
    {p \in ComparableKeys : p[1] \in answerKeys /\ p[2] \in requestKeys}

\* They are those that the backend reports of both, whichever the two are.
LEMMA SharedKeys ==
  ASSUME NEW r \in Echoes, NEW log,
         EchoReport(log, r),
         NEW i \in 1..r.requests, NEW a \in AnswerPlaces(r)
  PROVE  Shared(log, i, a) = Reports(r.answerKeys, r.requestKeys)
<1>1. /\ log[a].keys = Reported(TrueKeys(log[a].truth, r.retry), r.answerKeys)
      /\ log[i].keys = Reported(TrueKeys(i, r.retry), r.requestKeys)
  BY Zenon DEF EchoReport
<1>2. log[a].truth \in 1..3 /\ r.requests \in 1..2
  BY ReportPlaces, Zenon
<1>3. i \in 1..3
  BY <1>2
<1>4. \A k \in EchoKeys : log[a].keys[k] # 0 <=> k \in r.answerKeys
  BY <1>1, <1>2, KeysOfEcho
<1>5. \A k \in EchoKeys : log[i].keys[k] # 0 <=> k \in r.requestKeys
  BY <1>1, <1>3, KeysOfEcho
<1>6. \A p \in ComparableKeys : p[1] \in EchoKeys /\ p[2] \in EchoKeys
  BY QuotedKeys
<1>. QED BY <1>4, <1>5, <1>6, Zenon DEF Shared, Reports

\* A backend that reports, for requests and answers alike, whose request it is
\* and which one, lets an answer fit its request and no other (pathPair).
LEMMA AnswerFits ==
  ASSUME NEW r \in Echoes, NEW log,
         EchoReport(log, r),
         NEW i \in 1..r.requests, NEW a \in AnswerPlaces(r), NEW emissions, NEW relevant,
         {"ident", "seq"} \subseteq SharedNames(log, i, a)
  PROVE  PathPair(log, i, a, emissions, relevant) <=> i = log[a].truth
<1>. DEFINE asked == log[i].keys
            told == log[a].keys
            cause == log[a].truth
            true == TrueKeys(cause, r.retry)
            shared == Shared(log, i, a)
<1>1. /\ told = Reported(TrueKeys(cause, r.retry), r.answerKeys)
      /\ asked = Reported(TrueKeys(i, r.retry), r.requestKeys)
  BY Zenon DEF EchoReport
<1>2. i \in {1, 2} /\ i \in 1..3 /\ cause \in 1..3
  <2>1. r.requests \in 1..2 /\ cause \in 1..3
    BY ReportPlaces, Zenon
  <2>. QED BY <2>1
<1>3. shared = {p \in ComparableKeys : p[1] \in r.answerKeys /\ p[2] \in r.requestKeys}
  BY SharedKeys, Zenon DEF Reports
<1>4. PathPair(log, i, a, emissions, relevant) => \A p \in shared : told[p[1]] = asked[p[2]]
  BY Zenon DEF PathPair, Shared
<1>5. PICK p \in shared : p[2] = "ident"
  <2>1. "ident" \in {p[2] : p \in shared}
    BY DEF SharedNames
  <2>. HIDE DEF shared
  <2>. QED BY <2>1
<1>6. PICK q \in shared : q[2] = "seq"
  <2>1. "seq" \in {q[2] : q \in shared}
    BY DEF SharedNames
  <2>. HIDE DEF shared
  <2>. QED BY <2>1
<1>7. p[1] \in {"ident", "quotedIdent"} /\ q[1] \in {"seq", "quotedSeq"}
  BY <1>3, <1>5, <1>6 DEF ComparableKeys
<1>8. p[1] \in r.answerKeys /\ q[1] \in r.answerKeys
      /\ "ident" \in r.requestKeys /\ "seq" \in r.requestKeys
  BY <1>3, <1>5, <1>6
<1>. HIDE DEF asked, told, cause, shared
<1>9. told[p[1]] = (IF cause = 3 THEN 8 ELSE 7) /\ told[q[1]] = (IF cause = 3 THEN 1 ELSE cause)
  BY <1>1, <1>2, <1>7, <1>8, KeysOfEcho
<1>10. asked["ident"] = 7 /\ asked["seq"] = i
  BY <1>1, <1>2, <1>8, KeysOfEcho
<1>11. ASSUME PathPair(log, i, a, emissions, relevant) PROVE i = cause
  <2>1. told[p[1]] = asked["ident"] /\ told[q[1]] = asked["seq"]
    BY <1>4, <1>5, <1>6, <1>11, Zenon
  <2>2. cause # 3
    BY <1>9, <1>10, <2>1
  <2>. QED BY <1>9, <1>10, <2>1, <2>2
<1>12. ASSUME i = cause PROVE PathPair(log, i, a, emissions, relevant)
  <2>1. ASSUME NEW m \in shared PROVE told[m[1]] = asked[m[2]]
    <3>1. m \in ComparableKeys /\ m[1] \in r.answerKeys /\ m[2] \in r.requestKeys
      BY <1>3
    <3>2. m[1] \in EchoKeys /\ m[2] \in EchoKeys /\ true[m[1]] = true[m[2]]
      BY <1>2, <3>1, QuotedKeys
    <3>. HIDE DEF true
    <3>3. told[m[1]] = true[m[1]]
      BY <1>1, <1>2, <3>1, <3>2, KeysOfEcho DEF true
    <3>4. asked[m[2]] = true[m[2]]
      BY <1>1, <1>2, <1>12, <3>1, <3>2, KeysOfEcho DEF true
    <3>. QED BY <3>2, <3>3, <3>4
  <2>2. log[a].correlation = log[i].correlation
    <3>1. a \in DOMAIN log /\ i \in DOMAIN log
      <4>1. DOMAIN log = (1..r.requests) \cup AnswerPlaces(r)
        BY ReportPlaces, Zenon
      <4>. QED BY <4>1
    <3>. QED BY <3>1, Zenon DEF EchoReport
  <2>3. log[a].quoted \in {0, 1} /\ log[i].peer = 1
    BY Zenon DEF EchoReport
  <2>4. Agrees(log[a].correlation, log[i].correlation) /\ Agrees(log[a].quoted, log[i].peer)
    BY <2>2, <2>3 DEF Agrees
  <2>5. shared # {}
    BY <1>5
  <2>. QED BY <2>1, <2>4, <2>5, Zenon DEF PathPair, Shared, shared, told, asked
<1>. QED BY <1>11, <1>12 DEF cause

\* With nothing in common an answer fits neither of two requests (pathPair).
LEMMA NothingFits ==
  ASSUME NEW r \in Echoes, NEW log, EchoReport(log, r), r.requests = 2,
         NEW i \in 1..2, NEW a \in AnswerPlaces(r), NEW relevant, Shared(log, i, a) = {}
  PROVE  ~PathPair(log, i, a, 1..2, relevant)
<1>1. Cardinality(1..2) = 2
  <2>1. 1 \in Int /\ 2 \in Int /\ 2 - 1 + 1 = 2 /\ ~(1 > 2)
    OBVIOUS
  <2>2. Cardinality(1..2) = IF 1 > 2 THEN 0 ELSE 2 - 1 + 1
    BY <2>1, FS_Interval, Zenon
  <2>. QED BY <2>1, <2>2
<1>2. log[1].correlation = r.stamped /\ log[2].correlation = r.stamped
      /\ log[a].correlation = r.stamped
  <2>1. DOMAIN log = (1..2) \cup AnswerPlaces(r)
    BY ReportPlaces, Zenon
  <2>2. 1 \in DOMAIN log /\ 2 \in DOMAIN log /\ a \in DOMAIN log
    BY <2>1
  <2>. QED BY <2>2, Zenon DEF EchoReport
<1>3. {x \in 1..2 : log[x].correlation = log[a].correlation} = 1..2
  BY <1>2
<1>4. {p \in ComparableKeys : log[a].keys[p[1]] # 0 /\ log[i].keys[p[2]] # 0} = {}
  BY Zenon DEF Shared
<1>5. PathPair(log, i, a, 1..2, relevant) =>
         \/ Cardinality({x \in 1..2 : log[x].correlation = log[a].correlation}) = 1
         \/ Cardinality(1..2) = 1
  BY <1>4, Zenon DEF PathPair
<1>. QED BY <1>1, <1>3, <1>5

\* The requests of a report and the answers in the window that fit them.
EchoFits(log, n) ==
    {p \in (1..n) \X InWindow(log) :
        /\ log[p[2]].kind \in EchoAnswers
        /\ PathPair(log, p[1], p[2], 1..n, InWindow(log))}

\* The answers of a report that are in the window.
AnswersInTime(log) == {a \in DOMAIN log : log[a].kind \in EchoAnswers /\ log[a].inWindow}

LEMMA OnlyAnswersFit ==
  ASSUME NEW r \in Echoes, NEW log, EchoReport(log, r)
  PROVE  /\ AnswersInTime(log) \subseteq AnswerPlaces(r) /\ AnswersInTime(log) \subseteq Nat
         /\ EchoFits(log, r.requests) =
              {p \in (1..r.requests) \X AnswersInTime(log) :
                  PathPair(log, p[1], p[2], 1..r.requests, InWindow(log))}
<1>1. /\ DOMAIN log = (1..r.requests) \cup AnswerPlaces(r)
      /\ \A i \in 1..r.requests : log[i].kind \notin EchoAnswers
      /\ \A a \in AnswerPlaces(r) : a \in Nat
  BY ReportPlaces, Zenon
<1>2. AnswersInTime(log) \subseteq AnswerPlaces(r)
  BY <1>1, Zenon DEF AnswersInTime
<1>3. \A a : a \in AnswersInTime(log) <=> a \in InWindow(log) /\ log[a].kind \in EchoAnswers
  BY Zenon DEF AnswersInTime, InWindow
<1>. QED BY <1>1, <1>2, <1>3 DEF EchoFits

\* What is filed of a path probe: what Correlate finds in a whole report.
LEMMA PathIsCorrelated ==
  ASSUME NEW r \in Echoes,
         EchoReport(snapshot.observations, r),
         NEW pairs, pairs = FirstFits(EchoFits(snapshot.observations, r.requests)),
         probeType = "path", ctx = "live", startError = None, Whole(snapshot)
  PROVE  /\ pairs = {} => Correlate(CorrelationInput).matched = {}
         /\ pairs # {} /\ (\E k \in EchoKeys \ {"attempt"} :
                             snapshot.observations[Decisive(pairs)[2]].keys[k] # 0)
              => Correlate(CorrelationInput).matched = Matched(snapshot.observations, pairs)
<1>. DEFINE in == CorrelationInput
            relevant == InWindow(snapshot.observations)
            log == snapshot.observations
<1>1. CaptureStatus(in) = "available"
  BY InputFields DEF CaptureStatus, Whole, None
<1>2. /\ RelevantObservations(in) = relevant
      /\ Emissions(log, "outbound_icmp_echo", relevant) = 1..r.requests
  BY ReportIsRelevant, Zenon
<1>3. in.probeType = "path" /\ in.capture.observations = log
  BY InputFields
<1>. HIDE DEF in
<1>4. 1..r.requests # {}
  <2>1. r.requests \in 1..2
    BY DEF Echoes
  <2>. QED BY <2>1
<1>5. pairs = PathPairs(in, relevant)
  BY <1>2, <1>3, Zenon DEF EchoFits, PathPairs
<1>. HIDE DEF relevant, log
<1>6. /\ CorrelatePath(in, relevant).emission = "observed"
      /\ pairs = {} => CorrelatePath(in, relevant).matched = {}
      /\ pairs # {} /\ (\E k \in EchoKeys \ {"attempt"} : log[Decisive(pairs)[2]].keys[k] # 0)
           => CorrelatePath(in, relevant).matched = Matched(log, pairs)
  BY <1>2, <1>3, <1>4, <1>5, PathForms, Zenon
<1>7. Correlate(in) = CorrelatePath(in, relevant)
  <2>1. CorrelatePath(in, relevant).emission # "unknown"
    BY <1>6
  <2>2. "available" # "cancelled"
    OBVIOUS
  <2>. QED BY <1>1, <1>2, <1>3, <2>1, <2>2, Zenon DEF Correlate
<1>. QED BY <1>6, <1>7, Zenon DEF in, log

\* Pairs of which no two share an answer are all kept.
LEMMA OneRequestEach ==
  ASSUME NEW fits, fits \subseteq Nat \X Nat,
         \A p, q \in fits : p[2] = q[2] => p[1] = q[1]
  PROVE  FirstFits(fits) = fits
<1>1. \A p \in fits : p[1] \in Nat
  OBVIOUS
<1>2. \A p, q \in fits : q[2] = p[2] => p[1] <= q[1]
  BY <1>1
<1>. QED BY <1>2 DEF FirstFits

\* What is filed of a path probe attributes the answers as their keys say.
LEMMA FiledIsAttributed == PathInv => PathAttribution
<1>. SUFFICES ASSUME PathInv, Filed("path") PROVE PathAttribution
  BY DEF PathAttribution
<1>. DEFINE log == snapshot.observations
            last == log[Len(log)]
            shared == {p \in ComparableKeys : last.keys[p[1]] # 0 /\ log[1].keys[p[2]] # 0}
            keys == {p[2] : p \in shared}
            answers == AnswersInTime(log)
            told == {b \in answers : log[b].truth # 3}
<1>1. /\ probeType = "path" /\ ctx = "live" /\ startError = None /\ PathCapture /\ Whole(snapshot)
      /\ evidence = Correlate(CorrelationInput)
  BY DEF PathInv, Filed, Whole
<1>2. PICK r \in Echoes : EchoReport(log, r)
  BY <1>1, Zenon DEF PathCapture
<1>. DEFINE n == r.requests
            fits == EchoFits(log, n)
            pairs == FirstFits(fits)
<1>3. /\ pairs = {} => evidence.matched = {}
      /\ pairs # {} /\ (\E k \in EchoKeys \ {"attempt"} : log[Decisive(pairs)[2]].keys[k] # 0)
           => evidence.matched = Matched(log, pairs)
  BY <1>1, <1>2, PathIsCorrelated, Zenon
<1>4. /\ n \in 1..2 /\ n \in Nat /\ Len(log) \in AnswerPlaces(r)
      /\ DOMAIN log = (1..n) \cup AnswerPlaces(r)
      /\ \A a \in AnswerPlaces(r) : log[a].kind \in EchoAnswers
  BY <1>2, ReportPlaces, Zenon
<1>5. /\ answers \subseteq AnswerPlaces(r) /\ answers \subseteq Nat
      /\ fits = {p \in (1..n) \X answers : PathPair(log, p[1], p[2], 1..n, InWindow(log))}
  BY <1>2, OnlyAnswersFit, Zenon
<1>6. \A i \in 1..n : \A a \in AnswerPlaces(r) : Shared(log, i, a) = shared
  <2>1. \A i \in 1..n : \A a \in AnswerPlaces(r) :
           Shared(log, i, a) = Reports(r.answerKeys, r.requestKeys)
    BY <1>2, SharedKeys, Zenon
  <2>2. shared = Shared(log, 1, Len(log))
    BY Zenon DEF Shared
  <2>3. 1 \in 1..n
    BY <1>4
  <2>. HIDE DEF shared, log, n
  <2>. QED BY <1>4, <2>1, <2>2, <2>3, Zenon
<1>7. fits = {} => evidence.matched = {}
  BY <1>3 DEF FirstFits
<1>8. \A a \in answers : log[a].truth \in (1..n) \cup {3}
  BY <1>2, <1>5, Zenon DEF EchoReport
<1>. HIDE DEF shared, fits, pairs, answers, log, n
<1>9. ASSUME {"ident", "seq"} \subseteq keys
      PROVE  evidence.matched = {<<log[log[a].truth], log[a]>> : a \in told}
  <2>1. \A i \in 1..n : \A a \in answers :
           PathPair(log, i, a, 1..n, InWindow(log)) <=> i = log[a].truth
    <3>. SUFFICES ASSUME NEW i \in 1..n, NEW a \in AnswerPlaces(r)
                  PROVE  PathPair(log, i, a, 1..n, InWindow(log)) <=> i = log[a].truth
      BY <1>5, Zenon
    <3>1. {"ident", "seq"} \subseteq SharedNames(log, i, a)
      BY <1>6, <1>9, Zenon DEF SharedNames
    <3>2. i \in 1..r.requests
      BY DEF n
    <3>. QED BY <1>2, <3>1, <3>2, AnswerFits, Zenon
  <2>2. \A a \in told : a \in Nat /\ log[a].truth \in 1..n
    BY <1>5, <1>8
  <2>3. fits = {<<log[a].truth, a>> : a \in told}
    <3>1. \A p \in fits : p[2] \in told /\ p = <<log[p[2]].truth, p[2]>>
      <4>. SUFFICES ASSUME NEW p \in fits PROVE p[2] \in told /\ p = <<log[p[2]].truth, p[2]>>
        OBVIOUS
      <4>1. p \in (1..n) \X answers /\ PathPair(log, p[1], p[2], 1..n, InWindow(log))
        BY <1>5, Zenon
      <4>2. p[1] \in 1..n /\ p[2] \in answers /\ p = <<p[1], p[2]>>
        BY <4>1
      <4>3. p[1] = log[p[2]].truth
        BY <2>1, <4>1, <4>2, Zenon
      <4>4. 3 \notin 1..n
        BY <1>4
      <4>. QED BY <4>2, <4>3, <4>4
    <3>2. \A a \in told : <<log[a].truth, a>> \in fits
      BY <1>5, <2>1, <2>2
    <3>. HIDE DEF told
    <3>. QED BY <3>1, <3>2
  <2>4. fits \subseteq Nat \X Nat /\ \A p, q \in fits : p[2] = q[2] => p[1] = q[1]
    BY <1>4, <2>2, <2>3
  <2>5. pairs = fits
    BY <2>4, OneRequestEach DEF pairs
  <2>6. Matched(log, pairs) = {<<log[log[a].truth], log[a]>> : a \in told}
    <3>. DEFINE pair(a) == <<log[a].truth, a>>
    <3>1. \A a \in told : pair(a)[1] = log[a].truth /\ pair(a)[2] = a
      OBVIOUS
    <3>2. pairs = {pair(a) : a \in told}
      BY <2>3, <2>5, Zenon
    <3>. HIDE DEF pair, told
    <3>3. Matched(log, pairs) = {<<log[pair(a)[1]], log[pair(a)[2]]>> : a \in told}
      BY <3>2 DEF Matched
    <3>. QED BY <3>1, <3>3
  <2>7. CASE fits = {}
    <3>1. told = {}
      BY <2>3, <2>7
    <3>. QED BY <1>7, <2>7, <3>1
  <2>8. CASE fits # {}
    <3>1. Decisive(pairs) \in fits
      BY <2>4, <2>5, <2>8, DecisiveIsAPair
    <3>2. Decisive(pairs)[2] \in AnswerPlaces(r)
      BY <1>5, <3>1
    <3>3. \E k \in EchoKeys \ {"attempt"} : log[Decisive(pairs)[2]].keys[k] # 0
      <4>1. PICK p \in shared : p[2] = "ident"
        BY <1>9
      <4>2. Shared(log, 1, Decisive(pairs)[2]) = shared
        <5>1. 1 \in 1..n
          BY <1>4
        <5>. QED BY <1>6, <3>2, <5>1, Zenon
      <4>3. p \in ComparableKeys /\ log[Decisive(pairs)[2]].keys[p[1]] # 0
        BY <4>1, <4>2, Zenon DEF Shared
      <4>4. p[1] \in EchoKeys \ {"attempt"}
        BY <4>1, <4>3 DEF ComparableKeys, EchoKeys
      <4>. QED BY <4>3, <4>4
    <3>. QED BY <1>3, <2>5, <2>6, <2>8, <3>3, Zenon
  <2>. QED BY <2>7, <2>8
<1>10. ASSUME shared = {}, log[2].kind = "outbound_icmp_echo" PROVE evidence.matched = {}
  <2>1. n = 2
    <3>1. "outbound_icmp_echo" \notin EchoAnswers
      BY DEF EchoAnswers
    <3>2. 2 \notin AnswerPlaces(r)
      BY <1>4, <1>10, <3>1
    <3>3. Len(r.answers) \in Nat /\ Len(r.answers) > 0
      BY <1>2, Zenon DEF EchoReport
    <3>. QED BY <1>4, <3>2, <3>3 DEF AnswerPlaces, n
  <2>2. \A i \in 1..2 : \A a \in AnswerPlaces(r) : ~PathPair(log, i, a, 1..2, InWindow(log))
    <3>1. r.requests = 2
      BY <2>1 DEF n
    <3>2. \A i \in 1..2 : \A a \in AnswerPlaces(r) : Shared(log, i, a) = {}
      BY <1>6, <1>10, <2>1, Zenon
    <3>. QED BY <1>2, <3>1, <3>2, NothingFits, Zenon
  <2>3. fits = {}
    BY <1>5, <2>1, <2>2
  <2>. QED BY <1>7, <2>3
<1>. QED BY <1>9, <1>10, Zenon DEF PathAttribution, AnswersInTime, shared, answers, log

\* Nothing is filed at first.
LEMMA PathInit == Init => PathInv
  BY DEF Init, PathInv

\* A path probe takes two steps, the capture and the filing; all others belong to
\* TCP probes or to goroutines that only TCP probes start.
LEMMA PathStep == PathInv /\ [Next]_vars => PathInv'
<1>. SUFFICES ASSUME PathInv, [Next]_vars, probeType' = "path" PROVE PathInv'
  BY DEF PathInv
<1>. USE DEF nativeVars, threadVars
<1>1. CASE RunPath
  <2>1. /\ pc = "starting" /\ pc' = "correlating" /\ probeType' = "path"
        /\ ctx' = "live" /\ startError' = None
    BY <1>1 DEF RunPath, PathInv
  <2>2. PICK r \in Echoes :
           /\ Plausible(r)
           /\ snapshot' = [EmptyCapture EXCEPT !.complete = TRUE, !.observations = PathReport(r)]
    BY <1>1, Zenon DEF RunPath
  <2>. DEFINE report == PathReport(r)
  <2>3. /\ snapshot'.observations = report /\ snapshot'.complete = TRUE /\ snapshot'.lost = 0
        /\ snapshot'.cancelled = FALSE /\ snapshot'.error = FALSE
    <3>. HIDE DEF report
    <3>1. snapshot' = [EmptyCapture EXCEPT !.complete = TRUE, !.observations = report]
      BY <2>2 DEF report
    <3>. QED BY <3>1 DEF EmptyCapture
  <2>. HIDE DEF report
  <2>4. EchoReport(snapshot'.observations, r)
    BY <2>2, <2>3, ReportFields DEF report
  <2>5. PathCapture'
    BY <2>4, Zenon DEF PathCapture, EchoReport
  <2>. QED BY <2>1, <2>3, <2>5 DEF PathInv, Whole
<1>2. CASE File
  <2>1. /\ pc = "correlating" /\ pc' = "filed" /\ evidence' = Correlate(CorrelationInput)
        /\ UNCHANGED <<probeType, ctx, startError, result, snapshot>>
    BY <1>2, Zenon DEF File
  <2>2. CorrelationInput' = CorrelationInput
    BY <2>1 DEF CorrelationInput
  <2>3. PathCapture' <=> PathCapture
    BY <2>1 DEF PathCapture
  <2>. QED BY <2>1, <2>2, <2>3 DEF PathInv
<1>3. CASE UNCHANGED <<pc, probeType, ctx, startError, result, snapshot, evidence>>
  <2>1. CorrelationInput' = CorrelationInput
    BY <1>3 DEF CorrelationInput
  <2>2. PathCapture' <=> PathCapture
    BY <1>3 DEF PathCapture
  <2>. QED BY <1>3, <2>1, <2>2 DEF PathInv
<1>4. \/ RunPath \/ File
      \/ UNCHANGED <<pc, probeType, ctx, startError, result, snapshot, evidence>>
  <2>1. CASE UNCHANGED vars
    BY <2>1 DEF vars
  <2>2. CASE Consume \/ WatcherEnds \/ ProcessReturns(FALSE) \/ ProcessReturns(TRUE)
    BY <2>2 DEF Consume, WatcherEnds, ProcessReturns
  <2>3. ASSUME NEW f \in Flows, Request(f) \/ Emit(f) \/ Answer(f) PROVE FALSE
    <3>1. probeType = "tcp" /\ probeType' = probeType
      BY <2>3 DEF Request, Emit, Answer, Advance
    <3>. QED BY <3>1
  <2>4. CASE DeadlinePasses \/ ContextEnds \/ StartTrace
    <3>1. probeType = "tcp" /\ probeType' = probeType
      BY <2>4 DEF DeadlinePasses, ContextEnds, StartTrace
    <3>. QED BY <3>1
  <2>5. CASE EnableTrace \/ OpenTrace \/ ProbeReturns \/ Stop \/ StopReturns \/ WatcherCancels
    <3>1. probeType' = probeType
      BY <2>5 DEF EnableTrace, OpenTrace, ProbeReturns, Stop, StopReturns, WatcherCancels
    <3>2. pc \in {"enabling", "opening", "running", "stopping", "waiting"} \/ ctx # "live"
      BY <2>5 DEF EnableTrace, OpenTrace, ProbeReturns, Stop, StopReturns, WatcherCancels
    <3>. QED BY <3>1, <3>2 DEF PathInv
  <2>. QED BY <2>1, <2>2, <2>3, <2>4, <2>5, Zenon DEF Next
<1>. QED BY <1>1, <1>2, <1>3, <1>4

\* A path probe is only filed from one whole report of its backend.
LEMMA PathInvariant == Spec => []PathInv
  BY PathInit, PathStep, PTL DEF Spec

\* Answers whose keys tell whose requests they answer and which ones are attributed
\* to those requests alone, whatever else the backend reports of them; those that
\* share nothing with either of two requests are attributed to none.
THEOREM AnswersAreAttributed == Spec => []PathAttribution
  BY FiledIsAttributed, PathInvariant, PTL
=============================================================================
