------------------------- MODULE PacketCorrelation --------------------------
(***************************************************************************)
(* How a finished capture becomes the packet evidence of one probe         *)
(* (Correlate in internal/packet/packet.go).  Addresses, ports and keys    *)
(* are small numbers, 0 where a backend does not report the field; the     *)
(* window and the process filter act on a single flag each.  Sets of       *)
(* observations are sets of their places in the capture.                   *)
(***************************************************************************)
EXTENDS Integers, Sequences, FiniteSets

(* An observation is seen from the local host: its local port, the address *)
(* and port of the other end, the correlation ID its backend gave it, its  *)
(* place in the probe's window, and the keys of an echo request or reply.  *)
EchoKeys == {"ident", "seq", "quotedIdent", "quotedSeq", "ttl", "attempt"}
NoKeys   == [k \in EchoKeys |-> 0]

Responses    == {"inbound_tcp_syn_ack", "tcp_rst", "tcp_handshake_confirmed"}
EchoAnswers  == {"inbound_icmp_echo", "icmp_time_exceeded", "icmp_unreachable"}
Inbound(o)   == o.kind \in Responses \cup EchoAnswers

\* The keys of an answer that can be compared with a key of the request.
ComparableKeys ==
    {<<"ident", "ident">>, <<"seq", "seq">>, <<"quotedIdent", "ident">>, <<"quotedSeq", "seq">>,
     <<"ttl", "ttl">>, <<"attempt", "attempt">>}

-----------------------------------------------------------------------------
\* captureStatus: a start error is "insufficient_privilege", "unsupported" or "error".
CaptureStatus(in) ==
    CASE in.cancelled \/ in.capture.cancelled -> "cancelled"
      [] in.startError # "none"               -> in.startError
      [] in.capture.error                     -> "error"
      [] in.capture.lost # 0                  -> "partial"
      [] ~in.capture.complete                 -> "error"
      [] OTHER                                -> "available"

\* The certainty each kind of packet can support.
ClassifyPacketCertainty(kind) ==
    CASE kind \in Responses \cup {"inbound_icmp_echo"}          -> "confirmed_endpoint_response"
      [] kind \in {"icmp_time_exceeded", "icmp_unreachable"}    -> "observed_ttl_responder"
      [] kind \in {"outbound_tcp_syn", "outbound_icmp_echo"}    -> "directly_observed_local_packet"
      [] OTHER                                                  -> "unobservable_segment"

IdentityMatches(o, in) == o.correlation \in {0, in.correlation}
ProcessMatches(o, in)  == o.process \in {0, in.process}

\* Whether the observation may belong to the probe's connection: the local
\* port if the result names one, the port and an address of the target.
TcpTargetMatches(o, in) ==
    LET remote == IF in.tuple.remote # 0 THEN in.tuple.remote ELSE in.selected IN
    /\ in.tuple.port # 0 => o.localPort = in.tuple.port
    /\ o.peerPort = in.port
    /\ remote # 0 => o.peer = remote \/ o.peer \in in.addresses

\* An echo, its reply or the packet a router quotes names the target.
PathTargetMatches(o, in) == {o.peer, o.quoted} \cap in.addresses # {}

Relevant(o, in) ==
    /\ IdentityMatches(o, in) /\ ProcessMatches(o, in) /\ o.inWindow
    /\ IF in.probeType = "tcp" THEN TcpTargetMatches(o, in) ELSE PathTargetMatches(o, in)

RelevantObservations(in) ==
    {i \in DOMAIN in.capture.observations : Relevant(in.capture.observations[i], in)}

-----------------------------------------------------------------------------
\* Fields that both observations report must agree.
Agrees(a, b) == a = 0 \/ b = 0 \/ a = b

TcpPair(emission, response) ==
    /\ Agrees(emission.connection, response.connection)
    /\ Agrees(emission.localPort, response.localPort)
    /\ Agrees(emission.peerPort, response.peerPort)
    /\ Agrees(emission.peer, response.peer)

\* Faulty variant: one correlation ID for a whole trace is taken for a key.
PathPair_ByCorrelation(log, emission, response, emissions, relevant) ==
    LET e == log[emission]
        a == log[response]
    IN  /\ Agrees(a.correlation, e.correlation)
        /\ \A p \in {q \in ComparableKeys : a.keys[q[1]] # 0 /\ e.keys[q[2]] # 0} :
              a.keys[p[1]] = e.keys[p[2]]
        /\ Agrees(a.quoted, e.peer)

\* pathPair: no key contradicts, and some key, a correlation ID that only one
\* request carries, or the absence of any other request, decides.
PathPair(log, emission, response, emissions, relevant) ==
    LET e        == log[emission]
        a        == log[response]
        compared == {p \in ComparableKeys : a.keys[p[1]] # 0 /\ e.keys[p[2]] # 0}
        sameID   == e.correlation # 0 /\ a.correlation = e.correlation
    IN  /\ Agrees(a.correlation, e.correlation)
        /\ \A p \in compared : a.keys[p[1]] = e.keys[p[2]]
        /\ Agrees(a.quoted, e.peer)
        /\ \/ compared # {}
           \/ sameID /\ Cardinality({x \in emissions : log[x].correlation = a.correlation}) = 1
           \/ Cardinality(emissions) = 1 /\ Cardinality(relevant) <= 2

-----------------------------------------------------------------------------
(* What Correlate decides: whether the probe was seen to send, the outcome *)
(* of the flow, the evidence it rests on and how it was matched.           *)
Flow(status, emission, outcome, matched, certainty, method) ==
    [status |-> status, emission |-> emission, outcome |-> outcome, matched |-> matched,
     certainty |-> certainty, method |-> method]

Undecided(status, outcome) ==
    Flow(status, "unknown", outcome, {}, "unobservable_segment", "none")

Unanswered(method) ==
    Flow("available", "observed", "no_matching_response_observed", {}, "unobservable_segment",
         method)

\* The requests of one kind.
Emissions(log, kind, relevant) == {i \in relevant : log[i].kind = kind}

\* Of the pairs of a request and an answer that fit, each answer keeps the one
\* with the first request; the first answer that keeps one decides.
FirstFits(fits) == {p \in fits : \A q \in fits : q[2] = p[2] => p[1] <= q[1]}

Decisive(pairs) == CHOOSE p \in pairs : \A q \in pairs : p[2] <= q[2]

Matched(log, pairs) == {<<log[p[1]], log[p[2]]>> : p \in pairs}

\* The method names the correlation ID as soon as one request carries one.
Method(log, emissions, named, unnamed) ==
    IF \E e \in emissions : log[e].correlation # 0 THEN named ELSE unnamed

TcpOutcome(kind) ==
    CASE kind = "inbound_tcp_syn_ack"     -> "tcp_syn_ack_received"
      [] kind = "tcp_handshake_confirmed" -> "tcp_handshake_confirmed"
      [] OTHER                            -> "tcp_rst_received"

CorrelateTCP(in, relevant) ==
    LET log       == in.capture.observations
        emissions == {e \in Emissions(log, "outbound_tcp_syn", relevant) :
                         in.tuple.port # 0 => log[e].localPort = in.tuple.port}
        pairs     == FirstFits({p \in emissions \X relevant :
                                   log[p[2]].kind \in Responses /\ TcpPair(log[p[1]], log[p[2]])})
        method    == Method(log, emissions, "correlation_id_and_tcp_tuple", "process_and_tcp_tuple")
    IN  CASE emissions = {}                  -> Undecided("available", "capture_unavailable")
          [] emissions # {} /\ pairs = {}    -> Unanswered(method)
          [] emissions # {} /\ pairs # {}    ->
                Flow("available", "observed", TcpOutcome(log[Decisive(pairs)[2]].kind),
                     Matched(log, pairs), "confirmed_endpoint_response", method)

PathOutcome(kind) ==
    CASE kind = "inbound_icmp_echo"  -> "icmp_echo_reply_received"
      [] kind = "icmp_time_exceeded" -> "icmp_time_exceeded_received"
      [] OTHER                       -> "icmp_unreachable_received"

\* The answer that decides must carry a key of its own, or be the only one.
CorrelatePath(in, relevant) ==
    LET log       == in.capture.observations
        emissions == Emissions(log, "outbound_icmp_echo", relevant)
        pairs     == FirstFits({p \in emissions \X relevant :
                                   /\ log[p[2]].kind \in EchoAnswers
                                   /\ PathPair(log, p[1], p[2], emissions, relevant)})
        decides   == log[Decisive(pairs)[2]]
        keyed     == \E k \in EchoKeys \ {"attempt"} : decides.keys[k] # 0
        unique    == Cardinality(emissions) = 1 /\ Cardinality(pairs) = 1
        Found(named, unnamed) ==
            Flow("available", "observed", PathOutcome(decides.kind), Matched(log, pairs),
                 ClassifyPacketCertainty(decides.kind), Method(log, emissions, named, unnamed))
    IN  IF emissions = {} THEN Undecided("available", "capture_unavailable")
        ELSE CASE pairs # {} /\ keyed -> Found("correlation_id_and_path_key", "path_key")
               [] pairs # {} /\ ~keyed /\ unique
                       -> Found("correlation_id_and_unique_path_tuple", "unique_path_tuple")
               [] OTHER -> Unanswered("none")

\* Absence is a result only if the capture could have told this probe from others.
CanClassifyProbeNotEmitted(in) ==
    IF in.probeType = "path" THEN in.passed ELSE in.tuple.remote # 0 \/ in.literal

NotEmitted == Flow("available", "not_observed", "probe_not_observed", {}, "unobservable_segment", "none")

Correlate(in) ==
    LET status   == CaptureStatus(in)
        relevant == RelevantObservations(in)
        flow     == IF in.probeType = "path" THEN CorrelatePath(in, relevant)
                                             ELSE CorrelateTCP(in, relevant)
    IN  CASE status = "cancelled" -> Undecided(status, "cancelled")
          [] status # "available" /\ status # "cancelled"
                                  -> Undecided(status, "capture_unavailable")
          [] OTHER -> IF flow.emission = "unknown" /\ in.capture.complete
                         /\ CanClassifyProbeNotEmitted(in)
                      THEN NotEmitted ELSE flow
=============================================================================
