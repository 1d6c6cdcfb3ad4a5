------------------------- MODULE CaptureProxyProofs -------------------------
(***************************************************************************)
(* Proofs about CaptureProxy, for any number of requests and destinations  *)
(* and any limit of the gate.                                              *)
(***************************************************************************)
EXTENDS CaptureProxy, FiniteSetTheorems, TLAPS

-----------------------------------------------------------------------------
(* The inductive invariant, request by request.                            *)

\* A connection that stop closes, or has copied and will close.
Registered(c) == IF stopper = "none" THEN c \in active ELSE c \in doomed

\* Which handler runs, and when a dial goroutine and what it was seen to do exist.
HandlerInv(r) ==
    /\ pc[r] # "idle" => goal[r].method \in Methods
    /\ pc[r] \in {"dialing", "dialed", "hijacked", "halfTracked", "tracked", "halfClosed"} =>
         goal[r].method = "connect"
    /\ pc[r] = "exchanging" => goal[r].method = "http"
    /\ pc[r] \in {"resolving", "dialing", "dialed", "hijacked", "halfTracked", "tracked",
                  "exchanging"} => goal[r].dest # "none"
    /\ dialer[r] # "none" =>
         /\ goal[r].method = "http"
         /\ pc[r] \in {"exchanging", "streaming", "closing", "leaving", "over"}
    /\ found[r] = "given" => dialer[r] = "delivered"
    /\ found[r] # "nothing" =>
         /\ goal[r].method = "http"
         /\ pc[r] \in {"streaming", "closing", "leaving", "over"}

\* An open connection to the client belongs to a tunnel at work, and from the
\* first track on it is registered.
ClientInv(r) ==
    conn[Client(r)] = "open" =>
      /\ goal[r].method = "connect"
      /\ \/ pc[r] = "hijacked"
         \/ pc[r] \in {"halfTracked", "tracked", "streaming"} /\ Registered(Client(r))

\* So it is with the upstream connection, which the dialer of a plain request
\* may have registered and a handler that glimpsed it taken out again.
UpstreamInv(r) ==
    conn[Upstream(r)] = "open" =>
      \/ /\ goal[r].method = "connect"
         /\ \/ pc[r] \in {"dialed", "hijacked", "halfTracked"}
            \/ pc[r] \in {"tracked", "streaming"} /\ Registered(Upstream(r))
      \/ /\ goal[r].method = "http"
         /\ \/ dialer[r] = "connected"
            \/ dialer[r] = "tracked" /\ (Registered(Upstream(r)) \/ found[r] = "glimpsed")
            \/ /\ dialer[r] = "delivered" /\ Registered(Upstream(r))
               /\ pc[r] \in {"exchanging", "streaming"}

\* Which connections are in active, and up to which step.
ActiveInv(r) ==
    /\ Client(r) \in active =>
         /\ goal[r].method = "connect"
         /\ pc[r] \in {"halfTracked", "tracked", "streaming", "closing"}
    /\ Upstream(r) \in active =>
         \/ /\ goal[r].method = "connect"
            /\ pc[r] \in {"tracked", "streaming", "closing", "halfClosed"}
         \/ /\ goal[r].method = "http"
            /\ dialer[r] \in {"tracked", "delivered"}
            /\ found[r] = "given" => pc[r] \in {"streaming", "closing"}

RequestInv(r) == HandlerInv(r) /\ ClientInv(r) /\ UpstreamInv(r) /\ ActiveInv(r)

GateInv ==
    /\ gate = Cardinality({r \in Requests : Inside(r)})
    /\ gate <= MaxConnections

ProxyInv ==
    /\ TypeOK
    /\ \A r \in Requests : RequestInv(r)
    /\ stopper = "over" => doomed = {}
    /\ GateInv
    /\ CountedOnce

-----------------------------------------------------------------------------
(* The connections.                                                        *)

LEMMA ConnFacts ==
    /\ \A r \in Requests : Client(r) \in Conns /\ Upstream(r) \in Conns
    /\ \A r, t : Client(r) # Upstream(t)
    /\ \A r, t : r # t => Client(r) # Client(t) /\ Upstream(r) # Upstream(t)
BY DEF Client, Upstream, Conns, Sides

\* Merging one more result keeps the counts of a destination adding up.
LEMMA MergeFacts ==
    ASSUME NEW e \in [seen : Nat, successes : Nat, failures : Nat, outcome : Outcomes],
           NEW result \in Failures \cup {"connected"},
           e.seen = e.successes + e.failures
    PROVE  LET m == Merge(e, result) IN
           /\ m \in [seen : Nat, successes : Nat, failures : Nat, outcome : Outcomes]
           /\ m.seen = e.seen + 1 /\ m.seen = m.successes + m.failures
           /\ m.outcome = "mixed" <=> m.successes > 0 /\ m.failures > 0
           /\ m.outcome = "connected" <=> m.successes > 0 /\ m.failures = 0
<1>. DEFINE won  == e.successes + (IF result = "connected" THEN 1 ELSE 0)
            lost == e.failures + (IF result = "connected" THEN 0 ELSE 1)
            out  == IF won > 0 /\ lost > 0 THEN "mixed"
                    ELSE IF won > 0 THEN "connected" ELSE result
<1>1. /\ won \in Nat /\ lost \in Nat /\ e.seen \in Nat /\ e.seen + 1 = won + lost
      /\ won = 0 => result # "connected"
    OBVIOUS
<1>. HIDE DEF won, lost
<1>2. /\ out \in Outcomes
      /\ out = "mixed" <=> won > 0 /\ lost > 0
      /\ out = "connected" <=> won > 0 /\ lost = 0
    BY <1>1 DEF Outcomes, Failures
<1>. HIDE DEF out
<1>3. Merge(e, result) = [seen |-> e.seen + 1, successes |-> won, failures |-> lost, outcome |-> out]
    BY DEF Merge, won, lost, out
<1>. QED
    BY <1>1, <1>2, <1>3

-----------------------------------------------------------------------------
(* What one step does to the requests it is not about.                     *)
SameAt(t) ==
    /\ pc'[t] = pc[t] /\ goal'[t] = goal[t] /\ dialer'[t] = dialer[t] /\ found'[t] = found[t]
    /\ conn'[Client(t)] = conn[Client(t)] /\ conn'[Upstream(t)] = conn[Upstream(t)]
    /\ (Client(t) \in active' <=> Client(t) \in active)
    /\ (Upstream(t) \in active' <=> Upstream(t) \in active)

\* A request stays consistent as long as nothing of it, and nothing of the
\* stop, changes.
LEMMA RequestKept ==
    ASSUME NEW t \in Requests, RequestInv(t), SameAt(t), UNCHANGED <<stopper, doomed>>
    PROVE  RequestInv(t)'
<1>1. /\ Registered(Client(t))' <=> Registered(Client(t))
      /\ Registered(Upstream(t))' <=> Registered(Upstream(t))
    BY DEF SameAt, Registered, Client, Upstream
<1>2. HandlerInv(t)'
    BY DEF RequestInv, SameAt, HandlerInv
<1>3. ClientInv(t)'
    BY <1>1 DEF RequestInv, SameAt, ClientInv, Client
<1>4. UpstreamInv(t)'
    BY <1>1 DEF RequestInv, SameAt, UpstreamInv, Upstream
<1>5. ActiveInv(t)'
    BY DEF RequestInv, SameAt, ActiveInv, Client, Upstream
<1>. QED
    BY <1>2, <1>3, <1>4, <1>5 DEF RequestInv

\* The types of everything but the table and the gate, whose counters are
\* treated with them.
Types ==
    /\ pc \in [Requests -> PCs]
    /\ goal \in [Requests -> [method : Methods, dest : Destinations \cup {"none"}] \cup {NoGoal}]
    /\ dialer \in [Requests -> {"none", "dialing", "failed", "connected", "tracked", "delivered"}]
    /\ conn \in [Conns -> {"none", "open", "closed"}]
    /\ active \subseteq Conns
    /\ found \in [Requests -> {"nothing", "glimpsed", "given"}]
    /\ stopper \in {"none", "marked", "shut", "over"}
    /\ doomed \subseteq Conns

\* The steps before the methods part keep the types, and touch one request
\* only.
LEMMA CommonTypes ==
    ASSUME Types, NEW r \in Requests, Arrive(r) \/ CommonStep(r)
    PROVE  /\ Types' /\ UNCHANGED <<stopper, doomed>>
           /\ \A t \in Requests : t # r => SameAt(t)
<1>1. CASE Arrive(r)
    <2>1. PICK m \in Methods, d \in Destinations \cup {"none"} :
            goal' = [goal EXCEPT ![r] = [method |-> m, dest |-> d]]
        BY <1>1 DEF Arrive
    <2>. QED
        BY <1>1, <2>1 DEF Arrive, Types, SameAt, connVars, stopVars, PCs, Client, Upstream
<1>2. CASE Enter(r) \/ TurnAway(r)
    BY <1>2 DEF Enter, TurnAway, Types, SameAt, connVars, stopVars, PCs, Client, Upstream
<1>3. CASE BadAuthority(r) \/ Unsupported(r) \/ Parse(r) \/ ResolveFails(r)
    BY <1>3 DEF BadAuthority, Unsupported, Parse, ResolveFails, Goes, Types, SameAt, connVars,
       stopVars, PCs, Client, Upstream
<1>4. CASE Resolve(r) \/ Leave(r)
    BY <1>4 DEF Resolve, Leave, Goes, Types, SameAt, connVars, stopVars, PCs, Client, Upstream
<1>. QED
    BY <1>1, <1>2, <1>3, <1>4 DEF CommonStep

\* The steps of handleConnect keep the types, and touch one request only.
LEMMA ConnectTypes ==
    ASSUME Types, NEW r \in Requests, ConnectStep(r)
    PROVE  /\ Types' /\ UNCHANGED <<stopper, doomed>>
           /\ \A t \in Requests : t # r => SameAt(t)
<1>1. CASE DialFails(r) \/ RecordTunnel(r)
    BY <1>1 DEF DialFails, RecordTunnel, Goes, Types, SameAt, connVars, stopVars, PCs, Client, Upstream
<1>2. CASE Dial(r) \/ HijackFails(r) \/ EndTunnel(r)
    BY <1>2, ConnFacts DEF Dial, HijackFails, EndTunnel, Goes, Types, SameAt, stopVars, PCs
<1>3. CASE Hijack(r)
    <2>1. PICK st \in {"open", "closed"} : conn' = [conn EXCEPT ![Client(r)] = st]
        BY <1>3 DEF Hijack
    <2>. QED
        BY <1>3, <2>1, ConnFacts DEF Hijack, Goes, Types, SameAt, stopVars, PCs
<1>4. CASE TrackClient(r)
    BY <1>4, ConnFacts DEF TrackClient, Track, Goes, Types, SameAt, stopVars, PCs
<1>5. CASE TrackUpstream(r)
    BY <1>5, ConnFacts DEF TrackUpstream, Track, Goes, Types, SameAt, stopVars, PCs
<1>6. CASE UntrackClient(r) \/ UntrackUpstream(r)
    BY <1>6, ConnFacts DEF UntrackClient, UntrackUpstream, Goes, Types, SameAt, stopVars, PCs
<1>. QED
    BY <1>1, <1>2, <1>3, <1>4, <1>5, <1>6 DEF ConnectStep

\* The steps of handleHTTP and of its dialer keep the types, and touch one
\* request only.
LEMMA ResponseTypes ==
    ASSUME Types, NEW r \in Requests, ResponseStep(r) \/ DialerStep(r)
    PROVE  /\ Types' /\ UNCHANGED <<stopper, doomed>>
           /\ \A t \in Requests : t # r => SameAt(t)
<1>1. CASE ExchangeFails(r)
    <2>1. PICK saw \in {"nothing", "glimpsed", "given"} : found' = [found EXCEPT ![r] = saw]
        BY <1>1 DEF ExchangeFails
    <2>. QED
        BY <1>1, <2>1, ConnFacts DEF ExchangeFails, Goes, Types, SameAt, stopVars, PCs
<1>2. CASE Exchange(r)
    BY <1>2 DEF Exchange, Goes, Types, SameAt, connVars, stopVars, PCs, Client, Upstream
<1>3. CASE EndResponse(r) \/ UntrackResponse(r)
    BY <1>3, ConnFacts DEF EndResponse, UntrackResponse, Goes, Types, SameAt, stopVars, PCs
<1>4. CASE DialerFails(r) \/ DialerConnects(r) \/ Deliver(r)
    BY <1>4, ConnFacts DEF DialerFails, DialerConnects, Deliver, Types, SameAt, handlerVars, stopVars
<1>5. CASE DialerTracks(r)
    BY <1>5, ConnFacts DEF DialerTracks, Track, Types, SameAt, handlerVars, stopVars
<1>. QED
    BY <1>1, <1>2, <1>3, <1>4, <1>5 DEF ResponseStep, DialerStep

Moves(r) == Arrive(r) \/ CommonStep(r) \/ ConnectStep(r) \/ ResponseStep(r) \/ DialerStep(r)

\* Every step of a request keeps the types, and touches one request only.
LEMMA MoveTypes ==
    ASSUME Types, NEW r \in Requests, Moves(r)
    PROVE  /\ Types' /\ UNCHANGED <<stopper, doomed>>
           /\ \A t \in Requests : t # r => SameAt(t)
BY CommonTypes, ConnectTypes, ResponseTypes DEF Moves

-----------------------------------------------------------------------------
(* What it does to its own request.                                        *)

LEMMA CommonPreserves ==
    ASSUME Types, NEW r \in Requests, RequestInv(r), Arrive(r) \/ CommonStep(r)
    PROVE  RequestInv(r)'
<1>1. CASE Arrive(r)
    <2>1. PICK m \in Methods, d \in Destinations \cup {"none"} :
            goal' = [goal EXCEPT ![r] = [method |-> m, dest |-> d]]
        BY <1>1 DEF Arrive
    <2>. QED
        BY <1>1, <2>1 DEF Arrive, connVars, Types, RequestInv, HandlerInv, ClientInv,
           UpstreamInv, ActiveInv
<1>2. CASE Enter(r)
    BY <1>2 DEF Enter, connVars, Types, RequestInv, HandlerInv, ClientInv, UpstreamInv, ActiveInv
<1>3. CASE TurnAway(r)
    BY <1>3 DEF TurnAway, connVars, Types, RequestInv, HandlerInv, ClientInv, UpstreamInv,
       ActiveInv
<1>4. CASE BadAuthority(r) \/ Unsupported(r) \/ Parse(r) \/ ResolveFails(r)
    <2>1. /\ goal' = goal /\ found' = found /\ UNCHANGED <<connVars, stopVars>>
          /\ pc[r] \in {"parsing", "resolving"} /\ pc'[r] \in {"leaving", "resolving"}
          /\ pc'[r] = "resolving" => goal[r].dest # "none" /\ pc[r] = "parsing"
        BY <1>4 DEF BadAuthority, Unsupported, Parse, ResolveFails, Goes, Types
    <2>. QED
        BY <2>1 DEF connVars, stopVars, RequestInv, HandlerInv, ClientInv, UpstreamInv, ActiveInv
<1>5. CASE Resolve(r)
    BY <1>5 DEF Resolve, Goes, Types, Methods, RequestInv, HandlerInv, ClientInv, UpstreamInv,
       ActiveInv, Registered, stopVars
<1>6. CASE Leave(r)
    BY <1>6 DEF Leave, Goes, connVars, stopVars, Types, RequestInv, HandlerInv, ClientInv,
       UpstreamInv, ActiveInv, Registered
<1>. QED
    BY <1>1, <1>2, <1>3, <1>4, <1>5, <1>6 DEF CommonStep

\* The steps of handleConnect keep their own request consistent.
LEMMA ConnectPreserves ==
    ASSUME Types, NEW r \in Requests, RequestInv(r), ConnectStep(r)
    PROVE  RequestInv(r)'
<1>. USE ConnFacts DEF Goes, stopVars, Types, RequestInv, HandlerInv, ClientInv, UpstreamInv,
     ActiveInv, Registered, Stopping
<1>1. CASE DialFails(r)
    BY <1>1 DEF DialFails, connVars
<1>2. CASE Dial(r)
    BY <1>2 DEF Dial
<1>3. CASE HijackFails(r)
    BY <1>3 DEF HijackFails
<1>4. CASE Hijack(r)
    <2>1. PICK st \in {"open", "closed"} : conn' = [conn EXCEPT ![Client(r)] = st]
        BY <1>4 DEF Hijack
    <2>. QED
        BY <1>4, <2>1 DEF Hijack
<1>5. CASE TrackClient(r)
    BY <1>5 DEF TrackClient, Track
<1>6. CASE TrackUpstream(r)
    BY <1>6 DEF TrackUpstream, Track
<1>7. CASE RecordTunnel(r)
    BY <1>7 DEF RecordTunnel, connVars
<1>8. CASE EndTunnel(r)
    BY <1>8 DEF EndTunnel
<1>9. CASE UntrackClient(r)
    BY <1>9 DEF UntrackClient
<1>10. CASE UntrackUpstream(r)
    BY <1>10 DEF UntrackUpstream
<1>. QED
    BY <1>1, <1>2, <1>3, <1>4, <1>5, <1>6, <1>7, <1>8, <1>9, <1>10 DEF ConnectStep

\* The steps of handleHTTP and of its dialer keep their own request consistent.
LEMMA ResponsePreserves ==
    ASSUME Types, NEW r \in Requests, RequestInv(r), ResponseStep(r) \/ DialerStep(r)
    PROVE  RequestInv(r)'
<1>. USE ConnFacts DEF Goes, stopVars, Types, RequestInv, HandlerInv, ClientInv, UpstreamInv,
     ActiveInv, Registered, Stopping
<1>1. CASE ExchangeFails(r)
    <2>1. PICK saw \in {"nothing", "glimpsed", "given"} :
            /\ saw = "given" <=> dialer[r] = "delivered"
            /\ found' = [found EXCEPT ![r] = saw]
        BY <1>1 DEF ExchangeFails
    <2>. QED
        BY <1>1, <2>1 DEF ExchangeFails
<1>2. CASE Exchange(r)
    BY <1>2 DEF Exchange, connVars
<1>3. CASE EndResponse(r)
    BY <1>3 DEF EndResponse
<1>4. CASE UntrackResponse(r)
    BY <1>4 DEF UntrackResponse
<1>5. CASE DialerFails(r)
    BY <1>5 DEF DialerFails, handlerVars
<1>6. CASE DialerConnects(r)
    BY <1>6 DEF DialerConnects, handlerVars
<1>7. CASE DialerTracks(r)
    BY <1>7 DEF DialerTracks, Track, handlerVars
<1>8. CASE Deliver(r)
    BY <1>8 DEF Deliver, handlerVars
<1>. QED
    BY <1>1, <1>2, <1>3, <1>4, <1>5, <1>6, <1>7, <1>8 DEF ResponseStep, DialerStep

-----------------------------------------------------------------------------
(* What stop does: a registered connection stays registered until it is    *)
(* closed.                                                                 *)

LEMMA StopPreserves ==
    ASSUME Types, NEW r \in Requests, RequestInv(r), stopper = "over" => doomed = {},
           StopMarks \/ StopStep
    PROVE  Types' /\ RequestInv(r)' /\ (stopper' = "over" => doomed' = {})
<1>1. CASE StopMarks
    <2>1. \A c : Registered(c)' <=> Registered(c)
        BY <1>1 DEF StopMarks, Registered
    <2>. QED
        BY <1>1, <2>1 DEF StopMarks, handlerVars, connVars, Types, RequestInv, HandlerInv,
           ClientInv, UpstreamInv, ActiveInv
<1>2. CASE StopShuts \/ StopEnds
    <2>1. \A c : Registered(c)' <=> Registered(c)
        BY <1>2 DEF StopShuts, StopEnds, Registered
    <2>. QED
        BY <1>2, <2>1 DEF StopShuts, StopEnds, handlerVars, connVars, Types, RequestInv,
           HandlerInv, ClientInv, UpstreamInv, ActiveInv
<1>3. ASSUME NEW c \in Conns, StopCloses(c)
      PROVE  Types' /\ RequestInv(r)' /\ (stopper' = "over" => doomed' = {})
    <2>1. Types' /\ stopper' # "over"
        BY <1>3 DEF StopCloses, handlerVars, Types
    <2>2. \A d \in Conns : conn'[d] = "open" =>
             conn[d] = "open" /\ (Registered(d)' <=> Registered(d))
        BY <1>3 DEF StopCloses, Types, Registered
    <2>. QED
        BY <1>3, <2>1, <2>2, ConnFacts DEF StopCloses, handlerVars, RequestInv, HandlerInv,
           ClientInv, UpstreamInv, ActiveInv
<1>. QED
    BY <1>1, <1>2, <1>3 DEF StopStep

-----------------------------------------------------------------------------
(* The gate.                                                               *)
Insiders == {r \in Requests : Inside(r)}

\* A step that keeps the number of handlers inside, lets one in or one out.
LEMMA GateFollows ==
    ASSUME GateInv, NEW r \in Requests,
           \A t \in Requests : t # r => (Inside(t)' <=> Inside(t)),
           \/ (Inside(r)' <=> Inside(r)) /\ gate' = gate
           \/ ~Inside(r) /\ Inside(r)' /\ gate < MaxConnections /\ gate' = gate + 1
           \/ Inside(r) /\ ~Inside(r)' /\ gate' = gate - 1
    PROVE  GateInv' /\ gate' \in Nat
<1>1. /\ gate = Cardinality(Insiders) /\ gate <= MaxConnections
      /\ IsFiniteSet(Insiders) /\ gate \in Nat /\ MaxConnections \in Nat
    BY ProxyAssumption, FS_Subset, FS_CardinalityType DEF GateInv, Insiders
<1>2. CASE (Inside(r)' <=> Inside(r)) /\ gate' = gate
    <2>1. Insiders' = Insiders
        BY <1>2 DEF Insiders
    <2>. QED
        BY <1>1, <1>2, <2>1 DEF GateInv, Insiders
<1>3. CASE ~Inside(r) /\ Inside(r)' /\ gate < MaxConnections /\ gate' = gate + 1
    <2>1. Insiders' = Insiders \cup {r} /\ r \notin Insiders
        BY <1>3 DEF Insiders
    <2>2. Cardinality(Insiders') = gate + 1
        BY <1>1, <2>1, FS_AddElement
    <2>3. gate' = Cardinality(Insiders') /\ gate' <= MaxConnections /\ gate' \in Nat
        BY <1>1, <1>3, <2>2
    <2>. QED
        BY <2>3 DEF GateInv, Insiders
<1>4. CASE Inside(r) /\ ~Inside(r)' /\ gate' = gate - 1
    <2>1. Insiders' = Insiders \ {r} /\ r \in Insiders
        BY <1>4 DEF Insiders
    <2>2. Cardinality(Insiders') = gate - 1 /\ IsFiniteSet(Insiders')
        BY <1>1, <2>1, FS_RemoveElement
    <2>3. Cardinality(Insiders') \in Nat
        BY <2>2, FS_CardinalityType
    <2>4. gate' = Cardinality(Insiders') /\ gate' <= MaxConnections /\ gate' \in Nat
        BY <1>1, <1>4, <2>2, <2>3
    <2>. QED
        BY <2>4 DEF GateInv, Insiders
<1>. QED
    BY <1>2, <1>3, <1>4

\* Every step of a request keeps one token in the gate per handler inside.
LEMMA GateHolds ==
    ASSUME Types, GateInv, NEW r \in Requests, Moves(r)
    PROVE  GateInv' /\ gate' \in Nat
<1>1. \A t \in Requests : t # r => (Inside(t)' <=> Inside(t))
    BY MoveTypes DEF SameAt, Inside
<1>2. CASE Enter(r)
    <2>1. ~Inside(r) /\ Inside(r)'
        BY <1>2 DEF Enter, Inside, Types
    <2>. QED
        BY <1>1, <1>2, <2>1, GateFollows DEF Enter
<1>3. CASE Leave(r)
    <2>1. Inside(r) /\ ~Inside(r)'
        BY <1>3 DEF Leave, Goes, Inside, Types
    <2>. QED
        BY <1>1, <1>3, <2>1, GateFollows DEF Leave
<1>4. CASE \/ Arrive(r) \/ TurnAway(r) \/ BadAuthority(r) \/ Unsupported(r) \/ Parse(r)
           \/ ResolveFails(r) \/ Resolve(r)
    <2>1. (Inside(r)' <=> Inside(r)) /\ gate' = gate
        BY <1>4 DEF Arrive, TurnAway, BadAuthority, Unsupported, Parse, ResolveFails, Resolve,
           Goes, Inside, Types
    <2>. QED
        BY <1>1, <2>1, GateFollows
<1>5. CASE ConnectStep(r)
    <2>1. (Inside(r)' <=> Inside(r)) /\ gate' = gate
        BY <1>5 DEF ConnectStep, DialFails, Dial, HijackFails, Hijack, TrackClient,
           TrackUpstream, RecordTunnel, EndTunnel, UntrackClient, UntrackUpstream, Goes,
           Inside, Types
    <2>. QED
        BY <1>1, <2>1, GateFollows
<1>6. CASE ResponseStep(r) \/ DialerStep(r)
    <2>1. (Inside(r)' <=> Inside(r)) /\ gate' = gate
        BY <1>6 DEF ResponseStep, ExchangeFails, Exchange, EndResponse, UntrackResponse,
           DialerStep, DialerFails, DialerConnects, DialerTracks, Deliver, Goes, Inside, Types,
           handlerVars
    <2>. QED
        BY <1>1, <2>1, GateFollows
<1>. QED
    BY <1>2, <1>3, <1>4, <1>5, <1>6 DEF Moves, CommonStep

-----------------------------------------------------------------------------
(* The destination table.                                                  *)
TableType ==
    table \in [Destinations -> [seen : Nat, successes : Nat, failures : Nat, outcome : Outcomes]]

Names(r, d)  == goal[r].dest = d /\ Reported(r)
Counted(d)   == {r \in Requests : Names(r, d)}
CountedAt(d) ==
    /\ table[d].seen = Cardinality(Counted(d))
    /\ table[d].seen = table[d].successes + table[d].failures
    /\ table[d].outcome = "mixed" <=> table[d].successes > 0 /\ table[d].failures > 0
    /\ table[d].outcome = "connected" <=> table[d].successes > 0 /\ table[d].failures = 0

\* The property, one destination at a time.
LEMMA CountedOnceIs == CountedOnce <=> \A d \in Destinations : CountedAt(d)
BY DEF CountedOnce, CountedAt, Counted, Names

\* A step that records the request it is about, which was not counted before.
LEMMA RecordingCounts ==
    ASSUME TableType, CountedOnce, NEW r \in Requests, goal[r].dest \in Destinations,
           NEW result \in Failures \cup {"connected"}, RecordResult(r, result),
           ~Reported(r), Reported(r)', goal' = goal,
           \A t \in Requests : t # r => (Reported(t)' <=> Reported(t))
    PROVE  TableType' /\ CountedOnce'
<1>. DEFINE Entries == [seen : Nat, successes : Nat, failures : Nat, outcome : Outcomes]
<1>1. PICK k \in Destinations : k = goal[r].dest
    OBVIOUS
<1>2. /\ table[k] \in Entries
      /\ table' = [table EXCEPT ![k] = Merge(table[k], result)]
    BY <1>1 DEF TableType, RecordResult
<1>3. CountedAt(k)
    BY CountedOnceIs
<1>4. LET m == Merge(table[k], result) IN
      /\ m \in Entries
      /\ m.seen = table[k].seen + 1 /\ m.seen = m.successes + m.failures
      /\ m.outcome = "mixed" <=> m.successes > 0 /\ m.failures > 0
      /\ m.outcome = "connected" <=> m.successes > 0 /\ m.failures = 0
    BY <1>2, <1>3, MergeFacts DEF CountedAt
<1>5. /\ table' \in [Destinations -> Entries] /\ table'[k] = Merge(table[k], result)
      /\ \A d \in Destinations : d # k => table'[d] = table[d]
    BY <1>2, <1>4 DEF TableType
<1>6. CountedAt(k)'
    <2>1. Counted(k)' = Counted(k) \cup {r} /\ r \notin Counted(k)
        BY <1>1 DEF Counted, Names
    <2>2. IsFiniteSet(Counted(k))
        BY ProxyAssumption, FS_Subset DEF Counted
    <2>3. Cardinality(Counted(k)') = Cardinality(Counted(k)) + 1
        BY <2>1, <2>2, FS_AddElement
    <2>. QED
        BY <1>3, <1>4, <1>5, <2>3 DEF CountedAt
<1>7. ASSUME NEW d \in Destinations, d # k
      PROVE  CountedAt(d)'
    <2>1. Counted(d)' = Counted(d)
        BY <1>1, <1>7 DEF Counted, Names
    <2>2. CountedAt(d)
        BY CountedOnceIs
    <2>. QED
        BY <1>5, <1>7, <2>1, <2>2 DEF CountedAt
<1>8. \A d \in Destinations : CountedAt(d)'
    BY <1>6, <1>7
<1>. QED
    BY <1>5, <1>8 DEF TableType, CountedOnce, CountedAt, Counted, Names

\* A step that records nothing and changes no count.
LEMMA CountsKept ==
    ASSUME TableType, CountedOnce, table' = table,
           \A t \in Requests, d \in Destinations : Names(t, d)' <=> Names(t, d)
    PROVE  TableType' /\ CountedOnce'
<1>1. \A d \in Destinations : Counted(d)' = Counted(d)
    BY DEF Counted
<1>2. \A d \in Destinations : CountedAt(d)'
    BY <1>1, CountedOnceIs DEF CountedAt
<1>. QED
    BY <1>2 DEF TableType, CountedOnce, CountedAt, Counted, Names

\* Every step of a request keeps the table equal to the results reported to it.
LEMMA CountsHold ==
    ASSUME Types, TableType, CountedOnce, NEW r \in Requests, RequestInv(r), Moves(r)
    PROVE  TableType' /\ CountedOnce'
<1>1. \A t \in Requests : t # r => /\ Reported(t)' <=> Reported(t)
                                   /\ goal'[t] = goal[t]
    BY MoveTypes DEF SameAt, Reported
<1>2. goal[r].dest \in Destinations \cup {"none"}
    BY DEF Types, NoGoal
<1>3. ASSUME \/ Unsupported(r) \/ ResolveFails(r) \/ DialFails(r) \/ HijackFails(r)
             \/ RecordTunnel(r) \/ ExchangeFails(r) \/ Exchange(r)
      PROVE  TableType' /\ CountedOnce'
    <2>1. /\ \E result \in Failures \cup {"connected"} : RecordResult(r, result)
          /\ goal' = goal
        BY <1>3 DEF Unsupported, ResolveFails, DialFails, HijackFails, RecordTunnel,
           ExchangeFails, Exchange, Goes, Failures
    <2>2. /\ pc[r] \in {"parsing", "resolving", "dialing", "dialed", "tracked", "exchanging"}
          /\ pc'[r] \in {"leaving", "streaming", "closing"}
          /\ pc[r] = "parsing" => goal[r].dest # "none"
        BY <1>3 DEF Unsupported, ResolveFails, DialFails, HijackFails, RecordTunnel,
           ExchangeFails, Exchange, Goes, Types
    <2>3. goal[r].dest \in Destinations
        BY <1>2, <2>2 DEF RequestInv, HandlerInv
    <2>4. ~Reported(r) /\ Reported(r)'
        BY <2>2 DEF Reported
    <2>. QED
        BY <1>1, <2>1, <2>3, <2>4, RecordingCounts
<1>4. CASE Arrive(r) \/ BadAuthority(r)
    <2>1. \A d \in Destinations : ~Names(r, d) /\ ~Names(r, d)'
        <3>1. CASE Arrive(r)
            BY <3>1 DEF Arrive, Names, Reported, Types
        <3>2. CASE BadAuthority(r)
            BY <3>2, ProxyAssumption DEF BadAuthority, Goes, Names
        <3>. QED
            BY <1>4, <3>1, <3>2
    <2>2. table' = table
        BY <1>4 DEF Arrive, BadAuthority
    <2>. QED
        BY <1>1, <2>1, <2>2, CountsKept DEF Names
<1>5. CASE \/ Enter(r) \/ TurnAway(r) \/ Parse(r) \/ Resolve(r) \/ Leave(r)
           \/ Dial(r) \/ Hijack(r) \/ TrackClient(r) \/ TrackUpstream(r) \/ EndTunnel(r)
           \/ UntrackClient(r) \/ UntrackUpstream(r)
           \/ EndResponse(r) \/ UntrackResponse(r) \/ DialerStep(r)
    <2>1. table' = table /\ goal' = goal /\ (Reported(r)' <=> Reported(r))
        BY <1>5 DEF Enter, TurnAway, Parse, Resolve, Leave, Dial, Hijack, TrackClient,
           TrackUpstream, EndTunnel, UntrackClient, UntrackUpstream, EndResponse,
           UntrackResponse, DialerStep, DialerFails, DialerConnects, DialerTracks, Deliver,
           Goes, handlerVars, Reported, Types
    <2>. QED
        BY <1>1, <2>1, CountsKept DEF Names
<1>. QED
    BY <1>3, <1>4, <1>5 DEF Moves, CommonStep, ConnectStep, ResponseStep

-----------------------------------------------------------------------------
(* The theorems.                                                           *)

LEMMA ProxyInvHolds == Spec => []ProxyInv
<1>1. Init => ProxyInv
    <2>. SUFFICES ASSUME Init
                  PROVE  ProxyInv
        OBVIOUS
    <2>1. TypeOK
        <3>1. Empty \in [seen : Nat, successes : Nat, failures : Nat, outcome : Outcomes]
            BY DEF Empty, Outcomes
        <3>. QED
            BY <3>1 DEF Init, TypeOK, PCs
    <2>2. \A r \in Requests : RequestInv(r)
        BY ConnFacts DEF Init, RequestInv, HandlerInv, ClientInv, UpstreamInv, ActiveInv
    <2>3. GateInv
        <3>1. {r \in Requests : Inside(r)} = {}
            BY DEF Init, Inside
        <3>. QED
            BY <3>1, FS_EmptySet, ProxyAssumption DEF Init, GateInv
    <2>4. \A d \in Destinations : CountedAt(d)
        <3>. TAKE d \in Destinations
        <3>1. Counted(d) = {}
            BY DEF Init, Counted, Names, Reported
        <3>2. table[d].seen = 0 /\ table[d].successes = 0 /\ table[d].failures = 0
              /\ table[d].outcome = "none"
            BY DEF Init, Empty
        <3>. QED
            BY <3>1, <3>2, FS_EmptySet DEF CountedAt
    <2>. QED
        BY <2>1, <2>2, <2>3, <2>4, CountedOnceIs DEF ProxyInv, Init
<1>2. ProxyInv /\ [Next]_vars => ProxyInv'
    <2>. SUFFICES ASSUME ProxyInv, [Next]_vars
                  PROVE  ProxyInv'
        OBVIOUS
    <2>. USE DEF ProxyInv
    <2>1. Types /\ TableType /\ gate \in Nat
        BY DEF TypeOK, Types, TableType
    <2>2. ASSUME NEW r \in Requests, Moves(r)
          PROVE  ProxyInv'
        <3>1. Types' /\ UNCHANGED <<stopper, doomed>>
            BY <2>1, <2>2, MoveTypes
        <3>2. GateInv' /\ gate' \in Nat /\ TableType' /\ CountedOnce'
            BY <2>1, <2>2, GateHolds, CountsHold
        <3>3. TypeOK'
            BY <3>1, <3>2 DEF TypeOK, Types, TableType
        <3>4. RequestInv(r)'
            BY <2>1, <2>2, CommonPreserves, ConnectPreserves, ResponsePreserves DEF Moves
        <3>5. \A t \in Requests : t # r => RequestInv(t)'
            BY <2>1, <2>2, MoveTypes, RequestKept
        <3>. QED
            BY <3>1, <3>2, <3>3, <3>4, <3>5
    <2>3. ASSUME UNCHANGED <<handlerVars, table>>
          PROVE  GateInv' /\ CountedOnce'
        <3>1. \A r \in Requests : Inside(r)' <=> Inside(r)
            BY <2>3 DEF handlerVars, Inside
        <3>2. {r \in Requests : Inside(r)}' = {r \in Requests : Inside(r)}
            BY <3>1
        <3>3. \A t \in Requests, d \in Destinations : Names(t, d)' <=> Names(t, d)
            BY <2>3 DEF handlerVars, Names, Reported
        <3>. QED
            BY <2>1, <2>3, <3>2, <3>3, CountsKept DEF GateInv, handlerVars
    <2>4. CASE StopMarks \/ StopStep
        <3>1. UNCHANGED <<handlerVars, table>>
            BY <2>4 DEF StopMarks, StopStep, StopShuts, StopEnds, StopCloses
        <3>2. \A r \in Requests : RequestInv(r)'
            BY <2>1, <2>4, StopPreserves
        <3>3. Types' /\ (stopper' = "over" => doomed' = {})
            BY <2>1, <2>4, ConnFacts DEF StopMarks, StopStep, StopShuts, StopEnds, StopCloses,
               handlerVars, connVars, Types
        <3>4. TypeOK'
            BY <2>1, <3>1, <3>3 DEF TypeOK, Types, TableType, handlerVars
        <3>. QED
            BY <2>3, <3>1, <3>2, <3>3, <3>4
    <2>5. CASE UNCHANGED vars
        <3>1. UNCHANGED <<handlerVars, table>> /\ UNCHANGED <<connVars, stopVars>>
            BY <2>5 DEF vars
        <3>2. \A r \in Requests : SameAt(r)
            BY <3>1 DEF SameAt, handlerVars, connVars
        <3>3. \A r \in Requests : RequestInv(r)'
            BY <3>1, <3>2, RequestKept DEF stopVars
        <3>4. TypeOK' /\ (stopper' = "over" => doomed' = {})
            BY <3>1 DEF TypeOK, handlerVars, connVars, stopVars
        <3>. QED
            BY <2>3, <3>1, <3>3, <3>4
    <2>. QED
        BY <2>2, <2>4, <2>5 DEF Next, Moves
<1>. QED
    BY <1>1, <1>2, PTL DEF Spec

(* Every variable of the proxy has its type.                               *)

THEOREM ProxyTypeCorrect == Spec => []TypeOK
<1>1. ProxyInv => TypeOK
    BY DEF ProxyInv
<1>. QED
    BY <1>1, ProxyInvHolds, PTL

(* Each request that names a destination and is let in is counted exactly   *)
(* once by record, on whichever path it leaves, and the outcome of a        *)
(* destination agrees with its counters.                                    *)

THEOREM EveryRequestIsCountedOnce == Spec => []CountedOnce
<1>1. ProxyInv => CountedOnce
    BY DEF ProxyInv
<1>. QED
    BY <1>1, ProxyInvHolds, PTL

(* A handler that has returned left nothing in Session.active, except the   *)
(* connection of a dialer that http.Transport went on with after the        *)
(* handler gave up.                                                         *)

THEOREM NothingStaysTracked == Spec => []NoStaleTrack
<1>1. ProxyInv => NoStaleTrack
    <2>. SUFFICES ASSUME ProxyInv, NEW r \in Requests, pc[r] \in {"leaving", "over"}
                  PROVE  /\ Client(r) \notin active
                         /\ Upstream(r) \in active =>
                              goal[r].method = "http" /\ found[r] # "given"
        BY DEF NoStaleTrack
    <2>. QED
        BY DEF ProxyInv, RequestInv, ActiveInv
<1>. QED
    BY <1>1, ProxyInvHolds, PTL

(* connectionGate bounds the handlers at work and the tunnels they hold     *)
(* open: an open connection to a client belongs to a handler inside.        *)

THEOREM GateAlwaysBounds == Spec => []GateBounds
<1>1. ProxyInv => GateBounds
    <2>. SUFFICES ASSUME ProxyInv
                  PROVE  GateBounds
        OBVIOUS
    <2>. DEFINE Open == {r \in Requests : conn[Client(r)] = "open"}
    <2>1. Open \subseteq Insiders
        BY DEF ProxyInv, RequestInv, ClientInv, Inside, Insiders
    <2>2. IsFiniteSet(Insiders)
        BY ProxyAssumption, FS_Subset DEF Insiders
    <2>3. /\ Cardinality(Open) \in Nat /\ Cardinality(Insiders) \in Nat
          /\ Cardinality(Open) <= Cardinality(Insiders)
        BY <2>1, <2>2, FS_Subset, FS_CardinalityType
    <2>4. gate = Cardinality(Insiders) /\ gate <= MaxConnections /\ MaxConnections \in Nat
        BY ProxyAssumption DEF ProxyInv, GateInv, Insiders
    <2>5. Cardinality(Open) <= MaxConnections
        BY <2>3, <2>4
    <2>. QED
        BY <2>4, <2>5 DEF GateBounds, Insiders
<1>. QED
    BY <1>1, ProxyInvHolds, PTL

(* Once Stop has returned, a connection is open only between its opening    *)
(* and the track that closes it, or in the hands of a transport that is     *)
(* about to close it: stop misses no registered connection, whichever of    *)
(* them appeared while it ran.                                              *)

THEOREM StopMissesNone == Spec => []StopClosesAll
<1>1. ProxyInv => StopClosesAll
    <2>. SUFFICES ASSUME ProxyInv, stopper = "over", NEW r \in Requests
                  PROVE  /\ conn[Client(r)] = "open" => pc[r] = "hijacked"
                         /\ conn[Upstream(r)] = "open" =>
                              \/ pc[r] \in {"dialed", "hijacked", "halfTracked"}
                              \/ dialer[r] = "connected"
                              \/ dialer[r] = "tracked" /\ found[r] = "glimpsed"
        BY DEF StopClosesAll
    <2>1. \A c : ~Registered(c)
        BY DEF ProxyInv, Registered
    <2>. QED
        BY <2>1 DEF ProxyInv, RequestInv, ClientInv, UpstreamInv
<1>. QED
    BY <1>1, ProxyInvHolds, PTL
=============================================================================
