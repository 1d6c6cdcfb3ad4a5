---------------------------- MODULE CaptureProxy ----------------------------
(***************************************************************************)
(* The proxy of one browser capture (internal/capture/proxy.go): its       *)
(* request handlers, the connections they open, the destination table they *)
(* fill, and the stop goroutine that ends them all.                        *)
(*                                                                         *)
(* A CONNECT handler dials the upstream itself.  A plain HTTP handler has  *)
(* http.Transport dial in a goroutine of its own, which goes on when the   *)
(* handler gives up: its three results are shared with the handler without *)
(* a lock, so what the handler sees of a dial it did not wait for is a     *)
(* nondeterministic choice.                                                *)
(***************************************************************************)
EXTENDS Integers, FiniteSets

CONSTANTS
    Requests,       \* requests of the browser
    Destinations,   \* host and port pairs, keys of Session.destinations
    MaxConnections  \* Options.MaxConcurrentConnections

ASSUME ProxyAssumption ==
    /\ IsFiniteSet(Requests)
    /\ "none" \notin Destinations   \* stands for a destination that was rejected
    /\ MaxConnections \in Nat \ {0}

VARIABLES
    pc,       \* where the handler of a request stands
    goal,     \* the method and the destination of a request
    gate,     \* tokens in connectionGate
    dialer,   \* where the dial goroutine of a plain HTTP request stands
    conn,     \* connections: none, open or closed
    active,   \* Session.active
    found,    \* what the handler saw of the connection its dialer made
    table,    \* Session.destinations: counters and outcome of each
    stopper,  \* where the stop goroutine stands
    doomed    \* the connections stop has copied

handlerVars == <<pc, goal, gate, found>>
connVars    == <<dialer, conn, active>>
stopVars    == <<stopper, doomed>>
vars == <<handlerVars, connVars, table, stopVars>>

-----------------------------------------------------------------------------
Methods == {"connect", "http"}
NoGoal  == [method |-> "none", dest |-> "none"]
Sides   == {"client", "upstream"}
Conns   == Requests \X Sides

Client(r)   == <<r, "client">>
Upstream(r) == <<r, "upstream">>

Failures == {"dns_failed", "failed", "proxy_rejected", "unsupported"}
Outcomes == Failures \cup {"none", "connected", "mixed"}
Empty    == [seen |-> 0, successes |-> 0, failures |-> 0, outcome |-> "none"]

(* A handler: queued (waiting for the gate), parsing, resolving, dialing,  *)
(* dialed, hijacked, halfTracked and tracked (CONNECT only), exchanging    *)
(* (HTTP only), streaming (a tunnel, or the copy of a response), closing   *)
(* and halfClosed (untracking what it tracked), leaving (the gate), over;  *)
(* or turnedAway at the gate.                                              *)
PCs == {"idle", "queued", "parsing", "resolving", "dialing", "dialed", "hijacked",
        "halfTracked", "tracked", "exchanging", "streaming", "closing", "halfClosed",
        "leaving", "over", "turnedAway"}

\* The handlers that hold a token of connectionGate.
Inside(r) == pc[r] \notin {"idle", "queued", "over", "turnedAway"}

Stopping == stopper # "none"   \* the session's context has ended

Init ==
    /\ pc = [r \in Requests |-> "idle"]
    /\ goal = [r \in Requests |-> NoGoal]
    /\ gate = 0
    /\ dialer = [r \in Requests |-> "none"]
    /\ conn = [c \in Conns |-> "none"]
    /\ active = {}
    /\ found = [r \in Requests |-> "nothing"]
    /\ table = [d \in Destinations |-> Empty]
    /\ stopper = "none"
    /\ doomed = {}

-----------------------------------------------------------------------------
(* The destination table and the set of active connections.                *)

\* record, for one destination: counters and the outcome they call for.
Merge(entry, result) ==
    LET ok   == result = "connected"
        won  == entry.successes + (IF ok THEN 1 ELSE 0)
        lost == entry.failures + (IF ok THEN 0 ELSE 1)
    IN  [seen      |-> entry.seen + 1,
         successes |-> won,
         failures  |-> lost,
         outcome   |-> IF won > 0 /\ lost > 0 THEN "mixed"
                       ELSE IF won > 0 THEN "connected" ELSE result]

RecordResult(r, result) == table' = [table EXCEPT ![goal[r].dest] = Merge(@, result)]

\* track: registered for stop to close, or, once stop has begun, closed here.
Track(c) ==
    IF Stopping
    THEN /\ conn' = [conn EXCEPT ![c] = "closed"]
         /\ UNCHANGED active
    ELSE /\ active' = active \cup {c}
         /\ UNCHANGED conn

-----------------------------------------------------------------------------
(* ServeHTTP and the common part of the handlers.                          *)

\* A request arrives for as long as the listener is open; its destination is
\* none when parseProxyAuthority rejects what it names.
Arrive(r) ==
    /\ pc[r] = "idle"
    /\ stopper \in {"none", "marked"}
    /\ pc' = [pc EXCEPT ![r] = "queued"]
    /\ \E m \in Methods, d \in Destinations \cup {"none"} :
         goal' = [goal EXCEPT ![r] = [method |-> m, dest |-> d]]
    /\ UNCHANGED <<gate, found, connVars, table, stopVars>>

\* select takes either ready case: a request may enter after stop has begun.
Enter(r) ==
    /\ pc[r] = "queued"
    /\ gate < MaxConnections
    /\ gate' = gate + 1
    /\ pc' = [pc EXCEPT ![r] = "parsing"]
    /\ UNCHANGED <<goal, found, connVars, table, stopVars>>

\* The request is answered that the capture is stopping, and not recorded.
TurnAway(r) ==
    /\ pc[r] = "queued"
    /\ Stopping
    /\ pc' = [pc EXCEPT ![r] = "turnedAway"]
    /\ UNCHANGED <<goal, gate, found, connVars, table, stopVars>>

Goes(r, from, to) ==
    /\ pc[r] = from
    /\ pc' = [pc EXCEPT ![r] = to]
    /\ UNCHANGED goal

\* No destination can be made out; nothing is recorded.
BadAuthority(r) ==
    /\ goal[r].dest = "none"
    /\ Goes(r, "parsing", "leaving")
    /\ UNCHANGED <<gate, found, connVars, table, stopVars>>

\* Another scheme than http, or an upgrade, in a plain request.
Unsupported(r) ==
    /\ goal[r].method = "http" /\ goal[r].dest # "none"
    /\ Goes(r, "parsing", "leaving")
    /\ RecordResult(r, "unsupported")
    /\ UNCHANGED <<gate, found, connVars, stopVars>>

Parse(r) ==
    /\ goal[r].dest # "none"
    /\ Goes(r, "parsing", "resolving")
    /\ UNCHANGED <<gate, found, connVars, table, stopVars>>

\* Faulty variant: a name that does not resolve is not worth a record.
ResolveFails_Silent(r) ==
    /\ Goes(r, "resolving", "leaving")
    /\ UNCHANGED <<gate, found, connVars, table, stopVars>>

\* The resolver fails, or the request's context ends.
ResolveFails(r) ==
    /\ Goes(r, "resolving", "leaving")
    /\ RecordResult(r, "dns_failed")
    /\ UNCHANGED <<gate, found, connVars, stopVars>>

Resolve(r) ==
    /\ Goes(r, "resolving", IF goal[r].method = "connect" THEN "dialing" ELSE "exchanging")
    /\ dialer' = [dialer EXCEPT ![r] = IF goal[r].method = "http" THEN "dialing" ELSE @]
    /\ UNCHANGED <<gate, found, conn, active, table, stopVars>>

\* The deferred receive from connectionGate.
Leave(r) ==
    /\ Goes(r, "leaving", "over")
    /\ gate' = gate - 1
    /\ UNCHANGED <<found, connVars, table, stopVars>>

-----------------------------------------------------------------------------
(* handleConnect.                                                          *)

\* Every candidate was refused, or the request's context ended.
DialFails(r) ==
    /\ Goes(r, "dialing", "leaving")
    /\ RecordResult(r, "failed")
    /\ UNCHANGED <<gate, found, connVars, stopVars>>

Dial(r) ==
    /\ Goes(r, "dialing", "dialed")
    /\ conn' = [conn EXCEPT ![Upstream(r)] = "open"]
    /\ UNCHANGED <<gate, found, dialer, active, table, stopVars>>

HijackFails(r) ==
    /\ Goes(r, "dialed", "leaving")
    /\ conn' = [conn EXCEPT ![Upstream(r)] = "closed"]
    /\ RecordResult(r, "proxy_rejected")
    /\ UNCHANGED <<gate, found, dialer, active, stopVars>>

\* The server no longer owns the client's connection; one the server has
\* closed before may still be handed over.
Hijack(r) ==
    /\ Goes(r, "dialed", "hijacked")
    /\ \E st \in {"open", "closed"} :
         /\ st = "closed" => stopper \in {"shut", "over"}
         /\ conn' = [conn EXCEPT ![Client(r)] = st]
    /\ UNCHANGED <<gate, found, dialer, active, table, stopVars>>

TrackClient(r) ==
    /\ Goes(r, "hijacked", "halfTracked")
    /\ Track(Client(r))
    /\ UNCHANGED <<gate, found, dialer, table, stopVars>>

TrackUpstream(r) ==
    /\ Goes(r, "halfTracked", "tracked")
    /\ Track(Upstream(r))
    /\ UNCHANGED <<gate, found, dialer, table, stopVars>>

\* The tunnel is recorded as connected before the client hears of it.
RecordTunnel(r) ==
    /\ Goes(r, "tracked", "streaming")
    /\ RecordResult(r, "connected")
    /\ UNCHANGED <<gate, found, connVars, stopVars>>

\* The answer cannot be written, both copies ended, or the tunnel's deadline passed.
EndTunnel(r) ==
    /\ goal[r].method = "connect"
    /\ Goes(r, "streaming", "closing")
    /\ conn' = [conn EXCEPT ![Client(r)] = "closed", ![Upstream(r)] = "closed"]
    /\ UNCHANGED <<gate, found, dialer, active, table, stopVars>>

UntrackClient(r) ==
    /\ goal[r].method = "connect"
    /\ Goes(r, "closing", "halfClosed")
    /\ active' = active \ {Client(r)}
    /\ UNCHANGED <<gate, found, dialer, conn, table, stopVars>>

\* Faulty variant: the upstream connection stays in active.
UntrackUpstream_Forgotten(r) ==
    /\ Goes(r, "halfClosed", "leaving")
    /\ UNCHANGED <<gate, found, connVars, table, stopVars>>

UntrackUpstream(r) ==
    /\ Goes(r, "halfClosed", "leaving")
    /\ active' = active \ {Upstream(r)}
    /\ UNCHANGED <<gate, found, dialer, conn, table, stopVars>>

-----------------------------------------------------------------------------
(* handleHTTP and the dial goroutine of its transport.                     *)

DialerFails(r) ==
    /\ dialer[r] = "dialing"
    /\ dialer' = [dialer EXCEPT ![r] = "failed"]
    /\ UNCHANGED <<handlerVars, conn, active, table, stopVars>>

DialerConnects(r) ==
    /\ dialer[r] = "dialing"
    /\ dialer' = [dialer EXCEPT ![r] = "connected"]
    /\ conn' = [conn EXCEPT ![Upstream(r)] = "open"]
    /\ UNCHANGED <<handlerVars, active, table, stopVars>>

DialerTracks(r) ==
    /\ dialer[r] = "connected"
    /\ dialer' = [dialer EXCEPT ![r] = "tracked"]
    /\ Track(Upstream(r))
    /\ UNCHANGED <<handlerVars, table, stopVars>>

\* Faulty variant: keep alive is on, and the transport keeps the connection.
Deliver_KeepAlive(r) ==
    /\ dialer[r] = "tracked"
    /\ dialer' = [dialer EXCEPT ![r] = "delivered"]
    /\ UNCHANGED <<handlerVars, conn, active, table, stopVars>>

\* The transport gets the connection: the waiting request takes it, or, keep
\* alive being off, one that nobody waits for is closed.
Deliver(r) ==
    /\ dialer[r] = "tracked"
    /\ dialer' = [dialer EXCEPT ![r] = "delivered"]
    /\ conn' = [conn EXCEPT ![Upstream(r)] = IF pc[r] = "exchanging" THEN @ ELSE "closed"]
    /\ UNCHANGED <<handlerVars, active, table, stopVars>>

\* Do returns an error: the dial failed, the exchange did, or the request's
\* context ended, whatever the dialer is doing; then the handler may or may
\* not see what the dialer has written.  The transport closes a connection it
\* had been given.
ExchangeFails(r) ==
    /\ Goes(r, "exchanging", "closing")
    /\ RecordResult(r, "failed")
    /\ \E saw \in {"nothing", "glimpsed", "given"} :
         /\ saw = "glimpsed" => dialer[r] \in {"connected", "tracked"}
         /\ saw = "given" <=> dialer[r] = "delivered"
         /\ found' = [found EXCEPT ![r] = saw]
    /\ conn' = [conn EXCEPT ![Upstream(r)] = IF dialer[r] = "delivered" THEN "closed" ELSE @]
    /\ UNCHANGED <<gate, dialer, active, stopVars>>

\* The response's header is there.
Exchange(r) ==
    /\ dialer[r] = "delivered"
    /\ Goes(r, "exchanging", "streaming")
    /\ RecordResult(r, "connected")
    /\ found' = [found EXCEPT ![r] = "given"]
    /\ UNCHANGED <<gate, connVars, stopVars>>

\* The body was copied or cut off; closing it closes the connection.
EndResponse(r) ==
    /\ goal[r].method = "http"
    /\ Goes(r, "streaming", "closing")
    /\ conn' = [conn EXCEPT ![Upstream(r)] = "closed"]
    /\ UNCHANGED <<gate, found, dialer, active, table, stopVars>>

\* The deferred untrack, of a connection the handler knows of.
UntrackResponse(r) ==
    /\ goal[r].method = "http"
    /\ Goes(r, "closing", "leaving")
    /\ active' = IF found[r] = "nothing" THEN active ELSE active \ {Upstream(r)}
    /\ UNCHANGED <<gate, found, dialer, conn, table, stopVars>>

-----------------------------------------------------------------------------
(* stop, as far as the proxy is concerned.                                 *)

\* The critical section: cancel the context and copy the active connections.
StopMarks ==
    /\ stopper = "none"
    /\ stopper' = "marked"
    /\ doomed' = active
    /\ UNCHANGED <<handlerVars, connVars, table>>

\* The listener and the server are closed.
StopShuts ==
    /\ stopper = "marked"
    /\ stopper' = "shut"
    /\ UNCHANGED <<handlerVars, connVars, table, doomed>>

\* The copied connections are closed one by one.
StopCloses(c) ==
    /\ stopper = "shut"
    /\ c \in doomed
    /\ doomed' = doomed \ {c}
    /\ conn' = [conn EXCEPT ![c] = "closed"]
    /\ UNCHANGED <<handlerVars, dialer, active, table, stopper>>

\* stopDone is closed; Stop returns a snapshot of the table.
StopEnds ==
    /\ stopper = "shut"
    /\ doomed = {}
    /\ stopper' = "over"
    /\ UNCHANGED <<handlerVars, connVars, table, doomed>>

-----------------------------------------------------------------------------
CommonStep(r) ==
    Enter(r) \/ TurnAway(r) \/ BadAuthority(r) \/ Unsupported(r) \/ Parse(r)
    \/ ResolveFails(r) \/ Resolve(r) \/ Leave(r)
ConnectStep(r) ==
    DialFails(r) \/ Dial(r) \/ HijackFails(r) \/ Hijack(r) \/ TrackClient(r) \/ TrackUpstream(r)
    \/ RecordTunnel(r) \/ EndTunnel(r) \/ UntrackClient(r)
    \/ UntrackUpstream(r)
ResponseStep(r) ==
    ExchangeFails(r) \/ Exchange(r) \/ EndResponse(r) \/ UntrackResponse(r)
DialerStep(r) ==
    DialerFails(r) \/ DialerConnects(r) \/ DialerTracks(r) \/ Deliver(r)
StopStep == StopShuts \/ StopEnds \/ \E c \in Conns : StopCloses(c)

Next ==
    \/ \E r \in Requests :
         Arrive(r) \/ CommonStep(r) \/ ConnectStep(r) \/ ResponseStep(r) \/ DialerStep(r)
    \/ StopMarks \/ StopStep

Spec == Init /\ [][Next]_vars

(* What goes on by itself: every wait of a handler is bounded, by the       *)
(* request's timeout, by the tunnel's deadline or by the session's context, *)
(* and a dial ends.  Nobody is obliged to send a request or to stop.  A     *)
(* handler, a dialer and a stop each run once and never step back, so these *)
(* steps come to an end.                                                    *)
Running ==
    \/ \E r \in Requests : CommonStep(r) \/ ConnectStep(r) \/ ResponseStep(r) \/ DialerStep(r)
    \/ StopStep

-----------------------------------------------------------------------------
(* Properties.                                                             *)

\* Every variable of the proxy has its type.
TypeOK ==
    /\ pc \in [Requests -> PCs]
    /\ goal \in [Requests -> [method : Methods, dest : Destinations \cup {"none"}] \cup {NoGoal}]
    /\ gate \in Nat
    /\ dialer \in [Requests -> {"none", "dialing", "failed", "connected", "tracked", "delivered"}]
    /\ conn \in [Conns -> {"none", "open", "closed"}]
    /\ active \subseteq Conns
    /\ found \in [Requests -> {"nothing", "glimpsed", "given"}]
    /\ table \in [Destinations -> [seen : Nat, successes : Nat, failures : Nat, outcome : Outcomes]]
    /\ stopper \in {"none", "marked", "shut", "over"}
    /\ doomed \subseteq Conns

\* connectionGate bounds what the browser can make the proxy open: there are
\* never more handlers at work than tokens, nor more open tunnels.
GateBounds ==
    /\ gate = Cardinality({r \in Requests : Inside(r)})
    /\ gate <= MaxConnections
    /\ Cardinality({r \in Requests : conn[Client(r)] = "open"}) <= MaxConnections

\* Once Stop has returned, the connections still open are those of a handler
\* or a dialer that has not registered them yet, and that will close them when
\* it tries to, or of a dialer whose handler glimpsed its connection and took
\* it out again, which its transport is about to close.
StopClosesAll ==
    stopper = "over" => \A r \in Requests :
        /\ conn[Client(r)] = "open" => pc[r] = "hijacked"
        /\ conn[Upstream(r)] = "open" =>
             \/ pc[r] \in {"dialed", "hijacked", "halfTracked"}
             \/ dialer[r] = "connected"
             \/ dialer[r] = "tracked" /\ found[r] = "glimpsed"

\* A handler that has returned left nothing in active, but for the connection
\* of a dialer it had given up on.
NoStaleTrack ==
    \A r \in Requests : pc[r] \in {"leaving", "over"} =>
        /\ Client(r) \notin active
        /\ Upstream(r) \in active => goal[r].method = "http" /\ found[r] # "given"

\* The handlers that must have recorded their request.
Reported(r) ==
    pc[r] \in {"streaming", "closing", "halfClosed", "leaving", "over"}

\* Each request that names a destination and is let in is counted exactly once,
\* whatever becomes of it, and the outcome of a destination tells whether its
\* requests succeeded, failed, or both.
CountedOnce ==
    \A d \in Destinations :
        LET entry == table[d] IN
        /\ entry.seen = Cardinality({r \in Requests : goal[r].dest = d /\ Reported(r)})
        /\ entry.seen = entry.successes + entry.failures
        /\ entry.outcome = "mixed" <=> entry.successes > 0 /\ entry.failures > 0
        /\ entry.outcome = "connected" <=> entry.successes > 0 /\ entry.failures = 0

\* Once nothing goes on by itself after Stop, every handler has returned and every
\* connection is closed, those that were being opened while it ran included.
StopEndsAll ==
    (Stopping /\ ~ENABLED Running) =>
        stopper = "over" /\ gate = 0 /\ \A c \in Conns : conn[c] # "open"

\* What Stop's comment says it returns, the final snapshot: nothing is recorded
\* once it has returned.
SnapshotIsFinal ==
    [][stopper = "over" => UNCHANGED table]_vars
=============================================================================
