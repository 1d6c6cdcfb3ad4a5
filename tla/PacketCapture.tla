--------------------------- MODULE PacketCapture ----------------------------
(***************************************************************************)
(* A TCP or path probe that runs inside a packet capture of its own        *)
(* (runWithPacketEvidence in internal/orchestrate/run.go).  For a TCP      *)
(* probe the capture is the ETW session of internal/packet/etw_windows.go: *)
(* the kernel writes events into a buffer or loses them, a consumer        *)
(* goroutine turns them into observations, a watcher goroutine stops the   *)
(* session when the context ends, and Stop waits for the consumer.  What   *)
(* happens after the deadline of the context is outside the window of the  *)
(* capture and is not evidence.  For a path probe the capture is any       *)
(* backend that reports some of the keys of echo requests and their        *)
(* answers.                                                                *)
(***************************************************************************)
EXTENDS PacketCorrelation

CONSTANTS
    Lanes,           \* other connections of this process to the same target
    Aliens,          \* connections of other processes to the same target
    MaxFlows,        \* maxETWFlows
    MaxObservations, \* maxETWObservations
    MaxOthers,       \* bound: other connections that begin
    MaxBuffered,     \* bound: events of other connections only enter a shorter buffer
    MaxFaults,       \* bound: events lost or garbled, and failures of ProcessTrace
    MaxAnswers       \* bound: answers that a backend reports of a path probe

Own   == 1
Flows == {Own} \cup Lanes \cup Aliens

ASSUME CaptureAssumption ==
    /\ Lanes \subseteq Nat \ {0, Own} /\ Aliens \subseteq Nat \ {0, Own} /\ Lanes \cap Aliens = {}
    /\ IsFiniteSet(Flows)
    /\ {MaxFlows, MaxObservations, MaxOthers, MaxBuffered, MaxFaults, MaxAnswers} \subseteq Nat

VARIABLES
    pc,           \* where runWithPacketEvidence is
    probeType,    \* "tcp" or "path"
    ctx,          \* what ctx.Err() says: "live", "cancelled" or "deadline"
    startError,   \* the class of the error of backend.Start
    conn,         \* what each connection has done so far
    atDeadline,   \* what the probe's own had done when scope.Deadline passed, or None
    result,       \* what the probe's result says of its connection
    session,      \* whether the ETW session runs
    registered,   \* whether the callback is in etwCallbacks
    buffer,       \* events of the kernel that the consumer has not received
    kernelLost,   \* events the kernel dropped
    faults,       \* faults of the environment so far
    consumer,     \* the goroutine of process
    watcher,      \* the goroutine that waits for the context
    capture,      \* the fields of etwCapture that its mutex guards
    snapshot,     \* what Stop returned
    evidence      \* the flow Correlate returned

nativeVars == <<session, registered, buffer, kernelLost, faults>>
threadVars == <<consumer, watcher>>
vars == <<pc, probeType, ctx, startError, conn, atDeadline, result, nativeVars, threadVars,
          capture, snapshot, evidence>>

-----------------------------------------------------------------------------
None == "none"

States == {"idle", "requested", "sent", "confirmed", "reset"}

Process(f) == IF f \in Aliens THEN 2 ELSE 1

EmptyCapture  == [observations |-> <<>>, lost |-> 0, complete |-> FALSE, cancelled |-> FALSE,
                  error |-> FALSE]
EmptyETW      == [observations |-> <<>>, flows |-> {}, lost |-> 0, garbled |-> 0,
                  cancelled |-> FALSE, complete |-> FALSE, error |-> FALSE]
NoResult      == [passed |-> FALSE, tuple |-> [remote |-> 0, port |-> 0]]

Init ==
    /\ pc = "starting"
    /\ probeType \in {"tcp", "path"}
    /\ ctx = "live"
    /\ startError = None
    /\ conn = [f \in Flows |-> "idle"]
    /\ atDeadline = None
    /\ result = NoResult
    /\ session = FALSE /\ registered = FALSE
    /\ buffer = <<>> /\ kernelLost = 0 /\ faults = 0
    /\ consumer = None /\ watcher = None
    /\ capture = EmptyETW
    /\ snapshot = EmptyCapture
    /\ evidence = Undecided(None, None)

-----------------------------------------------------------------------------
(* The clock.  Contexts have deadlines, and a capture whose context has one *)
(* counts as evidence only what happened before it (scope.Deadline).  The   *)
(* deadline passes some time before the timer of the context fires and the  *)
(* watcher stops the session.                                               *)
Late == atDeadline # None

\* What the probe's own connection has done within the window of the capture.
InTime == IF Late THEN atDeadline ELSE conn[Own]

DeadlinePasses ==
    /\ probeType = "tcp"
    /\ pc # "filed" /\ ~Late
    /\ atDeadline' = conn[Own]
    /\ UNCHANGED <<pc, probeType, ctx, startError, conn, result, nativeVars, threadVars, capture,
                   snapshot, evidence>>

ContextEnds ==
    /\ probeType = "tcp"
    /\ ctx = "live" /\ pc # "filed"
    /\ ctx' \in {"cancelled"} \cup IF Late THEN {"deadline"} ELSE {}
    /\ UNCHANGED <<pc, probeType, startError, conn, atDeadline, result, nativeVars, threadVars,
                   capture, snapshot, evidence>>

-----------------------------------------------------------------------------
(* The network and the kernel.  A connection is requested, its SYN is sent *)
(* and it is confirmed or reset; each step is an event of the provider,    *)
(* with its time, which reaches the buffer, reaches it garbled, or is      *)
(* dropped.  Other connections may have begun before the provider is       *)
(* enabled, and no longer matter once the session is stopped.              *)
Listening == session /\ pc # "enabling"

Log(event) ==
    IF ~Listening
    THEN UNCHANGED <<buffer, kernelLost, faults>>
    ELSE \/ /\ buffer' = Append(buffer, event)
            /\ UNCHANGED <<kernelLost, faults>>
         \/ /\ faults < MaxFaults /\ faults' = faults + 1
            /\ \/ /\ buffer' = Append(buffer, [event EXCEPT !.type = "garbled"])
                  /\ UNCHANGED kernelLost
               \/ /\ kernelLost' = kernelLost + 1
                  /\ UNCHANGED buffer

Advance(f, from, to) ==
    /\ probeType = "tcp"
    /\ conn[f] = from
    /\ IF f = Own THEN pc = "running"
       ELSE (Listening \/ pc \in {"starting", "enabling"}) /\ Len(buffer) < MaxBuffered
    /\ conn' = [conn EXCEPT ![f] = to]
    /\ Log([type |-> to, flow |-> f, late |-> Late])
    /\ UNCHANGED <<pc, probeType, ctx, startError, atDeadline, result, session, registered,
                   threadVars, capture, snapshot, evidence>>

\* A dial starts only while its context is alive; what it has started the
\* kernel goes on with until the probe returns.
Request(f) ==
    /\ IF f = Own THEN ctx = "live"
       ELSE Cardinality({g \in Flows \ {Own} : conn[g] # "idle"}) < MaxOthers
    /\ Advance(f, "idle", "requested")

Emit(f)    == Advance(f, "requested", "sent")
Answer(f)  == Advance(f, "sent", "confirmed") \/ Advance(f, "sent", "reset")

-----------------------------------------------------------------------------
(* Start, one native call after the other: each of them may fail, and what *)
(* was started before is taken back.  The probe then runs without capture. *)
StartErrors == {"insufficient_privilege", "unsupported", "error"}

WithoutCapture == startError' \in StartErrors /\ pc' = "running"

\* stopNative, under stopOnce: the session is stopped at most once.
StopNative == session' = FALSE

\* StartTraceW, if there is a backend at all.
StartTrace ==
    /\ pc = "starting" /\ probeType = "tcp"
    /\ \/ session' = TRUE /\ pc' = "enabling" /\ UNCHANGED startError
       \/ WithoutCapture /\ UNCHANGED session
    /\ UNCHANGED <<probeType, ctx, conn, atDeadline, result, registered, buffer, kernelLost,
                   faults, threadVars, capture, snapshot, evidence>>

\* EnableTraceEx2, and the entry in etwCallbacks.
EnableTrace ==
    /\ pc = "enabling"
    /\ \/ registered' = TRUE /\ pc' = "opening" /\ UNCHANGED <<startError, session>>
       \/ WithoutCapture /\ StopNative /\ UNCHANGED registered
    /\ UNCHANGED <<probeType, ctx, conn, atDeadline, result, buffer, kernelLost, faults,
                   threadVars, capture, snapshot, evidence>>

\* Faulty variant: a trace that cannot be opened only leaves the table of callbacks.
OpenTrace_Leaks ==
    /\ pc = "opening"
    /\ \/ /\ consumer' = "processing" /\ watcher' = "waiting" /\ pc' = "running"
          /\ UNCHANGED <<startError, session, registered>>
       \/ WithoutCapture /\ registered' = FALSE /\ UNCHANGED <<session, threadVars>>
    /\ UNCHANGED <<probeType, ctx, conn, atDeadline, result, buffer, kernelLost, faults, capture,
                   snapshot, evidence>>

\* OpenTraceW, and the two goroutines.
OpenTrace ==
    /\ pc = "opening"
    /\ \/ /\ consumer' = "processing" /\ watcher' = "waiting" /\ pc' = "running"
          /\ UNCHANGED <<startError, session, registered>>
       \/ WithoutCapture /\ StopNative /\ registered' = FALSE /\ UNCHANGED threadVars
    /\ UNCHANGED <<probeType, ctx, conn, atDeadline, result, buffer, kernelLost, faults, capture,
                   snapshot, evidence>>

-----------------------------------------------------------------------------
(* The probe, Stop and what is filed.                                      *)

\* What the result of the TCP probe tells Correlate: a connection names both
\* ends, a dial that failed only the address that was dialled.
ResultOf(state) ==
    [passed |-> state = "confirmed",
     tuple  |-> [remote |-> IF state = "idle" THEN 0 ELSE 1,
                 port   |-> IF state = "confirmed" THEN Own ELSE 0]]

\* The probe returns: connected, refused, timed out, failed locally, or not
\* tried because its context is over.
ProbeReturns ==
    /\ pc = "running"
    /\ conn[Own] # "idle" \/ ctx # "live"
    /\ result' = ResultOf(conn[Own])
    /\ pc' = IF startError = None THEN "stopping" ELSE "correlating"
    /\ UNCHANGED <<probeType, ctx, startError, conn, atDeadline, nativeVars, threadVars, capture,
                   snapshot, evidence>>

Stop ==
    /\ pc = "stopping"
    /\ StopNative
    /\ pc' = "waiting"
    /\ UNCHANGED <<probeType, ctx, startError, conn, atDeadline, result, registered, buffer,
                   kernelLost, faults, threadVars, capture, snapshot, evidence>>

\* Stop goes on when the consumer has closed done, and copies under the mutex.
StopReturns ==
    /\ pc = "waiting" /\ consumer = "ended"
    /\ snapshot' = [observations |-> capture.observations,
                    lost         |-> capture.lost,
                    complete     |-> capture.complete /\ capture.garbled = 0 /\ capture.lost = 0
                                     /\ ~capture.cancelled,
                    cancelled    |-> capture.cancelled,
                    error        |-> capture.error]
    /\ pc' = "correlating"
    /\ UNCHANGED <<probeType, ctx, startError, conn, atDeadline, result, nativeVars, threadVars,
                   capture, evidence>>

CorrelationInput ==
    [probeType |-> probeType, correlation |-> 1, process |-> 1, port |-> 1, addresses |-> {1},
     selected |-> 1, literal |-> FALSE, passed |-> result.passed, tuple |-> result.tuple,
     capture |-> snapshot, startError |-> startError, cancelled |-> ctx = "cancelled"]

File ==
    /\ pc = "correlating"
    /\ evidence' = Correlate(CorrelationInput)
    /\ pc' = "filed"
    /\ UNCHANGED <<probeType, ctx, startError, conn, atDeadline, result, nativeVars, threadVars,
                   capture, snapshot>>

-----------------------------------------------------------------------------
(* The consumer: ProcessTrace calls etwRecordCallback for each event.      *)

\* An observation carries the identity of the scope, whatever flow it is of, and
\* the time of its event, which tells Correlate whether it is in the window.
TcpObservation(f, kind, late) ==
    [kind |-> kind, correlation |-> 1, process |-> Process(f), localPort |-> f, peer |-> 1,
     peerPort |-> 1, connection |-> f, quoted |-> 0, keys |-> NoKeys, inWindow |-> ~late,
     truth |-> f]

FlowInScope(f) == Process(f) = 1

Observed(c, f, kind, late) ==
    [c EXCEPT !.observations = Append(@, TcpObservation(f, kind, late))]

\* Faulty variant: an event that does not fit is dropped without being counted.
Consumed_Uncounted(c, event) ==
    LET f     == event.flow
        full  == f \notin c.flows /\ Cardinality(c.flows) >= MaxFlows
        known == [c EXCEPT !.flows = @ \cup {f}]
    IN  IF Len(c.observations) >= MaxObservations THEN c
        ELSE CASE event.type = "requested" /\ FlowInScope(f) /\ ~full -> known
               [] event.type = "sent" /\ f \in c.flows ->
                     Observed(c, f, "outbound_tcp_syn", event.late)
               [] event.type = "confirmed" /\ FlowInScope(f) ->
                     Observed(c, f, "tcp_handshake_confirmed", event.late)
               [] OTHER -> c

\* consume: requests and resets carry the addresses and enter the table of
\* flows, a SYN only names an entry of it; what does not fit is counted as lost.
Consumed(c, event) ==
    LET f     == event.flow
        lost  == [c EXCEPT !.lost = @ + 1]
        full  == f \notin c.flows /\ Cardinality(c.flows) >= MaxFlows
        known == [c EXCEPT !.flows = @ \cup {f}]
    IN  IF Len(c.observations) >= MaxObservations THEN lost
        ELSE CASE event.type = "garbled" -> [c EXCEPT !.garbled = @ + 1]
               [] event.type = "requested" /\ FlowInScope(f) -> IF full THEN lost ELSE known
               [] event.type = "reset" /\ FlowInScope(f) ->
                     IF full THEN lost ELSE Observed(known, f, "tcp_rst", event.late)
               [] event.type = "sent" /\ f \in c.flows ->
                     Observed(c, f, "outbound_tcp_syn", event.late)
               [] event.type = "confirmed" /\ FlowInScope(f) ->
                     Observed(c, f, "tcp_handshake_confirmed", event.late)
               [] OTHER -> c

\* Faulty variant: an observation bears the time at which it is consumed.
Consume_StampsArrival ==
    /\ consumer = "processing" /\ buffer # <<>>
    /\ capture' = Consumed(capture, [Head(buffer) EXCEPT !.late = Late])
    /\ buffer' = Tail(buffer)
    /\ UNCHANGED <<pc, probeType, ctx, startError, conn, atDeadline, result, session, registered,
                   kernelLost, faults, threadVars, snapshot, evidence>>

Consume ==
    /\ consumer = "processing" /\ buffer # <<>>
    /\ capture' = Consumed(capture, Head(buffer))
    /\ buffer' = Tail(buffer)
    /\ UNCHANGED <<pc, probeType, ctx, startError, conn, atDeadline, result, session, registered,
                   kernelLost, faults, threadVars, snapshot, evidence>>

\* ProcessTrace returns, by itself with an error or because the trace is closed
\* and drained; the losses of the kernel are read, then done is closed.
ProcessReturns(failed) ==
    /\ consumer = "processing"
    /\ IF failed THEN faults < MaxFaults ELSE ~session /\ buffer = <<>>
    /\ capture' = [capture EXCEPT
                     !.garbled = IF failed THEN @ + 1 ELSE @,
                     !.lost = IF ~session /\ kernelLost > @ THEN kernelLost ELSE @,
                     !.error = failed \/ capture.garbled # 0,
                     !.complete = TRUE]
    /\ registered' = FALSE
    /\ consumer' = "ended"
    /\ faults' = IF failed THEN faults + 1 ELSE faults
    /\ UNCHANGED <<pc, probeType, ctx, startError, conn, atDeadline, result, session, buffer,
                   kernelLost, watcher, snapshot, evidence>>

\* The watcher marks the capture under the mutex and then stops the session.
WatcherCancels ==
    /\ ctx # "live"
    /\ \/ /\ watcher = "waiting" /\ watcher' = "stopping"
          /\ capture' = [capture EXCEPT !.cancelled = TRUE] /\ UNCHANGED session
       \/ /\ watcher = "stopping" /\ watcher' = "ended"
          /\ StopNative /\ UNCHANGED capture
    /\ UNCHANGED <<pc, probeType, ctx, startError, conn, atDeadline, result, registered, buffer,
                   kernelLost, faults, consumer, snapshot, evidence>>

WatcherEnds ==
    /\ watcher = "waiting" /\ consumer = "ended"
    /\ watcher' = "ended"
    /\ UNCHANGED <<pc, probeType, ctx, startError, conn, atDeadline, result, nativeVars, consumer,
                   capture, snapshot, evidence>>

-----------------------------------------------------------------------------
(* Path probes.  Two requests, by their TTL or by the attempt at one TTL,   *)
(* and answers to them or to another process's request, some of them late; *)
(* a backend reports some keys of the requests and some of the answers, in *)
(* the order of their times.                                               *)
RequestKeys == {"ident", "seq", "ttl", "attempt"}

Reported(keys, exposed) == [k \in EchoKeys |-> IF k \in exposed THEN keys[k] ELSE 0]

TrueKeys(i, retry) ==
    [k \in EchoKeys |-> CASE k \in {"ident", "quotedIdent"} -> IF i = 3 THEN 8 ELSE 7
                          [] k \in {"seq", "quotedSeq"}     -> IF i = 3 THEN 1 ELSE i
                          [] k = "ttl"                      -> IF retry \/ i = 3 THEN 1 ELSE i
                          [] OTHER                          -> IF retry /\ i # 3 THEN i ELSE 1]

PathObservation(kind, correlation, keys, late, cause) ==
    [kind |-> kind, correlation |-> correlation, process |-> 0, localPort |-> 0,
     peer |-> IF kind = "icmp_time_exceeded" THEN 2 ELSE 1, peerPort |-> 0, connection |-> 0,
     quoted |-> IF kind = "icmp_time_exceeded" THEN 1 ELSE 0, keys |-> keys, inWindow |-> ~late,
     truth |-> cause]

\* The answers of a report, each with the request that caused it, 3 if it is
\* another process's.
Answers == UNION {[1..n -> [cause : 1..3, late : BOOLEAN]] : n \in 1..MaxAnswers}

Echoes == [requests : 1..2, retry : BOOLEAN, stamped : {0, 1}, requestKeys : SUBSET RequestKeys,
           kind : EchoAnswers, answers : Answers, answerKeys : SUBSET EchoKeys]

Plausible(r) ==
    /\ \A j \in DOMAIN r.answers : r.answers[j].cause # 3 => r.answers[j].cause <= r.requests
    /\ \A j, k \in DOMAIN r.answers : j < k /\ r.answers[j].late => r.answers[k].late

PathReport(r) ==
    [i \in 1..r.requests |->
        PathObservation("outbound_icmp_echo", r.stamped,
                        Reported(TrueKeys(i, r.retry), r.requestKeys), FALSE, i)]
    \o [j \in DOMAIN r.answers |->
        PathObservation(r.kind, r.stamped,
                        Reported(TrueKeys(r.answers[j].cause, r.retry), r.answerKeys),
                        r.answers[j].late, r.answers[j].cause)]

\* runWithPacketEvidence of a path probe whose backend reports such a capture.
RunPath ==
    /\ pc = "starting" /\ probeType = "path"
    /\ \E r \in Echoes :
         /\ Plausible(r)
         /\ snapshot' = [EmptyCapture EXCEPT !.complete = TRUE, !.observations = PathReport(r)]
    /\ result' = [NoResult EXCEPT !.passed = TRUE]
    /\ pc' = "correlating"
    /\ UNCHANGED <<probeType, ctx, startError, conn, atDeadline, nativeVars, threadVars, capture,
                   evidence>>

-----------------------------------------------------------------------------
Next ==
    \/ \E f \in Flows : Request(f) \/ Emit(f) \/ Answer(f)
    \/ DeadlinePasses \/ ContextEnds
    \/ StartTrace \/ EnableTrace \/ OpenTrace
    \/ ProbeReturns \/ Stop \/ StopReturns \/ File
    \/ Consume \/ ProcessReturns(FALSE) \/ ProcessReturns(TRUE) \/ WatcherCancels \/ WatcherEnds
    \/ RunPath

Spec == Init /\ [][Next]_vars

\* The dial of the probe is bounded by its timeout; goroutines run when they can.
FairSpec ==
    /\ Spec
    /\ WF_vars(Request(Own)) /\ WF_vars(ProbeReturns)
    /\ WF_vars(StartTrace) /\ WF_vars(EnableTrace) /\ WF_vars(OpenTrace)
    /\ WF_vars(Stop) /\ WF_vars(StopReturns)
    /\ WF_vars(Consume) /\ WF_vars(ProcessReturns(FALSE))
    /\ WF_vars(WatcherCancels) /\ WF_vars(WatcherEnds)

-----------------------------------------------------------------------------
Filed(type) == pc = "filed" /\ probeType = type

TypeOK ==
    /\ pc \in {"starting", "enabling", "opening", "running", "stopping", "waiting", "correlating",
              "filed"}
    /\ ctx \in {"live", "cancelled", "deadline"}
    /\ conn \in [Flows -> States]
    /\ atDeadline \in {None} \cup States
    /\ session \in BOOLEAN /\ registered \in BOOLEAN
    /\ consumer \in {None, "processing", "ended"}
    /\ watcher \in {None, "waiting", "stopping", "ended"}
    /\ capture.flows \subseteq Lanes \cup {Own}
    /\ pc = "filed" => evidence.emission \in {"observed", "not_observed", "unknown"}

\* The packet lane never contradicts a connection the TCP lane has made, neither
\* by losing its packets nor by taking another lane's reset for an answer to it;
\* it may only miss an answer that came after the window of its capture
\* (etwCapture.consume, tcpTargetMatches, tcpPair, withinWindow).
NoContradiction ==
    Filed("tcp") /\ result.passed =>
        \/ evidence.outcome \in {"tcp_handshake_confirmed", "capture_unavailable", "cancelled"}
        \/ /\ InTime # "confirmed"
           /\ evidence.outcome \in {"no_matching_response_observed", "probe_not_observed"}

\* "The probe was not emitted" is only said of a probe that sent nothing within
\* the window of its capture: not when events were lost, garbled or cut off, and
\* not when the context stopped the session early (Correlate, etwCapture.Stop).
NegativeIsTrue ==
    Filed("tcp") /\ evidence.outcome = "probe_not_observed" => InTime \in {"idle", "requested"}

\* A backend that reports, for requests and answers alike, whose request it was
\* and which one, gets every answer in the window attributed to its request and
\* to no other, however many come and in whatever order; one that reports nothing
\* they share gets nothing attributed while there are two requests (pathPair,
\* correlatePath).
PathAttribution ==
    Filed("path") =>
        LET log     == snapshot.observations
            answers == {a \in DOMAIN log : log[a].kind \in EchoAnswers /\ log[a].inWindow}
            shared  == {p \in ComparableKeys :
                           log[Len(log)].keys[p[1]] # 0 /\ log[1].keys[p[2]] # 0}
            keys    == {p[2] : p \in shared}
        IN  /\ {"ident", "seq"} \subseteq keys =>
                 evidence.matched =
                     {<<log[log[a].truth], log[a]>> : a \in {b \in answers : log[b].truth # 3}}
            /\ shared = {} /\ log[2].kind = "outbound_icmp_echo" => evidence.matched = {}

\* What a capture starts it also ends: the session stops, the callback leaves the
\* table, both goroutines return, whatever fails or ends first (stopNative,
\* deleteCallback, the watcher of Start).
CaptureReleased ==
    <>[](~session /\ ~registered /\ consumer \in {None, "ended"} /\ watcher \in {None, "ended"})

\* An observation that is said to be matched by the correlation ID of the probe is
\* one of the probe's own (the comment of model.ProbeIdentity).
IdentityIsOwn ==
    Filed("tcp") /\ evidence.method = "correlation_id_and_tcp_tuple" =>
        \A pair \in evidence.matched : pair[1].truth = Own
=============================================================================
