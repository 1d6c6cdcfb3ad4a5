--------------------------- MODULE SessionManager ---------------------------
(***************************************************************************)
(* The diagnosis session manager (internal/session) and the SSE handler    *)
(* that streams a session's events to a browser (internal/web).            *)
(*                                                                         *)
(* Threads: one Create call and one execute goroutine per session, any     *)
(* number of Cancel calls, one effective Close, and one event-stream       *)
(* handler per client.  Every critical section of managedSession.mu and of *)
(* Manager.mu is one action, except the final one of execute: it emits     *)
(* several events, and a client receives from its channel without taking   *)
(* the mutex, so each emission is an action of its own while Locked(s).    *)
(***************************************************************************)
EXTENDS Integers, Sequences, FiniteSets

CONSTANTS
    Sessions,          \* the Create calls; an admitted call is its session
    Clients,           \* browsers with an EventSource
    NoSession,         \* not a session
    MaxConcurrent,     \* Options.MaxConcurrentSessions
    MaxEventHistory,   \* maxEventHistory
    SubscriberBuffer,  \* subscriberBuffer
    MaxProgress,       \* bound: progress events of one run
    MaxFindings,       \* bound: findings of one report
    MaxLosses          \* bound: connection losses, over all clients

ASSUME SessionAssumption ==
    /\ IsFiniteSet(Sessions)
    /\ NoSession \notin Sessions
    /\ MaxConcurrent \in Nat \ {0}
    /\ MaxEventHistory \in Nat \ {0}
    /\ SubscriberBuffer \in Nat \ {0}
    /\ MaxProgress \in Nat
    /\ MaxFindings \in Nat
    /\ MaxLosses \in Nat

VARIABLES
    closed,           \* Manager.closed
    capacity,         \* tokens in the Manager.capacity channel
    closeList,        \* sessions Close has copied and not yet visited
    closeAt,          \* the session whose cancel() Close is about to call
    pc,               \* where Create, then execute, of a session stands
    state,            \* managedSession.state
    cancelRequested,  \* managedSession.cancelRequested
    cancelling,       \* sessions some Cancel call has marked, cancel() pending
    ctxErr,           \* Err() of the run's context
    result,           \* what the runner returned: locals of execute
    report,           \* Status of managedSession.report
    done,             \* whether managedSession.done is closed
    events,           \* managedSession.events
    nextSequence,     \* managedSession.nextSequence
    subscribers,      \* managedSession.subscribers
    watching,         \* the session a client's EventSource is opened on
    handler,          \* where the client's diagnosisEvents call stands
    stream,           \* the channel Subscribe made for that call
    cursor,           \* the client's Last-Event-ID
    finished,         \* whether the client received the terminal event
    losses            \* connection losses so far

closeVars   == <<closed, closeList, closeAt>>
managerVars == <<capacity, closeVars>>
requestVars == <<cancelRequested, cancelling>>
runVars     == <<ctxErr, result>>
outcomeVars == <<report, done>>
sessionVars == <<pc, state, requestVars, runVars, outcomeVars>>
logVars     == <<events, nextSequence>>
feedVars    == <<subscribers, stream>>
clientVars  == <<watching, handler, cursor, finished, losses>>
eventVars   == <<logVars, feedVars, clientVars>>
vars == <<managerVars, sessionVars, eventVars>>

-----------------------------------------------------------------------------
States   == {"none", "running", "cancelling", "completed", "cancelled", "failed"}
Terminal(st) == st \in {"completed", "cancelled", "failed"}

\* ProbeStarted, ProbeCompleted and Emit publish "progress".
EndTypes   == {"diagnosis_completed", "diagnosis_cancelled"}
EventTypes == {"diagnosis_started", "progress", "finding_updated"} \cup EndTypes
Event      == [seq : Nat, type : EventTypes]

Statuses == {"complete", "incomplete", "error"}
NoResult == [status |-> "none", failed |-> FALSE, findings |-> 0]
Result   == [status : Statuses \cup {"none"}, failed : BOOLEAN, findings : Nat]

NoStream == [buf |-> <<>>, cap |-> 0, open |-> FALSE]
Stream   == [buf : Seq(Event), cap : Nat, open : BOOLEAN]

(* Create: idle, then acquired (a capacity token, not yet registered), then *)
(* refused and rejected, or spawned.  execute: spawned, running, returned,  *)
(* recording and sealing (s.mu held), ended (done closed, token held),      *)
(* released.                                                                *)
PCs == {"idle", "acquired", "refused", "rejected", "spawned", "running",
        "returned", "recording", "sealing", "ended", "released"}

Registered(s) == pc[s] \in {"spawned", "running", "returned", "recording", "sealing",
                            "ended", "released"}
HoldsSlot(s)  == pc[s] \in {"acquired", "refused", "spawned", "running", "returned",
                            "recording", "sealing", "ended"}
Locked(s)     == pc[s] \in {"recording", "sealing"}

Init ==
    /\ closed = FALSE
    /\ capacity = 0
    /\ closeList = {}
    /\ closeAt = NoSession
    /\ pc = [s \in Sessions |-> "idle"]
    /\ state = [s \in Sessions |-> "none"]
    /\ cancelRequested = [s \in Sessions |-> FALSE]
    /\ cancelling = {}
    /\ ctxErr = [s \in Sessions |-> "nil"]
    /\ result = [s \in Sessions |-> NoResult]
    /\ report = [s \in Sessions |-> "nil"]
    /\ done = [s \in Sessions |-> FALSE]
    /\ events = [s \in Sessions |-> <<>>]
    /\ nextSequence = [s \in Sessions |-> 0]
    /\ subscribers = [s \in Sessions |-> {}]
    /\ watching = [c \in Clients |-> NoSession]
    /\ handler = [c \in Clients |-> "idle"]
    /\ stream = [c \in Clients |-> NoStream]
    /\ cursor = [c \in Clients |-> 0]
    /\ finished = [c \in Clients |-> FALSE]
    /\ losses = 0

-----------------------------------------------------------------------------
(* The bounded event log and the fan-out to subscribers: emitLocked.       *)

\* The history forgets its oldest event when it is full.
Remember(log, e) ==
    IF Len(log) = MaxEventHistory THEN Append(Tail(log), e) ELSE Append(log, e)

\* The subscribers whose channel cannot take one more event.
Slow(s) == {c \in subscribers[s] : Len(stream[c].buf) >= stream[c].cap}

\* Faulty variant: the subscriber is forgotten but its channel stays open.
Drop_LeaveOpen(channel) == channel

Drop(channel) == [channel EXCEPT !.open = FALSE]

\* Every event gets the next sequence number, enters the history, and is
\* offered to each subscriber without blocking; one that cannot take it is
\* dropped and its channel closed.
EmitLocked(s, type) ==
    LET e == [seq |-> nextSequence[s] + 1, type |-> type] IN
    /\ nextSequence' = [nextSequence EXCEPT ![s] = @ + 1]
    /\ events' = [events EXCEPT ![s] = Remember(@, e)]
    /\ subscribers' = [subscribers EXCEPT ![s] = @ \ Slow(s)]
    /\ stream' = [c \in Clients |->
                    IF c \in Slow(s) THEN Drop(stream[c])
                    ELSE IF c \in subscribers[s]
                         THEN [stream[c] EXCEPT !.buf = Append(@, e)]
                         ELSE stream[c]]

-----------------------------------------------------------------------------
(* Create.                                                                 *)

\* The non-blocking send on the capacity channel.  Where it would block,
\* Create returns ErrBusy and changes nothing.
Acquire(s) ==
    /\ pc[s] = "idle"
    /\ capacity < MaxConcurrent
    /\ capacity' = capacity + 1
    /\ pc' = [pc EXCEPT ![s] = "acquired"]
    /\ UNCHANGED <<closeVars, state, requestVars, runVars, outcomeVars, eventVars>>

\* Faulty variant: closed is not looked at again once the slot is taken.
Admit_Unchecked(s) == "spawned"

\* The closed test of Create, made under Manager.mu.
Admit(s) == IF closed THEN "refused" ELSE "spawned"

\* The critical section of Create: refuse once closed, else publish the
\* session and start its goroutine.
Register(s) ==
    /\ pc[s] = "acquired"
    /\ pc' = [pc EXCEPT ![s] = Admit(s)]
    /\ state' = [state EXCEPT ![s] = IF Admit(s) = "spawned" THEN "running" ELSE @]
    /\ UNCHANGED <<managerVars, requestVars, runVars, outcomeVars, eventVars>>

\* Faulty variant: ErrClosed is returned without giving the slot back.
ReleaseRefused_Leak(s) ==
    /\ pc[s] = "refused"
    /\ pc' = [pc EXCEPT ![s] = "rejected"]
    /\ UNCHANGED <<managerVars, state, requestVars, runVars, outcomeVars, eventVars>>

\* Create gives the slot back and returns ErrClosed.
ReleaseRefused(s) ==
    /\ pc[s] = "refused"
    /\ pc' = [pc EXCEPT ![s] = "rejected"]
    /\ capacity' = capacity - 1
    /\ UNCHANGED <<closeVars, state, requestVars, runVars, outcomeVars, eventVars>>

-----------------------------------------------------------------------------
(* Cancel and Close.  Both mark a session under its mutex and call its     *)
(* cancel function only after they have released it.                       *)

\* Faulty variant: the mark is not conditional on the state.
MarkCancelled_Always(s) ==
    /\ cancelRequested' = [cancelRequested EXCEPT ![s] = TRUE]
    /\ state' = [state EXCEPT ![s] = IF @ = "running" THEN "cancelling" ELSE @]

MarkCancelled(s) ==
    IF Terminal(state[s])
    THEN UNCHANGED <<cancelRequested, state>>
    ELSE /\ cancelRequested' = [cancelRequested EXCEPT ![s] = TRUE]
         /\ state' = [state EXCEPT ![s] = IF @ = "running" THEN "cancelling" ELSE @]

\* context.CancelFunc: the first cause of a context's end is the one that stays.
CancelContext(s) ==
    ctxErr' = [ctxErr EXCEPT ![s] = IF @ = "nil" THEN "canceled" ELSE @]

\* Cancel, up to the release of the mutex.
Cancel(s) ==
    /\ Registered(s) /\ ~Locked(s)
    /\ MarkCancelled(s)
    /\ cancelling' = IF Terminal(state[s]) THEN cancelling ELSE cancelling \cup {s}
    /\ UNCHANGED <<managerVars, pc, runVars, outcomeVars, eventVars>>

\* The cancel() of Cancel.
CancelReturns(s) ==
    /\ s \in cancelling
    /\ CancelContext(s)
    /\ cancelling' = cancelling \ {s}
    /\ UNCHANGED <<managerVars, pc, state, cancelRequested, result, outcomeVars, eventVars>>

\* The critical section of Close on Manager.mu; a second Close returns at once.
CloseBegin ==
    /\ ~closed
    /\ closed' = TRUE
    /\ closeList' = {s \in Sessions : Registered(s)}
    /\ UNCHANGED <<capacity, closeAt, sessionVars, eventVars>>

\* Close visits the copied sessions one by one.
CloseVisit(s) ==
    /\ closeAt = NoSession
    /\ s \in closeList /\ ~Locked(s)
    /\ closeList' = closeList \ {s}
    /\ MarkCancelled(s)
    /\ closeAt' = IF Terminal(state[s]) THEN NoSession ELSE s
    /\ UNCHANGED <<closed, capacity, pc, cancelling, runVars, outcomeVars, eventVars>>

\* The cancel() of Close.
CloseCancels ==
    /\ closeAt # NoSession
    /\ CancelContext(closeAt)
    /\ closeAt' = NoSession
    /\ UNCHANGED <<closed, capacity, closeList, pc, state, requestVars, result, outcomeVars, eventVars>>

-----------------------------------------------------------------------------
(* execute.                                                                *)

Start(s) ==
    /\ pc[s] = "spawned"
    /\ pc' = [pc EXCEPT ![s] = "running"]
    /\ EmitLocked(s, "diagnosis_started")
    /\ UNCHANGED <<managerVars, state, requestVars, runVars, outcomeVars, clientVars>>

\* Faulty variant: the run's context has no deadline.
Deadline_None(s) == FALSE /\ UNCHANGED vars

\* The timer of context.WithTimeout.
Deadline(s) ==
    /\ pc[s] = "running"
    /\ ctxErr[s] = "nil"
    /\ ctxErr' = [ctxErr EXCEPT ![s] = "deadline"]
    /\ UNCHANGED <<managerVars, pc, state, requestVars, result, outcomeVars, eventVars>>

\* The runner reports progress.  It is not obliged to stop once its context
\* has ended.
Progress(s) ==
    /\ pc[s] = "running"
    /\ nextSequence[s] <= MaxProgress
    /\ EmitLocked(s, "progress")
    /\ UNCHANGED <<managerVars, sessionVars, clientVars>>

\* A report returned after the budget expired cannot claim completeness.
FinalStatus(s, status) ==
    IF ctxErr[s] = "deadline" /\ status = "complete" THEN "incomplete" ELSE status

\* runSafely returns: a report of the runner, or the error report that stands
\* for a panic; execute then looks at the context's error.  A deadline between
\* the two is a deadline just before the return.
Return(s) ==
    /\ pc[s] = "running"
    /\ pc' = [pc EXCEPT ![s] = "returned"]
    /\ \E status \in Statuses, panicked \in BOOLEAN, n \in 0..MaxFindings :
         /\ panicked => status = "error" /\ n = 0
         /\ result' = [result EXCEPT ![s] =
                         [status   |-> FinalStatus(s, status),
                          failed   |-> panicked \/ ctxErr[s] = "deadline",
                          findings |-> n]]
    /\ UNCHANGED <<managerVars, state, requestVars, ctxErr, outcomeVars, eventVars>>

\* Faulty variants: the state is decided by the context's error and not by
\* the request; the status of the report is taken for the state.
EndState_ByContext(s) ==
    IF ctxErr[s] = "canceled" THEN "cancelled"
    ELSE IF result[s].failed THEN "failed" ELSE "completed"
EndState(s) ==
    IF cancelRequested[s] THEN "cancelled"
    ELSE IF result[s].failed THEN "failed" ELSE "completed"

\* execute takes the mutex and records the report and the final state.
Record(s) ==
    /\ pc[s] = "returned"
    /\ pc' = [pc EXCEPT ![s] = "recording"]
    /\ report' = [report EXCEPT ![s] = result[s].status]
    /\ state' = [state EXCEPT ![s] = EndState(s)]
    /\ UNCHANGED <<managerVars, requestVars, runVars, done, eventVars>>

\* One finding_updated, the mutex still held.
EmitFinding(s) ==
    /\ pc[s] = "recording"
    /\ result[s].findings > 0
    /\ result' = [result EXCEPT ![s].findings = @ - 1]
    /\ EmitLocked(s, "finding_updated")
    /\ UNCHANGED <<managerVars, pc, state, requestVars, ctxErr, outcomeVars, clientVars>>

EndType(s) ==
    IF state[s] = "cancelled" THEN "diagnosis_cancelled" ELSE "diagnosis_completed"

EmitEnd(s) ==
    /\ pc[s] = "recording"
    /\ result[s].findings = 0
    /\ pc' = [pc EXCEPT ![s] = "sealing"]
    /\ EmitLocked(s, EndType(s))
    /\ UNCHANGED <<managerVars, state, requestVars, runVars, outcomeVars, clientVars>>

\* execute closes every remaining subscriber and done, and unlocks.
Seal(s) ==
    /\ pc[s] = "sealing"
    /\ pc' = [pc EXCEPT ![s] = "ended"]
    /\ stream' = [c \in Clients |->
                    IF c \in subscribers[s] THEN Drop(stream[c]) ELSE stream[c]]
    /\ subscribers' = [subscribers EXCEPT ![s] = {}]
    /\ done' = [done EXCEPT ![s] = TRUE]
    /\ UNCHANGED <<managerVars, state, requestVars, runVars, report, logVars, clientVars>>

\* The deferred calls of execute: cancel the context, return the slot.  Its
\* locals are gone.
Release(s) ==
    /\ pc[s] = "ended"
    /\ pc' = [pc EXCEPT ![s] = "released"]
    /\ capacity' = capacity - 1
    /\ CancelContext(s)
    /\ result' = [result EXCEPT ![s] = NoResult]
    /\ UNCHANGED <<closeVars, state, requestVars, outcomeVars, eventVars>>

-----------------------------------------------------------------------------
(* Subscribe, and the diagnosisEvents handler of a client.  An EventSource *)
(* whose response ended reconnects with the id of the last event it got.   *)

ReplayCap(s) ==
    IF Len(events[s]) + 1 > SubscriberBuffer THEN Len(events[s]) + 1 ELSE SubscriberBuffer

\* The events the history has forgotten are 1 .. Forgotten(s).
Forgotten(s) == nextSequence[s] - Len(events[s])

\* Faulty variant: the event after the client's cursor is skipped.
Replay_Skip(s, after) ==
    SubSeq(events[s], IF after > Forgotten(s) THEN after - Forgotten(s) + 2 ELSE 1, Len(events[s]))

\* The retained events with a sequence number above after.  Numbers in the
\* history are consecutive, so these are a suffix of it (HistoryContiguous).
Replay(s, after) ==
    SubSeq(events[s], IF after > Forgotten(s) THEN after - Forgotten(s) + 1 ELSE 1, Len(events[s]))

\* Only a session that has not ended is joined; the channel of another holds
\* the replay and is closed at once.
Joins(s) == ~Terminal(state[s])

\* A client opens or reopens its EventSource on a session.
Subscribe(c, s) ==
    /\ handler[c] = "idle" /\ ~finished[c]
    /\ watching[c] \in {s, NoSession}
    /\ Registered(s) /\ ~Locked(s)
    /\ watching' = [watching EXCEPT ![c] = s]
    /\ handler' = [handler EXCEPT ![c] = "streaming"]
    /\ stream' = [stream EXCEPT ![c] = [buf  |-> Replay(s, cursor[c]),
                                        cap  |-> ReplayCap(s),
                                        open |-> Joins(s)]]
    /\ subscribers' = [subscribers EXCEPT ![s] = IF Joins(s) THEN @ \cup {c} ELSE @]
    /\ UNCHANGED <<managerVars, sessionVars, logVars, cursor, finished, losses>>

\* The handler receives an event and writes it; a terminal event ends it.
Write(c) ==
    /\ handler[c] = "streaming"
    /\ stream[c].buf # <<>>
    /\ LET e == Head(stream[c].buf) IN
       /\ stream' = [stream EXCEPT ![c].buf = Tail(@)]
       /\ cursor' = [cursor EXCEPT ![c] = e.seq]
       /\ finished' = [finished EXCEPT ![c] = e.type \in EndTypes]
       /\ handler' = [handler EXCEPT ![c] = IF e.type \in EndTypes THEN "returning" ELSE @]
    /\ UNCHANGED <<managerVars, sessionVars, logVars, subscribers, watching, losses>>

\* The channel is closed and drained.
StreamClosed(c) ==
    /\ handler[c] = "streaming"
    /\ stream[c].buf = <<>> /\ ~stream[c].open
    /\ handler' = [handler EXCEPT ![c] = "returning"]
    /\ UNCHANGED <<managerVars, sessionVars, logVars, feedVars, watching, cursor, finished, losses>>

\* The connection is lost: a write fails or the request's context ends.
LoseConnection(c) ==
    /\ handler[c] = "streaming"
    /\ losses < MaxLosses
    /\ losses' = losses + 1
    /\ handler' = [handler EXCEPT ![c] = "returning"]
    /\ UNCHANGED <<managerVars, sessionVars, logVars, feedVars, watching, cursor, finished>>

\* The deferred unsubscribe of the handler.  It takes the mutex even when the
\* session has already dropped the channel.
Unsubscribe(c) ==
    /\ handler[c] = "returning"
    /\ ~Locked(watching[c])
    /\ subscribers' = [subscribers EXCEPT ![watching[c]] = @ \ {c}]
    /\ handler' = [handler EXCEPT ![c] = "idle"]
    /\ stream' = [stream EXCEPT ![c] = NoStream]
    /\ UNCHANGED <<managerVars, sessionVars, logVars, watching, cursor, finished, losses>>

-----------------------------------------------------------------------------
CreateStep(s)  == Acquire(s) \/ Register(s) \/ ReleaseRefused(s)
ExecuteStep(s) == Start(s) \/ Record(s) \/ EmitFinding(s) \/ EmitEnd(s) \/ Seal(s) \/ Release(s)
RunnerStep(s)  == Deadline(s) \/ Progress(s) \/ Return(s)
CancelStep(s)  == Cancel(s) \/ CancelReturns(s)
CloseStep      == CloseBegin \/ CloseCancels \/ \E s \in Sessions : CloseVisit(s)
ClientStep(c)  == \/ \E s \in Sessions : Subscribe(c, s)
                  \/ Write(c) \/ StreamClosed(c) \/ LoseConnection(c) \/ Unsubscribe(c)

Next ==
    \/ \E s \in Sessions : CreateStep(s) \/ ExecuteStep(s) \/ RunnerStep(s) \/ CancelStep(s)
    \/ CloseStep
    \/ \E c \in Clients : ClientStep(c)

Spec == Init /\ [][Next]_vars

(* A goroutine that can run does.  The runner is only assumed to return     *)
(* once its context has ended (every probe waits on it), and the timer to   *)
(* fire.  An EventSource in use reads its stream and reconnects.  Nobody is *)
(* obliged to create, cancel, close, or open a first stream.                *)
Fairness ==
    /\ \A s \in Sessions :
         /\ WF_vars(Register(s) \/ ReleaseRefused(s))
         /\ WF_vars(ExecuteStep(s))
         /\ WF_vars(Deadline(s))
         /\ WF_vars(ctxErr[s] # "nil" /\ Return(s))
         /\ WF_vars(CancelReturns(s))
         /\ WF_vars(CloseVisit(s))
    /\ WF_vars(CloseCancels)
    /\ \A c \in Clients :
         /\ WF_vars(Write(c) \/ StreamClosed(c))
         /\ WF_vars(Unsubscribe(c))
         /\ WF_vars(\E s \in Sessions : watching[c] = s /\ Subscribe(c, s))

FairSpec == Spec /\ Fairness

-----------------------------------------------------------------------------
(* Properties.                                                             *)

ManagerTyped ==
    /\ closed \in BOOLEAN
    /\ capacity \in Nat
    /\ closeList \subseteq Sessions
    /\ closeAt \in Sessions \cup {NoSession}

SessionTyped ==
    /\ pc \in [Sessions -> PCs]
    /\ state \in [Sessions -> States]
    /\ cancelRequested \in [Sessions -> BOOLEAN]
    /\ cancelling \subseteq Sessions
    /\ ctxErr \in [Sessions -> {"nil", "canceled", "deadline"}]
    /\ result \in [Sessions -> Result]
    /\ report \in [Sessions -> Statuses \cup {"nil", "none"}]
    /\ done \in [Sessions -> BOOLEAN]

FeedTyped ==
    /\ events \in [Sessions -> Seq(Event)]
    /\ nextSequence \in [Sessions -> Nat]
    /\ subscribers \in [Sessions -> SUBSET Clients]
    /\ stream \in [Clients -> Stream]

ClientTyped ==
    /\ watching \in [Clients -> Sessions \cup {NoSession}]
    /\ handler \in [Clients -> {"idle", "streaming", "returning"}]
    /\ cursor \in [Clients -> Nat]
    /\ finished \in [Clients -> BOOLEAN]
    /\ losses \in Nat

\* Every variable of the manager, of its sessions and of its clients has its type.
TypeOK == ManagerTyped /\ SessionTyped /\ FeedTyped /\ ClientTyped

\* The capacity channel holds one token for every Create or execute that has
\* taken a slot and not returned it, on every path of both, ErrClosed and
\* panics included: no slot leaks and none is returned twice.
SlotAccounting ==
    /\ capacity = Cardinality({s \in Sessions : HoldsSlot(s)})
    /\ capacity <= MaxConcurrent

\* A session that Close did not copy was never admitted: once Close has
\* visited its list, every session that is not terminal has been asked to stop.
ClosedMeansCancelled ==
    closed => \A s \in Sessions :
        Registered(s) /\ s \notin closeList => Terminal(state[s]) \/ cancelRequested[s]

\* Cancel and Close decide the outcome exactly when they are accepted: a
\* terminal session is cancelled if and only if it was asked to stop before
\* execute recorded its result.
CancelHonoured ==
    \A s \in Sessions :
        Terminal(state[s]) => (state[s] = "cancelled" <=> cancelRequested[s])

\* What a reader holding the mutex sees of a session is consistent: a report
\* is present, done is closed and the last event is the terminal one, of the
\* type the state calls for, exactly when the state is terminal; and a
\* session that failed never carries a report that claims completeness.
SnapshotCoherent ==
    \A s \in Sessions : Registered(s) /\ ~Locked(s) =>
        /\ Terminal(state[s]) <=> report[s] # "nil"
        /\ Terminal(state[s]) <=> done[s]
        /\ \A i \in 1..Len(events[s]) :
             events[s][i].type \in EndTypes <=> i = Len(events[s]) /\ Terminal(state[s])
        /\ Terminal(state[s]) => /\ events[s] # <<>>
                                 /\ events[s][Len(events[s])].type = EndType(s)
        /\ state[s] = "failed" => report[s] # "complete"

\* The history is the last events of the session, numbered without a gap, and
\* no longer than its bound.
HistoryContiguous ==
    \A s \in Sessions :
        /\ Len(events[s]) <= MaxEventHistory
        /\ Len(events[s]) <= nextSequence[s]
        /\ \A i \in 1..Len(events[s]) : events[s][i].seq = Forgotten(s) + i
        /\ \A after \in 0..(nextSequence[s] + 1) :
             Replay(s, after) = SelectSeq(events[s], LAMBDA e : e.seq > after)

\* The channel of a client: its events are consecutive; as long as it is
\* registered the next event of the session continues them; and the first
\* continues what the client has, unless the history had forgotten that.
StreamContiguous ==
    \A c \in Clients : handler[c] # "idle" =>
        LET s   == watching[c]
            buf == stream[c].buf
        IN
        /\ \A i \in 1..(Len(buf) - 1) : buf[i + 1].seq = buf[i].seq + 1
        /\ c \in subscribers[s] =>
             nextSequence[s] = IF buf = <<>> THEN cursor[c] ELSE buf[Len(buf)].seq
        /\ buf # <<>> /\ ~finished[c] =>
             /\ cursor[c] < buf[1].seq
             /\ buf[1].seq \in {cursor[c] + 1} \cup 1..(Forgotten(s) + 1)

\* No send of Subscribe's replay can block, which would be under the mutex,
\* and none of emitLocked overflows the channel.
BufferBounded ==
    \A c \in Clients : Len(stream[c].buf) <= stream[c].cap

\* An open channel is one the session still feeds: a channel that was dropped,
\* or whose session ended, is closed, and a session never sends on the channel
\* of a handler that has gone or of a session that ended.
OpenIffRegistered ==
    \A c \in Clients, s \in Sessions :
        c \in subscribers[s] <=> stream[c].open /\ watching[c] = s

\* Nothing a client may have read of a terminal session changes afterwards.
TerminalIsFinal ==
    [][\A s \in Sessions : done[s] =>
         UNCHANGED <<state[s], report[s], cancelRequested[s], events[s], done[s]>>]_vars

\* A client never misses an event that the history still has when it gets the
\* next one, through drops, connection losses and reconnects.
NoSilentGap ==
    [][\A c \in Clients : cursor'[c] # cursor[c] =>
         \/ cursor'[c] = cursor[c] + 1
         \/ cursor[c] + 1 <= Forgotten(watching[c]) /\ cursor'[c] > cursor[c]]_vars

\* A session as a job of JobAdmission: it ends when execute records its state.
Phase(s) ==
    CASE pc[s] = "idle"     -> "none"
      [] pc[s] = "acquired" -> "pending"
      [] pc[s] = "refused"  -> "refusing"
      [] pc[s] = "rejected" -> "refused"
      [] pc[s] \in {"spawned", "running", "returned"} -> "active"
      [] pc[s] \in {"recording", "sealing", "ended"} ->
           IF state[s] = "cancelled" THEN "cancelled" ELSE "done"
      [] pc[s] = "released" -> "freed"

Admission == INSTANCE JobAdmission WITH
    Jobs  <- Sessions,
    phase <- [s \in Sessions |-> Phase(s)],
    asked <- {s \in Sessions : cancelRequested[s]},
    shut  <- closed

\* The session manager keeps the promise of JobAdmission: the counter of
\* tokens, the closed flag read under one mutex and the cancellation flag
\* under another act together like the atomic steps stated there.
ImplementsAdmission == Admission!ASpec

\* However its runner uses its context, as long as it returns after the context
\* has ended, every admitted session ends and gives its slot back, and so does
\* every call that Close turned away: the manager drains.
SlotsReturn == <>[](capacity = 0)

\* A browser that stays on a session sees its terminal event, however often it
\* is dropped as a slow subscriber and however its connections are lost.
WatcherSeesEnd ==
    \A c \in Clients : (watching[c] # NoSession) ~> finished[c]
=============================================================================
