---------------------------- MODULE BatchManager ----------------------------
(***************************************************************************)
(* The validation batch manager (internal/batch/manager.go): a batch runs  *)
(* the entries of a plan on a pool of workers that drain one closed        *)
(* channel of indices, while Cancel and Close may intervene and every      *)
(* entry has its own deadline.                                             *)
(*                                                                         *)
(* Every critical section of managedBatch.mu and of Manager.mu is one      *)
(* action; the cancel function is called after the mutex is released.      *)
(***************************************************************************)
EXTENDS Integers, FiniteSets

CONSTANTS
    Batches,         \* the Start calls; an admitted call is its batch
    NoBatch,         \* not a batch
    MaxConcurrentBatches,
    Size,            \* number of entries of the plan of each batch, at least one
    Unsupported,     \* the entries of it that no target could be made for
    Requested,       \* Plan.Concurrency as the request gave it
    MaxConcurrency,  \* Options.MaxConcurrency
    MaxTimeouts      \* bound: entry deadlines that expire

ASSUME BatchAssumption ==
    /\ IsFiniteSet(Batches)
    /\ NoBatch \notin Batches
    /\ MaxConcurrentBatches \in Nat \ {0}
    /\ Size \in [Batches -> Nat \ {0}]
    /\ Unsupported \in [Batches -> SUBSET Nat]
    /\ \A b \in Batches : Unsupported[b] \subseteq 1..Size[b]
    /\ Requested \in Int
    /\ MaxConcurrency \in Nat \ {0}
    /\ MaxTimeouts \in Nat

VARIABLES
    closed,           \* Manager.closed
    capacity,         \* tokens in Manager.capacity
    closeList,        \* batches Close has copied and not yet visited
    closeAt,          \* the batch whose cancel() Close is about to call
    pc,               \* where Start, then execute, of a batch stands
    state,            \* managedBatch.state
    cancelRequested,  \* managedBatch.cancelRequested
    cancelling,       \* batches some Cancel call has marked, cancel() pending
    ctxDone,          \* whether managedBatch.ctx is cancelled
    results,          \* managedBatch.results
    summary,          \* managedBatch.summary
    nextJob,          \* index the jobs channel delivers next
    worker,           \* the workers of a batch
    done,             \* whether managedBatch.done is closed
    timeouts          \* entry deadlines that have expired

managerVars == <<closed, capacity, closeList, closeAt>>
requestVars == <<cancelRequested, cancelling>>
workVars    == <<results, summary, nextJob, worker, timeouts>>
vars == <<managerVars, pc, state, requestVars, ctxDone, workVars, done>>

-----------------------------------------------------------------------------
Terminal(st)      == st \in {"completed", "cancelled", "failed"}
TerminalEntry(st) == st \in {"completed", "cancelled", "unsupported"}

EntryStates == {"queued", "running", "completed", "cancelled", "unsupported"}
Outcomes    == {"passed", "failed", "partial", "unsupported", "cancelled", "not_run"}
Entry       == [state : EntryStates, outcome : Outcomes, report : BOOLEAN]

\* resultForEntry, unsupportedResult and cancelledResult.
QueuedResult      == [state |-> "queued", outcome |-> "not_run", report |-> FALSE]
UnsupportedResult == [state |-> "unsupported", outcome |-> "unsupported", report |-> FALSE]
CancelledResult   == [state |-> "cancelled", outcome |-> "cancelled", report |-> FALSE]

\* normalizePlan, then execute: the pool never has more workers than entries.
PlanConcurrency ==
    IF Requested <= 0 \/ Requested > MaxConcurrency THEN MaxConcurrency ELSE Requested
Workers(b) == 1..(IF PlanConcurrency > Size[b] THEN Size[b] ELSE PlanConcurrency)
Idle    == [at |-> "idle", index |-> 0, timedOut |-> FALSE, result |-> QueuedResult]

\* summarize counts a timed-out entry by the state it is left in.
Summarize(rs) ==
    LET Count(P(_)) == Cardinality({i \in DOMAIN rs : P(rs[i])}) IN
    [queued    |-> Count(LAMBDA r : r.state = "queued"),
     running   |-> Count(LAMBDA r : r.state = "running"),
     completed |-> Count(LAMBDA r : TerminalEntry(r.state)),
     decided   |-> [o \in Outcomes \ {"not_run"} |-> Count(LAMBDA r : r.outcome = o)]]

Registered(b) == pc[b] \in {"spawned", "working", "ended", "released"}

Init ==
    /\ closed = FALSE
    /\ capacity = 0
    /\ closeList = {}
    /\ closeAt = NoBatch
    /\ pc = [b \in Batches |-> "idle"]
    /\ state = [b \in Batches |-> "none"]
    /\ cancelRequested = [b \in Batches |-> FALSE]
    /\ cancelling = {}
    /\ ctxDone = [b \in Batches |-> FALSE]
    /\ results = [b \in Batches |-> [i \in 1..Size[b] |-> QueuedResult]]
    /\ summary = [b \in Batches |-> Summarize([i \in 1..Size[b] |-> QueuedResult])]
    /\ nextJob = [b \in Batches |-> 1]
    /\ worker = [b \in Batches |-> [w \in Workers(b) |-> Idle]]
    /\ done = [b \in Batches |-> FALSE]
    /\ timeouts = 0

-----------------------------------------------------------------------------
(* Start.                                                                  *)

\* The non-blocking send on the capacity channel; ErrBusy changes nothing.
Acquire(b) ==
    /\ pc[b] = "idle"
    /\ capacity < MaxConcurrentBatches
    /\ capacity' = capacity + 1
    /\ pc' = [pc EXCEPT ![b] = "acquired"]
    /\ UNCHANGED <<closed, closeList, closeAt, state, requestVars, ctxDone, workVars, done>>

\* Faulty variant: a batch is published without looking at closed again.
Register_Unchecked(b) ==
    /\ pc[b] = "acquired"
    /\ pc' = [pc EXCEPT ![b] = "spawned"]
    /\ state' = [state EXCEPT ![b] = "starting"]
    /\ UNCHANGED <<managerVars, requestVars, ctxDone, workVars, done>>

\* The critical section of Start: refuse once closed, else publish the batch,
\* every entry queued, and start its goroutine.
Register(b) ==
    /\ pc[b] = "acquired"
    /\ pc' = [pc EXCEPT ![b] = IF closed THEN "refused" ELSE "spawned"]
    /\ state' = [state EXCEPT ![b] = IF closed THEN @ ELSE "starting"]
    /\ UNCHANGED <<managerVars, requestVars, ctxDone, workVars, done>>

ReleaseRefused(b) ==
    /\ pc[b] = "refused"
    /\ pc' = [pc EXCEPT ![b] = "rejected"]
    /\ capacity' = capacity - 1
    /\ UNCHANGED <<closed, closeList, closeAt, state, requestVars, ctxDone, workVars, done>>

-----------------------------------------------------------------------------
(* Cancel and Close.                                                       *)

\* Every state that is not terminal becomes cancelling.
MarkCancelled(b) ==
    IF Terminal(state[b])
    THEN UNCHANGED <<cancelRequested, state>>
    ELSE /\ cancelRequested' = [cancelRequested EXCEPT ![b] = TRUE]
         /\ state' = [state EXCEPT ![b] = "cancelling"]

Cancel(b) ==
    /\ Registered(b)
    /\ MarkCancelled(b)
    /\ cancelling' = IF Terminal(state[b]) THEN cancelling ELSE cancelling \cup {b}
    /\ UNCHANGED <<managerVars, pc, ctxDone, workVars, done>>

\* The cancel() of Cancel.
CancelReturns(b) ==
    /\ b \in cancelling
    /\ ctxDone' = [ctxDone EXCEPT ![b] = TRUE]
    /\ cancelling' = cancelling \ {b}
    /\ UNCHANGED <<managerVars, pc, state, cancelRequested, workVars, done>>

CloseBegin ==
    /\ ~closed
    /\ closed' = TRUE
    /\ closeList' = {b \in Batches : Registered(b)}
    /\ UNCHANGED <<capacity, closeAt, pc, state, requestVars, ctxDone, workVars, done>>

CloseVisit(b) ==
    /\ closeAt = NoBatch
    /\ b \in closeList
    /\ closeList' = closeList \ {b}
    /\ MarkCancelled(b)
    /\ closeAt' = IF Terminal(state[b]) THEN NoBatch ELSE b
    /\ UNCHANGED <<closed, capacity, pc, cancelling, ctxDone, workVars, done>>

\* The cancel() of Close.
CloseCancels ==
    /\ closeAt # NoBatch
    /\ ctxDone' = [ctxDone EXCEPT ![closeAt] = TRUE]
    /\ closeAt' = NoBatch
    /\ UNCHANGED <<closed, capacity, closeList, pc, state, requestVars, workVars, done>>

-----------------------------------------------------------------------------
(* execute and its workers.                                                *)

\* Faulty variant: execute gives up on a batch cancelled before it began.
Begin_OnlyStarting(b) ==
    /\ pc[b] = "spawned" /\ state[b] = "starting"
    /\ pc' = [pc EXCEPT ![b] = "working"]
    /\ state' = [state EXCEPT ![b] = "running"]
    /\ UNCHANGED <<managerVars, requestVars, ctxDone, workVars, done>>

\* execute moves a starting batch to running and fills the jobs channel.
Begin(b) ==
    /\ pc[b] = "spawned"
    /\ pc' = [pc EXCEPT ![b] = "working"]
    /\ state' = [state EXCEPT ![b] = IF @ = "starting" THEN "running" ELSE @]
    /\ UNCHANGED <<managerVars, requestVars, ctxDone, workVars, done>>

WorkerAt(b, w, place) == worker[b][w].at = place

\* A worker receives the next index from the closed, buffered jobs channel; an
\* unsupported entry is never run.
TakeJob(b, w) ==
    /\ pc[b] = "working"
    /\ WorkerAt(b, w, "idle")
    /\ nextJob[b] <= Size[b]
    /\ nextJob' = [nextJob EXCEPT ![b] = @ + 1]
    /\ worker' = [worker EXCEPT ![b][w] =
                    IF nextJob[b] \in Unsupported[b]
                    THEN [Idle EXCEPT !.at = "finishing", !.index = nextJob[b],
                                      !.result = UnsupportedResult]
                    ELSE [Idle EXCEPT !.at = "checking", !.index = nextJob[b]]]
    /\ UNCHANGED <<managerVars, pc, state, requestVars, ctxDone, results, summary,
                   timeouts, done>>

\* Faulty variant: a cancelled entry is skipped without a result.
Check_Skip(b, w) ==
    /\ WorkerAt(b, w, "checking")
    /\ worker' = [worker EXCEPT ![b][w] =
                    IF cancelRequested[b] \/ ctxDone[b] THEN Idle ELSE [@ EXCEPT !.at = "marking"]]
    /\ UNCHANGED <<managerVars, pc, state, requestVars, ctxDone, results, summary,
                   nextJob, timeouts, done>>

\* contextCancelled: an entry not yet started when the batch is cancelled is
\* recorded as cancelled.
Check(b, w) ==
    /\ WorkerAt(b, w, "checking")
    /\ worker' = [worker EXCEPT ![b][w] =
                    IF cancelRequested[b] \/ ctxDone[b]
                    THEN [@ EXCEPT !.at = "finishing", !.result = CancelledResult]
                    ELSE [@ EXCEPT !.at = "marking"]]
    /\ UNCHANGED <<managerVars, pc, state, requestVars, ctxDone, results, summary,
                   nextJob, timeouts, done>>

\* The results of a batch change under its mutex, and the summary with them.
SetResult(b, i, r) ==
    /\ results' = [results EXCEPT ![b][i] = r]
    /\ summary' = [summary EXCEPT ![b] = Summarize([results[b] EXCEPT ![i] = r])]

MarkRunning(b, w) ==
    LET i == worker[b][w].index IN
    /\ WorkerAt(b, w, "marking")
    /\ worker' = [worker EXCEPT ![b][w].at = "running"]
    /\ IF TerminalEntry(results[b][i].state)
       THEN UNCHANGED <<results, summary>>
       ELSE SetResult(b, i, [results[b][i] EXCEPT !.state = "running"])
    /\ UNCHANGED <<managerVars, pc, state, requestVars, ctxDone, nextJob, timeouts, done>>

\* The timer of the entry's context, which only ends a context still live.
ItemDeadline(b, w) ==
    /\ WorkerAt(b, w, "running")
    /\ ~ctxDone[b] /\ ~worker[b][w].timedOut
    /\ timeouts < MaxTimeouts
    /\ timeouts' = timeouts + 1
    /\ worker' = [worker EXCEPT ![b][w].timedOut = TRUE]
    /\ UNCHANGED <<managerVars, pc, state, requestVars, ctxDone, results, summary, nextJob, done>>

\* Faulty variant: a report without a verdict on the destination counts as not run.
ClassifyOutcome_NoVerdict(status, destination) ==
    IF status = "incomplete" THEN "partial"
    ELSE IF destination = "reachable" THEN "passed"
    ELSE IF destination = "failing" THEN "failed" ELSE "not_run"

\* classifyOutcome.  The destination is reachable; failing (unreachable or
\* degraded); or undecided, and then its failure reason is unsupported,
\* another concrete one, or none.
Destinations == {"reachable", "failing", "unsupported", "reason", "none"}
ClassifyOutcome(status, destination) ==
    CASE status \in {"error", "unknown"} -> IF destination = "failing" THEN "failed" ELSE "partial"
      [] status = "incomplete"           -> "partial"
      [] status = "complete" ->
           CASE destination = "reachable"             -> "passed"
             [] destination \in {"failing", "reason"} -> "failed"
             [] destination = "unsupported"           -> "unsupported"
             [] destination = "none"                  -> "partial"

\* What runEntry makes of a run.  The report is attached on every path.  The
\* timeout path leaves the entry in the state resultForEntry gave it.
EntryResult(b, w, status, destination, panicked) ==
    IF ctxDone[b] /\ ~worker[b][w].timedOut /\ ~panicked
    THEN [state |-> "cancelled", outcome |-> "cancelled", report |-> TRUE]
    ELSE IF worker[b][w].timedOut /\ status = "complete"
    THEN [state |-> "queued", outcome |-> "partial", report |-> TRUE]
    ELSE [state |-> "completed", outcome |-> ClassifyOutcome(status, destination), report |-> TRUE]

\* The runner returns, or panics and is given an error report.
RunReturns(b, w) ==
    /\ WorkerAt(b, w, "running")
    /\ \E status \in {"complete", "incomplete", "error", "unknown"},
          destination \in Destinations, panicked \in BOOLEAN :
         /\ panicked => status = "error" /\ destination = "none"
         /\ worker' = [worker EXCEPT ![b][w] =
                         [@ EXCEPT !.at = "finishing",
                                   !.result = EntryResult(b, w, status, destination, panicked)]]
    /\ UNCHANGED <<managerVars, pc, state, requestVars, ctxDone, results, summary,
                   nextJob, timeouts, done>>

Finish(b, w) ==
    /\ WorkerAt(b, w, "finishing")
    /\ SetResult(b, worker[b][w].index, worker[b][w].result)
    /\ worker' = [worker EXCEPT ![b][w] = Idle]
    /\ UNCHANGED <<managerVars, pc, state, requestVars, ctxDone, nextJob, timeouts, done>>

\* workers.Wait: the channel is empty and every worker has left its loop.
Drained(b) == nextJob[b] > Size[b] /\ \A w \in Workers(b) : worker[b][w].at = "idle"

EndState(b) == IF cancelRequested[b] \/ ctxDone[b] THEN "cancelled" ELSE "completed"

\* The last critical section of execute.
Complete(b) ==
    /\ pc[b] = "working"
    /\ Drained(b)
    /\ pc' = [pc EXCEPT ![b] = "ended"]
    /\ state' = [state EXCEPT ![b] = EndState(b)]
    /\ summary' = [summary EXCEPT ![b] = Summarize(results[b])]
    /\ done' = [done EXCEPT ![b] = TRUE]
    /\ UNCHANGED <<managerVars, requestVars, ctxDone, results, nextJob, worker, timeouts>>

\* The deferred calls of execute.
Release(b) ==
    /\ pc[b] = "ended"
    /\ pc' = [pc EXCEPT ![b] = "released"]
    /\ ctxDone' = [ctxDone EXCEPT ![b] = TRUE]
    /\ capacity' = capacity - 1
    /\ UNCHANGED <<closed, closeList, closeAt, state, requestVars, workVars, done>>

-----------------------------------------------------------------------------
WorkerStep(b, w) ==
    TakeJob(b, w) \/ Check(b, w) \/ MarkRunning(b, w) \/ Finish(b, w)
StartStep(b)   == Register(b) \/ ReleaseRefused(b)
ExecuteStep(b) == Begin(b) \/ Complete(b) \/ Release(b)

Next ==
    \/ \E b \in Batches :
         \/ Acquire(b) \/ StartStep(b) \/ ExecuteStep(b)
         \/ Cancel(b) \/ CancelReturns(b) \/ CloseVisit(b)
         \/ \E w \in Workers(b) : WorkerStep(b, w) \/ ItemDeadline(b, w) \/ RunReturns(b, w)
    \/ CloseBegin \/ CloseCancels

Spec == Init /\ [][Next]_vars

(* Some goroutine of a batch that can run does, and the canonical runner     *)
(* returns: every probe of it is bounded by a timeout of its own.  One       *)
(* condition for all is enough, since none of them repeats itself.  Nobody   *)
(* has to start, cancel or close, nor to finish a Cancel or a Close.         *)
Running ==
    \E b \in Batches :
        \/ StartStep(b) \/ ExecuteStep(b)
        \/ \E w \in Workers(b) : WorkerStep(b, w) \/ RunReturns(b, w)

Fairness == WF_vars(Running)

FairSpec == Spec /\ Fairness

-----------------------------------------------------------------------------
(* Properties.                                                             *)

\* Every variable of the manager, of its batches and of their workers has its type.
TypeOK ==
    /\ closed \in BOOLEAN
    /\ capacity \in Nat
    /\ closeList \subseteq Batches
    /\ closeAt \in Batches \cup {NoBatch}
    /\ pc \in [Batches -> {"idle", "acquired", "refused", "rejected", "spawned",
                           "working", "ended", "released"}]
    /\ state \in [Batches -> {"none", "starting", "running", "cancelling",
                              "completed", "cancelled", "failed"}]
    /\ cancelRequested \in [Batches -> BOOLEAN]
    /\ cancelling \subseteq Batches
    /\ ctxDone \in [Batches -> BOOLEAN]
    /\ \A b \in Batches :
         /\ results[b] \in [1..Size[b] -> Entry]
         /\ nextJob[b] \in 1..(Size[b] + 1)
         /\ worker[b] \in [Workers(b) ->
                [at : {"idle", "checking", "marking", "running", "finishing"},
                 index : 0..Size[b], timedOut : BOOLEAN, result : Entry]]
    /\ done \in [Batches -> BOOLEAN]
    /\ timeouts \in Nat

\* No entry is lost and none is run twice: one not yet received is untouched,
\* one received is in the hands of exactly one worker or has its final result.
EachEntryOnce ==
    \A b \in Batches : Registered(b) => \A i \in 1..Size[b] :
        LET holders == {w \in Workers(b) : worker[b][w].at # "idle" /\ worker[b][w].index = i}
        IN CASE i >= nextJob[b] -> holders = {} /\ results[b][i] = QueuedResult
             [] i < nextJob[b]  ->
                  \/ /\ Cardinality(holders) = 1
                     /\ results[b][i].outcome = "not_run"
                  \/ /\ holders = {}
                     /\ results[b][i].outcome # "not_run"

\* When done closes every entry has an outcome, none is shown as running, the
\* counts of the summary add up to the plan, and a batch that is not cancelled
\* has no cancelled entry.
DecidedWhenDone ==
    \A b \in Batches : done[b] =>
        /\ \A i \in 1..Size[b] : results[b][i].outcome # "not_run" /\ results[b][i].state # "running"
        /\ summary[b] = Summarize(results[b])
        /\ state[b] = "completed" => summary[b].decided["cancelled"] = 0

\* An outcome, once given, stays, and so does everything of a batch that is done.
OutcomeIsFinal ==
    [][\A b \in Batches :
         /\ \A i \in 1..Size[b] :
              results[b][i].outcome # "not_run" => results'[b][i] = results[b][i]
         /\ done[b] => UNCHANGED <<state[b], results[b], summary[b], done[b], cancelRequested[b]>>]_vars

\* Every admitted batch ends and gives its slot back, with or without Cancel and
\* Close, and so does every call that Close turned away: the manager drains.
SlotsReturn == <>[](capacity = 0)

\* A batch as a job of JobAdmission: it ends when execute records its state.
Phase(b) ==
    CASE pc[b] = "idle"     -> "none"
      [] pc[b] = "acquired" -> "pending"
      [] pc[b] = "refused"  -> "refusing"
      [] pc[b] = "rejected" -> "refused"
      [] pc[b] \in {"spawned", "working"} -> "active"
      [] pc[b] = "ended"    -> IF state[b] = "cancelled" THEN "cancelled" ELSE "done"
      [] pc[b] = "released" -> "freed"

Admission == INSTANCE JobAdmission WITH
    Jobs  <- Batches,
    MaxConcurrent <- MaxConcurrentBatches,
    phase <- [b \in Batches |-> Phase(b)],
    asked <- {b \in Batches : cancelRequested[b]},
    shut  <- closed

\* The batch manager keeps the promise of JobAdmission.
ImplementsAdmission == Admission!ASpec

\* EntryState is "the lifecycle of one plan entry": when the batch is done,
\* every entry has reached a terminal state of it.
EntriesSettle ==
    \A b \in Batches : done[b] => \A i \in 1..Size[b] : TerminalEntry(results[b][i].state)

\* "Unsupported/cancelled entries have no active report" (EndpointReport).
CancelledHasNoReport ==
    \A b \in Batches : \A i \in 1..Size[b] :
        results[b][i].state \in {"unsupported", "cancelled"} => ~results[b][i].report
=============================================================================
