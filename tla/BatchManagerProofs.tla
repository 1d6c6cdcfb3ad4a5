------------------------- MODULE BatchManagerProofs -------------------------
(***************************************************************************)
(* Proofs about BatchManager, for any batches, plans, pools and bounds.    *)
(***************************************************************************)
EXTENDS BatchManager, FiniteSetTheorems, TLAPS

-----------------------------------------------------------------------------
(* The work of one batch b: its results rs, the next index nj, its workers  *)
(* ws, and whether somebody has asked it to stop.                           *)
Places == {"idle", "checking", "marking", "running", "finishing"}

Hand(b) == [at : Places, index : 0..Size[b], timedOut : BOOLEAN, result : Entry]

Busy(ws, w) == ws[w].at # "idle"

WorkTyped(b, rs, nj, ws) ==
    /\ rs \in [1..Size[b] -> Entry]
    /\ nj \in 1..(Size[b] + 1)
    /\ ws \in [Workers(b) -> Hand(b)]

\* What has not been received is untouched.
Untouched(b, rs, nj) == \A i \in 1..Size[b] : i >= nj => rs[i] = QueuedResult

\* An entry without an outcome that was received is in some worker's hands.
Held(b, rs, nj, ws) ==
    \A i \in 1..Size[b] : i < nj /\ rs[i].outcome = "not_run" =>
        \E w \in Workers(b) : Busy(ws, w) /\ ws[w].index = i

\* A worker holds an entry that was received and has no outcome yet.
Holds(b, rs, nj, ws) ==
    \A w \in Workers(b) : Busy(ws, w) =>
        ws[w].index \in 1..(nj - 1) /\ rs[ws[w].index].outcome = "not_run"

\* No two workers hold the same entry.
Apart(b, ws) ==
    \A v, w \in Workers(b) : Busy(ws, v) /\ Busy(ws, w) /\ ws[v].index = ws[w].index => v = w

\* A result is decided; it is only that of a cancelled entry if there was a request to stop.
Decided(r, stopped) ==
    /\ r.outcome # "not_run" /\ r.state # "running"
    /\ r.outcome = "cancelled" => stopped

Outcome(b, rs, ws, stopped) ==
    /\ \A i \in 1..Size[b] : rs[i].outcome # "not_run" => Decided(rs[i], stopped)
    /\ \A w \in Workers(b) : ws[w].at = "finishing" => Decided(ws[w].result, stopped)

Work(b, rs, nj, ws, stopped) ==
    /\ WorkTyped(b, rs, nj, ws)
    /\ Untouched(b, rs, nj)
    /\ Held(b, rs, nj, ws)
    /\ Holds(b, rs, nj, ws)
    /\ Apart(b, ws)
    /\ Outcome(b, rs, ws, stopped)

\* The first results and workers of a batch.
LEMMA WorkBegins ==
    ASSUME NEW b \in Batches
    PROVE  Work(b, [i \in 1..Size[b] |-> QueuedResult], 1, [w \in Workers(b) |-> Idle], FALSE)
<1>. DEFINE rs == [i \in 1..Size[b] |-> QueuedResult]
            ws == [w \in Workers(b) |-> Idle]
<1>1. Size[b] \in Nat \ {0}
    BY BatchAssumption
<1>2. QueuedResult \in Entry /\ Idle \in Hand(b)
    BY <1>1 DEF Hand, Places, Idle, QueuedResult, Entry, EntryStates, Outcomes
<1>3. WorkTyped(b, rs, 1, ws)
    BY <1>1, <1>2 DEF WorkTyped
<1>4. \A w \in Workers(b) : ws[w].at = "idle"
    BY DEF Idle
<1>5. \A i \in 1..Size[b] : rs[i] = QueuedResult /\ rs[i].outcome = "not_run"
    BY DEF QueuedResult
<1>. HIDE DEF rs, ws
<1>6. Untouched(b, rs, 1) /\ Held(b, rs, 1, ws)
    BY <1>1, <1>5 DEF Untouched, Held
<1>7. Holds(b, rs, 1, ws) /\ Apart(b, ws) /\ Outcome(b, rs, ws, FALSE)
    BY <1>4, <1>5 DEF Holds, Apart, Outcome, Busy
<1>. QED
    BY <1>3, <1>6, <1>7 DEF Work, rs, ws

\* An idle worker receives the next entry.
LEMMA WorkTaken ==
    ASSUME NEW b \in Batches, NEW rs, NEW nj, NEW ws, NEW stopped \in BOOLEAN,
           Work(b, rs, nj, ws, stopped),
           NEW w \in Workers(b), ~Busy(ws, w), nj <= Size[b],
           NEW h \in Hand(b), h.at # "idle", h.index = nj,
           h.at = "finishing" => Decided(h.result, stopped)
    PROVE  Work(b, rs, nj + 1, [ws EXCEPT ![w] = h], stopped)
<1>. DEFINE vs == [ws EXCEPT ![w] = h]
<1>0. Size[b] \in Nat \ {0} /\ nj \in 1..Size[b]
    BY BatchAssumption DEF Work, WorkTyped
<1>1. WorkTyped(b, rs, nj + 1, vs)
    BY <1>0 DEF Work, WorkTyped
<1>2. /\ vs[w] = h
      /\ \A v \in Workers(b) \ {w} : vs[v] = ws[v]
    BY DEF Work, WorkTyped
<1>. HIDE DEF vs
<1>3. Untouched(b, rs, nj + 1)
    BY <1>0 DEF Work, Untouched
<1>4. Held(b, rs, nj + 1, vs)
    <2>. SUFFICES ASSUME NEW i \in 1..Size[b], i < nj + 1, rs[i].outcome = "not_run"
                  PROVE  \E v \in Workers(b) : Busy(vs, v) /\ vs[v].index = i
        BY DEF Held
    <2>1. CASE i = nj
        BY <2>1, <1>2 DEF Busy
    <2>2. CASE i < nj
        <3>1. PICK v \in Workers(b) : Busy(ws, v) /\ ws[v].index = i
            BY <2>2 DEF Work, Held
        <3>. QED
            BY <3>1, <1>2 DEF Busy
    <2>. QED
        BY <1>0, <2>1, <2>2
<1>5. Holds(b, rs, nj + 1, vs)
    <2>. SUFFICES ASSUME NEW v \in Workers(b), Busy(vs, v)
                  PROVE  vs[v].index \in 1..nj /\ rs[vs[v].index].outcome = "not_run"
        BY <1>0 DEF Holds
    <2>1. CASE v = w
        BY <2>1, <1>0, <1>2 DEF Work, Untouched, QueuedResult
    <2>2. CASE v # w
        BY <2>2, <1>0, <1>2 DEF Work, Holds, Busy
    <2>. QED
        BY <2>1, <2>2
<1>6. Apart(b, vs)
    <2>. SUFFICES ASSUME NEW u \in Workers(b), NEW v \in Workers(b), u # v,
                         Busy(vs, u), Busy(vs, v), vs[u].index = vs[v].index
                  PROVE  FALSE
        BY DEF Apart
    <2>1. CASE u = w
        BY <2>1, <1>0, <1>2 DEF Work, Holds, Busy
    <2>2. CASE v = w
        BY <2>2, <1>0, <1>2 DEF Work, Holds, Busy
    <2>3. CASE u # w /\ v # w
        BY <2>3, <1>2 DEF Work, Apart, Busy
    <2>. QED
        BY <2>1, <2>2, <2>3
<1>7. Outcome(b, rs, vs, stopped)
    BY <1>2 DEF Work, Outcome
<1>. QED
    BY <1>1, <1>3, <1>4, <1>5, <1>6, <1>7 DEF Work, vs

\* A busy worker goes on with the entry it holds.
LEMMA WorkMoved ==
    ASSUME NEW b \in Batches, NEW rs, NEW nj, NEW ws, NEW stopped \in BOOLEAN,
           Work(b, rs, nj, ws, stopped),
           NEW w \in Workers(b), Busy(ws, w),
           NEW h \in Hand(b), h.at # "idle", h.index = ws[w].index,
           h.at = "finishing" => Decided(h.result, stopped)
    PROVE  Work(b, rs, nj, [ws EXCEPT ![w] = h], stopped)
<1>. DEFINE vs == [ws EXCEPT ![w] = h]
<1>1. WorkTyped(b, rs, nj, vs)
    BY DEF Work, WorkTyped
<1>2. vs[w] = h /\ \A v \in Workers(b) \ {w} : vs[v] = ws[v]
    BY DEF Work, WorkTyped
<1>. HIDE DEF vs
<1>3. \A v \in Workers(b) : vs[v].index = ws[v].index /\ (Busy(vs, v) <=> Busy(ws, v))
    BY <1>2 DEF Busy
<1>4. Held(b, rs, nj, vs)
    BY <1>3 DEF Work, Held
<1>5. Holds(b, rs, nj, vs)
    BY <1>3 DEF Work, Holds
<1>6. Apart(b, vs)
    BY <1>3 DEF Work, Apart
<1>7. Outcome(b, rs, vs, stopped)
    BY <1>2 DEF Work, Outcome
<1>. QED
    BY <1>1, <1>4, <1>5, <1>6, <1>7 DEF Work, vs

\* The entry in some worker's hands is shown as running.
LEMMA WorkMarked ==
    ASSUME NEW b \in Batches, NEW rs, NEW nj, NEW ws, NEW stopped \in BOOLEAN,
           Work(b, rs, nj, ws, stopped),
           NEW w \in Workers(b), Busy(ws, w)
    PROVE  Work(b, [rs EXCEPT ![ws[w].index] = [rs[ws[w].index] EXCEPT !.state = "running"]],
                nj, ws, stopped)
<1>. DEFINE at == ws[w].index
            r  == [rs[at] EXCEPT !.state = "running"]
            qs == [rs EXCEPT ![at] = r]
<1>1. Size[b] \in Nat \ {0} /\ nj \in 1..(Size[b] + 1)
    BY BatchAssumption DEF Work, WorkTyped
<1>2. at \in 1..Size[b] /\ at < nj /\ rs[at].outcome = "not_run"
    BY <1>1 DEF Work, Holds
<1>3. r \in Entry /\ r.outcome = "not_run"
    BY <1>2 DEF Work, WorkTyped, Entry, EntryStates
<1>. HIDE DEF at, r
<1>4. WorkTyped(b, qs, nj, ws)
    BY <1>3 DEF Work, WorkTyped
<1>5. qs[at] = r /\ \A i \in 1..Size[b] \ {at} : qs[i] = rs[i]
    BY <1>2 DEF Work, WorkTyped
<1>. HIDE DEF qs
<1>6. \A i \in 1..Size[b] : qs[i].outcome = rs[i].outcome
    BY <1>2, <1>3, <1>5
<1>7. Untouched(b, qs, nj)
    BY <1>1, <1>2, <1>5 DEF Work, Untouched
<1>8. Held(b, qs, nj, ws)
    BY <1>6 DEF Work, Held
<1>9. Holds(b, qs, nj, ws)
    <2>1. 1..(nj - 1) \subseteq 1..Size[b]
        BY <1>1
    <2>. QED
        BY <2>1, <1>6 DEF Work, Holds
<1>10. Outcome(b, qs, ws, stopped)
    BY <1>3, <1>5, <1>6 DEF Work, Outcome
<1>. QED
    BY <1>4, <1>7, <1>8, <1>9, <1>10 DEF Work, qs, r, at

\* A worker files its decided result and is idle again.
LEMMA WorkFiled ==
    ASSUME NEW b \in Batches, NEW rs, NEW nj, NEW ws, NEW stopped \in BOOLEAN,
           Work(b, rs, nj, ws, stopped),
           NEW w \in Workers(b), ws[w].at = "finishing"
    PROVE  Work(b, [rs EXCEPT ![ws[w].index] = ws[w].result], nj, [ws EXCEPT ![w] = Idle], stopped)
<1>. DEFINE at == ws[w].index
            r  == ws[w].result
            qs == [rs EXCEPT ![at] = r]
            vs == [ws EXCEPT ![w] = Idle]
<1>1. Size[b] \in Nat \ {0} /\ nj \in 1..(Size[b] + 1)
    BY BatchAssumption DEF Work, WorkTyped
<1>2. at \in 1..Size[b] /\ at < nj /\ Busy(ws, w)
    BY <1>1 DEF Work, Holds, Busy
<1>3. r \in Entry /\ Decided(r, stopped)
    BY DEF Work, WorkTyped, Hand, Outcome
<1>4. Idle \in Hand(b) /\ Idle.at = "idle"
    BY <1>1 DEF Hand, Places, Idle, QueuedResult, Entry, EntryStates, Outcomes
<1>5. /\ qs \in [1..Size[b] -> Entry] /\ qs[at] = r
      /\ \A i \in 1..Size[b] \ {at} : qs[i] = rs[i]
    BY <1>2, <1>3 DEF Work, WorkTyped
<1>6. /\ vs \in [Workers(b) -> Hand(b)] /\ ~Busy(vs, w)
      /\ \A v \in Workers(b) \ {w} : vs[v] = ws[v]
    BY <1>4 DEF Work, WorkTyped, Busy
<1>7. \A v \in Workers(b) : Busy(vs, v) => v # w /\ Busy(ws, v) /\ vs[v].index = ws[v].index
    BY <1>6 DEF Busy
<1>8. \A v \in Workers(b) : Busy(vs, v) => vs[v].index # at
    BY <1>2, <1>7 DEF Work, Apart
<1>. HIDE DEF at, r, qs, vs
<1>9. WorkTyped(b, qs, nj, vs)
    BY <1>5, <1>6 DEF Work, WorkTyped
<1>10. Untouched(b, qs, nj)
    BY <1>1, <1>2, <1>5 DEF Work, Untouched
<1>11. Held(b, qs, nj, vs)
    <2>. SUFFICES ASSUME NEW i \in 1..Size[b], i < nj, qs[i].outcome = "not_run"
                  PROVE  \E v \in Workers(b) : Busy(vs, v) /\ vs[v].index = i
        BY DEF Held
    <2>1. i # at /\ rs[i].outcome = "not_run"
        BY <1>3, <1>5 DEF Decided
    <2>2. PICK v \in Workers(b) : Busy(ws, v) /\ ws[v].index = i
        BY <2>1 DEF Work, Held
    <2>3. v # w
        BY <2>1, <2>2 DEF at
    <2>. QED
        BY <2>2, <2>3, <1>6 DEF Busy
<1>12. Holds(b, qs, nj, vs)
    <2>. SUFFICES ASSUME NEW v \in Workers(b), Busy(vs, v)
                  PROVE  vs[v].index \in 1..(nj - 1) /\ qs[vs[v].index].outcome = "not_run"
        BY DEF Holds
    <2>1. ws[v].index \in 1..(nj - 1) /\ rs[ws[v].index].outcome = "not_run"
        BY <1>7 DEF Work, Holds
    <2>2. 1..(nj - 1) \subseteq 1..Size[b]
        BY <1>1
    <2>. QED
        BY <2>1, <2>2, <1>5, <1>7, <1>8
<1>13. Apart(b, vs)
    BY <1>7 DEF Work, Apart
<1>14. Outcome(b, qs, vs, stopped)
    BY <1>3, <1>4, <1>5, <1>6 DEF Work, Outcome, Busy
<1>. QED
    BY <1>9, <1>10, <1>11, <1>12, <1>13, <1>14 DEF Work, qs, r, at, vs

\* A request to stop allows more, and forbids nothing of what was done.
LEMMA WorkStopped ==
    ASSUME NEW b \in Batches, NEW rs, NEW nj, NEW ws, NEW stopped, NEW now, stopped => now,
           Work(b, rs, nj, ws, stopped)
    PROVE  Work(b, rs, nj, ws, now)
BY DEF Work, Outcome, Decided

-----------------------------------------------------------------------------
(* The control of a batch: its goroutine, its state, its context and the    *)
(* calls that ask it to stop.                                               *)
PCs == {"idle", "acquired", "refused", "rejected", "spawned", "working", "ended", "released"}
States == {"none", "starting", "running", "cancelling", "completed", "cancelled", "failed"}

Over(b) == pc[b] \in {"ended", "released"}

ControlTyped ==
    /\ closed \in BOOLEAN
    /\ closeList \subseteq Batches
    /\ closeAt \in Batches \cup {NoBatch}
    /\ pc \in [Batches -> PCs]
    /\ state \in [Batches -> States]
    /\ cancelRequested \in [Batches -> BOOLEAN]
    /\ cancelling \subseteq Batches
    /\ ctxDone \in [Batches -> BOOLEAN]
    /\ done \in [Batches -> BOOLEAN]

\* The states that go with each place of Start and execute.
Staged(b) ==
    /\ ~Registered(b) => state[b] = "none"
    /\ pc[b] = "spawned" => state[b] \in {"starting", "cancelling"}
    /\ pc[b] = "working" => state[b] \in {"running", "cancelling"}
    /\ Over(b) => state[b] \in {"completed", "cancelled"}
    /\ done[b] <=> Over(b)

\* Only a published batch is asked to stop, its flag is set before its context
\* ends, and until execute is over its context ends for no other reason.
Asked(b) ==
    /\ cancelRequested[b] \/ ctxDone[b] \/ b \in closeList => Registered(b)
    /\ b \in cancelling \/ b = closeAt => cancelRequested[b]
    /\ ctxDone[b] /\ ~Over(b) => cancelRequested[b]

Control == ControlTyped /\ \A b \in Batches : Staged(b) /\ Asked(b)

controlVars == <<closed, closeList, closeAt, pc, state, requestVars, ctxDone, done>>

\* A step of a worker leaves the control of every batch alone.
ByWorker(b, w) == WorkerStep(b, w) \/ ItemDeadline(b, w) \/ RunReturns(b, w)

\* No step of a worker touches the life cycle of a batch.
LEMMA WorkerLeavesControl ==
    ASSUME NEW b, NEW w, ByWorker(b, w)
    PROVE  UNCHANGED <<controlVars, capacity>>
BY DEF ByWorker, WorkerStep, TakeJob, Check, MarkRunning, ItemDeadline, RunReturns, Finish,
   controlVars, managerVars, requestVars

\* The life cycles stay consistent as long as none of their variables changes.
LEMMA ControlKept ==
    ASSUME Control, UNCHANGED controlVars
    PROVE  Control'
BY DEF Control, ControlTyped, Staged, Asked, Over, Registered, controlVars, requestVars

\* An accepted request marks a batch that is not over; one that comes too late
\* changes nothing.
LEMMA MarkKeepsControl ==
    ASSUME Control, NEW b \in Batches, Registered(b), MarkCancelled(b), UNCHANGED <<pc, ctxDone, done>>
    PROVE  /\ state' \in [Batches -> States] /\ cancelRequested' \in [Batches -> BOOLEAN]
           /\ \A c \in Batches : Staged(c)' /\ (cancelRequested[c] => cancelRequested'[c])
           /\ \A c \in Batches : cancelRequested'[c] => Registered(c)
           /\ ~Terminal(state[b]) => cancelRequested'[b]
<1>1. CASE Terminal(state[b])
    BY <1>1 DEF Control, ControlTyped, Staged, Asked, Over, Registered, MarkCancelled
<1>2. CASE ~Terminal(state[b])
    <2>1. ~Over(b)
        BY <1>2 DEF Control, Staged, Terminal
    <2>2. /\ cancelRequested' = [cancelRequested EXCEPT ![b] = TRUE]
          /\ state' = [state EXCEPT ![b] = "cancelling"]
        BY <1>2 DEF MarkCancelled
    <2>. QED
        BY <1>2, <2>1, <2>2 DEF Control, ControlTyped, Staged, Asked, Over, Registered, States
<1>. QED
    BY <1>1, <1>2

\* Every step keeps the life cycles of all batches consistent.
LEMMA ControlStep ==
    ASSUME Control, [Next]_vars
    PROVE  Control'
<1>. USE DEF Control, ControlTyped, Staged, Asked, Over, Registered, PCs, States, managerVars,
             requestVars
<1>1. ASSUME NEW b \in Batches, Acquire(b) PROVE Control'
    BY <1>1 DEF Acquire
<1>2. ASSUME NEW b \in Batches, StartStep(b) PROVE Control'
    BY <1>2 DEF StartStep, Register, ReleaseRefused
<1>3. ASSUME NEW b \in Batches, ExecuteStep(b) PROVE Control'
    <2>1. CASE Begin(b)
        BY <2>1 DEF Begin
    <2>2. CASE Complete(b)
        BY <2>2 DEF Complete, EndState
    <2>3. CASE Release(b)
        BY <2>3 DEF Release
    <2>. QED
        BY <1>3, <2>1, <2>2, <2>3 DEF ExecuteStep
<1>4. ASSUME NEW b \in Batches, Cancel(b) PROVE Control'
    <2>1. UNCHANGED <<pc, ctxDone, done, closed, closeList, closeAt>> /\ Registered(b) /\ MarkCancelled(b)
        BY <1>4 DEF Cancel
    <2>2. cancelling' \subseteq cancelling \cup {b} /\ (b \in cancelling' => b \in cancelling \/ ~Terminal(state[b]))
        BY <1>4 DEF Cancel
    <2>. HIDE DEF Control
    <2>3. /\ state' \in [Batches -> States] /\ cancelRequested' \in [Batches -> BOOLEAN]
          /\ \A c \in Batches : Staged(c)' /\ (cancelRequested[c] => cancelRequested'[c])
          /\ \A c \in Batches : cancelRequested'[c] => Registered(c)
          /\ ~Terminal(state[b]) => cancelRequested'[b]
        BY <2>1, MarkKeepsControl
    <2>4. \A c \in Batches : Asked(c)'
        BY <2>1, <2>2, <2>3 DEF Control
    <2>. QED
        BY <2>1, <2>2, <2>3, <2>4 DEF Control
<1>5. ASSUME NEW b \in Batches, CancelReturns(b) PROVE Control'
    BY <1>5 DEF CancelReturns
<1>6. CASE CloseBegin
    BY <1>6 DEF CloseBegin
<1>7. ASSUME NEW b \in Batches, CloseVisit(b) PROVE Control'
    <2>1. UNCHANGED <<pc, ctxDone, done, closed, cancelling>> /\ MarkCancelled(b)
        BY <1>7 DEF CloseVisit
    <2>2. /\ closeList' \subseteq closeList /\ closeAt' \in {NoBatch, b} /\ b \in closeList
          /\ closeAt' = b => ~Terminal(state[b])
        BY <1>7, BatchAssumption DEF CloseVisit
    <2>3. Registered(b)
        BY <2>2
    <2>. HIDE DEF Control
    <2>4. /\ state' \in [Batches -> States] /\ cancelRequested' \in [Batches -> BOOLEAN]
          /\ \A c \in Batches : Staged(c)' /\ (cancelRequested[c] => cancelRequested'[c])
          /\ \A c \in Batches : cancelRequested'[c] => Registered(c)
          /\ ~Terminal(state[b]) => cancelRequested'[b]
        BY <2>1, <2>3, MarkKeepsControl
    <2>5. \A c \in Batches : Asked(c)'
        BY <2>1, <2>2, <2>4, BatchAssumption DEF Control
    <2>. QED
        BY <2>1, <2>2, <2>4, <2>5 DEF Control
<1>8. CASE CloseCancels
    BY <1>8, BatchAssumption DEF CloseCancels
<1>9. ASSUME NEW b \in Batches, NEW w \in Workers(b), ByWorker(b, w) PROVE Control'
    BY <1>9, WorkerLeavesControl, ControlKept
<1>10. CASE UNCHANGED vars
    BY <1>10, ControlKept DEF vars, controlVars
<1>. QED
    BY <1>1, <1>2, <1>3, <1>4, <1>5, <1>6, <1>7, <1>8, <1>9, <1>10 DEF Next, ByWorker

-----------------------------------------------------------------------------
(* The work of all batches.                                                 *)
Stopped(b) == cancelRequested[b] \/ ctxDone[b]

\* The variables that hold something of each batch are functions on the batches.
Shaped ==
    /\ results = [b \in Batches |-> results[b]]
    /\ summary = [b \in Batches |-> summary[b]]
    /\ nextJob = [b \in Batches |-> nextJob[b]]
    /\ worker  = [b \in Batches |-> worker[b]]

BatchWork(b) == Work(b, results[b], nextJob[b], worker[b], Stopped(b))

\* Workers are busy only while execute waits for them; a batch that is over has
\* handed out every entry, and one that completed has cancelled none.
Settled(b) ==
    /\ \A w \in Workers(b) : Busy(worker[b], w) => pc[b] = "working"
    /\ Over(b) => nextJob[b] = Size[b] + 1
    /\ state[b] = "completed" => \A i \in 1..Size[b] : results[b][i].outcome # "cancelled"

Counted(b) == summary[b] = Summarize(results[b])

WorkInv == Shaped /\ timeouts \in Nat /\ \A b \in Batches : BatchWork(b) /\ Settled(b) /\ Counted(b)

\* Nobody takes a request to stop back.
LEMMA StopStays ==
    ASSUME Control, [Next]_vars, NEW c \in Batches, Stopped(c)
    PROVE  Stopped(c)'
<1>. USE DEF Control, ControlTyped, Stopped, requestVars, managerVars
<1>1. ASSUME NEW b \in Batches, NEW w \in Workers(b), ByWorker(b, w) PROVE Stopped(c)'
    BY <1>1, WorkerLeavesControl DEF controlVars
<1>2. ASSUME NEW b \in Batches, Acquire(b) \/ StartStep(b) \/ ExecuteStep(b) \/ CancelReturns(b)
      PROVE  Stopped(c)'
    BY <1>2 DEF Acquire, StartStep, Register, ReleaseRefused, ExecuteStep, Begin, Complete, Release,
       CancelReturns
<1>3. ASSUME NEW b \in Batches, Cancel(b) \/ CloseVisit(b) PROVE Stopped(c)'
    BY <1>3 DEF Cancel, CloseVisit, MarkCancelled
<1>4. CASE CloseBegin \/ CloseCancels
    BY <1>4 DEF CloseBegin, CloseCancels
<1>5. CASE UNCHANGED vars
    BY <1>5 DEF vars
<1>. QED
    BY <1>1, <1>2, <1>3, <1>4, <1>5 DEF Next, ByWorker

\* What remains to be shown of a step that touches the work of one batch only.
LEMMA OneBatchWorks ==
    ASSUME Control, WorkInv, [Next]_vars, UNCHANGED controlVars, Shaped', timeouts' \in Nat,
           NEW b \in Batches,
           \A c \in Batches \ {b} : /\ results'[c] = results[c] /\ summary'[c] = summary[c]
                                    /\ nextJob'[c] = nextJob[c] /\ worker'[c] = worker[c],
           BatchWork(b)', Settled(b)', Counted(b)'
    PROVE  WorkInv'
<1>1. ASSUME NEW c \in Batches, c # b
      PROVE  BatchWork(c)' /\ Settled(c)' /\ Counted(c)'
    BY <1>1 DEF WorkInv, BatchWork, Settled, Counted, Stopped, Over, controlVars, requestVars
<1>. QED
    BY <1>1 DEF WorkInv

\* One worker's step keeps the work of its batch in order.
LEMMA WorkerWorks ==
    ASSUME Control, WorkInv, NEW b \in Batches, NEW w \in Workers(b), ByWorker(b, w)
    PROVE  WorkInv'
<1>. DEFINE ws == worker[b]
            rs == results[b]
            nj == nextJob[b]
<1>0. /\ UNCHANGED controlVars /\ [Next]_vars
      /\ Stopped(b)' = Stopped(b) /\ Stopped(b) \in BOOLEAN
      /\ Size[b] \in Nat \ {0}
    BY WorkerLeavesControl, BatchAssumption
       DEF controlVars, requestVars, Stopped, ByWorker, Next, Control, ControlTyped
<1>1. /\ Work(b, rs, nj, ws, Stopped(b)) /\ Settled(b) /\ Counted(b) /\ Shaped /\ timeouts \in Nat
      /\ ws[w] \in Hand(b) /\ nj \in 1..(Size[b] + 1) /\ rs \in [1..Size[b] -> Entry]
      /\ ws \in [Workers(b) -> Hand(b)]
    BY DEF WorkInv, BatchWork, Work, WorkTyped
\* The worker that moves and its hand, for a step that changes nothing else.
<1>2. ASSUME NEW h \in Hand(b), worker' = [worker EXCEPT ![b][w] = h],
             pc[b] = "working", UNCHANGED <<results, summary>>,
             nextJob' \in {nextJob, [nextJob EXCEPT ![b] = nj + 1]}, timeouts' \in Nat,
             Work(b, rs, nextJob'[b], [ws EXCEPT ![w] = h], Stopped(b))
      PROVE  WorkInv'
    <2>1. worker'[b] = [ws EXCEPT ![w] = h] /\ \A c \in Batches \ {b} : worker'[c] = worker[c]
        BY <1>1, <1>2 DEF Shaped
    <2>2. Shaped' /\ \A c \in Batches \ {b} : nextJob'[c] = nextJob[c]
        BY <1>1, <1>2 DEF Shaped
    <2>3. BatchWork(b)' /\ Counted(b)'
        BY <1>0, <1>1, <1>2, <2>1 DEF BatchWork, Counted
    <2>4. Settled(b)'
        BY <1>0, <1>1, <1>2 DEF Settled, Over, controlVars
    <2>. QED
        BY <1>0, <1>2, <2>1, <2>2, <2>3, <2>4, OneBatchWorks
<1>3. ASSUME ws[w].at # "idle" PROVE pc[b] = "working" /\ Busy(ws, w)
    BY <1>1, <1>3 DEF Settled, Busy
<1>4. CASE TakeJob(b, w)
    <2>. DEFINE h == IF nj \in Unsupported[b]
                     THEN [Idle EXCEPT !.at = "finishing", !.index = nj, !.result = UnsupportedResult]
                     ELSE [Idle EXCEPT !.at = "checking", !.index = nj]
    <2>1. nj \in 1..Size[b] /\ ~Busy(ws, w) /\ pc[b] = "working"
        BY <1>0, <1>1, <1>4 DEF TakeJob, WorkerAt, Busy
    <2>2. h \in Hand(b) /\ h.at # "idle" /\ h.index = nj
          /\ (h.at = "finishing" => Decided(h.result, Stopped(b)))
        <3>1. QueuedResult \in Entry /\ UnsupportedResult \in Entry
              /\ Decided(UnsupportedResult, Stopped(b))
            BY DEF QueuedResult, UnsupportedResult, Entry, EntryStates, Outcomes, Decided
        <3>2. nj \in 0..Size[b]
            BY <1>0, <2>1
        <3>. QED
            BY <3>1, <3>2 DEF Hand, Places, Idle
    <2>3. /\ worker' = [worker EXCEPT ![b][w] = h] /\ UNCHANGED <<results, summary, timeouts>>
          /\ nextJob' = [nextJob EXCEPT ![b] = nj + 1]
        BY <1>4 DEF TakeJob
    <2>. HIDE DEF h
    <2>4. nextJob'[b] = nj + 1
        BY <1>1, <2>3 DEF Shaped
    <2>5. Work(b, rs, nj + 1, [ws EXCEPT ![w] = h], Stopped(b))
        BY <1>0, <1>1, <2>1, <2>2, WorkTaken
    <2>. QED
        BY <1>1, <1>2, <2>1, <2>2, <2>3, <2>4, <2>5
<1>5. ASSUME NEW h \in Hand(b), worker' = [worker EXCEPT ![b][w] = h], Busy(ws, w), h.at # "idle",
             h.index = ws[w].index, UNCHANGED <<results, summary, nextJob>>, timeouts' \in Nat,
             h.at = "finishing" => Decided(h.result, Stopped(b))
      PROVE  WorkInv'
    <2>1. Work(b, rs, nj, [ws EXCEPT ![w] = h], Stopped(b))
        BY <1>0, <1>1, <1>5, WorkMoved
    <2>. QED
        BY <1>2, <1>3, <1>5, <2>1 DEF Busy
<1>6. CASE Check(b, w)
    <2>. DEFINE h == IF Stopped(b)
                     THEN [ws[w] EXCEPT !.at = "finishing", !.result = CancelledResult]
                     ELSE [ws[w] EXCEPT !.at = "marking"]
    <2>1. h \in Hand(b) /\ h.at # "idle" /\ h.index = ws[w].index
          /\ (h.at = "finishing" => Decided(h.result, Stopped(b)))
        BY <1>1 DEF Hand, Places, CancelledResult, Entry, EntryStates, Outcomes, Decided
    <2>2. worker' = [worker EXCEPT ![b][w] = h] /\ UNCHANGED <<results, summary, nextJob, timeouts>>
        BY <1>6 DEF Check, Stopped
    <2>3. Busy(ws, w)
        BY <1>6 DEF Check, WorkerAt, Busy
    <2>. HIDE DEF h
    <2>. QED
        BY <1>1, <1>5, <2>1, <2>2, <2>3
<1>7. CASE ItemDeadline(b, w)
    <2>. DEFINE h == [ws[w] EXCEPT !.timedOut = TRUE]
    <2>1. h \in Hand(b) /\ h.at = "running" /\ h.index = ws[w].index
        BY <1>1, <1>7 DEF Hand, ItemDeadline, WorkerAt
    <2>2. /\ worker' = [worker EXCEPT ![b][w] = h] /\ UNCHANGED <<results, summary, nextJob>>
          /\ timeouts' \in Nat
        BY <1>1, <1>7 DEF ItemDeadline
    <2>3. Busy(ws, w)
        BY <1>7 DEF ItemDeadline, WorkerAt, Busy
    <2>. HIDE DEF h
    <2>. QED
        BY <1>5, <2>1, <2>2, <2>3
<1>8. CASE RunReturns(b, w)
    <2>1. PICK status \in {"complete", "incomplete", "error", "unknown"},
               destination \in Destinations, panicked \in BOOLEAN :
             worker' = [worker EXCEPT ![b][w] =
                          [@ EXCEPT !.at = "finishing",
                                    !.result = EntryResult(b, w, status, destination, panicked)]]
        BY <1>8 DEF RunReturns
    <2>. DEFINE r == EntryResult(b, w, status, destination, panicked)
                h == [ws[w] EXCEPT !.at = "finishing", !.result = r]
    <2>2. ClassifyOutcome(status, destination) \in {"passed", "failed", "partial", "unsupported"}
        BY DEF ClassifyOutcome, Destinations
    <2>3. r \in Entry /\ Decided(r, Stopped(b))
        BY <2>2 DEF EntryResult, Entry, EntryStates, Outcomes, Decided, Stopped
    <2>. HIDE DEF r
    <2>4. h \in Hand(b) /\ h.at = "finishing" /\ h.index = ws[w].index /\ h.result = r
        BY <1>1, <2>3 DEF Hand, Places
    <2>5. worker' = [worker EXCEPT ![b][w] = h] /\ UNCHANGED <<results, summary, nextJob, timeouts>>
        BY <1>8, <2>1 DEF RunReturns, r
    <2>6. Busy(ws, w)
        BY <1>8 DEF RunReturns, WorkerAt, Busy
    <2>. HIDE DEF h
    <2>. QED
        BY <1>1, <1>5, <2>3, <2>4, <2>5, <2>6
\* A result of the batch changes, and the summary with it.
<1>9. ASSUME NEW i, NEW r, SetResult(b, i, r), pc[b] = "working"
      PROVE  /\ results'[b] = [rs EXCEPT ![i] = r] /\ Counted(b)'
             /\ results' = [c \in Batches |-> results'[c]] /\ summary' = [c \in Batches |-> summary'[c]]
             /\ \A c \in Batches \ {b} : results'[c] = results[c] /\ summary'[c] = summary[c]
    BY <1>1, <1>9 DEF SetResult, Shaped, Counted
<1>10. CASE MarkRunning(b, w)
    <2>. DEFINE h == [ws[w] EXCEPT !.at = "running"]
                i == ws[w].index
                r == [rs[i] EXCEPT !.state = "running"]
    <2>1. h \in Hand(b) /\ h.at = "running" /\ h.index = ws[w].index
        BY <1>1 DEF Hand, Places
    <2>2. worker' = [worker EXCEPT ![b][w] = h] /\ UNCHANGED <<nextJob, timeouts>>
        BY <1>1, <1>10 DEF MarkRunning, Shaped
    <2>3. Busy(ws, w)
        BY <1>10 DEF MarkRunning, WorkerAt, Busy
    <2>4. CASE TerminalEntry(results[b][i].state)
        <3>1. UNCHANGED <<results, summary>>
            BY <1>10, <2>4 DEF MarkRunning
        <3>. HIDE DEF h
        <3>. QED
            BY <1>1, <1>5, <2>1, <2>2, <2>3, <3>1
    <2>5. CASE ~TerminalEntry(results[b][i].state)
        <3>1. SetResult(b, i, r)
            BY <1>10, <2>5 DEF MarkRunning
        <3>2. Work(b, [rs EXCEPT ![i] = r], nj, ws, Stopped(b))
            BY <1>0, <1>1, <2>3, WorkMarked
        <3>. HIDE DEF h, r
        <3>3. Work(b, [rs EXCEPT ![i] = r], nj, [ws EXCEPT ![w] = h], Stopped(b))
            BY <1>0, <2>1, <2>3, <3>2, WorkMoved
        <3>4. worker'[b] = [ws EXCEPT ![w] = h] /\ \A c \in Batches \ {b} : worker'[c] = worker[c]
            BY <1>1, <2>2 DEF Shaped
        <3>5. pc[b] = "working"
            BY <1>3, <2>3 DEF Busy
        <3>6. Shaped' /\ timeouts' \in Nat
            BY <1>1, <1>9, <2>2, <3>1, <3>5 DEF Shaped
        <3>7. BatchWork(b)'
            <4>1. results'[b] = [rs EXCEPT ![i] = r] /\ nextJob'[b] = nj
                BY <1>9, <2>2, <3>1, <3>5
            <4>. QED
                BY <1>0, <3>3, <3>4, <4>1 DEF BatchWork
        <3>8. Settled(b)'
            <4>1. pc'[b] = "working" /\ state'[b] # "completed"
                BY <1>0, <3>5 DEF Control, Staged, controlVars
            <4>. QED
                BY <4>1 DEF Settled, Over
        <3>. QED
            BY <1>0, <1>9, <2>2, <3>1, <3>4, <3>5, <3>6, <3>7, <3>8, OneBatchWorks
    <2>. QED
        BY <2>4, <2>5
<1>11. CASE Finish(b, w)
    <2>. DEFINE i == ws[w].index
                r == ws[w].result
    <2>1. ws[w].at = "finishing" /\ SetResult(b, i, r) /\ UNCHANGED <<nextJob, timeouts>>
          /\ worker' = [worker EXCEPT ![b][w] = Idle]
        BY <1>11 DEF Finish, WorkerAt
    <2>2. Work(b, [rs EXCEPT ![i] = r], nj, [ws EXCEPT ![w] = Idle], Stopped(b))
        BY <1>0, <1>1, <2>1, WorkFiled
    <2>3. worker'[b] = [ws EXCEPT ![w] = Idle] /\ \A c \in Batches \ {b} : worker'[c] = worker[c]
        BY <1>1, <2>1 DEF Shaped
    <2>4. pc[b] = "working"
        BY <1>3, <2>1
    <2>5. Shaped' /\ timeouts' \in Nat
        BY <1>1, <1>9, <2>1, <2>4 DEF Shaped
    <2>6. BatchWork(b)'
        <3>1. results'[b] = [rs EXCEPT ![i] = r] /\ nextJob'[b] = nj
            BY <1>9, <2>1, <2>4
        <3>. QED
            BY <1>0, <2>2, <2>3, <3>1 DEF BatchWork
    <2>7. Settled(b)'
        <3>1. pc'[b] = "working" /\ state'[b] # "completed"
            BY <1>0, <2>4 DEF Control, Staged, controlVars
        <3>. QED
            BY <3>1 DEF Settled, Over
    <2>. QED
        BY <1>0, <1>9, <2>1, <2>3, <2>4, <2>5, <2>6, <2>7, OneBatchWorks
<1>. QED
    BY <1>4, <1>6, <1>7, <1>8, <1>10, <1>11 DEF ByWorker, WorkerStep

\* A step of the manager, of execute or of a caller leaves the work alone; that
\* of a batch stays settled where its goroutine and its state allow it.
LEMMA ControlWorks ==
    ASSUME Control, WorkInv, [Next]_vars, UNCHANGED workVars,
           \A b \in Batches : Settled(b)'
    PROVE  WorkInv'
<1>1. ASSUME NEW b \in Batches
      PROVE  BatchWork(b)'
    <2>1. Work(b, results[b], nextJob[b], worker[b], Stopped(b)) /\ (Stopped(b) => Stopped(b)')
        BY StopStays DEF WorkInv, BatchWork
    <2>2. Work(b, results[b], nextJob[b], worker[b], Stopped(b)')
        BY <2>1, WorkStopped
    <2>. QED
        BY <2>2 DEF BatchWork, workVars
<1>. QED
    BY <1>1 DEF WorkInv, Shaped, Counted, workVars

\* Every step keeps each entry with its worker, and the counts of the summary
\* right.
LEMMA WorkStep ==
    ASSUME Control, WorkInv, [Next]_vars
    PROVE  WorkInv'
<1>0. Shaped /\ \A b \in Batches : BatchWork(b) /\ Settled(b) /\ Counted(b)
    BY DEF WorkInv
<1>. USE DEF Control, ControlTyped, Staged, Over, Settled
\* No batch leaves its workers behind, is over or completes in the step.
<1>1. ASSUME \A c \in Batches : /\ pc[c] = "working" => pc'[c] = "working"
                                /\ Over(c)' => Over(c)
                                /\ state'[c] = "completed" => state[c] = "completed",
             UNCHANGED workVars
      PROVE  WorkInv'
    <2>1. \A c \in Batches : Settled(c)'
        BY <1>0, <1>1 DEF workVars
    <2>. QED
        BY <1>1, <2>1, ControlWorks
<1>2. ASSUME UNCHANGED <<pc, workVars>>,
             \A c \in Batches : state'[c] = "completed" => state[c] = "completed"
      PROVE  WorkInv'
    BY <1>1, <1>2
<1>3. ASSUME NEW b \in Batches, NEW p \in PCs, NEW st \in States,
             pc' = [pc EXCEPT ![b] = p], state' = [state EXCEPT ![b] = st],
             p \notin {"ended", "released"}, pc[b] = "working" => p = "working",
             st # "completed" \/ st = state[b], UNCHANGED workVars
      PROVE  WorkInv'
    <2>1. \A c \in Batches : /\ pc[c] = "working" => pc'[c] = "working"
                             /\ Over(c)' => Over(c)
                             /\ state'[c] = "completed" => state[c] = "completed"
        BY <1>3
    <2>. HIDE DEF Over
    <2>. QED
        BY <1>1, <1>3, <2>1
<1>4. ASSUME NEW b \in Batches, Acquire(b) \/ StartStep(b) \/ Begin(b) PROVE WorkInv'
    <2>. USE DEF PCs, States
    <2>1. state = [state EXCEPT ![b] = state[b]] /\ state[b] \in States
        OBVIOUS
    <2>2. CASE Acquire(b)
        <3>1. /\ pc' = [pc EXCEPT ![b] = "acquired"] /\ pc[b] = "idle"
              /\ state' = [state EXCEPT ![b] = state[b]] /\ UNCHANGED workVars
            BY <2>1, <2>2 DEF Acquire
        <3>. QED
            BY <1>3, <2>1, <3>1
    <2>3. CASE Register(b)
        <3>1. /\ pc' = [pc EXCEPT ![b] = IF closed THEN "refused" ELSE "spawned"]
              /\ state' = [state EXCEPT ![b] = IF closed THEN state[b] ELSE "starting"]
              /\ pc[b] = "acquired" /\ UNCHANGED workVars
            BY <2>3 DEF Register
        <3>. QED
            BY <1>3, <2>1, <3>1
    <2>4. CASE ReleaseRefused(b)
        <3>1. /\ pc' = [pc EXCEPT ![b] = "rejected"] /\ pc[b] = "refused"
              /\ state' = [state EXCEPT ![b] = state[b]] /\ UNCHANGED workVars
            BY <2>1, <2>4 DEF ReleaseRefused
        <3>. QED
            BY <1>3, <2>1, <3>1
    <2>5. CASE Begin(b)
        <3>1. /\ pc' = [pc EXCEPT ![b] = "working"]
              /\ state' = [state EXCEPT ![b] = IF state[b] = "starting" THEN "running" ELSE state[b]]
              /\ UNCHANGED workVars
            BY <2>5 DEF Begin
        <3>. QED
            BY <1>3, <2>1, <3>1
    <2>. QED
        BY <1>4, <2>2, <2>3, <2>4, <2>5 DEF StartStep
<1>6. ASSUME NEW b \in Batches, Complete(b) PROVE WorkInv'
    <2>1. /\ pc[b] = "working" /\ nextJob[b] > Size[b] /\ \A w \in Workers(b) : ~Busy(worker[b], w)
          /\ pc' = [pc EXCEPT ![b] = "ended"] /\ state' = [state EXCEPT ![b] = EndState(b)]
        BY <1>6 DEF Complete, Drained, Busy
    <2>2. UNCHANGED workVars
        <3>1. summary' = summary
            BY <1>0, <1>6 DEF Complete, Shaped, Counted
        <3>. QED
            BY <1>6, <3>1 DEF Complete, workVars
    <2>3. Settled(b)'
        <3>1. nextJob[b] = Size[b] + 1
            <4>1. nextJob[b] \in 1..(Size[b] + 1) /\ Size[b] \in Nat
                BY <1>0, BatchAssumption DEF BatchWork, Work, WorkTyped
            <4>. QED
                BY <2>1, <4>1
        <3>2. EndState(b) = "completed" => ~Stopped(b)
            BY DEF EndState, Stopped
        <3>3. ~Stopped(b) => \A i \in 1..Size[b] : results[b][i].outcome # "cancelled"
            BY <1>0 DEF BatchWork, Work, Outcome, Decided
        <3>. QED
            BY <2>1, <2>2, <3>1, <3>2, <3>3 DEF workVars
    <2>4. ASSUME NEW c \in Batches, c # b PROVE Settled(c)'
        BY <1>0, <2>1, <2>2, <2>4 DEF workVars
    <2>. QED
        BY <2>2, <2>3, <2>4, ControlWorks
<1>7. ASSUME NEW b \in Batches, Release(b) PROVE WorkInv'
    <2>1. /\ pc[b] = "ended" /\ pc' = [pc EXCEPT ![b] = "released"]
          /\ UNCHANGED <<state, workVars>>
        BY <1>7 DEF Release
    <2>2. \A c \in Batches : Settled(c)'
        BY <1>0, <2>1 DEF workVars
    <2>. QED
        BY <2>1, <2>2, ControlWorks
<1>8. ASSUME NEW b \in Batches, Cancel(b) \/ CloseVisit(b) PROVE WorkInv'
    <2>1. MarkCancelled(b) /\ UNCHANGED <<pc, workVars>>
        BY <1>8 DEF Cancel, CloseVisit
    <2>2. \A c \in Batches : state'[c] = "completed" => state[c] = "completed"
        BY <2>1 DEF MarkCancelled
    <2>. QED
        BY <1>2, <2>1, <2>2
<1>9. ASSUME NEW b \in Batches, CancelReturns(b) PROVE WorkInv'
    BY <1>2, <1>9 DEF CancelReturns
<1>10. CASE CloseBegin \/ CloseCancels
    BY <1>2, <1>10 DEF CloseBegin, CloseCancels
<1>11. ASSUME NEW b \in Batches, NEW w \in Workers(b), ByWorker(b, w) PROVE WorkInv'
    BY <1>11, WorkerWorks
<1>12. CASE UNCHANGED vars
    BY <1>2, <1>12 DEF vars
<1>. QED
    BY <1>4, <1>6, <1>7, <1>8, <1>9, <1>10, <1>11, <1>12
       DEF Next, ByWorker, ExecuteStep

-----------------------------------------------------------------------------
(* The theorems.                                                            *)

\* Initially no batch was admitted and no entry exists.
LEMMA BatchesBegin ==
    ASSUME Init
    PROVE  Control /\ WorkInv
<1>1. Control
    BY BatchAssumption DEF Init, Control, ControlTyped, Staged, Asked, Over, Registered, PCs, States
<1>2. Shaped /\ timeouts \in Nat
    BY DEF Init, Shaped
<1>3. ASSUME NEW b \in Batches
      PROVE  BatchWork(b) /\ Settled(b) /\ Counted(b)
    <2>1. /\ results[b] = [i \in 1..Size[b] |-> QueuedResult] /\ nextJob[b] = 1
          /\ worker[b] = [w \in Workers(b) |-> Idle] /\ Stopped(b) = FALSE
          /\ pc[b] = "idle" /\ state[b] = "none"
          /\ summary[b] = Summarize([i \in 1..Size[b] |-> QueuedResult])
        BY DEF Init, Stopped
    <2>2. BatchWork(b)
        BY <2>1, WorkBegins DEF BatchWork
    <2>3. Settled(b) /\ Counted(b)
        BY <2>1 DEF Settled, Counted, Busy, Over, Idle
    <2>. QED
        BY <2>2, <2>3
<1>. QED
    BY <1>1, <1>2, <1>3 DEF WorkInv

\* Control and work together are inductive.
LEMMA BatchesGoOn == Spec => [](Control /\ WorkInv)
<1>1. Control /\ WorkInv /\ [Next]_vars => (Control /\ WorkInv)'
    BY ControlStep, WorkStep
<1>. QED
    BY <1>1, BatchesBegin, PTL DEF Spec

\* The jobs channel and the workers lose no entry and run none twice, however
\* many workers drain it and whatever Cancel, Close and the deadlines do.
THEOREM EntriesOnce == Spec => []EachEntryOnce
<1>1. ASSUME WorkInv
      PROVE  EachEntryOnce
    <2>. SUFFICES ASSUME NEW b \in Batches, NEW i \in 1..Size[b]
                  PROVE  LET holders == {w \in Workers(b) : worker[b][w].at # "idle" /\ worker[b][w].index = i}
                         IN CASE i >= nextJob[b] -> holders = {} /\ results[b][i] = QueuedResult
                              [] i < nextJob[b]  ->
                                   \/ Cardinality(holders) = 1 /\ results[b][i].outcome = "not_run"
                                   \/ holders = {} /\ results[b][i].outcome # "not_run"
        BY Zenon DEF EachEntryOnce
    <2>. DEFINE holders == {w \in Workers(b) : worker[b][w].at # "idle" /\ worker[b][w].index = i}
                nj == nextJob[b]
                r == results[b][i]
    <2>1. Work(b, results[b], nj, worker[b], Stopped(b)) /\ nj \in Nat /\ Size[b] \in Nat
        BY <1>1, BatchAssumption DEF WorkInv, BatchWork, Work, WorkTyped
    <2>2. ASSUME NEW w \in holders
          PROVE  i < nj /\ r.outcome = "not_run"
        BY <2>1 DEF Work, Holds, Busy
    <2>3. i >= nj => holders = {} /\ r = QueuedResult
        BY <2>1, <2>2 DEF Work, Untouched
    <2>4. ASSUME i < nj, r.outcome = "not_run"
          PROVE  Cardinality(holders) = 1
        <3>1. PICK w \in Workers(b) : Busy(worker[b], w) /\ worker[b][w].index = i
            BY <2>1, <2>4 DEF Work, Held
        <3>2. holders = {w}
            BY <2>1, <3>1 DEF Work, Apart, Busy
        <3>. QED
            BY <3>2, FS_Singleton
    <2>5. r.outcome # "not_run" => holders = {}
        BY <2>2
    <2>. HIDE DEF holders, r
    <2>6. i < nj => \/ Cardinality(holders) = 1 /\ r.outcome = "not_run"
                    \/ holders = {} /\ r.outcome # "not_run"
        BY <2>4, <2>5
    <2>. HIDE DEF nj
    <2>7. i >= nj <=> ~(i < nj)
        <3>1. i \in Nat
            BY <2>1
        <3>. QED
            BY <2>1, <3>1
    <2>8. CASE i >= nj
        <3>1. ~(i < nj)
            BY <2>7, <2>8
        <3>. QED
            BY <2>3, <2>8, <3>1, Zenon DEF holders, r, nj
    <2>9. CASE i < nj
        <3>1. ~(i >= nj)
            BY <2>7, <2>9
        <3>. QED
            BY <2>6, <2>9, <3>1, Zenon DEF holders, r, nj
    <2>. QED
        BY <2>7, <2>8, <2>9
<1>. QED
    BY <1>1, BatchesGoOn, PTL

\* Whoever waits for done finds every entry decided and the counts true, and no
\* cancelled entry in a batch that is called completed.
THEOREM DoneMeansDecided == Spec => []DecidedWhenDone
<1>1. ASSUME Control, WorkInv
      PROVE  DecidedWhenDone
    <2>. SUFFICES ASSUME NEW b \in Batches, done[b]
                  PROVE  /\ \A i \in 1..Size[b] : results[b][i].outcome # "not_run"
                                                  /\ results[b][i].state # "running"
                         /\ summary[b] = Summarize(results[b])
                         /\ state[b] = "completed" => summary[b].decided["cancelled"] = 0
        BY DEF DecidedWhenDone
    <2>1. Over(b) /\ nextJob[b] = Size[b] + 1 /\ \A w \in Workers(b) : ~Busy(worker[b], w)
        BY <1>1 DEF Control, WorkInv, Staged, Settled, Over
    <2>2. Work(b, results[b], nextJob[b], worker[b], Stopped(b)) /\ Size[b] \in Nat
        BY <1>1, BatchAssumption DEF WorkInv, BatchWork
    <2>3. \A i \in 1..Size[b] : results[b][i].outcome # "not_run" /\ results[b][i].state # "running"
        <3>1. \A i \in 1..Size[b] : results[b][i].outcome # "not_run"
            BY <2>1, <2>2 DEF Work, Held
        <3>. QED
            BY <2>2, <3>1 DEF Work, Outcome, Decided
    <2>4. summary[b] = Summarize(results[b])
        BY <1>1 DEF WorkInv, Counted
    <2>5. ASSUME state[b] = "completed"
          PROVE  summary[b].decided["cancelled"] = 0
        <3>1. DOMAIN results[b] = 1..Size[b]
            BY <2>2 DEF Work, WorkTyped
        <3>2. {i \in DOMAIN results[b] : results[b][i].outcome = "cancelled"} = {}
            BY <1>1, <2>5, <3>1 DEF WorkInv, Settled
        <3>3. summary[b].decided["cancelled"]
                = Cardinality({i \in DOMAIN results[b] : results[b][i].outcome = "cancelled"})
            BY <2>4 DEF Summarize, Outcomes
        <3>. QED
            BY <3>2, <3>3, FS_EmptySet
    <2>. QED
        BY <2>3, <2>4, <2>5
<1>. QED
    BY <1>1, BatchesGoOn, PTL

-----------------------------------------------------------------------------
(* What is decided stays.                                                   *)
ResultsKept(b) == \A i \in 1..Size[b] :
    results[b][i].outcome # "not_run" => results'[b][i] = results[b][i]

EndKept(b) ==
    done[b] => UNCHANGED <<state[b], results[b], summary[b], done[b], cancelRequested[b]>>

Kept == \A b \in Batches : ResultsKept(b) /\ EndKept(b)

\* A worker writes the entry it holds, which has no outcome, of a batch that is
\* not over.
LEMMA WorkerKeeps ==
    ASSUME Control, WorkInv, NEW b \in Batches, NEW w \in Workers(b), ByWorker(b, w)
    PROVE  Kept
<1>1. UNCHANGED controlVars /\ Shaped /\ Settled(b) /\ BatchWork(b)
    BY WorkerLeavesControl DEF WorkInv
<1>2. pc[b] = "working" /\ ~done[b]
    <2>1. pc[b] = "working" \/ Busy(worker[b], w)
        BY DEF ByWorker, WorkerStep, TakeJob, Check, MarkRunning, Finish, ItemDeadline, RunReturns,
           WorkerAt, Busy
    <2>. QED
        BY <1>1, <2>1 DEF Settled, Control, Staged, Over
<1>3. CASE UNCHANGED <<results, summary>>
    BY <1>1, <1>3 DEF Kept, ResultsKept, EndKept, controlVars, requestVars
<1>4. ASSUME NEW r, SetResult(b, worker[b][w].index, r), Busy(worker[b], w)
      PROVE  Kept
    <2>1. results[b][worker[b][w].index].outcome = "not_run"
        BY <1>1, <1>4 DEF BatchWork, Work, Holds
    <2>2. /\ results'[b] = [results[b] EXCEPT ![worker[b][w].index] = r]
          /\ \A c \in Batches \ {b} : results'[c] = results[c] /\ summary'[c] = summary[c]
        BY <1>1, <1>4 DEF SetResult, Shaped
    <2>3. results[b] \in [1..Size[b] -> Entry]
        BY <1>1 DEF BatchWork, Work, WorkTyped
    <2>4. ResultsKept(b)
        BY <2>1, <2>2, <2>3 DEF ResultsKept
    <2>. QED
        BY <1>1, <1>2, <2>2, <2>4 DEF Kept, ResultsKept, EndKept, controlVars, requestVars
<1>5. CASE TakeJob(b, w) \/ Check(b, w) \/ ItemDeadline(b, w) \/ RunReturns(b, w)
    BY <1>3, <1>5 DEF TakeJob, Check, ItemDeadline, RunReturns
<1>6. CASE MarkRunning(b, w)
    BY <1>3, <1>4, <1>6 DEF MarkRunning, WorkerAt, Busy
<1>7. CASE Finish(b, w)
    BY <1>4, <1>7 DEF Finish, WorkerAt, Busy
<1>. QED
    BY <1>5, <1>6, <1>7 DEF ByWorker, WorkerStep

\* A step that decides no entry and ends no batch takes nothing back.
LEMMA ControlKeeps ==
    ASSUME Control, WorkInv, [Next]_vars, UNCHANGED <<results, done>>,
           \A b \in Batches : done[b] => UNCHANGED <<state[b], summary[b], cancelRequested[b]>>
    PROVE  Kept
BY DEF Kept, ResultsKept, EndKept

\* No step takes an outcome back or changes a batch that has ended.
LEMMA KeptStep ==
    ASSUME Control, WorkInv, [Next]_vars
    PROVE  Kept
<1>0. \A c \in Batches : done[c] => Over(c) /\ Terminal(state[c])
    BY DEF Control, Staged, Over, Terminal
<1>. USE DEF Control, ControlTyped, workVars, requestVars
<1>1. ASSUME NEW b \in Batches, Acquire(b) \/ StartStep(b) \/ Begin(b) PROVE Kept
    <2>1. UNCHANGED <<workVars, done, cancelRequested>> /\ pc[b] \in {"idle", "acquired", "refused", "spawned"}
          /\ \A c \in Batches \ {b} : state'[c] = state[c]
        BY <1>1 DEF Acquire, StartStep, Register, ReleaseRefused, Begin
    <2>. QED
        BY <1>0, <2>1, ControlKeeps DEF Over
<1>2. ASSUME NEW b \in Batches, Complete(b) PROVE Kept
    <2>1. /\ ~done[b] /\ UNCHANGED <<results, cancelRequested>>
          /\ \A c \in Batches \ {b} : state'[c] = state[c] /\ done'[c] = done[c] /\ summary'[c] = summary[c]
        BY <1>0, <1>2 DEF Complete, Over, WorkInv, Shaped
    <2>. QED
        BY <2>1 DEF Kept, ResultsKept, EndKept
<1>3. ASSUME NEW b \in Batches, Release(b) \/ CancelReturns(b) PROVE Kept
    BY <1>3, ControlKeeps DEF Release, CancelReturns
<1>4. ASSUME NEW b \in Batches, Cancel(b) \/ CloseVisit(b) PROVE Kept
    <2>1. UNCHANGED <<workVars, done>> /\ MarkCancelled(b)
        BY <1>4 DEF Cancel, CloseVisit
    <2>2. \A c \in Batches : done[c] => UNCHANGED <<state[c], cancelRequested[c]>>
        <3>1. CASE Terminal(state[b])
            BY <2>1, <3>1 DEF MarkCancelled
        <3>2. CASE ~Terminal(state[b])
            BY <1>0, <2>1, <3>2 DEF MarkCancelled
        <3>. QED
            BY <3>1, <3>2
    <2>. QED
        BY <2>1, <2>2, ControlKeeps
<1>5. CASE CloseBegin \/ CloseCancels
    BY <1>5, ControlKeeps DEF CloseBegin, CloseCancels
<1>6. ASSUME NEW b \in Batches, NEW w \in Workers(b), ByWorker(b, w) PROVE Kept
    BY <1>6, WorkerKeeps
<1>7. CASE UNCHANGED vars
    BY <1>7, ControlKeeps DEF vars
<1>. QED
    BY <1>1, <1>2, <1>3, <1>4, <1>5, <1>6, <1>7 DEF Next, ByWorker, ExecuteStep

\* No step of any worker, Cancel, Close or deadline takes an outcome back, and
\* nothing of a batch whose done channel is closed changes any more.
THEOREM OutcomesStay == Spec => OutcomeIsFinal
<1>. DEFINE Stays ==
        \A b \in Batches :
           /\ \A i \in 1..Size[b] :
                results[b][i].outcome # "not_run" => results'[b][i] = results[b][i]
           /\ done[b] => UNCHANGED <<state[b], results[b], summary[b], done[b], cancelRequested[b]>>
<1>1. Control /\ WorkInv /\ [Next]_vars => [Stays]_vars
    BY KeptStep DEF Kept, ResultsKept, EndKept
<1>. QED
    BY <1>1, BatchesGoOn, PTL DEF Spec, OutcomeIsFinal
-----------------------------------------------------------------------------
(* Slots.  The batch manager counts them exactly, and so implements         *)
(* JobAdmission: the step by which execute records the outcome of a batch   *)
(* is one atomic decision, whatever the workers, Cancel and Close do.       *)
Slot(b) == pc[b] \in {"acquired", "refused", "spawned", "working", "ended"}

SlotTakers == {b \in Batches : Slot(b)}

\* The tokens in the capacity channel are those of the batches that took one.
Slots ==
    /\ capacity = Cardinality(SlotTakers)
    /\ capacity <= MaxConcurrentBatches

\* The batches that hold a slot are finitely many.
LEMMA TakersFinite ==
    /\ IsFiniteSet(SlotTakers)
    /\ Cardinality(SlotTakers) \in Nat
<1>1. IsFiniteSet(SlotTakers)
    BY BatchAssumption, FS_Subset DEF SlotTakers
<1>. QED
    BY <1>1, FS_CardinalityType

\* A step that moves no batch in or out of a slot leaves the count right.
LEMMA TakersKept ==
    ASSUME Slots, capacity' = capacity, \A c \in Batches : Slot(c)' <=> Slot(c)
    PROVE  Slots'
<1>1. SlotTakers' = SlotTakers
    BY DEF SlotTakers
<1>. QED
    BY <1>1 DEF Slots

\* Every step keeps one token in the capacity channel per batch with a slot.
LEMMA SlotStep ==
    ASSUME Control, Slots, [Next]_vars
    PROVE  Slots'
<1>. USE DEF Control, ControlTyped
<1>1. ASSUME NEW b \in Batches, Acquire(b) PROVE Slots'
    <2>1. /\ pc[b] = "idle" /\ pc' = [pc EXCEPT ![b] = "acquired"]
          /\ capacity < MaxConcurrentBatches /\ capacity' = capacity + 1
        BY <1>1 DEF Acquire
    <2>2. SlotTakers' = SlotTakers \cup {b} /\ b \notin SlotTakers
        BY <2>1 DEF SlotTakers, Slot
    <2>3. Cardinality(SlotTakers') = Cardinality(SlotTakers) + 1
        BY <2>2, TakersFinite, FS_AddElement
    <2>. QED
        BY <2>1, <2>3, TakersFinite, BatchAssumption DEF Slots
<1>2. ASSUME NEW b \in Batches, ReleaseRefused(b) \/ Release(b) PROVE Slots'
    <2>1. /\ pc[b] \in {"refused", "ended"} /\ capacity' = capacity - 1
          /\ pc' = [pc EXCEPT ![b] = "rejected"] \/ pc' = [pc EXCEPT ![b] = "released"]
        BY <1>2 DEF ReleaseRefused, Release
    <2>2. SlotTakers' = SlotTakers \ {b} /\ b \in SlotTakers
        BY <2>1 DEF SlotTakers, Slot
    <2>3. Cardinality(SlotTakers') = Cardinality(SlotTakers) - 1
        BY <2>2, TakersFinite, FS_RemoveElement
    <2>. QED
        BY <2>1, <2>3, TakersFinite, BatchAssumption DEF Slots
<1>3. ASSUME NEW b \in Batches, Register(b) PROVE Slots'
    <2>1. \A c \in Batches : Slot(c)' <=> Slot(c)
        BY <1>3 DEF Register, Slot
    <2>. QED
        BY <1>3, <2>1, TakersKept DEF Register, managerVars
<1>4. ASSUME NEW b \in Batches, Begin(b) \/ Complete(b) PROVE Slots'
    <2>1. (\A c \in Batches : Slot(c)' <=> Slot(c)) /\ capacity' = capacity
        BY <1>4 DEF Begin, Complete, Slot, managerVars
    <2>. QED
        BY <2>1, TakersKept
<1>5. ASSUME UNCHANGED <<pc, capacity>> PROVE Slots'
    BY <1>5, TakersKept DEF Slot
<1>6. ASSUME NEW b \in Batches, Cancel(b) \/ CancelReturns(b) \/ CloseVisit(b) PROVE Slots'
    BY <1>5, <1>6 DEF Cancel, CancelReturns, CloseVisit, managerVars
<1>7. CASE CloseBegin \/ CloseCancels
    BY <1>5, <1>7 DEF CloseBegin, CloseCancels
<1>8. ASSUME NEW b \in Batches, NEW w \in Workers(b), ByWorker(b, w) PROVE Slots'
    BY <1>5, <1>8, WorkerLeavesControl DEF controlVars
<1>9. CASE UNCHANGED vars
    BY <1>5, <1>9 DEF vars, managerVars
<1>. QED
    BY <1>1, <1>2, <1>3, <1>4, <1>6, <1>7, <1>8, <1>9 DEF Next, ByWorker, StartStep, ExecuteStep

\* The capacity channel counts the batches that hold a slot.
LEMMA SlotsHold == Spec => []Slots
<1>1. Init => Slots
    <2>1. ASSUME Init PROVE SlotTakers = {} /\ capacity = 0
        BY <2>1 DEF Init, SlotTakers, Slot
    <2>. QED
        BY <2>1, FS_EmptySet, BatchAssumption DEF Slots
<1>2. Control /\ Slots /\ [Next]_vars => Slots'
    BY SlotStep
<1>. QED
    BY <1>1, <1>2, BatchesGoOn, PTL DEF Spec

\* Every variable of the batch manager, of its batches and of their workers
\* always has its type; no worker holds an index outside its plan, and the
\* token count never goes below zero.
THEOREM BatchTypeCorrect == Spec => []TypeOK
<1>1. Control /\ WorkInv /\ Slots => TypeOK
    BY TakersFinite DEF Control, ControlTyped, PCs, States, WorkInv, BatchWork, Work, WorkTyped,
       Hand, Places, Slots, TypeOK
<1>. QED
    BY <1>1, BatchesGoOn, SlotsHold, PTL

-----------------------------------------------------------------------------
(* Admission.                                                              *)

\* The phase of a batch whose goroutine stands at p, in state st.
PhaseOf(p, st) ==
    CASE p = "idle"     -> "none"
      [] p = "acquired" -> "pending"
      [] p = "refused"  -> "refusing"
      [] p = "rejected" -> "refused"
      [] p \in {"spawned", "working"} -> "active"
      [] p = "ended"    -> IF st = "cancelled" THEN "cancelled" ELSE "done"
      [] p = "released" -> "freed"

batchPhases == [b \in Batches |-> Phase(b)]
stopAsked == {b \in Batches : cancelRequested[b]}

\* A phase is read off the program counter and the state, before a step and
\* after it.
LEMMA PhasesReadOff ==
    /\ batchPhases = [b \in Batches |-> PhaseOf(pc[b], state[b])]
    /\ batchPhases' = [b \in Batches |-> PhaseOf(pc'[b], state'[b])]
BY DEF batchPhases, Phase, PhaseOf

\* The phase holds a slot exactly where the code does.
LEMMA HoldingIsTakers ==
    ASSUME ControlTyped
    PROVE  Admission!Holding = SlotTakers
<1>1. ASSUME NEW b \in Batches
      PROVE  batchPhases[b] \in {"pending", "refusing", "active", "done", "cancelled"} <=> Slot(b)
    BY PhasesReadOff DEF ControlTyped, PCs, PhaseOf, Slot
<1>. QED
    BY <1>1 DEF Admission!Holding, SlotTakers, batchPhases

\* A step that moves one batch, and maybe its state, moves one phase.
LEMMA PhaseMoves ==
    ASSUME ControlTyped, NEW b \in Batches, NEW p \in PCs, NEW st \in States,
           pc' = [pc EXCEPT ![b] = p], state' = [state EXCEPT ![b] = st]
    PROVE  batchPhases' = [batchPhases EXCEPT ![b] = PhaseOf(p, st)]
BY PhasesReadOff DEF ControlTyped

\* A step that leaves the phases, the requests and closed alone is a stutter.
LEMMA AdmissionStutters ==
    ASSUME UNCHANGED <<closed, cancelRequested>>,
           \A c \in Batches : PhaseOf(pc'[c], state'[c]) = PhaseOf(pc[c], state[c])
    PROVE  UNCHANGED Admission!admissionVars
<1>1. batchPhases' = batchPhases
    BY PhasesReadOff
<1>. QED
    BY <1>1 DEF batchPhases, Admission!admissionVars

\* An accepted request to stop is an Ask; one that comes too late changes nothing.
LEMMA MarkAsks ==
    ASSUME Control, NEW b \in Batches, Registered(b), MarkCancelled(b), UNCHANGED <<closed, pc>>
    PROVE  Admission!Ask(b) \/ UNCHANGED Admission!admissionVars
<1>. USE DEF Control, ControlTyped
<1>1. CASE Terminal(state[b])
    BY <1>1, AdmissionStutters DEF MarkCancelled
<1>2. CASE ~Terminal(state[b])
    <2>1. pc[b] \in {"spawned", "working"}
        BY <1>2 DEF Staged, Over, Registered, Terminal
    <2>2. batchPhases[b] = "active"
        BY <2>1, PhasesReadOff DEF PhaseOf
    <2>3. batchPhases' = batchPhases
        BY <1>2, <2>1, PhasesReadOff DEF MarkCancelled, PhaseOf
    <2>4. stopAsked' = stopAsked \cup {b}
        BY <1>2 DEF MarkCancelled, stopAsked
    <2>. QED
        BY <2>2, <2>3, <2>4 DEF batchPhases, stopAsked, Admission!Ask
<1>. QED
    BY <1>1, <1>2

\* Every step of the manager is an abstract step or a stuttering step.
LEMMA AdmissionStep ==
    ASSUME Control, Slots, [Next]_vars
    PROVE  [Admission!ANext]_Admission!admissionVars
<1>. USE DEF Control, ControlTyped
<1>0. ASSUME NEW b \in Batches
      PROVE  state[b] \in States /\ state = [state EXCEPT ![b] = state[b]]
    OBVIOUS
<1>1. ASSUME NEW b \in Batches, Acquire(b) PROVE Admission!Take(b)
    <2>1. batchPhases[b] = "none"
        BY <1>1, PhasesReadOff DEF Acquire, PhaseOf
    <2>2. batchPhases' = [batchPhases EXCEPT ![b] = "pending"]
        <3>1. batchPhases' = [batchPhases EXCEPT ![b] = PhaseOf("acquired", state[b])]
            BY <1>0, <1>1, PhaseMoves DEF Acquire, PCs
        <3>. QED
            BY <3>1 DEF PhaseOf
    <2>3. Cardinality(Admission!Holding) < MaxConcurrentBatches
        BY <1>1, HoldingIsTakers DEF Acquire, Slots
    <2>. QED
        BY <1>1, <2>1, <2>2, <2>3 DEF Acquire, requestVars, batchPhases, Admission!Take,
           Admission!Move, Cardinality, Admission!Cardinality
<1>2. ASSUME NEW b \in Batches, Register(b) PROVE Admission!Decide(b)
    <2>1. batchPhases[b] = "pending"
        BY <1>2, PhasesReadOff DEF Register, PhaseOf
    <2>2. batchPhases' = [batchPhases EXCEPT ![b] = IF closed THEN "refusing" ELSE "active"]
        <3>1. CASE closed
            <4>1. pc' = [pc EXCEPT ![b] = "refused"] /\ state' = [state EXCEPT ![b] = state[b]]
                BY <1>2, <3>1 DEF Register
            <4>2. batchPhases' = [batchPhases EXCEPT ![b] = PhaseOf("refused", state[b])]
                BY <1>0, <4>1, PhaseMoves DEF PCs
            <4>. QED
                BY <3>1, <4>2 DEF PhaseOf
        <3>2. CASE ~closed
            <4>1. pc' = [pc EXCEPT ![b] = "spawned"] /\ state' = [state EXCEPT ![b] = "starting"]
                BY <1>2, <3>2 DEF Register
            <4>2. batchPhases' = [batchPhases EXCEPT ![b] = PhaseOf("spawned", "starting")]
                BY <4>1, PhaseMoves DEF PCs, States
            <4>. QED
                BY <3>2, <4>2 DEF PhaseOf
        <3>. QED
            BY <3>1, <3>2
    <2>. QED
        BY <1>2, <2>1, <2>2 DEF Register, managerVars, requestVars, batchPhases,
           Admission!Decide, Admission!Move
<1>3. ASSUME NEW b \in Batches, ReleaseRefused(b) PROVE Admission!Free(b)
    <2>1. batchPhases[b] = "refusing"
        BY <1>3, PhasesReadOff DEF ReleaseRefused, PhaseOf
    <2>2. batchPhases' = [batchPhases EXCEPT ![b] = "refused"]
        <3>1. batchPhases' = [batchPhases EXCEPT ![b] = PhaseOf("rejected", state[b])]
            BY <1>0, <1>3, PhaseMoves DEF ReleaseRefused, PCs
        <3>. QED
            BY <3>1 DEF PhaseOf
    <2>. QED
        BY <1>3, <2>1, <2>2 DEF ReleaseRefused, requestVars, batchPhases, Admission!Free,
           Admission!Move
<1>4. ASSUME NEW b \in Batches, Begin(b) PROVE UNCHANGED Admission!admissionVars
    BY <1>4, AdmissionStutters DEF Begin, managerVars, requestVars, PhaseOf
\* The context of a batch that still works ends only after its flag is set, so
\* the flag alone decides the outcome.
<1>5. ASSUME NEW b \in Batches, Complete(b) PROVE Admission!End(b)
    <2>1. batchPhases[b] = "active"
        BY <1>5, PhasesReadOff DEF Complete, PhaseOf
    <2>2. EndState(b) \in {"cancelled", "completed"} /\ (EndState(b) = "cancelled" <=> b \in stopAsked)
        BY <1>5 DEF EndState, stopAsked, Complete, Asked, Over
    <2>3. batchPhases' = [batchPhases EXCEPT ![b] = IF b \in stopAsked THEN "cancelled" ELSE "done"]
        <3>1. batchPhases' = [batchPhases EXCEPT ![b] = PhaseOf("ended", EndState(b))]
            BY <1>5, <2>2, PhaseMoves DEF Complete, PCs, States
        <3>. QED
            BY <2>2, <3>1 DEF PhaseOf
    <2>. QED
        BY <1>5, <2>1, <2>3 DEF Complete, managerVars, requestVars, batchPhases, stopAsked,
           Admission!End, Admission!Move
<1>6. ASSUME NEW b \in Batches, Release(b) PROVE Admission!Free(b)
    <2>1. batchPhases[b] \in {"done", "cancelled"}
        BY <1>6, PhasesReadOff DEF Release, PhaseOf
    <2>2. batchPhases' = [batchPhases EXCEPT ![b] = "freed"]
        <3>1. batchPhases' = [batchPhases EXCEPT ![b] = PhaseOf("released", state[b])]
            BY <1>0, <1>6, PhaseMoves DEF Release, PCs
        <3>. QED
            BY <3>1 DEF PhaseOf
    <2>. QED
        BY <1>6, <2>1, <2>2 DEF Release, requestVars, batchPhases, Admission!Free, Admission!Move
<1>7. ASSUME NEW b \in Batches, Cancel(b) \/ CloseVisit(b)
      PROVE  Admission!Ask(b) \/ UNCHANGED Admission!admissionVars
    <2>1. Registered(b) /\ MarkCancelled(b) /\ UNCHANGED <<closed, pc>>
        BY <1>7 DEF Cancel, CloseVisit, Asked, managerVars
    <2>. QED
        BY <2>1, MarkAsks
<1>8. ASSUME NEW b \in Batches, CancelReturns(b) PROVE UNCHANGED Admission!admissionVars
    BY <1>8, AdmissionStutters DEF CancelReturns, managerVars
<1>9. ASSUME CloseBegin PROVE Admission!Shut
    BY <1>9 DEF CloseBegin, requestVars, Phase, Admission!Shut
<1>10. ASSUME CloseCancels PROVE UNCHANGED Admission!admissionVars
    BY <1>10, AdmissionStutters DEF CloseCancels, requestVars
<1>11. ASSUME NEW b \in Batches, NEW w \in Workers(b), ByWorker(b, w)
       PROVE  UNCHANGED Admission!admissionVars
    BY <1>11, WorkerLeavesControl, AdmissionStutters DEF controlVars, requestVars
<1>12. CASE UNCHANGED vars
    BY <1>12, AdmissionStutters DEF vars, managerVars, requestVars
<1>. QED
    BY <1>1, <1>2, <1>3, <1>4, <1>5, <1>6, <1>7, <1>8, <1>9, <1>10, <1>11, <1>12
       DEF Next, ByWorker, StartStep, ExecuteStep, Admission!ANext

\* The batch manager implements the abstract admission: a batch is recorded as
\* cancelled exactly when it was asked to stop before its outcome was decided,
\* and its slot comes back once, after that.
THEOREM BatchAdmissionImplemented == Spec => ImplementsAdmission
<1>1. Init => Admission!AInit
    BY DEF Init, Phase, Admission!AInit
<1>2. Control /\ Slots /\ [Next]_vars => [Admission!ANext]_Admission!admissionVars
    BY AdmissionStep
<1>. QED
    BY <1>1, <1>2, BatchesGoOn, SlotsHold, PTL DEF Spec, ImplementsAdmission, Admission!ASpec
=============================================================================
