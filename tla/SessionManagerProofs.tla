------------------------ MODULE SessionManagerProofs ------------------------
(***************************************************************************)
(* Proofs about SessionManager, for any sessions, clients and bounds.      *)
(***************************************************************************)
EXTENDS SessionManager, FiniteSetTheorems, SequenceTheorems, TLAPS

-----------------------------------------------------------------------------
(* The event log and the fan-out.                                          *)

\* The bounded history stays a sequence of events.
LEMMA RememberTyped ==
    ASSUME NEW log \in Seq(Event), NEW e \in Event
    PROVE  Remember(log, e) \in Seq(Event)
<1>1. CASE Len(log) = MaxEventHistory
    <2>1. log # <<>>
        BY <1>1, SessionAssumption
    <2>2. Tail(log) \in Seq(Event)
        BY <2>1, HeadTailProperties
    <2>. QED
        BY <1>1, <2>2, AppendProperties DEF Remember
<1>2. CASE Len(log) # MaxEventHistory
    BY <1>2, AppendProperties DEF Remember
<1>. QED
    BY <1>1, <1>2

\* Emitting an event keeps the log, the subscriber sets and the channels typed.
LEMMA EmitTyped ==
    ASSUME FeedTyped, NEW s \in Sessions, NEW type \in EventTypes, EmitLocked(s, type)
    PROVE  FeedTyped'
<1>. DEFINE e == [seq |-> nextSequence[s] + 1, type |-> type]
<1>1. e \in Event
    BY DEF FeedTyped, Event
<1>2. nextSequence' \in [Sessions -> Nat]
    BY DEF FeedTyped, EmitLocked
<1>3. events' \in [Sessions -> Seq(Event)]
    <2>1. Remember(events[s], e) \in Seq(Event)
        BY <1>1, RememberTyped DEF FeedTyped
    <2>2. events' = [events EXCEPT ![s] = Remember(events[s], e)]
        BY DEF EmitLocked
    <2>. QED
        BY <2>1, <2>2 DEF FeedTyped
<1>4. subscribers' \in [Sessions -> SUBSET Clients]
    BY DEF FeedTyped, EmitLocked
<1>5. stream' \in [Clients -> Stream]
    <2>1. ASSUME NEW c \in Clients
          PROVE  /\ Drop(stream[c]) \in Stream
                 /\ [stream[c] EXCEPT !.buf = Append(stream[c].buf, e)] \in Stream
        <3>1. stream[c] \in Stream
            BY DEF FeedTyped
        <3>2. Append(stream[c].buf, e) \in Seq(Event)
            BY <1>1, <3>1, AppendProperties DEF Stream
        <3>. QED
            BY <3>1, <3>2 DEF Stream, Drop
    <2>2. stream' = [c \in Clients |->
                       IF c \in Slow(s) THEN Drop(stream[c])
                       ELSE IF c \in subscribers[s]
                            THEN [stream[c] EXCEPT !.buf = Append(stream[c].buf, e)]
                            ELSE stream[c]]
        BY DEF EmitLocked
    <2>. QED
        BY <2>1, <2>2 DEF FeedTyped
<1>. QED
    BY <1>2, <1>3, <1>4, <1>5 DEF FeedTyped

-----------------------------------------------------------------------------
(* Counting slots.                                                         *)

Holders == {s \in Sessions : HoldsSlot(s)}

\* The holders of a slot are finitely many, and none is missing from the count.
LEMMA HoldersFinite ==
    /\ IsFiniteSet(Holders)
    /\ Cardinality(Holders) \in Nat
    /\ \A s \in Sessions : HoldsSlot(s) => Cardinality(Holders) > 0
<1>1. IsFiniteSet(Holders)
    BY SessionAssumption, FS_Subset DEF Holders
<1>2. Cardinality(Holders) \in Nat
    BY <1>1, FS_CardinalityType
<1>3. ASSUME NEW s \in Sessions, HoldsSlot(s)
      PROVE  Cardinality(Holders) > 0
    BY <1>1, <1>2, <1>3, FS_EmptySet DEF Holders
<1>. QED
    BY <1>1, <1>2, <1>3

\* A step that gives one session a slot adds one to the count.
LEMMA HolderAdded ==
    ASSUME NEW s \in Sessions, ~HoldsSlot(s), HoldsSlot(s)',
           \A t \in Sessions \ {s} : HoldsSlot(t)' <=> HoldsSlot(t)
    PROVE  Cardinality(Holders)' = Cardinality(Holders) + 1
<1>1. Holders' = Holders \cup {s}
    BY DEF Holders
<1>2. s \notin Holders
    BY DEF Holders
<1>. QED
    BY <1>1, <1>2, HoldersFinite, FS_AddElement

\* A step that takes the slot of one session away subtracts one.
LEMMA HolderRemoved ==
    ASSUME NEW s \in Sessions, HoldsSlot(s), ~HoldsSlot(s)',
           \A t \in Sessions \ {s} : HoldsSlot(t)' <=> HoldsSlot(t)
    PROVE  Cardinality(Holders)' = Cardinality(Holders) - 1
<1>1. Holders' = Holders \ {s}
    BY DEF Holders
<1>2. s \in Holders
    BY DEF Holders
<1>. QED
    BY <1>1, <1>2, HoldersFinite, FS_RemoveElement

\* A step that moves no slot leaves the count alone.
LEMMA HoldersKept ==
    ASSUME \A t \in Sessions : HoldsSlot(t)' <=> HoldsSlot(t)
    PROVE  Cardinality(Holders)' = Cardinality(Holders)
<1>1. Holders' = Holders
    BY DEF Holders
<1>. QED
    BY <1>1

-----------------------------------------------------------------------------
(* Types.                                                                  *)

\* A request to stop changes the flag and the state within their types.
LEMMA MarkTyped ==
    ASSUME SessionTyped, NEW s \in Sessions, MarkCancelled(s)
    PROVE  /\ cancelRequested' \in [Sessions -> BOOLEAN]
           /\ state' \in [Sessions -> States]
<1>1. CASE Terminal(state[s])
    BY <1>1 DEF MarkCancelled, SessionTyped
<1>2. CASE ~Terminal(state[s])
    BY <1>2 DEF MarkCancelled, SessionTyped, States
<1>. QED
    BY <1>1, <1>2

\* A full slot count is positive wherever a slot is returned, so every step
\* keeps every variable typed.
LEMMA TypeStep ==
    ASSUME TypeOK, SlotAccounting, [Next]_vars
    PROVE  TypeOK'
<1>. USE DEF TypeOK
<1>1. ASSUME NEW s \in Sessions, HoldsSlot(s)
      PROVE  capacity - 1 \in Nat
    BY <1>1, HoldersFinite DEF SlotAccounting, Holders, ManagerTyped
<1>2. ASSUME NEW s \in Sessions, CreateStep(s)
      PROVE  TypeOK'
    <2>1. CASE Acquire(s)
        BY <2>1 DEF Acquire, ManagerTyped, SessionTyped, FeedTyped, ClientTyped, closeVars,
                    requestVars, runVars, outcomeVars, eventVars, logVars, feedVars, clientVars, PCs
    <2>2. CASE Register(s)
        BY <2>2 DEF Register, Admit, ManagerTyped, SessionTyped, FeedTyped, ClientTyped, closeVars,
                    managerVars, requestVars, runVars, outcomeVars, eventVars, logVars, feedVars,
                    clientVars, PCs, States
    <2>3. CASE ReleaseRefused(s)
        BY <1>1, <2>3 DEF ReleaseRefused, HoldsSlot, ManagerTyped, SessionTyped, FeedTyped,
                    ClientTyped, closeVars, requestVars, runVars, outcomeVars, eventVars, logVars,
                    feedVars, clientVars, PCs
    <2>. QED
        BY <1>2, <2>1, <2>2, <2>3 DEF CreateStep
<1>3. ASSUME NEW s \in Sessions, CancelStep(s)
      PROVE  TypeOK'
    <2>1. CASE Cancel(s)
        BY <2>1, MarkTyped DEF Cancel, ManagerTyped, SessionTyped, FeedTyped, ClientTyped,
                    closeVars, managerVars, runVars, outcomeVars, eventVars, logVars, feedVars,
                    clientVars
    <2>2. CASE CancelReturns(s)
        BY <2>2 DEF CancelReturns, CancelContext, ManagerTyped, SessionTyped, FeedTyped,
                    ClientTyped, closeVars, managerVars, outcomeVars, eventVars, logVars, feedVars,
                    clientVars
    <2>. QED
        BY <1>3, <2>1, <2>2 DEF CancelStep
<1>4. ASSUME CloseStep
      PROVE  TypeOK'
    <2>1. CASE CloseBegin
        BY <2>1 DEF CloseBegin, ManagerTyped, SessionTyped, FeedTyped, ClientTyped, sessionVars,
                    requestVars, runVars, outcomeVars, eventVars, logVars, feedVars, clientVars
    <2>2. CASE CloseCancels
        BY <2>2 DEF CloseCancels, CancelContext, ManagerTyped, SessionTyped, FeedTyped, ClientTyped,
                    requestVars, outcomeVars, eventVars, logVars, feedVars, clientVars
    <2>3. ASSUME NEW s \in Sessions, CloseVisit(s)
          PROVE  TypeOK'
        BY <2>3, MarkTyped DEF CloseVisit, ManagerTyped, SessionTyped, FeedTyped, ClientTyped,
                    runVars, outcomeVars, eventVars, logVars, feedVars, clientVars
    <2>. QED
        BY <1>4, <2>1, <2>2, <2>3 DEF CloseStep
<1>5. ASSUME NEW s \in Sessions, RunnerStep(s)
      PROVE  TypeOK'
    <2>1. CASE Deadline(s)
        BY <2>1 DEF Deadline, ManagerTyped, SessionTyped, FeedTyped, ClientTyped, closeVars,
                    managerVars, requestVars, outcomeVars, eventVars, logVars, feedVars, clientVars
    <2>2. CASE Progress(s)
        <3>1. FeedTyped'
            BY <2>2, EmitTyped DEF Progress, EventTypes
        <3>. QED
            BY <2>2, <3>1 DEF Progress, ManagerTyped, SessionTyped, ClientTyped, closeVars,
                    managerVars, sessionVars, requestVars, runVars, outcomeVars, clientVars
    <2>3. CASE Return(s)
        <3>1. result' \in [Sessions -> Result]
            BY <2>3, SessionAssumption DEF Return, FinalStatus, SessionTyped, Result, Statuses
        <3>. QED
            BY <2>3, <3>1 DEF Return, ManagerTyped, SessionTyped, FeedTyped, ClientTyped, closeVars,
                    managerVars, requestVars, outcomeVars, eventVars, logVars, feedVars, clientVars,
                    PCs
    <2>. QED
        BY <1>5, <2>1, <2>2, <2>3 DEF RunnerStep
<1>6. ASSUME NEW s \in Sessions, ExecuteStep(s)
      PROVE  TypeOK'
    <2>1. CASE Start(s)
        <3>1. FeedTyped'
            BY <2>1, EmitTyped DEF Start, EventTypes
        <3>. QED
            BY <2>1, <3>1 DEF Start, ManagerTyped, SessionTyped, ClientTyped, closeVars,
                    managerVars, requestVars, runVars, outcomeVars, clientVars, PCs
    <2>2. CASE Record(s)
        <3>1. result[s].status \in Statuses \cup {"none"} /\ result[s].failed \in BOOLEAN
            BY DEF SessionTyped, Result
        <3>2. EndState(s) \in States
            BY DEF EndState, States
        <3>. QED
            BY <2>2, <3>1, <3>2 DEF Record, ManagerTyped, SessionTyped, FeedTyped, ClientTyped,
                    closeVars, managerVars, requestVars, runVars, eventVars, logVars, feedVars,
                    clientVars, PCs
    <2>3. CASE EmitFinding(s)
        <3>1. FeedTyped'
            BY <2>3, EmitTyped DEF EmitFinding, EventTypes
        <3>2. result' \in [Sessions -> Result]
            BY <2>3 DEF EmitFinding, SessionTyped, Result
        <3>. QED
            BY <2>3, <3>1, <3>2 DEF EmitFinding, ManagerTyped, SessionTyped, ClientTyped, closeVars,
                    managerVars, requestVars, outcomeVars, clientVars
    <2>4. CASE EmitEnd(s)
        <3>1. EndType(s) \in EventTypes
            BY DEF EndType, EventTypes, EndTypes
        <3>2. FeedTyped'
            BY <2>4, <3>1, EmitTyped DEF EmitEnd
        <3>. QED
            BY <2>4, <3>2 DEF EmitEnd, ManagerTyped, SessionTyped, ClientTyped, closeVars,
                    managerVars, requestVars, runVars, outcomeVars, clientVars, PCs
    <2>5. CASE Seal(s)
        <3>1. stream' \in [Clients -> Stream]
            BY <2>5 DEF Seal, Drop, FeedTyped, Stream
        <3>. QED
            BY <2>5, <3>1 DEF Seal, ManagerTyped, SessionTyped, FeedTyped, ClientTyped, closeVars,
                    managerVars, requestVars, runVars, logVars, clientVars, PCs
    <2>6. CASE Release(s)
        <3>1. NoResult \in Result
            BY DEF NoResult, Result
        <3>. QED
            BY <1>1, <2>6, <3>1 DEF Release, CancelContext, HoldsSlot, ManagerTyped, SessionTyped,
                    FeedTyped, ClientTyped, closeVars, requestVars, outcomeVars, eventVars, logVars,
                    feedVars, clientVars, PCs
    <2>. QED
        BY <1>6, <2>1, <2>2, <2>3, <2>4, <2>5, <2>6 DEF ExecuteStep
<1>7. ASSUME NEW c \in Clients, ClientStep(c)
      PROVE  TypeOK'
    <2>. /\ stream[c].buf \in Seq(Event)
         /\ stream[c].cap \in Nat
         /\ stream[c].open \in BOOLEAN
        BY DEF FeedTyped, Stream
    <2>1. ASSUME NEW s \in Sessions, Subscribe(c, s)
          PROVE  TypeOK'
        <3>1. Replay(s, cursor[c]) \in Seq(Event)
            <4>. DEFINE m == IF cursor[c] > Forgotten(s) THEN cursor[c] - Forgotten(s) + 1 ELSE 1
            <4>1. events[s] \in Seq(Event) /\ Len(events[s]) \in Nat
                BY LenProperties DEF FeedTyped
            <4>2. m \in Int /\ m >= 1
                BY <4>1 DEF Forgotten, FeedTyped, ClientTyped
            <4>3. \A i \in m..Len(events[s]) : events[s][i] \in Event
                BY <4>1, <4>2, ElementOfSeq
            <4>. QED
                BY <4>1, <4>2, <4>3, SubSeqProperties DEF Replay
        <3>2. ReplayCap(s) \in Nat
            BY SessionAssumption, LenProperties DEF ReplayCap, FeedTyped
        <3>3. Joins(s) \in BOOLEAN
            BY DEF Joins, Terminal
        <3>4. stream' \in [Clients -> Stream]
            BY <2>1, <3>1, <3>2, <3>3 DEF Subscribe, FeedTyped, Stream
        <3>. QED
            BY <2>1, <3>4 DEF Subscribe, ManagerTyped, SessionTyped, FeedTyped, ClientTyped,
                    closeVars, managerVars, sessionVars, requestVars, runVars, outcomeVars, logVars
    <2>2. CASE Write(c)
        <3>1. Head(stream[c].buf) \in Event /\ Tail(stream[c].buf) \in Seq(Event)
            BY <2>2, HeadTailProperties DEF Write
        <3>2. stream' \in [Clients -> Stream]
            BY <2>2, <3>1 DEF Write, FeedTyped, Stream
        <3>3. cursor' \in [Clients -> Nat]
            BY <2>2, <3>1 DEF Write, ClientTyped, Event
        <3>4. finished' \in [Clients -> BOOLEAN]
            BY <2>2, <3>1 DEF Write, ClientTyped
        <3>5. handler' \in [Clients -> {"idle", "streaming", "returning"}]
            BY <2>2 DEF Write, ClientTyped
        <3>. QED
            BY <2>2, <3>2, <3>3, <3>4, <3>5 DEF Write, ManagerTyped, SessionTyped, FeedTyped,
                    ClientTyped, closeVars, managerVars, sessionVars, requestVars, runVars,
                    outcomeVars, logVars
    <2>3. CASE StreamClosed(c)
        BY <2>3 DEF StreamClosed, ManagerTyped, SessionTyped, FeedTyped, ClientTyped, closeVars,
                    managerVars, sessionVars, requestVars, runVars, outcomeVars, logVars, feedVars
    <2>4. CASE LoseConnection(c)
        BY <2>4 DEF LoseConnection, ManagerTyped, SessionTyped, FeedTyped, ClientTyped, closeVars,
                    managerVars, sessionVars, requestVars, runVars, outcomeVars, logVars, feedVars
    <2>5. CASE Unsubscribe(c)
        <3>1. NoStream \in Stream
            BY EmptySeq DEF NoStream, Stream
        <3>. QED
            BY <2>5, <3>1 DEF Unsubscribe, ManagerTyped, SessionTyped, FeedTyped, ClientTyped,
                    closeVars, managerVars, sessionVars, requestVars, runVars, outcomeVars, logVars
    <2>. QED
        BY <1>7, <2>1, <2>2, <2>3, <2>4, <2>5 DEF ClientStep
<1>8. CASE UNCHANGED vars
    BY <1>8 DEF vars, ManagerTyped, SessionTyped, FeedTyped, ClientTyped, closeVars, managerVars,
                sessionVars, requestVars, runVars, outcomeVars, eventVars, logVars, feedVars,
                clientVars
<1>. QED
    BY <1>2, <1>3, <1>4, <1>5, <1>6, <1>7, <1>8 DEF Next

-----------------------------------------------------------------------------
(* Slots.                                                                  *)

\* Every step moves a token exactly when it moves a holder.
LEMMA SlotStep ==
    ASSUME TypeOK, SlotAccounting, [Next]_vars
    PROVE  SlotAccounting'
<1>. USE DEF TypeOK, ManagerTyped, SessionTyped, SlotAccounting, Holders
<1>1. ASSUME capacity' = capacity, \A t \in Sessions : HoldsSlot(t)' <=> HoldsSlot(t)
      PROVE  SlotAccounting'
    BY <1>1, HoldersKept
<1>2. ASSUME NEW s \in Sessions, CreateStep(s)
      PROVE  SlotAccounting'
    <2>1. CASE Acquire(s)
        <3>1. /\ ~HoldsSlot(s) /\ HoldsSlot(s)'
              /\ \A t \in Sessions \ {s} : HoldsSlot(t)' <=> HoldsSlot(t)
              /\ capacity' = capacity + 1 /\ capacity < MaxConcurrent
            BY <2>1 DEF Acquire, HoldsSlot
        <3>. QED
            BY <3>1, HolderAdded, SessionAssumption
    <2>2. CASE Register(s)
        BY <1>1, <2>2 DEF Register, Admit, managerVars, HoldsSlot
    <2>3. CASE ReleaseRefused(s)
        <3>1. /\ HoldsSlot(s) /\ ~HoldsSlot(s)'
              /\ \A t \in Sessions \ {s} : HoldsSlot(t)' <=> HoldsSlot(t)
              /\ capacity' = capacity - 1
            BY <2>3 DEF ReleaseRefused, HoldsSlot
        <3>. QED
            BY <3>1, HolderRemoved, SessionAssumption
    <2>. QED
        BY <1>2, <2>1, <2>2, <2>3 DEF CreateStep
<1>3. ASSUME NEW s \in Sessions, ExecuteStep(s)
      PROVE  SlotAccounting'
    <2>1. CASE Start(s) \/ Record(s)
        BY <1>1, <2>1 DEF Start, Record, managerVars, HoldsSlot
    <2>2. CASE EmitFinding(s) \/ EmitEnd(s) \/ Seal(s)
        BY <1>1, <2>2 DEF EmitFinding, EmitEnd, Seal, managerVars, HoldsSlot
    <2>3. CASE Release(s)
        <3>1. /\ HoldsSlot(s) /\ ~HoldsSlot(s)'
              /\ \A t \in Sessions \ {s} : HoldsSlot(t)' <=> HoldsSlot(t)
              /\ capacity' = capacity - 1
            BY <2>3 DEF Release, HoldsSlot
        <3>. QED
            BY <3>1, HolderRemoved, SessionAssumption
    <2>. QED
        BY <1>3, <2>1, <2>2, <2>3 DEF ExecuteStep
<1>4. ASSUME NEW s \in Sessions, RunnerStep(s) \/ CancelStep(s)
      PROVE  SlotAccounting'
    <2>1. CASE Deadline(s) \/ Progress(s) \/ Return(s)
        BY <1>1, <2>1 DEF Deadline, Progress, Return, managerVars, sessionVars, HoldsSlot
    <2>2. CASE Cancel(s) \/ CancelReturns(s)
        BY <1>1, <2>2 DEF Cancel, CancelReturns, managerVars, HoldsSlot
    <2>. QED
        BY <1>4, <2>1, <2>2 DEF RunnerStep, CancelStep
<1>5. ASSUME CloseStep
      PROVE  SlotAccounting'
    BY <1>1, <1>5 DEF CloseStep, CloseBegin, CloseCancels, CloseVisit, sessionVars, HoldsSlot
<1>6. ASSUME NEW c \in Clients, ClientStep(c)
      PROVE  SlotAccounting'
    BY <1>1, <1>6 DEF ClientStep, Subscribe, Write, StreamClosed, LoseConnection, Unsubscribe,
                      managerVars, sessionVars, HoldsSlot
<1>7. CASE UNCHANGED vars
    BY <1>1, <1>7 DEF vars, managerVars, sessionVars, HoldsSlot
<1>. QED
    BY <1>2, <1>3, <1>4, <1>5, <1>6, <1>7 DEF Next

\* Initially every variable is typed and no slot is taken.
LEMMA InitTypedAndFree ==
    ASSUME Init
    PROVE  TypeOK /\ SlotAccounting
<1>1. FeedTyped
    BY EmptySeq DEF Init, FeedTyped, NoStream, Stream
<1>2. SessionTyped
    BY DEF Init, SessionTyped, PCs, States, Result, NoResult
<1>3. ManagerTyped /\ ClientTyped
    BY DEF Init, ManagerTyped, ClientTyped
<1>4. SlotAccounting
    <2>1. {s \in Sessions : HoldsSlot(s)} = {}
        BY DEF Init, HoldsSlot
    <2>2. Cardinality({s \in Sessions : HoldsSlot(s)}) = 0
        BY <2>1, FS_EmptySet
    <2>3. capacity = 0 /\ MaxConcurrent \in Nat
        BY SessionAssumption DEF Init
    <2>. QED
        BY <2>2, <2>3 DEF SlotAccounting
<1>. QED
    BY <1>1, <1>2, <1>3, <1>4 DEF TypeOK

\* Types and slot counts are inductive only together: a token is returned from
\* a count that is positive because a holder exists.
LEMMA TypedAndBalanced == Spec => [](TypeOK /\ SlotAccounting)
<1>1. Init => TypeOK /\ SlotAccounting
    BY InitTypedAndFree
<1>2. TypeOK /\ SlotAccounting /\ [Next]_vars => (TypeOK /\ SlotAccounting)'
    BY TypeStep, SlotStep
<1>. QED
    BY <1>1, <1>2, PTL DEF Spec

\* Every variable of the session manager, of its sessions and of its clients
\* always has its type; in particular the token count never goes below zero.
THEOREM TypeCorrect == Spec => []TypeOK
BY TypedAndBalanced, PTL

\* No execution of Create, Cancel, Close and execute leaks a capacity token or
\* returns one twice, and no more than MaxConcurrent sessions hold one.
THEOREM SlotsBalance == Spec => []SlotAccounting
BY TypedAndBalanced, PTL

-----------------------------------------------------------------------------
(* The lifecycle.                                                          *)

\* The state a session is in follows from where its goroutine stands.
Staged(s) ==
    /\ ~Registered(s) => state[s] = "none" /\ ~cancelRequested[s]
    /\ pc[s] \in {"spawned", "running", "returned"} => state[s] \in {"running", "cancelling"}
    /\ pc[s] \in {"recording", "sealing", "ended", "released"} => Terminal(state[s])

\* Close only holds sessions that were published before it.
CloseListed == \A s \in closeList : Registered(s)

\* The inductive invariant of cancellation and shutdown.
Lifecycle ==
    /\ \A s \in Sessions : Staged(s)
    /\ CloseListed
    /\ CancelHonoured
    /\ ClosedMeansCancelled

\* What Lifecycle is about.
lifeVars == <<closed, closeList, pc, state, cancelRequested>>

\* A step that leaves lifeVars alone preserves Lifecycle.
LEMMA LifecycleKept ==
    ASSUME Lifecycle, UNCHANGED lifeVars
    PROVE  Lifecycle'
BY DEF Lifecycle, lifeVars, Staged, CloseListed, CancelHonoured, ClosedMeansCancelled, Registered,
       Terminal

\* A request to stop that is accepted is recorded before the outcome is decided.
LEMMA MarkKeepsLifecycle ==
    ASSUME TypeOK, Lifecycle, NEW s \in Sessions, Registered(s), MarkCancelled(s),
           UNCHANGED <<closed, pc>>, closeList' \in {closeList, closeList \ {s}}
    PROVE  Lifecycle'
<1>. USE DEF TypeOK, SessionTyped, Lifecycle
<1>1. \A t \in Sessions : pc'[t] = pc[t] /\ (Registered(t)' <=> Registered(t))
    BY DEF Registered
<1>2. CASE Terminal(state[s])
    BY <1>1, <1>2 DEF MarkCancelled, Staged, CloseListed, CancelHonoured, ClosedMeansCancelled,
                      ManagerTyped
<1>3. CASE ~Terminal(state[s])
    <2>1. \A t \in Sessions : t # s => state'[t] = state[t] /\ cancelRequested'[t] = cancelRequested[t]
        BY <1>3 DEF MarkCancelled
    <2>2. state'[s] \in {"running", "cancelling"} /\ cancelRequested'[s] = TRUE
        BY <1>3 DEF MarkCancelled, Staged, Registered
    <2>3. \A t \in Sessions : Staged(t)'
        BY <1>1, <1>3, <2>1, <2>2 DEF Staged, Registered, Terminal
    <2>4. CloseListed'
        BY <1>1 DEF CloseListed, ManagerTyped
    <2>5. CancelHonoured'
        BY <2>1, <2>2 DEF CancelHonoured, Terminal
    <2>6. ClosedMeansCancelled'
        BY <1>1, <2>1, <2>2 DEF ClosedMeansCancelled, Terminal
    <2>. QED
        BY <2>3, <2>4, <2>5, <2>6
<1>. QED
    BY <1>2, <1>3

\* Every step preserves Lifecycle.
LEMMA LifecycleStep ==
    ASSUME TypeOK, Lifecycle, [Next]_vars
    PROVE  Lifecycle'
<1>. USE DEF TypeOK, ManagerTyped, SessionTyped
<1>1. ASSUME NEW s \in Sessions, CreateStep(s)
      PROVE  Lifecycle'
    <2>1. CASE Acquire(s) \/ ReleaseRefused(s)
        BY <2>1 DEF Acquire, ReleaseRefused, closeVars, requestVars, Lifecycle, Staged, CloseListed,
                    CancelHonoured, ClosedMeansCancelled, Registered, Terminal
    <2>2. CASE Register(s)
        BY <2>2 DEF Register, Admit, managerVars, closeVars, requestVars, Lifecycle, Staged,
                    CloseListed, CancelHonoured, ClosedMeansCancelled, Registered, Terminal
    <2>. QED
        BY <1>1, <2>1, <2>2 DEF CreateStep
<1>2. ASSUME NEW s \in Sessions, ExecuteStep(s)
      PROVE  Lifecycle'
    <2>1. CASE Start(s) \/ EmitEnd(s) \/ Seal(s) \/ Release(s)
        BY <2>1 DEF Start, EmitEnd, Seal, Release, managerVars, closeVars, requestVars, Lifecycle,
                    Staged, CloseListed, CancelHonoured, ClosedMeansCancelled, Registered, Terminal
    <2>2. CASE EmitFinding(s)
        BY <2>2, LifecycleKept DEF EmitFinding, managerVars, closeVars, requestVars, lifeVars
    <2>3. CASE Record(s)
        BY <2>3 DEF Record, EndState, managerVars, closeVars, requestVars, Lifecycle, Staged,
                    CloseListed, CancelHonoured, ClosedMeansCancelled, Registered, Terminal
    <2>. QED
        BY <1>2, <2>1, <2>2, <2>3 DEF ExecuteStep
<1>3. ASSUME NEW s \in Sessions, RunnerStep(s)
      PROVE  Lifecycle'
    <2>1. CASE Deadline(s) \/ Progress(s)
        BY <2>1, LifecycleKept DEF Deadline, Progress, managerVars, closeVars, sessionVars,
                    requestVars, lifeVars
    <2>2. CASE Return(s)
        BY <2>2 DEF Return, managerVars, closeVars, requestVars, Lifecycle, Staged, CloseListed,
                    CancelHonoured, ClosedMeansCancelled, Registered, Terminal
    <2>. QED
        BY <1>3, <2>1, <2>2 DEF RunnerStep
<1>4. ASSUME NEW s \in Sessions, CancelStep(s)
      PROVE  Lifecycle'
    <2>1. CASE Cancel(s)
        BY <2>1, MarkKeepsLifecycle DEF Cancel, managerVars, closeVars
    <2>2. CASE CancelReturns(s)
        BY <2>2, LifecycleKept DEF CancelReturns, managerVars, closeVars, lifeVars
    <2>. QED
        BY <1>4, <2>1, <2>2 DEF CancelStep
<1>5. ASSUME CloseStep
      PROVE  Lifecycle'
    <2>1. CASE CloseBegin
        BY <2>1 DEF CloseBegin, sessionVars, requestVars, Lifecycle, Staged, CloseListed,
                    CancelHonoured, ClosedMeansCancelled, Registered, Terminal
    <2>2. CASE CloseCancels
        BY <2>2, LifecycleKept DEF CloseCancels, requestVars, lifeVars
    <2>3. ASSUME NEW s \in Sessions, CloseVisit(s)
          PROVE  Lifecycle'
        <3>1. Registered(s)
            BY <2>3 DEF CloseVisit, Lifecycle, CloseListed
        <3>. QED
            BY <2>3, <3>1, MarkKeepsLifecycle DEF CloseVisit
    <2>. QED
        BY <1>5, <2>1, <2>2, <2>3 DEF CloseStep
<1>6. ASSUME NEW c \in Clients, ClientStep(c)
      PROVE  Lifecycle'
    BY <1>6, LifecycleKept DEF ClientStep, Subscribe, Write, StreamClosed, LoseConnection,
             Unsubscribe, managerVars, closeVars, sessionVars, requestVars, lifeVars
<1>7. CASE UNCHANGED vars
    BY <1>7, LifecycleKept DEF vars, managerVars, closeVars, sessionVars, requestVars, lifeVars
<1>. QED
    BY <1>1, <1>2, <1>3, <1>4, <1>5, <1>6, <1>7 DEF Next

\* The inductive invariant holds throughout.
LEMMA LifecycleHolds == Spec => []Lifecycle
<1>1. Init => Lifecycle
    BY DEF Init, Lifecycle, Staged, CloseListed, CancelHonoured, ClosedMeansCancelled, Registered,
           Terminal
<1>2. TypeOK /\ Lifecycle /\ [Next]_vars => Lifecycle'
    BY LifecycleStep
<1>. QED
    BY <1>1, <1>2, TypeCorrect, PTL DEF Spec

\* However Cancel and Close interleave with execute, a terminal session is
\* cancelled if and only if a request to stop was accepted before its result.
THEOREM CancellationDecides == Spec => []CancelHonoured
<1>1. Lifecycle => CancelHonoured
    BY DEF Lifecycle
<1>. QED
    BY <1>1, LifecycleHolds, PTL

\* No session slips past Close: one that is not terminal has been asked to stop
\* or is still on the list Close is working through.
THEOREM CloseReachesAll == Spec => []ClosedMeansCancelled
<1>1. Lifecycle => ClosedMeansCancelled
    BY DEF Lifecycle
<1>. QED
    BY <1>1, LifecycleHolds, PTL

-----------------------------------------------------------------------------
(* What a terminal session shows.                                          *)

\* done is closed exactly by the last critical section of execute.
DoneWhenEnded == \A s \in Sessions : done[s] <=> pc[s] \in {"ended", "released"}

\* Every step preserves DoneWhenEnded.
LEMMA DoneStep ==
    ASSUME TypeOK, DoneWhenEnded, [Next]_vars
    PROVE  DoneWhenEnded'
<1>. USE DEF TypeOK, SessionTyped, DoneWhenEnded
<1>1. ASSUME NEW s \in Sessions, CreateStep(s)
      PROVE  DoneWhenEnded'
    BY <1>1 DEF CreateStep, Acquire, Register, Admit, ReleaseRefused, outcomeVars
<1>2. ASSUME NEW s \in Sessions, ExecuteStep(s)
      PROVE  DoneWhenEnded'
    <2>1. CASE Start(s) \/ Record(s) \/ EmitFinding(s) \/ EmitEnd(s)
        BY <2>1 DEF Start, Record, EmitFinding, EmitEnd, outcomeVars
    <2>2. CASE Seal(s) \/ Release(s)
        BY <2>2 DEF Seal, Release, outcomeVars
    <2>. QED
        BY <1>2, <2>1, <2>2 DEF ExecuteStep
<1>3. ASSUME NEW s \in Sessions, RunnerStep(s) \/ CancelStep(s)
      PROVE  DoneWhenEnded'
    BY <1>3 DEF RunnerStep, Deadline, Progress, Return, CancelStep, Cancel, CancelReturns,
                outcomeVars, sessionVars
<1>4. ASSUME CloseStep
      PROVE  DoneWhenEnded'
    BY <1>4 DEF CloseStep, CloseBegin, CloseCancels, CloseVisit, outcomeVars, sessionVars
<1>5. ASSUME NEW c \in Clients, ClientStep(c)
      PROVE  DoneWhenEnded'
    BY <1>5 DEF ClientStep, Subscribe, Write, StreamClosed, LoseConnection, Unsubscribe,
                outcomeVars, sessionVars
<1>6. CASE UNCHANGED vars
    BY <1>6 DEF vars, outcomeVars, sessionVars
<1>. QED
    BY <1>1, <1>2, <1>3, <1>4, <1>5, <1>6 DEF Next

\* What is shown of session t.
Shown(t) == <<state[t], report[t], cancelRequested[t], events[t], done[t]>>

\* No step changes what is shown of a session that is done.
LEMMA DoneIsFinal ==
    ASSUME TypeOK, Lifecycle, DoneWhenEnded, [Next]_vars, NEW t \in Sessions, done[t]
    PROVE  UNCHANGED Shown(t)
<1>. USE DEF TypeOK, SessionTyped, FeedTyped, Shown
<1>1. pc[t] \in {"ended", "released"} /\ Terminal(state[t])
    BY DEF DoneWhenEnded, Lifecycle, Staged
<1>2. ASSUME NEW s \in Sessions, CreateStep(s)
      PROVE  UNCHANGED Shown(t)
    BY <1>1, <1>2 DEF CreateStep, Acquire, Register, ReleaseRefused, outcomeVars, requestVars,
                      eventVars, logVars
<1>3. ASSUME NEW s \in Sessions, ExecuteStep(s)
      PROVE  UNCHANGED Shown(t)
    <2>1. CASE Start(s) \/ EmitFinding(s) \/ EmitEnd(s)
        BY <1>1, <2>1 DEF Start, EmitFinding, EmitEnd, EmitLocked, outcomeVars, requestVars
    <2>2. CASE Record(s) \/ Seal(s) \/ Release(s)
        BY <1>1, <2>2 DEF Record, Seal, Release, outcomeVars, requestVars, eventVars, logVars
    <2>. QED
        BY <1>3, <2>1, <2>2 DEF ExecuteStep
<1>4. ASSUME NEW s \in Sessions, RunnerStep(s)
      PROVE  UNCHANGED Shown(t)
    BY <1>1, <1>4 DEF RunnerStep, Deadline, Progress, Return, EmitLocked, sessionVars, outcomeVars,
                      requestVars, eventVars, logVars
<1>5. ASSUME NEW s \in Sessions, MarkCancelled(s), UNCHANGED <<outcomeVars, logVars>>
      PROVE  UNCHANGED Shown(t)
    BY <1>1, <1>5 DEF MarkCancelled, outcomeVars, logVars
<1>6. ASSUME NEW s \in Sessions, CancelStep(s)
      PROVE  UNCHANGED Shown(t)
    BY <1>5, <1>6 DEF CancelStep, Cancel, CancelReturns, outcomeVars, eventVars, logVars
<1>7. ASSUME CloseStep
      PROVE  UNCHANGED Shown(t)
    BY <1>5, <1>7 DEF CloseStep, CloseBegin, CloseCancels, CloseVisit, sessionVars, outcomeVars,
                      requestVars, eventVars, logVars
<1>8. ASSUME NEW c \in Clients, ClientStep(c)
      PROVE  UNCHANGED Shown(t)
    BY <1>8 DEF ClientStep, Subscribe, Write, StreamClosed, LoseConnection, Unsubscribe,
                sessionVars, outcomeVars, requestVars, logVars
<1>9. CASE UNCHANGED vars
    BY <1>9 DEF vars, sessionVars, outcomeVars, requestVars, eventVars, logVars
<1>. QED
    BY <1>2, <1>3, <1>4, <1>6, <1>7, <1>8, <1>9 DEF Next

\* Nothing a client may have read of a terminal session changes afterwards:
\* not its state, report, cancellation flag or events, and done stays closed.
THEOREM TerminalStays == Spec => TerminalIsFinal
<1>. DEFINE Keeps == \A s \in Sessions : done[s] =>
               UNCHANGED <<state[s], report[s], cancelRequested[s], events[s], done[s]>>
<1>1. Init => DoneWhenEnded
    BY DEF Init, DoneWhenEnded
<1>2. TypeOK /\ DoneWhenEnded /\ [Next]_vars => DoneWhenEnded'
    BY DoneStep
<1>3. TypeOK /\ Lifecycle /\ DoneWhenEnded /\ [Next]_vars => [Keeps]_vars
    BY DoneIsFinal DEF Shown
<1>. QED
    BY <1>1, <1>2, <1>3, TypeCorrect, LifecycleHolds, PTL DEF Spec, TerminalIsFinal

-----------------------------------------------------------------------------
(* SessionManager implements JobAdmission: every step of the manager is a   *)
(* step of the abstract admission or leaves it alone.                       *)

\* The phase of a session once its goroutine stands at p, in state st.
PhaseAt(p, st) ==
    CASE p = "idle"     -> "none"
      [] p = "acquired" -> "pending"
      [] p = "refused"  -> "refusing"
      [] p = "rejected" -> "refused"
      [] p \in {"spawned", "running", "returned"} -> "active"
      [] p \in {"recording", "sealing", "ended"} ->
           IF st = "cancelled" THEN "cancelled" ELSE "done"
      [] p = "released" -> "freed"

\* The phases of all sessions, in this state and in the next.
phases == [s \in Sessions |-> Phase(s)]
askedSet == {s \in Sessions : cancelRequested[s]}

\* A phase is read off the program counter and the state, before a step and after it.
LEMMA PhaseIsPhaseAt ==
    /\ phases = [s \in Sessions |-> PhaseAt(pc[s], state[s])]
    /\ phases' = [s \in Sessions |-> PhaseAt(pc'[s], state'[s])]
BY DEF phases, Phase, PhaseAt

\* The phase holds a slot exactly where the code does.
LEMMA HoldingIsHolders ==
    ASSUME TypeOK
    PROVE  Admission!Holding = Holders
<1>1. ASSUME NEW s \in Sessions
      PROVE  phases[s] \in {"pending", "refusing", "active", "done", "cancelled"} <=> HoldsSlot(s)
    BY PhaseIsPhaseAt DEF TypeOK, SessionTyped, PCs, PhaseAt, HoldsSlot
<1>. QED
    BY <1>1 DEF Admission!Holding, Holders, phases

\* A step that moves one session and leaves the states alone moves one phase.
LEMMA OnePhaseMoves ==
    ASSUME TypeOK, NEW s \in Sessions, NEW p,
           pc' = [pc EXCEPT ![s] = p], state' = state
    PROVE  phases' = [phases EXCEPT ![s] = PhaseAt(p, state[s])]
BY PhaseIsPhaseAt DEF TypeOK, SessionTyped

\* A step that moves one session and its state moves one phase.
LEMMA OneStateMoves ==
    ASSUME TypeOK, NEW s \in Sessions, NEW p, NEW st,
           pc' = [pc EXCEPT ![s] = p], state' = [state EXCEPT ![s] = st]
    PROVE  phases' = [phases EXCEPT ![s] = PhaseAt(p, st)]
BY PhaseIsPhaseAt DEF TypeOK, SessionTyped

\* A step that changes neither the phases, nor the requests, nor closed is a
\* stuttering step of the abstract specification.
LEMMA Stutters ==
    ASSUME TypeOK, UNCHANGED <<closed, cancelRequested>>,
           \A t \in Sessions : PhaseAt(pc'[t], state'[t]) = PhaseAt(pc[t], state[t])
    PROVE  UNCHANGED Admission!admissionVars
<1>1. phases' = phases
    BY PhaseIsPhaseAt
<1>. QED
    BY <1>1 DEF phases, Admission!admissionVars

\* An accepted request to stop is an Ask; one that comes too late changes nothing.
LEMMA MarkIsAsk ==
    ASSUME TypeOK, Lifecycle, NEW s \in Sessions, Registered(s), MarkCancelled(s),
           UNCHANGED <<closed, pc>>
    PROVE  Admission!Ask(s) \/ UNCHANGED Admission!admissionVars
<1>. USE DEF TypeOK, SessionTyped
<1>1. CASE Terminal(state[s])
    BY <1>1, Stutters DEF MarkCancelled
<1>2. CASE ~Terminal(state[s])
    <2>1. pc[s] \in {"spawned", "running", "returned"}
        BY <1>2 DEF Lifecycle, Staged, Registered
    <2>2. phases[s] = "active"
        BY <2>1, PhaseIsPhaseAt DEF PhaseAt
    <2>3. phases' = phases
        BY <1>2, <2>1, PhaseIsPhaseAt DEF MarkCancelled, PhaseAt
    <2>4. askedSet' = askedSet \cup {s}
        BY <1>2 DEF MarkCancelled, askedSet
    <2>. QED
        BY <2>2, <2>3, <2>4 DEF phases, askedSet, Admission!Ask
<1>. QED
    BY <1>1, <1>2

\* Every step of the manager is an abstract step or a stuttering step.
LEMMA AdmissionStep ==
    ASSUME TypeOK, SlotAccounting, Lifecycle, [Next]_vars
    PROVE  [Admission!ANext]_Admission!admissionVars
<1>. USE DEF TypeOK, ManagerTyped, SessionTyped
<1>1. ASSUME NEW s \in Sessions, CreateStep(s)
      PROVE  Admission!Take(s) \/ Admission!Decide(s) \/ Admission!Free(s)
    <2>1. CASE Acquire(s)
        <3>1. phases[s] = "none"
            BY <2>1, PhaseIsPhaseAt DEF Acquire, PhaseAt
        <3>2. phases' = [phases EXCEPT ![s] = "pending"]
            <4>1. phases' = [phases EXCEPT ![s] = PhaseAt("acquired", state[s])]
                BY <2>1, OnePhaseMoves DEF Acquire
            <4>. QED
                BY <4>1 DEF PhaseAt
        <3>3. Cardinality(Admission!Holding) < MaxConcurrent
            BY <2>1, HoldingIsHolders DEF Acquire, SlotAccounting, Holders
        <3>. QED
            BY <2>1, <3>1, <3>2, <3>3 DEF Acquire, closeVars, requestVars, phases, Admission!Take,
               Admission!Move, Cardinality, Admission!Cardinality
    <2>2. CASE Register(s)
        <3>1. phases[s] = "pending"
            BY <2>2, PhaseIsPhaseAt DEF Register, PhaseAt
        <3>2. phases' = [phases EXCEPT ![s] = IF closed THEN "refusing" ELSE "active"]
            <4>1. CASE closed
                <5>1. phases' = [phases EXCEPT ![s] = PhaseAt("refused", state[s])]
                    BY <2>2, <4>1, OnePhaseMoves DEF Register, Admit
                <5>. QED
                    BY <4>1, <5>1 DEF PhaseAt
            <4>2. CASE ~closed
                <5>1. pc' = [pc EXCEPT ![s] = "spawned"] /\ state' = [state EXCEPT ![s] = "running"]
                    BY <2>2, <4>2 DEF Register, Admit
                <5>2. phases' = [phases EXCEPT ![s] = PhaseAt("spawned", "running")]
                    BY <5>1, OneStateMoves
                <5>. QED
                    BY <4>2, <5>2 DEF PhaseAt
            <4>. QED
                BY <4>1, <4>2
        <3>. QED
            BY <2>2, <3>1, <3>2 DEF Register, managerVars, closeVars, requestVars, phases,
               Admission!Decide, Admission!Move
    <2>3. CASE ReleaseRefused(s)
        <3>1. phases[s] = "refusing"
            BY <2>3, PhaseIsPhaseAt DEF ReleaseRefused, PhaseAt
        <3>2. phases' = [phases EXCEPT ![s] = "refused"]
            <4>1. phases' = [phases EXCEPT ![s] = PhaseAt("rejected", state[s])]
                BY <2>3, OnePhaseMoves DEF ReleaseRefused
            <4>. QED
                BY <4>1 DEF PhaseAt
        <3>. QED
            BY <2>3, <3>1, <3>2 DEF ReleaseRefused, closeVars, requestVars, phases, Admission!Free,
               Admission!Move
    <2>. QED
        BY <1>1, <2>1, <2>2, <2>3 DEF CreateStep
<1>2. ASSUME NEW s \in Sessions, ExecuteStep(s)
      PROVE  Admission!End(s) \/ Admission!Free(s) \/ UNCHANGED Admission!admissionVars
    <2>1. CASE Start(s) \/ EmitFinding(s) \/ EmitEnd(s) \/ Seal(s)
        BY <2>1, Stutters DEF Start, EmitFinding, EmitEnd, Seal, managerVars, closeVars,
           requestVars, PhaseAt
    <2>2. CASE Record(s)
        <3>1. phases[s] = "active"
            BY <2>2, PhaseIsPhaseAt DEF Record, PhaseAt
        <3>2. phases' = [phases EXCEPT ![s] = IF s \in askedSet THEN "cancelled" ELSE "done"]
            <4>. HIDE DEF TypeOK
            <4>0. pc' = [pc EXCEPT ![s] = "recording"] /\ state' = [state EXCEPT ![s] = EndState(s)]
                BY <2>2 DEF Record
            <4>1. phases' = [phases EXCEPT ![s] = PhaseAt("recording", EndState(s))]
                BY <4>0, OneStateMoves
            <4>2. EndState(s) = "cancelled" <=> s \in askedSet
                BY DEF EndState, askedSet
            <4>. QED
                BY <4>1, <4>2 DEF PhaseAt
        <3>. QED
            BY <2>2, <3>1, <3>2 DEF Record, managerVars, closeVars, requestVars, phases, askedSet,
               Admission!End, Admission!Move
    <2>3. CASE Release(s)
        <3>1. phases[s] \in {"done", "cancelled"}
            BY <2>3, PhaseIsPhaseAt DEF Release, PhaseAt
        <3>2. phases' = [phases EXCEPT ![s] = "freed"]
            <4>1. phases' = [phases EXCEPT ![s] = PhaseAt("released", state[s])]
                BY <2>3, OnePhaseMoves DEF Release
            <4>. QED
                BY <4>1 DEF PhaseAt
        <3>. QED
            BY <2>3, <3>1, <3>2 DEF Release, closeVars, requestVars, phases, Admission!Free,
               Admission!Move
    <2>. QED
        BY <1>2, <2>1, <2>2, <2>3 DEF ExecuteStep
<1>3. ASSUME NEW s \in Sessions, RunnerStep(s)
      PROVE  UNCHANGED Admission!admissionVars
    BY <1>3, Stutters DEF RunnerStep, Deadline, Progress, Return, managerVars, closeVars,
       sessionVars, requestVars, PhaseAt
<1>4. ASSUME NEW s \in Sessions, CancelStep(s)
      PROVE  Admission!Ask(s) \/ UNCHANGED Admission!admissionVars
    <2>1. CASE Cancel(s)
        BY <2>1, MarkIsAsk DEF Cancel, managerVars, closeVars
    <2>2. CASE CancelReturns(s)
        BY <2>2, Stutters DEF CancelReturns, managerVars, closeVars
    <2>. QED
        BY <1>4, <2>1, <2>2 DEF CancelStep
<1>5. ASSUME CloseStep
      PROVE  Admission!Shut \/ (\E s \in Sessions : Admission!Ask(s))
             \/ UNCHANGED Admission!admissionVars
    <2>1. CASE CloseBegin
        BY <2>1 DEF CloseBegin, sessionVars, requestVars, Phase, Admission!Shut
    <2>2. CASE CloseCancels
        BY <2>2, Stutters DEF CloseCancels, requestVars
    <2>3. ASSUME NEW s \in Sessions, CloseVisit(s)
          PROVE  Admission!Ask(s) \/ UNCHANGED Admission!admissionVars
        <3>1. Registered(s)
            BY <2>3 DEF CloseVisit, Lifecycle, CloseListed
        <3>. QED
            BY <2>3, <3>1, MarkIsAsk DEF CloseVisit
    <2>. QED
        BY <1>5, <2>1, <2>2, <2>3 DEF CloseStep
<1>6. ASSUME NEW c \in Clients, ClientStep(c)
      PROVE  UNCHANGED Admission!admissionVars
    BY <1>6, Stutters DEF ClientStep, Subscribe, Write, StreamClosed, LoseConnection, Unsubscribe,
       managerVars, closeVars, sessionVars, requestVars
<1>7. CASE UNCHANGED vars
    BY <1>7, Stutters DEF vars, managerVars, closeVars, sessionVars, requestVars
<1>. QED
    BY <1>1, <1>2, <1>3, <1>4, <1>5, <1>6, <1>7 DEF Next, Admission!ANext

\* The session manager implements the abstract admission: the token channel,
\* the closed flag and the cancellation flag, guarded by different locks, act
\* together like the atomic steps of JobAdmission.
THEOREM AdmissionImplemented == Spec => ImplementsAdmission
<1>1. Init => Admission!AInit
    BY DEF Init, Phase, Admission!AInit
<1>2. TypeOK /\ SlotAccounting /\ Lifecycle /\ [Next]_vars
      => [Admission!ANext]_Admission!admissionVars
    BY AdmissionStep
<1>. QED
    BY <1>1, <1>2, TypedAndBalanced, LifecycleHolds, PTL
       DEF Spec, ImplementsAdmission, Admission!ASpec
-----------------------------------------------------------------------------
(* The event streams: the history, the channels and what a reconnecting     *)
(* client receives.                                                         *)

\* The history of a session: its last events, with consecutive numbers, and
\* never empty once an event was emitted.
Numbered(s) ==
    /\ Len(events[s]) <= MaxEventHistory
    /\ Len(events[s]) <= nextSequence[s]
    /\ nextSequence[s] > 0 => Len(events[s]) > 0
    /\ \A i \in 1..Len(events[s]) : events[s][i].seq = Forgotten(s) + i

HistoryInv == \A s \in Sessions : Numbered(s)

\* A handler that has returned left nothing behind, and a client that never
\* opened a stream has received nothing.
Idle(c) ==
    /\ handler[c] = "idle" => ~stream[c].open /\ stream[c].buf = <<>>
    /\ watching[c] = NoSession => handler[c] = "idle" /\ cursor[c] = 0

\* The events of a channel are consecutive, come after cur and are none that
\* the session, at number k, has not emitted.
Consecutive(buf, cur, k) ==
    /\ cur <= k
    /\ \A i \in 1..Len(buf) : /\ buf[i].seq = buf[1].seq + i - 1
                              /\ buf[i].seq <= k
    /\ buf # <<>> => cur < buf[1].seq

\* The first of them is the next one after cur, unless the history has
\* forgotten that: it has forgotten the events up to gone.
StartsWell(buf, cur, gone) ==
    buf # <<>> => buf[1].seq = cur + 1 \/ buf[1].seq <= gone + 1

\* The last event that a client at cur has received once it has read buf.
LastSeen(buf, cur) == IF buf = <<>> THEN cur ELSE buf[Len(buf)].seq

\* The channel of a client whose EventSource is opened on s: within its
\* capacity, consecutive, continuing what the client has or starting no later
\* than the oldest retained event, and, while registered, up to date.
Feeds(c, s) ==
    LET buf == stream[c].buf IN
    /\ Len(buf) <= stream[c].cap
    /\ Consecutive(buf, cursor[c], nextSequence[s])
    /\ StartsWell(buf, cursor[c], Forgotten(s))
    /\ c \in subscribers[s] => nextSequence[s] = LastSeen(buf, cursor[c])

ChannelInv ==
    \A c \in Clients : /\ Idle(c)
                       /\ \A s \in Sessions : watching[c] = s => Feeds(c, s)

StreamInv == HistoryInv /\ OpenIffRegistered /\ ChannelInv

-----------------------------------------------------------------------------
(* emitLocked.                                                             *)

\* The history stays numbered when it remembers the next event, whether or not
\* that makes it forget one: it forgets none, or the oldest.
LEMMA RememberNumbers ==
    ASSUME NEW k \in Nat, NEW log \in Seq(Event), NEW e \in Event,
           Len(log) <= MaxEventHistory, e.seq = k + 1,
           \A i \in 1..Len(log) : log[i].seq = k - Len(log) + i
    PROVE  LET new == Remember(log, e) IN
           /\ new \in Seq(Event)
           /\ Len(new) > 0 /\ Len(new) <= MaxEventHistory
           /\ Len(new) = Len(log) \/ Len(new) = Len(log) + 1
           /\ \A i \in 1..Len(new) : new[i].seq = k + 1 - Len(new) + i
<1>1. CASE Len(log) = MaxEventHistory
    <2>1. log # <<>> /\ Len(log) \in Nat /\ Len(log) > 0
        BY <1>1, SessionAssumption
    <2>2. /\ Tail(log) \in Seq(Event) /\ Len(Tail(log)) = Len(log) - 1
          /\ \A i \in 1..(Len(log) - 1) : Tail(log)[i] = log[i + 1]
        BY <2>1, HeadTailProperties
    <2>3. PICK new \in Seq(Event) : new = Append(Tail(log), e)
        BY <2>2, AppendProperties
    <2>4. /\ Len(new) = Len(log)
          /\ \A i \in 1..(Len(log) - 1) : new[i] = log[i + 1]
          /\ new[Len(log)] = e
        <3>1. /\ Len(new) = Len(Tail(log)) + 1
              /\ \A i \in 1..Len(Tail(log)) : new[i] = Tail(log)[i]
              /\ new[Len(Tail(log)) + 1] = e
            BY <2>2, <2>3, AppendProperties
        <3>2. Len(Tail(log)) + 1 = Len(log)
            BY <2>1, <2>2
        <3>. QED
            BY <2>2, <3>1, <3>2
    <2>5. Remember(log, e) = new
        BY <1>1, <2>3 DEF Remember
    <2>6. ASSUME NEW i \in 1..Len(new)
          PROVE  new[i].seq = k + 1 - Len(new) + i
        <3>1. CASE i = Len(log)
            BY <2>1, <2>4, <3>1
        <3>2. CASE i # Len(log)
            <4>1. i \in 1..(Len(log) - 1) /\ i + 1 \in 1..Len(log)
                BY <2>1, <2>4, <3>2
            <4>2. new[i] = log[i + 1] /\ log[i + 1].seq = k - Len(log) + (i + 1)
                BY <2>4, <4>1
            <4>. QED
                BY <2>1, <2>4, <4>1, <4>2
        <3>. QED
            BY <3>1, <3>2
    <2>. QED
        BY <2>1, <2>4, <2>5, <2>6
<1>2. CASE Len(log) # MaxEventHistory
    <2>1. PICK new \in Seq(Event) : new = Append(log, e)
        BY AppendProperties
    <2>2. /\ Len(new) = Len(log) + 1 /\ Len(log) \in Nat
          /\ \A i \in 1..Len(log) : new[i] = log[i]
          /\ new[Len(log) + 1] = e
        BY <2>1, AppendProperties
    <2>3. Remember(log, e) = new
        BY <1>2, <2>1 DEF Remember
    <2>4. ASSUME NEW i \in 1..Len(new)
          PROVE  new[i].seq = k + 1 - Len(new) + i
        <3>1. CASE i = Len(log) + 1
            BY <2>2, <3>1
        <3>2. CASE i # Len(log) + 1
            <4>1. i \in 1..Len(log)
                BY <2>2, <3>2
            <4>2. new[i].seq = k - Len(log) + i
                BY <2>2, <4>1
            <4>. QED
                BY <2>2, <4>1, <4>2
        <3>. QED
            BY <3>1, <3>2
    <2>. QED
        BY <1>2, <2>2, <2>3, <2>4, SessionAssumption
<1>. QED
    BY <1>1, <1>2

\* The history of a session that emits stays numbered, and what any session
\* has forgotten stays forgotten.
LEMMA EmitNumbers ==
    ASSUME FeedTyped, HistoryInv, NEW s \in Sessions, NEW type \in EventTypes,
           EmitLocked(s, type)
    PROVE  /\ HistoryInv'
           /\ \A t \in Sessions : Forgotten(t) <= Forgotten(t)'
<1>1. PICK k \in Nat : k = nextSequence[s]
    BY DEF FeedTyped
<1>2. PICK log \in Seq(Event) : log = events[s]
    BY DEF FeedTyped
<1>3. PICK e \in Event : e = [seq |-> k + 1, type |-> type]
    <2>1. [seq |-> k + 1, type |-> type] \in Event
        BY DEF Event
    <2>. QED
        BY <2>1
<1>4. e.seq = k + 1
    BY <1>3
<1>5. /\ Len(log) \in Nat /\ Len(log) <= MaxEventHistory /\ Len(log) <= k
      /\ \A i \in 1..Len(log) : log[i].seq = k - Len(log) + i
    BY <1>1, <1>2 DEF HistoryInv, Numbered, Forgotten
<1>6. PICK new \in Seq(Event) :
          /\ new = Remember(log, e)
          /\ Len(new) > 0 /\ Len(new) <= MaxEventHistory
          /\ Len(new) = Len(log) \/ Len(new) = Len(log) + 1
          /\ \A i \in 1..Len(new) : new[i].seq = k + 1 - Len(new) + i
    BY <1>4, <1>5, RememberNumbers
<1>7. events' = [events EXCEPT ![s] = new] /\ nextSequence' = [nextSequence EXCEPT ![s] = k + 1]
    BY <1>1, <1>2, <1>3, <1>6 DEF EmitLocked
<1>8. events'[s] = new /\ nextSequence'[s] = k + 1
    BY <1>7 DEF FeedTyped
<1>9. ASSUME NEW t \in Sessions
      PROVE  Numbered(t)' /\ Forgotten(t) <= Forgotten(t)'
    <2>1. CASE t = s
        <3>1. Forgotten(s)' = k + 1 - Len(new)
            BY <1>8 DEF Forgotten
        <3>2. Forgotten(s) = k - Len(log)
            BY <1>1, <1>2 DEF Forgotten
        <3>3. Forgotten(s) <= Forgotten(s)'
            BY <1>5, <1>6, <3>1, <3>2
        <3>4. Len(new) <= k + 1
            BY <1>5, <1>6
        <3>. QED
            BY <1>6, <1>8, <2>1, <3>1, <3>3, <3>4 DEF Numbered
    <2>2. CASE t # s
        <3>1. events'[t] = events[t] /\ nextSequence'[t] = nextSequence[t]
            BY <1>7, <2>2 DEF FeedTyped
        <3>2. Forgotten(t) = Forgotten(t)' /\ Forgotten(t) \in Int
            BY <3>1 DEF Forgotten, FeedTyped
        <3>. QED
            BY <3>1, <3>2 DEF HistoryInv, Numbered
    <2>. QED
        BY <2>1, <2>2
<1>. QED
    BY <1>9 DEF HistoryInv
\* emitLocked closes exactly the channels of the subscribers it forgets.
LEMMA EmitOpens ==
    ASSUME FeedTyped, OpenIffRegistered, NEW s \in Sessions, NEW type, EmitLocked(s, type),
           UNCHANGED watching
    PROVE  OpenIffRegistered'
<1>1. ASSUME NEW c \in Clients, NEW t \in Sessions
      PROVE  c \in subscribers'[t] <=> stream'[c].open /\ watching'[c] = t
    <2>1. stream[c] \in Stream /\ subscribers[t] \in SUBSET Clients
        BY DEF FeedTyped
    <2>2. c \in Slow(s) => c \in subscribers[s]
        BY DEF Slow
    <2>3. subscribers'[t] = IF t = s THEN subscribers[s] \ Slow(s) ELSE subscribers[t]
        BY DEF FeedTyped, EmitLocked
    <2>4. stream'[c].open = IF c \in Slow(s) THEN FALSE ELSE stream[c].open
        BY <2>1 DEF EmitLocked, Drop, Stream
    <2>. QED
        BY <2>2, <2>3, <2>4 DEF OpenIffRegistered
<1>. QED
    BY <1>1 DEF OpenIffRegistered

\* What emitLocked does to the channel of a client: it appends the event, or
\* leaves the events alone because the client is not, or is no longer, registered.
LEMMA EmitToClient ==
    ASSUME FeedTyped, NEW s \in Sessions, NEW type \in EventTypes, EmitLocked(s, type),
           NEW c \in Clients
    PROVE  /\ stream'[c].cap = stream[c].cap
           /\ stream'[c].open => stream[c].open
           /\ \/ /\ c \in subscribers[s]
                 /\ Len(stream[c].buf) < stream[c].cap
                 /\ \E e \in Event : /\ e.seq = nextSequence[s] + 1
                                     /\ stream'[c].buf = Append(stream[c].buf, e)
              \/ /\ c \notin subscribers'[s]
                 /\ stream'[c].buf = stream[c].buf
<1>. DEFINE e == [seq |-> nextSequence[s] + 1, type |-> type]
<1>1. stream[c] \in Stream /\ Len(stream[c].buf) \in Nat
    BY DEF FeedTyped, Stream
<1>2. e \in Event /\ e.seq = nextSequence[s] + 1
    BY DEF FeedTyped, Event
<1>3. subscribers'[s] = subscribers[s] \ Slow(s)
    BY DEF FeedTyped, EmitLocked
<1>4. stream'[c] = IF c \in Slow(s) THEN Drop(stream[c])
                   ELSE IF c \in subscribers[s]
                        THEN [stream[c] EXCEPT !.buf = Append(stream[c].buf, e)]
                        ELSE stream[c]
    BY DEF EmitLocked
<1>5. CASE c \in Slow(s)
    BY <1>1, <1>3, <1>4, <1>5 DEF Drop, Stream
<1>6. CASE c \notin Slow(s) /\ c \in subscribers[s]
    <2>1. stream'[c] = [stream[c] EXCEPT !.buf = Append(stream[c].buf, e)]
        BY <1>4, <1>6
    <2>2. ~(Len(stream[c].buf) >= stream[c].cap)
        BY <1>6 DEF Slow
    <2>3. Len(stream[c].buf) < stream[c].cap
        BY <1>1, <2>2 DEF Stream
    <2>4. /\ stream'[c].buf = Append(stream[c].buf, e)
          /\ stream'[c].cap = stream[c].cap
          /\ stream'[c].open = stream[c].open
        BY <1>1, <2>1 DEF Stream
    <2>. QED
        BY <1>2, <1>6, <2>3, <2>4
<1>7. CASE c \notin subscribers[s]
    BY <1>3, <1>4, <1>7 DEF Slow
<1>. QED
    BY <1>5, <1>6, <1>7

\* A channel that is up to date takes one more event and stays in order.
LEMMA AppendFeeds ==
    ASSUME NEW buf \in Seq(Event), NEW e \in Event, NEW k \in Nat, NEW cur \in Nat,
           NEW gone \in Int, e.seq = k + 1, Consecutive(buf, cur, k),
           StartsWell(buf, cur, gone), k = LastSeen(buf, cur)
    PROVE  /\ Consecutive(Append(buf, e), cur, k + 1)
           /\ StartsWell(Append(buf, e), cur, gone)
           /\ LastSeen(Append(buf, e), cur) = k + 1
           /\ Len(Append(buf, e)) = Len(buf) + 1
<1>1. PICK n \in Nat : n = Len(buf)
    OBVIOUS
<1>2. PICK new \in Seq(Event) : new = Append(buf, e)
    BY AppendProperties
<1>3. /\ new # <<>> /\ Len(new) = n + 1 /\ new[n + 1] = e
      /\ \A i \in 1..n : new[i] = buf[i]
    BY <1>1, <1>2, AppendProperties
<1>4. LastSeen(new, cur) = k + 1
    BY <1>3 DEF LastSeen
<1>5. CASE buf = <<>>
    <2>1. n = 0 /\ k = cur
        BY <1>1, <1>5 DEF LastSeen
    <2>. QED
        BY <1>2, <1>3, <1>4, <1>5, <2>1 DEF Event, Consecutive, StartsWell
<1>6. CASE buf # <<>>
    <2>1. n > 0 /\ 1 \in 1..n /\ n \in 1..n
        BY <1>1, <1>6
    <2>2. PICK first \in Nat : first = buf[1].seq /\ first = new[1].seq
        <3>1. buf[1] \in Event
            BY <1>1, <2>1
        <3>2. buf[1].seq \in Nat /\ new[1] = buf[1]
            BY <1>3, <2>1, <3>1 DEF Event
        <3>. QED
            BY <3>2
    <2>3. k = first + n - 1 /\ cur < first /\ cur <= k
        BY <1>1, <1>6, <2>1, <2>2 DEF LastSeen, Consecutive
    <2>4. ASSUME NEW i \in 1..(n + 1)
          PROVE  new[i].seq = first + i - 1 /\ new[i].seq <= k + 1
        <3>1. CASE i = n + 1
            <4>1. new[i].seq = k + 1
                BY <1>3, <3>1
            <4>. QED
                BY <2>3, <3>1, <4>1
        <3>2. CASE i # n + 1
            <4>1. i \in 1..n
                BY <3>2
            <4>2. new[i].seq = first + i - 1
                BY <1>1, <1>3, <2>2, <4>1 DEF Consecutive
            <4>. QED
                BY <2>3, <4>1, <4>2
        <3>. QED
            BY <3>1, <3>2
    <2>5. Consecutive(new, cur, k + 1)
        BY <1>3, <2>2, <2>3, <2>4 DEF Consecutive
    <2>6. StartsWell(new, cur, gone)
        BY <1>6, <2>2 DEF StartsWell
    <2>. QED
        BY <1>1, <1>2, <1>3, <1>4, <2>5, <2>6
<1>. QED
    BY <1>5, <1>6

\* A channel that takes no event stays in order while its session goes on.
LEMMA WaitFeeds ==
    ASSUME NEW buf \in Seq(Event), NEW k \in Nat, NEW cur \in Nat, NEW gone \in Int,
           NEW k2 \in Nat, NEW gone2 \in Int, k <= k2, gone <= gone2,
           Consecutive(buf, cur, k), StartsWell(buf, cur, gone)
    PROVE  Consecutive(buf, cur, k2) /\ StartsWell(buf, cur, gone2)
<1>1. \A i \in 1..Len(buf) : buf[i].seq \in Nat
    <2>1. \A i \in 1..Len(buf) : buf[i] \in Event
        OBVIOUS
    <2>. QED
        BY <2>1 DEF Event
<1>2. Consecutive(buf, cur, k2)
    BY <1>1 DEF Consecutive
<1>3. StartsWell(buf, cur, gone2)
    <2>1. buf # <<>> => 1 \in 1..Len(buf)
        OBVIOUS
    <2>. QED
        BY <1>1, <2>1 DEF StartsWell
<1>. QED
    BY <1>2, <1>3

\* emitLocked keeps every channel in step with its session and its client.
LEMMA EmitFeeds ==
    ASSUME TypeOK, HistoryInv, OpenIffRegistered, ChannelInv, NEW s \in Sessions,
           NEW type \in EventTypes, EmitLocked(s, type), UNCHANGED clientVars
    PROVE  ChannelInv'
<1>1. \A t \in Sessions : Forgotten(t) <= Forgotten(t)' /\ Forgotten(t) \in Int /\ Forgotten(t)' \in Int
    <2>1. FeedTyped'
        BY EmitTyped DEF TypeOK
    <2>. QED
        BY <2>1, EmitNumbers DEF TypeOK, FeedTyped, Forgotten
<1>2. \A t \in Sessions :
          /\ nextSequence'[t] = IF t = s THEN nextSequence[s] + 1 ELSE nextSequence[t]
          /\ nextSequence'[t] \in Nat
    BY DEF TypeOK, FeedTyped, EmitLocked
<1>3. ASSUME NEW c \in Clients
      PROVE  Idle(c)'
    <2>1. c \in subscribers[s] => stream[c].open
        BY DEF OpenIffRegistered
    <2>2. /\ stream'[c].open => stream[c].open
          /\ c \notin subscribers[s] => stream'[c].buf = stream[c].buf
        BY EmitToClient DEF TypeOK
    <2>. QED
        BY <2>1, <2>2 DEF ChannelInv, Idle, clientVars, TypeOK, FeedTyped
<1>4. ASSUME NEW c \in Clients, NEW t \in Sessions, watching'[c] = t
      PROVE  Feeds(c, t)'
    <2>1. /\ watching[c] = t /\ cursor'[c] = cursor[c]
          /\ Feeds(c, t)
        BY <1>4 DEF ChannelInv, clientVars
    <2>2. PICK cur \in Nat, k \in Nat, buf \in Seq(Event), cap \in Nat :
              cur = cursor[c] /\ k = nextSequence[t] /\ buf = stream[c].buf /\ cap = stream[c].cap
        BY DEF TypeOK, ClientTyped, FeedTyped, Stream
    <2>3. PICK gone \in Int, gone2 \in Int :
              gone = Forgotten(t) /\ gone2 = Forgotten(t)' /\ gone <= gone2
        BY <1>1
    <2>4. Consecutive(buf, cur, k) /\ StartsWell(buf, cur, gone) /\ Len(buf) <= cap
        BY <2>1, <2>2, <2>3 DEF Feeds
    <2>5. stream'[c].cap = cap
        BY <2>2, EmitToClient DEF TypeOK
    <2>6. CASE /\ t = s /\ c \in subscribers[s] /\ Len(buf) < cap
               /\ \E e \in Event : e.seq = k + 1 /\ stream'[c].buf = Append(buf, e)
        <3>1. PICK e \in Event : e.seq = k + 1 /\ stream'[c].buf = Append(buf, e)
            BY <2>6
        <3>2. k = LastSeen(buf, cur)
            BY <2>1, <2>2, <2>6 DEF Feeds
        <3>3. /\ Consecutive(Append(buf, e), cur, k + 1)
              /\ StartsWell(Append(buf, e), cur, gone2)
              /\ LastSeen(Append(buf, e), cur) = k + 1
              /\ Len(Append(buf, e)) = Len(buf) + 1
            <4>1. StartsWell(buf, cur, gone2)
                BY <2>3, <2>4, WaitFeeds
            <4>. QED
                BY <2>4, <3>1, <3>2, <4>1, AppendFeeds
        <3>4. nextSequence'[t] = k + 1
            BY <1>2, <2>2, <2>6
        <3>5. Len(Append(buf, e)) <= cap
            BY <2>6, <3>3
        <3>. QED
            BY <2>1, <2>2, <2>3, <2>5, <3>1, <3>3, <3>4, <3>5 DEF Feeds
    <2>7. CASE stream'[c].buf = buf /\ (t = s => c \notin subscribers'[s])
        <3>1. k <= nextSequence'[t]
            BY <1>2, <2>2
        <3>2. Consecutive(buf, cur, nextSequence'[t]) /\ StartsWell(buf, cur, gone2)
            BY <1>2, <2>3, <2>4, <3>1, WaitFeeds
        <3>3. c \in subscribers'[t] => c \in subscribers[t] /\ nextSequence'[t] = k
            BY <1>2, <2>2, <2>7 DEF EmitLocked, TypeOK, FeedTyped
        <3>4. c \in subscribers'[t] => nextSequence'[t] = LastSeen(buf, cur)
            BY <2>1, <2>2, <3>3 DEF Feeds
        <3>. QED
            BY <2>1, <2>2, <2>3, <2>4, <2>5, <2>7, <3>2, <3>4 DEF Feeds
    <2>8. CASE c \in subscribers[s]
        <3>1. t = s
            BY <2>1, <2>8 DEF OpenIffRegistered
        <3>. QED
            BY <2>2, <2>6, <2>7, <2>8, <3>1, EmitToClient DEF TypeOK
    <2>9. CASE c \notin subscribers[s]
        BY <2>2, <2>7, <2>9, EmitToClient DEF TypeOK
    <2>. QED
        BY <2>8, <2>9
<1>. QED
    BY <1>3, <1>4 DEF ChannelInv

-----------------------------------------------------------------------------
(* The steps.                                                              *)

\* A client and its channel are in order: the part of ChannelInv about c.
Ordered(c) == /\ Idle(c)
              /\ \A s \in Sessions : watching[c] = s => Feeds(c, s)

\* The history is numbered as long as nothing is emitted.
LEMMA HistoryKept ==
    ASSUME HistoryInv, UNCHANGED logVars
    PROVE  HistoryInv' /\ \A s \in Sessions : Forgotten(s)' = Forgotten(s)
BY DEF HistoryInv, Numbered, Forgotten, logVars

\* A client stays in order as long as its cursor and the events of its channel
\* stay, even when the channel is closed or its handler is about to return.
LEMMA OrderKept ==
    ASSUME NEW c \in Clients, Ordered(c), HistoryInv, UNCHANGED logVars,
           watching'[c] = watching[c], cursor'[c] = cursor[c],
           stream'[c].buf = stream[c].buf, stream'[c].cap = stream[c].cap,
           stream'[c].open => stream[c].open,
           \/ handler'[c] = handler[c]
           \/ handler[c] # "idle" /\ handler'[c] # "idle",
           \A s \in Sessions : c \in subscribers'[s] => c \in subscribers[s]
    PROVE  Ordered(c)'
<1>1. Idle(c)'
    BY DEF Ordered, Idle
<1>2. ASSUME NEW s \in Sessions, watching'[c] = s
      PROVE  Feeds(c, s)'
    <2>1. Feeds(c, s)
        BY <1>2 DEF Ordered
    <2>2. Forgotten(s)' = Forgotten(s) /\ nextSequence'[s] = nextSequence[s]
        BY HistoryKept DEF logVars
    <2>. QED
        BY <2>1, <2>2 DEF Feeds
<1>. QED
    BY <1>1, <1>2 DEF Ordered

\* The invariant survives every step that changes nothing it speaks of.
LEMMA StreamKept ==
    ASSUME StreamInv, UNCHANGED eventVars
    PROVE  StreamInv'
<1>1. HistoryInv'
    BY HistoryKept DEF StreamInv, eventVars
<1>2. OpenIffRegistered'
    BY DEF StreamInv, OpenIffRegistered, eventVars, feedVars, clientVars
<1>3. ASSUME NEW c \in Clients
      PROVE  Ordered(c)'
    BY OrderKept DEF StreamInv, ChannelInv, Ordered, eventVars, feedVars, clientVars
<1>. QED
    BY <1>1, <1>2, <1>3 DEF StreamInv, ChannelInv, Ordered

\* The steps that emit an event: the first of execute, the runner's progress,
\* and the two of the final critical section.
LEMMA EmitStep ==
    ASSUME TypeOK, StreamInv, NEW s \in Sessions,
           Start(s) \/ Progress(s) \/ EmitFinding(s) \/ EmitEnd(s)
    PROVE  StreamInv'
<1>1. PICK type \in EventTypes : EmitLocked(s, type)
    <2>1. EndType(s) \in EventTypes
        BY DEF EndType, EventTypes, EndTypes
    <2>. QED
        BY <2>1 DEF Start, Progress, EmitFinding, EmitEnd, EventTypes
<1>2. UNCHANGED clientVars
    BY DEF Start, Progress, EmitFinding, EmitEnd
<1>3. HistoryInv'
    BY <1>1, EmitNumbers DEF StreamInv, TypeOK
<1>4. OpenIffRegistered'
    BY <1>1, <1>2, EmitOpens DEF StreamInv, TypeOK, clientVars
<1>5. ChannelInv'
    BY <1>1, <1>2, EmitFeeds DEF StreamInv
<1>. QED
    BY <1>3, <1>4, <1>5 DEF StreamInv

\* The end of a session closes the channels of its subscribers and of no other.
LEMMA SealStep ==
    ASSUME TypeOK, StreamInv, NEW s \in Sessions, Seal(s)
    PROVE  StreamInv'
<1>1. HistoryInv'
    BY HistoryKept DEF StreamInv, Seal
<1>2. ASSUME NEW c \in Clients
      PROVE  /\ stream'[c].buf = stream[c].buf /\ stream'[c].cap = stream[c].cap
             /\ stream'[c].open = IF c \in subscribers[s] THEN FALSE ELSE stream[c].open
    BY DEF Seal, Drop, TypeOK, FeedTyped, Stream
<1>3. \A t \in Sessions : subscribers'[t] = IF t = s THEN {} ELSE subscribers[t]
    BY DEF Seal, TypeOK, FeedTyped
<1>4. OpenIffRegistered'
    <2>1. watching' = watching
        BY DEF Seal, clientVars
    <2>2. ASSUME NEW c \in Clients, NEW t \in Sessions
          PROVE  c \in subscribers'[t] <=> stream'[c].open /\ watching'[c] = t
        <3>1. /\ c \in subscribers[t] <=> stream[c].open /\ watching[c] = t
              /\ c \in subscribers[s] <=> stream[c].open /\ watching[c] = s
            BY DEF StreamInv, OpenIffRegistered
        <3>. QED
            BY <1>2, <1>3, <2>1, <3>1
    <2>. QED
        BY <2>2 DEF OpenIffRegistered
<1>5. ASSUME NEW c \in Clients
      PROVE  Ordered(c)'
    <2>1. UNCHANGED <<logVars, clientVars>>
        BY DEF Seal
    <2>2. Ordered(c)
        BY DEF StreamInv, ChannelInv, Ordered
    <2>. QED
        BY <1>2, <1>3, <2>1, <2>2, OrderKept DEF StreamInv, clientVars
<1>. QED
    BY <1>1, <1>4, <1>5 DEF StreamInv, ChannelInv, Ordered

\* The replay of Subscribe: the events of the history after the cursor, or all
\* of it when the cursor is older.
LEMMA ReplayFeeds ==
    ASSUME TypeOK, HistoryInv, NEW s \in Sessions, NEW cur \in Nat, cur <= nextSequence[s]
    PROVE  /\ Replay(s, cur) \in Seq(Event)
           /\ Len(Replay(s, cur)) <= ReplayCap(s)
           /\ Consecutive(Replay(s, cur), cur, nextSequence[s])
           /\ StartsWell(Replay(s, cur), cur, Forgotten(s))
           /\ LastSeen(Replay(s, cur), cur) = nextSequence[s]
<1>1. PICK k \in Nat, log \in Seq(Event) : k = nextSequence[s] /\ log = events[s]
    BY DEF TypeOK, FeedTyped
<1>2. PICK n \in Nat : n = Len(log)
    OBVIOUS
<1>3. PICK gone \in Nat : gone = Forgotten(s) /\ gone = k - n
    BY <1>1, <1>2 DEF HistoryInv, Numbered, Forgotten
<1>4. /\ k = gone + n /\ cur <= k /\ (k > 0 => n > 0)
      /\ \A i \in 1..n : log[i].seq = gone + i
      /\ \A i \in 1..n : log[i] \in Event
    <2>1. Numbered(s)
        BY DEF HistoryInv
    <2>2. k = gone + n /\ cur <= k
        BY <1>1, <1>3
    <2>3. k > 0 => n > 0
        BY <1>1, <1>2, <2>1 DEF Numbered
    <2>4. \A i \in 1..n : log[i].seq = gone + i
        BY <1>1, <1>2, <1>3, <2>1 DEF Numbered
    <2>5. \A i \in 1..n : log[i] \in Event
        BY <1>2
    <2>. QED
        BY <2>2, <2>3, <2>4, <2>5
<1>5. PICK from \in 1..(n + 1) : from = IF cur > gone THEN cur - gone + 1 ELSE 1
    BY <1>1, <1>3
<1>6. PICK buf : buf = Replay(s, cur)
    OBVIOUS
<1>7. buf = SubSeq(log, from, n)
    BY <1>1, <1>2, <1>3, <1>5, <1>6 DEF Replay
<1>8. /\ buf \in Seq(Event)
      /\ Len(buf) = n + 1 - from
      /\ \A i \in 1..(n + 1 - from) : buf[i] = log[from + i - 1]
    <2>1. \A i \in from..n : log[i] \in Event
        BY <1>4, <1>5
    <2>. QED
        BY <1>5, <1>7, <2>1, SubSeqProperties
<1>9. ASSUME NEW i \in 1..(n + 1 - from)
      PROVE  buf[i].seq = gone + from + i - 1
    <2>1. PICK j \in 1..n : j = from + i - 1
        BY <1>5
    <2>2. buf[i] = log[j] /\ log[j].seq = gone + j
        BY <1>4, <1>8, <2>1
    <2>. QED
        BY <2>1, <2>2
<1>10. Len(buf) <= ReplayCap(s)
    <2>1. Len(buf) <= n
        BY <1>5, <1>8
    <2>. QED
        BY <1>1, <1>2, <2>1, SessionAssumption DEF ReplayCap
<1>11. CASE from = n + 1
    <2>1. buf = <<>>
        BY <1>8, <1>11
    <2>2. cur = k
        BY <1>4, <1>5, <1>11
    <2>. QED
        BY <1>1, <1>6, <1>8, <1>10, <2>1, <2>2 DEF Consecutive, StartsWell, LastSeen
<1>12. CASE from # n + 1
    <2>0. PICK m \in Nat : m = n + 1 - from
        <3>1. n + 1 - from \in Nat
            BY <1>5
        <3>. QED
            BY <3>1
    <2>1. buf # <<>> /\ Len(buf) = m /\ m > 0
        BY <1>5, <1>8, <1>12, <2>0
    <2>2. buf[1].seq = gone + from
        <3>1. buf[1].seq = gone + from + 1 - 1
            BY <1>9, <2>0, <2>1
        <3>. QED
            BY <3>1
    <2>3. buf[m].seq = k
        <3>1. buf[m].seq = gone + from + m - 1
            BY <1>9, <2>0, <2>1
        <3>. QED
            BY <1>4, <2>0, <3>1
    <2>4. cur < gone + from /\ (gone + from = cur + 1 \/ gone + from <= gone + 1)
        BY <1>5
    <2>5. ASSUME NEW i \in 1..m
          PROVE  buf[i].seq = gone + from + i - 1 /\ buf[i].seq <= k
        <3>1. buf[i].seq = gone + from + i - 1
            BY <1>9, <2>0
        <3>. QED
            BY <1>4, <2>0, <3>1
    <2>. QED
        BY <1>1, <1>3, <1>4, <1>6, <1>8, <1>10, <2>1, <2>2, <2>3, <2>4, <2>5
           DEF Consecutive, StartsWell, LastSeen
<1>. QED
    BY <1>11, <1>12
\* A client's step that touches no log, and of the subscribers and channels
\* only its own: every other client stays in order.
Alone(c) ==
    /\ UNCHANGED logVars
    /\ \A d \in Clients \ {c} :
         /\ watching'[d] = watching[d] /\ handler'[d] = handler[d]
         /\ cursor'[d] = cursor[d] /\ stream'[d] = stream[d]
         /\ \A s \in Sessions : d \in subscribers'[s] <=> d \in subscribers[s]

\* Such a step keeps the streams in order if it leaves its own client in order.
LEMMA AloneStep ==
    ASSUME StreamInv, NEW c \in Clients, Alone(c), Ordered(c)',
           \A s \in Sessions : c \in subscribers'[s] <=> stream'[c].open /\ watching'[c] = s
    PROVE  StreamInv'
<1>1. HistoryInv'
    BY HistoryKept DEF StreamInv, Alone
<1>2. ASSUME NEW d \in Clients
      PROVE  Ordered(d)'
    <2>1. CASE d # c
        BY <2>1, OrderKept DEF StreamInv, ChannelInv, Ordered, Alone
    <2>. QED
        BY <2>1
<1>3. OpenIffRegistered'
    BY DEF StreamInv, OpenIffRegistered, Alone
<1>. QED
    BY <1>1, <1>2, <1>3 DEF StreamInv, ChannelInv, Ordered

\* Subscribe registers the new channel if the session goes on, and the replay
\* brings it up to date.
LEMMA SubscribeStep ==
    ASSUME TypeOK, StreamInv, NEW c \in Clients, NEW s \in Sessions, Subscribe(c, s)
    PROVE  StreamInv'
<1>. USE DEF TypeOK, FeedTyped, ClientTyped
<1>1. /\ watching'[c] = s /\ handler'[c] = "streaming" /\ cursor'[c] = cursor[c]
      /\ stream'[c] = [buf |-> Replay(s, cursor[c]), cap |-> ReplayCap(s), open |-> Joins(s)]
      /\ UNCHANGED logVars
    BY DEF Subscribe
<1>2. \A t \in Sessions :
          subscribers'[t] = IF t = s /\ Joins(s) THEN subscribers[s] \cup {c} ELSE subscribers[t]
    BY DEF Subscribe
<1>3. Alone(c)
    BY <1>2 DEF Alone, Subscribe
<1>4. \A t \in Sessions : c \notin subscribers[t]
    BY DEF StreamInv, ChannelInv, Idle, OpenIffRegistered, Subscribe
<1>5. \A t \in Sessions : c \in subscribers'[t] <=> stream'[c].open /\ watching'[c] = t
    BY <1>1, <1>2, <1>4
<1>6. PICK cur \in Nat : cur = cursor[c]
    OBVIOUS
<1>7. cur <= nextSequence[s]
    <2>1. CASE watching[c] = NoSession
        BY <1>6, <2>1 DEF StreamInv, ChannelInv, Idle
    <2>2. CASE watching[c] = s
        BY <1>6, <2>2 DEF StreamInv, ChannelInv, Feeds, Consecutive
    <2>. QED
        BY <2>1, <2>2 DEF Subscribe
<1>8. Feeds(c, s)'
    <2>1. /\ Len(Replay(s, cur)) <= ReplayCap(s)
          /\ Consecutive(Replay(s, cur), cur, nextSequence[s])
          /\ StartsWell(Replay(s, cur), cur, Forgotten(s))
          /\ LastSeen(Replay(s, cur), cur) = nextSequence[s]
        BY <1>6, <1>7, ReplayFeeds DEF StreamInv
    <2>2. Forgotten(s)' = Forgotten(s) /\ nextSequence'[s] = nextSequence[s]
        BY <1>1, HistoryKept DEF StreamInv, logVars
    <2>3. stream'[c].buf = Replay(s, cur) /\ stream'[c].cap = ReplayCap(s) /\ cursor'[c] = cur
        BY <1>1, <1>6
    <2>. QED
        BY <2>1, <2>2, <2>3 DEF Feeds
<1>9. Ordered(c)'
    BY <1>1, <1>8, SessionAssumption DEF Ordered, Idle
<1>. QED
    BY <1>3, <1>5, <1>9, AloneStep

\* The client has the event it was sent and waits for the one after it.
LEMMA HeadFeeds ==
    ASSUME NEW buf \in Seq(Event), buf # <<>>, NEW cur \in Nat, NEW k \in Nat, NEW gone \in Int,
           Consecutive(buf, cur, k)
    PROVE  /\ Head(buf).seq \in Nat /\ cur < Head(buf).seq
           /\ Tail(buf) \in Seq(Event) /\ Len(Tail(buf)) <= Len(buf)
           /\ Consecutive(Tail(buf), Head(buf).seq, k)
           /\ StartsWell(Tail(buf), Head(buf).seq, gone)
           /\ LastSeen(Tail(buf), Head(buf).seq) = LastSeen(buf, cur)
           /\ StartsWell(buf, cur, gone) =>
                Head(buf).seq = cur + 1 \/ Head(buf).seq <= gone + 1
<1>1. PICK n \in Nat : n + 1 = Len(buf)
    <2>1. Len(buf) \in Nat /\ Len(buf) > 0 /\ Len(buf) - 1 \in Nat
        OBVIOUS
    <2>. QED
        BY <2>1
<1>2. PICK rest \in Seq(Event) : /\ rest = Tail(buf) /\ Len(rest) = n
                                 /\ \A i \in 1..n : rest[i] = buf[i + 1]
    <2>1. /\ Tail(buf) \in Seq(Event) /\ Len(Tail(buf)) = n
          /\ \A i \in 1..Len(Tail(buf)) : Tail(buf)[i] = buf[i + 1]
        BY <1>1, HeadTailProperties
    <2>. QED
        BY <2>1
<1>3. PICK first \in Nat : first = Head(buf).seq /\ first = buf[1].seq
    <2>1. Head(buf) = buf[1] /\ Head(buf) \in Event
        BY HeadTailProperties
    <2>2. Head(buf).seq \in Nat
        BY <2>1 DEF Event
    <2>. QED
        BY <2>1, <2>2
<1>4. cur < first /\ first <= k
    <2>1. 1 \in 1..Len(buf)
        BY <1>1
    <2>. QED
        BY <1>3, <2>1 DEF Consecutive
<1>5. ASSUME NEW i \in 1..n
      PROVE  rest[i].seq = first + i /\ rest[i].seq <= k
    <2>1. PICK j \in 1..(n + 1) : j = i + 1
        OBVIOUS
    <2>2. buf[j].seq = first + j - 1 /\ buf[j].seq <= k
        BY <1>1, <1>3 DEF Consecutive
    <2>. QED
        BY <1>2, <2>1, <2>2
<1>6. n > 0 => rest[1].seq = first + 1
    BY <1>5
<1>7. Consecutive(rest, first, k)
    <2>1. rest # <<>> => n > 0
        BY <1>2
    <2>2. ASSUME NEW i \in 1..n
          PROVE  rest[i].seq = rest[1].seq + i - 1
        BY <1>5, <1>6
    <2>. QED
        BY <1>2, <1>4, <1>5, <1>6, <2>1, <2>2 DEF Consecutive
<1>8. StartsWell(rest, first, gone)
    <2>1. rest # <<>> => n > 0
        BY <1>2
    <2>. QED
        BY <1>6, <2>1 DEF StartsWell
<1>9. LastSeen(rest, first) = LastSeen(buf, cur)
    <2>1. CASE n = 0
        BY <1>1, <1>2, <1>3, <2>1 DEF LastSeen
    <2>2. CASE n > 0
        <3>1. rest[n] = buf[n + 1]
            BY <1>2, <2>2
        <3>2. rest # <<>>
            BY <1>2, <2>2
        <3>. QED
            BY <1>1, <1>2, <3>1, <3>2 DEF LastSeen
    <2>. QED
        BY <2>1, <2>2
<1>10. Len(rest) <= Len(buf)
    BY <1>1, <1>2
<1>. QED
    BY <1>2, <1>3, <1>4, <1>7, <1>8, <1>9, <1>10 DEF StartsWell
\* What Write changes: the client has the first event of its channel.
LEMMA WriteMoves ==
    ASSUME TypeOK, StreamInv, NEW c \in Clients, Write(c)
    PROVE  /\ watching[c] \in Sessions /\ stream[c].buf \in Seq(Event) /\ stream[c].buf # <<>>
           /\ cursor'[c] = Head(stream[c].buf).seq
           /\ stream'[c].buf = Tail(stream[c].buf)
           /\ stream'[c].cap = stream[c].cap /\ stream'[c].open = stream[c].open
           /\ handler[c] # "idle" /\ handler'[c] # "idle"
<1>1. stream[c] \in Stream /\ watching[c] \in Sessions \cup {NoSession}
    BY DEF TypeOK, FeedTyped, ClientTyped
<1>2. watching[c] \in Sessions /\ handler[c] # "idle" /\ handler'[c] # "idle"
    BY <1>1 DEF Write, StreamInv, ChannelInv, Idle, TypeOK, ClientTyped
<1>3. stream'[c] = [stream[c] EXCEPT !.buf = Tail(stream[c].buf)]
    BY DEF Write, TypeOK, FeedTyped
<1>4. cursor'[c] = Head(stream[c].buf).seq
    BY DEF Write, TypeOK, ClientTyped
<1>. QED
    BY <1>1, <1>2, <1>3, <1>4 DEF Write, Stream

\* Write moves the client one event further along its channel.
LEMMA WriteStep ==
    ASSUME TypeOK, StreamInv, NEW c \in Clients, Write(c)
    PROVE  StreamInv'
<1>1. Alone(c)
    BY DEF Alone, Write, TypeOK, FeedTyped, ClientTyped
<1>2. UNCHANGED <<logVars, subscribers, watching>>
    BY DEF Write
<1>3. \A s \in Sessions : c \in subscribers'[s] <=> stream'[c].open /\ watching'[c] = s
    BY <1>2, WriteMoves DEF StreamInv, OpenIffRegistered
<1>4. ASSUME NEW s \in Sessions, watching'[c] = s
      PROVE  Feeds(c, s)'
    <2>1. Feeds(c, s)
        BY <1>2, <1>4 DEF StreamInv, ChannelInv
    <2>2. PICK cur \in Nat, k \in Nat, buf \in Seq(Event), cap \in Nat :
              cur = cursor[c] /\ k = nextSequence[s] /\ buf = stream[c].buf /\ cap = stream[c].cap
        BY DEF TypeOK, ClientTyped, FeedTyped, Stream
    <2>3. PICK gone \in Int : gone = Forgotten(s)
        BY DEF TypeOK, FeedTyped, Forgotten
    <2>4. gone = Forgotten(s)' /\ nextSequence'[s] = k
        BY <1>2, <2>2, <2>3, HistoryKept DEF StreamInv, logVars
    <2>5. /\ Consecutive(buf, cur, k) /\ buf # <<>> /\ Len(buf) <= cap
          /\ c \in subscribers[s] => k = LastSeen(buf, cur)
        BY <2>1, <2>2, WriteMoves DEF Feeds
    <2>6. PICK first \in Nat : first = Head(buf).seq
        BY <2>5, HeadFeeds
    <2>7. /\ Len(Tail(buf)) <= Len(buf) /\ Tail(buf) \in Seq(Event)
          /\ Consecutive(Tail(buf), first, k)
          /\ StartsWell(Tail(buf), first, gone)
          /\ LastSeen(Tail(buf), first) = LastSeen(buf, cur)
        BY <2>5, <2>6, HeadFeeds
    <2>8. stream'[c].buf = Tail(buf) /\ stream'[c].cap = cap /\ cursor'[c] = first
        BY <2>2, <2>6, WriteMoves
    <2>9. Len(Tail(buf)) <= cap
        BY <2>5, <2>7
    <2>. QED
        BY <1>2, <2>4, <2>5, <2>7, <2>8, <2>9 DEF Feeds
<1>5. Ordered(c)'
    <2>1. watching'[c] # NoSession
        BY <1>2, WriteMoves, SessionAssumption
    <2>. QED
        BY <1>4, <2>1, WriteMoves DEF Ordered, Idle
<1>. QED
    BY <1>1, <1>3, <1>5, AloneStep

\* A handler that is about to return leaves its channel as it is.
LEMMA ReturningStep ==
    ASSUME TypeOK, StreamInv, NEW c \in Clients, StreamClosed(c) \/ LoseConnection(c)
    PROVE  StreamInv'
<1>1. UNCHANGED <<logVars, feedVars, watching, cursor>>
    BY DEF StreamClosed, LoseConnection
<1>2. /\ Alone(c)
      /\ handler[c] # "idle" /\ handler'[c] # "idle"
    BY DEF StreamClosed, LoseConnection, Alone, feedVars, TypeOK, ClientTyped
<1>3. Ordered(c)'
    BY <1>1, <1>2, OrderKept DEF StreamInv, ChannelInv, Ordered, feedVars
<1>4. \A s \in Sessions : c \in subscribers'[s] <=> stream'[c].open /\ watching'[c] = s
    BY <1>1 DEF StreamInv, OpenIffRegistered, feedVars
<1>. QED
    BY <1>2, <1>3, <1>4, AloneStep

\* Unsubscribe removes the client where it is registered, if it still is.
LEMMA UnsubscribeStep ==
    ASSUME TypeOK, StreamInv, NEW c \in Clients, Unsubscribe(c)
    PROVE  StreamInv'
<1>. USE DEF TypeOK, FeedTyped, ClientTyped
<1>1. PICK s \in Sessions : s = watching[c]
    BY DEF StreamInv, ChannelInv, Idle, Unsubscribe
<1>2. /\ stream'[c] = NoStream /\ handler'[c] = "idle"
      /\ watching'[c] = s /\ cursor'[c] = cursor[c]
      /\ UNCHANGED logVars
    BY <1>1 DEF Unsubscribe
<1>3. \A t \in Sessions :
          subscribers'[t] = IF t = s THEN subscribers[s] \ {c} ELSE subscribers[t]
    BY <1>1 DEF Unsubscribe
<1>4. Alone(c)
    BY <1>3 DEF Alone, Unsubscribe
<1>5. \A t \in Sessions : c \notin subscribers'[t]
    BY <1>1, <1>3 DEF StreamInv, OpenIffRegistered
<1>6. Feeds(c, s)'
    <2>1. cursor[c] <= nextSequence[s]
        BY <1>1 DEF StreamInv, ChannelInv, Feeds, Consecutive
    <2>. QED
        BY <1>2, <1>5, <2>1 DEF Feeds, Consecutive, StartsWell, NoStream, logVars
<1>7. Ordered(c)'
    BY <1>2, <1>6, SessionAssumption DEF Ordered, Idle, NoStream
<1>8. \A t \in Sessions : c \in subscribers'[t] <=> stream'[c].open /\ watching'[c] = t
    BY <1>2, <1>5 DEF NoStream
<1>. QED
    BY <1>4, <1>7, <1>8, AloneStep

\* Every step of the specification keeps the streams in order.
LEMMA StreamStep ==
    ASSUME TypeOK, StreamInv, [Next]_vars
    PROVE  StreamInv'
<1>1. ASSUME NEW s \in Sessions, CreateStep(s)
      PROVE  StreamInv'
    BY <1>1, StreamKept DEF CreateStep, Acquire, Register, ReleaseRefused
<1>2. ASSUME NEW s \in Sessions, ExecuteStep(s)
      PROVE  StreamInv'
    <2>1. CASE Record(s) \/ Release(s)
        BY <2>1, StreamKept DEF Record, Release
    <2>. QED
        BY <1>2, <2>1, EmitStep, SealStep DEF ExecuteStep
<1>3. ASSUME NEW s \in Sessions, RunnerStep(s)
      PROVE  StreamInv'
    <2>1. CASE Deadline(s) \/ Return(s)
        BY <2>1, StreamKept DEF Deadline, Return
    <2>. QED
        BY <1>3, <2>1, EmitStep DEF RunnerStep
<1>4. ASSUME NEW s \in Sessions, CancelStep(s)
      PROVE  StreamInv'
    BY <1>4, StreamKept DEF CancelStep, Cancel, CancelReturns
<1>5. CASE CloseStep
    BY <1>5, StreamKept DEF CloseStep, CloseBegin, CloseVisit, CloseCancels
<1>6. ASSUME NEW c \in Clients, ClientStep(c)
      PROVE  StreamInv'
    BY <1>6, SubscribeStep, WriteStep, ReturningStep, UnsubscribeStep DEF ClientStep
<1>7. CASE UNCHANGED vars
    BY <1>7, StreamKept DEF vars
<1>. QED
    BY <1>1, <1>2, <1>3, <1>4, <1>5, <1>6, <1>7 DEF Next

\* Initially nothing was emitted and nobody watches.
LEMMA StreamInit == Init => StreamInv
<1>. SUFFICES ASSUME Init
              PROVE  StreamInv
    OBVIOUS
<1>1. HistoryInv
    BY SessionAssumption DEF Init, HistoryInv, Numbered
<1>2. OpenIffRegistered
    BY DEF Init, OpenIffRegistered, NoStream
<1>3. ASSUME NEW c \in Clients
      PROVE  Ordered(c)
    BY SessionAssumption DEF Init, Ordered, Idle, NoStream
<1>. QED
    BY <1>1, <1>2, <1>3 DEF StreamInv, ChannelInv, Ordered

\* The inductive invariant of the streams.
LEMMA StreamInvHolds == Spec => []StreamInv
<1>1. TypeOK /\ StreamInv /\ [Next]_vars => StreamInv'
    BY StreamStep
<1>. QED
    BY <1>1, StreamInit, TypeCorrect, PTL DEF Spec

-----------------------------------------------------------------------------
(* What it means for a client.                                             *)

\* A channel is open exactly while its session still feeds it: whether the
\* subscriber is dropped, the session ends or the handler returns, the channel
\* is closed and forgotten together, so none is closed twice or sent on after.
THEOREM OpenMeansRegistered == Spec => []OpenIffRegistered
<1>1. StreamInv => OpenIffRegistered
    BY DEF StreamInv
<1>. QED
    BY <1>1, StreamInvHolds, PTL

\* No send can block under the mutex: the channel of a subscriber is never
\* fuller than its capacity, after the replay of a whole history included.
THEOREM ChannelsNeverOverflow == Spec => []BufferBounded
<1>1. TypeOK /\ StreamInv => BufferBounded
    <2>. SUFFICES ASSUME TypeOK, StreamInv, NEW c \in Clients
                  PROVE  Len(stream[c].buf) <= stream[c].cap
        BY DEF BufferBounded
    <2>1. stream[c] \in Stream /\ watching[c] \in Sessions \cup {NoSession}
        BY DEF TypeOK, FeedTyped, ClientTyped
    <2>2. CASE watching[c] = NoSession
        BY <2>1, <2>2 DEF StreamInv, ChannelInv, Idle, Stream
    <2>3. CASE watching[c] \in Sessions
        BY <2>3 DEF StreamInv, ChannelInv, Feeds
    <2>. QED
        BY <2>1, <2>2, <2>3
<1>. QED
    BY <1>1, StreamInvHolds, TypeCorrect, PTL

\* What a channel holds is what its client needs: consecutive events, after the
\* client's cursor, the next one first unless the history had forgotten it, and
\* up to the session's last event while the client is registered.
THEOREM ChannelsAreInOrder == Spec => []StreamContiguous
<1>1. TypeOK /\ StreamInv => StreamContiguous
    <2>. SUFFICES ASSUME TypeOK, StreamInv, NEW c \in Clients, handler[c] # "idle",
                         NEW s, s = watching[c], NEW buf, buf = stream[c].buf
                  PROVE  /\ \A i \in 1..(Len(buf) - 1) : buf[i + 1].seq = buf[i].seq + 1
                         /\ c \in subscribers[s] =>
                              nextSequence[s] = IF buf = <<>> THEN cursor[c] ELSE buf[Len(buf)].seq
                         /\ buf # <<>> =>
                              /\ cursor[c] < buf[1].seq
                              /\ buf[1].seq \in {cursor[c] + 1} \cup 1..(Forgotten(s) + 1)
        BY DEF StreamContiguous
    <2>1. s \in Sessions /\ Feeds(c, s)
        BY DEF StreamInv, ChannelInv, Idle, TypeOK, ClientTyped
    <2>2. PICK cur \in Nat : cur = cursor[c]
        BY DEF TypeOK, ClientTyped
    <2>3. buf \in Seq(Event) /\ nextSequence[s] \in Nat /\ Forgotten(s) \in Int
        BY <2>1 DEF TypeOK, FeedTyped, Stream, Forgotten
    <2>4. \A i \in 1..Len(buf) : buf[i].seq \in Nat
        <3>1. \A i \in 1..Len(buf) : buf[i] \in Event
            BY <2>3
        <3>. QED
            BY <3>1 DEF Event
    <2>5. /\ Consecutive(buf, cur, nextSequence[s]) /\ StartsWell(buf, cur, Forgotten(s))
          /\ c \in subscribers[s] => nextSequence[s] = LastSeen(buf, cur)
        BY <2>1, <2>2 DEF Feeds
    <2>6. PICK n \in Nat : n = Len(buf)
        BY <2>3
    <2>7. ASSUME NEW i \in 1..(n - 1)
          PROVE  buf[i + 1].seq = buf[i].seq + 1
        <3>1. PICK j \in 1..n : j = i + 1
            BY <2>6
        <3>2. i \in 1..n /\ 1 \in 1..n
            BY <2>6
        <3>3. buf[j].seq = buf[1].seq + j - 1 /\ buf[i].seq = buf[1].seq + i - 1
            BY <2>5, <2>6, <3>2 DEF Consecutive
        <3>. QED
            BY <2>4, <2>6, <3>1, <3>2, <3>3
    <2>8. ASSUME buf # <<>>
          PROVE  /\ cur < buf[1].seq
                 /\ buf[1].seq \in {cur + 1} \cup 1..(Forgotten(s) + 1)
        <3>1. 1 \in 1..Len(buf)
            BY <2>3, <2>8
        <3>2. buf[1].seq \in Nat
            BY <2>4, <3>1
        <3>3. cur < buf[1].seq /\ (buf[1].seq = cur + 1 \/ buf[1].seq <= Forgotten(s) + 1)
            BY <2>5, <2>8 DEF Consecutive, StartsWell
        <3>. QED
            BY <2>3, <3>2, <3>3
    <2>. QED
        BY <2>2, <2>5, <2>6, <2>7, <2>8 DEF LastSeen
<1>. QED
    BY <1>1, StreamInvHolds, TypeCorrect, PTL

\* The cursor of a client moves only when its handler writes an event, and then
\* to the event that follows, or past events the history had forgotten.
LEMMA CursorMoves ==
    ASSUME TypeOK, StreamInv, [Next]_vars, NEW c \in Clients, cursor'[c] # cursor[c]
    PROVE  \/ cursor'[c] = cursor[c] + 1
           \/ cursor[c] + 1 <= Forgotten(watching[c]) /\ cursor'[c] > cursor[c]
<1>1. Write(c)
    <2>1. ASSUME NEW d \in Clients, Write(d)
          PROVE  d = c
        BY <2>1 DEF Write, TypeOK, ClientTyped
    <2>2. ASSUME UNCHANGED clientVars
          PROVE  FALSE
        BY <2>2 DEF clientVars
    <2>3. ASSUME UNCHANGED cursor
          PROVE  FALSE
        BY <2>3
    <2>4. ASSUME NEW s \in Sessions
          PROVE  ~(CreateStep(s) \/ ExecuteStep(s) \/ RunnerStep(s) \/ CancelStep(s))
        BY <2>2 DEF CreateStep, Acquire, Register, ReleaseRefused, ExecuteStep, Start, Record,
           EmitFinding, EmitEnd, Seal, Release, RunnerStep, Deadline, Progress, Return,
           CancelStep, Cancel, CancelReturns, eventVars
    <2>5. ~CloseStep
        BY <2>2 DEF CloseStep, CloseBegin, CloseVisit, CloseCancels, eventVars
    <2>6. ASSUME NEW d \in Clients, ClientStep(d)
          PROVE  Write(d)
        BY <2>3, <2>6 DEF ClientStep, Subscribe, StreamClosed, LoseConnection, Unsubscribe
    <2>7. ~UNCHANGED vars
        BY <2>2 DEF vars, eventVars
    <2>. QED
        BY <2>1, <2>4, <2>5, <2>6, <2>7 DEF Next
<1>2. PICK s \in Sessions : s = watching[c] /\ Feeds(c, s)
    BY <1>1, WriteMoves DEF StreamInv, ChannelInv
<1>3. PICK cur \in Nat, buf \in Seq(Event), k \in Nat, gone \in Int :
          cur = cursor[c] /\ buf = stream[c].buf /\ k = nextSequence[s] /\ gone = Forgotten(s)
    BY DEF TypeOK, ClientTyped, FeedTyped, Stream, Forgotten
<1>4. Consecutive(buf, cur, k) /\ StartsWell(buf, cur, gone) /\ buf # <<>>
    BY <1>1, <1>2, <1>3, WriteMoves DEF Feeds
<1>5. PICK first \in Nat : /\ first = Head(buf).seq /\ cur < first
                           /\ first = cur + 1 \/ first <= gone + 1
    BY <1>4, HeadFeeds
<1>6. cursor'[c] = first
    BY <1>1, <1>3, <1>5, WriteMoves
<1>. QED
    BY <1>2, <1>3, <1>5, <1>6

\* A client never misses an event that the history still has when it gets the
\* next one, however often it is dropped as slow, loses its connection and
\* comes back with its Last-Event-ID.
THEOREM NothingIsSkipped == Spec => NoSilentGap
<1>. DEFINE Skips == \A c \in Clients : cursor'[c] # cursor[c] =>
                \/ cursor'[c] = cursor[c] + 1
                \/ cursor[c] + 1 <= Forgotten(watching[c]) /\ cursor'[c] > cursor[c]
<1>1. TypeOK /\ StreamInv /\ [Next]_vars => [Skips]_vars
    BY CursorMoves
<1>. QED
    BY <1>1, StreamInvHolds, TypeCorrect, PTL DEF Spec, NoSilentGap
=============================================================================
