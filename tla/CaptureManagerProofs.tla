------------------------ MODULE CaptureManagerProofs ------------------------
(***************************************************************************)
(* Proofs about CaptureManager, for any number of Start calls, any         *)
(* capacity, and any number of listeners whose Accept fails.               *)
(***************************************************************************)
EXTENDS CaptureManager, FiniteSetTheorems, TLAPS

-----------------------------------------------------------------------------
(* The inductive invariant, session by session.                            *)

\* The Start calls whose browser does not run yet.
Launching == {"idle", "acquired", "opening", "launching", "aborting", "refused"}

(* What a Start call has built so far: nothing before Open, nothing left    *)
(* once it is refused; neither stop nor the callback before the browser     *)
(* runs.                                                                    *)
StartInv(s) ==
    /\ pc[s] \in {"idle", "acquired", "opening"} =>
         state[s] = "none" /\ server[s] = "none" /\ ~listening[s] /\ ~profile[s]
    /\ pc[s] \in {"launching", "aborting"} => state[s] = "starting"
    /\ pc[s] \in {"aborting", "refused"} => ~listening[s]
    /\ pc[s] = "refused" => ~profile[s]
    /\ pc[s] = "rejected" /\ process[s] = "none" => ~listening[s] /\ ~profile[s]
    /\ pc[s] \in Launching => process[s] = "none"
    /\ pc[s] \notin Launching \cup {"rejected"} => process[s] # "none"
    /\ process[s] = "none" => stopper[s] = "none"

\* The callback is set once the browser runs, taken by the first to see the
\* session stopped and set, and called once.
HookInv(s) ==
    /\ hook[s] = "unset" <=> pc[s] \in Launching \cup {"launched"}
                             \/ (pc[s] = "rejected" /\ process[s] = "none")
    /\ hook[s] = "set" => ~Stopped(s)
    /\ hook[s] \in {"taken", "called"} => Stopped(s)
    /\ hook[s] = "called" <=> s \in released
    /\ pc[s] = "callback" => hook[s] = "taken"

\* serve finds its listener closed only when the server was shut down, or when
\* stop has marked the session; any other error is one of Accept itself.
ServeInv(s) ==
    /\ server[s] = "serving" /\ ~listening[s] =>
         shutdown[s] \/ state[s] \in {"stopping", "completed", "failed"}
    /\ server[s] = "erring" =>
         s \in faults \/ state[s] \in {"stopping", "completed", "failed"}
    /\ state[s] = "failed" => s \in faults

\* How far stop has come with the state, the listener, the browser and the profile.
StopInv(s) ==
    /\ stopper[s] \notin {"none", "asked"} => state[s] \in {"stopping", "completed", "failed"}
    /\ stopper[s] \notin {"none", "asked", "marked"} => ~listening[s]
    /\ stopper[s] \in {"reaped", "drained"} /\ process[s] = "alive" => outlived[s]
    /\ stopper[s] \in {"cleaned", "over"} /\ profile[s] => outlived[s]
    /\ Stopped(s) => state[s] \in {"completed", "failed"}

\* Close waits for published sessions only, and for one it has asked to stop.
CloseInv ==
    /\ \A s \in closeList : pc[s] = "started"
    /\ closeAt # NoCapture => pc[closeAt] = "started"

SessionInv(s) == StartInv(s) /\ HookInv(s) /\ ServeInv(s) /\ StopInv(s)

CaptureInv ==
    /\ TypeOK
    /\ \A s \in Captures : SessionInv(s)
    /\ CloseInv
    /\ SlotAccounting
    /\ ClosedMeansStopped

-----------------------------------------------------------------------------
(* What one step does to the sessions it is not about.                     *)
SameAt(t) ==
    /\ pc'[t] = pc[t] /\ state'[t] = state[t] /\ server'[t] = server[t]
    /\ listening'[t] = listening[t] /\ shutdown'[t] = shutdown[t]
    /\ process'[t] = process[t] /\ profile'[t] = profile[t]
    /\ stopper'[t] = stopper[t] /\ outlived'[t] = outlived[t] /\ hook'[t] = hook[t]
    /\ (t \in released' <=> t \in released)
    /\ (t \in faults => t \in faults')

\* A capture stays consistent as long as nothing of it changes.
LEMMA SessionKept ==
    ASSUME NEW t \in Captures, SessionInv(t), SameAt(t)
    PROVE  SessionInv(t)'
<1>1. StartInv(t)'
    BY DEF SessionInv, SameAt, StartInv
<1>2. HookInv(t)'
    BY DEF SessionInv, SameAt, HookInv, Stopped
<1>3. ServeInv(t)'
    BY DEF SessionInv, SameAt, ServeInv
<1>4. StopInv(t)'
    BY DEF SessionInv, SameAt, StopInv, Stopped
<1>. QED
    BY <1>1, <1>2, <1>3, <1>4 DEF SessionInv

\* The steps of one Start call or session, those of its goroutines, and Close's
\* call of its Stop.
Moves(s) ==
    \/ Acquire(s) \/ StartStep(s) \/ ServeStep(s) \/ AcceptFails(s) \/ ProcessExits(s)
    \/ Stop(s) \/ Expire(s) \/ StopStep(s) \/ Release(s) \/ CloseVisit(s)

Types ==
    /\ closed \in BOOLEAN
    /\ closeList \subseteq Captures
    /\ closeAt \in Captures \cup {NoCapture}
    /\ released \subseteq Captures
    /\ pc \in [Captures -> PCs]
    /\ state \in [Captures -> States]
    /\ server \in [Captures -> {"none", "serving", "erring", "done"}]
    /\ listening \in [Captures -> BOOLEAN]
    /\ shutdown \in [Captures -> BOOLEAN]
    /\ process \in [Captures -> {"none", "alive", "exited"}]
    /\ profile \in [Captures -> BOOLEAN]
    /\ stopper \in [Captures -> Stages]
    /\ outlived \in [Captures -> BOOLEAN]
    /\ hook \in [Captures -> {"unset", "set", "taken", "called"}]
    /\ faults \subseteq Captures

\* The steps of Create and Start keep the types, and touch one capture only.
LEMMA StartTypes ==
    ASSUME Types, NEW s \in Captures, Acquire(s) \/ StartStep(s) \/ Release(s)
    PROVE  Types' /\ \A t \in Captures : t # s => SameAt(t)
<1>1. CASE Acquire(s)
    BY <1>1 DEF Acquire, Types, SameAt, serverVars, browserVars, PCs
<1>2. CASE CheckOpen(s)
    BY <1>2 DEF CheckOpen, Types, SameAt, managerVars, serverVars, browserVars, PCs
<1>3. CASE OpenFails(s)
    BY <1>3 DEF OpenFails, Types, SameAt, managerVars, serverVars, browserVars, PCs
<1>4. CASE Open(s)
    BY <1>4 DEF Open, Types, SameAt, managerVars, PCs, States
<1>5. CASE Launch(s)
    BY <1>5 DEF Launch, Types, SameAt, managerVars, serverVars, PCs, States
<1>6. CASE LaunchFails(s)
    BY <1>6 DEF LaunchFails, Types, SameAt, managerVars, browserVars, PCs
<1>7. CASE Abort(s)
    BY <1>7 DEF Abort, Types, SameAt, managerVars, serverVars, PCs
<1>8. CASE Refuse(s)
    BY <1>8 DEF Refuse, Types, SameAt, serverVars, browserVars, PCs
<1>9. CASE SetOnStop(s)
    BY <1>9 DEF SetOnStop, Types, SameAt, managerVars, serverVars, browserVars, PCs
<1>10. CASE Publish(s)
    BY <1>10 DEF Publish, Ask, Types, SameAt, managerVars, serverVars, browserVars, PCs, Stages
<1>11. CASE Reject(s)
    BY <1>11 DEF Reject, Types, SameAt, managerVars, serverVars, browserVars, PCs
<1>12. CASE Release(s)
    BY <1>12 DEF Release, Types, SameAt, serverVars, browserVars, PCs
<1>. QED
    BY <1>1, <1>2, <1>3, <1>4, <1>5, <1>6, <1>7, <1>8, <1>9, <1>10, <1>11, <1>12 DEF StartStep

\* The steps of Stop and Close keep the types, and touch one capture only.
LEMMA StopTypes ==
    ASSUME Types, NEW s \in Captures, Stop(s) \/ Expire(s) \/ StopStep(s) \/ CloseVisit(s)
    PROVE  Types' /\ \A t \in Captures : t # s => SameAt(t)
<1>1. CASE Stop(s)
    BY <1>1 DEF Stop, Ask, Types, SameAt, managerVars, serverVars, browserVars, Stages
<1>2. CASE Expire(s)
    BY <1>2 DEF Expire, Ask, Types, SameAt, managerVars, serverVars, browserVars, Stages
<1>3. CASE Mark(s)
    BY <1>3 DEF Mark, Goes, Types, SameAt, managerVars, serverVars, browserVars, Stages, States
<1>4. CASE CloseListener(s)
    BY <1>4 DEF CloseListener, Goes, Types, SameAt, managerVars, browserVars, Stages
<1>5. CASE CloseServer(s)
    BY <1>5 DEF CloseServer, Goes, Types, SameAt, managerVars, browserVars, Stages
<1>6. CASE Kill(s) \/ Drain(s)
    BY <1>6 DEF Kill, Drain, Goes, Types, SameAt, managerVars, serverVars, browserVars, Stages
<1>7. CASE Reap(s)
    BY <1>7 DEF Reap, Goes, Types, SameAt, managerVars, serverVars, Stages
<1>8. CASE RemoveProfile(s)
    <2>1. PICK left \in BOOLEAN : profile' = [profile EXCEPT ![s] = left]
        BY <1>8 DEF RemoveProfile
    <2>. QED
        BY <1>8, <2>1 DEF RemoveProfile, Goes, Types, SameAt, managerVars, serverVars, Stages
<1>9. CASE Finish(s)
    BY <1>9 DEF Finish, Goes, Types, SameAt, managerVars, serverVars, browserVars, Stages, States
<1>10. CASE CloseVisit(s)
    BY <1>10 DEF CloseVisit, Ask, Types, SameAt, serverVars, browserVars, Stages
<1>. QED
    BY <1>1, <1>2, <1>3, <1>4, <1>5, <1>6, <1>7, <1>8, <1>9, <1>10 DEF StopStep

\* Every other step of a capture keeps the types, and touches one capture only.
LEMMA MoveTypes ==
    ASSUME Types, NEW s \in Captures, Moves(s)
    PROVE  Types' /\ \A t \in Captures : t # s => SameAt(t)
<1>1. CASE AcceptFails(s)
    BY <1>1 DEF AcceptFails, Types, SameAt, managerVars, browserVars
<1>2. CASE ServeReturns(s)
    BY <1>2 DEF ServeReturns, Types, SameAt, managerVars, browserVars
<1>3. CASE ServeRecords(s)
    BY <1>3 DEF ServeRecords, Types, SameAt, managerVars, browserVars, States
<1>4. CASE ProcessExits(s)
    BY <1>4 DEF ProcessExits, Types, SameAt, managerVars, serverVars
<1>. QED
    BY <1>1, <1>2, <1>3, <1>4, StartTypes, StopTypes DEF Moves, ServeStep

-----------------------------------------------------------------------------
(* What it does to its own session.                                        *)

\* The steps of Create and Start keep their own capture consistent.
LEMMA StartPreserves ==
    ASSUME Types, NEW s \in Captures, SessionInv(s),
           Acquire(s) \/ StartStep(s) \/ Release(s)
    PROVE  SessionInv(s)'
<1>1. CASE Acquire(s)
    BY <1>1 DEF Acquire, serverVars, browserVars,
       Types, SessionInv, StartInv, HookInv, ServeInv, StopInv, Stopped, Launching
<1>2. CASE CheckOpen(s)
    BY <1>2 DEF CheckOpen, managerVars, serverVars, browserVars,
       Types, SessionInv, StartInv, HookInv, ServeInv, StopInv, Stopped, Launching
<1>3. CASE OpenFails(s)
    BY <1>3 DEF OpenFails, managerVars, serverVars, browserVars,
       Types, SessionInv, StartInv, HookInv, ServeInv, StopInv, Stopped, Launching
<1>4. CASE Open(s)
    BY <1>4 DEF Open, managerVars,
       Types, SessionInv, StartInv, HookInv, ServeInv, StopInv, Stopped, Launching
<1>5. CASE Launch(s)
    BY <1>5 DEF Launch, managerVars, serverVars,
       Types, SessionInv, StartInv, HookInv, ServeInv, StopInv, Stopped, Launching
<1>6. CASE LaunchFails(s)
    BY <1>6 DEF LaunchFails, managerVars, browserVars,
       Types, SessionInv, StartInv, HookInv, ServeInv, StopInv, Stopped, Launching
<1>7. CASE Abort(s)
    BY <1>7 DEF Abort, managerVars, serverVars,
       Types, SessionInv, StartInv, HookInv, ServeInv, StopInv, Stopped, Launching
<1>8. CASE Refuse(s)
    BY <1>8 DEF Refuse, serverVars, browserVars,
       Types, SessionInv, StartInv, HookInv, ServeInv, StopInv, Stopped, Launching
<1>9. CASE SetOnStop(s)
    BY <1>9 DEF SetOnStop, managerVars, serverVars, browserVars,
       Types, SessionInv, StartInv, HookInv, ServeInv, StopInv, Stopped, Launching
<1>10. CASE Publish(s)
    BY <1>10 DEF Publish, Ask, managerVars, serverVars, browserVars,
       Types, SessionInv, StartInv, HookInv, ServeInv, StopInv, Stopped, Launching
<1>11. CASE Reject(s)
    BY <1>11 DEF Reject, managerVars, serverVars, browserVars,
       Types, SessionInv, StartInv, HookInv, ServeInv, StopInv, Stopped, Launching
<1>12. CASE Release(s)
    BY <1>12 DEF Release, serverVars, browserVars,
       Types, SessionInv, StartInv, HookInv, ServeInv, StopInv, Stopped, Launching
<1>. QED
    BY <1>1, <1>2, <1>3, <1>4, <1>5, <1>6, <1>7, <1>8, <1>9, <1>10, <1>11, <1>12 DEF StartStep

\* The steps of Stop keep their own capture consistent.
LEMMA StopPreserves ==
    ASSUME Types, CloseInv, NEW s \in Captures, SessionInv(s),
           Stop(s) \/ Expire(s) \/ StopStep(s) \/ CloseVisit(s)
    PROVE  SessionInv(s)'
<1>1. CASE Stop(s)
    BY <1>1 DEF Stop, Ask, managerVars, serverVars, browserVars,
       Types, SessionInv, StartInv, HookInv, ServeInv, StopInv, Stopped, Launching
<1>2. CASE Expire(s)
    BY <1>2 DEF Expire, Ask, managerVars, serverVars, browserVars,
       Types, SessionInv, StartInv, HookInv, ServeInv, StopInv, Stopped, Launching
<1>3. CASE Mark(s)
    BY <1>3 DEF Mark, Goes, managerVars, serverVars, browserVars,
       Types, SessionInv, StartInv, HookInv, ServeInv, StopInv, Stopped, Launching
<1>4. CASE CloseListener(s)
    BY <1>4 DEF CloseListener, Goes, managerVars, browserVars,
       Types, SessionInv, StartInv, HookInv, ServeInv, StopInv, Stopped, Launching
<1>5. CASE CloseServer(s)
    BY <1>5 DEF CloseServer, Goes, managerVars, browserVars,
       Types, SessionInv, StartInv, HookInv, ServeInv, StopInv, Stopped, Launching
<1>6. CASE Kill(s)
    BY <1>6 DEF Kill, Goes, managerVars, serverVars, browserVars,
       Types, SessionInv, StartInv, HookInv, ServeInv, StopInv, Stopped, Launching
<1>7. CASE Drain(s)
    BY <1>7 DEF Drain, Goes, managerVars, serverVars, browserVars,
       Types, SessionInv, StartInv, HookInv, ServeInv, StopInv, Stopped, Launching
<1>8. CASE Reap(s)
    BY <1>8 DEF Reap, Goes, managerVars, serverVars,
       Types, SessionInv, StartInv, HookInv, ServeInv, StopInv, Stopped, Launching
<1>9. CASE RemoveProfile(s)
    BY <1>9 DEF RemoveProfile, Goes, managerVars, serverVars,
       Types, SessionInv, StartInv, HookInv, ServeInv, StopInv, Stopped, Launching
<1>10. CASE Finish(s)
    BY <1>10 DEF Finish, Goes, managerVars, serverVars, browserVars,
       Types, SessionInv, StartInv, HookInv, ServeInv, StopInv, Stopped, Launching
<1>11. CASE CloseVisit(s)
    BY <1>11 DEF CloseVisit, CloseInv, Ask, serverVars, browserVars,
       Types, SessionInv, StartInv, HookInv, ServeInv, StopInv, Stopped, Launching
<1>. QED
    BY <1>1, <1>2, <1>3, <1>4, <1>5, <1>6, <1>7, <1>8, <1>9, <1>10, <1>11 DEF StopStep

\* The steps of the server and the browser keep their own capture consistent.
LEMMA ServePreserves ==
    ASSUME Types, NEW s \in Captures, SessionInv(s),
           ServeStep(s) \/ AcceptFails(s) \/ ProcessExits(s)
    PROVE  SessionInv(s)'
<1>1. CASE AcceptFails(s)
    BY <1>1 DEF AcceptFails, Live, managerVars, browserVars,
       Types, SessionInv, StartInv, HookInv, ServeInv, StopInv, Stopped, Launching
<1>2. CASE ServeReturns(s)
    BY <1>2 DEF ServeReturns, managerVars, browserVars,
       Types, SessionInv, StartInv, HookInv, ServeInv, StopInv, Stopped, Launching
<1>3. CASE ServeRecords(s)
    BY <1>3 DEF ServeRecords, managerVars, browserVars,
       Types, SessionInv, StartInv, HookInv, ServeInv, StopInv, Stopped, Launching
<1>4. CASE ProcessExits(s)
    BY <1>4 DEF ProcessExits, managerVars, serverVars,
       Types, SessionInv, StartInv, HookInv, ServeInv, StopInv, Stopped, Launching
<1>. QED
    BY <1>1, <1>2, <1>3, <1>4 DEF ServeStep

-----------------------------------------------------------------------------
(* The slots.                                                              *)
Holders == {s \in Captures : HoldsSlot(s)}

\* The captures that hold the slot are finitely many.
LEMMA HoldersFinite == IsFiniteSet(Holders) /\ Cardinality(Holders) \in Nat
BY CaptureAssumption, FS_Subset, FS_CardinalityType DEF Holders

\* A step that leaves the holders as they are, takes a slot or gives one back.
LEMMA SlotsFollow ==
    ASSUME SlotAccounting, NEW s \in Captures,
           \A t \in Captures : t # s => (HoldsSlot(t)' <=> HoldsSlot(t)),
           \/ (HoldsSlot(s)' <=> HoldsSlot(s)) /\ capacity' = capacity
           \/ ~HoldsSlot(s) /\ HoldsSlot(s)' /\ capacity < MaxConcurrent /\ capacity' = capacity + 1
           \/ HoldsSlot(s) /\ ~HoldsSlot(s)' /\ capacity' = capacity - 1
    PROVE  SlotAccounting' /\ capacity' \in Nat
<1>1. /\ capacity = Cardinality(Holders) /\ capacity <= MaxConcurrent
      /\ capacity \in Nat /\ MaxConcurrent \in Nat /\ IsFiniteSet(Holders)
    BY HoldersFinite, CaptureAssumption DEF SlotAccounting, Holders
<1>2. CASE (HoldsSlot(s)' <=> HoldsSlot(s)) /\ capacity' = capacity
    <2>1. Holders' = Holders
        BY <1>2 DEF Holders
    <2>. QED
        BY <1>1, <1>2, <2>1 DEF SlotAccounting, Holders
<1>3. CASE ~HoldsSlot(s) /\ HoldsSlot(s)' /\ capacity < MaxConcurrent /\ capacity' = capacity + 1
    <2>1. Holders' = Holders \cup {s} /\ s \notin Holders
        BY <1>3 DEF Holders
    <2>2. Cardinality(Holders') = capacity + 1
        BY <1>1, <2>1, FS_AddElement
    <2>3. capacity' = Cardinality(Holders') /\ capacity' <= MaxConcurrent /\ capacity' \in Nat
        BY <1>1, <1>3, <2>2
    <2>. QED
        BY <2>3 DEF SlotAccounting, Holders
<1>4. CASE HoldsSlot(s) /\ ~HoldsSlot(s)' /\ capacity' = capacity - 1
    <2>1. Holders' = Holders \ {s} /\ s \in Holders
        BY <1>4 DEF Holders
    <2>2. Cardinality(Holders') = capacity - 1 /\ IsFiniteSet(Holders')
        BY <1>1, <2>1, FS_RemoveElement
    <2>3. Cardinality(Holders') \in Nat
        BY <2>2, FS_CardinalityType
    <2>4. capacity' = Cardinality(Holders') /\ capacity' <= MaxConcurrent /\ capacity' \in Nat
        BY <1>1, <1>4, <2>2, <2>3
    <2>. QED
        BY <2>4 DEF SlotAccounting, Holders
<1>. QED
    BY <1>2, <1>3, <1>4

\* Only the four steps that touch the channel change who holds a slot.
LEMMA SlotsHold ==
    ASSUME Types, SlotAccounting, NEW s \in Captures, SessionInv(s), Moves(s)
    PROVE  SlotAccounting' /\ capacity' \in Nat
<1>1. \A t \in Captures : t # s => (HoldsSlot(t)' <=> HoldsSlot(t))
    BY MoveTypes DEF SameAt, HoldsSlot
<1>2. CASE Acquire(s)
    <2>1. ~HoldsSlot(s) /\ HoldsSlot(s)'
        BY <1>2 DEF Acquire, HoldsSlot, Types, SessionInv, StartInv, Launching
    <2>. QED
        BY <1>1, <1>2, <2>1, SlotsFollow DEF Acquire
<1>3. CASE Refuse(s)
    <2>1. HoldsSlot(s) /\ ~HoldsSlot(s)'
        BY <1>3 DEF Refuse, HoldsSlot, Types, SessionInv, StartInv, Launching, browserVars
    <2>. QED
        BY <1>1, <1>3, <2>1, SlotsFollow DEF Refuse
<1>4. CASE Release(s)
    <2>1. HoldsSlot(s) /\ ~HoldsSlot(s)' /\ s \notin released
        BY <1>4 DEF Release, HoldsSlot, Types, SessionInv, StartInv, HookInv, Launching, browserVars
    <2>. QED
        BY <1>1, <1>4, <2>1, SlotsFollow DEF Release
<1>5. CASE \/ CheckOpen(s) \/ OpenFails(s) \/ Open(s) \/ Launch(s) \/ LaunchFails(s) \/ Abort(s)
           \/ SetOnStop(s) \/ Publish(s) \/ Reject(s)
    <2>1. HoldsSlot(s)' <=> HoldsSlot(s)
        BY <1>5 DEF CheckOpen, OpenFails, Open, Launch, LaunchFails, Abort, SetOnStop, Publish,
           Reject, HoldsSlot, Types, SessionInv, StartInv, HookInv, Launching, managerVars,
           browserVars
    <2>2. capacity' = capacity
        BY <1>5 DEF CheckOpen, OpenFails, Open, Launch, LaunchFails, Abort, SetOnStop, Publish,
           Reject, managerVars
    <2>. QED
        BY <1>1, <2>1, <2>2, SlotsFollow
<1>6. CASE \/ ServeStep(s) \/ AcceptFails(s) \/ ProcessExits(s)
           \/ Stop(s) \/ Expire(s) \/ StopStep(s) \/ CloseVisit(s)
    <2>1. HoldsSlot(s)' <=> HoldsSlot(s)
        BY <1>6 DEF ServeStep, ServeReturns, ServeRecords, AcceptFails, ProcessExits, Stop,
           Expire, StopStep, Mark, CloseListener, CloseServer, Kill, Reap, Drain,
           RemoveProfile, Finish, CloseVisit, HoldsSlot, Types, browserVars
    <2>2. capacity' = capacity
        BY <1>6 DEF ServeStep, ServeReturns, ServeRecords, AcceptFails, ProcessExits, Stop,
           Expire, StopStep, Mark, CloseListener, CloseServer, Kill, Reap, Drain,
           RemoveProfile, Finish, CloseVisit, managerVars
    <2>. QED
        BY <1>1, <2>1, <2>2, SlotsFollow
<1>. QED
    BY <1>2, <1>3, <1>4, <1>5, <1>6 DEF Moves, StartStep

-----------------------------------------------------------------------------
(* Close.                                                                  *)

\* A published session stays published, a stopped one stopped.
LEMMA PublishedStays ==
    ASSUME Types, NEW s \in Captures, Moves(s), NEW t \in Captures
    PROVE  /\ pc[t] = "started" => pc'[t] = "started"
           /\ Stopped(t) => Stopped(t)'
<1>1. CASE t # s
    BY <1>1, MoveTypes DEF SameAt, Stopped
<1>2. CASE t = s
    <2>1. CASE Acquire(s) \/ StartStep(s) \/ Release(s)
        BY <1>2, <2>1 DEF Acquire, StartStep, CheckOpen, OpenFails, Open, Launch, LaunchFails,
           Abort, Refuse, SetOnStop, Publish, Reject, Release, Ask, Stopped, Types
    <2>2. CASE ServeStep(s) \/ AcceptFails(s) \/ ProcessExits(s)
        BY <1>2, <2>2 DEF ServeStep, ServeReturns, ServeRecords, AcceptFails, ProcessExits, Stopped
    <2>3. CASE Stop(s) \/ Expire(s) \/ StopStep(s) \/ CloseVisit(s)
        BY <1>2, <2>3 DEF Stop, Expire, StopStep, Mark, CloseListener, CloseServer, Kill, Reap,
           Drain, RemoveProfile, Finish, CloseVisit, Goes, Ask, Stopped, Types
    <2>. QED
        BY <2>1, <2>2, <2>3 DEF Moves
<1>. QED
    BY <1>1, <1>2

\* Only Publish makes a session published, and not once the manager is closed;
\* only CloseVisit takes a session off the list.
LEMMA ClosePreserves ==
    ASSUME Types, CloseInv, ClosedMeansStopped, NEW s \in Captures, Moves(s)
    PROVE  CloseInv' /\ ClosedMeansStopped'
<1>1. closed' = closed
    BY DEF Moves, StartStep, ServeStep, StopStep, Acquire, CheckOpen, OpenFails, Open, Launch,
       LaunchFails, Abort, Refuse, SetOnStop, Publish, Reject, Release, ServeReturns,
       ServeRecords, AcceptFails, ProcessExits, Stop, Expire, Mark, CloseListener, CloseServer,
       Kill, Reap, Drain, RemoveProfile, Finish, CloseVisit, managerVars
<1>2. \/ closeList' = closeList /\ closeAt' = closeAt
      \/ s \in closeList /\ closeList' = closeList \ {s} /\ closeAt = NoCapture /\ closeAt' = s
    BY DEF Moves, StartStep, ServeStep, StopStep, Acquire, CheckOpen, OpenFails, Open, Launch,
       LaunchFails, Abort, Refuse, SetOnStop, Publish, Reject, Release, ServeReturns,
       ServeRecords, AcceptFails, ProcessExits, Stop, Expire, Mark, CloseListener, CloseServer,
       Kill, Reap, Drain, RemoveProfile, Finish, CloseVisit, managerVars
<1>3. \A t \in Captures : pc'[t] = "started" => pc[t] = "started" \/ ~closed
    <2>1. \A t \in Captures : t # s => pc'[t] = pc[t]
        BY MoveTypes DEF SameAt
    <2>2. pc'[s] = "started" => pc[s] = "started" \/ ~closed
        <3>1. CASE Acquire(s) \/ StartStep(s) \/ Release(s)
            BY <3>1 DEF Acquire, StartStep, CheckOpen, OpenFails, Open, Launch, LaunchFails,
               Abort, Refuse, SetOnStop, Publish, Reject, Release, Types
        <3>2. CASE \/ ServeStep(s) \/ AcceptFails(s) \/ ProcessExits(s)
                   \/ Stop(s) \/ Expire(s) \/ StopStep(s) \/ CloseVisit(s)
            BY <3>2 DEF ServeStep, ServeReturns, ServeRecords, AcceptFails, ProcessExits, Stop,
               Expire, StopStep, Mark, CloseListener, CloseServer, Kill, Reap, Drain,
               RemoveProfile, Finish, CloseVisit
        <3>. QED
            BY <3>1, <3>2 DEF Moves
    <2>. QED
        BY <2>1, <2>2
<1>4. CloseInv'
    BY <1>2, PublishedStays, CaptureAssumption DEF CloseInv, Types
<1>5. ClosedMeansStopped'
    BY <1>1, <1>2, <1>3, PublishedStays, CaptureAssumption DEF ClosedMeansStopped
<1>. QED
    BY <1>4, <1>5

-----------------------------------------------------------------------------
(* The theorems.                                                           *)

LEMMA CaptureInvHolds == Spec => []CaptureInv
<1>1. Init => CaptureInv
    <2>. SUFFICES ASSUME Init
                  PROVE  CaptureInv
        OBVIOUS
    <2>1. TypeOK
        BY DEF Init, TypeOK, PCs, States, Stages
    <2>2. \A s \in Captures : SessionInv(s)
        BY DEF Init, SessionInv, StartInv, HookInv, ServeInv, StopInv, Stopped, Launching
    <2>3. CloseInv /\ ClosedMeansStopped
        BY DEF Init, CloseInv, ClosedMeansStopped
    <2>4. SlotAccounting
        <3>1. {s \in Captures : HoldsSlot(s)} = {}
            BY DEF Init, HoldsSlot
        <3>. QED
            BY <3>1, FS_EmptySet, CaptureAssumption DEF Init, SlotAccounting
    <2>. QED
        BY <2>1, <2>2, <2>3, <2>4 DEF CaptureInv
<1>2. CaptureInv /\ [Next]_vars => CaptureInv'
    <2>. SUFFICES ASSUME CaptureInv, [Next]_vars
                  PROVE  CaptureInv'
        OBVIOUS
    <2>. USE DEF CaptureInv
    <2>1. Types /\ capacity \in Nat
        BY DEF TypeOK, Types
    <2>2. ASSUME NEW s \in Captures, Moves(s)
          PROVE  CaptureInv'
        <3>1. Types' /\ SlotAccounting' /\ capacity' \in Nat
            BY <2>1, <2>2, MoveTypes, SlotsHold
        <3>2. TypeOK'
            BY <3>1 DEF TypeOK, Types
        <3>3. SessionInv(s)'
            BY <2>1, <2>2, StartPreserves, StopPreserves, ServePreserves DEF Moves
        <3>4. \A t \in Captures : SessionInv(t)'
            BY <2>1, <2>2, <3>3, MoveTypes, SessionKept
        <3>. QED
            BY <2>1, <2>2, <3>1, <3>2, <3>4, ClosePreserves
    <2>3. ASSUME UNCHANGED <<released, pc, state, serverVars, browserVars, stopper, hook>>,
                 capacity' = capacity
          PROVE  SlotAccounting' /\ \A t \in Captures : SessionInv(t)'
        <3>1. \A t \in Captures : SameAt(t)
            BY <2>3 DEF SameAt, serverVars, browserVars
        <3>2. \A t \in Captures : HoldsSlot(t)' <=> HoldsSlot(t)
            BY <3>1 DEF SameAt, HoldsSlot
        <3>3. {t \in Captures : HoldsSlot(t)}' = {t \in Captures : HoldsSlot(t)}
            BY <3>2
        <3>. QED
            BY <2>3, <3>1, <3>3, SessionKept DEF SlotAccounting
    <2>4. CASE CloseBegin
        <3>1. TypeOK' /\ CloseInv' /\ ClosedMeansStopped'
            BY <2>4 DEF CloseBegin, TypeOK, CloseInv, ClosedMeansStopped, Stopped, serverVars,
               browserVars
        <3>. QED
            BY <2>3, <2>4, <3>1 DEF CloseBegin
    <2>5. CASE CloseNext
        <3>1. TypeOK' /\ CloseInv' /\ ClosedMeansStopped'
            BY <2>5 DEF CloseNext, TypeOK, CloseInv, ClosedMeansStopped, Stopped, serverVars,
               browserVars
        <3>. QED
            BY <2>3, <2>5, <3>1 DEF CloseNext
    <2>6. CASE UNCHANGED vars
        <3>1. TypeOK' /\ CloseInv' /\ ClosedMeansStopped'
            BY <2>6 DEF vars, managerVars, TypeOK, CloseInv, ClosedMeansStopped, Stopped,
               serverVars, browserVars
        <3>. QED
            BY <2>3, <2>6, <3>1 DEF vars, managerVars
    <2>. QED
        BY <2>2, <2>4, <2>5, <2>6 DEF Next, Moves
<1>. QED
    BY <1>1, <1>2, PTL DEF Spec

(* Every variable of the manager and of its sessions has its type.         *)

THEOREM CaptureTypeCorrect == Spec => []TypeOK
<1>1. CaptureInv => TypeOK
    BY DEF CaptureInv
<1>. QED
    BY <1>1, CaptureInvHolds, PTL

(* The capacity channel holds exactly one token for every Start call or    *)
(* session that owns one, never more than the limit: refused, failed,      *)
(* stopped before or after its callback was set, a call gives back the     *)
(* token it took and no other.                                             *)

THEOREM SlotsAreAccounted == Spec => []SlotAccounting
<1>1. CaptureInv => SlotAccounting
    BY DEF CaptureInv
<1>. QED
    BY <1>1, CaptureInvHolds, PTL

(* An orderly stop is never reported as a failure: a failed session is one  *)
(* whose Accept failed by itself, although stop closes the listener before  *)
(* it shuts the server down.                                                *)

THEOREM FailuresAreReal == Spec => []FailureIsReal
<1>1. CaptureInv => FailureIsReal
    BY DEF CaptureInv, SessionInv, ServeInv, FailureIsReal
<1>. QED
    BY <1>1, CaptureInvHolds, PTL

(* A stopped session, or one that could not be launched, leaves no listener *)
(* and no profile, except the profile of a browser that outlived its kill.  *)

THEOREM NothingIsLeft == Spec => []NothingLeft
<1>1. CaptureInv => NothingLeft
    <2>. SUFFICES ASSUME CaptureInv, NEW s \in Captures
                  PROVE  /\ Stopped(s) => /\ ~listening[s]
                                          /\ state[s] \in {"completed", "failed"}
                                          /\ profile[s] => outlived[s]
                         /\ pc[s] = "rejected" /\ process[s] = "none" =>
                              ~listening[s] /\ ~profile[s]
        BY DEF NothingLeft
    <2>. QED
        BY DEF CaptureInv, SessionInv, StartInv, StopInv, Stopped
<1>. QED
    BY <1>1, CaptureInvHolds, PTL

(* Once the manager is closed, every published session is stopped, or Close *)
(* has it on its list, or waits for it.                                     *)

THEOREM CloseMissesNone == Spec => []ClosedMeansStopped
<1>1. CaptureInv => ClosedMeansStopped
    BY DEF CaptureInv
<1>. QED
    BY <1>1, CaptureInvHolds, PTL

(* A session that has been stopped keeps its state: neither an error of     *)
(* serve nor the return of the launch changes it afterwards.                *)

THEOREM StoppedStaysFinal == Spec => StoppedIsFinal
<1>. DEFINE Stays == \A s \in Captures : Stopped(s) => state'[s] = state[s] /\ Stopped(s)'
<1>1. CaptureInv /\ [Next]_vars => [Stays]_vars
    <2>. SUFFICES ASSUME CaptureInv, Next
                  PROVE  Stays
        OBVIOUS
    <2>1. Types
        BY DEF CaptureInv, TypeOK, Types
    <2>2. ASSUME NEW s \in Captures, Moves(s), NEW t \in Captures, Stopped(t)
          PROVE  state'[t] = state[t]
        <3>1. CASE t # s
            BY <2>1, <2>2, <3>1, MoveTypes DEF SameAt
        <3>2. CASE t = s
            <4>1. /\ pc[s] \notin {"opening", "launching"}
                  /\ state[s] \in {"completed", "failed"}
                BY <2>2, <3>2 DEF CaptureInv, SessionInv, StartInv, StopInv, Stopped, Launching
            <4>2. CASE Acquire(s) \/ StartStep(s) \/ Release(s)
                BY <3>2, <4>1, <4>2 DEF Acquire, StartStep, CheckOpen, OpenFails, Open, Launch,
                   LaunchFails, Abort, Refuse, SetOnStop, Publish, Reject, Release
            <4>3. CASE ServeStep(s) \/ AcceptFails(s) \/ ProcessExits(s)
                BY <2>1, <3>2, <4>1, <4>3 DEF ServeStep, ServeReturns, ServeRecords, AcceptFails,
                   ProcessExits, Types
            <4>4. CASE Stop(s) \/ Expire(s) \/ StopStep(s) \/ CloseVisit(s)
                BY <2>1, <3>2, <4>1, <4>4 DEF Stop, Expire, StopStep, Mark, CloseListener,
                   CloseServer, Kill, Reap, Drain, RemoveProfile, Finish, CloseVisit, Goes, Types
            <4>. QED
                BY <2>2, <4>2, <4>3, <4>4 DEF Moves
        <3>. QED
            BY <3>1, <3>2
    <2>3. ASSUME NEW s \in Captures, Moves(s)
          PROVE  Stays
        BY <2>1, <2>2, <2>3, PublishedStays
    <2>4. CASE CloseBegin \/ CloseNext
        BY <2>4 DEF CloseBegin, CloseNext, Stopped
    <2>. QED
        BY <2>3, <2>4 DEF Next, Moves
<1>. QED
    BY <1>1, CaptureInvHolds, PTL DEF Spec, StoppedIsFinal
=============================================================================
