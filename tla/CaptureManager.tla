--------------------------- MODULE CaptureManager ---------------------------
(***************************************************************************)
(* The life cycle of browser captures (internal/capture): Manager.Start,   *)
(* Stop and Close, and for every session its serve, waitForProcess, timer  *)
(* and stop goroutines.  What the proxy does with a request is the module  *)
(* CaptureProxy.                                                           *)
(*                                                                         *)
(* The web server starts captures under context.Background(), so the       *)
(* context of a session ends only when stop, or the cleanup of a failed    *)
(* launch, cancels it.                                                     *)
(***************************************************************************)
EXTENDS Integers, FiniteSets

CONSTANTS
    Captures,       \* the Manager.Start calls; a call that succeeds is its session
    NoCapture,      \* not a capture
    MaxConcurrent,  \* ManagerOptions.MaxConcurrentSessions
    MaxFaults       \* bound: listeners whose Accept fails

ASSUME CaptureAssumption ==
    /\ IsFiniteSet(Captures)
    /\ NoCapture \notin Captures
    /\ MaxConcurrent \in Nat \ {0}
    /\ MaxFaults \in Nat

VARIABLES
    closed,     \* Manager.closed
    capacity,   \* tokens in the Manager.capacity channel
    closeList,  \* sessions Close has copied and not yet stopped
    closeAt,    \* the session whose Stop Close is waiting for
    released,   \* Manager.released
    pc,         \* where the Start call stands
    state,      \* Session.state
    server,     \* where the serve goroutine stands
    listening,  \* whether the listener is open
    shutdown,   \* whether http.Server.Close has been called
    process,    \* the browser
    profile,    \* whether the temporary profile exists
    stopper,    \* where the stop goroutine stands
    outlived,   \* whether stop gave up waiting for the browser
    hook,       \* Session.onStop
    faults      \* sessions whose Accept failed

managerVars == <<closed, capacity, closeList, closeAt, released>>
serverVars  == <<server, listening, shutdown, faults>>
browserVars == <<process, profile, outlived>>
vars == <<managerVars, pc, state, serverVars, browserVars, stopper, hook>>

(* Start: idle, acquired (a token), opening, launching (the proxy serves,  *)
(* the browser does not run yet), aborting (the launch failed), refused    *)
(* (the token is to be given back), launched, callback (setOnStop calls    *)
(* release itself), hooked, unwanted (the manager was closed meanwhile),   *)
(* and then rejected or started.                                           *)
PCs == {"idle", "acquired", "opening", "launching", "aborting", "refused", "launched",
        "callback", "hooked", "unwanted", "rejected", "started"}

(* stop: asked, then marked (first critical section), deaf (listener       *)
(* closed), shut (server and connections closed), killed, reaped, drained, *)
(* cleaned (profile removed), over (stopDone closed).                      *)
Stages == {"none", "asked", "marked", "deaf", "shut", "killed", "reaped", "drained",
           "cleaned", "over"}

States == {"none", "starting", "running", "stopping", "completed", "failed"}

Init ==
    /\ closed = FALSE
    /\ capacity = 0
    /\ closeList = {}
    /\ closeAt = NoCapture
    /\ released = {}
    /\ pc = [s \in Captures |-> "idle"]
    /\ state = [s \in Captures |-> "none"]
    /\ server = [s \in Captures |-> "none"]
    /\ listening = [s \in Captures |-> FALSE]
    /\ shutdown = [s \in Captures |-> FALSE]
    /\ process = [s \in Captures |-> "none"]
    /\ profile = [s \in Captures |-> FALSE]
    /\ stopper = [s \in Captures |-> "none"]
    /\ outlived = [s \in Captures |-> FALSE]
    /\ hook = [s \in Captures |-> "unset"]
    /\ faults = {}

-----------------------------------------------------------------------------
(* Manager.Start, and the Start it calls.                                  *)

\* The non-blocking send; where it would block, Start returns ErrBusy.
Acquire(s) ==
    /\ pc[s] = "idle"
    /\ capacity < MaxConcurrent
    /\ capacity' = capacity + 1
    /\ pc' = [pc EXCEPT ![s] = "acquired"]
    /\ UNCHANGED <<closed, closeList, closeAt, released, state, serverVars, browserVars, stopper, hook>>

\* The first look at closed.
CheckOpen(s) ==
    /\ pc[s] = "acquired"
    /\ pc' = [pc EXCEPT ![s] = IF closed THEN "refused" ELSE "opening"]
    /\ UNCHANGED <<managerVars, state, serverVars, browserVars, stopper, hook>>

\* An unknown browser, no listener or no profile directory: nothing is kept.
OpenFails(s) ==
    /\ pc[s] = "opening"
    /\ pc' = [pc EXCEPT ![s] = "refused"]
    /\ UNCHANGED <<managerVars, state, serverVars, browserVars, stopper, hook>>

\* The listener, the profile, the session value, and go s.serve().
Open(s) ==
    /\ pc[s] = "opening"
    /\ pc' = [pc EXCEPT ![s] = "launching"]
    /\ state' = [state EXCEPT ![s] = "starting"]
    /\ server' = [server EXCEPT ![s] = "serving"]
    /\ listening' = [listening EXCEPT ![s] = TRUE]
    /\ profile' = [profile EXCEPT ![s] = TRUE]
    /\ UNCHANGED <<managerVars, shutdown, faults, process, outlived, stopper, hook>>

\* The browser runs; the goroutines that wait for it and for the session's
\* maximal duration start.
Launch(s) ==
    /\ pc[s] = "launching"
    /\ pc' = [pc EXCEPT ![s] = "launched"]
    /\ state' = [state EXCEPT ![s] = "running"]
    /\ process' = [process EXCEPT ![s] = "alive"]
    /\ UNCHANGED <<managerVars, serverVars, profile, outlived, stopper, hook>>

\* No browser, or it does not start: shutdownStartup up to its wait.
LaunchFails(s) ==
    /\ pc[s] = "launching"
    /\ pc' = [pc EXCEPT ![s] = "aborting"]
    /\ shutdown' = [shutdown EXCEPT ![s] = TRUE]
    /\ listening' = [listening EXCEPT ![s] = FALSE]
    /\ UNCHANGED <<managerVars, state, server, faults, browserVars, stopper, hook>>

\* Faulty variant: the profile directory is left behind.
Abort_KeepProfile(s) ==
    /\ pc[s] = "aborting"
    /\ pc' = [pc EXCEPT ![s] = "refused"]
    /\ UNCHANGED <<managerVars, state, serverVars, browserVars, stopper, hook>>

\* The end of shutdownStartup: serverDone is closed, or two seconds passed.
Abort(s) ==
    /\ pc[s] = "aborting"
    /\ pc' = [pc EXCEPT ![s] = "refused"]
    /\ profile' = [profile EXCEPT ![s] = FALSE]
    /\ UNCHANGED <<managerVars, state, serverVars, process, outlived, stopper, hook>>

\* Start gives its token back and returns an error.
Refuse(s) ==
    /\ pc[s] = "refused"
    /\ pc' = [pc EXCEPT ![s] = "rejected"]
    /\ capacity' = capacity - 1
    /\ UNCHANGED <<closed, closeList, closeAt, released, state, serverVars, browserVars, stopper, hook>>

Stopped(s) == stopper[s] = "over"

\* Faulty variant: setOnStop does not see that the session has stopped.
SetOnStop_Blind(s) ==
    /\ pc[s] = "launched"
    /\ pc' = [pc EXCEPT ![s] = "hooked"]
    /\ hook' = [hook EXCEPT ![s] = "set"]
    /\ UNCHANGED <<managerVars, state, serverVars, browserVars, stopper>>

\* setOnStop: the timer may have stopped the session already.
SetOnStop(s) ==
    /\ pc[s] = "launched"
    /\ pc' = [pc EXCEPT ![s] = IF Stopped(s) THEN "callback" ELSE "hooked"]
    /\ hook' = [hook EXCEPT ![s] = IF Stopped(s) THEN "taken" ELSE "set"]
    /\ UNCHANGED <<managerVars, state, serverVars, browserVars, stopper>>

\* Manager.release, called by stop or by setOnStop.
Release(s) ==
    /\ hook[s] = "taken"
    /\ hook' = [hook EXCEPT ![s] = "called"]
    /\ released' = released \cup {s}
    /\ capacity' = IF s \in released THEN capacity ELSE capacity - 1
    /\ pc' = [pc EXCEPT ![s] = IF @ = "callback" THEN "hooked" ELSE @]
    /\ UNCHANGED <<closed, closeList, closeAt, state, serverVars, browserVars, stopper>>

\* stopOnce: only the first Stop starts the stop goroutine.
Ask(s) == stopper' = [stopper EXCEPT ![s] = IF @ = "none" THEN "asked" ELSE @]

\* Faulty variant: the session is published whatever happened meanwhile.
Publish_Unchecked(s) ==
    /\ pc[s] = "hooked"
    /\ pc' = [pc EXCEPT ![s] = "started"]
    /\ UNCHANGED <<managerVars, state, serverVars, browserVars, stopper, hook>>

\* The second look at closed: the session is published, or stopped at once.
Publish(s) ==
    /\ pc[s] = "hooked"
    /\ pc' = [pc EXCEPT ![s] = IF closed THEN "unwanted" ELSE "started"]
    /\ IF closed THEN Ask(s) ELSE UNCHANGED stopper
    /\ UNCHANGED <<managerVars, state, serverVars, browserVars, hook>>

\* The Stop of an unwanted session returns.
Reject(s) ==
    /\ pc[s] = "unwanted"
    /\ Stopped(s)
    /\ pc' = [pc EXCEPT ![s] = "rejected"]
    /\ UNCHANGED <<managerVars, state, serverVars, browserVars, stopper, hook>>

-----------------------------------------------------------------------------
(* serve: Accept fails by itself, or because the listener was closed.  The *)
(* error is ErrServerClosed exactly when the server was closed before.     *)

Live(s) == server[s] = "serving" /\ listening[s]

AcceptFails(s) ==
    /\ Live(s)
    /\ Cardinality(faults) < MaxFaults
    /\ faults' = faults \cup {s}
    /\ server' = [server EXCEPT ![s] = "erring"]
    /\ listening' = [listening EXCEPT ![s] = FALSE]
    /\ UNCHANGED <<managerVars, pc, state, shutdown, browserVars, stopper, hook>>

ServeReturns(s) ==
    /\ server[s] = "serving" /\ ~listening[s]
    /\ server' = [server EXCEPT ![s] = IF shutdown[s] THEN "done" ELSE "erring"]
    /\ UNCHANGED <<managerVars, pc, state, listening, shutdown, faults, browserVars, stopper, hook>>

\* The error is recorded only in a session that is running; serverDone closes.
ServeRecords(s) ==
    /\ server[s] = "erring"
    /\ server' = [server EXCEPT ![s] = "done"]
    /\ state' = [state EXCEPT ![s] = IF @ = "running" THEN "failed" ELSE @]
    /\ UNCHANGED <<managerVars, pc, listening, shutdown, faults, browserVars, stopper, hook>>

\* waitForProcess: the user closed the browser, or it was killed.  The session
\* goes on.
ProcessExits(s) ==
    /\ process[s] = "alive"
    /\ process' = [process EXCEPT ![s] = "exited"]
    /\ UNCHANGED <<managerVars, pc, state, serverVars, profile, outlived, stopper, hook>>

-----------------------------------------------------------------------------
(* Stop.  Its callers wait for stopDone.                                   *)

\* Manager.Stop finds a published session.
Stop(s) ==
    /\ pc[s] = "started"
    /\ stopper[s] = "none"
    /\ Ask(s)
    /\ UNCHANGED <<managerVars, pc, state, serverVars, browserVars, hook>>

\* MaxSessionDuration is over.
Expire(s) ==
    /\ process[s] # "none"
    /\ stopper[s] = "none"
    /\ Ask(s)
    /\ UNCHANGED <<managerVars, pc, state, serverVars, browserVars, hook>>

Goes(s, from, to) ==
    /\ stopper[s] = from
    /\ stopper' = [stopper EXCEPT ![s] = to]

\* Faulty variant: the state is left to the end of stop.
Mark_Late(s) ==
    /\ Goes(s, "asked", "marked")
    /\ UNCHANGED <<managerVars, pc, state, serverVars, browserVars, hook>>

\* The first critical section.
Mark(s) ==
    /\ Goes(s, "asked", "marked")
    /\ state' = [state EXCEPT ![s] = IF @ \in {"completed", "failed"} THEN @ ELSE "stopping"]
    /\ UNCHANGED <<managerVars, pc, serverVars, browserVars, hook>>

CloseListener(s) ==
    /\ Goes(s, "marked", "deaf")
    /\ listening' = [listening EXCEPT ![s] = FALSE]
    /\ UNCHANGED <<managerVars, pc, state, server, shutdown, faults, browserVars, hook>>

CloseServer(s) ==
    /\ Goes(s, "deaf", "shut")
    /\ shutdown' = [shutdown EXCEPT ![s] = TRUE]
    /\ UNCHANGED <<managerVars, pc, state, server, listening, faults, browserVars, hook>>

Kill(s) ==
    /\ Goes(s, "shut", "killed")
    /\ UNCHANGED <<managerVars, pc, state, serverVars, browserVars, hook>>

\* processDone is closed, or two seconds have passed.
Reap(s) ==
    /\ Goes(s, "killed", "reaped")
    /\ outlived' = [outlived EXCEPT ![s] = process[s] = "alive"]
    /\ UNCHANGED <<managerVars, pc, state, serverVars, process, profile, hook>>

\* serverDone is closed, or two seconds have passed.
Drain(s) ==
    /\ Goes(s, "reaped", "drained")
    /\ UNCHANGED <<managerVars, pc, state, serverVars, browserVars, hook>>

\* RemoveAll may fail while a browser still uses the profile.
RemoveProfile(s) ==
    /\ Goes(s, "drained", "cleaned")
    /\ \E left \in BOOLEAN :
         /\ left => process[s] = "alive"
         /\ profile' = [profile EXCEPT ![s] = left]
    /\ UNCHANGED <<managerVars, pc, state, serverVars, process, outlived, hook>>

\* The last critical section: stoppedAt, the final state, the callback is
\* taken, stopDone is closed.  The callback runs after it.
Finish(s) ==
    /\ Goes(s, "cleaned", "over")
    /\ state' = [state EXCEPT ![s] = IF @ \in {"stopping", "starting", "running"}
                                     THEN "completed" ELSE @]
    /\ hook' = [hook EXCEPT ![s] = IF @ = "set" THEN "taken" ELSE @]
    /\ UNCHANGED <<managerVars, pc, serverVars, browserVars>>

-----------------------------------------------------------------------------
(* Manager.Close.                                                          *)

CloseBegin ==
    /\ ~closed
    /\ closed' = TRUE
    /\ closeList' = {s \in Captures : pc[s] = "started"}
    /\ UNCHANGED <<capacity, closeAt, released, pc, state, serverVars, browserVars, stopper, hook>>

CloseVisit(s) ==
    /\ closeAt = NoCapture
    /\ s \in closeList
    /\ closeList' = closeList \ {s}
    /\ closeAt' = s
    /\ Ask(s)
    /\ UNCHANGED <<closed, capacity, released, pc, state, serverVars, browserVars, hook>>

CloseNext ==
    /\ closeAt # NoCapture
    /\ Stopped(closeAt)
    /\ closeAt' = NoCapture
    /\ UNCHANGED <<closed, capacity, closeList, released, pc, state, serverVars, browserVars, stopper, hook>>

-----------------------------------------------------------------------------
StartStep(s) ==
    \/ CheckOpen(s) \/ OpenFails(s) \/ Open(s) \/ Launch(s) \/ LaunchFails(s) \/ Abort(s)
    \/ Refuse(s) \/ SetOnStop(s) \/ Publish(s) \/ Reject(s)
ServeStep(s) == ServeReturns(s) \/ ServeRecords(s)
StopStep(s) ==
    \/ Mark(s) \/ CloseListener(s) \/ CloseServer(s) \/ Kill(s) \/ Reap(s) \/ Drain(s)
    \/ RemoveProfile(s) \/ Finish(s)

Next ==
    \/ \E s \in Captures :
         \/ Acquire(s) \/ StartStep(s) \/ ServeStep(s) \/ AcceptFails(s) \/ ProcessExits(s)
         \/ Stop(s) \/ Expire(s) \/ StopStep(s) \/ Release(s) \/ CloseVisit(s)
    \/ CloseBegin \/ CloseNext

Spec == Init /\ [][Next]_vars

(* Every goroutine that can run does, the launcher returns and the timer of *)
(* the session fires.  Nothing is assumed of the browser: a killed process  *)
(* may never be reaped.  Nobody is obliged to call Start, Stop or Close.    *)
Fairness ==
    /\ \A s \in Captures :
         /\ WF_vars(StartStep(s))
         /\ WF_vars(ServeStep(s))
         /\ WF_vars(StopStep(s))
         /\ WF_vars(Release(s))
         /\ WF_vars(Expire(s))
         /\ WF_vars(CloseVisit(s))
    /\ WF_vars(CloseNext)

FairSpec == Spec /\ Fairness

-----------------------------------------------------------------------------
(* Properties.                                                             *)

\* Every variable of the manager and of its sessions has its type.
TypeOK ==
    /\ closed \in BOOLEAN
    /\ capacity \in Nat
    /\ closeList \subseteq Captures
    /\ closeAt \in Captures \cup {NoCapture}
    /\ released \subseteq Captures
    /\ pc \in [Captures -> PCs]
    /\ state \in [Captures -> States]
    /\ server \in [Captures -> {"none", "serving", "erring", "done"}]
    /\ listening \in [Captures -> BOOLEAN]
    /\ shutdown \in [Captures -> BOOLEAN]
    /\ process \in [Captures -> {"none", "alive", "exited"}]
    /\ profile \in [Captures -> BOOLEAN]
    /\ stopper \in [Captures -> Stages]
    /\ outlived \in [Captures -> BOOLEAN]
    /\ hook \in [Captures -> {"unset", "set", "taken", "called"}]
    /\ faults \subseteq Captures

\* A Start call that has taken a token and has not seen it come back.
HoldsSlot(s) ==
    \/ pc[s] \in {"acquired", "opening", "launching", "aborting", "refused"}
    \/ process[s] # "none" /\ hook[s] # "called"

\* The capacity channel holds one token for every Start call or session that
\* owns one, on every path: refused, failed to launch, stopped before its
\* callback was set, stopped after it, and stopped because the manager closed.
SlotAccounting ==
    /\ capacity = Cardinality({s \in Captures : HoldsSlot(s)})
    /\ capacity <= MaxConcurrent

\* An orderly stop is never reported as a failure, although closing the
\* listener makes serve return an error: a failed session is one whose Accept
\* failed by itself while it ran.
FailureIsReal ==
    \A s \in Captures : state[s] = "failed" => s \in faults

\* What a stopped session, or one that could not be launched, leaves behind:
\* no listener, a final state, and no profile unless a browser that survived
\* its killing keeps it.
NothingLeft ==
    \A s \in Captures :
        /\ Stopped(s) => /\ ~listening[s]
                         /\ state[s] \in {"completed", "failed"}
                         /\ profile[s] => outlived[s]
        /\ pc[s] = "rejected" /\ process[s] = "none" => ~listening[s] /\ ~profile[s]

\* Close waits for every session it found, and a session it could not find is
\* never published: once Close has returned each published session is stopped.
ClosedMeansStopped ==
    closed => \A s \in Captures :
        pc[s] = "started" => Stopped(s) \/ s \in closeList \/ s = closeAt

\* A session that has been stopped keeps its state for whoever asks for it later.
StoppedIsFinal ==
    [][\A s \in Captures : Stopped(s) => state'[s] = state[s] /\ Stopped(s)']_vars

\* Every browser session ends and gives its slot back, also when the browser
\* does not die and when the session ends before its callback is set, and so
\* does every call that failed or that Close turned away: the manager drains.
SlotsReturn == <>[](capacity = 0)

\* What capture_test.go expects: when Stop has returned, the session's slot
\* can be taken by the next Start.
StopFreesSlot ==
    \A s \in Captures : Stopped(s) /\ pc[s] = "started" => ~HoldsSlot(s)
=============================================================================
