---------------------------- MODULE JobAdmission ----------------------------
(***************************************************************************)
(* What the in-memory managers of Tadori promise about the jobs they run,  *)
(* whatever a job is (a diagnosis session, a validation batch): at most    *)
(* MaxConcurrent jobs hold a slot; nothing is admitted once the manager is *)
(* shut; a job that was asked to stop before it ended is recorded as       *)
(* cancelled and no other job is; and a slot comes back once per job, only *)
(* after the outcome of the job is recorded.                               *)
(***************************************************************************)
EXTENDS Integers, FiniteSets

CONSTANTS Jobs, MaxConcurrent

VARIABLES
    phase,   \* of each job
    asked,   \* jobs that have been asked to stop
    shut     \* whether the manager refuses new jobs

admissionVars == <<phase, asked, shut>>

Holding == {j \in Jobs : phase[j] \in {"pending", "refusing", "active", "done", "cancelled"}}

AInit ==
    /\ phase = [j \in Jobs |-> "none"]
    /\ asked = {}
    /\ shut = FALSE

Move(j, from, to) ==
    /\ phase[j] = from
    /\ phase' = [phase EXCEPT ![j] = to]

Take(j) ==
    /\ Cardinality(Holding) < MaxConcurrent
    /\ Move(j, "none", "pending")
    /\ UNCHANGED <<asked, shut>>

Decide(j) ==
    /\ Move(j, "pending", IF shut THEN "refusing" ELSE "active")
    /\ UNCHANGED <<asked, shut>>

Ask(j) ==
    /\ phase[j] = "active"
    /\ asked' = asked \cup {j}
    /\ UNCHANGED <<phase, shut>>

End(j) ==
    /\ Move(j, "active", IF j \in asked THEN "cancelled" ELSE "done")
    /\ UNCHANGED <<asked, shut>>

Free(j) ==
    /\ \/ Move(j, "refusing", "refused")
       \/ Move(j, "done", "freed")
       \/ Move(j, "cancelled", "freed")
    /\ UNCHANGED <<asked, shut>>

Shut ==
    /\ shut' = TRUE
    /\ UNCHANGED <<phase, asked>>

ANext == Shut \/ \E j \in Jobs : Take(j) \/ Decide(j) \/ Ask(j) \/ End(j) \/ Free(j)

ASpec == AInit /\ [][ANext]_admissionVars
=============================================================================
