------------------------------ MODULE ProbeRun ------------------------------
(***************************************************************************)
(* What every active probe shares (internal/probe/probe.go and the result  *)
(* of internal/model/contracts.go): one run of one probe, in a world that  *)
(* does not change while it runs, under a context that may end at any      *)
(* time, and the result it returns.  A probe that has nothing to measure   *)
(* but time is given ticks.                                                *)
(***************************************************************************)
EXTENDS Integers, Sequences, FiniteSets, SequencesExt

VARIABLES
    probe,   \* the name of the probe
    world,   \* what the probe will find, a record of its own shape
    pc,      \* where Run is
    ctx,     \* what ctx.Err() says: "live", "cancelled" or "deadline"
    clock,   \* ticks since Run began
    work,    \* the locals of Run, a record of the probe's own shape
    result   \* what Run returned

runVars == <<probe, world, pc, ctx, clock, work, result>>

-----------------------------------------------------------------------------
\* The status, reason, layer and fault domain of a ProbeResult, and the number
\* of the endpoint, answer or step that it is about.
Result(status, reason, layer, domain, about) ==
    [status |-> status, reason |-> reason, layer |-> layer, domain |-> domain, about |-> about]

NoResult == Result("unknown", "unknown", "unknown", "unknown", 0)

Statuses == {"unknown", "passed", "failed", "skipped", "error"}

Begins(name, worlds, locals) ==
    /\ probe = name
    /\ world \in worlds
    /\ work = locals
    /\ pc = "start" /\ ctx \in {"live", "cancelled", "deadline"} /\ clock = 0
    /\ result = NoResult

Done == pc = "done"

\* One step of the probe: Run goes on, or returns.
Continue(to, locals) ==
    /\ pc' = to /\ work' = locals
    /\ UNCHANGED <<probe, world, ctx, result>>

Return(value, locals) ==
    /\ pc' = "done" /\ work' = locals /\ result' = value
    /\ UNCHANGED <<probe, world, ctx>>

ContextEnds ==
    /\ ~Done /\ ctx = "live"
    /\ ctx' \in {"cancelled", "deadline"}
    /\ UNCHANGED <<probe, world, pc, clock, work, result>>
=============================================================================
