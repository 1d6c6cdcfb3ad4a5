----------------------------- MODULE ProbePool ------------------------------
(***************************************************************************)
(* One diagnostic run (internal/orchestrate/run.go): a fixed list of probes *)
(* is drained in order by a small pool of workers.  DNS publishes endpoint *)
(* candidates and closes resolvedReady; TCP publishes the tested endpoint  *)
(* and closes transportReady; the probes that depend on them occupy their  *)
(* worker while they wait, under the context of the whole run.             *)
(***************************************************************************)
EXTENDS Integers, Sequences, FiniteSets

CONSTANTS
    Protocol,       \* Target.ApplicationProtocol
    DNSService,     \* whether the target is a DNS service
    Literal,        \* whether the target is an IP literal
    Workers,        \* the workers: Options.ProbeConcurrency of them, at most one per probe
    MaxFaults,      \* bound: probes that do not pass
    MayEnd          \* whether the run's context has an end at all

ASSUME PoolAssumption ==
    /\ Protocol \in {"https", "tls", "http", "ssh", "rdp", "smb", "tcp"}
    /\ DNSService \in BOOLEAN /\ Literal \in BOOLEAN /\ MayEnd \in BOOLEAN
    /\ Workers # {} /\ IsFiniteSet(Workers)
    /\ MaxFaults \in Nat

VARIABLES
    nextJob,         \* index jobsCh delivers next; the jobs below it were announced
    worker,          \* where each worker is, its job, and the result it will file
    candidates,      \* endpointSelectionState.candidates
    tested,          \* endpointSelectionState.tested
    resolvedReady,   \* whether the channel is closed
    transportReady,  \* whether the channel is closed
    results,         \* the result slots
    seen,            \* the candidates and the endpoint each probe was prepared with
    invoked,         \* jobs whose probe was called
    ctxDone,         \* whether the run's context has ended
    faults           \* probes that did not pass so far

vars == <<nextJob, worker, candidates, tested, resolvedReady, transportReady,
          results, seen, invoked, ctxDone, faults>>

-----------------------------------------------------------------------------
\* Faulty variant: the routes are looked up before TCP is tried.
CommonJobs_RoutesFirst ==
    <<"dns", "interface_state", "dns_configuration", "default_route", "target_route",
      "gateway", "tcp", "proxy", "enterprise", "path">>

CommonJobs ==
    <<"dns", "interface_state", "dns_configuration", "tcp", "default_route", "target_route",
      "gateway", "proxy", "enterprise", "path">>

ServiceJobs ==
    (IF Protocol \in {"ssh", "rdp", "smb"} THEN <<Protocol, "tls", "http">> ELSE <<"tls", "http">>)
    \o (IF DNSService THEN <<"dns_service">> ELSE <<>>)

JobList == CommonJobs \o ServiceJobs
Jobs    == 1..Len(JobList)

\* The probes that start at once.
Independent(j) == JobList[j] \in {"dns", "interface_state", "dns_configuration"}

WaitsForTransport(j) ==
    JobList[j] \in {"path", "tls", "http", "ssh", "rdp", "smb", "default_route",
                    "target_route", "gateway"}

\* The lanes of a protocol without TLS or HTTP are wired to skippedURLProbe.
SkippedLane(j) ==
    \/ JobList[j] = "tls" /\ Protocol \notin {"https", "tls"}
    \/ JobList[j] = "http" /\ Protocol \notin {"https", "http"}

(* A result is what reportStatus reads of it: status, failure reason, layer. *)
Result(status, reason, layer) == [status |-> status, reason |-> reason, layer |-> layer]

Nothing        == Result("none", "none", "none")
ExecutionError == Result("error", "probe_execution", "unknown")

Layer(j) ==
    CASE JobList[j] \in {"dns", "dns_service", "dns_configuration"} -> "dns"
      [] JobList[j] \in {"default_route", "target_route"}           -> "route"
      [] JobList[j] \in {"proxy", "enterprise"}                     -> "proxy"
      [] JobList[j] = "interface_state"                             -> "interface"
      [] JobList[j] = "path"                                        -> "network"
      [] OTHER                                                      -> JobList[j]

\* What the probe of a job returns when all goes well ...
Passes(j) ==
    IF SkippedLane(j)
    THEN {Result("skipped", "unsupported", Layer(j))}
    ELSE {Result("passed", "none", Layer(j))}
         \cup {r \in {Result("passed", "none", "tcp")} : JobList[j] = "path"}

\* ... and otherwise: a negative observation, a cancelled or timed out lane, a
\* lane the platform does not have, a failure of the HTTP protocol.
Fails(j) ==
    IF SkippedLane(j)
    THEN {}
    ELSE {Result("failed", "other", Layer(j)), Result("error", "other", Layer(j))}
         \cup {r \in {Result("skipped", "unsupported", Layer(j))} :
                 JobList[j] \in {"gateway", "proxy", "enterprise"}}
         \cup {r \in {Result("error", "unsupported", "icmp")} : JobList[j] = "path"}
         \cup {r \in {Result("error", "http_failure", "http")} : JobList[j] = "http"}

Unset  == "unset"
Unseen == [candidates |-> Unset, tested |-> Unset]
Idle   == [at |-> "idle", job |-> 0, result |-> Nothing]

Init ==
    /\ nextJob = 1
    /\ worker = [w \in Workers |-> Idle]
    /\ candidates = Unset
    /\ tested = Unset
    /\ resolvedReady = FALSE
    /\ transportReady = FALSE
    /\ results = [j \in Jobs |-> Nothing]
    /\ seen = [j \in Jobs |-> Unseen]
    /\ invoked = {}
    /\ ctxDone = FALSE
    /\ faults = 0

-----------------------------------------------------------------------------
WorkerAt(w, place) == worker[w].at = place
Job(w)             == JobList[worker[w].job]

\* A worker receives a job and calls OnProbeStarted, before it waits for anything.
Receive(w) ==
    /\ WorkerAt(w, "idle")
    /\ nextJob <= Len(JobList)
    /\ nextJob' = nextJob + 1
    /\ worker' = [worker EXCEPT
                    ![w].job = nextJob,
                    ![w].at  = IF Independent(nextJob) THEN "running" ELSE "resolving"]
    /\ invoked' = IF Independent(nextJob) THEN invoked \cup {nextJob} ELSE invoked
    /\ UNCHANGED <<candidates, tested, resolvedReady, transportReady, results, seen, ctxDone,
                   faults>>

\* Faulty variant: the candidates are read without waiting for DNS.
AddressKnown_Unwaited == TRUE

\* A literal target needs no answer from DNS.
AddressKnown == Literal \/ resolvedReady

\* resolvedCandidatesForProbe.
Resolve(w) ==
    /\ WorkerAt(w, "resolving")
    /\ AddressKnown
    /\ seen' = [seen EXCEPT ![worker[w].job].candidates =
                    IF Literal THEN "literal" ELSE candidates]
    /\ IF WaitsForTransport(worker[w].job)
       THEN /\ worker' = [worker EXCEPT ![w].at = "connecting"]
            /\ UNCHANGED invoked
       ELSE /\ worker' = [worker EXCEPT ![w].at = "running"]
            /\ invoked' = invoked \cup {worker[w].job}
    /\ UNCHANGED <<nextJob, candidates, tested, resolvedReady, transportReady, results,
                   ctxDone, faults>>

\* transportEndpointForProbe.
Connect(w) ==
    /\ WorkerAt(w, "connecting")
    /\ transportReady
    /\ seen' = [seen EXCEPT ![worker[w].job].tested = tested]
    /\ worker' = [worker EXCEPT ![w].at = "running"]
    /\ invoked' = invoked \cup {worker[w].job}
    /\ UNCHANGED <<nextJob, candidates, tested, resolvedReady, transportReady, results,
                   ctxDone, faults>>

\* The slot of the worker's job is written and OnProbeCompleted is called.
File(w, r) ==
    /\ results' = [results EXCEPT ![worker[w].job] = r]
    /\ worker' = [worker EXCEPT ![w] = Idle]

\* dependencyWaitFailure: says nothing of the target.
WaitFailure(w) == ExecutionError

\* Either wait ends with the context: the probe is not run, its slot is filled.
\* When the channel is closed too, select may pick either.
Abandon(w) ==
    /\ worker[w].at \in {"resolving", "connecting"}
    /\ WorkerAt(w, "resolving") => ~Literal
    /\ ctxDone
    /\ File(w, WaitFailure(w))
    /\ UNCHANGED <<nextJob, candidates, tested, resolvedReady, transportReady, seen, invoked,
                   ctxDone, faults>>

(* The probe ends with result r.  DNS and TCP close their channel in a      *)
(* deferred call, on the way out of a panic too; only then is the slot      *)
(* written.                                                                 *)
Ends(w, r) ==
    IF Job(w) \in {"dns", "tcp"}
    THEN /\ worker' = [worker EXCEPT ![w].at = "closing", ![w].result = r]
         /\ UNCHANGED results
    ELSE File(w, r)

\* DNS publishes the candidates of its answer and TCP the endpoint it connected to.
ReturnsWith(w, r) ==
    /\ Ends(w, r)
    /\ candidates' = IF Job(w) = "dns"
                     THEN IF r.status = "passed" THEN "answers" ELSE "none"
                     ELSE candidates
    /\ tested' = IF Job(w) = "tcp" /\ r.status = "passed" THEN "endpoint" ELSE tested

Return(w) ==
    /\ WorkerAt(w, "running")
    /\ \/ /\ \E r \in Passes(worker[w].job) : ReturnsWith(w, r)
          /\ UNCHANGED faults
       \/ /\ faults < MaxFaults
          /\ \E r \in Fails(worker[w].job) : ReturnsWith(w, r)
          /\ faults' = faults + 1
    /\ UNCHANGED <<nextJob, resolvedReady, transportReady, seen, invoked, ctxDone>>

\* runBounded recovers a panic of the probe, which has published nothing.
Panic(w) ==
    /\ WorkerAt(w, "running")
    /\ faults < MaxFaults
    /\ faults' = faults + 1
    /\ Ends(w, ExecutionError)
    /\ UNCHANGED <<nextJob, candidates, tested, resolvedReady, transportReady, seen, invoked,
                   ctxDone>>

CloseReady(w) ==
    /\ WorkerAt(w, "closing")
    /\ resolvedReady' = (resolvedReady \/ Job(w) = "dns")
    /\ transportReady' = (transportReady \/ Job(w) = "tcp")
    /\ File(w, worker[w].result)
    /\ UNCHANGED <<nextJob, candidates, tested, seen, invoked, ctxDone, faults>>

\* The overall deadline or a cancellation.
ContextEnds ==
    /\ MayEnd /\ ~ctxDone
    /\ ctxDone' = TRUE
    /\ UNCHANGED <<nextJob, worker, candidates, tested, resolvedReady, transportReady,
                   results, seen, invoked, faults>>

\* wg.Wait returns: the channel is drained and every worker has left its loop.
Drained == nextJob > Len(JobList) /\ \A w \in Workers : WorkerAt(w, "idle")

WorkerStep(w) ==
    \/ Receive(w) \/ Resolve(w) \/ Connect(w) \/ Abandon(w)
    \/ Return(w) \/ Panic(w) \/ CloseReady(w)

Next == ContextEnds \/ \E w \in Workers : WorkerStep(w)

Spec == Init /\ [][Next]_vars

-----------------------------------------------------------------------------
(* reportStatus.                                                           *)

HasDestinationEvidence ==
    \E j \in Jobs : /\ results[j].layer \in {"http", "smb", "tcp", "ssh", "rdp"}
                    /\ results[j].status = "passed"
                    /\ results[j].reason = "none"

\* Lanes that some platforms or protocols do not have.
NonFatalUnavailable(r) ==
    /\ r.reason = "unsupported"
    /\ \/ r.layer \in {"gateway", "icmp", "network", "proxy"}
       \/ r.layer \in {"tls", "http"} /\ r.status = "skipped"

\* Faulty variant: an error is tolerated once the destination answered.
RequiredExecutionIncomplete_Tolerant(r) ==
    /\ ~NonFatalUnavailable(r)
    /\ r.status \in {"skipped", "error"}
    /\ ~HasDestinationEvidence

\* A failure of the HTTP protocol is an observation only when another lane
\* reached the destination.
RequiredExecutionIncomplete(r) ==
    /\ ~NonFatalUnavailable(r)
    /\ \/ r.status = "skipped"
       \/ r.status = "error" /\ (r.reason # "http_failure" \/ ~HasDestinationEvidence)

ReportStatus ==
    IF \E j \in Jobs : RequiredExecutionIncomplete(results[j]) THEN "incomplete" ELSE "complete"

-----------------------------------------------------------------------------
(* Type invariant: the pool, the selection state and the slots keep the     *)
(* shapes runProbes gives them.                                             *)
Places == {"idle", "resolving", "connecting", "running", "closing"}
Slots  == {Nothing, ExecutionError} \cup UNION {Passes(j) \cup Fails(j) : j \in Jobs}

TypeOK ==
    /\ nextJob \in 1..(Len(JobList) + 1)
    /\ worker \in [Workers -> [at : Places, job : 0..Len(JobList), result : Slots]]
    /\ candidates \in {Unset, "answers", "none"}
    /\ tested \in {Unset, "endpoint"}
    /\ resolvedReady \in BOOLEAN /\ transportReady \in BOOLEAN
    /\ results \in [Jobs -> Slots]
    /\ seen \in [Jobs -> [candidates : {Unset, "answers", "none", "literal"},
                          tested : {Unset, "endpoint"}]]
    /\ invoked \subseteq Jobs
    /\ ctxDone \in BOOLEAN
    /\ faults \in 0..MaxFaults

(* All the lanes of one report are about one endpoint: however the workers  *)
(* interleave with DNS and TCP, any two probes that were invoked after      *)
(* waiting on DNS were given the same candidates, and any two that also     *)
(* waited on TCP the same tested endpoint, the one finally published.       *)
LanesAgree ==
    \A j \in invoked :
      ~Independent(j) =>
        /\ ~Literal => seen[j].candidates = candidates
        /\ WaitsForTransport(j) => seen[j].tested = tested

(* A report is never called complete when one of its lanes was announced    *)
(* but not run, or panicked: it shows in the status of the report even when *)
(* another lane reached the destination, and every slot holds a result.     *)
NoSilentDrop ==
    Drained =>
      /\ \A j \in Jobs : results[j] # Nothing
      /\ invoked # Jobs \/ (\E j \in Jobs : results[j] = ExecutionError) =>
            ReportStatus = "incomplete"

\* A worker that cannot go on before DNS or TCP has closed its channel, or the
\* context has ended.
Blocked(w) ==
    /\ ~ctxDone
    /\ \/ WorkerAt(w, "resolving") /\ ~Literal /\ ~resolvedReady
       \/ WorkerAt(w, "connecting") /\ ~transportReady

(* The order of the list is what keeps the pool from waiting on itself:     *)
(* whoever waits has another worker that holds an earlier probe, so the     *)
(* earliest probe under way never waits, whatever the number of workers and *)
(* whether or not DNS and TCP failed or panicked.  Once the context has     *)
(* ended nobody waits: a TCP probe that was given up closes no channel.     *)
NoStall ==
    \A w \in Workers :
      Blocked(w) => \E v \in Workers : ~WorkerAt(v, "idle") /\ worker[v].job < worker[w].job

(* What Options says of OnProbeStarted: it is called immediately before a   *)
(* probe is invoked.  A probe whose wait is cut short was announced too.    *)
AnnouncedIsInvoked == Drained => \A j \in 1..(nextJob - 1) : j \in invoked
=============================================================================
