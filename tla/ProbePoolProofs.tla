-------------------------- MODULE ProbePoolProofs ---------------------------
(***************************************************************************)
(* Proofs about ProbePool, for every protocol and target, any number of    *)
(* workers, any number of probes that fail or panic, and a context that    *)
(* ends at any time or never.                                              *)
(***************************************************************************)
EXTENDS ProbePool, SequenceTheorems, TLAPS

-----------------------------------------------------------------------------
(* The list of jobs.                                                       *)
Dns == 1
Tcp == 4

\* DNS comes first and TCP fourth, whatever the target; the jobs that start at
\* once are the first three, and those that wait for TCP come after it.
LEMMA ListOfJobs ==
    /\ Len(JobList) \in 12..14
    /\ Dns \in Jobs /\ Tcp \in Jobs
    /\ \A j \in Jobs : /\ JobList[j] = "dns" <=> j = Dns
                       /\ JobList[j] = "tcp" <=> j = Tcp
                       /\ Independent(j) <=> j < Tcp
                       /\ WaitsForTransport(j) => j > Tcp
<1>. DEFINE n    == Len(ServiceJobs)
            late == {"ssh", "rdp", "smb", "tls", "http", "dns_service"}
            all  == late \cup {"dns", "interface_state", "dns_configuration", "tcp",
                              "default_route", "target_route", "gateway", "proxy",
                              "enterprise", "path"}
<1>1. ServiceJobs \in Seq(late) /\ n \in 2..4
    <2>. DEFINE first == IF Protocol \in {"ssh", "rdp", "smb"}
                         THEN <<Protocol, "tls", "http">> ELSE <<"tls", "http">>
                last  == IF DNSService THEN <<"dns_service">> ELSE <<>>
    <2>1. first \in Seq(late) /\ Len(first) \in 2..3
        <3>1. CASE Protocol \in {"ssh", "rdp", "smb"}
            <4>1. Protocol \in late /\ "tls" \in late /\ "http" \in late
                BY <3>1
            <4>. QED
                BY <3>1, <4>1
        <3>2. CASE Protocol \notin {"ssh", "rdp", "smb"}
            BY <3>2
        <3>. QED
            BY <3>1, <3>2
    <2>2. last \in Seq(late) /\ Len(last) \in 0..1
        <3>1. CASE DNSService
            BY <3>1
        <3>2. CASE ~DNSService
            BY <3>2
        <3>. QED
            BY <3>1, <3>2
    <2>3. ServiceJobs = first \o last
        BY DEF ServiceJobs
    <2>. HIDE DEF first, last, late
    <2>4. ServiceJobs \in Seq(late) /\ n = Len(first) + Len(last)
        BY <2>1, <2>2, <2>3, ConcatProperties
    <2>. DEFINE a == Len(first)
                b == Len(last)
    <2>5. n = a + b /\ a \in 2..3 /\ b \in 0..1
        BY <2>1, <2>2, <2>4
    <2>. HIDE DEF n, a, b
    <2>6. n \in 2..4
        BY <2>5
    <2>. QED
        BY <2>4, <2>6
<1>2. CommonJobs \in Seq(all) /\ Len(CommonJobs) = 10
    BY DEF CommonJobs
<1>3. /\ Len(JobList) = 10 + n
      /\ \A j \in 1..10 : JobList[j] = CommonJobs[j]
      /\ \A j \in 11..(10 + n) : JobList[j] = ServiceJobs[j - 10]
    <2>1. ServiceJobs \in Seq(all)
        BY <1>1, SeqMonotonic
    <2>. HIDE DEF all, late
    <2>2. /\ Len(JobList) = Len(CommonJobs) + Len(ServiceJobs)
          /\ \A j \in 1..(Len(CommonJobs) + Len(ServiceJobs)) :
                JobList[j] = IF j <= Len(CommonJobs) THEN CommonJobs[j]
                             ELSE ServiceJobs[j - Len(CommonJobs)]
        BY <1>2, <2>1, ConcatProperties DEF JobList
    <2>. DEFINE c == Len(CommonJobs)
    <2>3. /\ Len(JobList) = c + n /\ c = 10
          /\ \A j \in 1..(c + n) :
                JobList[j] = IF j <= c THEN CommonJobs[j] ELSE ServiceJobs[j - c]
        BY <1>2, <2>2
    <2>. HIDE DEF c, n
    <2>. QED
        BY <1>1, <2>3
<1>4. \A j \in 11..(10 + n) :
        JobList[j] \in {"ssh", "rdp", "smb", "tls", "http", "dns_service"}
    BY <1>1, <1>3, ElementOfSeq
<1>5. /\ JobList[1] = "dns" /\ JobList[2] = "interface_state" /\ JobList[3] = "dns_configuration"
      /\ JobList[4] = "tcp" /\ JobList[5] = "default_route" /\ JobList[6] = "target_route"
      /\ JobList[7] = "gateway" /\ JobList[8] = "proxy" /\ JobList[9] = "enterprise"
      /\ JobList[10] = "path"
    BY <1>3 DEF CommonJobs
<1>. HIDE DEF n
<1>6. ASSUME NEW j \in Jobs
      PROVE  j \in Nat /\ (j \in {1, 2, 3, 4, 5, 6, 7, 8, 9, 10} \/ j \in 11..(10 + n))
    BY <1>1, <1>3 DEF Jobs
<1>7. ASSUME NEW j \in Jobs
      PROVE  /\ JobList[j] = "dns" <=> j = Dns
             /\ JobList[j] = "tcp" <=> j = Tcp
             /\ Independent(j) <=> j < Tcp
             /\ WaitsForTransport(j) => j > Tcp
    <2>1. CASE j \in 11..(10 + n)
        <3>1. j > 10 /\ j \in Nat
            BY <1>1, <1>6, <2>1
        <3>. QED
            BY <1>4, <2>1, <3>1 DEF Independent, WaitsForTransport, Dns, Tcp
    <2>2. CASE j \in {1, 2, 3, 4, 5, 6, 7, 8, 9, 10}
        BY <1>5, <2>2 DEF Independent, WaitsForTransport, Dns, Tcp
    <2>. QED
        BY <1>6, <2>1, <2>2
<1>. QED
    BY <1>1, <1>3, <1>7 DEF Jobs, Dns, Tcp

\* What a probe returns is a result of its slot, and never the empty one.
LEMMA ReturnsResult ==
    ASSUME NEW j \in Jobs, NEW r \in Passes(j) \cup Fails(j)
    PROVE  r \in Slots /\ r # Nothing
<1>1. r \in Slots
    BY DEF Slots
<1>2. r.status \in {"passed", "skipped", "failed", "error"}
    <2>1. CASE r \in Passes(j)
        BY <2>1 DEF Passes, Result
    <2>2. CASE r \in Fails(j)
        BY <2>2 DEF Fails, Result
    <2>. QED
        BY <2>1, <2>2
<1>. QED
    BY <1>1, <1>2 DEF Nothing, Result

\* An execution error is a result, and not the absence of one.
LEMMA ErrorIsResult == ExecutionError \in Slots /\ Nothing \in Slots /\ ExecutionError # Nothing
BY DEF Slots, ExecutionError, Nothing, Result

-----------------------------------------------------------------------------
(* The inductive invariant.                                                *)
Busy(w) == ~WorkerAt(w, "idle")

(* Every announced probe without a result is held by one worker, every      *)
(* worker at work holds one of those, and the slots of the probes still to  *)
(* come are empty.                                                          *)
Held ==
    /\ \A w \in Workers : Busy(w) => /\ worker[w].job \in 1..(nextJob - 1)
                                     /\ results[worker[w].job] = Nothing
    /\ \A v, w \in Workers : Busy(v) /\ Busy(w) /\ worker[v].job = worker[w].job => v = w
    /\ \A j \in Jobs :
         /\ j >= nextJob => results[j] = Nothing
         /\ j < nextJob /\ results[j] = Nothing =>
              \E w \in Workers : Busy(w) /\ worker[w].job = j

TypeHeld == TypeOK /\ Held
Workplace == [at : Places, job : 0..Len(JobList), result : Slots]

\* A worker at work holds a job of the list that was announced.
LEMMA HoldsJob ==
    ASSUME TypeHeld, NEW w \in Workers, Busy(w)
    PROVE  /\ worker[w] \in Workplace
           /\ worker[w].job \in Jobs /\ worker[w].job < nextJob
           /\ nextJob \in Nat /\ results[worker[w].job] = Nothing
BY ListOfJobs DEF TypeHeld, TypeOK, Held, Workplace, Jobs

\* Filing a result frees the worker and fills the slot of the job it held.
LEMMA FilingHolds ==
    ASSUME TypeHeld, NEW w \in Workers, Busy(w),
           NEW r \in Slots, r # Nothing, File(w, r), UNCHANGED nextJob
    PROVE  /\ worker' \in [Workers -> Workplace]
           /\ results' \in [Jobs -> Slots]
           /\ Held'
<1>. DEFINE n == Len(JobList)
<1>1. /\ worker \in [Workers -> Workplace] /\ results \in [Jobs -> Slots]
      /\ worker[w].job \in Jobs /\ nextJob \in Nat /\ n \in Nat
    BY HoldsJob, ListOfJobs DEF TypeHeld, TypeOK, Workplace
<1>2. Idle \in Workplace
    BY <1>1, ErrorIsResult DEF Idle, Workplace, Places
<1>3. /\ worker' = [worker EXCEPT ![w] = Idle]
      /\ results' = [results EXCEPT ![worker[w].job] = r]
    BY DEF File
<1>4. worker' \in [Workers -> Workplace] /\ results' \in [Jobs -> Slots]
    BY <1>1, <1>2, <1>3
<1>5. /\ \A v \in Workers : worker'[v] = IF v = w THEN Idle ELSE worker[v]
      /\ \A j \in Jobs : results'[j] = IF j = worker[w].job THEN r ELSE results[j]
    BY <1>1, <1>3
<1>6. \A v \in Workers : Busy(v)' => v # w /\ Busy(v) /\ worker'[v] = worker[v]
    BY <1>5 DEF Busy, WorkerAt, Idle
<1>7. \A v \in Workers : Busy(v) /\ v # w => Busy(v)' /\ worker'[v] = worker[v]
    BY <1>5 DEF Busy, WorkerAt
<1>8. ASSUME NEW v \in Workers, Busy(v)'
      PROVE  worker'[v].job \in 1..(nextJob' - 1) /\ results'[worker'[v].job] = Nothing
    <2>1. v # w /\ Busy(v) /\ worker'[v] = worker[v]
        BY <1>6, <1>8
    <2>2. worker[v].job # worker[w].job /\ worker[v].job \in Jobs
        BY <2>1, HoldsJob DEF TypeHeld, Held
    <2>. QED
        BY <1>5, <2>1, <2>2 DEF TypeHeld, Held
<1>9. ASSUME NEW u \in Workers, NEW v \in Workers, Busy(u)', Busy(v)',
             worker'[u].job = worker'[v].job
      PROVE  u = v
    BY <1>6, <1>9 DEF TypeHeld, Held
<1>10. ASSUME NEW j \in Jobs
       PROVE  /\ j >= nextJob' => results'[j] = Nothing
              /\ j < nextJob' /\ results'[j] = Nothing =>
                   \E v \in Workers : Busy(v)' /\ worker'[v].job = j
    <2>1. j >= nextJob' => results'[j] = Nothing
        BY <1>5, HoldsJob DEF TypeHeld, Held, Jobs
    <2>2. ASSUME j < nextJob', results'[j] = Nothing
          PROVE  \E v \in Workers : Busy(v)' /\ worker'[v].job = j
        <3>1. j # worker[w].job /\ results[j] = Nothing
            BY <1>5, <2>2
        <3>2. PICK v \in Workers : Busy(v) /\ worker[v].job = j
            BY <2>2, <3>1 DEF TypeHeld, Held
        <3>. QED
            BY <1>7, <3>1, <3>2
    <2>. QED
        BY <2>1, <2>2
<1>11. Held'
    BY <1>8, <1>9, <1>10 DEF Held
<1>. QED
    BY <1>4, <1>11

\* A worker that goes on with its job, or ends it without filing, still holds it.
LEMMA MovingHolds ==
    ASSUME TypeHeld, NEW w \in Workers, Busy(w), NEW p \in Places, p # "idle",
           worker' \in [Workers -> Workplace],
           worker'[w].at = p, worker'[w].job = worker[w].job,
           \A v \in Workers : v # w => worker'[v] = worker[v],
           UNCHANGED <<nextJob, results>>
    PROVE  Held'
<1>1. \A v \in Workers : (Busy(v)' <=> Busy(v)) /\ worker'[v].job = worker[v].job
    BY DEF Busy, WorkerAt
<1>. QED
    BY <1>1 DEF TypeHeld, Held

\* Receiving a job: the next one, which nobody holds.
LEMMA ReceivingHolds ==
    ASSUME TypeHeld, NEW w \in Workers, Receive(w)
    PROVE  TypeHeld'
<1>. DEFINE n == Len(JobList)
            p == IF Independent(nextJob) THEN "running" ELSE "resolving"
<1>1. /\ worker \in [Workers -> Workplace] /\ n \in Nat
      /\ nextJob \in Jobs /\ nextJob \in 1..n /\ nextJob' = nextJob + 1 /\ results' = results
    BY ListOfJobs DEF TypeHeld, TypeOK, Receive, Workplace, Jobs
<1>2. p \in Places /\ p # "idle"
    BY DEF Places
<1>. HIDE DEF p
<1>3. worker' = [worker EXCEPT ![w].job = nextJob, ![w].at = p]
    BY DEF Receive, p
<1>4. /\ worker' \in [Workers -> Workplace]
      /\ worker'[w].at = p /\ worker'[w].job = nextJob
      /\ \A v \in Workers : v # w => worker'[v] = worker[v]
    <2>. DEFINE e == [worker[w] EXCEPT !.job = nextJob, !.at = p]
    <2>1. worker[w] \in Workplace /\ nextJob \in 0..n
        BY <1>1
    <2>2. e \in Workplace /\ e.at = p /\ e.job = nextJob
        BY <1>2, <2>1 DEF Workplace
    <2>3. worker' = [worker EXCEPT ![w] = e]
        BY <1>1, <1>3
    <2>. HIDE DEF e
    <2>. QED
        BY <1>1, <2>2, <2>3
<1>5. Busy(w)' /\ ~Busy(w) /\ \A v \in Workers : v # w => (Busy(v)' <=> Busy(v))
    BY <1>2, <1>4 DEF Busy, WorkerAt, Receive
<1>6. ASSUME NEW v \in Workers, Busy(v)'
      PROVE  worker'[v].job \in 1..(nextJob' - 1) /\ results'[worker'[v].job] = Nothing
    <2>1. CASE v = w
        BY <1>1, <1>4, <2>1 DEF TypeHeld, Held
    <2>2. CASE v # w
        BY <1>1, <1>4, <1>5, <1>6, <2>2 DEF TypeHeld, Held
    <2>. QED
        BY <2>1, <2>2
<1>7. ASSUME NEW u \in Workers, NEW v \in Workers, Busy(u)', Busy(v)',
             worker'[u].job = worker'[v].job
      PROVE  u = v
    <2>1. \A t \in Workers : t # w /\ Busy(t)' => worker'[t].job # nextJob
        BY <1>1, <1>4, <1>5, HoldsJob
    <2>. QED
        BY <1>4, <1>5, <1>7, <2>1 DEF TypeHeld, Held
<1>8. ASSUME NEW j \in Jobs
      PROVE  /\ j >= nextJob' => results'[j] = Nothing
             /\ j < nextJob' /\ results'[j] = Nothing =>
                  \E v \in Workers : Busy(v)' /\ worker'[v].job = j
    <2>1. j \in Nat
        BY <1>1 DEF Jobs
    <2>2. j >= nextJob' => results'[j] = Nothing
        BY <1>1, <2>1 DEF TypeHeld, Held
    <2>3. ASSUME j < nextJob', results'[j] = Nothing
          PROVE  \E v \in Workers : Busy(v)' /\ worker'[v].job = j
        <3>1. CASE j = nextJob
            BY <1>4, <1>5, <3>1
        <3>2. CASE j # nextJob
            <4>1. j < nextJob /\ results[j] = Nothing
                BY <1>1, <2>1, <2>3, <3>2
            <4>2. PICK v \in Workers : Busy(v) /\ worker[v].job = j
                BY <4>1 DEF TypeHeld, Held
            <4>. QED
                BY <1>4, <1>5, <4>2
        <3>. QED
            BY <3>1, <3>2
    <2>. QED
        BY <2>2, <2>3
<1>9. Held'
    BY <1>6, <1>7, <1>8 DEF Held
<1>10. invoked' \subseteq Jobs
    BY <1>1 DEF TypeHeld, TypeOK, Receive
<1>11. nextJob' \in 1..(n + 1)
    BY <1>1
<1>. QED
    BY <1>4, <1>9, <1>10, <1>11 DEF TypeHeld, TypeOK, Receive, Workplace
\* A worker that goes on to the next place keeps its job and its result.
LEMMA Relocation ==
    ASSUME worker \in [Workers -> Workplace], NEW w \in Workers, NEW p \in Places,
           worker' = [worker EXCEPT ![w].at = p]
    PROVE  /\ worker' \in [Workers -> Workplace]
           /\ worker'[w].at = p
           /\ worker'[w].job = worker[w].job /\ worker'[w].result = worker[w].result
           /\ \A v \in Workers : v # w => worker'[v] = worker[v]
<1>. DEFINE e == [worker[w] EXCEPT !.at = p]
<1>1. worker[w] \in Workplace
    OBVIOUS
<1>2. e \in Workplace /\ e.at = p /\ e.job = worker[w].job /\ e.result = worker[w].result
    BY <1>1 DEF Workplace
<1>3. worker' = [worker EXCEPT ![w] = e]
    OBVIOUS
<1>. HIDE DEF e
<1>. QED
    BY <1>2, <1>3

\* A DNS or TCP probe that ended goes on to close its channel.
LEMMA Closing ==
    ASSUME worker \in [Workers -> Workplace], NEW w \in Workers, NEW r \in Slots,
           worker' = [worker EXCEPT ![w].at = "closing", ![w].result = r]
    PROVE  /\ worker' \in [Workers -> Workplace]
           /\ worker'[w].at = "closing"
           /\ worker'[w].job = worker[w].job /\ worker'[w].result = r
           /\ \A v \in Workers : v # w => worker'[v] = worker[v]
<1>. DEFINE e == [worker[w] EXCEPT !.at = "closing", !.result = r]
<1>1. worker[w] \in Workplace
    OBVIOUS
<1>2. e \in Workplace /\ e.at = "closing" /\ e.job = worker[w].job /\ e.result = r
    BY <1>1 DEF Workplace, Places
<1>3. worker' = [worker EXCEPT ![w] = e]
    OBVIOUS
<1>. HIDE DEF e
<1>. QED
    BY <1>2, <1>3

\* However a probe ends, its job is still held or its slot is filled.
LEMMA EndingHolds ==
    ASSUME TypeHeld, NEW w \in Workers, Busy(w),
           NEW r \in Slots, r # Nothing, Ends(w, r), UNCHANGED nextJob
    PROVE  /\ worker' \in [Workers -> Workplace]
           /\ results' \in [Jobs -> Slots]
           /\ Held'
<1>1. worker \in [Workers -> Workplace] /\ results \in [Jobs -> Slots]
    BY DEF TypeHeld, TypeOK, Workplace
<1>2. CASE Job(w) \in {"dns", "tcp"}
    <2>1. /\ worker' = [worker EXCEPT ![w].at = "closing", ![w].result = r]
          /\ results' = results
        BY <1>2 DEF Ends
    <2>2. "closing" \in Places /\ "closing" # "idle"
        BY DEF Places
    <2>. QED
        BY <1>1, <2>1, <2>2, Closing, MovingHolds
<1>3. CASE Job(w) \notin {"dns", "tcp"}
    <2>1. File(w, r)
        BY <1>3 DEF Ends
    <2>. QED
        BY <2>1, FilingHolds
<1>. QED
    BY <1>2, <1>3

\* A probe that returns keeps every job with one worker.
LEMMA ReturningHolds ==
    ASSUME TypeHeld, NEW w \in Workers, Return(w)
    PROVE  TypeHeld'
<1>1. Busy(w) /\ worker[w].job \in Jobs
    BY HoldsJob DEF Return, Busy, WorkerAt
<1>2. /\ faults \in 0..MaxFaults /\ MaxFaults \in Nat
      /\ faults' = faults \/ (faults < MaxFaults /\ faults' = faults + 1)
    BY PoolAssumption DEF TypeHeld, TypeOK, Return
<1>3. faults' \in 0..MaxFaults
    BY <1>2
<1>4. PICK r \in Passes(worker[w].job) \cup Fails(worker[w].job) : ReturnsWith(w, r)
    BY DEF Return
<1>5. r \in Slots /\ r # Nothing
    BY <1>1, ReturnsResult
<1>6. Ends(w, r) /\ UNCHANGED nextJob
    BY <1>4 DEF ReturnsWith, Return
<1>7. /\ worker' \in [Workers -> Workplace] /\ results' \in [Jobs -> Slots] /\ Held'
    BY <1>1, <1>5, <1>6, EndingHolds
<1>8. /\ candidates' \in {Unset, "answers", "none"} /\ tested' \in {Unset, "endpoint"}
    BY <1>4 DEF ReturnsWith, TypeHeld, TypeOK
<1>. QED
    BY <1>3, <1>7, <1>8 DEF Return, TypeHeld, TypeOK, Workplace

\* A probe that panics keeps every job with one worker.
LEMMA PanickingHolds ==
    ASSUME TypeHeld, NEW w \in Workers, Panic(w)
    PROVE  TypeHeld'
<1>1. Busy(w)
    BY DEF Panic, Busy, WorkerAt
<1>2. /\ faults \in 0..MaxFaults /\ MaxFaults \in Nat
      /\ faults < MaxFaults /\ faults' = faults + 1
    BY PoolAssumption DEF TypeHeld, TypeOK, Panic
<1>3. faults' \in 0..MaxFaults
    BY <1>2
<1>4. /\ worker' \in [Workers -> Workplace] /\ results' \in [Jobs -> Slots] /\ Held'
    BY <1>1, ErrorIsResult, EndingHolds DEF Panic
<1>. QED
    BY <1>3, <1>4 DEF Panic, TypeHeld, TypeOK, Workplace

\* A worker that learns the candidates keeps every job with one worker.
LEMMA ResolvingHolds ==
    ASSUME TypeHeld, NEW w \in Workers, Resolve(w)
    PROVE  TypeHeld'
<1>1. /\ Busy(w) /\ worker \in [Workers -> Workplace]
      /\ worker[w].job \in Jobs
    BY HoldsJob DEF Resolve, Busy, WorkerAt, TypeHeld, TypeOK, Workplace
<1>2. PICK p \in {"connecting", "running"} : worker' = [worker EXCEPT ![w].at = p]
    BY DEF Resolve
<1>3. p \in Places /\ p # "idle" /\ UNCHANGED <<nextJob, results>>
    BY DEF Places, Resolve
<1>4. worker' \in [Workers -> Workplace] /\ Held'
    BY <1>1, <1>2, <1>3, Relocation, MovingHolds
<1>5. seen' \in [Jobs -> [candidates : {Unset, "answers", "none", "literal"},
                          tested : {Unset, "endpoint"}]]
    <2>. DEFINE c == IF Literal THEN "literal" ELSE candidates
                S == [candidates : {Unset, "answers", "none", "literal"},
                      tested : {Unset, "endpoint"}]
                e == [seen[worker[w].job] EXCEPT !.candidates = c]
    <2>1. seen \in [Jobs -> S] /\ c \in {Unset, "answers", "none", "literal"}
        BY DEF TypeHeld, TypeOK
    <2>2. seen[worker[w].job] \in S
        BY <1>1, <2>1
    <2>. HIDE DEF c
    <2>3. e \in S
        BY <2>1, <2>2
    <2>4. seen' = [seen EXCEPT ![worker[w].job] = e]
        BY <1>1, <2>1 DEF Resolve, c
    <2>. HIDE DEF e, S
    <2>5. seen' \in [Jobs -> S]
        BY <1>1, <2>1, <2>3, <2>4
    <2>. QED
        BY <2>5 DEF S
<1>6. invoked' \subseteq Jobs
    BY <1>1 DEF Resolve, TypeHeld, TypeOK
<1>. QED
    BY <1>4, <1>5, <1>6 DEF Resolve, TypeHeld, TypeOK, Workplace

\* A worker that learns the endpoint keeps every job with one worker.
LEMMA ConnectingHolds ==
    ASSUME TypeHeld, NEW w \in Workers, Connect(w)
    PROVE  TypeHeld'
<1>1. /\ Busy(w) /\ worker \in [Workers -> Workplace]
      /\ worker[w].job \in Jobs
    BY HoldsJob DEF Connect, Busy, WorkerAt, TypeHeld, TypeOK, Workplace
<1>2. /\ worker' = [worker EXCEPT ![w].at = "running"]
      /\ "running" \in Places /\ UNCHANGED <<nextJob, results>>
    BY DEF Connect, Places
<1>3. worker' \in [Workers -> Workplace] /\ Held'
    BY <1>1, <1>2, Relocation, MovingHolds
<1>4. seen' \in [Jobs -> [candidates : {Unset, "answers", "none", "literal"},
                          tested : {Unset, "endpoint"}]]
    <2>. DEFINE S == [candidates : {Unset, "answers", "none", "literal"},
                      tested : {Unset, "endpoint"}]
                e == [seen[worker[w].job] EXCEPT !.tested = tested]
    <2>1. seen \in [Jobs -> S] /\ tested \in {Unset, "endpoint"}
        BY DEF TypeHeld, TypeOK
    <2>2. seen[worker[w].job] \in S
        BY <1>1, <2>1
    <2>3. e \in S
        BY <2>1, <2>2
    <2>4. seen' = [seen EXCEPT ![worker[w].job] = e]
        BY <1>1, <2>1 DEF Connect
    <2>. HIDE DEF e, S
    <2>5. seen' \in [Jobs -> S]
        BY <1>1, <2>1, <2>3, <2>4
    <2>. QED
        BY <2>5 DEF S
<1>5. invoked' \subseteq Jobs
    BY <1>1 DEF Connect, TypeHeld, TypeOK
<1>. QED
    BY <1>3, <1>4, <1>5 DEF Connect, TypeHeld, TypeOK, Workplace

\* A job whose wait fails is filed as an execution error by the worker that
\* held it.
LEMMA AbandoningHolds ==
    ASSUME TypeHeld, NEW w \in Workers, Abandon(w)
    PROVE  TypeHeld'
<1>1. Busy(w) /\ File(w, ExecutionError) /\ UNCHANGED nextJob
    BY DEF Abandon, Busy, WorkerAt, WaitFailure
<1>2. /\ worker' \in [Workers -> Workplace] /\ results' \in [Jobs -> Slots] /\ Held'
    BY <1>1, ErrorIsResult, FilingHolds
<1>. QED
    BY <1>2 DEF Abandon, TypeHeld, TypeOK, Workplace

-----------------------------------------------------------------------------
(* How far each probe has come: those that wait were not invoked, those     *)
(* that run were, only DNS and TCP close a channel, and a probe that was    *)
(* not invoked has no result but the execution error of its wait.           *)
Stage(w) ==
    LET j == worker[w].job IN
    /\ worker[w].at \in {"resolving", "connecting"} => ~Independent(j) /\ j \notin invoked
    /\ WorkerAt(w, "connecting") => WaitsForTransport(j)
    /\ worker[w].at \in {"running", "closing"} => j \in invoked
    /\ WorkerAt(w, "closing") => j \in {Dns, Tcp} /\ worker[w].result # Nothing

Staged ==
    /\ \A w \in Workers : Stage(w)
    /\ \A j \in invoked : j < nextJob
    /\ \A j \in Jobs : results[j] # Nothing /\ j \notin invoked => results[j] = ExecutionError

\* A worker that has closed its ready channel files the result it held.
LEMMA ClosingHolds ==
    ASSUME TypeHeld, Staged, NEW w \in Workers, CloseReady(w)
    PROVE  TypeHeld'
<1>1. /\ Busy(w) /\ File(w, worker[w].result) /\ UNCHANGED nextJob
      /\ worker[w].result # Nothing
    BY DEF CloseReady, Busy, WorkerAt, Staged, Stage
<1>2. worker[w].result \in Slots
    BY <1>1, HoldsJob DEF Workplace
<1>3. /\ worker' \in [Workers -> Workplace] /\ results' \in [Jobs -> Slots] /\ Held'
    BY <1>1, <1>2, FilingHolds
<1>4. resolvedReady' \in BOOLEAN /\ transportReady' \in BOOLEAN
    BY DEF TypeHeld, TypeOK, CloseReady
<1>. QED
    BY <1>3, <1>4 DEF CloseReady, TypeHeld, TypeOK, Workplace

\* Every step keeps the types, and each announced job without a result in one
\* worker's hands.
LEMMA TypeHeldStep ==
    ASSUME TypeHeld, Staged, [Next]_vars
    PROVE  TypeHeld'
<1>1. CASE UNCHANGED vars
    BY <1>1 DEF vars, TypeHeld, TypeOK, Held, Busy, WorkerAt
<1>2. CASE ContextEnds
    BY <1>2 DEF ContextEnds, TypeHeld, TypeOK, Held, Busy, WorkerAt
<1>3. ASSUME NEW w \in Workers, WorkerStep(w)
      PROVE  TypeHeld'
    BY <1>3, ReceivingHolds, ResolvingHolds, ConnectingHolds, AbandoningHolds,
       ReturningHolds, PanickingHolds, ClosingHolds DEF WorkerStep
<1>. QED
    BY <1>1, <1>2, <1>3 DEF Next
\* What another worker does to job k leaves a worker that does not hold k where it was.
LEMMA StageKept ==
    ASSUME NEW k, NEW v \in Workers, Stage(v), worker'[v] = worker[v],
           Busy(v) => worker[v].job # k,
           invoked \subseteq invoked', invoked' \subseteq invoked \cup {k}
    PROVE  Stage(v)'
<1>1. CASE WorkerAt(v, "idle")
    BY <1>1 DEF Stage, WorkerAt
<1>2. CASE Busy(v)
    <2>1. worker[v].job \in invoked' <=> worker[v].job \in invoked
        BY <1>2
    <2>. QED
        BY <2>1 DEF Stage, WorkerAt
<1>. QED
    BY <1>1, <1>2 DEF Busy

\* Filing a result of an invoked probe, or the execution error of any.
LEMMA FilingStaged ==
    ASSUME TypeHeld, Staged, NEW w \in Workers, Busy(w), NEW r, File(w, r),
           worker[w].job \in invoked \/ r = ExecutionError,
           UNCHANGED <<nextJob, invoked>>
    PROVE  Staged'
<1>1. /\ worker \in [Workers -> Workplace] /\ results \in [Jobs -> Slots]
      /\ worker[w].job \in Jobs
    BY HoldsJob DEF TypeHeld, TypeOK, Workplace
<1>2. /\ \A v \in Workers : worker'[v] = IF v = w THEN Idle ELSE worker[v]
      /\ \A j \in Jobs : results'[j] = IF j = worker[w].job THEN r ELSE results[j]
    BY <1>1 DEF File
<1>3. ASSUME NEW v \in Workers
      PROVE  Stage(v)'
    <2>1. CASE v = w
        BY <1>2, <2>1 DEF Stage, WorkerAt, Idle
    <2>2. CASE v # w
        BY <1>2, <2>2 DEF Staged, Stage, WorkerAt
    <2>. QED
        BY <2>1, <2>2
<1>4. \A j \in invoked' : j < nextJob'
    BY DEF Staged
<1>5. \A j \in Jobs : results'[j] # Nothing /\ j \notin invoked' => results'[j] = ExecutionError
    BY <1>2 DEF Staged
<1>. QED
    BY <1>3, <1>4, <1>5 DEF Staged

\* A received job starts in the stage its dependencies call for.
LEMMA ReceivingStaged ==
    ASSUME TypeHeld, Staged, NEW w \in Workers, Receive(w)
    PROVE  Staged'
<1>. DEFINE p == IF Independent(nextJob) THEN "running" ELSE "resolving"
            e == [worker[w] EXCEPT !.job = nextJob, !.at = p]
<1>1. /\ worker \in [Workers -> Workplace] /\ nextJob \in Nat
      /\ nextJob' = nextJob + 1 /\ results' = results
    BY ListOfJobs DEF TypeHeld, TypeOK, Receive, Workplace
<1>2. worker[w] \in Workplace
    BY <1>1
<1>3. e.at = p /\ e.job = nextJob
    BY <1>2 DEF Workplace
<1>4. worker' = [worker EXCEPT ![w] = e]
    BY <1>1 DEF Receive
<1>. HIDE DEF e
<1>5. /\ worker'[w].at = p /\ worker'[w].job = nextJob
      /\ \A v \in Workers : v # w => worker'[v] = worker[v]
    BY <1>1, <1>3, <1>4
<1>6. nextJob \notin invoked
    BY <1>1 DEF Staged
<1>7. Stage(w)'
    <2>1. CASE Independent(nextJob)
        <3>1. p = "running" /\ nextJob \in invoked'
            BY <2>1 DEF Receive
        <3>. QED
            BY <1>5, <3>1 DEF Stage, WorkerAt
    <2>2. CASE ~Independent(nextJob)
        <3>1. p = "resolving" /\ nextJob \notin invoked'
            BY <1>6, <2>2 DEF Receive
        <3>. QED
            BY <1>5, <2>2, <3>1 DEF Stage, WorkerAt
    <2>. QED
        BY <2>1, <2>2
<1>8. invoked \subseteq invoked' /\ invoked' \subseteq invoked \cup {nextJob}
    BY DEF Receive
<1>9. ASSUME NEW v \in Workers
      PROVE  Stage(v)'
    <2>1. Busy(v) => worker[v].job # nextJob
        BY <1>1, HoldsJob
    <2>. QED
        BY <1>5, <1>7, <1>8, <2>1, StageKept DEF Staged
<1>10. \A j \in invoked' : j < nextJob'
    <2>1. \A j \in invoked : j \in Nat /\ j < nextJob
        BY DEF Staged, TypeHeld, TypeOK, Jobs
    <2>. QED
        BY <1>1, <1>8, <2>1
<1>11. \A j \in Jobs : results'[j] # Nothing /\ j \notin invoked' => results'[j] = ExecutionError
    BY <1>1, <1>8 DEF Staged
<1>. QED
    BY <1>9, <1>10, <1>11 DEF Staged

\* A wait that ends well lets the probe start, or lets it wait for TCP.
LEMMA WaitingStaged ==
    ASSUME TypeHeld, Staged, NEW w \in Workers, Resolve(w) \/ Connect(w)
    PROVE  Staged'
<1>1. /\ Busy(w) /\ worker \in [Workers -> Workplace]
      /\ worker[w].job \in Jobs /\ worker[w].job < nextJob
      /\ UNCHANGED <<nextJob, results>>
    BY HoldsJob DEF Resolve, Connect, Busy, WorkerAt, TypeHeld, TypeOK, Workplace
<1>2. PICK p \in {"connecting", "running"} :
        /\ worker' = [worker EXCEPT ![w].at = p]
        /\ p = "connecting" => WaitsForTransport(worker[w].job) /\ invoked' = invoked
        /\ p = "running" => invoked' = invoked \cup {worker[w].job}
        /\ p = "connecting" => WorkerAt(w, "resolving")
    BY DEF Resolve, Connect
<1>3. p \in Places
    BY DEF Places
<1>4. /\ worker'[w].at = p /\ worker'[w].job = worker[w].job
      /\ \A v \in Workers : v # w => worker'[v] = worker[v]
    BY <1>1, <1>2, <1>3, Relocation
<1>5. Stage(w)'
    BY <1>2, <1>4 DEF Staged, Stage, WorkerAt
<1>6. invoked \subseteq invoked' /\ invoked' \subseteq invoked \cup {worker[w].job}
    BY <1>2
<1>7. ASSUME NEW v \in Workers
      PROVE  Stage(v)'
    <2>1. v # w /\ Busy(v) => worker[v].job # worker[w].job
        BY <1>1 DEF TypeHeld, Held
    <2>. QED
        BY <1>4, <1>5, <1>6, <2>1, StageKept DEF Staged
<1>8. \A j \in invoked' : j < nextJob'
    BY <1>1, <1>6 DEF Staged
<1>9. \A j \in Jobs : results'[j] # Nothing /\ j \notin invoked' => results'[j] = ExecutionError
    BY <1>1, <1>6 DEF Staged
<1>. QED
    BY <1>7, <1>8, <1>9 DEF Staged

\* A probe that ends, by a return or a panic, leaves its worker in the right
\* stage.
LEMMA EndingStaged ==
    ASSUME TypeHeld, Staged, NEW w \in Workers, WorkerAt(w, "running"),
           NEW r \in Slots, r # Nothing, Ends(w, r), UNCHANGED <<nextJob, invoked>>
    PROVE  Staged'
<1>1. /\ Busy(w) /\ worker \in [Workers -> Workplace]
      /\ worker[w].job \in Jobs /\ worker[w].job \in invoked
    BY HoldsJob DEF Busy, WorkerAt, TypeHeld, TypeOK, Workplace, Staged, Stage
<1>2. CASE Job(w) \in {"dns", "tcp"}
    <2>1. /\ worker' = [worker EXCEPT ![w].at = "closing", ![w].result = r]
          /\ results' = results
        BY <1>2 DEF Ends
    <2>2. /\ worker'[w].at = "closing"
          /\ worker'[w].job = worker[w].job /\ worker'[w].result = r
          /\ \A v \in Workers : v # w => worker'[v] = worker[v]
        BY <1>1, <2>1, Closing
    <2>3. worker[w].job \in {Dns, Tcp}
        BY <1>1, <1>2, ListOfJobs DEF Job
    <2>4. Stage(w)'
        BY <1>1, <2>2, <2>3 DEF Stage, WorkerAt
    <2>5. \A v \in Workers : v # w => Stage(v)'
        BY <2>2 DEF Staged, Stage, WorkerAt
    <2>. QED
        BY <2>1, <2>4, <2>5 DEF Staged
<1>3. CASE Job(w) \notin {"dns", "tcp"}
    <2>1. File(w, r)
        BY <1>3 DEF Ends
    <2>. QED
        BY <1>1, <2>1, FilingStaged
<1>. QED
    BY <1>2, <1>3

\* A running probe ends with a result that is not the empty one.
LEMMA RunningEnds ==
    ASSUME TypeHeld, NEW w \in Workers, Return(w) \/ Panic(w)
    PROVE  /\ WorkerAt(w, "running") /\ Busy(w)
           /\ UNCHANGED <<nextJob, invoked, resolvedReady, transportReady, seen, ctxDone>>
           /\ \E r \in Slots : r # Nothing /\ Ends(w, r)
<1>1. CASE Return(w)
    <2>1. Busy(w) /\ worker[w].job \in Jobs
        BY <1>1, HoldsJob DEF Return, Busy, WorkerAt
    <2>2. PICK r \in Passes(worker[w].job) \cup Fails(worker[w].job) : ReturnsWith(w, r)
        BY <1>1 DEF Return
    <2>. QED
        BY <1>1, <2>1, <2>2, ReturnsResult DEF Return, ReturnsWith
<1>2. CASE Panic(w)
    BY <1>2, ErrorIsResult DEF Panic, Busy, WorkerAt
<1>. QED
    BY <1>1, <1>2

\* Every step keeps each worker in the stage that its job and its result call
\* for.
LEMMA StagedStep ==
    ASSUME TypeHeld, Staged, [Next]_vars
    PROVE  Staged'
<1>1. CASE UNCHANGED vars
    BY <1>1 DEF vars, Staged, Stage, WorkerAt
<1>2. CASE ContextEnds
    BY <1>2 DEF ContextEnds, Staged, Stage, WorkerAt
<1>3. ASSUME NEW w \in Workers, WorkerStep(w)
      PROVE  Staged'
    <2>1. CASE Receive(w)
        BY <2>1, ReceivingStaged
    <2>2. CASE Resolve(w) \/ Connect(w)
        BY <2>2, WaitingStaged
    <2>3. CASE Abandon(w)
        <3>1. Busy(w) /\ File(w, ExecutionError) /\ UNCHANGED <<nextJob, invoked>>
            BY <2>3 DEF Abandon, Busy, WorkerAt, WaitFailure
        <3>. QED
            BY <3>1, FilingStaged
    <2>4. CASE Return(w) \/ Panic(w)
        BY <2>4, RunningEnds, EndingStaged
    <2>5. CASE CloseReady(w)
        <3>1. /\ Busy(w) /\ File(w, worker[w].result) /\ worker[w].job \in invoked
              /\ UNCHANGED <<nextJob, invoked>>
            BY <2>5 DEF CloseReady, Busy, WorkerAt, Staged, Stage
        <3>. QED
            BY <3>1, FilingStaged
    <2>. QED
        BY <1>3, <2>1, <2>2, <2>3, <2>4, <2>5 DEF WorkerStep
<1>. QED
    BY <1>1, <1>2, <1>3 DEF Next

-----------------------------------------------------------------------------
(* What the channels say: the candidates are final exactly when DNS has a   *)
(* result, the endpoint when TCP has one that is not the end of its wait.   *)
Ready ==
    /\ resolvedReady <=> results[Dns] # Nothing
    /\ transportReady => results[Tcp] # Nothing
    /\ results[Tcp] # Nothing /\ ~ctxDone => transportReady

\* The channel of DNS is closed by DNS and by nothing else, and so is that of TCP.
LEMMA FilingReady ==
    ASSUME TypeHeld, Ready, NEW w \in Workers, Busy(w), NEW r, r # Nothing, File(w, r),
           worker[w].job = Dns <=> (resolvedReady' /\ ~resolvedReady),
           resolvedReady => resolvedReady',
           transportReady' => transportReady \/ worker[w].job = Tcp,
           transportReady => transportReady',
           worker[w].job = Tcp => transportReady' \/ ctxDone,
           UNCHANGED ctxDone
    PROVE  Ready'
<1>1. /\ results \in [Jobs -> Slots] /\ worker[w].job \in Jobs
      /\ Dns \in Jobs /\ Tcp \in Jobs /\ results[worker[w].job] = Nothing
      /\ resolvedReady \in BOOLEAN
    BY HoldsJob, ListOfJobs DEF TypeHeld, TypeOK
<1>2. /\ results'[Dns] = IF worker[w].job = Dns THEN r ELSE results[Dns]
      /\ results'[Tcp] = IF worker[w].job = Tcp THEN r ELSE results[Tcp]
    BY <1>1 DEF File
<1>. QED
    BY <1>1, <1>2 DEF Ready

\* Every step keeps the ready channels closed exactly when their lane has
\* published.
LEMMA ReadyStep ==
    ASSUME TypeHeld, Staged, Ready, [Next]_vars
    PROVE  Ready'
<1>1. CASE UNCHANGED vars
    BY <1>1 DEF vars, Ready
<1>2. CASE ContextEnds
    BY <1>2 DEF ContextEnds, Ready
<1>3. ASSUME NEW w \in Workers, WorkerStep(w)
      PROVE  Ready'
    <2>1. CASE Receive(w) \/ Resolve(w) \/ Connect(w)
        BY <2>1 DEF Receive, Resolve, Connect, Ready
    <2>2. CASE Abandon(w)
        <3>1. /\ Busy(w) /\ File(w, ExecutionError) /\ ctxDone
              /\ UNCHANGED <<resolvedReady, transportReady, ctxDone>>
            BY <2>2 DEF Abandon, Busy, WorkerAt, WaitFailure
        <3>2. worker[w].job # Dns
            <4>1. ~Independent(worker[w].job)
                BY <2>2 DEF Abandon, Staged, Stage
            <4>. QED
                BY <4>1, ListOfJobs DEF Dns, Tcp
        <3>. QED
            BY <3>1, <3>2, ErrorIsResult, FilingReady
    <2>3. CASE Return(w) \/ Panic(w)
        <3>1. PICK r \in Slots : r # Nothing /\ Ends(w, r)
            BY <2>3, RunningEnds
        <3>2. /\ Busy(w) /\ UNCHANGED <<resolvedReady, transportReady, ctxDone>>
            BY <2>3, RunningEnds
        <3>3. CASE Job(w) \in {"dns", "tcp"}
            BY <3>1, <3>2, <3>3 DEF Ends, Ready
        <3>4. CASE Job(w) \notin {"dns", "tcp"}
            <4>1. worker[w].job # Dns /\ worker[w].job # Tcp
                BY <3>4, ListOfJobs DEF Job
            <4>. QED
                BY <3>1, <3>2, <3>4, <4>1, FilingReady DEF Ends
        <3>. QED
            BY <3>3, <3>4
    <2>4. CASE CloseReady(w)
        <3>1. /\ Busy(w) /\ File(w, worker[w].result) /\ worker[w].result # Nothing
              /\ UNCHANGED ctxDone
            BY <2>4 DEF CloseReady, Busy, WorkerAt, Staged, Stage
        <3>2. /\ worker[w].job \in Jobs /\ results[worker[w].job] = Nothing
              /\ Job(w) = "dns" <=> worker[w].job = Dns
              /\ Job(w) = "tcp" <=> worker[w].job = Tcp
            BY <3>1, HoldsJob, ListOfJobs DEF Job
        <3>3. /\ resolvedReady' <=> (resolvedReady \/ worker[w].job = Dns)
              /\ transportReady' <=> (transportReady \/ worker[w].job = Tcp)
            BY <2>4, <3>2 DEF CloseReady
        <3>4. worker[w].job = Dns => ~resolvedReady
            BY <3>2 DEF Ready
        <3>. QED
            BY <3>1, <3>3, <3>4, FilingReady
    <2>. QED
        BY <1>3, <2>1, <2>2, <2>3, <2>4 DEF WorkerStep
<1>. QED
    BY <1>1, <1>2, <1>3 DEF Next

-----------------------------------------------------------------------------
(* What the probes were prepared with: whoever is past its wait on DNS was   *)
(* given the candidates after they became final, whoever is past its wait   *)
(* on TCP the endpoint after it became final.                               *)
GivenCandidates(j) == ~Literal => resolvedReady /\ seen[j].candidates = candidates
GivenEndpoint(j)   == transportReady /\ seen[j].tested = tested

Agree ==
    /\ \A w \in Workers : WorkerAt(w, "connecting") => GivenCandidates(worker[w].job)
    /\ \A j \in invoked : /\ ~Independent(j) => GivenCandidates(j)
                          /\ WaitsForTransport(j) => GivenEndpoint(j)

\* A wait that ends well gives the probe what the channel made final.
LEMMA ResolvingAgrees ==
    ASSUME TypeHeld, Staged, Agree, NEW w \in Workers, Resolve(w)
    PROVE  Agree'
<1>0. PICK k \in Jobs : k = worker[w].job
    BY HoldsJob DEF Resolve, Busy, WorkerAt
<1>1. /\ Busy(w) /\ worker \in [Workers -> Workplace] /\ k \notin invoked
    BY <1>0 DEF Resolve, Busy, WorkerAt, TypeHeld, TypeOK, Workplace, Staged, Stage
<1>2. PICK p \in {"connecting", "running"} :
        /\ worker' = [worker EXCEPT ![w].at = p]
        /\ p = "connecting" => invoked' = invoked
        /\ p = "running" => invoked' = invoked \cup {k} /\ ~WaitsForTransport(k)
    BY <1>0 DEF Resolve
<1>3. p \in Places
    BY DEF Places
<1>4. /\ worker'[w].at = p /\ worker'[w].job = k
      /\ \A v \in Workers : v # w => worker'[v] = worker[v]
    BY <1>0, <1>1, <1>2, <1>3, Relocation
<1>5. /\ \A j \in Jobs : j # k => seen'[j] = seen[j]
      /\ ~Literal => seen'[k].candidates = candidates
    <2>. DEFINE c == IF Literal THEN "literal" ELSE candidates
                S == [candidates : {Unset, "answers", "none", "literal"},
                      tested : {Unset, "endpoint"}]
                e == [seen[k] EXCEPT !.candidates = c]
    <2>1. seen \in [Jobs -> S] /\ seen[k] \in S
        BY <1>1 DEF TypeHeld, TypeOK
    <2>. HIDE DEF c
    <2>2. e.candidates = c
        BY <2>1
    <2>3. seen' = [seen EXCEPT ![k] = e]
        BY <1>0, <1>1, <2>1 DEF Resolve, c
    <2>. HIDE DEF e, S
    <2>4. seen'[k] = e /\ \A j \in Jobs : j # k => seen'[j] = seen[j]
        BY <1>1, <2>1, <2>3
    <2>. QED
        BY <2>2, <2>4 DEF c
<1>6. UNCHANGED <<candidates, tested, resolvedReady, transportReady>>
    BY DEF Resolve
<1>7. GivenCandidates(k)'
    BY <1>5, <1>6 DEF Resolve, AddressKnown, GivenCandidates
<1>8. \A j \in Jobs : j # k => /\ GivenCandidates(j) => GivenCandidates(j)'
                               /\ GivenEndpoint(j) => GivenEndpoint(j)'
    BY <1>5, <1>6 DEF GivenCandidates, GivenEndpoint
<1>9. ASSUME NEW v \in Workers, WorkerAt(v, "connecting")'
      PROVE  GivenCandidates(worker[v].job)'
    <2>1. CASE v = w
        BY <1>4, <1>7, <2>1
    <2>2. CASE v # w
        <3>1. WorkerAt(v, "connecting") /\ Busy(v) /\ worker'[v] = worker[v]
            BY <1>4, <1>9, <2>2 DEF WorkerAt, Busy
        <3>2. worker[v].job \in Jobs /\ worker[v].job # k
            BY <1>0, <1>1, <2>2, <3>1, HoldsJob DEF TypeHeld, Held
        <3>. QED
            BY <1>8, <3>1, <3>2 DEF Agree
    <2>. QED
        BY <2>1, <2>2
<1>10. ASSUME NEW j \in invoked'
       PROVE  /\ ~Independent(j) => GivenCandidates(j)'
              /\ WaitsForTransport(j) => GivenEndpoint(j)'
    <2>1. CASE j \in invoked
        <3>1. j \in Jobs /\ j # k
            BY <1>1, <2>1 DEF TypeHeld, TypeOK
        <3>. QED
            BY <1>8, <2>1, <3>1 DEF Agree
    <2>2. CASE j \notin invoked
        BY <1>2, <1>7, <1>10, <2>2
    <2>. QED
        BY <2>1, <2>2
<1>. QED
    BY <1>9, <1>10 DEF Agree

\* A probe that is given the endpoint is given the one that tcp published.
LEMMA ConnectingAgrees ==
    ASSUME TypeHeld, Staged, Agree, NEW w \in Workers, Connect(w)
    PROVE  Agree'
<1>0. PICK k \in Jobs : k = worker[w].job
    BY HoldsJob DEF Connect, Busy, WorkerAt
<1>1. /\ Busy(w) /\ worker \in [Workers -> Workplace] /\ k \notin invoked
    BY <1>0 DEF Connect, Busy, WorkerAt, TypeHeld, TypeOK, Workplace, Staged, Stage
<1>2. /\ worker' = [worker EXCEPT ![w].at = "running"] /\ "running" \in Places
      /\ invoked' = invoked \cup {k}
    BY <1>0 DEF Connect, Places
<1>3. /\ worker'[w].at = "running"
      /\ \A v \in Workers : v # w => worker'[v] = worker[v]
    BY <1>1, <1>2, Relocation
<1>4. /\ \A j \in Jobs : j # k => seen'[j] = seen[j]
      /\ seen'[k].candidates = seen[k].candidates /\ seen'[k].tested = tested
    <2>. DEFINE S == [candidates : {Unset, "answers", "none", "literal"},
                      tested : {Unset, "endpoint"}]
                e == [seen[k] EXCEPT !.tested = tested]
    <2>1. seen \in [Jobs -> S] /\ seen[k] \in S
        BY <1>1 DEF TypeHeld, TypeOK
    <2>2. e.candidates = seen[k].candidates /\ e.tested = tested
        BY <2>1
    <2>3. seen' = [seen EXCEPT ![k] = e]
        BY <1>0, <1>1, <2>1 DEF Connect
    <2>. HIDE DEF e, S
    <2>4. seen'[k] = e /\ \A j \in Jobs : j # k => seen'[j] = seen[j]
        BY <1>1, <2>1, <2>3
    <2>. QED
        BY <2>2, <2>4
<1>5. UNCHANGED <<candidates, tested, resolvedReady, transportReady>> /\ transportReady
    BY DEF Connect
<1>6. GivenCandidates(k)
    BY <1>0 DEF Connect, Agree
<1>7. GivenCandidates(k)' /\ GivenEndpoint(k)'
    BY <1>4, <1>5, <1>6 DEF GivenCandidates, GivenEndpoint
<1>8. \A j \in Jobs : j # k => /\ GivenCandidates(j) => GivenCandidates(j)'
                               /\ GivenEndpoint(j) => GivenEndpoint(j)'
    BY <1>4, <1>5 DEF GivenCandidates, GivenEndpoint
<1>9. ASSUME NEW v \in Workers, WorkerAt(v, "connecting")'
      PROVE  GivenCandidates(worker[v].job)'
    <2>1. v # w
        BY <1>3, <1>9 DEF WorkerAt
    <2>2. WorkerAt(v, "connecting") /\ Busy(v) /\ worker'[v] = worker[v]
        BY <1>3, <1>9, <2>1 DEF WorkerAt, Busy
    <2>3. worker[v].job \in Jobs /\ worker[v].job # k
        BY <1>0, <1>1, <2>1, <2>2, HoldsJob DEF TypeHeld, Held
    <2>. QED
        BY <1>8, <2>2, <2>3 DEF Agree
<1>10. ASSUME NEW j \in invoked'
       PROVE  /\ ~Independent(j) => GivenCandidates(j)'
              /\ WaitsForTransport(j) => GivenEndpoint(j)'
    <2>1. CASE j \in invoked
        <3>1. j \in Jobs /\ j # k
            BY <1>1, <2>1 DEF TypeHeld, TypeOK
        <3>. QED
            BY <1>8, <2>1, <3>1 DEF Agree
    <2>2. CASE j \notin invoked
        BY <1>2, <1>7, <1>10, <2>2
    <2>. QED
        BY <2>1, <2>2
<1>. QED
    BY <1>9, <1>10 DEF Agree
\* What was given stays what is published, as long as nothing is published twice.
LEMMA AgreeKept ==
    ASSUME Agree,
           \A v \in Workers : WorkerAt(v, "connecting")' =>
                WorkerAt(v, "connecting") /\ worker'[v].job = worker[v].job,
           \A j \in invoked' : j \in invoked \/ (Independent(j) /\ ~WaitsForTransport(j)),
           UNCHANGED seen,
           resolvedReady => resolvedReady' /\ UNCHANGED candidates,
           transportReady => transportReady' /\ UNCHANGED tested
    PROVE  Agree'
<1>1. ASSUME NEW j
      PROVE  /\ GivenCandidates(j) => GivenCandidates(j)'
             /\ GivenEndpoint(j) => GivenEndpoint(j)'
    BY DEF GivenCandidates, GivenEndpoint
<1>2. ASSUME NEW v \in Workers, WorkerAt(v, "connecting")'
      PROVE  GivenCandidates(worker[v].job)'
    <2>1. PICK j : j = worker[v].job
        OBVIOUS
    <2>2. GivenCandidates(j) /\ j = worker'[v].job
        BY <1>2, <2>1 DEF Agree
    <2>. QED
        BY <1>1, <2>2
<1>. QED
    BY <1>1, <1>2 DEF Agree

\* Every step keeps what the probes were given equal to what was published.
LEMMA AgreeStep ==
    ASSUME TypeHeld, Staged, Ready, Agree, [Next]_vars
    PROVE  Agree'
<1>1. CASE UNCHANGED vars
    BY <1>1 DEF vars, Agree, GivenCandidates, GivenEndpoint, WorkerAt
<1>2. CASE ContextEnds
    BY <1>2 DEF ContextEnds, Agree, GivenCandidates, GivenEndpoint, WorkerAt
<1>3. ASSUME NEW w \in Workers, WorkerStep(w)
      PROVE  Agree'
    <2>1. worker \in [Workers -> Workplace]
        BY DEF TypeHeld, TypeOK, Workplace
    <2>2. CASE Receive(w)
        <3>. DEFINE p == IF Independent(nextJob) THEN "running" ELSE "resolving"
                    e == [worker[w] EXCEPT !.job = nextJob, !.at = p]
        <3>1. e.at = p
            BY <2>1 DEF Workplace
        <3>2. worker' = [worker EXCEPT ![w] = e]
            BY <2>1, <2>2 DEF Receive
        <3>. HIDE DEF e
        <3>3. worker'[w].at # "connecting" /\ \A v \in Workers : v # w => worker'[v] = worker[v]
            BY <2>1, <3>1, <3>2
        <3>4. \A v \in Workers : WorkerAt(v, "connecting")' =>
                 WorkerAt(v, "connecting") /\ worker'[v].job = worker[v].job
            BY <3>3 DEF WorkerAt
        <3>5. \A j \in invoked' : j \in invoked \/ (Independent(j) /\ ~WaitsForTransport(j))
            <4>1. nextJob \in Jobs
                BY <2>2, ListOfJobs DEF Receive, TypeHeld, TypeOK, Jobs
            <4>2. Independent(nextJob) => ~WaitsForTransport(nextJob)
                BY <4>1, ListOfJobs DEF Tcp, Jobs
            <4>. QED
                BY <2>2, <4>2 DEF Receive
        <3>. QED
            BY <2>2, <3>4, <3>5, AgreeKept DEF Receive
    <2>3. CASE Resolve(w)
        BY <2>3, ResolvingAgrees
    <2>4. CASE Connect(w)
        BY <2>4, ConnectingAgrees
    <2>5. CASE Abandon(w)
        <3>1. worker' = [worker EXCEPT ![w] = Idle]
            BY <2>5 DEF Abandon, File
        <3>2. \A v \in Workers : WorkerAt(v, "connecting")' =>
                 WorkerAt(v, "connecting") /\ worker'[v].job = worker[v].job
            BY <2>1, <3>1 DEF WorkerAt, Idle
        <3>. QED
            BY <2>5, <3>2, AgreeKept DEF Abandon
    <2>6. CASE Return(w) \/ Panic(w)
        <3>1. PICK r \in Slots : Ends(w, r)
            BY <2>6, RunningEnds
        <3>2. \A v \in Workers : WorkerAt(v, "connecting")' =>
                 WorkerAt(v, "connecting") /\ worker'[v].job = worker[v].job
            <4>1. CASE worker' = [worker EXCEPT ![w] = Idle]
                BY <2>1, <4>1 DEF WorkerAt, Idle
            <4>2. CASE worker' = [worker EXCEPT ![w].at = "closing", ![w].result = r]
                BY <2>1, <4>2, Closing DEF WorkerAt
            <4>. QED
                BY <3>1, <4>1, <4>2 DEF Ends, File
        <3>3. /\ worker[w].job \in Jobs /\ results[worker[w].job] = Nothing
              /\ Job(w) = "dns" => worker[w].job = Dns
              /\ Job(w) = "tcp" => worker[w].job = Tcp
            BY <2>6, RunningEnds, HoldsJob, ListOfJobs DEF Job
        <3>4. /\ UNCHANGED candidates \/ Job(w) = "dns"
              /\ UNCHANGED tested \/ Job(w) = "tcp"
            BY <2>6 DEF Return, ReturnsWith, Panic
        <3>5. /\ resolvedReady => UNCHANGED candidates
              /\ transportReady => UNCHANGED tested
            BY <3>3, <3>4 DEF Ready
        <3>. QED
            BY <2>6, <3>2, <3>5, RunningEnds, AgreeKept
    <2>7. CASE CloseReady(w)
        <3>1. worker' = [worker EXCEPT ![w] = Idle]
            BY <2>7 DEF CloseReady, File
        <3>2. \A v \in Workers : WorkerAt(v, "connecting")' =>
                 WorkerAt(v, "connecting") /\ worker'[v].job = worker[v].job
            BY <2>1, <3>1 DEF WorkerAt, Idle
        <3>3. /\ resolvedReady => resolvedReady' /\ UNCHANGED candidates
              /\ transportReady => transportReady' /\ UNCHANGED tested
              /\ UNCHANGED <<seen, invoked>>
            BY <2>7 DEF CloseReady
        <3>. QED
            BY <3>2, <3>3, AgreeKept
    <2>. QED
        BY <1>3, <2>2, <2>3, <2>4, <2>5, <2>6, <2>7 DEF WorkerStep
<1>. QED
    BY <1>1, <1>2, <1>3 DEF Next

-----------------------------------------------------------------------------
(* The theorems.                                                           *)
PoolInv == TypeHeld /\ Staged /\ Ready /\ Agree

\* The inductive invariant of the pool.
LEMMA PoolInvHolds == Spec => []PoolInv
<1>1. Init => PoolInv
    <2>. SUFFICES ASSUME Init
                  PROVE  PoolInv
        OBVIOUS
    <2>. DEFINE n == Len(JobList)
    <2>1. /\ Nothing \in Slots /\ Dns \in Jobs /\ Tcp \in Jobs
          /\ n \in Nat /\ 0 \in 0..n /\ 1 \in 1..(n + 1)
        <3>1. n \in 12..14
            BY ListOfJobs
        <3>. HIDE DEF n
        <3>. QED
            BY <3>1, ErrorIsResult, ListOfJobs
    <2>2. Idle \in Workplace
        BY <2>1 DEF Idle, Workplace, Places
    <2>3. TypeOK
        <3>1. /\ nextJob \in 1..(Len(JobList) + 1) /\ faults \in 0..MaxFaults
              /\ invoked \subseteq Jobs
            BY <2>1, PoolAssumption DEF Init
        <3>2. worker \in [Workers -> Workplace] /\ results \in [Jobs -> Slots]
            BY <2>1, <2>2 DEF Init
        <3>3. seen \in [Jobs -> [candidates : {Unset, "answers", "none", "literal"},
                                 tested : {Unset, "endpoint"}]]
            BY DEF Init, Unseen
        <3>. QED
            BY <3>1, <3>2, <3>3 DEF Init, TypeOK, Workplace
    <2>4. /\ \A w \in Workers : worker[w].at = "idle"
          /\ \A j \in Jobs : results[j] = Nothing
          /\ \A j \in Jobs : j >= nextJob /\ ~(j < nextJob)
        BY DEF Init, Idle, Jobs
    <2>5. Held
        BY <2>4 DEF Held, Busy, WorkerAt
    <2>6. Staged
        BY <2>4 DEF Staged, Stage, WorkerAt, Init
    <2>7. Ready /\ Agree
        BY <2>1, <2>4 DEF Ready, Agree, WorkerAt, Init
    <2>. QED
        BY <2>3, <2>5, <2>6, <2>7 DEF PoolInv, TypeHeld
<1>2. PoolInv /\ [Next]_vars => PoolInv'
    BY TypeHeldStep, StagedStep, ReadyStep, AgreeStep DEF PoolInv
<1>. QED
    BY <1>1, <1>2, PTL DEF Spec

(* The pool, the selection state and the result slots keep the shapes        *)
(* runProbes gives them.                                                     *)

THEOREM PoolTypeCorrect == Spec => []TypeOK
<1>1. PoolInv => TypeOK
    BY DEF PoolInv, TypeHeld
<1>. QED
    BY <1>1, PoolInvHolds, PTL

(* All the lanes of one report are about one endpoint, however the workers   *)
(* interleave with DNS and TCP: candidates and endpoint are final before     *)
(* any lane reads them, because the channel is closed after the publication  *)
(* and the publisher runs once.                                              *)

THEOREM LanesAlwaysAgree == Spec => []LanesAgree
<1>1. PoolInv => LanesAgree
    BY DEF PoolInv, Agree, LanesAgree, GivenCandidates, GivenEndpoint
<1>. QED
    BY <1>1, PoolInvHolds, PTL

(* When the pool has drained, every slot holds a result, and a lane that was *)
(* announced but not run, or panicked, makes the report incomplete whatever  *)
(* the other lanes reached.                                                  *)

THEOREM NothingIsSilentlyDropped == Spec => []NoSilentDrop
<1>1. ASSUME PoolInv, Drained
      PROVE  /\ \A j \in Jobs : results[j] # Nothing
             /\ invoked # Jobs \/ (\E j \in Jobs : results[j] = ExecutionError) =>
                   ReportStatus = "incomplete"
    <2>1. \A j \in Jobs : results[j] # Nothing
        BY <1>1, ListOfJobs DEF Drained, PoolInv, TypeHeld, TypeOK, Held, Busy, Jobs
    <2>2. ASSUME invoked # Jobs
          PROVE  \E j \in Jobs : results[j] = ExecutionError
        <3>1. PICK j \in Jobs : j \notin invoked
            BY <1>1, <2>2 DEF PoolInv, TypeHeld, TypeOK
        <3>. QED
            BY <1>1, <2>1, <3>1 DEF PoolInv, Staged
    <2>3. RequiredExecutionIncomplete(ExecutionError)
        BY DEF RequiredExecutionIncomplete, NonFatalUnavailable, ExecutionError, Result
    <2>. QED
        BY <2>1, <2>2, <2>3 DEF ReportStatus
<1>2. PoolInv => NoSilentDrop
    BY <1>1 DEF NoSilentDrop
<1>. QED
    BY <1>2, PoolInvHolds, PTL

(* Whoever waits for DNS or TCP has another worker that holds an earlier     *)
(* probe, so the earliest probe under way never waits: the order of the list *)
(* keeps a pool of any size from waiting on itself.                          *)

THEOREM PoolNeverStalls == Spec => []NoStall
<1>1. ASSUME PoolInv, NEW w \in Workers, Blocked(w)
      PROVE  \E v \in Workers : ~WorkerAt(v, "idle") /\ worker[v].job < worker[w].job
    <2>1. Busy(w) /\ worker[w].at \in {"resolving", "connecting"}
        BY <1>1 DEF Blocked, Busy, WorkerAt
    <2>2. /\ worker[w].job \in Jobs /\ worker[w].job < nextJob /\ nextJob \in Nat
          /\ ~Independent(worker[w].job)
          /\ WorkerAt(w, "connecting") => WaitsForTransport(worker[w].job)
        BY <1>1, <2>1, HoldsJob DEF PoolInv, Staged, Stage
    <2>3. PICK d \in {Dns, Tcp} : results[d] = Nothing /\ d < worker[w].job
        <3>1. CASE WorkerAt(w, "resolving")
            <4>1. results[Dns] = Nothing
                BY <1>1, <3>1 DEF Blocked, WorkerAt, PoolInv, Ready
            <4>2. Dns < worker[w].job
                BY <2>2, ListOfJobs DEF Dns, Tcp, Jobs
            <4>. QED
                BY <4>1, <4>2
        <3>2. CASE WorkerAt(w, "connecting")
            <4>1. results[Tcp] = Nothing
                BY <1>1, <3>2 DEF Blocked, WorkerAt, PoolInv, Ready
            <4>2. Tcp < worker[w].job
                BY <2>2, <3>2, ListOfJobs DEF Dns, Tcp, Jobs
            <4>. QED
                BY <4>1, <4>2
        <3>. QED
            BY <2>1, <3>1, <3>2 DEF WorkerAt
    <2>4. d \in Jobs /\ d < nextJob
        BY <2>2, <2>3, ListOfJobs DEF Jobs, Dns, Tcp
    <2>5. PICK v \in Workers : Busy(v) /\ worker[v].job = d
        BY <1>1, <2>3, <2>4 DEF PoolInv, TypeHeld, Held
    <2>. QED
        BY <2>3, <2>5 DEF Busy
<1>2. PoolInv => NoStall
    BY <1>1 DEF NoStall
<1>. QED
    BY <1>2, PoolInvHolds, PTL
=============================================================================
