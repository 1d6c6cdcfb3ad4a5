# Verification of Tadori

Tadori diagnoses the reachability of a destination.  A local web server starts
*diagnosis sessions*; a session runs a fixed set of *probes* against a target
(DNS, TCP, TLS, HTTP, routes, proxies, ...), streams progress events to the
browser and ends in a *report*.  The user can also start a *browser capture*: a
local proxy in front of a disposable browser that records which destinations
were reached; the capture then becomes a *plan* of endpoints, which a
*validation batch* diagnoses one by one.

This directory holds TLA+ models of that program from its managers down to the
probes and up to the report, the TLC configurations that check them on small
instances, and TLAPS proofs of the properties that matter most for every instance.  Paths are relative to the
repository's `src/`.

## 1. Inventory

### 1.1 Components with state of their own

| component | state | operations | interacts with |
|---|---|---|---|
| diagnosis session manager, `internal/session` | `Manager`: sessions by ID, capacity channel, `closed`. Session: state, cancel request, context, report, bounded history of events, subscribers' channels, `done` | `Create`, `execute`, `Cancel`, `Close`, `emit`, `Subscribe`, unsubscribe, `Snapshot` | calls the orchestrator as its runner; called by the web handlers |
| event stream, `internal/web/web.go` | `Last-Event-ID` of each browser | `diagnosisEvents` | `Subscribe`, the session's channel, the network connection |
| validation batch manager, `internal/batch/manager.go` | batches by ID, capacity channel, `closed`. Batch: state, entry results, summary, jobs channel, workers | `Start`, `execute`, `runEntry`, `Cancel`, `Close`, `Report`, `EndpointReport` | takes a plan; calls the orchestrator once per entry |
| batch plan, `internal/batch/plan.go` | the map of accumulated entries of one call | `BuildPlan` | reads the report of a capture; feeds the batch manager |
| probe orchestration, `internal/orchestrate` | job list, result slots, `endpointSelectionState` and its two ready channels | `Run`, `runProbes`, `runProbeWithDependencies`, `runBounded` | probes, packet backends, progress callbacks |
| capture manager and session, `internal/capture` | `Manager`: sessions, capacity, `closed`. Session: state, listener, server, browser process, profile directory, timer, `onStop`, `stopDone` | `Start`, `launch`, `serve`, `waitForProcess`, `Stop`, `stop`, `Close` | the operating system's browser; the web handlers |
| capture proxy, `internal/capture/proxy.go` | connection gate, `active` connections, destination table | `ServeHTTP`, `handleConnect`, `handleHTTP`, `tunnel`, `record`, `track`, `untrack` | `stop` closes what it tracks |
| packet evidence, `internal/packet` | one bounded capture per probe, ETW session | `Start`, `Stop`, `Correlate` | orchestrator; diagnosis rules |
| web front end, `internal/web` | none beside the managers and static files | request admission, handlers, view models, path graph | all managers |

### 1.2 Components that compute

| component | what it does |
|---|---|
| probes, `internal/probe/*` | one network exchange each, with retries, fallbacks and redirects inside (`dns`, `tcp`, `tls`, `http`, `proxy`, `enterprise`, `smb`, `ssh`, `rdp`, `path`, `route`, `interfacecfg`) |
| diagnosis rules, `internal/diagnosis` | a pure mapping of lane results to findings |
| observations, `internal/observations` | the structured facts of a report from probe results |
| report, `internal/report` | HTML and text, and the classification of a destination's status |
| model, `internal/model` | types, target parsing, JSON |
| environment, `internal/environment` | a snapshot of the operating system's configuration |
| privacy, `internal/privacy` | redaction of strings |
| command line, `cmd/tadori` | flags and one call of the orchestrator |

### 1.3 What is hard, and what makes each component correct

*Session manager.*  Two mutexes and a channel that is none of theirs: the slot
is taken before the manager's mutex, `cancel()` is called after the session's
mutex is released, `Close` works on a copy of the sessions, the overall timeout
and a panicking runner race with the return of a report.  Correct means: every
slot comes back exactly once; a session that `Close` did not see is never
admitted; a cancellation decides the final state exactly if it was accepted
before the result; nothing changes after `done`.

*Event stream.*  Emission never blocks, so a slow subscriber is dropped; the
history is cut; the browser reconnects with the last ID it has seen.  Correct
means: no gap a browser cannot notice, no channel left open or closed twice,
and the terminal event arrives in the end.

*Batches.*  The same admission, and inside a batch a worker pool over a closed
channel, per-entry deadlines and cancellation between and during entries.
Correct means: each entry is run at most once and decided when `done` closes.

*Plan.*  A Go map is read in random order and then numbered; two spellings of a
host become one endpoint only after parsing.  Correct means: the plan counts
each wanted observation exactly once and its IDs are reproducible.

*Orchestration.*  Workers keep their slot while they wait for DNS or TCP, so
only the order of the job list keeps the pool from waiting on itself; dependent
probes copy the selected endpoint; the context may end at any moment.  Correct
means: no stall, all lanes describe the same endpoint, and a lane that was
given up is visible in the report's status.

*Capture.*  Starting, the session's timer, `Stop`, `Close`, a listener that
fails and a browser that does not die all race; the callback that returns the
slot is set after the session already runs.  Correct means: the slot comes back
exactly once, an orderly stop is never a failure, nothing is left behind.

*Proxy.*  Handlers, the dial goroutines of `http.Transport` and `stop` share the
set of open connections.  Correct means: after a stop everything is closed, also
what is opened later, and each request is counted once.

*Packet evidence.*  The kernel loses events, the callback stops recording at its
limits, the context stops the trace early, and other connections of the same
process go to the same target.  Correct means: the evidence never contradicts
the connection, "not emitted" is only said of what was not sent, an answer is
attributed to its own request, and what a capture opens it closes.

*Probes.*  Candidates, retries, transports and ttls share one deadline; a helper
goroutine may outlive its probe; the context may end between two attempts.
Correct means: nobody takes the time of the later ones, an answer is not lost
behind another failure, a verdict says no more than was observed, and every run
ends with its connection closed.

*Observations, diagnosis, destination status.*  Pure functions, but of lanes that
connected at different moments and may contradict each other, with precedence
rules spread over five thousand lines.  Correct means: a layer a connection got
through is not blamed, the name that did not resolve is not hidden by what
followed from it, a destination is shown as reachable only if something was
answered, and TLS inspection is claimed only of two trusted certificates that
differ.

The main hazards, each at its line, are in `PROJECT.json`.

## 2. Modules

| module | what it is |
|---|---|
| `JobAdmission` | abstract specification of a manager that admits, cancels and ends jobs and can be closed; implemented by the session manager and the batch manager |
| `SessionManager` | session manager and event stream |
| `SessionManagerProofs` | proofs about its sessions and its event streams, and that it implements `JobAdmission` |
| `BatchManager` | batch manager |
| `BatchManagerProofs` | proofs that its workers lose no entry and run none twice, and that it implements `JobAdmission` |
| `BatchPlan`, `BatchPlanProofs` | `BuildPlan`, and the proof that its numbering is deterministic and that it covers what is wanted |
| `ProbePool`, `ProbePoolProofs` | one run of the orchestrator, and the proofs that its lanes agree, that none is dropped and that it cannot wait on itself |
| `CaptureManager`, `CaptureManagerProofs` | life cycle of captures, and the proofs of its invariants |
| `CaptureProxy`, `CaptureProxyProofs` | the proxy of one capture and its shutdown, and the proofs of its invariants |
| `PacketCorrelation` | operators: from a finished capture to the packet evidence of one probe |
| `PacketCapture` | a probe inside a capture of its own: the ETW session and its goroutines, or any path capture |
| `PacketCaptureProofs` | proofs that what is filed of a TCP probe never contradicts what its connection did in the window, and that answers go to their requests |
| `ProbeRun` | what all active probes share: world, context, clock, locals, result |
| `EndpointProbes` | `tcp`, `ssh`, `rdp`, `smb`, `tls`, `http` |
| `DnsProbes` | `dns` and `dns_service` |
| `PathProbe` | `path` with its ICMP and TCP lanes |
| `ProxyProbes` | `proxy_discovery` and `windows_enterprise` |
| `ProbesProofs` | proofs that the verdicts of `dns`, `dns_service`, `proxy_discovery` and `windows_enterprise` follow from what they saw |
| `Observations`, `EnterpriseObservation` | operators: `observations.Build`, as far as a decision reads it |
| `Diagnosis` | operators: `diagnosis.Diagnose` |
| `DestinationStatus` | operators: the status of the destination |
| `Report` | composes the four: the lanes of one run, their results in job order, and the report |
| `MC*` | instances: symmetry, captures and selections of `BatchPlan`, plans of `BatchManager`, targets of `Report`, and the disjunction of all probes |

An action is one critical section, or one step between two operations another
goroutine can observe (a channel operation, a callback, a context call).  Local
computation between two of them belongs to the action that follows it.  Where
the code holds no lock, an action reads or writes only one shared variable.
Operators whose names carry a suffix (`Abort_KeepProfile`, `Less_NoPort`) are faulty
variants of the operator that follows them; no action uses them, and each shows
that one of the properties can be broken by a plausible mistake.

### 2.1 JobAdmission

Each job takes a slot (`Take`), and is then refused or admitted (`Decide`); at
most `MaxConcurrent` jobs hold a slot.  A manager that is shut admits nothing.
A job that was asked to stop before it ended is recorded as cancelled and no
other job is; its slot comes back once, after its outcome is recorded.

### 2.2 SessionManager

A session is identified with its `Create` call.  `pc` follows `Create` (token
taken, published or refused) and then `execute` (spawned, running, returned,
recording, sealing, ended, released).  `Cancel` is two actions, because
`cancel()` is called after the mutex is released; `Close` is one action that
sets `closed` and copies the sessions, and two per session.  `ctxErr` is what
`ctx.Err()` returns: cancellation and the deadline race and the first one wins.
`Return` chooses any report, an error or a panic.  The last critical section of
`execute` emits several events; a client receives without taking the mutex, so
each emission is an action and `Locked` excludes other holders of the mutex.

A client is a browser's `EventSource`: `Subscribe` sends the replay into a fresh
channel under the mutex, `Write` moves one event from the channel to the browser
and advances its cursor, `LoseConnection` loses the connection, `StreamClosed` sees the
channel closed, after which the browser connects again with its cursor.  Events
are their sequence numbers and kinds.

### 2.3 BatchManager

The same shape for `Start`, `Cancel` and `Close`.  `nextJob` stands for the
closed and buffered jobs channel; each worker takes an index, marks the entry
running, runs it under its own deadline and files the result; the final section
of `execute` decides what was not run.  Each batch has its own plan (`Size`,
`Unsupported`), so a long and a short batch compete for one slot.  An entry's result keeps its state,
outcome and whether a report is attached, all three as the code sets them.

### 2.4 BatchPlan

The two nested loops of `BuildPlan` take one destination and mechanism per step;
then the map is read in an arbitrary order, sorted and numbered.  Host names are
numbers ordered like the strings; `Canon` is what target parsing makes of a name
(`None` if it refuses).  `PlanIsExact` compares the plan with a definition that
has no loop and no map.

### 2.5 ProbePool

The list of jobs is the one `runProbes` builds for the target's protocol.  A
worker receives a job (and announces it), waits for candidates or for the tested
endpoint if the probe depends on them, invokes it, and files a result; DNS
and TCP publish into the shared state and close their ready channel.  When the
ready channel and the context are both done the model, like `select`, may take
either.  A probe passes, fails, is not available, or panics.

### 2.6 CaptureManager and CaptureProxy

`CaptureManager` has for each `Manager.Start` call the call itself (`pc`), the
serve goroutine (`server`), the browser and its profile, the `stop` goroutine
(`stopper`, one value per statement others can observe), and the callback that
gives the slot back (`hook`, with the three orders of `setOnStop` and `stop`).
The browser may survive being killed, in which case `stop` goes on after its
timeout.  `CaptureProxy` opens up what that module hides: the handlers of one
session, their two connections, the dial goroutine of a plain HTTP request,
which outlives a handler that gave up, and the stop goroutine, which copies the
tracked connections and closes them.

### 2.7 PacketCorrelation and PacketCapture

`PacketCapture` is `runWithPacketEvidence` around one probe.  For a TCP probe the
capture is the ETW session: `Request`, `Emit` and `Answer` are what the kernel
does with a connection and the event it writes (or loses: `Log`), `Consume` is
the callback with its two limits, `WatcherCancels` the goroutine that stops the
session when the context ends, `Stop` and `StopReturns` the two halves of `Stop`, and
`File` the correlation.  `StartTrace`, `EnableTrace` and `OpenTrace` are the native calls
of `Start`, one after the other; each may fail, and then takes back what the ones before
it have started, while other connections may already be under way.

`DeadlinePasses` is the end of the window of the capture.  `run.go:369` gives the scope
the deadline of its context, and every context of a TCP or path probe has one;
`withinWindow` (`packet.go:346`) drops each observation whose event is later.  The timer
of the context fires some time after that, the watcher marks the capture after that, and
in between the kernel still sends, answers and logs: an event bears `late` from the moment
it is written, whenever it is consumed, and `File` ignores it.  So a SYN or a confirmation
just after the deadline is not evidence: the code then files `probe_not_observed` of a probe
that was sent, or `no_matching_response_observed` beside a connection that was made.  Both
properties of TCP evidence are therefore stated of `InTime`, what the connection had done
when the deadline passed; TLC refutes them when they are stated of what it has done at all.
The window begins before the session does, so no event of the probe is too early.  The
times are those of one clock that does not go back: a step of the wall clock between the
deadline, which Go keeps on its monotonic clock, and the time stamps of the kernel is not
modelled.

`Flows` are the probe's connection (`Own`), others of this process
to the same target (`Lanes`) and those of other processes (`Aliens`).  For a path
probe `RunPath` chooses any report of one or two requests and up to `MaxAnswers` answers:
to either request, both to the same one, in the other order, to another process's request,
or after the window.  Any subset of the keys of an echo is filled in, the same for all
answers of a report, as a backend would.  `truth` is a ghost field, the
request or connection a packet really belongs to; no decision reads it.
`PacketCorrelation` speaks of observations by their place in the capture, so that two
equal packets count as two; the loops that stop at the first request that fits are
`FirstFits`, and `responses[0]` is `Decisive`.

### 2.8 Probes

Each probe is a small machine over the same variables, in a `world` that is chosen
at the start: what each candidate, server, hop or proxy does.  Time is a clock of
ticks; an attempt that gets no answer lasts until its share is used up.  A tick is
the share of one attempt, so the assumptions on the timeouts say that each attempt
gets at least one.  `ContextEnds` may come between any two steps.

- `EndpointProbes`: the candidate list of `tcp`, `ssh` and `rdp` with its equal
  shares; one address for `smb` and `tls`; the redirects of `http`.  A peer
  refuses, resets, is unreachable, hangs, or accepts and then answers in one of
  the ways its protocol tells apart.
- `DnsProbes`: `dns` reads the configuration and looks up each family in a
  goroutine (`work.helper`) that the probe may leave behind; `dns_service` asks
  each candidate over UDP and over TCP, with retries, and ranks the outcomes.
- `PathProbe`: two lanes, each ttl after ttl, attempts dividing the time left.
- `ProxyProbes`: `proxy_discovery` parses two lists and checks the first endpoints;
  `windows_enterprise` resolves the proxy for the target from each source, observes
  the target along each path, and compares.

### 2.9 Observations, Diagnosis, DestinationStatus and Report

`Report` has three steps: a lane files one of the results its probe can return
(`MaxTroubles` bounds how many lanes end otherwise than well), a cancelled run
gives up on all lanes that are left, and the report is made.  The lanes connect
one by one, so they may disagree.  Making the report applies
`Observe` (`observations.Build`), `Diagnose` and `Status` to the results in job
order.  These are operators, one per function of the code, over records that keep
only the fields some decision reads: an endpoint is an address, an item of
evidence is a kind, an ID and its fields.  `Rules` is the table of
`diagnosis.go:115` in its order.  Where Go reads a set of candidates of one reason
in an order that no property depends on, the model takes any.

## 3. Runs

| run | shows |
|---|---|
| `session_lifecycle` | 3 `Create` calls, 2 slots: slot accounting, `ClosedMeansCancelled`, `CancelHonoured`, `TerminalIsFinal`, and refinement of `JobAdmission` |
| `session_stream` | a browser that is slow and twice loses its connection, a history of 2, a channel of 1: no silent gap, a channel is open iff registered; and, under fairness, every slot comes back and the browser sees the end |
| `batch` | a plan of 3 entries (one unsupported) with 2 workers and a plan of 1 compete for one slot, with cancel, close and a timeout: refinement of `JobAdmission`, each entry once, all decided when done; under fairness every slot comes back |
| `batch_plan` | 2,800 captures under 5 selections: the plan is exact and its order strict |
| `probe_pool` | HTTPS target, 2 workers, one fault, context may end: lanes agree, nothing that was given up or panicked is dropped silently, the workers never wait on each other |
| `capture_lifecycle` | 2 captures, 1 slot, one failing listener: real failures, nothing left, close; under fairness every capture ends and gives its slot back |
| `capture_proxy` | 3 requests, 2 destinations, gate of 2: no stale tracking, counted once, and after a stop every handler returns and every connection is closed |
| `packet_evidence` | a probe beside a connection of another lane or of another process at one target; lost and garbled events, native calls that fail one by one, a deadline that passes anywhere; path captures with up to two answers: no contradiction within the window, true negatives, right attribution; under fairness the capture is released |
| `probes` | all eleven active probes in all their worlds: time is shared, answers are kept, verdicts are founded; under fairness every run ends |
| `report` | eight targets, up to two lanes in trouble, cancellation anywhere: success clears the layers below it, reachable means answered, the root cause is kept, inspection is founded |

Two runs each check one statement of the repository that the code does not
keep; `PROJECT.json` quotes the statement and TLC prints the behaviour:

| run | statement | what happens |
|---|---|---|
| `batch_entries_settle` | the entry states of a done batch are final states | an entry that times out with a complete report is left `queued` |
| `report_reached` | custom TLS and custom TCP own their boundary; application is inapplicable (`internal/diagnosis/diagnosis.go:373`) | the skipped `http` lane counts as a failed request, and a destination that was reached is shown as degraded |

More statements are in the modules without a configuration of their own.  TLC
refutes each when it is added to a configuration of its module:

| property | statement | what happens |
|---|---|---|
| `IdSelectsEntry` of `BatchPlan` | a selection may name plan IDs (`internal/batch/plan.go:30`) | IDs are assigned after the selection (`plan.go:152`), so one never matches |
| `StopFreesSlot` of `CaptureManager` | a start after `Stop` finds the slot free (`internal/capture/capture_test.go:250`) | `stopDone` closes before the slot is returned (`capture.go:375`) |
| `IdentityIsOwn` of `PacketCapture` | an observation with the probe's correlation ID is the probe's (`internal/model/packet.go:11`) | the ID is put on every connection of the process to the same target (`etw_windows.go:326`) |
| `CancelledHasNoReport` of `BatchManager` | cancelled entries have no active report (`internal/batch/manager.go:305`) | an entry cancelled during its run keeps the runner's report |
| `AnnouncedIsInvoked` of `ProbePool` | `OnProbeStarted` is called immediately before a probe is invoked (`internal/orchestrate/run.go:64`) | it is called before the dependency wait, which may give the probe up |
| `SnapshotIsFinal` of `CaptureProxy` | `Stop` returns the final snapshot (`internal/capture/manager.go:129`) | a handler that outlives the stop still records |

### 3.1 What translating the code showed

None of these breaks a checked property; each is in the model as the code does it.

- A failed `dns_service` finding is always contradicted by the success of the name
  resolution, so it is never selected; and its UDP exchange makes the TCP endpoint
  observation "connected".
- The `smb` lane's failure reason stays "unsupported"; a skipped lane with that
  reason makes the name resolution's certainty "unsupported" too.
- The certificate reasons of the `tls` probe itself make the certificate validation
  "unknown"; `TrustedCorporatePrivateRoot` is never set, so an inspection is never
  "suspected" in practice.
- A cancelled run yields a "degraded" finding about the cancellation at the TLS layer.
- The `tls` probe ends in status "error" after a failed handshake
  (`internal/probe/tls/tls.go:332`), where its comment (`tls.go:139`) speaks of a failure.
- A cancelled dial of `smb` is reported as failed; the reads of `ssh`, `rdp`, `smb`
  and `dns_service` do not follow a cancellation, only their deadlines.
- Whether a path probe is told as cancelled or as silent, when all hops were silent,
  depends on which goroutine ends first; a hop with responders may be "unobservable".
- An HTTP 4xx on the direct path beside a working proxy is reported as restricted
  direct egress, and a 407 of the origin as a proxy that wants authentication.
- Proxy endpoints beyond the limit are `not_checked` and do not keep the probe from
  passing; a later failing dial overwrites the state of an earlier one.

### 3.2 Bounds

`MaxConcurrent`, `MaxEventHistory`, `SubscriberBuffer`, `MaxConcurrency`,
`MaxConnections`, `MaxFlows`, `MaxObservations`, `MaxChecks`, `MaxTTL`, `Retries`
are parameters of the code, set small so that the limits are
reached: two slots and three calls give a refused call beside two admitted ones;
a history of two with five or more events is cut repeatedly; a channel of one
makes every reader that misses two events slow; one flow and two observations
fill a packet capture with one other lane.  One slot and two captures, or two
batches, let a second start wait for the end of the first.  `MaxProgress`,
`MaxFindings`, `MaxLosses`, `MaxTimeouts`, `MaxFaults` and `MaxTroubles` bound what
the environment does; one of each is enough for a race with every other step, and
where two must meet (a reconnection that is lost again, two lanes that contradict
each other, two answers to one request) the bound is two.  `MaxOthers` lets one
connection beside the probe's begin, of this process or of another: one fills the table
of flows, takes a place among the observations, or answers in the probe's stead.
`MaxBuffered` keeps events of other connections from filling the buffer; the probe's
own are never kept out.  `MaxChecks` is two, so a source has endpoints that are dialed one
after the other with different outcomes, and the lists include some that are one longer
than the limit.  Three candidates give a
first, a middle and a last one.  `ProbePool` needs only two workers: `NoStall` says
that whoever waits has another worker with an earlier probe, which excludes a stall
for any number.  The proofs of section 4 do not depend on any bound.

Symmetry is used only in runs without liveness properties; calls, clients,
workers, requests and destinations are not distinguished by the code.
`CHECK_DEADLOCK FALSE` everywhere: all the modelled parts really stop, when every
call has been made and answered.  That they do not stop too early is what the
liveness properties say, `NoStall` for the probe pool and `StopEndsAll` for the
proxy.  `StopEndsAll` is stated of the states in which nothing goes on by itself:
no behaviour of `CaptureProxy` has a cycle, so it reaches such a state, and this
allows the larger instance.

Every module keeps its type invariant beside its properties.  Those of the session
manager, the batch manager, the probe pool, the capture manager and the capture proxy
are proved and in no configuration, and so are `OutcomeIsFinal` of `BatchManager`,
`StreamContiguous` and `BufferBounded` of `SessionManager`, `SlotAccounting` and
`StoppedIsFinal` of `CaptureManager`, `GateBounds` and `StopClosesAll` of
`CaptureProxy`.  The inductive invariants themselves were checked by TLC on small
instances before they were proved.

### 3.3 Fairness

Weak fairness of each goroutine's own step: the Go scheduler runs a runnable
goroutine, and a released mutex is acquired in the end.  In particular:

- `Deadline` and `Expire`: a timer fires.
- `Return` of a session's runner only once its context is over: the contract of
  a runner is that it returns when its context ends; nothing is assumed of a
  runner before that.
- `RunReturns` of a batch entry: the runner is the orchestrator, every probe of
  which is bounded by a timeout of its own, so it returns also without a
  cancellation.
- `batch` states one fairness condition for everything that goes on by itself
  (`Running`): each of its steps brings a batch nearer to its end, so one is enough.
- `Request(Own)` and `ProbeReturns` of `PacketCapture`: the dial is bounded by a timeout.
  `StartTrace`, `EnableTrace` and `OpenTrace`: a native call returns, with or without an
  error.  `DeadlinePasses` and `ContextEnds` are not fair: `CaptureReleased` does not
  need them.
- `ProbeSteps` of `MCProbes`: goroutines run and time passes.  That the context ends
  is not assumed: `ProbesEnd` holds whether or not the caller gives up.
- a browser connects again and reads what is written to it (`EventSource`);
  *when* it does is free, and connection losses are never fair.

No fairness is assumed for `Create`, `Cancel`, `Close`, a loss, a fault or the
death of the browser process.

## 4. Proofs

All proofs hold for every finite set of calls and clients, every plan and all values of the
limits; the only assumptions are the named `ASSUME`s of the modules.

*Types and slots* (`SessionManagerProofs`).  `TypeOK` and `SlotAccounting` are
proved together: that the capacity channel never exceeds its size needs the
accounting (a token is returned only by a call that holds one), and the
accounting needs the types to count sets.  Counting uses a lemma about adding
and removing one holder.  Results: `TypeCorrect`, `SlotsBalance`.

*Cancellation and shutdown.*  `CancelHonoured` and `ClosedMeansCancelled` are not
inductive.  `Lifecycle` adds `Staged` (which states a session may have at each
place of `Create` and `execute`: unpublished sessions cannot have been asked,
running ones are not terminal, ended ones are) and `CloseListed` (`Close` only
holds published sessions).  `Staged` is what excludes a session that is
published after `Close` took its copy.  Results: `CancellationDecides`,
`CloseReachesAll`.

*Finality.*  `TerminalStays` uses one more invariant: `done` is closed only in the
stages after the last critical section, where no action writes the session.

*Refinement.*  The phase of a job is a function of
`pc`, `state` and `cancelRequested`; each action of the session manager moves
the phase of at most one job, or of none.  The initial states map to initial
states and each step maps to a step of `JobAdmission` or a stutter:
`AdmissionImplemented`.

*Event streams* (`SessionManagerProofs`).  `NoSilentGap` is a claim about one step, but
what a client gets next was put into its channel long before, and the history may have
forgotten events since.  The invariant `StreamInv` has three parts.  `HistoryInv`: the
history is numbered consecutively up to the last event emitted, and not empty once
there is one.  `OpenIffRegistered` is inductive with the third part.  `ChannelInv`: a
channel is within its capacity, its events are consecutive and none the session has not
emitted (`Consecutive`), its first continues the client's cursor or is no later than
the oldest retained event (`StartsWell`; forgetting only grows, so this stays true), and
while the client is registered the channel ends with the session's last event
(`LastSeen`), which is why the next one continues it.  `AppendFeeds`, `HeadFeeds` and
`ReplayFeeds` say what `emitLocked`, `Write` and `Subscribe` do to such a channel, as
facts about sequences.  Results: `OpenMeansRegistered`, `NothingIsSkipped`,
`ChannelsAreInOrder`, `ChannelsNeverOverflow`.

*Entries of a batch* (`BatchManagerProofs`).  `EachEntryOnce` and `DecidedWhenDone`
are not inductive: the first is about the entries, and which one a worker files is
known to the worker only.  The invariant is in two halves.  `Control` is about the
goroutine of a batch: `Staged` gives the states that go with each place of `Start`
and `execute`, `Asked` says that a context which ends before `execute` is over was
preceded by the flag.  `Work` is stated of one batch's results, next index and
workers: what was not received is untouched (`Untouched`), an undecided entry that was
received is in some hands (`Held`), a busy worker holds such an entry (`Holds`), no two
hold the same (`Apart`), and a cancelled result presupposes a request (`Outcome`).
Its lemmas (`WorkTaken` to `WorkStopped`) speak of one batch without any variable,
so each action of a worker is one of them; `Settled` ties the halves together: workers
are busy only while `execute` waits for them.  `OutcomeIsFinal` follows step by step: a
worker writes only the entry it holds, which has no outcome.  Results: `EntriesOnce`,
`DoneMeansDecided`, `OutcomesStay`.

*Slots and refinement of a batch* (`BatchManagerProofs`).  `Slots` counts the
batches that hold a token, with `Control` as the only other invariant.  The
refinement needs `Asked`: `execute` records `cancelled` if the flag *or* the context
says so, the abstract `End` looks at the flag alone.  Results: `BatchTypeCorrect`,
`BatchAdmissionImplemented`.

*Plan* (`BatchPlanProofs`).  The invariant says that the map is finite, files each
entry under its own key, and that keys are comparable; a sequence without an
inversion between neighbours and without a repetition is then strictly ordered.
Result: `PlanNumbering`.  The second invariant, `CoverInv`, keeps the account of the
loops: the observations are the positions `<<i, k>>` (destination and mechanism), an
iteration passes exactly one and leaves out none (`TakePasses`), the map holds the keys
of the wanted positions passed so far, and each entry tells of its own ones whether one
failed and which outcome they agree on (`MergeTells`, `MergeAgrees`); selecting is shown
to mean what the request says (`SelectionMeansWanted`), from `RequestAssumption`, the
selections `normalizeSelection` lets through.  Result: `PlanIsCovered`, which is
`PlanIsExact` without the two sums of its counters: they, and the flattened list of
observations that `PlanIsExact` is stated with, are recursions over data and stay with
TLC.

*Probe pool* (`ProbePoolProofs`).  `ListOfJobs` is proved first: whatever the protocol,
the list has DNS first, TCP fourth, everything before TCP independent and everything
that waits on TCP after it.  The invariant `PoolInv` then has four parts.  `Held`: an
announced job without a result is in the hands of exactly one worker.  `Staged`: where a
worker is in its job, which result it carries, and which probes were invoked, go
together.  `Ready`: DNS has a result exactly when its channel is closed, and TCP one
only if its channel is closed or the context has ended.  `Agree`: whoever is past a
wait was given what was published, which does not change once the channel is closed.
`NoStall` follows from `Held` and `Ready`: a worker that waits for an open channel shows
that DNS or TCP, earlier in the list, has no result, so some other worker holds it.
Results: `PoolTypeCorrect`, `LanesAlwaysAgree`, `NothingIsSilentlyDropped`,
`PoolNeverStalls`.

*Capture manager* (`CaptureManagerProofs`).  None of the properties is inductive: the
state of a session depends on how far `Start`, `Stop`, `serve` and the browser's
callback have come, and these interleave freely.  The invariant is stated of one session
in four parts (`StartInv` what `Start` has built, `HookInv` who calls the callback,
`ServeInv` why `serve` returned, `StopInv` what `stop` has taken down), `CloseInv` of the
list of `Close`, and `SlotAccounting`.  Every step changes one session (`SameAt` for the
others), so a lemma per group of steps does for its own session and one for all the rest.
Results: `CaptureTypeCorrect`, `SlotsAreAccounted`, `FailuresAreReal`, `NothingIsLeft`,
`CloseMissesNone`, `StoppedStaysFinal`.

*Capture proxy* (`CaptureProxyProofs`).  The invariant says of each request which
handler and dialer run (`HandlerInv`), who owns an open connection to the client and
upstream (`ClientInv`, `UpstreamInv`) and up to which step a connection is in `active`
(`ActiveInv`).  What ties them to `stop` is `Registered`: in `active` before `stop` has
taken its copy, in the copy afterwards; a connection opened in between is not registered
and its `track` fails.  `GateInv` counts the handlers inside, `CountedOnce` is inductive
with `HandlerInv`.  `ProxyAssumption` names `"none"` as no destination, because it stands
for a request whose destination was rejected.  Results: `ProxyTypeCorrect`,
`EveryRequestIsCountedOnce`, `NothingStaysTracked`, `GateAlwaysBounds`, `StopMissesNone`.

*Packet evidence* (`PacketCaptureProofs`).  What is filed is decided long after the
packets were seen, from a snapshot; the proof follows each event of the probe's own
connection to it.  `Broken` says that something was lost by the kernel or by a full
table, garbled, cut off by the context, or failed, here or for an event still in the
buffer.  `TrailInv`: while nothing is broken, what the connection has done in the window
(`InTime`) is among the observations of the window or in the buffer as an event that is
not late, and a SYN in the buffer has its request before it or its flow in the table,
since a SYN carries no addresses.  `DeadlineStep` leaves the trail as it is and freezes
`InTime`; what the connection does from then on moves neither (`AdvanceStep`).
`Recorded` states what `consume` does with one event, and `BufferGrows` and
`BufferShrinks` what a buffer holds after a step; from them `TrailExtended` and
`TrailConsumed` follow without any variable.  `LifeInv` says that a probe runs without
its session only after a cancellation, and that a consumer that ended has failed or has
drained the buffer and read the kernel's losses; so a snapshot without a loss holds the
whole trail (`SnapshotInv`).  `ResetInv` is what keeps a reset of the own connection out
of the log of one that was made, and the local port in the result what keeps other lanes
out (`RelevantIsOwn`).  The last part is about `Correlate` alone: an answer that fits
some request keeps a first one (`SomeFirstFit`), and the earliest such answer decides
(`ConfirmationDecides`).  Results: `EvidenceTypeCorrect`, `EvidenceNeverContradicts`,
`NegativesAreTrue`, `TrailIsKept`.

For a path probe `PathInv` says that what is filed is what `Correlate` makes of one
whole report.  What is relevant of a report is what lies in the window
(`ReportIsRelevant`), and of that only the answers fit a request (`OnlyAnswersFit`),
each on its own account, so neither their number nor their order matters
(`OneRequestEach`).  An answer with the identifier and the sequence number, its own or
quoted, fits its request and no other (`AnswerFits`), since whatever else is reported of
both agrees too (`QuotedKeys`); one that shares nothing fits neither of two requests
(`NothingFits`), and a correlation ID does not help it because both carry it.  Result:
`AnswersAreAttributed`.

*Probes* (`ProbesProofs`).  `OneProbeRuns` says once that a step keeps the probe and its
world and is one of that probe's own; each probe then has an invariant of its locals.
`DnsInv` follows the goroutine of a lookup: it holds one answer for each family it has
asked for and sends all of them or none, so what `Run` receives are the answers of both
(`ResolutionIsHonest` is about such a pair alone).  `ServiceInv` says of the lane that is
asked that it keeps its best attempt (`InProgress`) and of both that they tell their rank
(`Ranked`); `NotedKeepsBest` is the one step that matters, and it is the same for every
candidate, retry and transport.  `ProxyInv` says, for a source and the dials of its
endpoints, that its state is that of its settings until a dial fails and a failure from
then on (`Accounts`); only the end of the context can be the cause of a failure that no
endpoint explains.  `EnterpriseInv` says of every path, and of the one that is being
observed, that its endpoint was selected from the settings of its own source
(`ChosenFor`); that a well-formed list without a direct entry yields an endpoint of the
right scheme is a fact about `ProxyEndpointForURL` alone.  `EnterpriseIsFounded` then is
about `Findings` and its first entry that holds.  `ProxyAssumption` wants one endpoint
name at least, because a PAC may answer with one.  Results: `DnsConclusions`,
`ProxyConclusions`, `ProxiesAreConfigured`, `EnterpriseConclusions`.

*Time and answers of the probes* (`ProbesProofs`).  That an attempt had its whole share
is known when it ends, but whether it had one was settled by all attempts before it, so
each of the three invariants says how much time is left for those to come.
`EndpointInv` (tcp, ssh, rdp, smb, tls, http): while a probe waits for a peer, all
earlier candidates were tried and none answered, and the attempt ends by `TimeBound`,
the shares of the candidates so far; the shares of all are no more than the timeout
(`SharesAdd`), so the deadline of the run never cuts one short (`TimeHasEnd`).  A
refusal that is reported is one of the candidate named, because http only leaves its
chain of hosts after one that redirects, and tcp keeps what it found first
(`TellsOfFirst`); `SettleKeeps` is the one lemma about the end of an attempt and
`Tells` what each protocol must say for it.  `ServiceTimeInv` (dns_service): the budget
of a lane is never less than the attempts that it still has before it, each with its
part (`AttemptKeepsTime`), and what it asked is its attempts times the candidates that
have an address; so a lane that nobody stopped has heard a valid response or asked all.
`PathInv` (path): before each ttl and attempt there is time left, and only the last
attempt of all may use the rest (`RemainingAttempts`, `ShareOfAttempt`); so time runs
out at the last ttl.  That each hop observed is in a segment is `SegmentsCover`, which
takes the longest silence around a ttl by a least element instead of by recursion.
`DnsAssumption` and `PathAssumption` say that a timeout is a whole number of ticks, and
long enough for a tick per attempt.  Results: `TimeIsAlwaysShared`,
`AnswersAreAlwaysKept`.

Only model-checked: all liveness properties and `StopEndsAll`, which says `ENABLED`
(both are out of the prover's reach); `HistoryContiguous`' last conjunct, that a suffix
of the history is what a selection by number gives, and the sums of `PlanIsExact`
(recursion over data); the properties of `Report`, whose operators select from and
fold over sequences of results.

## 5. Not modelled

- Environment snapshot, interface and route tables, processes, the ETW decoding of
  bytes: operating-system calls without a decision a property is about.  The
  interface, DNS configuration, route and gateway probes appear in `Report` as their
  results.
- Target parsing, privacy redaction, JSON: character by character, without state.
- Web pages, view models, path graph, HTML and text reports, command line: output of
  what the report already decided.
- Reading operations without effect (`Get`, `Events`, `Wait`, `Report`) appear
  only through the state they return.
- Text everywhere: formatting, logging, labels, next steps, the strings of events.
- Contexts of callers: the web server starts sessions, batches and captures under
  `context.Background()`, so only the managers' own cancellations are modelled.
- In observations: timings, provenance, fault domains, firewall notes.

Assumptions of the models, beside the named `ASSUME`s:

- Packet backends do not panic in `Start`, as those in the repository do not; a
  panic there would leave `transportReady` open until the deadline.
- A TCB address is not reused within one capture; `stopNative` is one step; the
  method `probe_identity`, which no backend in the repository produces, is left out.
- `net/http`'s connections are external (`Deliver`); the `http` probe's pool is not shared.
- The proxy and enterprise probes have no clock: what they wait for is bounded by
  their own timeouts.  A PAC resolution gives one endpoint.
- A run uses one port.  The lanes a cancelled run gives up on are the last ones in
  job order.

## 6. Plan

What is left, most important first.

1. Theorems: `SuccessClears` and `ReachableMeansAnswered` of `Report`, which need what
   `SelectSeq` and `FlattenSeq` return for every sequence.
2. Composition of `PacketCapture` with `ProbePool`: the transport-ready channel of a
   probe whose capture starts late.
3. Composition of `EndpointProbes` and `DnsProbes` with `Report`: the results that a
   lane may file are stated in `Report` and could be those the probes return.
4. `CaptureToBatch`: `CaptureProxy`'s table, `BatchPlan` and `BatchManager` composed,
   with a selection made while handlers still record.
5. Route selection and the neighbour check of `internal/probe/route`, and the request
   admission of the web server.
