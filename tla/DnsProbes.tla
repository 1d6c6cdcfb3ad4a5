------------------------------ MODULE DnsProbes ------------------------------
(***************************************************************************)
(* The two probes of internal/probe/dns.  dns reads the configuration of   *)
(* the resolver and looks the name up, once for each address family; each  *)
(* of its steps runs in a goroutine that the probe may abandon.            *)
(* dns_service asks the target itself one diagnostic question, over UDP    *)
(* and then over TCP, with retries, each lane within its half of the time. *)
(***************************************************************************)
EXTENDS ProbeRun

CONSTANTS
    DnsTimeout,       \* the timeout of a dns probe, in ticks
    ServiceHosts,     \* bound on the candidates of a dns_service probe
    ServiceTimeout,   \* its timeout, in ticks
    Retries           \* retries after the first attempt (at most maxServiceRetries)

ASSUME DnsAssumption ==
    /\ DnsTimeout \in Nat \ {0} /\ ServiceHosts \in Nat \ {0} /\ Retries \in 0..2
    /\ ServiceTimeout \in Nat /\ ServiceTimeout >= 2 * ServiceHosts * (Retries + 1)

Families == <<"A", "AAAA">>

\* What a resolver says of one family; all but the first two are errors.
Answers == {"addresses", "empty", "not_found", "no_answer", "timeout", "resolver_failure"}

DnsWorlds ==
    [target : {"name"}, config : {"servers", "none", "fails"}, A : Answers, AAAA : Answers]
    \cup [target : {"malformed", "literal"}, config : {"none"}, A : {"empty"}, AAAA : {"empty"}]

\* helper: how far the lookup's goroutine is, answers: what it has, sent: the
\* channel of the lookup, received: what Run took from it.
DnsWork == [helper |-> 0, answers |-> <<>>, sent |-> <<>>, received |-> <<>>]

DnsInit == Begins("dns", DnsWorlds, DnsWork)

-----------------------------------------------------------------------------
\* lookupCtx, the time that the environment, the configuration and the lookup share.
LookupOver == ctx # "live" \/ clock >= DnsTimeout

DnsResult(status, reason, about) == Result(status, reason, "dns", "dns", about)

ContextReason == IF ctx = "cancelled" THEN "dns_resolver_failure" ELSE "dns_timeout"

Stays == UNCHANGED clock

DnsBegins ==
    /\ probe = "dns" /\ pc = "start" /\ Stays
    /\ \/ world.target = "malformed" /\ Return(DnsResult("error", "probe_execution_failure", 0), work)
       \/ world.target = "literal" /\ Return(DnsResult("passed", "none", 1), work)
       \/ world.target = "name" /\ Continue("environment", work)

DnsWaits ==
    /\ probe = "dns" /\ pc \in {"environment", "config", "lookup"} /\ ~LookupOver
    /\ clock' = clock + 1 /\ Continue(pc, work)

\* environmentBounded: it may fail or be given up, the probe goes on without it.
DnsEnvironment ==
    probe = "dns" /\ pc = "environment" /\ Continue("config", work) /\ Stays

\* configAddressesBounded: the providers return, or the context ends first.  A
\* cancellation is an error when the wait is given up, and a failure when it is
\* seen after the provider has returned.
DnsConfig ==
    /\ probe = "dns" /\ pc = "config" /\ Stays
    /\ \/ /\ LookupOver
          /\ Return(DnsResult(IF ctx = "cancelled" THEN "error" ELSE "failed", ContextReason, 0), work)
       \/ /\ world.config = "fails" /\ \E kind \in {"timeout", "resolver_failure"} :
             Return(IF kind = "timeout" THEN DnsResult("failed", "dns_timeout", 0)
                    ELSE DnsResult("error", "dns_resolver_failure", 0), work)
       \/ /\ world.config # "fails" /\ LookupOver
          /\ Return(DnsResult("failed", ContextReason, 0), work)
       \/ /\ world.config = "none" /\ ~LookupOver
          /\ Return(DnsResult("error", "dns_resolver_failure", 0), work)
       \/ /\ world.config = "servers" /\ ~LookupOver
          /\ Continue("lookup", [work EXCEPT !.helper = 1])

-----------------------------------------------------------------------------
\* lookupHost, in a goroutine of its own: it asks for one family and then the
\* other.  A resolver returns in the end, with the answer or with the error of
\* the context that ended, perhaps long after the probe is gone.
DnsAnswer ==
    /\ probe = "dns" /\ work.helper \in DOMAIN Families
    /\ \E answer \in {world[Families[work.helper]]}
                     \cup (IF LookupOver THEN {IF ctx = "cancelled" THEN "resolver_failure" ELSE "timeout"}
                           ELSE {}) :
         work' = [work EXCEPT !.helper = @ + 1, !.answers = Append(@, answer)]
    /\ UNCHANGED <<probe, world, pc, ctx, clock, result>>

\* Faulty variant: the channel has no buffer, so the goroutine waits for Run.
SendsTo_Unbuffered == pc = "lookup"

\* The channel holds one value, whoever is there to take it.
SendsTo == work.sent = <<>>

DnsSends ==
    /\ probe = "dns" /\ work.helper = 3 /\ SendsTo
    /\ work' = [work EXCEPT !.helper = 4, !.sent = work.answers]
    /\ UNCHANGED <<probe, world, pc, ctx, clock, result>>

\* The address that is reported: the first of A, else the first of AAAA.
Selected(answers) ==
    CASE "addresses" \notin ToSet(answers) -> 0
      [] OTHER -> IF answers[1] = "addresses" THEN 1 ELSE 2

Failures(answers) == ToSet(answers) \ {"addresses", "empty"}

\* Faulty variant: one family without the name is taken for NXDOMAIN.
ResolutionStatus_AnyFamily(answers) ==
    CASE Failures(answers) = {} /\ Selected(answers) = 0 -> DnsResult("failed", "dns_no_answer", 0)
      [] "timeout" \in Failures(answers) -> DnsResult("failed", "dns_timeout", Selected(answers))
      [] "not_found" \in Failures(answers) -> DnsResult("failed", "dns_nxdomain", Selected(answers))
      [] OTHER -> DnsResult("passed", "none", Selected(answers))

\* resolutionStatus: a timeout or another failure of the resolver decides even when
\* the other family has answered, a negative answer only when none has.
ResolutionStatus(answers) ==
    LET failures == Failures(answers)
        selected == Selected(answers)
        Says(status, reason) == DnsResult(status, reason, selected)
    IN  CASE "timeout" \in failures -> Says("failed", "dns_timeout")
          [] "timeout" \notin failures /\ "resolver_failure" \in failures ->
                Says("failed", "dns_resolver_failure")
          [] failures \subseteq {"not_found", "no_answer"} /\ selected # 0 -> Says("passed", "none")
          [] failures = {"not_found"} /\ selected = 0 -> Says("failed", "dns_nxdomain")
          [] failures \in {{}, {"no_answer"}, {"not_found", "no_answer"}} /\ selected = 0 ->
                Says("failed", "dns_no_answer")

DnsReceives ==
    /\ probe = "dns" /\ pc = "lookup" /\ work.sent # <<>> /\ Stays
    /\ Return(ResolutionStatus(work.sent), [work EXCEPT !.received = work.sent])

\* The context ended: what the goroutine may still find is lost.
DnsGivesUp ==
    /\ probe = "dns" /\ pc = "lookup" /\ LookupOver /\ Stays
    /\ Return(DnsResult("failed", ContextReason, 0), work)

DnsNext ==
    \/ DnsBegins \/ DnsWaits \/ DnsEnvironment \/ DnsConfig
    \/ DnsAnswer \/ DnsSends \/ DnsReceives \/ DnsGivesUp

-----------------------------------------------------------------------------
(* dns_service.  A candidate is an address, or a name that was never        *)
(* resolved.  What comes back is chosen at each attempt, as a datagram may  *)
(* be lost and a retry may find what the first attempt did not.             *)
ServiceWorlds == [hosts : UNION {[1..n -> {"address", "unresolved"}] : n \in 0..ServiceHosts}]

\* Answers of one rank make no difference: success stands for a negative response
\* too, refused for SERVFAIL and for a foreign answer, malformed for truncated.
Valid    == {"success"}
Answered == {"refused", "malformed_response"}

\* What a lane reports, how often it has asked, and the highest rank it has met.
NoLane == [outcome |-> "unknown", asked |-> 0, top |-> 0]

\* lane: the transport, at: the candidate, retry: its attempts so far, left and
\* budget: the ticks of the attempt and of the lane, udp and tcp: what the lanes found.
ServiceWork == [lane |-> "udp", at |-> 0, retry |-> 0, left |-> 0, budget |-> 0,
                udp |-> NoLane, tcp |-> NoLane]

ServiceInit == Begins("dns_service", ServiceWorlds, ServiceWork)

HostCount     == Len(world.hosts)
Attempts   == Retries + 1
LaneBudget == ServiceTimeout \div 2

\* Faulty variant: an attempt may use all the time of its lane.
AttemptBudget_Lane == LaneBudget

AttemptBudget == LaneBudget \div (HostCount * Attempts)

ServiceResult(status, reason) == Result(status, reason, "dns", "dns", 0)

ServiceOver == ctx # "live" \/ clock >= ServiceTimeout
LaneOver    == ServiceOver \/ work.budget = 0

\* serviceAttemptRank.
Rank(outcome) ==
    CASE outcome = "refused"            -> 5
      [] outcome = "malformed_response" -> 4
      [] outcome = "timeout"            -> 3
      [] outcome = "transport_failure"  -> 2
      [] outcome = "cancellation"       -> 1
      [] OTHER                          -> 0

\* Faulty variant: the lane keeps its last attempt.
Better_Last(old, new) == new

\* The attempt that the evidence of a lane is about.
Better(old, new) == IF old = "unknown" \/ Rank(new) > Rank(old) THEN new ELSE old

Lane == work[work.lane]

Noted(outcome, asked) ==
    [outcome |-> IF outcome \in Valid THEN outcome ELSE Better(Lane.outcome, outcome),
     asked   |-> Lane.asked + asked,
     top     |-> LET rank == IF outcome \in Valid THEN 6 ELSE Rank(outcome)
                 IN  IF rank > Lane.top THEN rank ELSE Lane.top]

ServiceBegins ==
    /\ probe = "dns_service" /\ pc = "start" /\ Stays
    /\ \/ HostCount = 0 /\ Return(ServiceResult("error", "dns_service_no_resolved_endpoint"), work)
       \/ /\ HostCount # 0 /\ ctx = "cancelled"
          /\ Return(ServiceResult("error", "dns_service_cancellation"), work)
       \/ /\ HostCount # 0 /\ ctx = "deadline"
          /\ Return(ServiceResult("error", "dns_service_timeout"), work)
       \/ HostCount # 0 /\ ctx = "live" /\ Continue("lane", work)

\* runTransport: a context that is over, by its deadline too, is a cancellation.
ServiceLane ==
    /\ probe = "dns_service" /\ pc = "lane" /\ Stays
    /\ IF ServiceOver
       THEN Continue("lane_ends", [work EXCEPT ![work.lane].outcome = "cancellation"])
       ELSE Continue("attempt", [work EXCEPT !.at = 1, !.retry = 0, !.budget = LaneBudget])

\* An attempt has failed, or found a valid response, which ends the lane.
NextAttempt(outcome, asked, skip) ==
    LET noted == [work EXCEPT ![work.lane] = Noted(outcome, asked)]
    IN  IF outcome \in Valid THEN Continue("lane_ends", noted)
        ELSE IF skip \/ work.retry = Retries
        THEN Continue("attempt", [noted EXCEPT !.at = @ + 1, !.retry = 0])
        ELSE Continue("attempt", [noted EXCEPT !.retry = @ + 1])

ServiceAttempt ==
    /\ probe = "dns_service" /\ pc = "attempt" /\ Stays
    /\ \/ work.at > HostCount /\ Continue("lane_ends", work)
       \/ /\ work.at <= HostCount /\ world.hosts[work.at] = "unresolved"
          /\ NextAttempt("transport_failure", 0, TRUE)
       \/ /\ work.at <= HostCount /\ world.hosts[work.at] = "address" /\ LaneOver
          /\ NextAttempt(IF ctx = "cancelled" THEN "cancellation" ELSE "timeout", 0, TRUE)
       \/ /\ work.at <= HostCount /\ world.hosts[work.at] = "address" /\ ~LaneOver
          /\ Continue("dialing", [work EXCEPT !.left = AttemptBudget])

ServiceWaits ==
    /\ probe = "dns_service" /\ pc \in {"dialing", "reading"}
    /\ work.left > 0 /\ work.budget > 0 /\ clock < ServiceTimeout
    /\ clock' = clock + 1
    /\ Continue(pc, [work EXCEPT !.left = @ - 1, !.budget = @ - 1])

AttemptOver == work.left = 0 \/ work.budget = 0 \/ clock >= ServiceTimeout \/ ctx = "deadline"

ServiceDials ==
    /\ probe = "dns_service" /\ pc = "dialing" /\ Stays
    /\ \/ ctx = "live" /\ Continue("reading", work)
       \/ ctx = "live" /\ NextAttempt("transport_failure", 1, FALSE)
       \/ AttemptOver /\ NextAttempt("timeout", 1, FALSE)
       \/ ctx = "cancelled" /\ NextAttempt("cancellation", 1, FALSE)

\* The query is written and an answer read and parsed (parseDiagnosticResponse): the
\* deadline of the connection ends the wait, a cancellation does not.
ServiceReads ==
    /\ probe = "dns_service" /\ pc = "reading" /\ Stays
    /\ \/ \E answer \in Valid \cup Answered \cup {"transport_failure"} : NextAttempt(answer, 1, FALSE)
       \/ AttemptOver /\ NextAttempt("timeout", 1, FALSE)

Succeeds(lane) == work[lane].outcome \in Valid

\* The tcp lane is asked whatever the udp lane found; either is enough to pass.
ServiceLaneEnds ==
    /\ probe = "dns_service" /\ pc = "lane_ends" /\ Stays
    /\ \/ work.lane = "udp" /\ Continue("lane", [work EXCEPT !.lane = "tcp"])
       \/ /\ work.lane = "tcp" /\ (Succeeds("udp") \/ Succeeds("tcp"))
          /\ Return(ServiceResult("passed", "none"), work)
       \/ /\ work.lane = "tcp" /\ ~Succeeds("udp") /\ ~Succeeds("tcp")
          /\ Return(ServiceResult(
                 IF work.udp.outcome = "cancellation" /\ work.tcp.outcome = "cancellation"
                 THEN "error" ELSE "failed", work.udp.outcome), work)

ServiceNext ==
    ServiceBegins \/ ServiceLane \/ ServiceAttempt \/ ServiceWaits \/ ServiceDials \/ ServiceReads
        \/ ServiceLaneEnds

-----------------------------------------------------------------------------
\* A name is called passed, missing or without an answer only by a lookup that was
\* taken from its goroutine, and the negative answer of one family hides nothing of
\* the other ("A name-not-found result for one address family is normal when the
\* other family has answers"); an address that is reported was answered.
LookupIsHonest ==
    probe = "dns" /\ Done /\ world.target = "name" =>
        /\ result.status = "passed" \/ result.reason \in {"dns_nxdomain", "dns_no_answer"} =>
             work.received # <<>>
        /\ result.about # 0 => work.received[result.about] = "addresses"
        /\ result.reason \in {"dns_nxdomain", "dns_no_answer"} =>
             /\ "addresses" \notin ToSet(work.received)
             /\ Failures(work.received) \subseteq {"not_found", "no_answer"}
        /\ work.received # <<>> /\ Failures(work.received) \subseteq {"not_found", "no_answer"} =>
             (result.status = "passed" <=> "addresses" \in ToSet(work.received))

\* Whoever is silent takes no time from another candidate, retry or transport: when
\* nobody stopped the run, each lane without a valid response has asked every
\* candidate that has an address as often as it may, and all of it within the time.
LanesShareTime ==
    probe = "dns_service" =>
        /\ clock <= ServiceTimeout
        /\ Done /\ ctx = "live" =>
             \A lane \in {"udp", "tcp"} :
                 ~Succeeds(lane) =>
                     work[lane].asked =
                         Attempts * Cardinality({i \in 1..HostCount : world.hosts[i] = "address"})

\* What a lane reports is the most telling of all it has seen, and the probe passes
\* exactly when a valid response came back over some transport.
ServiceIsHonest ==
    probe = "dns_service" /\ Done /\ work.udp.outcome # "unknown" =>
        /\ \A lane \in {"udp", "tcp"} :
             work[lane].top = 6 <=> Succeeds(lane)
        /\ \A lane \in {"udp", "tcp"} :
             work[lane].top \in 1..5 => Rank(work[lane].outcome) = work[lane].top
        /\ result.status = "passed" <=> 6 \in {work.udp.top, work.tcp.top}
=============================================================================
