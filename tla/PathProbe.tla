------------------------------ MODULE PathProbe ------------------------------
(***************************************************************************)
(* The path probe (internal/probe/path): ICMP and TCP are observed at the  *)
(* same time, each in a goroutine that asks one TTL after the other, and   *)
(* several times each, until the destination answers.  All attempts divide *)
(* the time that is left.                                                  *)
(***************************************************************************)
EXTENDS ProbeRun

CONSTANTS
    PathTimeout,    \* the time of the whole lane, in ticks
    MaxTTL,         \* how far the probe looks
    PathAttempts    \* attempts for each TTL

ASSUME PathAssumption ==
    /\ MaxTTL \in Nat \ {0} /\ PathAttempts \in Nat \ {0} /\ PathTimeout \in Nat
    /\ PathTimeout >= MaxTTL * PathAttempts

Protocols == {"icmp", "tcp"}

\* What one attempt can bring: a router's answer, the destination's (a refusal is
\* one too, over tcp), nothing, or an observer that is not there or fails.
Observations(protocol) ==
    {"router", "reached", "silence", "unsupported", "error"}
    \cup (IF protocol = "tcp" THEN {"refused"} ELSE {})

\* ttl, attempt: what is asked next; at: "next", "observing" or "done"; until: the
\* deadline of the attempt; here: who answered at this ttl; hops: the earlier ones.
NoHop == [responders |-> {}, state |-> "unobservable"]

ProtocolLane == [ttl |-> 1, attempt |-> 0, at |-> "next", until |-> 0, here |-> {},
                 hops |-> <<>>, status |-> "observed", reached |-> FALSE, connected |-> FALSE, late |-> FALSE]

PathInit ==
    Begins("path", [valid : BOOLEAN], [icmp |-> ProtocolLane, tcp |-> ProtocolLane])

PathResult(status, reason, layer) ==
    Result(status, reason, layer, IF layer = "icmp" THEN "icmp" ELSE "network", 0)

PathOver == ctx # "live" \/ clock >= PathTimeout

PathBegins ==
    /\ probe = "path" /\ pc = "start" /\ UNCHANGED clock
    /\ \/ ~world.valid /\ Return(PathResult("error", "path_observation_failure", "network"), work)
       \/ world.valid /\ ctx # "live" /\
             Return(PathResult("error", "path_cancellation", "network"), work)
       \/ world.valid /\ ctx = "live" /\ Continue("observing", work)

-----------------------------------------------------------------------------
OnLane(p, lane) == Continue("observing", [work EXCEPT ![p] = lane]) /\ UNCHANGED clock

\* remainingAttempts and attemptContext: an equal share of what is left, so that the
\* last attempt has all of it.
Remaining(lane) == (MaxTTL - lane.ttl + 1) * PathAttempts - lane.attempt

\* Faulty variant: the first attempt may use all the time.
AttemptUntil_Whole(lane) == PathTimeout

AttemptUntil(lane) == clock + (PathTimeout - clock) \div Remaining(lane)

Hop(here) == [responders |-> here, state |-> IF here = {} THEN "unobservable" ELSE "observed"]

Hops(lane, here) == Append(lane.hops, Hop(here))

\* The attempts of a ttl go on, also when the destination has answered; then the
\* next ttl, unless the destination was reached or this was the last.
NextStep(lane, here) ==
    IF lane.attempt + 1 < PathAttempts
    THEN [lane EXCEPT !.attempt = @ + 1, !.here = here, !.at = "next"]
    ELSE [lane EXCEPT !.attempt = 0, !.here = {}, !.hops = Hops(lane, here), !.ttl = @ + 1,
                      !.at = IF lane.reached \/ lane.ttl = MaxTTL THEN "done" ELSE "next"]

\* An error ends the lane: the hop it was at is appended as it began, with who had
\* answered but without the state that this gives it.
Breaks(lane) == [lane EXCEPT !.status = "error", !.at = "done", !.late = PathOver,
                             !.hops = Append(@, [responders |-> lane.here, state |-> "unobservable"])]

PathAttempt(p) ==
    /\ probe = "path" /\ pc = "observing" /\ work[p].at = "next"
    /\ LET lane == work[p] IN
       OnLane(p, IF PathOver THEN Breaks(lane)
                 ELSE [lane EXCEPT !.at = "observing", !.until = AttemptUntil(lane)])

AfterAttempt(lane, observation) ==
    LET reached == observation \in {"reached", "refused"} IN
    NextStep([lane EXCEPT !.reached = @ \/ reached, !.connected = @ \/ observation = "reached"],
             lane.here \cup (CASE observation = "router" -> {"router"}
                               [] reached -> {"destination"}
                               [] OTHER -> {}))

\* observeAttemptBounded: the observer returns, or the attempt's context ends first.
\* That is a silent hop, unless the time of the whole lane is over with it.
PathObserves(p) ==
    /\ probe = "path" /\ pc = "observing" /\ work[p].at = "observing"
    /\ LET lane == work[p] IN
       \/ \E observation \in Observations(p) :
             OnLane(p, CASE observation = "error"       -> Breaks(lane)
                         [] observation = "unsupported" -> [lane EXCEPT !.status = "unsupported", !.at = "done"]
                         [] OTHER -> AfterAttempt(lane, observation))
       \/ PathOver /\ OnLane(p, Breaks(lane))
       \/ ~PathOver /\ clock >= lane.until /\ OnLane(p, AfterAttempt(lane, "silence"))

\* A tick in which nothing is due.
PathWaits ==
    /\ probe = "path" /\ pc = "observing"
    /\ \E p \in Protocols : work[p].at # "done"
    /\ \A p \in Protocols : work[p].at # "done" => work[p].at = "observing" /\ clock < work[p].until
    /\ clock' = clock + 1 /\ Continue("observing", work)

Observed(p) == work[p].status = "observed"

\* pathLayer.
PathLayer ==
    CASE Observed("tcp") /\ work["tcp"].connected -> "tcp"
      [] ~(Observed("tcp") /\ work["tcp"].connected)
         /\ (work["icmp"].status = "unsupported" \/ (Observed("icmp") /\ work["icmp"].reached)) -> "icmp"
      [] OTHER -> "network"

\* Faulty variant: a protocol that failed fails the probe.
PathVerdict_All ==
    IF \A p \in Protocols : Observed(p) THEN PathResult("passed", "none", PathLayer)
    ELSE PathResult("error", "path_observation_failure", "network")

\* One protocol that could be observed is enough.
PathVerdict ==
    CASE \E p \in Protocols : Observed(p) -> PathResult("passed", "none", PathLayer)
      [] \A p \in Protocols : work[p].status = "unsupported" ->
            PathResult("error", "unsupported", PathLayer)
      [] OTHER -> PathResult("error", IF PathOver THEN "path_cancellation" ELSE "path_observation_failure",
                             "network")

\* wg.Wait: both goroutines have returned.
PathJoins ==
    /\ probe = "path" /\ pc = "observing" /\ \A p \in Protocols : work[p].at = "done"
    /\ Return(PathVerdict, work) /\ UNCHANGED clock

PathNext ==
    PathBegins \/ PathWaits \/ PathJoins \/ \E p \in Protocols : PathAttempt(p) \/ PathObserves(p)

-----------------------------------------------------------------------------
(* buildSegments: the hops summed up in runs, and what lies between two     *)
(* hops that were observed.                                                 *)
Segments(hops) ==
    LET seen(t) == hops[t].state = "observed" /\ hops[t].responders # {}
        T == DOMAIN hops
        silent(a, b) == \A t \in a..b : ~seen(t)
    IN  {[kind |-> "observed_responder", from |-> t, to |-> t] : t \in {u \in T : seen(u)}}
        \cup {[kind |-> "unobservable", from |-> s[1], to |-> s[2]] :
                s \in {r \in T \X T : /\ r[1] <= r[2] /\ silent(r[1], r[2])
                                      /\ r[1] = 1 \/ seen(r[1] - 1)
                                      /\ r[2] = Len(hops) \/ seen(r[2] + 1)}}
        \cup {[kind |-> "inferred", from |-> s[1], to |-> s[2]] :
                s \in {r \in T \X T : /\ r[1] + 1 < r[2] /\ seen(r[1]) /\ seen(r[2])
                                      /\ silent(r[1] + 1, r[2] - 1)}}

-----------------------------------------------------------------------------
PathRan == probe = "path" /\ Done /\ work["icmp"].at = "done"

\* A path that could be observed by one protocol is not hidden by the failure of the
\* other; its hops are all the ttls up to the destination or the last, silent ones
\* included; and the layer says tcp only for a connection that was made (refusals
\* reach the destination and connect nothing).
PathIsKept ==
    PathRan =>
        /\ (\E p \in Protocols : Observed(p)) <=> result.status = "passed"
        /\ \A p \in Protocols :
             Observed(p) =>
                /\ Len(work[p].hops) = MaxTTL \/ work[p].reached
                /\ work[p].reached <=> "destination" \in work[p].hops[Len(work[p].hops)].responders
                /\ \A t \in DOMAIN work[p].hops :
                     \E s \in Segments(work[p].hops) : s.kind # "inferred" /\ t \in s.from..s.to
        /\ result.layer = "tcp" => work["tcp"].connected /\ Observed("tcp")

\* No attempt takes the time of the later ones: when nobody stopped the run, a lane
\* that ran out of time did so at the last ttl, whatever was silent before it.
PathSharesTime ==
    probe = "path" =>
        /\ clock <= PathTimeout
        /\ ctx = "live" => \A p \in Protocols : work[p].late => Len(work[p].hops) = MaxTTL
=============================================================================
