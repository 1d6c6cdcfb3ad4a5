------------------------------ MODULE BatchPlan ------------------------------
(***************************************************************************)
(* BuildPlan (internal/batch/plan.go): a browser capture becomes a work    *)
(* list of service endpoints.  The loop takes one destination and          *)
(* mechanism at a time; then the entries, in the arbitrary order of a Go   *)
(* map, are sorted and numbered.                                           *)
(*                                                                         *)
(* A name stands for a host string, ordered like the strings; Canon is     *)
(* what model.ParseTarget makes of it, and None where it fails.            *)
(***************************************************************************)
EXTENDS Integers, Sequences, FiniteSets, SequencesExt, TLC

CONSTANTS
    Captures,  \* lists of destinations, in the order observationLocked gives them
    Requests,  \* selections
    Canon      \* from names to canonical names, or to None

None == 0

\* Names are positive numbers and a canonical name stays as it is.
ASSUME NameAssumption ==
    \A h \in DOMAIN Canon :
        /\ h \in Nat \ {None}
        /\ Canon[h] \in Nat
        /\ Canon[h] # None => Canon[h] \in DOMAIN Canon /\ Canon[Canon[h]] = Canon[h]

\* A destination of a capture report: its counters are unsigned.
Destination == [host : DOMAIN Canon, port : Nat, mechanism : STRING, mechanisms : Seq(STRING),
                outcome : STRING, successes : Nat, failures : Nat]

ASSUME CaptureAssumption == Captures \subseteq Seq(Destination)

\* A selection that normalizeSelection has accepted.
ASSUME RequestAssumption ==
    \A r \in Requests :
        /\ r.selection \in {"all", "failed_only", "selected"}
        /\ \A sel \in r.selected : sel.kind \in {"name", "authority", "service", "id"}

VARIABLES
    capture,  \* captureReport
    request,  \* the selection and its selectors
    next,     \* the destination of the outer loop
    mech,     \* the index of its mechanism in the inner loop
    entries,  \* the map from keys to accumulated entries
    plan,     \* result.Entries, numbered by position
    result    \* working, planned, or ErrEmptyValidationPlan

vars == <<capture, request, next, mech, entries, plan, result>>

-----------------------------------------------------------------------------
(* Destinations and entries.                                               *)

\* Services are ordered as their identifiers are: none, http, https.
Service(m) ==
    CASE m = "plain_http" -> 1
      [] m = "CONNECT"    -> 2
      [] OTHER            -> 0

\* destinationMechanisms: the first mechanism and the others, each once.
DestinationMechanisms(d) ==
    LET Add(ms, m) == IF m = "" \/ m \in ToSet(ms) THEN ms ELSE Append(ms, m)
        all        == FoldLeft(Add, <<>>, <<d.mechanism>> \o d.mechanisms)
    IN  IF all = <<>> THEN <<"">> ELSE all

\* Counters and reasons of a capture agree, so that a failure without a count
\* is one whose outcome says so.
CaptureFailed(d) == d.failures > 0 \/ d.outcome # "connected"

\* An entry whose mechanism or target is not supported keeps the captured name.
Identity(d, m) ==
    IF Service(m) = 0 \/ Canon[d.host] = None THEN d.host ELSE Canon[d.host]

PlanEntryForDestination(d, m) ==
    [identity    |-> Identity(d, m),
     service     |-> Service(m),
     port        |-> d.port,
     unsupported |-> Service(m) = 0 \/ Canon[d.host] = None,
     failed      |-> CaptureFailed(d),
     outcome     |-> d.outcome,
     successes   |-> 0,
     failures    |-> 0]

Key(e) == <<e.identity, e.service, e.port>>

\* Faulty variant: the last observation decides.
MergeCaptureOutcome_Last(left, right) == right

MergeCaptureOutcome(left, right) ==
    CASE left = ""     -> right
      [] right = ""    -> left
      [] left = right  -> left
      [] OTHER         -> "mixed"

MergePlanEntry(e, d) ==
    [e EXCEPT !.successes = @ + d.successes,
              !.failures  = @ + d.failures,
              !.failed    = @ \/ (e.failures + d.failures > 0) \/ CaptureFailed(d),
              !.outcome   = MergeCaptureOutcome(@, d.outcome)]

\* A selector is a name, an authority, a service identity or a plan ID.  The
\* entries have no ID yet when they are selected.
SelectorMatches(e, sel) ==
    CASE sel.kind = "name"      -> sel.name = e.identity
      [] sel.kind = "authority" -> sel.name = e.identity /\ sel.port = e.port
      [] sel.kind = "service"   -> <<sel.name, sel.service, sel.port>> = Key(e)
      [] sel.kind = "id"        -> FALSE

SelectedDestination(e) ==
    CASE request.selection = "all"         -> TRUE
      [] request.selection = "failed_only" -> e.failed
      [] request.selection = "selected"    -> \E sel \in request.selected : SelectorMatches(e, sel)

\* Faulty variant: the port is left out of the order.
Less_NoPort(a, b) ==
    \/ a[1] < b[1]
    \/ a[1] = b[1] /\ a[2] < b[2]

\* The order of the plan, on keys.
Less(a, b) ==
    \/ a[1] < b[1]
    \/ a[1] = b[1] /\ a[2] < b[2]
    \/ a[1] = b[1] /\ a[2] = b[2] /\ a[3] < b[3]

-----------------------------------------------------------------------------
Init ==
    /\ capture \in Captures
    /\ request \in Requests
    /\ next = 1
    /\ mech = 1
    /\ entries = <<>>
    /\ plan = <<>>
    /\ result = "working"

\* One iteration of the inner loop.
Take ==
    /\ next \in DOMAIN capture
    /\ LET d    == capture[next]
           ms   == DestinationMechanisms(d)
           new  == PlanEntryForDestination(d, ms[mech])
           old  == IF Key(new) \in DOMAIN entries THEN entries[Key(new)] ELSE new
       IN  /\ entries' = IF SelectedDestination(new)
                         THEN [k \in DOMAIN entries \cup {Key(new)} |->
                                 IF k = Key(new) THEN MergePlanEntry(old, d) ELSE entries[k]]
                         ELSE entries
           /\ IF mech < Len(ms)
              THEN mech' = mech + 1 /\ next' = next
              ELSE mech' = 1 /\ next' = next + 1
    /\ UNCHANGED <<capture, request, plan, result>>

\* Sorting, from whatever order the map is read in, and numbering.
Number ==
    /\ next > Len(capture)
    /\ result = "working"
    /\ entries # <<>>
    /\ \E order \in SetToSeqs(DOMAIN entries) :
         /\ \A i \in 1..(Len(order) - 1) : ~Less(order[i + 1], order[i])
         /\ plan' = [i \in 1..Len(order) |-> entries[order[i]]]
    /\ result' = "planned"
    /\ UNCHANGED <<capture, request, next, mech, entries>>

NothingPlanned ==
    /\ next > Len(capture)
    /\ result = "working"
    /\ entries = <<>>
    /\ result' = "ErrEmptyValidationPlan"
    /\ UNCHANGED <<capture, request, next, mech, entries, plan>>

Next == Take \/ Number \/ NothingPlanned

Spec == Init /\ [][Next]_vars

-----------------------------------------------------------------------------
(* Properties.                                                             *)

Outcomes == {"connected", "failed", "mixed", "dns_failed", "proxy_rejected", "unsupported", "unknown"}

Entry == [identity : DOMAIN Canon, service : 0..2, port : Nat, unsupported : BOOLEAN,
          failed : BOOLEAN, outcome : Outcomes, successes : Nat, failures : Nat]

\* Every variable BuildPlan assigns has its type: an entry is filed under its
\* own key, and every entry has an identity.
TypeOK ==
    /\ next \in 1..(Len(capture) + 1)
    /\ next \in DOMAIN capture => mech \in DOMAIN DestinationMechanisms(capture[next])
    /\ \A k \in DOMAIN entries : entries[k] \in Entry /\ Key(entries[k]) = k
    /\ \A i \in DOMAIN plan : plan[i] \in Entry
    /\ result \in {"working", "planned", "ErrEmptyValidationPlan"}

\* The IDs of a plan do not depend on the order of a Go map: no two entries of
\* it are equal in the order they are sorted by, unsupported ones included.
NumberingIsDeterministic ==
    \A i \in 1..(Len(plan) - 1) : Less(Key(plan[i]), Key(plan[i + 1]))

\* Every observation of a capture, one for each mechanism of a destination.
Items(c) ==
    LET Of(d) == [i \in 1..Len(DestinationMechanisms(d)) |->
                    [dest |-> d, mechanism |-> DestinationMechanisms(d)[i]]]
    IN  FlattenSeq([i \in 1..Len(c) |-> Of(c[i])])

\* The iterations whose observation the request asks for, by its documented
\* meaning, plan IDs left aside.
Wanted(item) ==
    LET name == Identity(item.dest, item.mechanism) IN
    \/ request.selection = "all"
    \/ request.selection = "failed_only" /\ CaptureFailed(item.dest)
    \/ /\ request.selection = "selected"
       /\ \E sel \in request.selected :
            /\ sel.kind # "id" /\ sel.name = name
            /\ sel.kind \in {"authority", "service"} => sel.port = item.dest.port
            /\ sel.kind = "service" => sel.service = Service(item.mechanism)

\* The plan is what the capture and the request call for: each wanted
\* observation is counted in exactly one entry, the one of its service
\* endpoint, no entry counts anything else, a captured failure is never hidden
\* by a success, and nothing wanted means an error instead of an empty plan.
PlanIsExact ==
    result # "working" =>
        LET items  == Items(capture)
            wanted == {i \in 1..Len(items) : Wanted(items[i])}
            key(i) == Key(PlanEntryForDestination(items[i].dest, items[i].mechanism))
        IN
        /\ result = "planned" <=> wanted # {}
        /\ {Key(plan[p]) : p \in DOMAIN plan} = {key(i) : i \in wanted}
        /\ \A p \in DOMAIN plan :
             LET mine == {i \in wanted : key(i) = Key(plan[p])}
                 outs == {items[i].dest.outcome : i \in mine}
             IN
             /\ plan[p].successes = MapThenSumSet(LAMBDA i : items[i].dest.successes, mine)
             /\ plan[p].failures = MapThenSumSet(LAMBDA i : items[i].dest.failures, mine)
             /\ plan[p].failed <=> \E i \in mine : CaptureFailed(items[i].dest)
             /\ plan[p].outcome = IF Cardinality(outs) = 1 THEN CHOOSE o \in outs : TRUE ELSE "mixed"

\* "Selected values may be plan IDs": the ID of an endpoint the capture does
\* contain is never answered with an empty plan (plan.go:30-33).
IdSelectsEntry ==
    LET endpoints == {Key(PlanEntryForDestination(Items(capture)[i].dest, Items(capture)[i].mechanism)) :
                        i \in 1..Len(Items(capture))}
    IN  result = "ErrEmptyValidationPlan" =>
            ~\E sel \in request.selected : sel.kind = "id" /\ sel.id \in 1..Cardinality(endpoints)
=============================================================================
