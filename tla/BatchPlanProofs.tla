--------------------------- MODULE BatchPlanProofs ---------------------------
(***************************************************************************)
(* The numbering of a plan is a function of the plan's contents: for every *)
(* capture, selection and canonical naming, the sort leaves no two entries *)
(* in an order that the map could have chosen.  And the plan is what the   *)
(* capture and the request call for: the keys of its entries are those of  *)
(* the wanted observations, and each entry tells whether one of its own    *)
(* failed and which outcome they agree on.                                 *)
(***************************************************************************)
EXTENDS BatchPlan, FiniteSetTheorems, FunctionTheorems, TLAPS

Keys == Nat \X (0..2) \X Nat

KeyFields == {"identity", "service", "port"}

\* The map is finite and files every entry under its key, and a plan is listed
\* in the order of the keys.
IInv ==
    /\ capture \in Captures
    /\ IsFiniteSet(DOMAIN entries)
    /\ DOMAIN entries \subseteq Keys
    /\ \A k \in DOMAIN entries : Key(entries[k]) = k /\ KeyFields \subseteq DOMAIN entries[k]
    /\ NumberingIsDeterministic

-----------------------------------------------------------------------------
(* The entries of a capture have keys that can be compared.                *)

\* A capture is a list of destinations.
LEMMA CapturedDestination ==
    ASSUME NEW c \in Captures
    PROVE  c \in Seq(Destination) /\ \A i \in DOMAIN c : c[i] \in Destination
<1>1. c \in Seq(Destination)
    BY CaptureAssumption
<1> QED
    BY <1>1

\* The name, service and port of an entry come from the destination and the
\* mechanism (planEntryForDestination).
LEMMA EntryKey ==
    ASSUME NEW c \in Captures, NEW i \in DOMAIN c, NEW m
    PROVE  Key(PlanEntryForDestination(c[i], m)) \in Keys
<1> DEFINE d == c[i]
<1>1. d.host \in DOMAIN Canon /\ d.port \in Nat
    BY CapturedDestination DEF Destination
<1>2. d.host \in Nat /\ Canon[d.host] \in Nat
    BY <1>1, NameAssumption
<1>3. Identity(d, m) \in Nat
    BY <1>2 DEF Identity
<1>4. Service(m) \in 0..2
    BY DEF Service
<1>5. Key(PlanEntryForDestination(d, m)) = <<Identity(d, m), Service(m), d.port>>
    BY DEF Key, PlanEntryForDestination
<1> QED
    BY <1>1, <1>3, <1>4, <1>5 DEF Keys

\* Merging an observation into an entry leaves its key alone.
LEMMA MergeKeepsKey ==
    ASSUME NEW e, NEW d, KeyFields \subseteq DOMAIN e
    PROVE  /\ Key(MergePlanEntry(e, d)) = Key(e)
           /\ KeyFields \subseteq DOMAIN MergePlanEntry(e, d)
BY DEF Key, MergePlanEntry, KeyFields

\* Two different keys are ordered one way or the other.
LEMMA LessIsTotal ==
    ASSUME NEW a \in Keys, NEW b \in Keys, a # b
    PROVE  Less(a, b) \/ Less(b, a)
<1>1. /\ a[1] \in Nat /\ a[2] \in Nat /\ a[3] \in Nat
      /\ b[1] \in Nat /\ b[2] \in Nat /\ b[3] \in Nat
    BY DEF Keys
<1>2. a = <<a[1], a[2], a[3]>> /\ b = <<b[1], b[2], b[3]>>
    BY DEF Keys
<1>3. a[1] # b[1] \/ a[2] # b[2] \/ a[3] # b[3]
    BY <1>2
<1> QED
    BY <1>1, <1>3 DEF Less

-----------------------------------------------------------------------------
(* The invariant.                                                          *)

\* The empty plan satisfies the invariant.
LEMMA InitIInv == Init => IInv
<1> SUFFICES ASSUME Init PROVE IInv
    OBVIOUS
<1>1. DOMAIN entries = {} /\ plan = <<>>
    BY DEF Init
<1>2. NumberingIsDeterministic
    BY <1>1 DEF NumberingIsDeterministic
<1> QED
    BY <1>1, <1>2, FS_EmptySet DEF Init, IInv

\* The loop files the observation under its own key.
LEMMA TakeIInv == IInv /\ Take => IInv'
<1> SUFFICES ASSUME IInv, Take PROVE IInv'
    OBVIOUS
<1> DEFINE d   == capture[next]
           m   == DestinationMechanisms(d)[mech]
           new == PlanEntryForDestination(d, m)
           old == IF Key(new) \in DOMAIN entries THEN entries[Key(new)] ELSE new
           merged == MergePlanEntry(old, d)
<1>1. capture \in Captures /\ next \in DOMAIN capture
    BY DEF IInv, Take
<1>2. Key(new) \in Keys
    BY <1>1, EntryKey
<1>3. KeyFields \subseteq DOMAIN new
    BY DEF PlanEntryForDestination, KeyFields
<1>4. Key(old) = Key(new) /\ KeyFields \subseteq DOMAIN old
    BY <1>3 DEF IInv
<1>5. Key(merged) = Key(new) /\ KeyFields \subseteq DOMAIN merged
    BY <1>4, MergeKeepsKey
<1>6. CASE entries' = entries
    BY <1>6 DEF IInv, Take, NumberingIsDeterministic
<1>7. CASE entries' = [k \in DOMAIN entries \cup {Key(new)} |->
                          IF k = Key(new) THEN merged ELSE entries[k]]
    <2> HIDE DEF new, merged
    <2>1. DOMAIN entries' = DOMAIN entries \cup {Key(new)}
        BY <1>7
    <2>2. IsFiniteSet(DOMAIN entries')
        BY <2>1, FS_AddElement DEF IInv
    <2>3. DOMAIN entries' \subseteq Keys
        BY <2>1, <1>2 DEF IInv
    <2>4. ASSUME NEW k \in DOMAIN entries'
          PROVE  Key(entries'[k]) = k /\ KeyFields \subseteq DOMAIN entries'[k]
        BY <1>7, <2>1, <1>5 DEF IInv
    <2>5. capture' \in Captures /\ NumberingIsDeterministic'
        BY DEF IInv, Take, NumberingIsDeterministic
    <2> QED
        BY <2>2, <2>3, <2>4, <2>5 DEF IInv
<1> QED
    BY <1>6, <1>7 DEF Take

\* An order without an inversion between neighbours is strict, because no key
\* occurs twice in it.
LEMMA NumberIInv == IInv /\ Number => IInv'
<1> SUFFICES ASSUME IInv, Number PROVE IInv'
    OBVIOUS
<1> DEFINE n == Cardinality(DOMAIN entries)
<1>1. PICK order \in SetToSeqs(DOMAIN entries) :
         /\ \A i \in 1..(Len(order) - 1) : ~Less(order[i + 1], order[i])
         /\ plan' = [i \in 1..Len(order) |-> entries[order[i]]]
    BY DEF Number
<1>2. n \in Nat
    BY FS_CardinalityType DEF IInv
<1>3. /\ order \in [1..n -> DOMAIN entries]
      /\ \A i, j \in 1..n : i # j => order[i] # order[j]
    BY <1>1 DEF SetToSeqs
<1>4. Len(order) = n /\ Len(plan') = n
    BY <1>1, <1>2, <1>3
<1>5. ASSUME NEW i \in 1..(n - 1)
      PROVE  Less(Key(plan'[i]), Key(plan'[i + 1]))
    <2>1. i \in 1..n /\ i + 1 \in 1..n /\ i # i + 1
        BY <1>2
    <2>2. order[i] \in DOMAIN entries /\ order[i + 1] \in DOMAIN entries /\ order[i] # order[i + 1]
        BY <1>3, <2>1
    <2>3. Key(plan'[i]) = order[i] /\ Key(plan'[i + 1]) = order[i + 1]
        BY <1>1, <1>4, <2>1, <2>2 DEF IInv
    <2>4. ~Less(order[i + 1], order[i])
        BY <1>1, <1>4
    <2>5. Less(order[i], order[i + 1])
        BY <2>2, <2>4, LessIsTotal DEF IInv
    <2> QED
        BY <2>3, <2>5
<1>6. NumberingIsDeterministic'
    BY <1>4, <1>5 DEF NumberingIsDeterministic
<1> QED
    BY <1>6 DEF IInv, Number

\* Every step of BuildPlan keeps the invariant.
LEMMA NextIInv == IInv /\ [Next]_vars => IInv'
<1> SUFFICES ASSUME IInv, [Next]_vars PROVE IInv'
    OBVIOUS
<1>1. CASE Take
    BY <1>1, TakeIInv
<1>2. CASE Number
    BY <1>2, NumberIInv
<1>3. CASE NothingPlanned
    BY <1>3 DEF IInv, NothingPlanned, NumberingIsDeterministic
<1>4. CASE UNCHANGED vars
    BY <1>4 DEF IInv, vars, NumberingIsDeterministic
<1> QED
    BY <1>1, <1>2, <1>3, <1>4 DEF Next

\* The IDs of a plan do not depend on the order in which the map is read: the
\* order of BuildPlan's sort is strict on every plan.
THEOREM PlanNumbering == Spec => []NumberingIsDeterministic
<1>1. IInv => NumberingIsDeterministic
    BY DEF IInv
<1> QED
    BY <1>1, InitIInv, NextIInv, PTL DEF Spec

-----------------------------------------------------------------------------
(* What the loops accumulate.  An observation is a position <<i, k>>: the   *)
(* k-th mechanism of the i-th destination.                                 *)

\* The inner loop goes on to the next mechanism until it has had the last.
Positions ==
    {p \in (DOMAIN capture) \X (Nat \ {0}) :
        \A j \in 1..(p[2] - 1) : j < Len(DestinationMechanisms(capture[p[1]]))}

DestinationAt(p) == capture[p[1]]

EntryAt(p) == PlanEntryForDestination(DestinationAt(p), DestinationMechanisms(DestinationAt(p))[p[2]])

WantedAt(p) ==
    Wanted([dest |-> DestinationAt(p), mechanism |-> DestinationMechanisms(DestinationAt(p))[p[2]]])

\* The outcome of an entry is the one its observations agree on, those that
\* have none aside, and "mixed" if they do not agree.
Agreed(outcome, outs) ==
    /\ (\A x \in outs : x = "") => outcome = ""
    /\ \A x \in outs : x # "" /\ outs \subseteq {x, ""} => outcome = x
    /\ \A x, y \in outs : x # "" /\ y # "" /\ x # y => outcome = "mixed"

\* What an entry says of the observations it stands for.
TellsOf(e, mine) ==
    /\ e.failed <=> \E p \in mine : CaptureFailed(DestinationAt(p))
    /\ Agreed(e.outcome, {DestinationAt(p).outcome : p \in mine})

\* PlanIsExact without its sums: each wanted observation is told by the entry
\* of its service endpoint, no entry tells anything else, a captured failure is
\* never hidden by a success, and nothing wanted means an error.
PlanCovers ==
    result # "working" =>
        LET wanted == {p \in Positions : WantedAt(p)} IN
        /\ result = "planned" <=> wanted # {}
        /\ {Key(plan[i]) : i \in DOMAIN plan} = {Key(EntryAt(p)) : p \in wanted}
        /\ \A i \in DOMAIN plan :
             TellsOf(plan[i], {p \in wanted : Key(EntryAt(p)) = Key(plan[i])})

\* The wanted positions that the loops have passed.
Passed ==
    {p \in Positions : p[1] < next \/ (p[1] = next /\ p[2] < mech)}

Counted == {p \in Passed : WantedAt(p)}

Filed(k) == {p \in Counted : Key(EntryAt(p)) = k}

\* The loops are at a position, or past the last one.
At ==
    /\ request \in Requests
    /\ next \in 1..(Len(capture) + 1)
    /\ mech \in Nat \ {0}
    /\ next \in DOMAIN capture => <<next, mech>> \in Positions
    /\ next \notin DOMAIN capture => mech = 1
    /\ result # "working" => next \notin DOMAIN capture
    /\ result = "working" => plan = <<>>
    /\ entries = [k \in DOMAIN entries |-> entries[k]]

\* An entry and the observations counted in it: a count of failures above zero
\* comes from one of them.
Told(e, mine) ==
    /\ {"failed", "outcome", "failures", "successes"} \subseteq DOMAIN e
    /\ TellsOf(e, mine)
    /\ e.failures \in Nat
    /\ e.failures > 0 => \E p \in mine : CaptureFailed(DestinationAt(p))

Accumulated ==
    /\ DOMAIN entries = {Key(EntryAt(p)) : p \in Counted}
    /\ \A k \in DOMAIN entries : Told(entries[k], Filed(k))

CoverInv == At /\ Accumulated /\ PlanCovers

-----------------------------------------------------------------------------
(* What one observation adds.                                              *)

\* mergeCaptureOutcome forgets no disagreement and invents none.
LEMMA MergeAgrees ==
    ASSUME NEW o, NEW outs, NEW z, Agreed(o, outs)
    PROVE  Agreed(MergeCaptureOutcome(o, z), outs \cup {z})
<1> DEFINE m   == MergeCaptureOutcome(o, z)
           all == outs \cup {z}
<1>1. m = IF o = "" THEN z ELSE IF z = "" \/ o = z THEN o ELSE "mixed"
    BY DEF MergeCaptureOutcome
<1> HIDE DEF m
<1>2. (\A x \in all : x = "") => m = ""
    BY <1>1 DEF Agreed
<1>3. ASSUME NEW x \in all, x # "", all \subseteq {x, ""}
      PROVE  m = x
    <2>1. outs \subseteq {x, ""} /\ z \in {x, ""}
        BY <1>3
    <2>2. CASE x \in outs
        BY <1>1, <1>3, <2>1, <2>2 DEF Agreed
    <2>3. CASE x \notin outs
        BY <1>1, <1>3, <2>1, <2>3 DEF Agreed
    <2> QED
        BY <2>2, <2>3
<1>4. ASSUME NEW x \in outs, x # "", z # "", x # z
      PROVE  m = "mixed"
    <2>1. CASE outs \subseteq {x, ""}
        BY <1>1, <1>4, <2>1 DEF Agreed
    <2>2. CASE \E y \in outs : y # "" /\ y # x
        BY <1>1, <1>4, <2>2 DEF Agreed
    <2> QED
        BY <2>1, <2>2
<1>5. ASSUME NEW x \in all, NEW y \in all, x # "", y # "", x # y
      PROVE  m = "mixed"
    <2>1. CASE x \in outs /\ y \in outs
        BY <1>1, <1>5, <2>1 DEF Agreed
    <2>2. CASE x = z \/ y = z
        BY <1>4, <1>5, <2>2
    <2> QED
        BY <1>5, <2>1, <2>2
<1> QED
    BY <1>2, <1>3, <1>5 DEF Agreed, m

\* selectedDestination takes an observation if and only if the request asks for
\* it: what it compares are the fields of the entry the observation makes.
LEMMA SelectionMeansWanted ==
    ASSUME request \in Requests, NEW d, NEW mechanism
    PROVE  SelectedDestination(PlanEntryForDestination(d, mechanism))
             <=> Wanted([dest |-> d, mechanism |-> mechanism])
<1> DEFINE e    == PlanEntryForDestination(d, mechanism)
           item == [dest |-> d, mechanism |-> mechanism]
<1>1. /\ e.identity = Identity(d, mechanism)
      /\ e.service = Service(mechanism)
      /\ e.port = d.port
      /\ e.failed = CaptureFailed(d)
    BY DEF PlanEntryForDestination
<1>2. item.dest = d /\ item.mechanism = mechanism
    OBVIOUS
<1>3. Key(e) = <<Identity(d, mechanism), Service(mechanism), d.port>>
    BY <1>1 DEF Key
<1>4. ASSUME NEW sel \in request.selected
      PROVE  SelectorMatches(e, sel)
               <=> /\ sel.kind # "id" /\ sel.name = Identity(d, mechanism)
                   /\ sel.kind \in {"authority", "service"} => sel.port = d.port
                   /\ sel.kind = "service" => sel.service = Service(mechanism)
    <2>1. sel.kind \in {"name", "authority", "service", "id"}
        BY <1>4, RequestAssumption
    <2> HIDE DEF e
    <2>2. CASE sel.kind = "name"
        BY <1>1, <2>2 DEF SelectorMatches
    <2>3. CASE sel.kind = "authority"
        BY <1>1, <2>3 DEF SelectorMatches
    <2>4. CASE sel.kind = "service"
        BY <1>3, <2>4 DEF SelectorMatches
    <2>5. CASE sel.kind = "id"
        BY <2>5 DEF SelectorMatches
    <2> QED
        BY <2>1, <2>2, <2>3, <2>4, <2>5
<1>5. request.selection \in {"all", "failed_only", "selected"}
    BY RequestAssumption
<1> HIDE DEF e, item
<1>6. CASE request.selection = "all"
    BY <1>6 DEF SelectedDestination, Wanted, e, item
<1>7. CASE request.selection = "failed_only"
    <2>1. SelectedDestination(e) <=> CaptureFailed(d)
        BY <1>1, <1>7 DEF SelectedDestination
    <2>2. Wanted(item) <=> CaptureFailed(d)
        BY <1>2, <1>7 DEF Wanted
    <2> QED
        BY <2>1, <2>2 DEF e, item
<1>8. CASE request.selection = "selected"
    <2>1. SelectedDestination(e) <=> \E sel \in request.selected : SelectorMatches(e, sel)
        BY <1>8 DEF SelectedDestination
    <2>2. Wanted(item) <=>
            \E sel \in request.selected :
                /\ sel.kind # "id" /\ sel.name = Identity(d, mechanism)
                /\ sel.kind \in {"authority", "service"} => sel.port = d.port
                /\ sel.kind = "service" => sel.service = Service(mechanism)
        BY <1>2, <1>8 DEF Wanted
    <2> QED
        BY <1>4, <2>1, <2>2 DEF e, item
<1> QED
    BY <1>5, <1>6, <1>7, <1>8

-----------------------------------------------------------------------------
(* One iteration passes one position.                                      *)

\* The destination of the outer loop is one of the capture report.
LEMMA CaptureIsAList ==
    ASSUME IInv
    PROVE  /\ DOMAIN capture = 1..Len(capture) /\ Len(capture) \in Nat
           /\ \A i \in DOMAIN capture : capture[i] \in Destination
BY CapturedDestination DEF IInv

\* The first mechanism of a destination is always a position.
LEMMA FirstPosition ==
    ASSUME NEW i \in DOMAIN capture
    PROVE  <<i, 1>> \in Positions
BY DEF Positions

\* The loops go on to the next position there is, and leave out none.
LEMMA TakePasses ==
    ASSUME IInv, At, Take
    PROVE  At' /\ <<next, mech>> \in Positions /\ Passed' = Passed \cup {<<next, mech>>}
<1> DEFINE n  == Len(capture)
           ms == DestinationMechanisms(capture[next])
<1>1. DOMAIN capture = 1..n /\ n \in Nat
    BY CaptureIsAList
<1>2. next \in DOMAIN capture /\ capture' = capture /\ request' = request /\ result' = result
    BY DEF Take
<1>3. next \in 1..n /\ mech \in Nat \ {0} /\ <<next, mech>> \in Positions
    BY <1>1, <1>2 DEF At
<1>4. Positions' = Positions
    BY <1>2 DEF Positions
<1>5. \A j \in 1..(mech - 1) : j < Len(ms)
    BY <1>3 DEF Positions
<1>6. entries' = [k \in DOMAIN entries' |-> entries'[k]]
    BY DEF At, Take
<1>7. result' = "working" /\ plan' = <<>>
    BY <1>2 DEF At, Take
<1>8. ASSUME NEW p \in Positions
      PROVE  p = <<p[1], p[2]>> /\ p[1] \in 1..n /\ p[2] \in Nat \ {0}
    BY <1>1 DEF Positions
<1>9. CASE mech < Len(ms)
    <2>1. mech' = mech + 1 /\ next' = next
        BY <1>9 DEF Take
    <2>2. <<next, mech + 1>> \in Positions
        <3> HIDE DEF ms
        <3>1. ASSUME NEW j \in 1..mech PROVE j < Len(ms)
            BY <1>3, <1>5, <1>9
        <3> QED
            BY <1>1, <1>3, <3>1 DEF Positions, ms
    <2>3. Passed' = Passed \cup {<<next, mech>>}
        <3>1. ASSUME NEW p \in Positions
              PROVE  (p[1] < next \/ (p[1] = next /\ p[2] < mech + 1))
                       <=> (p[1] < next \/ (p[1] = next /\ p[2] < mech)) \/ p = <<next, mech>>
            BY <1>3, <1>8
        <3>2. Passed' = {p \in Positions : p[1] < next \/ (p[1] = next /\ p[2] < mech + 1)}
            BY <1>4, <2>1 DEF Passed
        <3> QED
            BY <1>3, <3>1, <3>2 DEF Passed
    <2>4. At'
        BY <1>1, <1>2, <1>3, <1>4, <1>6, <1>7, <2>1, <2>2 DEF At
    <2> QED
        BY <1>3, <2>3, <2>4
<1>10. CASE ~(mech < Len(ms))
    <2>1. mech' = 1 /\ next' = next + 1
        BY <1>10 DEF Take
    <2>2. next + 1 \in DOMAIN capture => <<next + 1, 1>> \in Positions
        BY FirstPosition
    <2>3. ASSUME NEW p \in Positions, p[1] = next
          PROVE  p[2] < mech \/ p = <<next, mech>>
        <3>1. \A j \in 1..(p[2] - 1) : j < Len(ms)
            BY <2>3 DEF Positions
        <3>2. ~(mech \in 1..(p[2] - 1))
            BY <1>10, <3>1
        <3>3. p[2] <= mech
            BY <1>3, <1>8, <3>2
        <3> QED
            BY <1>3, <1>8, <2>3, <3>3
    <2>4. Passed' = Passed \cup {<<next, mech>>}
        <3>1. ASSUME NEW p \in Positions
              PROVE  (p[1] < next + 1 \/ (p[1] = next + 1 /\ p[2] < 1))
                       <=> (p[1] < next \/ (p[1] = next /\ p[2] < mech)) \/ p = <<next, mech>>
            BY <1>3, <1>8, <2>3
        <3>2. Passed' = {p \in Positions : p[1] < next + 1 \/ (p[1] = next + 1 /\ p[2] < 1)}
            BY <1>4, <2>1 DEF Passed
        <3> QED
            BY <1>3, <3>1, <3>2 DEF Passed
    <2>5. At'
        BY <1>1, <1>2, <1>3, <1>4, <1>6, <1>7, <2>1, <2>2 DEF At
    <2> QED
        BY <1>3, <2>4, <2>5
<1> QED
    BY <1>9, <1>10

\* The wanted observations grow by the one that is passed, if it is wanted.
LEMMA TakeCounts ==
    ASSUME IInv, At, Take
    PROVE  Counted' = Counted \cup {p \in {<<next, mech>>} : WantedAt(p)}
<1>1. Passed' = Passed \cup {<<next, mech>>}
    BY TakePasses
<1>2. capture' = capture /\ request' = request
    BY DEF Take
<1>3. \A p : WantedAt(p)' <=> WantedAt(p)
    BY <1>2 DEF WantedAt, Wanted, DestinationAt
<1>4. Counted' = {p \in Passed' : WantedAt(p)}
    BY <1>3 DEF Counted
<1> QED
    BY <1>1, <1>4 DEF Counted

-----------------------------------------------------------------------------
(* One iteration counts the observation it passes.                         *)

\* mergePlanEntry adds one observation to what an entry tells.
LEMMA MergeTells ==
    ASSUME NEW e, NEW mine, NEW p, DestinationAt(p) \in Destination, Told(e, mine)
    PROVE  Told(MergePlanEntry(e, DestinationAt(p)), mine \cup {p})
<1> DEFINE d == DestinationAt(p)
           m == MergePlanEntry(e, d)
<1>1. /\ m.failures = e.failures + d.failures
      /\ m.failed = (e.failed \/ (e.failures + d.failures > 0) \/ CaptureFailed(d))
      /\ m.outcome = MergeCaptureOutcome(e.outcome, d.outcome)
      /\ {"failed", "outcome", "failures", "successes"} \subseteq DOMAIN m
    BY DEF Told, MergePlanEntry
<1>2. d.failures \in Nat /\ (d.failures > 0 => CaptureFailed(d))
    BY DEF Destination, CaptureFailed
<1>3. e.failures \in Nat /\ m.failures \in Nat
    BY <1>1, <1>2 DEF Told
<1> HIDE DEF m
<1>4. m.failures > 0 => \E q \in mine \cup {p} : CaptureFailed(DestinationAt(q))
    <2>1. m.failures > 0 => e.failures > 0 \/ d.failures > 0
        BY <1>1, <1>2, <1>3
    <2> QED
        BY <1>2, <2>1 DEF Told
<1>5. m.failed <=> \E q \in mine \cup {p} : CaptureFailed(DestinationAt(q))
    <2>1. e.failed <=> \E q \in mine : CaptureFailed(DestinationAt(q))
        BY DEF Told, TellsOf
    <2>2. (e.failures + d.failures > 0) => \E q \in mine \cup {p} : CaptureFailed(DestinationAt(q))
        BY <1>1, <1>4
    <2> QED
        BY <1>1, <2>1, <2>2, Zenon
<1>6. Agreed(m.outcome, {DestinationAt(q).outcome : q \in mine \cup {p}})
    <2>1. Agreed(e.outcome, {DestinationAt(q).outcome : q \in mine})
        BY DEF Told, TellsOf
    <2>2. Agreed(m.outcome, {DestinationAt(q).outcome : q \in mine} \cup {d.outcome})
        BY <1>1, <2>1, MergeAgrees
    <2>3. {DestinationAt(q).outcome : q \in mine \cup {p}}
            = {DestinationAt(q).outcome : q \in mine} \cup {d.outcome}
        OBVIOUS
    <2> QED
        BY <2>2, <2>3
<1> QED
    BY <1>1, <1>3, <1>4, <1>5, <1>6 DEF Told, TellsOf, m

\* A new entry tells of the observation it is made from.
LEMMA NewEntryTells ==
    ASSUME NEW p
    PROVE  Told(EntryAt(p), {p})
<1> DEFINE e == EntryAt(p)
           d == DestinationAt(p)
<1>1. /\ e.failed = CaptureFailed(d) /\ e.outcome = d.outcome /\ e.failures = 0
      /\ {"failed", "outcome", "failures", "successes"} \subseteq DOMAIN e
    BY DEF EntryAt, PlanEntryForDestination
<1> HIDE DEF e
<1>2. {DestinationAt(q).outcome : q \in {p}} = {d.outcome}
    OBVIOUS
<1>3. Agreed(e.outcome, {d.outcome})
    BY <1>1 DEF Agreed
<1>4. e.failed <=> \E q \in {p} : CaptureFailed(DestinationAt(q))
    BY <1>1, Zenon
<1> QED
    BY <1>1, <1>2, <1>3, <1>4 DEF Told, TellsOf, e

\* The iteration files the observation in the entry of its service endpoint and
\* touches no other.
LEMMA TakeAccumulates ==
    ASSUME IInv, At, Accumulated, Take
    PROVE  Accumulated'
<1> DEFINE w      == <<next, mech>>
           d      == DestinationAt(w)
           new    == EntryAt(w)
           old    == IF Key(new) \in DOMAIN entries THEN entries[Key(new)] ELSE new
           merged == MergePlanEntry(old, d)
<1>1. /\ next \in DOMAIN capture /\ capture' = capture /\ request' = request
      /\ entries' = IF SelectedDestination(new)
                    THEN [k \in DOMAIN entries \cup {Key(new)} |->
                            IF k = Key(new) THEN merged ELSE entries[k]]
                    ELSE entries
    BY DEF Take, EntryAt, DestinationAt
<1>2. d \in Destination
    BY <1>1, CaptureIsAList DEF DestinationAt
<1>3. SelectedDestination(new) <=> WantedAt(w)
    BY SelectionMeansWanted DEF At, WantedAt, EntryAt
<1>4. Counted' = Counted \cup {p \in {w} : WantedAt(p)}
    BY TakeCounts
<1>5. \A p : EntryAt(p)' = EntryAt(p) /\ DestinationAt(p)' = DestinationAt(p)
    BY <1>1 DEF EntryAt, DestinationAt
<1>6. ASSUME NEW e, NEW mine, Told(e, mine)
      PROVE  Told(e, mine)'
    BY <1>5, <1>6 DEF Told, TellsOf
<1>7. CASE ~WantedAt(w)
    <2>1. entries' = entries /\ Counted' = Counted
        BY <1>1, <1>3, <1>4, <1>7
    <2>2. \A k : Filed(k)' = Filed(k)
        BY <1>5, <2>1 DEF Filed
    <2>3. \A k \in DOMAIN entries : Told(entries[k], Filed(k))'
        BY <1>6, <2>1, <2>2 DEF Accumulated
    <2> QED
        BY <1>5, <2>1, <2>3 DEF Accumulated
<1>8. CASE WantedAt(w)
    <2> HIDE DEF w, d, new, old, merged
    <2>1. entries' = [k \in DOMAIN entries \cup {Key(new)} |->
                        IF k = Key(new) THEN merged ELSE entries[k]]
        BY <1>1, <1>3, <1>8
    <2>2. DOMAIN entries' = DOMAIN entries \cup {Key(new)}
        BY <2>1
    <2>3. Counted' = Counted \cup {w}
        BY <1>4, <1>8
    <2>4. DOMAIN entries' = {Key(EntryAt(p)) : p \in Counted'}
        BY <2>2, <2>3 DEF Accumulated, new
    <2>5. \A k : Filed(k)' = {p \in Counted' : Key(EntryAt(p)) = k}
        BY <1>5 DEF Filed
    <2>6. Told(merged, Filed(Key(new)) \cup {w})
        <3>1. CASE Key(new) \in DOMAIN entries
            <4>1. Told(old, Filed(Key(new)))
                BY <3>1 DEF Accumulated, old
            <4> QED
                BY <1>2, <4>1, MergeTells DEF merged, d
        <3>2. CASE Key(new) \notin DOMAIN entries
            <4>1. Filed(Key(new)) = {}
                BY <3>2 DEF Filed, Accumulated
            <4>2. Told(old, {w})
                BY <3>2, NewEntryTells DEF old, new
            <4>3. Told(merged, {w} \cup {w})
                BY <1>2, <4>2, MergeTells DEF merged, d
            <4>4. {w} \cup {w} = Filed(Key(new)) \cup {w}
                BY <4>1
            <4> QED
                BY <4>3, <4>4
        <3> QED
            BY <3>1, <3>2
    <2>7. ASSUME NEW k \in DOMAIN entries'
          PROVE  Told(entries'[k], Filed(k)')
        <3>1. CASE k = Key(new)
            <4>1. entries'[k] = merged
                BY <2>1, <2>2, <3>1
            <4>2. Filed(k)' = Filed(Key(new)) \cup {w}
                BY <2>3, <2>5, <3>1 DEF Filed, new
            <4> QED
                BY <2>6, <4>1, <4>2
        <3>2. CASE k # Key(new)
            <4>1. k \in DOMAIN entries /\ entries'[k] = entries[k]
                BY <2>1, <2>2, <3>2
            <4>2. Filed(k)' = Filed(k)
                BY <2>3, <2>5, <3>2 DEF Filed, new
            <4> QED
                BY <4>1, <4>2 DEF Accumulated
        <3> QED
            BY <3>1, <3>2
    <2>8. \A k \in DOMAIN entries' : Told(entries[k], Filed(k))'
        BY <1>6, <2>7
    <2> QED
        BY <1>5, <2>4, <2>8 DEF Accumulated
<1> QED
    BY <1>7, <1>8

-----------------------------------------------------------------------------
(* The plan is read off the map when all positions are passed.             *)

\* Before the loops nothing is counted.
LEMMA InitCover == Init => CoverInv
<1> SUFFICES ASSUME Init PROVE CoverInv
    OBVIOUS
<1>1. IInv
    BY InitIInv
<1>2. DOMAIN capture = 1..Len(capture) /\ Len(capture) \in Nat
    BY <1>1, CaptureIsAList
<1>3. next = 1 /\ mech = 1 /\ entries = <<>> /\ result = "working" /\ plan = <<>> /\ request \in Requests
    BY DEF Init
<1>4. next \in DOMAIN capture => <<next, mech>> \in Positions
    BY <1>3, FirstPosition
<1>5. entries = [k \in DOMAIN entries |-> entries[k]] /\ DOMAIN entries = {}
    BY <1>3
<1>6. At
    BY <1>2, <1>3, <1>4, <1>5 DEF At
<1>7. Counted = {}
    <2>1. ASSUME NEW p \in Positions PROVE p[1] \in Nat \ {0} /\ p[2] \in Nat \ {0}
        BY <1>2 DEF Positions
    <2> QED
        BY <1>3, <2>1 DEF Counted, Passed
<1>8. Accumulated
    BY <1>5, <1>7 DEF Accumulated
<1> QED
    BY <1>3, <1>6, <1>8 DEF CoverInv, PlanCovers

\* When the outer loop ends, every position has been passed.
LEMMA AllIsPassed ==
    ASSUME IInv, At, next > Len(capture)
    PROVE  Counted = {p \in Positions : WantedAt(p)} /\ next \notin DOMAIN capture
<1>1. DOMAIN capture = 1..Len(capture) /\ Len(capture) \in Nat
    BY CaptureIsAList
<1>2. next \in Nat
    BY <1>1 DEF At
<1>3. ASSUME NEW p \in Positions PROVE p[1] < next
    BY <1>1, <1>2 DEF Positions
<1> QED
    BY <1>1, <1>2, <1>3 DEF Counted, Passed

\* An iteration of the loops leaves a plan that is not made yet.
LEMMA TakeCover == IInv /\ CoverInv /\ Take => CoverInv'
<1> SUFFICES ASSUME IInv, CoverInv, Take PROVE CoverInv'
    OBVIOUS
<1>1. At' /\ Accumulated'
    BY TakePasses, TakeAccumulates DEF CoverInv
<1>2. result' = "working"
    BY DEF CoverInv, At, Take
<1> QED
    BY <1>1, <1>2 DEF CoverInv, PlanCovers

\* Where the loops do not move, the account stays.
LEMMA AccountStays ==
    ASSUME Accumulated, UNCHANGED <<capture, request, next, mech, entries>>
    PROVE  /\ Accumulated'
           /\ Positions' = Positions
           /\ \A p : WantedAt(p)' <=> WantedAt(p)
           /\ \A p : Key(EntryAt(p))' = Key(EntryAt(p))
           /\ \A e, mine : TellsOf(e, mine) => TellsOf(e, mine)'
<1>1. \A p : EntryAt(p)' = EntryAt(p) /\ DestinationAt(p)' = DestinationAt(p)
    BY DEF EntryAt, DestinationAt
<1>2. Positions' = Positions
    BY DEF Positions
<1>3. \A p : WantedAt(p)' <=> WantedAt(p)
    BY DEF WantedAt, Wanted, DestinationAt
<1>4. Counted' = Counted
    BY <1>2, <1>3 DEF Counted, Passed
<1>5. \A k : Filed(k)' = Filed(k)
    BY <1>1, <1>4 DEF Filed
<1>6. ASSUME NEW e, NEW mine, TellsOf(e, mine)
      PROVE  TellsOf(e, mine)'
    BY <1>1, <1>6 DEF TellsOf
<1>7. ASSUME NEW e, NEW mine, Told(e, mine)
      PROVE  Told(e, mine)'
    BY <1>1, <1>6, <1>7 DEF Told
<1>8. \A k \in DOMAIN entries : Told(entries[k], Filed(k))'
    BY <1>5, <1>7 DEF Accumulated
<1>9. DOMAIN entries' = {Key(EntryAt(p)) : p \in Counted'}
    BY <1>4 DEF Accumulated
<1>10. Accumulated'
    BY <1>1, <1>8, <1>9 DEF Accumulated
<1> QED
    BY <1>1, <1>2, <1>3, <1>6, <1>10

\* Numbering takes over what the map tells, entry by entry.
LEMMA NumberCover == IInv /\ CoverInv /\ Number => CoverInv'
<1> SUFFICES ASSUME IInv, CoverInv, Number PROVE CoverInv'
    OBVIOUS
<1> DEFINE n      == Cardinality(DOMAIN entries)
           wanted == {p \in Positions : WantedAt(p)}
<1>1. PICK order \in SetToSeqs(DOMAIN entries) : plan' = [i \in 1..Len(order) |-> entries[order[i]]]
    BY DEF Number
<1>2. n \in Nat
    BY FS_CardinalityType DEF IInv
<1>3. /\ order \in [1..n -> DOMAIN entries]
      /\ \A i, j \in 1..n : i # j => order[i] # order[j]
    BY <1>1 DEF SetToSeqs
<1>4. Len(order) = n /\ DOMAIN plan' = 1..n
    BY <1>1, <1>2, <1>3
<1>5. /\ capture' = capture /\ request' = request /\ next' = next /\ mech' = mech
      /\ entries' = entries /\ result' = "planned" /\ entries # <<>>
    BY DEF Number
<1>6. Counted = wanted /\ next \notin DOMAIN capture
    BY AllIsPassed DEF CoverInv, Number
<1>7. /\ Accumulated'
      /\ Positions' = Positions
      /\ \A p : WantedAt(p)' <=> WantedAt(p)
      /\ \A p : Key(EntryAt(p))' = Key(EntryAt(p))
      /\ \A e, mine : TellsOf(e, mine) => TellsOf(e, mine)'
    BY <1>5, AccountStays DEF CoverInv
<1>8. At'
    BY <1>5, <1>6, <1>7 DEF CoverInv, At
<1>9. DOMAIN entries # {}
    <2>1. entries = [k \in DOMAIN entries |-> entries[k]]
        BY DEF CoverInv, At
    <2>2. DOMAIN entries = {} => entries = [k \in {} |-> entries[k]]
        BY <2>1, Zenon
    <2>3. [k \in {} |-> entries[k]] = <<>>
        OBVIOUS
    <2> QED
        BY <1>5, <2>2, <2>3
<1>10. wanted # {}
    BY <1>6, <1>9 DEF CoverInv, Accumulated
<1>11. {order[i] : i \in 1..n} = DOMAIN entries
    <2>1. order \in Injection(1..n, DOMAIN entries)
        BY <1>3, Fun_IsInj
    <2>2. IsFiniteSet(DOMAIN entries) /\ Cardinality(1..n) = n
        BY <1>2, FS_Interval DEF IInv
    <2>3. order \in Surjection(1..n, DOMAIN entries)
        BY <2>1, <2>2, FS_Injection
    <2>4. \A k \in DOMAIN entries : \E i \in 1..n : order[i] = k
        BY <2>3 DEF Surjection
    <2> QED
        BY <1>3, <2>4
<1>12. ASSUME NEW i \in 1..n
       PROVE  plan'[i] = entries[order[i]] /\ Key(plan'[i]) = order[i] /\ order[i] \in DOMAIN entries
    <2>1. order[i] \in DOMAIN entries
        BY <1>3
    <2>2. plan'[i] = entries[order[i]]
        BY <1>1, <1>4
    <2> QED
        BY <2>1, <2>2 DEF IInv
<1>13. {Key(plan'[i]) : i \in DOMAIN plan'} = {Key(EntryAt(p)) : p \in wanted}
    <2>1. {Key(plan'[i]) : i \in DOMAIN plan'} = {order[i] : i \in 1..n}
        BY <1>4, <1>12
    <2>2. DOMAIN entries = {Key(EntryAt(p)) : p \in wanted}
        BY <1>6 DEF CoverInv, Accumulated
    <2> QED
        BY <1>11, <2>1, <2>2
<1>14. ASSUME NEW i \in 1..n
       PROVE  TellsOf(plan'[i], {p \in wanted : Key(EntryAt(p)) = Key(plan'[i])})
    <2>1. TellsOf(entries[order[i]], Filed(order[i]))
        BY <1>12 DEF CoverInv, Accumulated, Told
    <2>2. Filed(order[i]) = {p \in wanted : Key(EntryAt(p)) = order[i]}
        BY <1>6 DEF Filed
    <2> QED
        BY <1>12, <2>1, <2>2
<1>15. wanted' = wanted
    BY <1>7
<1>16. \A i \in DOMAIN plan' : TellsOf(plan[i], {p \in wanted : Key(EntryAt(p)) = Key(plan[i])})'
    <2> SUFFICES ASSUME NEW i \in 1..n
                 PROVE  TellsOf(plan[i], {p \in wanted : Key(EntryAt(p)) = Key(plan[i])})'
        BY <1>4
    <2>1. TellsOf(plan'[i], {p \in wanted : Key(EntryAt(p)) = Key(plan'[i])})
        BY <1>14
    <2> HIDE DEF wanted
    <2>2. {p \in wanted : Key(EntryAt(p)) = Key(plan[i])}' = {p \in wanted : Key(EntryAt(p)) = Key(plan'[i])}
        BY <1>7, <1>15
    <2> QED
        BY <1>7, <2>1, <2>2
<1>17. PlanCovers'
    <2> HIDE DEF wanted
    <2>1. {Key(plan[i]) : i \in DOMAIN plan}' = {Key(EntryAt(p)) : p \in wanted}'
        BY <1>7, <1>13, <1>15
    <2> QED
        BY <1>5, <1>10, <1>15, <1>16, <2>1 DEF PlanCovers, wanted
<1> QED
    BY <1>7, <1>8, <1>17 DEF CoverInv

\* With nothing on the map, nothing was wanted.
LEMMA NothingCover == IInv /\ CoverInv /\ NothingPlanned => CoverInv'
<1> SUFFICES ASSUME IInv, CoverInv, NothingPlanned PROVE CoverInv'
    OBVIOUS
<1> DEFINE wanted == {p \in Positions : WantedAt(p)}
<1>1. /\ capture' = capture /\ request' = request /\ next' = next /\ mech' = mech
      /\ entries' = entries /\ plan' = plan /\ result' = "ErrEmptyValidationPlan"
      /\ entries = <<>> /\ result = "working"
    BY DEF NothingPlanned
<1>2. Counted = wanted /\ next \notin DOMAIN capture
    BY AllIsPassed DEF CoverInv, NothingPlanned
<1>3. wanted = {}
    BY <1>1, <1>2 DEF CoverInv, Accumulated
<1>4. /\ Accumulated'
      /\ Positions' = Positions
      /\ \A p : WantedAt(p)' <=> WantedAt(p)
      /\ \A p : Key(EntryAt(p))' = Key(EntryAt(p))
    BY <1>1, AccountStays DEF CoverInv
<1>5. At'
    BY <1>1, <1>2, <1>4 DEF CoverInv, At
<1>6. plan = <<>>
    BY <1>1 DEF CoverInv, At
<1>7. PlanCovers'
    BY <1>1, <1>3, <1>4, <1>6 DEF PlanCovers
<1> QED
    BY <1>4, <1>5, <1>7 DEF CoverInv

\* Every step of BuildPlan keeps the account.
LEMMA NextCover == IInv /\ CoverInv /\ [Next]_vars => CoverInv'
<1> SUFFICES ASSUME IInv, CoverInv, [Next]_vars PROVE CoverInv'
    OBVIOUS
<1>1. CASE Take
    BY <1>1, TakeCover
<1>2. CASE Number
    BY <1>2, NumberCover
<1>3. CASE NothingPlanned
    BY <1>3, NothingCover
<1>4. CASE UNCHANGED vars
    <2>1. UNCHANGED <<capture, request, next, mech, entries>> /\ plan' = plan /\ result' = result
        BY <1>4 DEF vars
    <2>2. /\ Accumulated'
          /\ Positions' = Positions
          /\ \A p : WantedAt(p)' <=> WantedAt(p)
          /\ \A p : Key(EntryAt(p))' = Key(EntryAt(p))
          /\ \A e, mine : TellsOf(e, mine) => TellsOf(e, mine)'
        BY <2>1, AccountStays DEF CoverInv
    <2>3. At'
        BY <2>1, <2>2 DEF CoverInv, At
    <2>4. {p \in Positions : WantedAt(p)}' = {p \in Positions : WantedAt(p)}
        BY <2>2
    <2>5. PlanCovers'
        BY <2>1, <2>2, <2>4 DEF CoverInv, PlanCovers
    <2> QED
        BY <2>2, <2>3, <2>5 DEF CoverInv
<1> QED
    BY <1>1, <1>2, <1>3, <1>4 DEF Next

\* The plan is what the capture and the request call for: each wanted
\* observation is told by the entry of its service endpoint and no entry tells
\* anything else, for every capture, selection and canonical naming
\* (BuildPlan and mergePlanEntry).
THEOREM PlanIsCovered == Spec => []PlanCovers
<1>1. CoverInv => PlanCovers
    BY DEF CoverInv
<1>2. Init => IInv /\ CoverInv
    BY InitIInv, InitCover
<1>3. (IInv /\ CoverInv) /\ [Next]_vars => (IInv /\ CoverInv)'
    BY NextIInv, NextCover
<1> QED
    BY <1>1, <1>2, <1>3, PTL DEF Spec
=============================================================================
