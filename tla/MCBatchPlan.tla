----------------------------- MODULE MCBatchPlan -----------------------------
(***************************************************************************)
(* Instances of BatchPlan.  Host 1 is canonical (say ::1), host 2 is       *)
(* another spelling of it (0:0:0:0:0:0:0:1), and host 3 passes the         *)
(* proxy's own check but is no valid target (-bad.example).                *)
(***************************************************************************)
EXTENDS BatchPlan

MCCanon == <<1, 1, None>>

\* The keys of the destination table, in the order of the capture's report.
Slots == << <<1, 80>>, <<1, 443>>, <<2, 443>>, <<3, 443>> >>

\* What Session.record leaves: successes, failures and the outcome they make.
Counts == {[s |-> 1, f |-> 0, o |-> "connected"],
           [s |-> 0, f |-> 1, o |-> "failed"],
           [s |-> 1, f |-> 2, o |-> "mixed"]}

\* The mechanisms of a destination in the order they were first seen.  Port 80
\* is plain; the last slot may hold a mechanism that batch validation does not
\* support.
Mechanisms(i) ==
    CASE i = 1 -> {<<"plain_http">>}
      [] i = 4 -> {<<"CONNECT">>, <<"quic">>}
      [] OTHER -> {<<"plain_http">>, <<"CONNECT">>, <<"CONNECT", "plain_http">>}

Dest(slot, ms, n) ==
    [host |-> slot[1], port |-> slot[2], mechanism |-> ms[1], mechanisms |-> ms,
     successes |-> n.s, failures |-> n.f, outcome |-> n.o]

\* Every slot is absent or holds one destination.
SlotContents(i) ==
    {<<>>} \cup {<<Dest(Slots[i], ms, n)>> : ms \in Mechanisms(i), n \in Counts}

MCCaptures ==
    {a \o b \o c \o d : a \in SlotContents(1), b \in SlotContents(2), c \in SlotContents(3), d \in SlotContents(4)}

Selector(kind, name, service, port, id) ==
    [kind |-> kind, name |-> name, service |-> service, port |-> port, id |-> id]

Select(sels) == [selection |-> "selected", selected |-> sels]

\* A name, a spelling that is not canonical, an authority and a service, an ID.
MCRequests ==
    {[selection |-> "all", selected |-> {}],
     [selection |-> "failed_only", selected |-> {}],
     Select({Selector("name", 1, 0, 0, 0)}),
     Select({Selector("name", 2, 0, 0, 0), Selector("authority", 3, 0, 443, 0)}),
     Select({Selector("service", 1, 2, 443, 0)})}

MCIdRequests == {Select({Selector("id", 0, 0, 0, 1)})}
=============================================================================
