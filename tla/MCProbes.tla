------------------------------ MODULE MCProbes ------------------------------
(***************************************************************************)
(* Every active probe, one at a time, in every world of its own.           *)
(***************************************************************************)
EXTENDS EndpointProbes, DnsProbes, PathProbe, ProxyProbes

Init ==
    \/ EndpointInit \/ DnsInit \/ ServiceInit \/ PathInit \/ ProxyInit \/ EnterpriseInit

ProbeSteps ==
    \/ EndpointNext \/ DnsNext \/ ServiceNext \/ PathNext \/ ProxyNext \/ EnterpriseNext

Next == ProbeSteps \/ ContextEnds

Spec == Init /\ [][Next]_runVars

\* Goroutines run and time passes; that the caller gives up is not assumed.
FairSpec == Spec /\ WF_runVars(ProbeSteps)

\* No attempt, whoever it waits for, takes the time of the later ones: those of a
\* candidate, of a DNS server over one transport, and of a ttl of a path.
TimeIsShared == FairShare /\ LanesShareTime /\ PathSharesTime

\* No answer is hidden behind the failure of another candidate or protocol.
AnswersAreKept == EvidenceIsKept /\ PathIsKept

\* What a probe says of a name, or of a DNS server, was answered.
DnsIsHonest == LookupIsHonest /\ ServiceIsHonest

\* Run returns whatever the peers do and whether or not its caller gives up; its
\* connection is closed, and the goroutine of a lookup that it left behind ends.
ProbesEnd ==
    <>[](/\ Done
         /\ probe \in EndpointNames => ~work.open
         /\ probe = "dns" => work.helper \in {0, 4})
=============================================================================
