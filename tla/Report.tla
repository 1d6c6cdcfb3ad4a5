-------------------------------- MODULE Report --------------------------------
(***************************************************************************)
(* A diagnostic run from its results to its report (Run of                 *)
(* internal/orchestrate/run.go).  The lanes of the target's profile file   *)
(* their results, in job order; the endpoint they found becomes the target *)
(* of all; the observations, the diagnosis and the status of the           *)
(* destination are computed from them.                                     *)
(*                                                                         *)
(* Each lane connects for itself, so the lanes may disagree: the network   *)
(* can change between two of them.  MaxTroubles bounds how many lanes of   *)
(* one run end otherwise than well.  A cancelled run gives up on every     *)
(* lane that has not been filed, from the transport on.                    *)
(***************************************************************************)
EXTENDS Diagnosis, DestinationStatus

CONSTANTS Targets, Address, MaxTroubles

ASSUME ReportAssumption == MaxTroubles \in Nat /\ Address # Nil

VARIABLES target, results, troubles, report

vars == <<target, results, troubles, report>>

NoReport == [done |-> FALSE]

-----------------------------------------------------------------------------
(* runProbes: the jobs of a profile.                                        *)
CommonLanes ==
    << "dns", "interface_state", "dns_configuration", "tcp", "default_route", "target_route",
       "gateway_reachability", "proxy_discovery", "windows_enterprise", "path" >>

Lanes ==
    CommonLanes
      \o (IF target.protocol \in {"ssh", "rdp", "smb"} THEN <<target.protocol>> ELSE <<>>)
      \o << "tls", "http" >>
      \o (IF target.protocol = "dns" THEN << "dns_service" >> ELSE <<>>)

Result(name, status, reason, layer, evidence) ==
    [name |-> name, status |-> status, reason |-> reason, layer |-> layer,
     evidence |-> evidence, tested |-> Nil, attempts |-> <<>>]

Passed(name, layer, evidence) == Result(name, "passed", "none", layer, evidence)

Failed(name, reason, layer, evidence) == Result(name, "failed", reason, layer, evidence)

\* dependencyWaitFailure and skippedURLProbe.
GivenUp(name) == Result(name, "error", "probe_execution_failure", "unknown", <<>>)

SkippedUrl(name) == Result(name, "skipped", "unsupported", name, <<>>)

-----------------------------------------------------------------------------
(* What the lanes return.                                                   *)
Resolution(answers) ==
    [kind |-> "dns_resolution", id |-> "dns/resolution", answers |-> answers, effective |-> TRUE]

DnsResults ==
    IF target.literal # Nil THEN {Passed("dns", "dns", <<Resolution(<<>>)>>)}
    ELSE {Passed("dns", "dns", <<Resolution(<<Address>>)>>)}
           \cup {Failed("dns", r, "dns", <<Resolution(<<>>)>>) : r \in {"dns_nxdomain", "dns_timeout"}}

InterfaceResults ==
    LET state == <<[kind |-> "interface_state", id |-> "interface-state-1"]>>
    IN  {Passed("interface_state", "interface", state)}
          \cup {Failed("interface_state", r, "interface", state) : r \in {"interface_down", "no_ip_address"}}

DnsConfigurationResults ==
    {Passed("dns_configuration", "dns", <<[kind |-> "dns_configuration", id |-> "dns-configuration-1"]>>)}

\* The flow that a capture of the lane saw, if there is one.
Flow(outcome, certainty) ==
    <<[kind |-> "packet_flow", id |-> "packet-flow", capture |-> "available", protocol |-> "tcp",
       outcome |-> outcome, certainty |-> certainty]>>

FlowsOf(reason) ==
    LET answered(outcome) == Flow(outcome, "confirmed_endpoint_response")
        silent(outcome)   == Flow(outcome, "no_matching_response")
    IN  CASE reason = "none"                   -> {<<>>, answered("tcp_handshake_confirmed")}
          [] reason = "tcp_connection_refused" -> {<<>>, answered("tcp_rst")}
          [] reason = "tcp_timeout" ->
                {<<>>, answered("tcp_syn_ack"), silent("no_matching_response"), silent("probe_not_emitted")}
          [] OTHER -> {<<>>}

\* A connection is made to the resolved address, or to the name if there is none.
Dialled == IF target.literal # Nil THEN target.literal
           ELSE IF results[1].status = "passed" THEN Address ELSE target.identity

TcpEvidence(tested) == <<[kind |-> "tcp_connection", id |-> "tcp-connection", tested |-> tested]>>

TcpResults ==
    LET connected == [Passed("tcp", "tcp", TcpEvidence(Dialled))
                         EXCEPT !.tested = Dialled, !.attempts = <<"none">>]
        lost(r)   == [Failed("tcp", r, "tcp", TcpEvidence(Nil)) EXCEPT !.attempts = <<r>>]
        cancelled == Result("tcp", "error", "tcp_cancellation", "tcp", TcpEvidence(Nil))
        seen(p)   == {[p EXCEPT !.evidence = @ \o f] : f \in FlowsOf(p.reason)}
    IN  UNION {seen(p) : p \in {connected, cancelled}
                   \cup {lost(r) : r \in {"tcp_connection_refused", "tcp_timeout"}}}

RouteEvidence(id, type, selected, gateway) ==
    <<[kind |-> "route", id |-> id, type |-> type, selected |-> selected, gateway |-> gateway]>>

DefaultRouteResults ==
    {Passed("default_route", "route", RouteEvidence("default-route-1", "default", TRUE, TRUE)),
     Failed("default_route", "no_route", "route", RouteEvidence("default-route-1", "default", FALSE, FALSE))}

TargetRouteResults ==
    LET seen(selected, gateway) == RouteEvidence("target-route-1", "target", selected, gateway)
    IN  {Passed("target_route", "route", seen(TRUE, g)) : g \in BOOLEAN}
          \cup {Failed("target_route", "no_route", "route", seen(FALSE, FALSE))}

GatewayResults ==
    LET seen == RouteEvidence("gateway-reachability-1", "gateway", TRUE, TRUE)
    IN  {Passed("gateway_reachability", "gateway", seen),
         Failed("gateway_reachability", Gateway, "gateway", seen)}

ProxyResults ==
    {Passed("proxy_discovery", "proxy", <<>>),
     Failed("proxy_discovery", "proxy_unavailable", "proxy", <<>>)}

-----------------------------------------------------------------------------
(* The enterprise lane: not supported, or the paths of an application       *)
(* without a proxy and of a browser with one.                               *)
EnterprisePath(name, source, mode, leaf, reason) ==
    [name |-> name, source |-> source, mode |-> mode,
     endpoint |-> IF mode = "proxy" THEN "proxy.example" ELSE Nil,
     tcp |-> reason # "proxy_unavailable", attempted |-> reason # "proxy_unavailable",
     connect |-> IF reason = "proxy_unavailable" THEN "unavailable"
                 ELSE IF mode = "proxy" THEN "succeeded" ELSE "not_applicable",
     http |-> IF reason = "none" THEN "ok" ELSE "none", tls |-> reason = "none",
     leaf |-> IF reason \in {"none", "certificate_validation_failure"} THEN leaf ELSE Nil,
     issuer |-> IF reason \in {"none", "certificate_validation_failure"} THEN leaf ELSE Nil,
     trusted |-> reason = "none", hostname |-> reason = "none", reason |-> reason]

EnterprisePaths(direct, proxied, leaf) ==
    << EnterprisePath("application_direct", "application", "direct", "origin", direct),
       EnterprisePath("browser_wininet", "wininet", "proxy", leaf, proxied) >>

EnterpriseEvidence(paths, settings, differs) ==
    LET decision(s, mode) ==
            [source |-> s, mode |-> mode, bypass |-> FALSE, pac |-> FALSE, ok |-> TRUE, error |-> FALSE,
             endpoint |-> IF mode = "proxy" THEN "proxy.example" ELSE Nil]
        config(s, value) == [kind |-> "proxy_settings", id |-> s, source |-> s, settings |-> value,
                             broken |-> FALSE]
    IN  << [kind |-> "connectivity", id |-> "connectivity", paths |-> paths,
            effective |-> <<decision("wininet", "proxy"), decision("winhttp", "direct")>>],
           [kind |-> "route_comparison", id |-> "correlation", differs |-> differs],
           [kind |-> "tls_trust", id |-> "tls", insufficient |-> FALSE, corporate |-> FALSE,
            comparison |-> CompareTls(paths)],
           config("winhttp", "direct"), config("wininet", settings) >>

EnterpriseResults ==
    LET lane(reason, layer, direct, proxied, leaf) ==
            Failed("windows_enterprise", reason, layer,
                   EnterpriseEvidence(EnterprisePaths(direct, proxied, leaf), "proxy", FALSE))
        none == [kind |-> "platform", id |-> "platform"]
    IN  {Result("windows_enterprise", "skipped", "unsupported", "proxy", <<none>>),
         lane("proxy_configuration_divergence", "proxy", "none", "none", "origin"),
         lane("tls_interception_suspected", "tls", "none", "none", "proxy"),
         lane("tls_trust_store_mismatch", "tls", "certificate_validation_failure", "none", "proxy"),
         lane("direct_egress_restricted", "network", "network_unreachable", "none", "origin"),
         lane("proxy_unavailable", "proxy", "none", "proxy_unavailable", "origin")}

-----------------------------------------------------------------------------
PathEvidence(reached, connected) ==
    <<[kind |-> "path_observation", id |-> "path-tcp", destination |-> Dialled, protocol |-> "tcp",
       portaware |-> TRUE, status |-> "observed", reached |-> reached, connected |-> connected]>>

PathResults ==
    {Passed("path", "tcp", PathEvidence(TRUE, TRUE)),
     Passed("path", "network", PathEvidence(TRUE, FALSE)),
     Passed("path", "network", PathEvidence(FALSE, FALSE)),
     Result("path", "skipped", "unsupported", "network", <<>>)}

\* A handshake that fails for its certificate still shows it, and names what is wrong.
TlsResults ==
    LET shake(error, complete) ==
            <<[kind |-> "tls_handshake", id |-> "tls-handshake", error |-> error, complete |-> complete,
               address |-> Dialled]>>
        leaf == <<[kind |-> "certificate", id |-> "tls-certificate-1", leaf |-> TRUE, issuer |-> "origin"]>>
    IN  IF target.protocol \notin {"https", "custom_tls"} THEN {SkippedUrl("tls")}
        ELSE {Passed("tls", "tls", leaf \o shake(Nil, TRUE)),
              Result("tls", "error", "certificate_hostname_mismatch", "tls",
                     leaf \o shake("hostname_mismatch", FALSE)),
              Result("tls", "error", "certificate_validation_failure", "tls",
                     leaf \o shake("untrusted", FALSE)),
              Result("tls", "error", "tls_handshake_failure", "tls", shake("unknown", FALSE)),
              Failed("tls", "tls_transport_failure", "tls", shake("unknown", FALSE))}

HttpResults ==
    LET item(kind, status) == <<[kind |-> kind, id |-> "http", status |-> status]>>
    IN  IF target.protocol \notin {"http", "https"} THEN {SkippedUrl("http")}
        ELSE {Passed("http", "http", item("http_response", "ok")),
              Failed("http", "http_status_code", "http", item("http_response", "error"))}
             \cup {Result("http", "error", r, LayerOf(r, "http"), item("http_error", Nil)) :
                       r \in {"tcp_connection_refused", "request_timeout"}}

\* ssh and rdp: the classes of their evidence, with the result of each.
HandshakeLane ==
    IF target.protocol = "ssh" THEN "ssh_handshake" ELSE "rdp_negotiation"

HandshakeResults ==
    LET shake(class) ==
            <<[kind |-> HandshakeLane, id |-> HandshakeLane, class |-> class,
               connected |-> class # "transport_failure", asked |-> class # "transport_failure",
               received |-> class \notin {"transport_failure", "timeout"}]>>
        of(class) == ProtocolReason[HandshakeLane][class]
    IN  {Passed(target.protocol, target.protocol, shake("answers")),
         Failed(target.protocol, "tcp_connection_refused", "tcp", shake("transport_failure"))}
          \cup {Failed(target.protocol, of(c), target.protocol, shake(c)) : c \in {"timeout", "malformed"}}

SmbResults ==
    LET said(reason, received) ==
            <<[kind |-> "smb_negotiation", id |-> "smb", reason |-> reason, received |-> received]>>
    IN  {Passed("smb", "smb", said("none", TRUE)),
         Failed("smb", "smb_protocol_rejection", "smb", said("smb_protocol_rejection", TRUE)),
         Failed("smb", "smb_timeout", "smb", said("smb_timeout", FALSE)),
         Failed("smb", "smb_connection_refused", "tcp", said("smb_connection_refused", FALSE))}

DnsServiceResults ==
    LET lane(l, outcome) ==
            [kind |-> "dns_service", id |-> l, lane |-> l, attempted |-> TRUE,
             received |-> outcome \notin {"timeout", "transport_failure"}, outcome |-> outcome]
        both(u, t) == <<lane("tcp", t), lane("udp", u)>>
        tested(p)  == [p EXCEPT !.tested = Dialled]
    IN  {tested(Passed("dns_service", "dns", both("success", "success"))),
         tested(Failed("dns_service", "dns_service_timeout", "dns", both("success", "timeout"))),
         Failed("dns_service", "dns_service_timeout", "dns", both("timeout", "timeout")),
         tested(Failed("dns_service", "dns_service_servfail", "dns", both("servfail", "servfail")))}

-----------------------------------------------------------------------------
ResultsOf(lane) ==
    CASE lane = "dns" -> DnsResults                [] lane = "interface_state" -> InterfaceResults
      [] lane = "tcp" -> TcpResults                [] lane = "default_route" -> DefaultRouteResults
      [] lane = "path" -> PathResults              [] lane = "target_route" -> TargetRouteResults
      [] lane = "tls" -> TlsResults                [] lane = "gateway_reachability" -> GatewayResults
      [] lane = "http" -> HttpResults              [] lane = "proxy_discovery" -> ProxyResults
      [] lane = "smb" -> SmbResults                [] lane = "windows_enterprise" -> EnterpriseResults
      [] lane = "dns_service" -> DnsServiceResults [] lane \in {"ssh", "rdp"} -> HandshakeResults
      [] lane = "dns_configuration" -> DnsConfigurationResults

Troubled(result) == result.status \notin {"passed", "skipped"}

\* reportStatus: skipped lanes of another profile, and an absent proxy, gateway or
\* capture, do not make a report incomplete.
Unavailable(p) ==
    /\ p.reason = "unsupported"
    /\ \/ p.layer \in {"gateway", "icmp", "network", "proxy"}
       \/ p.layer \in {"tls", "http"} /\ p.status = "skipped"

ReportStatus(filed) ==
    LET proven == \E p \in ToSet(filed) : p.status = "passed" /\ p.layer \in {"http", "smb", "tcp", "ssh", "rdp"}
        partial(p) == \/ p.status = "skipped"
                      \/ p.status = "error" /\ (p.reason # "http_failure" \/ ~proven)
    IN  IF \E p \in ToSet(filed) : ~Unavailable(p) /\ partial(p) THEN "incomplete" ELSE "complete"

-----------------------------------------------------------------------------
Init ==
    /\ target \in Targets
    /\ results = <<>>
    /\ troubles = 0
    /\ report = NoReport

File ==
    /\ Len(results) < Len(Lanes)
    /\ \E result \in ResultsOf(Lanes[Len(results) + 1]) :
          /\ results' = Append(results, result)
          /\ troubles' = troubles + (IF Troubled(result) THEN 1 ELSE 0)
    /\ troubles' <= MaxTroubles
    /\ UNCHANGED <<target, report>>

\* The context of the run is cancelled while lanes wait for the name or the endpoint.
Cancel ==
    /\ Len(results) \in 3..(Len(Lanes) - 1)
    /\ results' = [i \in DOMAIN Lanes |-> IF i \in DOMAIN results THEN results[i] ELSE GivenUp(Lanes[i])]
    /\ UNCHANGED <<target, troubles, report>>

\* Run, once every lane is filed.
Conclude ==
    /\ ~report.done
    /\ Len(results) = Len(Lanes)
    /\ LET enriched == EnrichTargetEndpoints(target, results)
           observed == Observe(enriched, results)
       IN  report' = [done       |-> TRUE,
                      status     |-> ReportStatus(results),
                      inspection |-> observed.inspection,
                      successes  |-> Successes(observed, OrderedProbes(results)),
                      findings   |-> Findings(observed, OrderedProbes(results)),
                      destination |-> StatusOf(observed),
                      endpoint   |-> EffectiveEndpoint(observed),
                      divergences |-> observed.divergences]
    /\ UNCHANGED <<target, results, troubles>>

Next == File \/ Cancel \/ Conclude

Spec == Init /\ [][Next]_vars /\ WF_vars(Next)

-----------------------------------------------------------------------------
(* Properties of a report against the lanes it was made of.                 *)
Filed == ToSet(results)

PassedLanes == {p.name : p \in {q \in Filed : q.status = "passed"}}

Evidence(kind) == UNION {{e \in ToSet(p.evidence) : e.kind = kind} : p \in Filed}

Found == {report.findings[i] : i \in DOMAIN report.findings}

\* A connection of some lane of the run was answered by the destination.
Connected ==
    \/ PassedLanes \cap {"tcp", "tls", "http", "ssh", "rdp", "smb"} # {}
    \/ \E e \in Evidence("path_observation") : e.connected
    \/ \E e \in Evidence("packet_flow") : Confirmed(e) /\ e.outcome \in Handshakes
    \/ \E e \in Evidence("dns_service") : e.received
    \/ \E e \in Evidence("http_response") \cup Evidence("ssh_handshake") \cup Evidence("rdp_negotiation") :
          e.kind = "http_response" \/ e.connected
    \/ \E e \in Evidence("smb_negotiation") : e.received

\* The run itself, or the capture that watched it, saw a connection come about.
Established ==
    \/ PassedLanes \cap {"tcp", "tls", "http", "ssh", "rdp", "smb"} # {}
    \/ \E e \in Evidence("packet_flow") : Confirmed(e) /\ e.outcome \in Handshakes

\* No finding blames a layer that a connection of the same run got through, also
\* when the lane itself gave up before the answer that the capture saw; unless the
\* finding compares two lanes (selectFindings and candidateContradicted).
SuccessClears ==
    (report.done /\ Established) =>
        \A f \in Found :
            \/ f.reason \in Comparative
            \/ f.layer \notin {"interface", "ip_configuration", "route", "gateway", "network", "tcp"}

\* A destination is shown as reachable only if a lane of this run was answered.
ReachableMeansAnswered ==
    (report.done /\ report.destination.state = "reachable") => Connected

\* When the name does not resolve and nothing was reached, no later layer is blamed.
RootCause ==
    (/\ report.done
     /\ \E p \in Filed : p.name = "dns" /\ p.status = "failed"
     /\ ~Connected)
    => /\ Found # {}
       /\ \A f \in Found : Rank(f.layer) <= Rank("dns")

\* TLS inspection is claimed only of a run whose paths saw different certificates
\* that were both trusted.
InspectionIsFounded ==
    (report.done /\ report.inspection.state \in {"observed", "suspected"}) =>
        \E e \in Evidence("connectivity") :
            \E i, j \in DOMAIN e.paths :
                /\ Nil \notin {e.paths[i].leaf, e.paths[j].leaf}
                /\ e.paths[i].leaf # e.paths[j].leaf
                /\ e.paths[i].trusted /\ e.paths[j].trusted

\* A target whose own boundary was met is shown as reachable: TLS for custom_tls and
\* the transport for custom.
ReachedIsReachable ==
    (/\ report.done
     /\ \A p \in Filed : p # GivenUp(p.name)
     /\ \/ target.protocol = "custom_tls" /\ "tls" \in PassedLanes
        \/ target.protocol = "custom" /\ "tcp" \in PassedLanes)
    => report.destination.state = "reachable"

=============================================================================
