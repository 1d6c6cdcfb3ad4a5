------------------------------ MODULE Diagnosis ------------------------------
(***************************************************************************)
(* The diagnosis of a report (internal/diagnosis/diagnosis.go).  From the  *)
(* observations it collects candidates, each a reason at a layer, and      *)
(* successes, each a layer at an address.  A success contradicts the       *)
(* candidates below it.  The first reason of an ordered table that has an  *)
(* uncontradicted candidate is the finding; an unreachable gateway only    *)
(* supports it.                                                            *)
(*                                                                         *)
(* Wording, fault domains and the evidence that a finding cites are left   *)
(* out.  All candidates are about the target of the report: each carries   *)
(* its identity and its addresses.                                         *)
(***************************************************************************)
EXTENDS EnterpriseObservation

\* Faulty variant: the transport is blamed before the name.
Rules_TransportFirst == << "tcp_timeout", "tcp_connection_refused", "tcp_connection_reset",
    "interface_down", "no_ip_address", "no_route", "dns_nxdomain", "dns_timeout", "probe_execution_failure" >>

\* The diagnosis policy, from the earliest decisive boundary to the latest.
Rules == <<
    "interface_down", "no_ip_address", "no_route", "invalid_route", "effective_route_difference",
    "dns_nxdomain", "dns_no_answer", "dns_timeout", "dns_resolver_failure",
    "proxy_authentication_required", "proxy_connect_denied", "direct_egress_restricted",
    "proxy_configuration_divergence", "proxy_configuration_failure", "proxy_unavailable",
    "network_unreachable", "firewall_blocked", "tcp_timeout", "tcp_connection_refused",
    "tcp_connection_reset", "tcp_syn_not_observed", "tls_interception_suspected",
    "tls_trust_store_mismatch", "tls_handshake_failure", "certificate_validation_failure",
    "http_status_code", "http_failure", "ssh_timeout", "ssh_banner_malformed",
    "ssh_non_ssh_response", "ssh_handshake_failure", "rdp_timeout", "rdp_negotiation_rejected",
    "rdp_negotiation_malformed", "rdp_negotiation_failure", "probe_execution_failure" >>

Gateway == "gateway_unreachable"

Inactive == {"none", "unknown", "unsupported", "icmp_failure", "path_observation_failure",
             "path_cancellation", Nil}

Active(reason) == reason \notin Inactive

Generic(reason) == Active(reason) /\ reason # Gateway /\ reason \notin ToSet(Rules)

TlsReasons == {"tls_handshake_failure", "certificate_validation_failure",
               "tls_trust_store_mismatch", "tls_interception_suspected"}

HttpReasons == {"http_status_code", "http_failure"}

HandshakeReasons ==
    [ssh |-> {"ssh_timeout", "ssh_banner_malformed", "ssh_non_ssh_response", "ssh_handshake_failure"},
     rdp |-> {"rdp_timeout", "rdp_negotiation_rejected", "rdp_negotiation_malformed",
              "rdp_negotiation_failure"},
     smb |-> {"smb_timeout", "smb_protocol_rejection", "smb_malformed_response"}]

TcpReasons == {"tcp_timeout", "tcp_connection_refused", "tcp_connection_reset", "tcp_syn_not_observed"}

\* semantics: the layer of a reason, where the reason alone says it.
ReasonsAt ==
    [interface        |-> {"interface_down"},
     ip_configuration |-> {"no_ip_address"},
     route            |-> {"no_route", "invalid_route", "effective_route_difference"},
     gateway          |-> {Gateway},
     dns              |-> DnsReasons,
     proxy            |-> {"proxy_configuration_failure", "proxy_configuration_divergence",
                           "proxy_unavailable", "proxy_connect_denied",
                           "proxy_authentication_required"},
     network          |-> {"direct_egress_restricted", "network_unreachable", "firewall_blocked"},
     tcp              |-> TcpReasons \cup {"smb_connection_refused"},
     tls              |-> TlsReasons,
     http             |-> HttpReasons,
     ssh              |-> HandshakeReasons.ssh,
     rdp              |-> HandshakeReasons.rdp,
     smb              |-> HandshakeReasons.smb]

LayerOf(reason, fallback) ==
    IF \E l \in DOMAIN ReasonsAt : reason \in ReasonsAt[l]
    THEN CHOOSE l \in DOMAIN ReasonsAt : reason \in ReasonsAt[l] ELSE fallback

RankOf ==
    [interface |-> 10, ip_configuration |-> 10, route |-> 20, gateway |-> 30, dns |-> 40,
     proxy |-> 50, network |-> 60, tcp |-> 70, tls |-> 80, http |-> 90, smb |-> 90, ssh |-> 95,
     rdp |-> 95, destination |-> 100, unknown |-> 1000, icmp |-> 2000]

Rank(layer) == IF layer \in DOMAIN RankOf THEN RankOf[layer] ELSE 1100

-----------------------------------------------------------------------------
(* Candidates and successes.                                                *)
Candidate(reason, fallback, comparative) ==
    IF Active(reason)
    THEN {[reason |-> reason, layer |-> LayerOf(reason, fallback), comparative |-> comparative]} ELSE {}

Candidates(reasons, fallback) == UNION {Candidate(r, fallback, FALSE) : r \in reasons}

Success(layer, at) == [layer |-> layer, at |-> at]

\* The target of the report, its identity, and the addresses that it carries.
Identity(o) == o.endpoint.identity

Addresses(o) == {o.endpoint.literal, o.endpoint.selected, o.endpoint.tested} \ {Nil}

\* targetsCorrelate: a destination of another name keeps the addresses.
Correlates(o, at) == at = Identity(o) \/ Addresses(o) # {}

If(condition, set) == IF condition THEN set ELSE {}

Here(o, layers) == {Success(l, Identity(o)) : l \in layers}

AnySucceeded(attempts) == \E i \in DOMAIN attempts : attempts[i] = "none"

-----------------------------------------------------------------------------
(* What each observation says.                                              *)
FromEndpoint(o) ==
    If(~AnySucceeded(o.endpoint.attempts), Candidates(ToSet(o.endpoint.attempts), "unknown"))

EndpointSuccess(o) == If(o.endpoint.tested # Nil, Here(o, {"tcp"}))

\* collectNameResolution.
FromNames(o) ==
    LET silent == /\ ~Active(o.name.reason) /\ o.name.path
                  /\ o.name.answers = {} /\ o.name.certainty = "observed"
    IN  Candidates({o.name.reason} \cup o.name.conflicts, "dns")
          \cup If(silent, Candidate("dns_no_answer", "dns", FALSE))

NamesResolved(o) == o.name.selected # Nil \/ o.name.answers # {} \/ o.name.literal

NameSuccess(o) == If(NamesResolved(o), Here(o, {"dns"}))

\* collectNetwork.
RouteKnown(o) == o.network.route # "unknown"

FromNetwork(o) ==
    LET moot == RouteKnown(o) /\ o.network.reason \in {"no_route", "invalid_route"}
    IN  If(~moot, Candidates({o.network.reason}, "route"))
          \cup Candidates(o.network.conflicts \ {o.network.reason}, "route")

NetworkSuccess(o) == If(RouteKnown(o), Here(o, {"route"}))

\* collectTransport.
ReasonOfOutcome ==
    [timeout |-> "tcp_timeout", refused |-> "tcp_connection_refused",
     reset |-> "tcp_connection_reset", unreachable |-> "network_unreachable"]

OutcomeReason(outcome) ==
    IF outcome \in DOMAIN ReasonOfOutcome THEN ReasonOfOutcome[outcome] ELSE "none"

Unexplained == {"tcp_timeout", "probe_execution_failure", "unknown", "none"}

Available(o) == SelectSeq(o.flows, LAMBDA f : f.capture = "available")

Confirmed(flow) == flow.certainty = "confirmed_endpoint_response"

Handshakes == {"tcp_handshake_confirmed", "tcp_syn_ack"}

\* strongPacketFlow: the first flow that says something overrides these reasons.
StrongFlow(o, reason) ==
    LET telling == SelectSeq(Available(o), LAMBDA f :
                       f.outcome \in Handshakes \cup {"tcp_rst", "probe_not_emitted"})
    IN  /\ reason \in Unexplained
        /\ telling # <<>>
        /\ Head(telling).outcome \in Handshakes => Confirmed(Head(telling))

TransportSucceeded(o) ==
    \/ o.transport.connected
    \/ o.transport.tested # Nil
    \/ AnySucceeded(o.transport.attempts)

TransportSuccess(o) == If(TransportSucceeded(o), Here(o, {"tcp"}))

FromTransport(o) ==
    LET reason == IF Active(o.transport.reason) THEN o.transport.reason
                  ELSE OutcomeReason(o.transport.outcome)
    IN  If(~TransportSucceeded(o),
           If(~StrongFlow(o, reason) /\ o.transport.applicable, Candidates({reason}, "tcp"))
             \cup Candidates({OutcomeReason(v) : v \in o.transport.conflicts}, "tcp"))

\* collectPacketFlows.
CanStrengthen(o) == o.transport.reason \in Unexplained \/ o.transport.outcome = "timeout"

FromFlows(o) ==
    LET reason(f) == CASE f.outcome = "tcp_rst" /\ Confirmed(f) -> "tcp_connection_reset"
                       [] f.outcome = "probe_not_emitted" -> "tcp_syn_not_observed"
                       [] OTHER -> "none"
    IN  If(CanStrengthen(o), Candidates({reason(f) : f \in ToSet(Available(o))}, "tcp"))

\* Faulty variant: only a completed handshake counts.
FlowSuccess_Complete(o) ==
    If(\E f \in ToSet(Available(o)) : f.outcome = "tcp_handshake_confirmed" /\ Confirmed(f), Here(o, {"tcp"}))

FlowSuccess(o) ==
    If(\E f \in ToSet(Available(o)) : f.outcome \in Handshakes /\ Confirmed(f), Here(o, {"tcp"}))

\* collectPaths.
PathSuccess(o) ==
    {Success("tcp", d) : d \in ConnectedDestinations(o.paths)}
      \cup {Success("tcp", p.destination) : p \in {q \in ToSet(o.paths) :
               /\ q.status = "observed" /\ q.portaware /\ q.protocol = "tcp"
               /\ q.reached /\ q.connected}}

\* collectSecurity.
FromSecurity(o) ==
    LET bad    == o.security.validation \notin {"valid", "unknown"}
        reason == IF Active(o.security.reason) THEN o.security.reason
                  ELSE IF bad THEN "certificate_validation_failure" ELSE "none"
    IN  If(~o.security.complete, Candidates({reason}, "tls"))

SecuritySuccess(o) == If(o.security.complete, Here(o, {"tls"}))

-----------------------------------------------------------------------------
(* collectApplication: what establishes the protocol, and the reason when   *)
(* it is not established.                                                   *)
ApplicationEstablished(a) ==
    CASE a.protocol \in {"http", "https"} -> a.received /\ a.result = "success" /\ a.status # "error"
      [] a.protocol = "dns" -> a.dns \in {"success", "partial"}
      [] a.protocol = "smb" -> a.smb = "negotiated"
      [] a.protocol \in {"ssh", "rdp"} -> a.presult = "success" \/ a.complete
      [] OTHER -> FALSE

ResultReason(o) ==
    LET a == o.application
    IN  CASE a.protocol \in {"http", "https"} ->
               IF a.result = "status_failure" THEN "http_status_code"
               ELSE IF a.result = "request_failure" THEN "http_failure" ELSE "none"
          [] a.protocol = "smb" ->
               IF a.smb = "tcp_failure" THEN OutcomeReason(o.transport.outcome)
               ELSE IF a.smb = "timeout" THEN "smb_timeout"
               ELSE IF a.smb = "protocol_rejection" THEN "smb_protocol_rejection"
               ELSE IF a.smb = "malformed_response" THEN "smb_malformed_response" ELSE "none"
          [] a.protocol = "ssh" ->
               IF a.presult = "timeout" THEN "ssh_timeout"
               ELSE IF a.presult = "malformed" THEN "ssh_banner_malformed"
               ELSE IF a.presult = "failure"
               THEN IF a.received /\ ~a.identified THEN "ssh_non_ssh_response" ELSE "ssh_handshake_failure"
               ELSE "none"
          [] a.protocol = "rdp" ->
               IF a.presult = "timeout" THEN "rdp_timeout"
               ELSE IF a.presult = "rejected" THEN "rdp_negotiation_rejected"
               ELSE IF a.presult = "malformed" THEN "rdp_negotiation_malformed"
               ELSE IF a.presult = "failure" THEN "rdp_negotiation_failure" ELSE "none"
          [] OTHER -> "none"

LayerOfProtocol ==
    [http |-> "http", https |-> "http", dns |-> "dns", smb |-> "smb", ssh |-> "ssh", rdp |-> "rdp"]

\* TLS and custom TCP own their boundaries in security and transport.
Diagnosed(a) == a.applicability = "applicable" /\ a.protocol \in DOMAIN LayerOfProtocol

FromApplication(o) ==
    LET a == o.application
        reason == IF Active(a.reason) THEN a.reason ELSE ResultReason(o)
    IN  If(Diagnosed(a) /\ ~ApplicationEstablished(a),
           Candidates({reason}, LayerOfProtocol[a.protocol]))

ApplicationSuccess(o) ==
    If(Diagnosed(o.application) /\ ApplicationEstablished(o.application),
       Here(o, {LayerOfProtocol[o.application.protocol]}))

-----------------------------------------------------------------------------
(* collectEnterprise: what differs between the lanes, what each path        *)
(* failed with, and what each source of a proxy says.                       *)
FromEnterprise(o) ==
    LET e == o.enterprise
        paths == ToSet(e.paths)
        layer(p) == IF p.mode = "proxy" THEN "proxy" ELSE "unknown"
        source(s) == \/ e.sources[s].broken
                     \/ /\ e.sources[s].effective.observed /\ ~e.sources[s].effective.ok
                        /\ e.sources[s].effective.error
        tls(known) == known /\ ~e.insufficient
    IN  If(e.comparison = "direct_failure_proxy_works",
           Candidate("direct_egress_restricted", "network", TRUE))
          \cup If(e.configurationKnown /\ e.configurationDiverges /\ e.comparison # "unknown",
                  Candidate("proxy_configuration_divergence", "proxy", FALSE))
          \cup If(e.routeKnown /\ e.routeDiffers, Candidate("effective_route_difference", "route", TRUE))
          \cup If(tls(e.tls.possible), Candidate("tls_interception_suspected", "tls", TRUE))
          \cup If(tls(e.tls.mismatch), Candidate("tls_trust_store_mismatch", "tls", TRUE))
          \cup UNION {Candidate(p.reason, layer(p), FALSE) : p \in paths}
          \cup If(\E s \in Sources : source(s), Candidate("proxy_configuration_failure", "proxy", FALSE))
          \cup If(\E s \in Sources : e.sources[s].endpoints \cap {"unavailable", "timeout"} # {},
                  Candidate("proxy_unavailable", "proxy", FALSE))

EnterpriseSuccess(o) ==
    LET good   == {p \in ToSet(o.enterprise.paths) : PathWorks(p)}
        met(p) == p.tcp \/ p.http # "none" \/ p.tls
    IN  If(\E p \in good : met(p), Here(o, {"tcp"}))
          \cup If(\E p \in good : p.tls /\ p.trusted /\ p.hostname, Here(o, {"tls"}))
          \cup If(\E p \in good : p.http = "ok", Here(o, {"http"}))

-----------------------------------------------------------------------------
(* collectCompatibility: what a result itself says, where no observation    *)
(* covers it.                                                               *)
TransportObserved(o) ==
    LET t == o.transport
    IN  \/ Active(t.reason)
        \/ t.outcome # "not_attempted"
        \/ t.evidence # t.flows
        \/ t.attempts # <<>> \/ t.tested # Nil

SecurityObserved(o) == o.security.complete \/ Active(o.security.reason) \/ o.security.evidence # {}

ApplicationObserved(o) ==
    LET a == o.application
    IN  \/ a.attempted \/ a.received \/ a.hattempted \/ a.complete
        \/ Active(a.reason) \/ a.evidence # {}
        \/ a.protocol = "dns" \/ a.smb # Nil
        \/ a.presult \notin {"", "unknown", "not_attempted"}

DnsServiceFailures == {DnsServiceReason[x] : x \in DOMAIN DnsServiceReason} \ {"none"}

ReasonAllowed(o, reason) ==
    CASE reason \in {"interface_down", "no_ip_address"} -> ~Active(o.network.reason)
      [] reason \in {"no_route", "invalid_route"} -> ~RouteKnown(o) /\ ~Active(o.network.reason)
      [] reason = "effective_route_difference" -> ~o.enterprise.routeKnown
      [] reason \in DnsReasons -> ~Active(o.name.reason)
      [] reason \in TcpReasons \cup {"network_unreachable"} ->
            ~TransportObserved(o) /\ ~StrongFlow(o, reason) /\ ~ApplicationObserved(o)
      [] reason \in TlsReasons -> ~SecurityObserved(o) /\ ~o.enterprise.tls.possible
      [] reason \in HttpReasons ->
            ~ApplicationObserved(o) \/ o.application.protocol \notin {"http", "https"}
      [] reason \in UNION {HandshakeReasons[p] : p \in DOMAIN HandshakeReasons}
                      \cup {"smb_connection_refused"} \cup DnsServiceFailures -> ~ApplicationObserved(o)
      [] OTHER -> TRUE

LayerPresent(o, layer) ==
    CASE layer \in {"dns", "route", "interface", "ip_configuration"} -> TRUE
      [] layer = "tcp" -> TransportObserved(o) \/ o.flows # <<>> \/ o.paths # <<>>
      [] layer = "tls" -> SecurityObserved(o) \/ o.enterprise.tls.possible
      [] layer \in {"http", "ssh", "rdp", "smb"} ->
            /\ o.application.protocol \in DOMAIN LayerOfProtocol
            /\ LayerOfProtocol[o.application.protocol] = layer
            /\ ApplicationObserved(o)
      [] OTHER -> FALSE

\* compatibilitySuccessCanFillGap.
FillsGap(o, layer) == layer = "dns" /\ o.name.evidence = {} /\ ~NamesResolved(o)

FromResults(o, probes) ==
    UNION {Candidate(p.reason, p.layer, FALSE) : p \in {q \in ToSet(probes) :
               q.layer # "icmp" /\ ReasonAllowed(o, q.reason)}}

ResultSuccess(o, probes) ==
    UNION {Here(o, {p.layer}) : p \in {q \in ToSet(probes) :
        /\ q.status = "passed" /\ q.reason = "none" /\ q.layer # "proxy"
        /\ ~LayerPresent(o, q.layer) \/ FillsGap(o, q.layer)}}

-----------------------------------------------------------------------------
AllCandidates(o, probes) ==
    FromEndpoint(o) \cup FromNames(o) \cup FromNetwork(o) \cup FromTransport(o) \cup FromFlows(o)
      \cup FromSecurity(o) \cup FromApplication(o) \cup FromEnterprise(o) \cup FromResults(o, probes)

Successes(o, probes) ==
    EndpointSuccess(o) \cup NameSuccess(o) \cup NetworkSuccess(o) \cup TransportSuccess(o)
      \cup FlowSuccess(o) \cup PathSuccess(o) \cup SecuritySuccess(o) \cup ApplicationSuccess(o)
      \cup EnterpriseSuccess(o) \cup ResultSuccess(o, probes)

\* successfulLayerContradicts: the successes that rule a failed layer out.
Services == {"http", "smb", "ssh", "rdp"}

\* Faulty variant: a success clears no layer but its own.
Contradicts_Own == [l \in {"network", "tcp", "tls", "dns", "proxy", "http", "ssh", "rdp", "smb"} |-> {l}]

Contradicts ==
    [l \in {"interface", "ip_configuration", "route", "gateway", "network", "tcp"} |->
        {"tcp", "tls"} \cup Services]
      @@ [l \in {"tls"} |-> {"tls"} \cup Services]
      @@ [l \in {"dns", "proxy", "http", "ssh", "rdp", "smb"} |-> {l}]

Comparative == {"direct_egress_restricted", "effective_route_difference",
                "tls_interception_suspected", "tls_trust_store_mismatch",
                "proxy_configuration_divergence"}

\* candidateContradicted.
Contradicted(o, candidate, successes) ==
    /\ ~candidate.comparative
    /\ candidate.reason \notin Comparative
    /\ candidate.layer \in DOMAIN Contradicts
    /\ \E s \in successes : Correlates(o, s.at) /\ s.layer \in Contradicts[candidate.layer]

\* gatewayCandidates: none where the route needs no gateway.
GatewaySupports(o, viable) ==
    /\ o.network.route # "on_link"
    /\ o.network.route = "routed" => o.network.gateway
    /\ \E c \in viable : c.reason = Gateway

\* selectFindings.  Among candidates of one reason or one layer the choice is
\* arbitrary where the code takes the first it made.
Findings(o, probes) ==
    LET successes == Successes(o, probes)
        viable    == {c \in AllCandidates(o, probes) : ~Contradicted(o, c, successes)}
        named     == {i \in DOMAIN Rules : \E c \in viable : c.reason = Rules[i]}
        generic   == {c \in viable : Generic(c.reason)}
        first     == CHOOSE i \in named : \A j \in named : i <= j
        rule      == CHOOSE c \in viable : c.reason = Rules[first]
        lowest    == CHOOSE c \in generic : \A d \in generic : Rank(c.layer) <= Rank(d.layer)
        cause     == IF generic # {} /\ (named = {} \/ Rank(lowest.layer) < Rank(rule.layer))
                     THEN {lowest} ELSE If(named # {}, {rule})
        finding(c) == [reason |-> c.reason, layer |-> c.layer]
        support   == If(GatewaySupports(o, viable), {finding([reason |-> Gateway, layer |-> "gateway"])})
    IN  SetToSeq({finding(c) : c \in cause}) \o SetToSeq(support)

=============================================================================
