---------------------------- MODULE Observations ----------------------------
(***************************************************************************)
(* The projection of the probe results of one report into observations     *)
(* (internal/observations/builder.go).  Build reads nothing but the target *)
(* and the results, so it is a function of them, stated here one           *)
(* observation at a time.                                                  *)
(*                                                                         *)
(* A result is [name, status, reason, layer, evidence, tested, attempts]   *)
(* with its evidence as a sequence in the order of the evidence IDs; an    *)
(* item of evidence is a record with a kind, an id, and the fields of its  *)
(* kind that a decision reads.  An endpoint is an address: all lanes of a  *)
(* run use the port of the target.                                         *)
(***************************************************************************)
EXTENDS Naturals, FiniteSets, Sequences, SequencesExt

Nil == "nil"

Known(reason) == reason \notin {"none", "unknown"}

DnsReasons == {"dns_nxdomain", "dns_no_answer", "dns_timeout", "dns_resolver_failure"}

-----------------------------------------------------------------------------
(* The results in the order of their names, and the evidence of some kinds  *)
(* in that order, each item with the result that it came with.              *)
NamesInOrder ==
    << "default_route", "dns", "dns_configuration", "dns_service", "gateway_reachability",
       "http", "interface_state", "path", "proxy_discovery", "rdp", "smb", "ssh",
       "target_route", "tcp", "tls", "windows_enterprise" >>

OrderedProbes(results) ==
    LET filed(name) == \E i \in DOMAIN results : results[i].name = name
        names == SelectSeq(NamesInOrder, filed)
    IN  [i \in DOMAIN names |-> results[CHOOSE j \in DOMAIN results : results[j].name = names[i]]]

Items(probes, kinds) ==
    LET kept(p) == SelectSeq(p.evidence, LAMBDA e : e.kind \in kinds)
    IN  FlattenSeq([i \in DOMAIN probes |->
            [j \in DOMAIN kept(probes[i]) |-> [probe |-> probes[i], e |-> kept(probes[i])[j]]]])

Ids(items) == {items[i].e.id : i \in DOMAIN items}

EvidenceIDs(probe) == {probe.evidence[i].id : i \in DOMAIN probe.evidence}

Named(probes, names) == SelectSeq(probes, LAMBDA p : p.name \in names)

\* The first value of a sequence that is one, and the first known reason.
FirstValue(values) ==
    LET some == SelectSeq(values, LAMBDA v : v # Nil)
    IN  IF some = <<>> THEN Nil ELSE Head(some)

FirstKnown(reasons) ==
    LET known == SelectSeq(reasons, Known)
    IN  IF known # <<>> THEN Head(known)
        ELSE IF reasons = <<>> THEN "none" ELSE Last(reasons)

\* distinctSourceValues, conflict: sources that name more than one value.
Conflicting(values) == Cardinality(ToSet(values) \ {Nil}) > 1

-----------------------------------------------------------------------------
(* enrichTargetEndpoints (internal/orchestrate/run.go): what the probes     *)
(* found out about the endpoint becomes the target of every result.  The    *)
(* results are in job order here, so dns_service comes after tcp.           *)
Answers(items) == FlattenSeq([i \in DOMAIN items |-> items[i].e.answers])

EnrichTargetEndpoints(target, results) ==
    LET answers  == Answers(Items(results, {"dns_resolution"}))
        lanes    == Named(results, {"tcp"}) \o Named(results, {"dns_service"})
        tested   == FirstValue(Reverse([i \in DOMAIN lanes |-> lanes[i].tested]))
        tried    == SelectSeq(lanes, LAMBDA p : p.attempts # <<>>)
        literal  == IF target.literal = Nil THEN <<>> ELSE <<target.literal>>
        resolved == IF answers # <<>> THEN answers ELSE literal
    IN  [target EXCEPT
            !.candidates = resolved,
            !.selected = FirstValue(resolved),
            !.tested = tested,
            !.attempts = IF tried = <<>> THEN <<>> ELSE Last(tried).attempts]

\* buildEndpointObservation, for a target that has been enriched.
EndpointObservation(target, probes) ==
    LET resolution == Items(probes, {"dns_resolution"})
        tcp        == Items(probes, {"tcp_connection"})
    IN  [identity   |-> target.identity,
         literal    |-> target.literal,
         protocol   |-> target.protocol,
         candidates |-> target.candidates,
         selected   |-> target.selected,
         tested     |-> target.tested,
         attempts   |-> target.attempts,
         evidence   |-> Ids(resolution) \cup Ids(tcp),
         conflict   |-> Conflicting([i \in DOMAIN tcp |-> tcp[i].e.tested] \o <<target.tested>>)]

-----------------------------------------------------------------------------
(* buildNameResolutionObservation.                                          *)
DnsFailures(probes) ==
    SelectSeq(probes, LAMBDA p : (p.layer = "dns" \/ p.reason \in DnsReasons) /\ Known(p.reason))

NameResolutionObservation(target, probes) ==
    LET resolution == Items(probes, {"dns_resolution"})
        settings   == Items(probes, {"dns_configuration"})
        failures   == DnsFailures(probes)
        literal    == target.literal # Nil
        answers    == Answers(resolution) \o (IF literal THEN <<target.literal>> ELSE <<>>)
        path       == literal \/ \E i \in DOMAIN resolution : resolution[i].e.effective
        skipped    == \E i \in DOMAIN probes : probes[i].reason = "unsupported"
    IN  [name      |-> target.identity,
         answers   |-> ToSet(answers),
         selected  |-> FirstValue(answers),
         path      |-> path,
         literal   |-> literal,
         certainty |-> CASE resolution # <<>> \/ path        -> "observed"
                         [] resolution = <<>> /\ ~path /\ skipped -> "unsupported"
                         [] OTHER -> IF settings # <<>> THEN "inferred" ELSE "unknown",
         reason    |-> IF failures = <<>> THEN Nil ELSE Head(failures).reason,
         conflicts |-> {failures[i].reason : i \in DOMAIN failures},
         evidence  |-> Ids(resolution) \cup Ids(settings)
                         \cup (IF failures = <<>> THEN {} ELSE EvidenceIDs(Head(failures)))]

-----------------------------------------------------------------------------
(* NetworkContextFromProbeResults (internal/probe/route/context.go): the    *)
(* route that the target-route probe saw, or the one of the gateway probe   *)
(* when no target-route probe ran.                                          *)
RouteSeen(probes) ==
    LET routes == Items(probes, {"route"})
        target == SelectSeq(routes, LAMBDA r : r.e.type = "target")
        other  == SelectSeq(routes, LAMBDA r : r.e.type = "gateway")
    IN  IF target # <<>> THEN <<Last(target)>>
        ELSE IF Named(probes, {"target_route"}) = <<>> /\ other # <<>> THEN <<Head(other)>> ELSE <<>>

Disposition(seen) ==
    IF seen = <<>> \/ ~Head(seen).e.selected THEN "unknown"
    ELSE IF Head(seen).e.gateway THEN "routed" ELSE "on_link"

\* buildNetworkObservation.
NetworkFailures(probes) ==
    SelectSeq(probes, LAMBDA p :
        /\ p.layer \in {"interface", "ip_configuration", "route"} \/ p.reason = "gateway_unreachable"
        /\ Known(p.reason))

NetworkObservation(target, probes) ==
    LET seen     == RouteSeen(probes)
        failures == NetworkFailures(probes)
        reasons  == [i \in DOMAIN failures |-> failures[i].reason]
    IN  [identity |-> target.identity,
         route    |-> Disposition(seen),
         gateway  |-> Disposition(seen) = "routed",
         reason   |-> IF reasons = <<>> THEN Nil ELSE Head(reasons),
         conflicts |-> ToSet(reasons),
         evidence |-> Ids(Items(probes, {"route", "interface_state"}))]

-----------------------------------------------------------------------------
(* buildTransportObservation.  The flow that a probe carries names that     *)
(* probe, so packetFlowMatches holds of every one.                          *)
OutcomeOf ==
    [tcp_connection_refused |-> "refused",     tcp_connection_reset |-> "reset",
     tcp_timeout            |-> "timeout",     tcp_host_unreachable |-> "unreachable",
     network_unreachable    |-> "unreachable", tcp_cancellation     |-> "canceled",
     cancellation           |-> "canceled",    unsupported          |-> "unsupported"]

TransportOutcome(p) ==
    IF p.status = "passed" /\ p.reason = "none" THEN "connected"
    ELSE IF p.reason \in DOMAIN OutcomeOf THEN OutcomeOf[p.reason] ELSE "failed"

TransportObservation(target, endpoint, probes) ==
    LET tcp      == Items(probes, {"tcp_connection"})
        flows    == Ids(Items(probes, {"packet_flow"}))
        outcomes == [i \in DOMAIN tcp |-> TransportOutcome(tcp[i].probe)]
        unused   == tcp = <<>> /\ endpoint.tested = Nil
        foreign  == target.transport = "udp"
        outcome  == CASE endpoint.tested # Nil -> "connected"
                      [] outcomes # <<>> /\ endpoint.tested = Nil -> Head(outcomes)
                      [] unused -> IF foreign /\ endpoint.selected = Nil THEN "unsupported"
                                   ELSE "not_attempted"
    IN  [applicable |-> tcp # <<>> \/ ~foreign,
         connected  |-> outcome = "connected",
         outcome    |-> outcome,
         reason     |-> IF outcome = "unsupported" /\ unused THEN "unsupported"
                        ELSE FirstKnown([i \in DOMAIN tcp |-> tcp[i].probe.reason]),
         tested     |-> endpoint.tested,
         attempts   |-> endpoint.attempts,
         flows      |-> flows,
         evidence   |-> Ids(tcp) \cup flows,
         conflicts  |-> IF Conflicting(outcomes) THEN ToSet(outcomes) ELSE {}]

-----------------------------------------------------------------------------
(* buildSecurityObservation.  The tls probe sorts before the enterprise     *)
(* probe, whose trust evidence names no interception: the trust store it    *)
(* reports is an object and explicitInterceptionEvidence wants a text.      *)
\* The error of a handshake names what is wrong with the certificate, but is
\* looked at only under the general reason.
CertificateValidation(reason, error) ==
    CASE reason = "none" -> "valid"
      [] reason = "certificate_validation_failure" -> error
      [] OTHER -> "unknown"

SecurityObservation(target, endpoint, transport, probes) ==
    LET shakes       == Items(probes, {"tls_handshake"})
        certificates == Items(probes, {"certificate"})
        trust        == Items(probes, {"tls_trust"})
        tls          == Named(probes, {"tls"})
        silent       == tls # <<>> /\ shakes = <<>>
        attempted    == shakes # <<>> \/ trust # <<>> \/ silent
        seen         == shakes # <<>> \/ certificates # <<>> \/ trust # <<>>
        leaves       == SelectSeq(certificates, LAMBDA c : c.e.leaf)
        validations  == [i \in DOMAIN shakes |->
                            CertificateValidation(shakes[i].probe.reason, shakes[i].e.error)]
        known        == SelectSeq(validations, LAMBDA v : v # "unknown")
        addresses    == <<transport.tested>> \o [i \in DOMAIN shakes |-> shakes[i].e.address]
                            \o (IF attempted THEN <<endpoint.selected>> ELSE <<>>)
    IN  [applicability |-> IF seen THEN "applicable"
                           ELSE IF target.protocol \in {"https", "custom_tls"} THEN "not_attempted"
                           ELSE "inapplicable",
         attempted     |-> attempted,
         complete      |-> \E i \in DOMAIN shakes : shakes[i].e.complete,
         validation    |-> IF known = <<>> THEN "unknown" ELSE Last(known),
         certificates  |-> certificates # <<>>,
         reason        |-> FirstKnown([i \in DOMAIN shakes |-> shakes[i].probe.reason]
                                          \o (IF silent THEN <<tls[1].reason>> ELSE <<>>)),
         used          |-> FirstValue(addresses),
         conflict      |-> \/ Conflicting(validations)
                           \/ Conflicting([i \in DOMAIN leaves |-> leaves[i].e.issuer]),
         evidence      |-> Ids(shakes) \cup Ids(certificates) \cup Ids(trust)]

-----------------------------------------------------------------------------
(* buildApplicationObservation, in its three forms: a DNS service, a        *)
(* protocol with a handshake of its own (ssh, rdp), and HTTP or SMB.        *)
NoApplication(protocol, used) ==
    [protocol |-> protocol, applicability |-> "applicable", attempted |-> FALSE,
     received |-> FALSE, connected |-> FALSE, hattempted |-> FALSE, complete |-> FALSE,
     identified |-> FALSE, result |-> "not_attempted", presult |-> "", status |-> Nil,
     reason |-> "none", dns |-> Nil, smb |-> Nil, used |-> used, evidence |-> {}]

DnsServiceReason ==
    [success |-> "none", negative_response |-> "none", not_attempted |-> "none",
     refused |-> "dns_service_refused", servfail |-> "dns_service_servfail",
     protocol_failure |-> "dns_service_protocol_failure",
     malformed_response |-> "dns_service_malformed_response",
     truncated_response |-> "dns_service_truncated_response",
     timeout |-> "dns_service_timeout", cancellation |-> "dns_service_cancellation",
     no_resolved_endpoint |-> "dns_service_no_endpoint",
     transport_failure |-> "dns_service_transport_failure"]

DnsLaneSucceeded(e) == e.attempted /\ e.received /\ e.outcome \in {"success", "negative_response"}

DnsApplication(endpoint, probes) ==
    LET lanes     == Items(probes, {"dns_service"})
        attempted == \E i \in DOMAIN lanes : lanes[i].e.attempted
        good      == {i \in DOMAIN lanes : DnsLaneSucceeded(lanes[i].e)}
        both      == {"udp", "tcp"} \subseteq {lanes[i].e.lane : i \in good}
        reasons   == SelectSeq([i \in DOMAIN lanes |-> DnsServiceReason[lanes[i].e.outcome]], Known)
    IN  [NoApplication("dns", endpoint.tested) EXCEPT
            !.attempted = attempted,
            !.received  = \E i \in DOMAIN lanes : lanes[i].e.received,
            !.evidence  = Ids(lanes),
            !.dns       = CASE ~attempted -> "not_attempted" [] attempted /\ both -> "success"
                            [] attempted /\ ~both -> IF good # {} THEN "partial" ELSE "failure",
            !.result    = CASE ~attempted -> "not_attempted" [] attempted /\ both -> "success"
                            [] attempted /\ ~both -> IF good # {} THEN "partial" ELSE "request_failure",
            !.reason    = IF ~attempted \/ good # {} THEN "none"
                          ELSE IF reasons = <<>> THEN "dns_service_transport_failure"
                          ELSE Head(reasons)]

ProtocolResult ==
    [ssh_handshake   |-> [answers |-> "success", timeout |-> "timeout", malformed |-> "malformed",
                          non_ssh |-> "failure", handshake_failure |-> "failure",
                          transport_failure |-> "failure", canceled |-> "failure"],
     rdp_negotiation |-> [answers |-> "success", timeout |-> "timeout", rejected |-> "rejected",
                          malformed |-> "malformed", failure |-> "failure",
                          transport_failure |-> "failure", canceled |-> "failure"]]

ProtocolReason ==
    [ssh_handshake   |-> [answers |-> "none", timeout |-> "ssh_timeout",
                          malformed |-> "ssh_banner_malformed", non_ssh |-> "ssh_non_ssh_response",
                          handshake_failure |-> "ssh_handshake_failure",
                          transport_failure |-> "none", canceled |-> "none"],
     rdp_negotiation |-> [answers |-> "none", timeout |-> "rdp_timeout",
                          rejected |-> "rdp_negotiation_rejected",
                          malformed |-> "rdp_negotiation_malformed",
                          failure |-> "rdp_negotiation_failure",
                          transport_failure |-> "none", canceled |-> "none"]]

ProtocolApplication(target, used, probes) ==
    LET shakes == Items(probes, {"ssh_handshake", "rdp_negotiation"})
        last   == Last(shakes).e
        met    == \E i \in DOMAIN shakes : shakes[i].e.connected
    IN  IF shakes = <<>>
        THEN [NoApplication(target.protocol, used) EXCEPT
                 !.applicability = "not_attempted", !.presult = "not_attempted"]
        ELSE [NoApplication(IF last.kind = "ssh_handshake" THEN "ssh" ELSE "rdp", used) EXCEPT
                 !.applicability = IF met THEN "applicable" ELSE "not_attempted",
                 !.attempted  = met,
                 !.connected  = met,
                 !.hattempted = \E i \in DOMAIN shakes : shakes[i].e.asked,
                 !.received   = \E i \in DOMAIN shakes : shakes[i].e.received,
                 !.complete   = \E i \in DOMAIN shakes : shakes[i].e.class = "answers",
                 !.identified = \E i \in DOMAIN shakes : shakes[i].e.class = "answers",
                 !.presult    = ProtocolResult[last.kind][last.class],
                 !.reason     = ProtocolReason[last.kind][last.class],
                 !.evidence   = Ids(shakes)]

SmbResult ==
    [none |-> "negotiated", smb_timeout |-> "timeout",
     smb_protocol_rejection |-> "protocol_rejection",
     smb_malformed_response |-> "malformed_response", tcp_timeout |-> "tcp_failure",
     tcp_connection_refused |-> "tcp_failure", smb_connection_refused |-> "tcp_failure"]

\* An http lane without evidence, even a skipped one, counts as a request that
\* failed, and its reason comes before that of the smb lane.
HttpSmbApplication(target, used, probes) ==
    LET http   == Items(probes, {"http_response", "http_error"})
        smb    == Items(probes, {"smb_negotiation"})
        lane   == Named(probes, {"http"})
        silent == lane # <<>> /\ http = <<>>
        answer == http # <<>> /\ Last(http).e.kind = "http_response"
        failed == answer /\ Last(http).e.status = "error"
        first  == CASE answer -> IF failed THEN "http_status_code" ELSE "none"
                    [] ~answer /\ http # <<>> -> "http_failure"
                    [] ~answer /\ http = <<>> -> IF silent THEN lane[1].reason ELSE "none"
    IN  [NoApplication(target.protocol, used) EXCEPT
            !.applicability = IF http # <<>> \/ silent \/ smb # <<>> THEN "applicable"
                              ELSE IF target.protocol \in {"http", "https"} THEN "not_attempted"
                              ELSE "inapplicable",
            !.attempted = http # <<>> \/ silent \/ smb # <<>>,
            !.received  = answer \/ \E i \in DOMAIN smb : smb[i].e.received,
            !.status    = IF answer THEN Last(http).e.status ELSE Nil,
            !.result    = CASE answer -> IF failed THEN "status_failure" ELSE "success"
                            [] ~answer /\ (silent \/ http # <<>>) -> "request_failure"
                            [] ~answer /\ ~silent /\ http = <<>> -> "not_attempted",
            !.reason    = FirstKnown(<<first>> \o [i \in DOMAIN smb |-> smb[i].e.reason]),
            !.smb       = IF smb = <<>> THEN Nil
                          ELSE IF Last(smb).e.reason \in DOMAIN SmbResult THEN SmbResult[Last(smb).e.reason]
                          ELSE "unknown",
            !.evidence  = Ids(http) \cup Ids(smb)]

ApplicationObservation(target, endpoint, transport, probes) ==
    LET used == FirstValue(<<transport.tested, endpoint.tested>>)
    IN  IF target.protocol = "dns" \/ Items(probes, {"dns_service"}) # <<>>
        THEN DnsApplication(endpoint, probes)
        ELSE IF target.protocol \in {"ssh", "rdp"}
                    \/ Items(probes, {"ssh_handshake", "rdp_negotiation"}) # <<>>
        THEN ProtocolApplication(target, used, probes)
        ELSE HttpSmbApplication(target, used, probes)

-----------------------------------------------------------------------------
(* buildPathFlowObservations: the measured paths, the packet flows, and     *)
(* where a path and a capture of the same destination disagree.             *)
Paths(probes) ==
    LET items == Items(probes, {"path_observation"}) IN [i \in DOMAIN items |-> items[i].e]

Flows(probes) ==
    LET items == Items(probes, {"packet_flow"}) IN [i \in DOMAIN items |-> items[i].e]

\* CorrelatePathObservations: the destinations that a port-aware path connected to.
ConnectedDestinations(paths) ==
    {paths[i].destination : i \in {j \in DOMAIN paths :
        paths[j].protocol = "tcp" /\ paths[j].portaware /\ paths[j].connected}}

TcpAnswers == {"tcp_handshake_confirmed", "tcp_syn_ack", "tcp_rst"}

FlowProtocol(flow) ==
    CASE flow.outcome \in TcpAnswers \/ flow.protocol = "tcp" -> "tcp"
      [] flow.outcome \notin TcpAnswers /\ flow.protocol = "icmp" -> "icmp"
      [] OTHER -> ""

PathConfirmation(path) == path.reached \/ path.connected

FlowExplicit(flow) ==
    /\ flow.capture = "available"
    /\ flow.outcome \in TcpAnswers \cup {"icmp_echo_reply", "icmp_time_exceeded", "icmp_unreachable",
                                         "no_matching_response"}

FlowConfirmation(flow) == flow.outcome \in TcpAnswers \cup {"icmp_echo_reply"}

Divergences(paths, flows) ==
    {paths[i].destination : i \in {j \in DOMAIN paths :
        /\ paths[j].status = "observed"
        /\ \E k \in DOMAIN flows :
              /\ FlowProtocol(flows[k]) = paths[j].protocol
              /\ FlowExplicit(flows[k])
              /\ PathConfirmation(paths[j]) # FlowConfirmation(flows[k])}}

=============================================================================
