--------------------------- MODULE DestinationStatus ---------------------------
(***************************************************************************)
(* The status that a report shows for its destination                      *)
(* (internal/report/destination_status.go): reachable, unreachable,        *)
(* degraded or indeterminate, from the first of the application, security, *)
(* path and transport observations that settles it.                        *)
(*                                                                         *)
(* A projection that does not settle it is Unsettled; the labels and the   *)
(* details are left out.                                                   *)
(***************************************************************************)
EXTENDS EnterpriseObservation

Judged(state, reason) ==
    [state |-> state, reason |-> IF reason \in {Nil, "unknown"} THEN "none" ELSE reason]

Unsettled == Judged("unsettled", "none")

Settles(verdict) == verdict # Unsettled

Reachable == Judged("reachable", "none")

Degraded(reason) == Judged("degraded", reason)

Indeterminate(reason) == Judged("indeterminate", reason)

\* The first of some verdicts that settles it.
FirstSettled(verdicts) ==
    LET settled == SelectSeq(verdicts, Settles)
    IN  IF settled = <<>> THEN Unsettled ELSE Head(settled)

-----------------------------------------------------------------------------
(* transportDestinationStatus.                                              *)
FailureOfOutcome ==
    [refused |-> "tcp_connection_refused", reset |-> "tcp_connection_reset",
     timeout |-> "tcp_timeout", unreachable |-> "network_unreachable", failed |-> "unknown"]

ConcreteReasons == {"tcp_connection_refused", "tcp_connection_reset", "tcp_timeout",
                    "network_unreachable"}

TransportStatus(o) ==
    LET t == o.transport
        concrete == t.outcome \in DOMAIN FailureOfOutcome \/ t.reason \in ConcreteReasons
    IN  IF t.connected THEN Reachable
        ELSE IF concrete
        THEN Judged("unreachable", IF Known(t.reason) THEN t.reason ELSE FailureOfOutcome[t.outcome])
        ELSE Unsettled

(* pathDestinationStatus: a port-aware path, then a capture.                *)
\* Faulty variant: a path that reached the destination counts as a connection.
PathStatus_Reached(o) ==
    IF \E p \in ToSet(o.paths) : p.protocol = "tcp" /\ p.reached THEN Reachable ELSE Unsettled

PathStatus(o) ==
    LET measured == SelectSeq(o.paths, LAMBDA p : p.protocol = "tcp" /\ p.portaware)
        of(p) == CASE p.connected -> Reachable
                   [] ~p.connected /\ p.reached -> Judged("unreachable", "tcp_connection_refused")
                   [] OTHER -> Unsettled
        answered == SelectSeq(o.flows, LAMBDA f : f.capture = "available"
                                          /\ f.certainty = "confirmed_endpoint_response")
        seen(f) == CASE f.outcome \in {"tcp_handshake_confirmed", "tcp_syn_ack"} -> Reachable
                     [] f.outcome = "tcp_rst" -> Judged("unreachable", "tcp_connection_reset")
                     [] OTHER -> Unsettled
    IN  FirstSettled([i \in DOMAIN measured |-> of(measured[i])]
                       \o [i \in DOMAIN answered |-> seen(answered[i])])

-----------------------------------------------------------------------------
(* applicationDestinationStatus.                                            *)
ApplicationAttempted(a) ==
    \/ a.attempted \/ a.received \/ a.hattempted
    \/ a.presult \notin {"", "not_attempted"}
    \/ a.result \notin {"", "not_attempted"}

RequiresBoundary(protocol) == protocol \in {"http", "https", "smb", "ssh", "rdp", "dns", "custom_tls"}

Met(o) == o.application.connected \/ o.transport.connected

NotAttempted(o) ==
    LET tls  == o.application.protocol \in {"https", "custom_tls"} /\ o.security.attempted
        path == PathStatus(o)
        none == Indeterminate("none")
    IN  IF tls THEN Unsettled
        ELSE IF Settles(path) THEN IF path.state = "reachable" THEN none ELSE path
        ELSE IF TransportStatus(o).state = "unreachable" THEN TransportStatus(o) ELSE none

SmbStatus(o) ==
    LET a == o.application
    IN  CASE a.smb = "negotiated" -> Reachable
          [] a.smb = "tcp_failure" -> FirstSettled(<<TransportStatus(o), Indeterminate(a.reason)>>)
          [] OTHER -> IF ApplicationAttempted(a) /\ (a.received \/ Met(o)) THEN Degraded(a.reason)
                      ELSE Unsettled

HttpStatus(o) ==
    LET a == o.application
        reason == IF Known(a.reason) THEN a.reason ELSE "http_status_code"
    IN  CASE a.received /\ (a.status = "error" \/ a.result = "status_failure") -> Degraded(reason)
          [] a.received /\ a.status # "error" /\ a.result = "success" -> Reachable
          [] OTHER -> IF ~ApplicationAttempted(a) THEN Unsettled
                      ELSE IF Met(o) THEN Degraded(a.reason) ELSE TransportStatus(o)

HandshakeStatus(o) ==
    LET a == o.application
    IN  IF a.complete \/ a.presult = "success" THEN Reachable
        ELSE IF ~ApplicationAttempted(a) THEN Unsettled
        ELSE IF Met(o) \/ a.received \/ a.used # Nil THEN Degraded(a.reason) ELSE TransportStatus(o)

OtherStatus(o) ==
    LET a == o.application
    IN  IF (a.attempted \/ a.received \/ a.hattempted) /\ (a.received \/ Met(o))
        THEN Degraded(a.reason) ELSE Unsettled

\* A request that was recorded as failed is judged as one of HTTP, whatever
\* the protocol of the target.
ApplicationStatus(o) ==
    LET a    == o.application
        http == \/ a.protocol \in {"http", "https"}
                \/ a.result \in {"success", "status_failure", "request_failure"}
    IN  IF RequiresBoundary(a.protocol) /\ ~ApplicationAttempted(a) THEN NotAttempted(o)
        ELSE IF a.protocol = "smb" \/ a.smb # Nil THEN SmbStatus(o)
        ELSE IF http THEN HttpStatus(o)
        ELSE IF a.protocol \in {"ssh", "rdp"} THEN HandshakeStatus(o) ELSE OtherStatus(o)

\* securityDestinationStatus.
SecurityStatus(o) ==
    LET s == o.security
    IN  CASE s.complete -> Reachable
          [] ~s.complete /\ s.attempted ->
                IF o.transport.connected \/ s.used # Nil THEN Degraded(s.reason) ELSE TransportStatus(o)
          [] OTHER -> Unsettled

-----------------------------------------------------------------------------
(* DestinationStatusFromObservations.                                       *)
NoName(o) ==
    \/ o.name.reason # Nil /\ Known(o.name.reason)
    \/ o.name.certainty = "observed" /\ o.name.answers = {}

StatusOf(o) ==
    LET path == PathStatus(o)
    IN  FirstSettled(
            << ApplicationStatus(o), SecurityStatus(o),
               IF path.state = "reachable" THEN path ELSE Unsettled,
               TransportStatus(o), path,
               Indeterminate(IF NoName(o) THEN o.name.reason ELSE "none") >>)

\* effectiveDestinationEndpoint: the endpoint that the status is shown with.
EffectiveEndpoint(o) ==
    FirstValue(<< o.application.used, o.security.used, o.transport.tested, o.endpoint.tested,
                  o.endpoint.selected >>)

=============================================================================
