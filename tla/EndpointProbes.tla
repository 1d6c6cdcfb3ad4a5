--------------------------- MODULE EndpointProbes ---------------------------
(***************************************************************************)
(* The probes that connect to the target and speak its protocol: tcp, ssh, *)
(* rdp, smb, tls and http under internal/probe.  tcp, ssh and rdp try the  *)
(* bounded list of endpoint candidates in order and give each an equal     *)
(* share of their time; smb and tls try one address; http follows          *)
(* redirects.  Bytes are abstract: a peer accepts or refuses, and answers  *)
(* as the protocol wants it, otherwise, or not at all.                     *)
(***************************************************************************)
EXTENDS ProbeRun

CONSTANTS
    MaxCandidates,   \* bound on endpoint candidates (model.MaxEndpointCandidates)
    Timeout,         \* the probe's own timeout, in ticks
    MaxRedirects     \* DefaultMaxRedirects of the http probe

ASSUME EndpointAssumption ==
    /\ MaxCandidates \in Nat \ {0} /\ Timeout \in Nat /\ MaxRedirects \in Nat \ {0}
    /\ Timeout >= MaxCandidates

ListProbes     == {"tcp", "ssh", "rdp"}
EndpointNames  == ListProbes \cup {"smb", "tls", "http"}

(* A host refuses, resets or cannot be reached, never answers a SYN, or     *)
(* accepts; one that accepts answers in a way the protocol tells apart.     *)
SshReplies  == {"answers", "foreign", "malformed", "breaks", "silent"}
RdpReplies  == {"answers", "rejects", "garbled", "malformed", "breaks", "silent"}
SmbReplies  == {"answers", "rejects", "foreign", "malformed", "breaks", "silent"}
TlsReplies  == {"answers", "expired", "invalid", "hostname", "unknown_authority", "foreign", "silent"}
HttpReplies == {"answers", "error_status", "redirects", "certificate", "foreign", "breaks", "closes",
                "silent"}

Replies(name) ==
    CASE name = "tcp"  -> {"answers"}
      [] name = "ssh"  -> SshReplies
      [] name = "rdp"  -> RdpReplies
      [] name = "smb"  -> SmbReplies
      [] name = "tls"  -> TlsReplies
      [] name = "http" -> HttpReplies

Hosts(name) ==
    {[dial |-> "accepts", reply |-> r] : r \in Replies(name)}
    \cup {[dial |-> d, reply |-> "silent"] : d \in {"refuses", "resets", "unreachable", "hangs"}}

\* ProbeEndpointCandidates, cut to the limit; for http the chain of redirects.
EndpointWorlds(name) ==
    [valid : {TRUE}, hosts : UNION {[1..n -> Hosts(name)] :
                                       n \in 1..(IF name \in {"smb", "tls"} THEN 1 ELSE MaxCandidates)}]
    \cup [valid : {FALSE}, hosts : {<<>>}]

EndpointWork == [at |-> 0, left |-> 0, open |-> FALSE, attempts |-> <<>>, reported |-> NoResult]

EndpointInit == \E name \in EndpointNames : Begins(name, EndpointWorlds(name), EndpointWork)

-----------------------------------------------------------------------------
Candidates == Len(world.hosts)
Host       == world.hosts[IF work.at > Candidates THEN Candidates ELSE work.at]

\* Faulty variant: every candidate may use the whole timeout.
Share_Whole == Timeout

\* The time a candidate is given; the probes that try one address give it all.
Share == IF probe \in ListProbes THEN Timeout \div Candidates ELSE Timeout

\* The deadline of the attempt has passed, or that of the run.  An smb probe
\* starts a second timeout when it is connected.
Over == work.left = 0 \/ (probe # "smb" /\ clock >= Timeout)

R(status, reason, layer, domain) == Result(status, reason, layer, domain, work.at)

InvalidTarget ==
    CASE probe = "tcp"  -> R("error", "tcp_invalid_address", "tcp", "local")
      [] probe = "ssh"  -> R("error", "ssh_handshake_failure", "ssh", "ssh")
      [] probe = "rdp"  -> R("error", "rdp_negotiation_failure", "rdp", "rdp")
      [] probe = "smb"  -> R("failed", "smb_connection_refused", "tcp", "transport")
      [] probe = "tls"  -> R("error", "probe_execution_failure", "tls", "tls")
      [] probe = "http" -> R("error", "malformed_url", "http", "http")

\* The context was over before Run began; smb does not look.
AlreadyOver ==
    LET cancelled == ctx = "cancelled" IN
    CASE probe = "tcp"  -> R("error", IF cancelled THEN "tcp_cancellation" ELSE "tcp_timeout", "tcp",
                             IF cancelled THEN "local" ELSE "transport")
      [] probe = "ssh"  -> R("error", IF cancelled THEN "ssh_handshake_failure" ELSE "ssh_timeout",
                             "ssh", "ssh")
      [] probe = "rdp"  -> R("error", IF cancelled THEN "rdp_negotiation_failure" ELSE "rdp_timeout",
                             "rdp", "rdp")
      [] probe = "tls"  -> R("failed", IF cancelled THEN "cancellation" ELSE "tls_transport_failure",
                             "tls", IF cancelled THEN "tls" ELSE "transport")
      [] probe = "http" -> R("error", IF cancelled THEN "cancellation" ELSE "request_timeout", "http",
                             "http")

-----------------------------------------------------------------------------
(* A dial fails with refused, reset, unreachable, timed_out or interrupted; *)
(* the contexts are looked at first, so a late cancellation wins.           *)
Late == ctx = "deadline" \/ Over

TcpReset == "tcp_connection_reset"
TcpRefused == "tcp_connection_refused"

\* normalizeError and faultDomainFor of the tcp probe.
TcpDialFailure(error) ==
    CASE ctx = "cancelled" -> R("error", "tcp_cancellation", "tcp", "local")
      [] ctx # "cancelled" /\ Late -> R("failed", "tcp_timeout", "tcp", "transport")
      [] ctx # "cancelled" /\ ~Late ->
            CASE error = "refused" -> R("failed", TcpRefused, "tcp", "destination")
              [] error = "reset"   -> R("failed", TcpReset, "tcp", "destination")
              [] OTHER             -> R("failed", "network_unreachable", "tcp", "network")

\* transportOutcome of the ssh and rdp probes.
ListDialFailure(error, other) ==
    CASE ctx = "cancelled" -> R("error", other, "tcp", "transport")
      [] ctx # "cancelled" /\ Late -> R("failed", "tcp_timeout", "tcp", "transport")
      [] ctx # "cancelled" /\ ~Late ->
            R("failed",
              CASE error = "refused" -> TcpRefused [] error = "reset" -> TcpReset [] OTHER -> other,
              "tcp", "transport")

SshDialFailure(error) == ListDialFailure(error, "ssh_handshake_failure")
RdpDialFailure(error) == ListDialFailure(error, "rdp_negotiation_failure")

\* classifyDialError of the smb probe: any other error, also a cancellation,
\* counts as a refusal.
SmbDialFailure(error) ==
    R("failed",
      CASE error = "timed_out" \/ ctx = "deadline" -> "tcp_timeout"
        [] error = "refused" /\ ctx # "deadline"   -> TcpRefused
        [] OTHER                                   -> "smb_connection_refused",
      "tcp", "transport")

TlsDialFailure ==
    IF ctx = "cancelled" THEN R("failed", "cancellation", "tls", "tls")
    ELSE R("failed", "tls_transport_failure", "tls", "transport")

\* classifyRequestError: the contexts, then what went wrong, always an error.
HttpFailure(error) ==
    CASE ctx = "cancelled"         -> R("error", "cancellation", "http", "http")
      [] ctx # "cancelled" /\ Late -> R("error", "request_timeout", "http", "http")
      [] ctx # "cancelled" /\ ~Late ->
            CASE error = "redirects"   -> R("error", "redirect_failure", "http", "http")
              [] error = "certificate" -> R("error", "certificate_validation_failure", "tls", "tls")
              [] error = "foreign"     -> R("error", "tls_handshake_failure", "tls", "tls")
              [] error = "refused"     -> R("error", TcpRefused, "tcp", "transport")
              [] error \in {"reset", "breaks"} -> R("error", TcpReset, "tcp", "transport")
              [] error = "unreachable" -> R("error", "network_unreachable", "network", "network")
              [] OTHER                 -> R("error", "http_failure", "http", "http")

DialFailure(error) ==
    CASE probe = "tcp"  -> TcpDialFailure(error)
      [] probe = "ssh"  -> SshDialFailure(error)
      [] probe = "rdp"  -> RdpDialFailure(error)
      [] probe = "smb"  -> SmbDialFailure(error)
      [] probe = "tls"  -> TlsDialFailure
      [] probe = "http" -> HttpFailure(error)

-----------------------------------------------------------------------------
(* What a probe makes of the peer's reply, or of the lack of one.           *)
SshReply(reply) ==
    CASE reply = "answers"   -> R("passed", "none", "ssh", "ssh")
      [] reply = "timed_out" -> R("failed", "ssh_timeout", "ssh", "ssh")
      [] reply = "foreign"   -> R("failed", "ssh_non_ssh_response", "ssh", "ssh")
      [] reply = "breaks"    -> R("failed", "ssh_handshake_failure", "ssh", "ssh")
      [] OTHER               -> R("failed", "ssh_banner_malformed", "ssh", "ssh")

RdpReply(reply) ==
    CASE reply = "answers"   -> R("passed", "none", "rdp", "rdp")
      [] reply = "timed_out" -> R("failed", "rdp_timeout", "rdp", "rdp")
      [] reply = "rejects"   -> R("failed", "rdp_negotiation_rejected", "rdp", "rdp")
      [] reply = "breaks"    -> R("failed", "rdp_negotiation_failure", "rdp", "rdp")
      [] OTHER               -> R("failed", "rdp_negotiation_malformed", "rdp", "rdp")

SmbReply(reply) ==
    CASE reply = "answers"   -> R("passed", "none", "smb", "smb")
      [] reply # "answers" /\ (reply = "timed_out" \/ ctx = "deadline")
                             -> R("failed", "smb_timeout", "smb", "smb")
      [] reply = "malformed" /\ ctx # "deadline"
                             -> R("failed", "smb_malformed_response", "smb", "smb")
      [] OTHER               -> R("failed", "smb_protocol_rejection", "smb", "smb")

\* interpretationForHandshake; finishResult is given no observation here, so the
\* status stays that of the empty result.
TlsReply(reply) ==
    CASE reply = "answers" -> R("passed", "none", "tls", "tls")
      [] reply # "answers" /\ ctx = "cancelled" -> R("error", "cancellation", "tls", "tls")
      [] reply # "answers" /\ ctx # "cancelled" ->
            R("error",
              CASE Late                        -> "tls_timeout"
                [] ~Late /\ reply = "expired"  -> "certificate_expired"
                [] ~Late /\ reply = "invalid"  -> "certificate_validation_failure"
                [] ~Late /\ reply = "hostname" -> "certificate_hostname_mismatch"
                [] ~Late /\ reply = "unknown_authority" -> "certificate_unknown_authority"
                [] OTHER                       -> "tls_handshake_failure",
              "tls", "tls")

HttpReply(reply) ==
    CASE reply = "answers"      -> R("passed", "none", "http", "http")
      [] reply = "error_status" -> R("failed", "http_status_code", "http", "http")
      [] OTHER                  -> HttpFailure(reply)

Reply(reply) ==
    CASE probe = "ssh"  -> SshReply(reply)
      [] probe = "rdp"  -> RdpReply(reply)
      [] probe = "smb"  -> SmbReply(reply)
      [] probe = "tls"  -> TlsReply(reply)
      [] probe = "http" -> HttpReply(reply)

-----------------------------------------------------------------------------
Waiting == pc \in {"dialing", "exchanging"}

\* A tick in which nothing arrives.
EndpointWaits ==
    /\ Waiting /\ ~Over
    /\ clock' = clock + 1
    /\ work' = [work EXCEPT !.left = @ - 1]
    /\ UNCHANGED <<probe, world, pc, ctx, result>>

Refuses(value) == Return(value, work) /\ UNCHANGED clock

Dials(locals) ==
    Continue("dialing", [locals EXCEPT !.at = @ + 1, !.left = Share, !.open = FALSE]) /\ UNCHANGED clock

EndpointBegins ==
    /\ pc = "start"
    /\ \/ probe = "http" /\ ctx # "live" /\ Refuses(AlreadyOver)
       \/ (probe = "http" => ctx = "live") /\ ~world.valid /\ Refuses(InvalidTarget)
       \/ world.valid /\ probe \notin {"smb", "http"} /\ ctx # "live" /\ Refuses(AlreadyOver)
       \/ world.valid /\ (probe = "smb" \/ ctx = "live") /\ Dials(work)

Attempted(outcome) == [candidate |-> work.at, outcome |-> outcome, cut |-> work.left > 0]

\* Faulty variant: the tcp probe reports its last candidate.
Reported_Last(value) == value

\* tcp reports its first candidate when all have failed, ssh and rdp the last.
Reported(value) == IF probe = "tcp" /\ work.at > 1 THEN work.reported ELSE value

\* An attempt ends and its connection is closed: the list goes on with the next
\* candidate, unless one has passed or an error came with the context over.
Settle(value, outcome) ==
    LET noted  == [work EXCEPT !.attempts = Append(@, Attempted(outcome)), !.open = FALSE,
                               !.reported = Reported(value)]
        parsed == outcome \in {"rejects", "garbled"} /\ probe = "rdp"
    IN  IF value.status = "passed" THEN Return(value, noted) /\ UNCHANGED clock
        ELSE IF probe \in ListProbes /\ work.at < Candidates /\ (ctx = "live" \/ parsed) THEN Dials(noted)
        ELSE Return(noted.reported, noted) /\ UNCHANGED clock

Accepts ==
    /\ Host.dial = "accepts"
    /\ IF probe = "tcp"
       THEN Settle(R("passed", "none", "tcp", "transport"), "answers")
       ELSE /\ Continue("exchanging", [work EXCEPT !.open = TRUE,
                                                  !.left = IF probe = "smb" THEN Timeout ELSE @])
            /\ UNCHANGED clock

DialFails(error) == Settle(DialFailure(error), error)

EndpointDials ==
    /\ pc = "dialing"
    /\ \/ Accepts
       \/ Host.dial = "refuses" /\ DialFails("refused")
       \/ Host.dial = "resets" /\ DialFails("reset")
       \/ Host.dial = "unreachable" /\ DialFails("unreachable")
       \/ Over /\ DialFails("timed_out")
       \/ ctx # "live" /\ DialFails("interrupted")

Redirected == probe = "http" /\ Host.reply = "redirects"

\* The deadline of the connection, which is never later than the caller's.
TimesOut == Over \/ ctx = "deadline"

\* The peer replies, or the wait for it ends: at the deadline of the connection,
\* or, in the tls and http probes only, when the context is cancelled.
EndpointReply ==
    /\ pc = "exchanging"
    /\ \/ /\ Host.reply # "silent" /\ ~Redirected
          /\ Settle(Reply(Host.reply), Host.reply)
       \/ TimesOut /\ Settle(Reply("timed_out"), "timed_out")
       \/ /\ probe \in {"tls", "http"} /\ ctx = "cancelled"
          /\ Settle(Reply("interrupted"), "interrupted")

\* CheckRedirect: the hop is recorded, and the next request is sent unless it
\* would be one too many.  The time of the request goes on.
EndpointRedirect ==
    /\ pc = "exchanging" /\ Redirected
    /\ IF work.at >= MaxRedirects THEN Settle(Reply("redirects"), "redirects")
       ELSE /\ Continue("dialing", [work EXCEPT !.at = @ + 1, !.open = FALSE,
                                                !.attempts = Append(@, Attempted("redirects"))])
            /\ UNCHANGED clock

\* Run of each of the probes.
TcpRun  == probe = "tcp" /\ (EndpointBegins \/ EndpointWaits \/ EndpointDials)
SshRun  == probe = "ssh" /\ (EndpointBegins \/ EndpointWaits \/ EndpointDials \/ EndpointReply)
RdpRun  == probe = "rdp" /\ (EndpointBegins \/ EndpointWaits \/ EndpointDials \/ EndpointReply)
SmbRun  == probe = "smb" /\ (EndpointBegins \/ EndpointWaits \/ EndpointDials \/ EndpointReply)
TlsRun  == probe = "tls" /\ (EndpointBegins \/ EndpointWaits \/ EndpointDials \/ EndpointReply)
HttpRun ==
    /\ probe = "http"
    /\ EndpointBegins \/ EndpointWaits \/ EndpointDials \/ EndpointReply \/ EndpointRedirect

EndpointNext == TcpRun \/ SshRun \/ RdpRun \/ SmbRun \/ TlsRun \/ HttpRun

-----------------------------------------------------------------------------
EndpointDone == Done /\ probe \in EndpointNames

\* A slow or silent candidate takes nothing from the others: an attempt that times
\* out while the caller waits has had its whole share, the run stays within its
\* time, and when a run that nobody stopped has failed, every candidate was tried
\* (the attempt budgets of tcp, ssh and rdp).
FairShare ==
    probe \in EndpointNames =>
        /\ clock <= IF probe = "smb" THEN 2 * Timeout ELSE Timeout
        /\ ctx = "live" =>
             \A i \in DOMAIN work.attempts :
                 work.attempts[i].outcome = "timed_out" => ~work.attempts[i].cut
        /\ Done /\ ctx = "live" /\ probe \in ListProbes /\ world.valid /\ result.status # "passed" =>
             Len(work.attempts) = Candidates

\* A result says of the candidate it names what happened there, and no candidate
\* that answered is hidden behind the failure of another one.
EvidenceIsKept ==
    EndpointDone /\ work.attempts # <<>> =>
        /\ \E i \in DOMAIN work.attempts : work.attempts[i].candidate = result.about
        /\ (\E i \in DOMAIN work.attempts : work.attempts[i].outcome = "answers")
             <=> result.status = "passed"
        /\ result.reason = TcpRefused => world.hosts[result.about].dial = "refuses"
        /\ probe = "tcp" /\ result.status # "passed" => result.about = 1
=============================================================================
