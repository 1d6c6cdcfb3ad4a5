------------------------------ MODULE ProxyProbes ------------------------------
(***************************************************************************)
(* The two probes of the configured proxies.  proxy (internal/probe/proxy) *)
(* reads the WinHTTP and WinINET settings and connects to every endpoint   *)
(* they name.  enterprise (internal/probe/enterprise) resolves the proxy   *)
(* for the target from each of them, observes the target along the path    *)
(* that this gives and along the direct one, and compares what it saw.     *)
(***************************************************************************)
EXTENDS ProbeRun

CONSTANTS
    ProxyEndpointNames,   \* the endpoints that settings may name
    MaxChecks             \* maxReachabilityChecks, for each source

ASSUME ProxyAssumption == MaxChecks \in Nat \ {0} /\ ProxyEndpointNames # {}

Bad    == "malformed"
Direct == "DIRECT"
None   == "none"

-----------------------------------------------------------------------------
(* A native proxy string is a list of values, each for the scheme of the    *)
(* target or for any; an entry for another scheme is one that no target     *)
(* selects.                                                                 *)
Values == ProxyEndpointNames \cup {Bad, Direct}

SomeEndpoint == CHOOSE e \in ProxyEndpointNames : TRUE

Part(scheme, value) == [scheme |-> scheme, value |-> value]

Lists(schemes, longest) ==
    UNION {[1..n -> {Part(s, v) : s \in schemes, v \in Values}] : n \in 0..longest}

\* parseProxyEndpoints: the endpoints in order, whether there is any, and whether
\* any value is malformed.
EndpointsOf(list) ==
    LET named(part) == part.value \in ProxyEndpointNames
        parts == SelectSeq(list, named)
    IN  [i \in DOMAIN parts |-> parts[i].value]

NamesEndpoint(list) == \E i \in DOMAIN list : list[i].value \in ProxyEndpointNames

Malformed(list) == \E i \in DOMAIN list : list[i].value = Bad

\* available: the settings could be read; pac: a PAC url or auto-detection is set;
\* bypass: the target matches one of the bypass patterns.
Source(available, list, pac, bypass) ==
    [available |-> available, list |-> list, pac |-> pac, bypass |-> bypass]

NoSource == Source(FALSE, <<>>, FALSE, FALSE)

SourceNames == <<"winhttp", "wininet">>

\* normalizeConfiguration.
State(source) ==
    CASE ~source.available -> "configuration_unavailable"
      [] source.available /\ Malformed(source.list) -> "malformed_proxy_endpoint"
      [] source.available /\ ~Malformed(source.list) /\ source.pac -> "pac_configured"
      [] OTHER -> IF NamesEndpoint(source.list) THEN "static_proxy_configured" ELSE "direct"

-----------------------------------------------------------------------------
(* The proxy probe.  Every short list for each source, and every list of as *)
(* many endpoints as are checked and one more.                              *)
ProxyWorlds ==
    LET any(n, pacs) == {Source(TRUE, l, p, FALSE) : l \in Lists({"any"}, n), p \in pacs} \cup {NoSource}
        endpoints == {Part("any", e) : e \in ProxyEndpointNames}
        beyond == {Source(TRUE, l, FALSE, FALSE) : l \in [1..(MaxChecks + 1) -> endpoints]}
    IN  [discovery : {"sources"}, winhttp : any(2, BOOLEAN) \cup beyond, wininet : any(1, {FALSE}),
         reach : [ProxyEndpointNames -> {"reachable", "unreachable", "silent"}]]
        \cup [discovery : {"unsupported", "fails"}, winhttp : {NoSource}, wininet : {NoSource},
              reach : {[e \in ProxyEndpointNames |-> "silent"]}]

\* source, at: what is checked next; state: of the source; dialed: what came of its
\* endpoints; states, checks: what the evidence of the sources says.
ProxyWork == [source |-> 1, at |-> 1, dialing |-> FALSE, state |-> None, dialed |-> <<>>,
              states |-> <<>>, checks |-> <<>>]

ProxyInit == Begins("proxy", ProxyWorlds, ProxyWork)

ProxyResult(status, reason) == Result(status, reason, "proxy", "proxy", 0)

Untimed == UNCHANGED clock

ProxyBegins ==
    /\ probe = "proxy" /\ pc = "start" /\ Untimed
    /\ IF ctx # "live" THEN Return(ProxyResult("error", "probe_execution_failure"), work)
       ELSE Continue("discover", work)

SourceAt(n) == world[SourceNames[n]]

\* The locals of the loop over the sources, for the next one.
AtSource(n, locals) ==
    [locals EXCEPT !.source = n, !.at = 1, !.dialed = <<>>,
                   !.state = IF n > Len(SourceNames) THEN None ELSE State(SourceAt(n))]

ProxyDiscovers ==
    /\ probe = "proxy" /\ pc = "discover" /\ Untimed
    /\ \/ ctx # "live" /\ Return(ProxyResult("error", "probe_execution_failure"), work)
       \/ world.discovery = "unsupported" /\ Return(ProxyResult("skipped", "unsupported"), work)
       \/ world.discovery = "fails" /\ Return(ProxyResult("error", "proxy_configuration_failure"), work)
       \/ world.discovery = "sources" /\ Continue("checking", AtSource(1, work))

Unchecked == EndpointsOf(SourceAt(work.source).list)

\* Faulty variant: an endpoint that answers clears the failure of an earlier one.
Checked_Last(status, state) ==
    LET dialFailed == state \in {"proxy_endpoint_unreachable", "proxy_endpoint_timeout"}
    IN  [work EXCEPT !.at = @ + 1, !.dialing = FALSE, !.dialed = Append(@, status),
                     !.state = IF status = "reachable" /\ dialFailed
                               THEN State(SourceAt(work.source)) ELSE state]

\* The state of the source becomes that of the last endpoint that failed, also when
\* the settings were malformed or name a PAC.
Checked(status, state) ==
    [work EXCEPT !.at = @ + 1, !.dialing = FALSE, !.dialed = Append(@, status), !.state = state]

\* checkEndpoints, one endpoint: beyond the limit or after the end of the context
\* there is no dial.
ProxyChecks ==
    /\ probe = "proxy" /\ pc = "checking" /\ Untimed
    /\ work.source <= Len(SourceNames) /\ work.at <= Len(Unchecked) /\ ~work.dialing
    /\ Continue("checking",
         CASE work.at > MaxChecks -> Checked("not_checked", work.state)
           [] work.at <= MaxChecks /\ ctx # "live" -> Checked("canceled", "proxy_endpoint_timeout")
           [] OTHER -> [work EXCEPT !.dialing = TRUE])

\* The dial ends: by what the endpoint does, by its own timeout, or with the context.
ProxyDials ==
    /\ probe = "proxy" /\ pc = "checking" /\ work.dialing /\ Untimed
    /\ LET found == world.reach[Unchecked[work.at]] IN
       \/ found = "reachable" /\ Continue("checking", Checked("reachable", work.state))
       \/ (found = "unreachable" \/ ctx = "cancelled")
             /\ Continue("checking", Checked("unreachable", "proxy_endpoint_unreachable"))
       \/ (found = "silent" \/ ctx = "deadline")
             /\ Continue("checking", Checked("timeout", "proxy_endpoint_timeout"))

ProxyNextSource ==
    /\ probe = "proxy" /\ pc = "checking" /\ Untimed
    /\ work.source <= Len(SourceNames) /\ work.at > Len(Unchecked) /\ ~work.dialing
    /\ Continue("checking",
         AtSource(work.source + 1, [work EXCEPT !.states = Append(@, work.state),
                                                !.checks = Append(@, work.dialed)]))

\* A configuration failure beats an endpoint that cannot be reached, and the end of
\* the context beats both.
ProxyVerdict ==
    LET states == ToSet(work.states) IN
    CASE ctx # "live" -> ProxyResult("error", "probe_execution_failure")
      [] ctx = "live" /\ states \cap {"configuration_unavailable", "malformed_proxy_endpoint"} # {} ->
            ProxyResult("error", "proxy_configuration_failure")
      [] OTHER ->
            IF states \cap {"proxy_endpoint_unreachable", "proxy_endpoint_timeout"} # {}
            THEN ProxyResult("failed", "proxy_unavailable")
            ELSE ProxyResult("passed", None)

ProxyReturns ==
    /\ probe = "proxy" /\ pc = "checking" /\ work.source > Len(SourceNames) /\ Untimed
    /\ Return(ProxyVerdict, work)

ProxyNext ==
    ProxyBegins \/ ProxyDiscovers \/ ProxyChecks \/ ProxyDials \/ ProxyNextSource \/ ProxyReturns

-----------------------------------------------------------------------------
(* The enterprise probe.  ProxyEndpointForURL: the first entry for the      *)
(* scheme, but DIRECT if any entry for it says so; else the first entry     *)
(* for any; a malformed value matters only when nothing was selected.       *)
EntriesFor(list, scheme) ==
    {i \in DOMAIN list : list[i].scheme = scheme /\ list[i].value # Bad}

\* Faulty variant: entries for the scheme and for any are one list.
ProxyEndpointForURL_Flat(list) ==
    LET entries == EntriesFor(list, "target") \cup EntriesFor(list, "any")
    IN  IF entries = {} THEN Direct ELSE list[Min(entries)].value

ProxyEndpointForURL(list) ==
    LET own == EntriesFor(list, "target")
        any == EntriesFor(list, "any")
    IN  CASE \E i \in own : list[i].value = Direct -> Direct
          [] own # {} /\ (\A i \in own : list[i].value # Direct) -> list[Min(own)].value
          [] own = {} /\ any # {} -> list[Min(any)].value
          [] OTHER -> IF Malformed(list) THEN Bad ELSE Direct

\* resolveStaticProxyForURL, resolveProxyForURL and resolveEffectiveProxy: the mode
\* and endpoint of the path, or an error.  WinHTTP answers for a PAC as it likes.
Resolved(mode, endpoint) == [mode |-> mode, endpoint |-> endpoint]
Unresolved == Resolved("error", None)

Resolutions(source) ==
    CASE ~source.available \/ ctx # "live" -> {Unresolved}
      [] source.available /\ ctx = "live" /\ source.pac ->
            {Unresolved, Resolved("direct", None)} \cup {Resolved("pac", SomeEndpoint)}
      [] OTHER ->
            LET chosen == ProxyEndpointForURL(source.list)
                bypassed == source.bypass /\ NamesEndpoint(source.list)
            IN  {CASE Malformed(source.list) -> Unresolved
                   [] ~Malformed(source.list) /\ (bypassed \/ chosen = Direct) -> Resolved("direct", None)
                   [] OTHER -> Resolved("proxy", chosen)}

\* Every short list for one source while the other is unreadable or direct, and
\* every pair of a few kinds of sources.
EnterpriseWorlds ==
    LET lists == {Source(TRUE, l, FALSE, FALSE) : l \in Lists({"target", "any"}, 2)}
        few   == {NoSource, Source(TRUE, <<>>, TRUE, FALSE), Source(TRUE, <<>>, FALSE, FALSE),
                  Source(TRUE, <<Part("any", SomeEndpoint)>>, FALSE, FALSE)}
        bypassing == {Source(TRUE, l, FALSE, TRUE) : l \in Lists({"any"}, 1)}
    IN  [environment : {"collected"}, valid : {TRUE}, https : {TRUE}, winhttp : lists,
         wininet : {NoSource, Source(TRUE, <<>>, FALSE, FALSE)}]
        \cup [environment : {"collected"}, valid : BOOLEAN, https : BOOLEAN,
              winhttp : few \cup bypassing, wininet : few]
        \cup [environment : {"unsupported", "fails"}, valid : {TRUE}, https : {TRUE},
              winhttp : {NoSource}, wininet : {NoSource}]

\* The browser's path, the services' path and the application's.
PathNames == <<"wininet", "winhttp", "direct">>

\* at: the path; proxies: how it was resolved, connect: what CONNECT said; paths: what
\* was observed, in order.
EnterpriseWork == [at |-> 1, connect |-> None, proxies |-> <<>>, paths |-> <<>>]

EnterpriseInit == Begins("enterprise", EnterpriseWorlds, EnterpriseWork)

EnterpriseResult(status, reason, layer, domain) == Result(status, reason, layer, domain, 0)
NotCollected == EnterpriseResult("error", "probe_execution_failure", "proxy", "proxy")

\* SnapshotEnvironment, and Run before it.  Nothing collected is an error.
EnterpriseBegins ==
    /\ probe = "enterprise" /\ pc = "start" /\ Untimed
    /\ \/ ctx # "live" /\ Return(NotCollected, work)
       \/ ctx = "live" /\ world.environment = "fails" /\ Return(NotCollected, work)
       \/ ctx = "live" /\ world.environment = "unsupported" /\
             Return(EnterpriseResult("skipped", "unsupported", "proxy", "proxy"), work)
       \/ ctx = "live" /\ world.environment = "collected" /\
             Continue(IF world.valid THEN "resolve" ELSE "correlate", work)

NextPath(locals) ==
    Continue(IF locals.at = Len(PathNames) THEN "correlate" ELSE "resolve",
             [locals EXCEPT !.at = @ + 1, !.connect = None])

\* A source that cannot be resolved has no path.
EnterpriseResolves ==
    /\ probe = "enterprise" /\ pc = "resolve" /\ Untimed
    /\ IF PathNames[work.at] = "direct"
       THEN Continue("request", [work EXCEPT !.proxies = Append(@, Resolved("direct", None))])
       ELSE \E effective \in Resolutions(world[PathNames[work.at]]) :
              LET noted == [work EXCEPT !.proxies = Append(@, effective)] IN
              \/ effective.mode = "error" /\ NextPath(noted)
              \/ effective.mode \in {"proxy", "pac"} /\ Continue("connect", noted)
              \/ effective.mode = "direct" /\ Continue("request", noted)

Proxied(path) == path.mode \in {"proxy", "pac"}

Path(reason, certificate, trusted, hostname, connect) ==
    [name |-> PathNames[work.at], mode |-> work.proxies[work.at].mode,
     endpoint |-> work.proxies[work.at].endpoint, reason |-> reason, certificate |-> certificate,
     trusted |-> trusted, hostname |-> hostname, connect |-> connect]

Observe(path) == NextPath([work EXCEPT !.paths = Append(@, path)])

\* probeCONNECT for https and probeProxyTCP otherwise: without a tunnel, or with no
\* connection in time, there is no request.
EnterpriseConnects ==
    /\ probe = "enterprise" /\ pc = "connect" /\ Untimed
    /\ \E outcome \in {"unavailable"}
                      \cup (IF ctx # "live" THEN {} ELSE {"succeeded"})
                      \cup (IF ctx = "live" /\ world.https THEN {"auth_required", "denied"} ELSE {}) :
         CASE outcome = "succeeded" -> Continue("request", [work EXCEPT !.connect = outcome])
           [] outcome = "auth_required" ->
                Observe(Path("proxy_authentication_required", None, FALSE, FALSE, outcome))
           [] outcome = "denied" -> Observe(Path("proxy_connect_denied", None, FALSE, FALSE, outcome))
           [] OTHER -> Observe(Path("proxy_unavailable", None, FALSE, FALSE, outcome))

\* The ConnectOutcome that observePath keeps when the request was made.
Connect(challenged) ==
    CASE work.proxies[work.at].mode # "direct" /\ world.https -> work.connect
      [] OTHER -> IF challenged THEN "auth_required" ELSE "not_applicable"

\* ProbeHTTPPath: a proxy may present a certificate of its own.  A handshake that
\* fails still shows the certificate, and whether only the name was wrong.
EnterpriseRequests ==
    /\ probe = "enterprise" /\ pc = "request" /\ Untimed
    /\ \/ \E certificate \in {"own"} \cup (IF work.connect = "succeeded" THEN {"other"} ELSE {}) :
            LET shown == IF world.https THEN certificate ELSE None
                tls   == world.https
            IN  /\ ctx = "live"
                /\ \/ \E reason \in {None, "http_status_code"} :
                         Observe(Path(reason, shown, tls, tls, Connect(FALSE)))
                   \/ Observe(Path("proxy_authentication_required", shown, tls, tls, Connect(TRUE)))
                   \/ /\ tls
                      /\ \/ Observe(Path("certificate_validation_failure", shown, FALSE, TRUE, Connect(FALSE)))
                         \/ Observe(Path("certificate_validation_failure", shown, TRUE, FALSE, Connect(FALSE)))
       \/ Observe(Path(CASE ctx = "cancelled" -> "probe_execution_failure"
                         [] ctx = "deadline"  -> "tcp_timeout"
                         [] ctx = "live"      -> "network_unreachable",
                       None, FALSE, FALSE, Connect(FALSE)))

-----------------------------------------------------------------------------
Works(path) == path.reason = None

PathsOf(which(_)) == {work.paths[i] : i \in {j \in DOMAIN work.paths : which(work.paths[j])}}

DirectPaths == LET own(path) == path.name = "direct" IN PathsOf(own)

\* The proxied path that is compared: the browser's if it is one.
ComparedPaths ==
    LET proxied == PathsOf(Proxied)
        browser == {p \in proxied : p.name = "wininet"}
    IN  IF browser # {} THEN browser ELSE proxied

\* Faulty variant: a different certificate is enough.
PossibleInterception_Certificates ==
    \E d \in DirectPaths, p \in ComparedPaths :
        None \notin {d.certificate, p.certificate} /\ d.certificate # p.certificate

\* compareTLS.
PossibleInterception ==
    \E d \in DirectPaths, p \in ComparedPaths :
        /\ None \notin {d.certificate, p.certificate} /\ d.certificate # p.certificate
        /\ d.trusted /\ p.trusted /\ d.hostname /\ p.hostname

TrustMismatch ==
    \E d \in DirectPaths, p \in ComparedPaths : Works(p) /\ d.certificate # None /\ ~d.trusted

ConfigurationsDiverge ==
    /\ world.winhttp.available /\ world.wininet.available
    /\ \/ State(world.winhttp) # State(world.wininet)
       \/ world.winhttp.pac # world.wininet.pac
       \/ EndpointsOf(world.winhttp.list) # EndpointsOf(world.wininet.list)
       \/ world.winhttp.bypass # world.wininet.bypass

ProxyPathWorks == \E p \in PathsOf(Proxied) : Works(p)

DirectRestricted == ProxyPathWorks /\ \E d \in DirectPaths : ~Works(d)

ResolutionFails ==
    \E n \in DOMAIN work.proxies :
        PathNames[n] # "direct" /\ work.proxies[n].mode = "error" /\ world[PathNames[n]].available

Saw(reason) == LET has(path) == path.reason = reason IN PathsOf(has) # {}
Heard(connect) == LET has(path) == path.connect = connect IN PathsOf(has) # {}

\* correlate: the first of these that was observed.
Findings(routesDiffer) ==
    << [holds |-> Heard("auth_required"), reason |-> "proxy_authentication_required", layer |-> "proxy", domain |-> "proxy"],
       [holds |-> Heard("denied"), reason |-> "proxy_connect_denied", layer |-> "proxy", domain |-> "proxy"],
       [holds |-> PossibleInterception, reason |-> "tls_interception_suspected", layer |-> "tls", domain |-> "tls"],
       [holds |-> TrustMismatch, reason |-> "tls_trust_store_mismatch", layer |-> "tls", domain |-> "tls"],
       [holds |-> DirectRestricted, reason |-> "direct_egress_restricted", layer |-> "network", domain |-> "policy"],
       [holds |-> ConfigurationsDiverge, reason |-> "proxy_configuration_divergence", layer |-> "proxy", domain |-> "proxy"],
       [holds |-> Saw("proxy_unavailable"), reason |-> "proxy_unavailable", layer |-> "proxy", domain |-> "proxy"],
       [holds |-> routesDiffer, reason |-> "effective_route_difference", layer |-> "route", domain |-> "routing"],
       [holds |-> ResolutionFails, reason |-> "proxy_configuration_failure", layer |-> "proxy", domain |-> "proxy"] >>

\* The routes to the proxy and to the target are compared if there is a proxy.
EnterpriseReturns ==
    /\ probe = "enterprise" /\ pc = "correlate" /\ Untimed
    /\ \E findings \in {Findings(differ) : differ \in IF PathsOf(Proxied) # {} THEN BOOLEAN ELSE {FALSE}} :
         \/ /\ \A n \in DOMAIN findings : ~findings[n].holds
            /\ Return(EnterpriseResult("passed", None, "proxy", "proxy"), work)
         \/ \E n \in DOMAIN findings :
              /\ findings[n].holds
              /\ \A m \in 1..(n - 1) : ~findings[m].holds
              /\ Return(EnterpriseResult("failed", findings[n].reason, findings[n].layer,
                                         findings[n].domain), work)

EnterpriseNext ==
    \/ EnterpriseBegins \/ EnterpriseResolves \/ EnterpriseConnects \/ EnterpriseRequests
    \/ EnterpriseReturns

-----------------------------------------------------------------------------
\* The proxy probe passes only when both settings were read, are well formed, and
\* every endpoint that it may dial has answered; it blames the configuration only for
\* a setting that is unreadable or malformed, and an endpoint only for a dial that
\* failed, and no failed dial is forgotten when a later endpoint answers.
ProxyVerdictIsFounded ==
    LET sources == {SourceAt(1), SourceAt(2)}
        dials   == UNION {ToSet(work.checks[n]) : n \in DOMAIN work.checks}
    IN  probe = "proxy" /\ Done /\ world.discovery = "sources" =>
        /\ result.status = "passed" =>
              /\ \A s \in sources : s.available /\ ~Malformed(s.list)
              /\ dials \subseteq {"reachable", "not_checked"}
        /\ result.reason = "proxy_configuration_failure" =>
              \E s \in sources : ~s.available \/ Malformed(s.list)
        /\ result.reason = "proxy_unavailable" => dials \cap {"unreachable", "timeout"} # {}

\* The enterprise probe goes through a proxy only where the settings send the target:
\* to an endpoint that a well-formed list names, an entry for the scheme before one
\* for any, and not when the target is bypassed.
ProxyIsTheConfigured ==
    probe = "enterprise" =>
        \A i \in DOMAIN work.paths :
            LET path == work.paths[i] IN
            path.mode = "proxy" =>
               LET source == world[path.name]
                   own    == {n \in DOMAIN source.list : source.list[n].scheme = "target"}
               IN  /\ source.available /\ ~source.bypass /\ ~Malformed(source.list)
                   /\ \E n \in DOMAIN source.list :
                         source.list[n].value = path.endpoint /\ (own # {} => n \in own)
                   /\ \A n \in own : source.list[n].value # Direct

\* "A difference is only considered possible interception when both peer certificates
\* are independently trusted and hostname-valid" (TLSComparison); and direct access is
\* called restricted only when a proxied path to the target worked and none was denied.
EnterpriseIsFounded ==
    LET vouched(path) == path.certificate # None /\ path.trusted /\ path.hostname
        proxied == PathsOf(Proxied)
    IN  probe = "enterprise" /\ Done =>
        /\ result.reason = "tls_interception_suspected" =>
              \E d \in DirectPaths, p \in proxied :
                  vouched(d) /\ vouched(p) /\ d.certificate # p.certificate
        /\ result.reason = "direct_egress_restricted" =>
              (\E p \in proxied : Works(p)) /\ \A d \in DirectPaths \cup proxied : d.connect # "denied"
        /\ result.status = "passed" /\ (\E p \in proxied : Works(p)) =>
              \A d \in DirectPaths : Works(d)
=============================================================================
