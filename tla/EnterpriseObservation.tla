------------------------ MODULE EnterpriseObservation ------------------------
(***************************************************************************)
(* What the evidence of the enterprise probe says about the proxies of the *)
(* host, and what that and the handshake with the target say about an      *)
(* inspection of TLS (internal/observations/builder.go).                   *)
(*                                                                         *)
(* A path is [name, source, mode, endpoint, tcp, connect, attempted, http, *)
(* tls, leaf, issuer, trusted, hostname, reason], in the order of the      *)
(* names of the paths, which is the order that the builder sorts them in.  *)
(***************************************************************************)
EXTENDS Observations

Sources == {"winhttp", "wininet"}

ProxyModes == {"proxy", "pac"}

-----------------------------------------------------------------------------
(* The proxy decision of one source.                                        *)
NoDecision ==
    [observed |-> FALSE, decision |-> "unknown", mode |-> "unknown", endpoint |-> Nil,
     bypass |-> FALSE, ok |-> FALSE, error |-> FALSE]

DecisionOf == [direct |-> "direct", proxy |-> "static_proxy", pac |-> "pac_selected_proxy",
               unknown |-> "unknown"]

\* enterpriseEffectiveDecision.
EffectiveDecision(e) ==
    CASE e.bypass -> "bypass_match"
      [] ~e.bypass /\ ~e.ok /\ e.pac -> "pac_result_unavailable"
      [] OTHER -> DecisionOf[e.mode]

Same(a, b, fields) == \A f \in fields : a[f] = b[f]

MergeEffective(old, new) ==
    IF ~old.observed THEN new
    ELSE IF Same(old, new, {"decision", "mode", "endpoint", "bypass", "ok"}) THEN old
    ELSE [NoDecision EXCEPT !.observed = TRUE, !.decision = "conflicting", !.error = TRUE]

EffectiveFromPath(old, path) ==
    LET asked == path.connect = "auth_required"
        new   == [NoDecision EXCEPT !.observed = TRUE, !.mode = path.mode, !.ok = TRUE,
                     !.endpoint = path.endpoint,
                     !.decision = IF asked THEN "authentication_required" ELSE DecisionOf[path.mode]]
    IN  IF ~old.observed THEN new
        ELSE IF asked /\ old.decision # "conflicting" THEN [old EXCEPT !.decision = new.decision]
        ELSE IF Same(old, new, {"decision", "mode", "endpoint"}) THEN old
        ELSE MergeEffective(old, new)

Effective(source, decided, paths) ==
    LET ofSource(x) == x.source = source
        from(e) == [observed |-> TRUE, decision |-> EffectiveDecision(e), mode |-> e.mode,
                    endpoint |-> e.endpoint, bypass |-> e.bypass, ok |-> e.ok, error |-> e.error]
        merge(old, e) == MergeEffective(old, from(e))
        proxied(p) == ofSource(p) /\ p.endpoint # Nil /\ p.mode \in ProxyModes
    IN  FoldLeft(EffectiveFromPath,
                 FoldLeft(merge, NoDecision, SelectSeq(decided, ofSource)),
                 SelectSeq(paths, proxied))

\* projectEnterpriseEndpoint, for the endpoints of a source.
Reachability(path) ==
    CASE path.tcp -> "reachable"
      [] ~path.tcp /\ path.connect = "timeout" -> "timeout"
      [] ~path.tcp /\ path.connect # "timeout" ->
            IF path.connect = "unavailable" \/ path.reason = "proxy_unavailable" THEN "unavailable"
            ELSE IF path.connect = "not_tested" THEN "not_tested" ELSE "unknown"

Endpoints(source, paths) ==
    {Reachability(paths[i]) : i \in {j \in DOMAIN paths :
        /\ paths[j].source = source
        /\ paths[j].endpoint # Nil
        /\ paths[j].mode \in ProxyModes}}

-----------------------------------------------------------------------------
(* pathWorksEnterprise and compareEnterprisePaths.                          *)
PathWorks(path) ==
    /\ path.reason = "none"
    /\ path.http = "ok" \/ (path.tls /\ path.trusted /\ path.hostname)

ComparePaths(paths) ==
    LET direct  == {i \in DOMAIN paths : paths[i].name = "application_direct"}
        proxied == DOMAIN paths \ direct
        works(is) == \E i \in is : PathWorks(paths[i])
    IN  CASE direct = {} /\ proxied = {} -> "unknown"
          [] direct # {} /\ proxied # {} ->
                IF works(direct)
                THEN IF works(proxied) THEN "both_work" ELSE "direct_works_proxy_failure"
                ELSE IF works(proxied) THEN "direct_failure_proxy_works" ELSE "both_fail"
          [] OTHER -> "partial"

\* enterpriseRoutesDiffer: the first proxy route in the order of the names.
RoutesCompared(routes) ==
    LET direct  == SelectSeq(routes, LAMBDA r : r.path = "application_direct")
        proxied == SelectSeq(routes, LAMBDA r : r.path # "application_direct")
    IN  direct # <<>> /\ proxied # <<>> /\ Head(direct).available /\ Head(proxied).available

RoutesDiffer(routes) ==
    LET direct  == SelectSeq(routes, LAMBDA r : r.path = "application_direct")
        proxied == SelectSeq(routes, LAMBDA r : r.path # "application_direct")
    IN  RoutesCompared(routes) /\ Head(direct).via # Head(proxied).via

-----------------------------------------------------------------------------
(* compareTLS of the enterprise probe: the direct path against the path of  *)
(* one proxy, the one of WinINET if there is one.                           *)
\* Faulty variant: any difference of the certificates is an inspection.
CompareTls_Untrusted(paths) ==
    LET leaves == {paths[i].leaf : i \in DOMAIN paths} \ {Nil}
        differ == Cardinality(leaves) > 1
    IN  [known |-> differ, differ |-> differ, issuer |-> differ, trusted |-> TRUE, hostname |-> TRUE,
         possible |-> differ, mismatch |-> FALSE]

CompareTls(paths) ==
    LET direct  == SelectSeq(paths, LAMBDA p : p.name = "application_direct")
        proxied == SelectSeq(paths, LAMBDA p : p.name # "application_direct" /\ p.mode \in ProxyModes)
        leaf(ps) == IF ps = <<>> THEN Nil ELSE Head(ps).leaf
        issuer(ps) == IF ps = <<>> THEN Nil ELSE Head(ps).issuer
        both     == leaf(direct) # Nil /\ leaf(proxied) # Nil
        differ   == both /\ leaf(direct) # leaf(proxied)
        trusted  == both /\ Head(direct).trusted /\ Head(proxied).trusted
        hostname == both /\ Head(direct).hostname /\ Head(proxied).hostname
    IN  [known     |-> both,
         differ    |-> differ,
         issuer    |-> both /\ issuer(direct) # issuer(proxied),
         trusted   |-> trusted,
         hostname  |-> hostname,
         possible  |-> differ /\ trusted /\ hostname,
         mismatch  |-> /\ proxied # <<>> /\ PathWorks(Head(proxied))
                       /\ leaf(direct) # Nil /\ ~Head(direct).trusted]

NoTls == [CompareTls(<<>>) EXCEPT !.known = FALSE]

-----------------------------------------------------------------------------
(* buildEnterprisePolicyObservation.  An item of connectivity carries the   *)
(* decisions and the paths, one of correlation whether the routes differ.   *)
EnterpriseObservation(target, probes) ==
    LET lane   == Named(probes, {"windows_enterprise"})
        its(kinds) == Items(lane, kinds)
        ids    == UNION {EvidenceIDs(lane[i]) : i \in DOMAIN lane}
        connectivity == its({"connectivity"})
        decided == IF connectivity = <<>> THEN <<>> ELSE connectivity[1].e.effective
        paths   == IF connectivity = <<>> THEN <<>> ELSE connectivity[1].e.paths
        routing == its({"adapter_routing"})
        trust   == its({"tls_trust"})
        differs == \E i \in DOMAIN its({"route_comparison"}) : its({"route_comparison"})[i].e.differs
        config(source) == SelectSeq(its({"proxy_settings"}), LAMBDA c : c.e.source = source)
        skipped == lane # <<>> /\ (lane[1].reason = "unsupported" \/ lane[1].status = "skipped")
        issues  == its({"collection"}) # <<>>
        source(s) == [effective |-> Effective(s, decided, paths),
                      broken    |-> config(s) # <<>> /\ config(s)[1].e.broken,
                      endpoints |-> Endpoints(s, paths)]
        of      == [s \in Sources |-> source(s)]
        settled(s) == /\ of[s].effective.observed /\ of[s].effective.ok
                      /\ of[s].effective.decision \notin {"unknown", "conflicting"}
    IN  [state     |-> CASE lane = <<>> -> "unknown"
                         [] lane # <<>> /\ skipped ->
                               IF Cardinality(ids) = 1 THEN "unsupported" ELSE "partial"
                         [] lane # <<>> /\ ~skipped -> IF issues THEN "partial" ELSE "observed",
         sources   |-> of,
         configurationKnown    |-> \A s \in Sources : config(s) # <<>>,
         configurationDiverges |-> /\ \A s \in Sources : config(s) # <<>>
                                   /\ config("winhttp")[1].e.settings # config("wininet")[1].e.settings,
         effectiveKnown    |-> \A s \in Sources : settled(s),
         effectiveDiverges |-> /\ \A s \in Sources : settled(s)
                               /\ ~Same(of["winhttp"].effective, of["wininet"].effective,
                                        {"decision", "mode", "endpoint"}),
         paths      |-> paths,
         comparison |-> ComparePaths(paths),
         routeKnown   |-> IF routing # <<>> THEN RoutesCompared(routing[1].e.routes) ELSE differs,
         routeDiffers |-> IF routing # <<>> THEN RoutesDiffer(routing[1].e.routes) ELSE differs,
         tls          |-> IF trust = <<>> THEN NoTls ELSE trust[1].e.comparison,
         insufficient |-> trust # <<>> /\ trust[1].e.insufficient,
         corporate    |-> trust # <<>> /\ trust[1].e.corporate,
         evidence     |-> ids]

-----------------------------------------------------------------------------
(* assessTLSInspection.                                                     *)
ProxyObserved(enterprise) ==
    \/ \E s \in Sources : /\ enterprise.sources[s].effective.observed
                          /\ enterprise.sources[s].effective.mode \in ProxyModes
    \/ \E i \in DOMAIN enterprise.paths : /\ enterprise.paths[i].mode \in ProxyModes
                                          /\ enterprise.paths[i].attempted
    \/ enterprise.tls.known

TlsInspection(security, enterprise) ==
    LET tls == enterprise.tls
        diverges == tls.differ \/ tls.issuer
        matched == tls.trusted /\ tls.hostname
        proxied == ProxyObserved(enterprise)
        valid == security.certificates /\ security.validation = "valid"
        is(state, certainty) == [state |-> state, certainty |-> certainty]
    IN  IF security.conflict THEN is("conflicting", "unknown")
        ELSE IF tls.possible \/ (diverges /\ matched) THEN is("observed", "inferred")
        ELSE IF enterprise.corporate /\ proxied THEN is("suspected", "inferred")
        ELSE IF tls.known /\ diverges THEN is("unknown", "unknown")
        ELSE IF tls.known /\ matched THEN is("not_observed", "observed")
        ELSE IF proxied /\ ~tls.known THEN is("unknown", "unknown")
        ELSE IF valid /\ ~proxied THEN is("not_observed", "observed")
        ELSE IF ~security.certificates /\ ~security.attempted THEN is("not_observed", "unknown")
        ELSE is("unknown", "unknown")

-----------------------------------------------------------------------------
(* Build.                                                                   *)
Observe(target, results) ==
    LET probes     == OrderedProbes(results)
        endpoint   == EndpointObservation(target, probes)
        transport  == TransportObservation(target, endpoint, probes)
        security   == SecurityObservation(target, endpoint, transport, probes)
        enterprise == EnterpriseObservation(target, probes)
    IN  [endpoint    |-> endpoint,
         name        |-> NameResolutionObservation(target, probes),
         network     |-> NetworkObservation(target, probes),
         transport   |-> transport,
         security    |-> security,
         inspection  |-> TlsInspection(security, enterprise),
         application |-> ApplicationObservation(target, endpoint, transport, probes),
         enterprise  |-> enterprise,
         paths       |-> Paths(probes),
         flows       |-> Flows(probes),
         divergences |-> Divergences(Paths(probes), Flows(probes))]

=============================================================================
