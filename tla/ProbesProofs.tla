---------------------------- MODULE ProbesProofs ----------------------------
(***************************************************************************)
(* Proofs about the active probes, for any endpoints, candidates, retries  *)
(* and timeouts: what a probe concludes is founded on what it saw, no      *)
(* attempt takes the time of a later one, and no answer is hidden.         *)
(***************************************************************************)
EXTENDS MCProbes, SequenceTheorems, FiniteSetTheorems, WellFoundedInduction, TLAPS

Contexts == {"live", "cancelled", "deadline"}

\* The probe and its world are those of the beginning, and while it is one probe
\* only that probe takes steps.
LEMMA OneProbeRuns ==
    ASSUME Next
    PROVE  /\ UNCHANGED <<probe, world>>
           /\ probe = "enterprise" => EnterpriseNext \/ ContextEnds
           /\ probe = "proxy" => ProxyNext \/ ContextEnds
           /\ probe = "dns" => DnsNext \/ ContextEnds
           /\ probe = "dns_service" => ServiceNext \/ ContextEnds
           /\ probe = "path" => PathNext \/ ContextEnds
           /\ probe \in EndpointNames => EndpointNext \/ ContextEnds
<1>1. CASE ContextEnds
    BY <1>1 DEF ContextEnds
<1>2. CASE EnterpriseNext
    <2>1. probe = "enterprise" /\ UNCHANGED <<probe, world>>
        <3>1. ASSUME NEW path, Observe(path)
              PROVE  UNCHANGED <<probe, world>>
            BY <3>1 DEF NextPath, Observe, Continue
        <3>2. CASE EnterpriseBegins
            BY <3>2 DEF EnterpriseBegins, Continue, Return
        <3>3. CASE EnterpriseResolves
            BY <3>3 DEF EnterpriseResolves, NextPath, Continue
        <3>4. CASE EnterpriseConnects
            BY <3>4, <3>1 DEF EnterpriseConnects, Continue
        <3>5. CASE EnterpriseRequests
            BY <3>5, <3>1 DEF EnterpriseRequests
        <3>6. CASE EnterpriseReturns
            BY <3>6 DEF EnterpriseReturns, Return
        <3>. QED
            BY <1>2, <3>2, <3>3, <3>4, <3>5, <3>6 DEF EnterpriseNext
    <2>. QED
        BY <1>2, <2>1 DEF EndpointNames, ListProbes
<1>3. CASE ProxyNext
    BY <1>3 DEF ProxyNext, ProxyBegins, ProxyDiscovers, ProxyChecks, ProxyDials, ProxyNextSource,
                ProxyReturns, Continue, Return, EndpointNames, ListProbes
<1>4. CASE DnsNext
    BY <1>4 DEF DnsNext, DnsBegins, DnsWaits, DnsEnvironment, DnsConfig, DnsAnswer, DnsSends,
                DnsReceives, DnsGivesUp, Continue, Return, EndpointNames, ListProbes
<1>5. CASE ServiceNext
    <2>1. ASSUME NEW outcome, NEW asked, NEW skip, NextAttempt(outcome, asked, skip)
          PROVE  UNCHANGED <<probe, world>>
        BY <2>1 DEF NextAttempt, Continue
    <2>2. probe = "dns_service" /\ UNCHANGED <<probe, world>>
        BY <1>5, <2>1 DEF ServiceNext, ServiceBegins, ServiceLane, ServiceAttempt, ServiceWaits,
                          ServiceDials, ServiceReads, ServiceLaneEnds, Continue, Return
    <2>. QED
        BY <1>5, <2>2 DEF EndpointNames, ListProbes
<1>6. CASE PathNext
    BY <1>6 DEF PathNext, PathBegins, PathWaits, PathJoins, PathAttempt, PathObserves, OnLane,
                Continue, Return, EndpointNames, ListProbes
<1>7. CASE EndpointNext
    BY <1>7 DEF EndpointNext, TcpRun, SshRun, RdpRun, SmbRun, TlsRun, HttpRun, EndpointBegins,
                EndpointWaits, EndpointDials, EndpointReply, EndpointRedirect, Accepts, DialFails,
                Settle, Dials, Refuses, Continue, Return, EndpointNames, ListProbes
<1>. QED
    BY <1>1, <1>2, <1>3, <1>4, <1>5, <1>6, <1>7 DEF Next, ProbeSteps

-----------------------------------------------------------------------------
(* The enterprise probe.                                                    *)

\* What the settings of the host can be: a short list of parts.
ShortLists == UNION {[1..n -> [scheme : {"any", "target"}, value : Values]] : n \in 0..2}

Settings == [available : BOOLEAN, list : ShortLists, pac : BOOLEAN, bypass : BOOLEAN]

LEMMA SomeEndpointIsValue == SomeEndpoint \in ProxyEndpointNames /\ SomeEndpoint \in Values
BY ProxyAssumption DEF SomeEndpoint, Values

LEMMA ListsAreShort ==
    ASSUME NEW schemes \in SUBSET {"any", "target"}, NEW longest \in 0..2,
           NEW list \in Lists(schemes, longest)
    PROVE  list \in ShortLists
<1>. DEFINE Parts == [scheme : {"any", "target"}, value : Values]
<1>1. PICK n \in 0..longest : list \in [1..n -> {Part(sc, v) : sc \in schemes, v \in Values}]
    BY DEF Lists
<1>2. {Part(sc, v) : sc \in schemes, v \in Values} \subseteq Parts
    BY DEF Part
<1>3. list \in [1..n -> Parts]
    BY <1>1, <1>2
<1>. QED
    BY <1>3 DEF ShortLists

LEMMA EmptyIsShort == <<>> \in ShortLists
<1>1. <<>> \in [1..0 -> [scheme : {"any", "target"}, value : Values]]
    OBVIOUS
<1>. QED
    BY <1>1 DEF ShortLists

\* The settings that the enterprise probe finds.
LEMMA WorldHasSettings ==
    ASSUME NEW w \in EnterpriseWorlds
    PROVE  w.winhttp \in Settings /\ w.wininet \in Settings /\ w.https \in BOOLEAN
<1>. DEFINE lists == {Source(TRUE, l, FALSE, FALSE) : l \in Lists({"target", "any"}, 2)}
            bypassing == {Source(TRUE, l, FALSE, TRUE) : l \in Lists({"any"}, 1)}
            few == {NoSource, Source(TRUE, <<>>, TRUE, FALSE), Source(TRUE, <<>>, FALSE, FALSE),
                    Source(TRUE, <<Part("any", SomeEndpoint)>>, FALSE, FALSE)}
<1>1. lists \subseteq Settings /\ bypassing \subseteq Settings
    <2>1. Lists({"target", "any"}, 2) \subseteq ShortLists
        BY {"target", "any"} \in SUBSET {"any", "target"}, 2 \in 0..2, ListsAreShort
    <2>2. Lists({"any"}, 1) \subseteq ShortLists
        BY {"any"} \in SUBSET {"any", "target"}, 1 \in 0..2, ListsAreShort
    <2>3. \A l \in ShortLists : /\ Source(TRUE, l, FALSE, FALSE) \in Settings
                                /\ Source(TRUE, l, FALSE, TRUE) \in Settings
        BY DEF Source, Settings
    <2>. QED
        BY <2>1, <2>2, <2>3
<1>2. /\ \A pac \in BOOLEAN : Source(TRUE, <<>>, pac, FALSE) \in Settings
      /\ NoSource \in Settings
    BY EmptyIsShort DEF NoSource, Source, Settings
<1>3. Source(TRUE, <<Part("any", SomeEndpoint)>>, FALSE, FALSE) \in Settings
    <2>1. <<Part("any", SomeEndpoint)>> \in [1..1 -> [scheme : {"any", "target"}, value : Values]]
        BY SomeEndpointIsValue DEF Part
    <2>. QED
        BY <2>1 DEF Source, Settings, ShortLists
<1>4. few \subseteq Settings
    BY <1>2, <1>3
<1>5. CASE w \in [environment : {"collected"}, valid : {TRUE}, https : {TRUE}, winhttp : lists,
                  wininet : {NoSource, Source(TRUE, <<>>, FALSE, FALSE)}]
    BY <1>1, <1>2, <1>5
<1>6. CASE w \in [environment : {"collected"}, valid : BOOLEAN, https : BOOLEAN,
                  winhttp : few \cup bypassing, wininet : few]
    BY <1>1, <1>4, <1>6
<1>7. CASE w \in [environment : {"unsupported", "fails"}, valid : {TRUE}, https : {TRUE},
                  winhttp : {NoSource}, wininet : {NoSource}]
    BY <1>2, <1>7
<1>. QED
    BY <1>5, <1>6, <1>7 DEF EnterpriseWorlds

\* An effective proxy is one that a well-formed list of the source names for the
\* target, and not bypassed.
Chosen(source, endpoint) ==
    LET own == {n \in DOMAIN source.list : source.list[n].scheme = "target"}
    IN  /\ source.available /\ ~source.bypass /\ ~Malformed(source.list)
        /\ \E n \in DOMAIN source.list : source.list[n].value = endpoint /\ (own # {} => n \in own)
        /\ \A n \in own : source.list[n].value # Direct

LEMMA MinOfPlaces ==
    ASSUME NEW places \in SUBSET (1..2), places # {}
    PROVE  Min(places) \in places
<1>1. \E i \in places : \A j \in places : i <= j
    <2>. \A i \in places : i \in Int /\ (i = 1 \/ i = 2)
        OBVIOUS
    <2>1. CASE 1 \in places
        BY <2>1
    <2>2. CASE 1 \notin places
        <3>1. PICK i \in places : TRUE
            OBVIOUS
        <3>. QED
            BY <2>2, <3>1
    <2>. QED
        BY <2>1, <2>2
<1>. QED
    BY <1>1 DEF Min

LEMMA ResolvedIsChosen ==
    ASSUME NEW source \in Settings, NEW effective \in Resolutions(source), effective.mode = "proxy"
    PROVE  Chosen(source, effective.endpoint)
<1>. DEFINE list == source.list
            own  == EntriesFor(list, "target")
            any  == EntriesFor(list, "any")
<1>1. /\ source.available /\ ~Malformed(list)
      /\ effective.endpoint = ProxyEndpointForURL(list)
      /\ ProxyEndpointForURL(list) # Direct
      /\ source.bypass => ~NamesEndpoint(list)
    BY DEF Resolutions, Resolved, Unresolved
<1>2. DOMAIN list \subseteq 1..2 /\ \A n \in DOMAIN list : list[n].value \in Values
    BY DEF Settings, ShortLists
<1>3. \A n \in DOMAIN list : list[n].value # Bad
    BY <1>1 DEF Malformed
<1>4. own = {n \in DOMAIN list : list[n].scheme = "target"}
    BY <1>3 DEF EntriesFor
<1>5. /\ \A n \in own : list[n].value # Direct
      /\ own # {} \/ any # {}
      /\ ProxyEndpointForURL(list) = list[Min(IF own # {} THEN own ELSE any)].value
    BY <1>1 DEF ProxyEndpointForURL
<1>6. PICK n \in DOMAIN list : /\ list[n].value = effective.endpoint
                               /\ own # {} => n \in own
    <2>. DEFINE places == IF own # {} THEN own ELSE any
    <2>1. places \in SUBSET (1..2) /\ places # {}
        BY <1>2, <1>5 DEF EntriesFor
    <2>2. Min(places) \in places
        BY <2>1, MinOfPlaces
    <2>. QED
        BY <2>2, <1>1, <1>5 DEF EntriesFor
<1>7. NamesEndpoint(list)
    BY <1>1, <1>2, <1>3, <1>6 DEF NamesEndpoint, Values
<1>. QED
    BY <1>1, <1>4, <1>5, <1>6, <1>7 DEF Chosen, Settings

\* How a path was resolved, and what was observed along it.
Ways == [mode : {"error", "direct", "proxy", "pac"}, endpoint : Values \cup {None}]

PathReasons ==
    {None, "http_status_code", "proxy_authentication_required", "proxy_connect_denied",
     "proxy_unavailable", "certificate_validation_failure", "probe_execution_failure", "tcp_timeout",
     "network_unreachable"}

ObservedPaths ==
    [name : {"wininet", "winhttp", "direct"}, mode : {"error", "direct", "proxy", "pac"},
     endpoint : Values \cup {None},
     reason : PathReasons, certificate : {None, "own", "other"}, trusted : BOOLEAN, hostname : BOOLEAN,
     connect : {None, "succeeded", "auth_required", "denied", "unavailable", "not_applicable"}]

EnterpriseLocals ==
    [at : 1..4, connect : {None, "succeeded"}, proxies : Seq(Ways), paths : Seq(ObservedPaths)]

\* The path that is being observed has been resolved, and a proxy only from the
\* settings of its name.
ChosenFor(name, way) == way.mode = "proxy" => name # "direct" /\ Chosen(world[name], way.endpoint)

EnterpriseInv ==
    probe = "enterprise" =>
        /\ ctx \in Contexts /\ world \in EnterpriseWorlds /\ work \in EnterpriseLocals
        /\ pc \in {"start", "resolve", "connect", "request", "correlate", "done"}
        /\ pc \in {"start", "resolve"} => Len(work.proxies) = work.at - 1
        /\ pc \in {"start", "resolve", "connect", "request"} => work.at \in 1..3
        /\ pc \in {"connect", "request"} =>
              /\ Len(work.proxies) = work.at
              /\ ChosenFor(PathNames[work.at], work.proxies[work.at])
        /\ \A i \in 1..Len(work.paths) : ChosenFor(work.paths[i].name, work.paths[i])

LEMMA NamesOfPaths ==
    /\ \A n \in 1..3 : PathNames[n] \in {"wininet", "winhttp", "direct"}
    /\ Len(PathNames) = 3
BY DEF PathNames

LEMMA ResolutionsTyped ==
    ASSUME NEW source \in Settings
    PROVE  Resolutions(source) \subseteq Ways
<1>. SUFFICES ASSUME NEW effective \in Resolutions(source)
              PROVE  effective \in Ways
    OBVIOUS
<1>1. CASE effective.mode = "proxy"
    <2>1. PICK n \in DOMAIN source.list : source.list[n].value = effective.endpoint
        BY <1>1, ResolvedIsChosen DEF Chosen
    <2>2. effective.endpoint \in Values
        BY <2>1 DEF Settings, ShortLists
    <2>3. effective = Resolved("proxy", effective.endpoint)
        BY <1>1 DEF Resolutions, Resolved, Unresolved
    <2>. QED
        BY <2>2, <2>3 DEF Ways, Resolved
<1>2. CASE effective.mode # "proxy"
    BY <1>2, SomeEndpointIsValue DEF Resolutions, Resolved, Unresolved, Ways
<1>. QED
    BY <1>1, <1>2

\* A path that has been observed is the next of the list.
LEMMA ObserveKeeps ==
    ASSUME EnterpriseInv, probe = "enterprise", pc \in {"connect", "request"},
           NEW reason \in PathReasons, NEW certificate \in {None, "own", "other"},
           NEW trusted \in BOOLEAN, NEW hostname \in BOOLEAN,
           NEW connect \in {None, "succeeded", "auth_required", "denied", "unavailable", "not_applicable"},
           Observe(Path(reason, certificate, trusted, hostname, connect))
    PROVE  EnterpriseInv'
<1>. DEFINE path == Path(reason, certificate, trusted, hostname, connect)
            way == work.proxies[work.at]
<1>1. /\ world \in EnterpriseWorlds /\ work \in EnterpriseLocals /\ work.at \in 1..3
      /\ Len(work.proxies) = work.at /\ ChosenFor(PathNames[work.at], way)
      /\ \A i \in 1..Len(work.paths) : ChosenFor(work.paths[i].name, work.paths[i])
    BY DEF EnterpriseInv
<1>2. way \in Ways
    BY <1>1 DEF EnterpriseLocals
<1>3. path \in ObservedPaths
    BY <1>1, <1>2, NamesOfPaths DEF Path, ObservedPaths, Ways
<1>4. ChosenFor(path.name, path)
    BY <1>1, <1>2 DEF Path, ChosenFor
<1>5. /\ pc' = IF work.at = 3 THEN "correlate" ELSE "resolve"
      /\ work' = [work EXCEPT !.paths = Append(work.paths, path), !.at = work.at + 1, !.connect = None]
      /\ UNCHANGED <<probe, world, ctx, result>>
    BY NamesOfPaths, <1>1 DEF Observe, NextPath, Continue, EnterpriseLocals
<1>6. /\ Append(work.paths, path) \in Seq(ObservedPaths)
      /\ \A i \in 1..Len(Append(work.paths, path)) :
            ChosenFor(Append(work.paths, path)[i].name, Append(work.paths, path)[i])
    BY <1>1, <1>3, <1>4, AppendProperties DEF EnterpriseLocals
<1>7. /\ work' \in EnterpriseLocals /\ work'.paths = Append(work.paths, path)
      /\ work'.at = work.at + 1 /\ work'.proxies = work.proxies
    <2>1. work.at + 1 \in 1..4 /\ work.proxies \in Seq(Ways)
        BY <1>1 DEF EnterpriseLocals
    <2>2. work' = [at |-> work.at + 1, connect |-> None, proxies |-> work.proxies,
                   paths |-> Append(work.paths, path)]
        BY <1>1, <1>5 DEF EnterpriseLocals
    <2>. QED
        BY <2>1, <2>2, <1>6 DEF EnterpriseLocals
<1>8. (\A i \in 1..Len(work.paths) : ChosenFor(work.paths[i].name, work.paths[i]))'
    BY <1>5, <1>6, <1>7 DEF ChosenFor
<1>9. ctx \in Contexts /\ probe' = probe /\ ctx' = ctx /\ world' = world
    BY <1>5 DEF EnterpriseInv
<1>10. /\ pc' \in {"resolve", "correlate"}
       /\ pc' = "resolve" => work'.at \in 1..3
       /\ Len(work'.proxies) = work'.at - 1
    <2>1. work.at = 1 \/ work.at = 2 \/ work.at = 3
        BY <1>1
    <2>. QED
        BY <2>1, <1>1, <1>5, <1>7
<1>. QED
    BY <1>1, <1>7, <1>8, <1>9, <1>10 DEF EnterpriseInv

LEMMA EnterpriseStep == EnterpriseInv /\ Next => EnterpriseInv'
<1>. SUFFICES ASSUME EnterpriseInv, Next, probe = "enterprise"
              PROVE  EnterpriseInv'
    BY OneProbeRuns DEF EnterpriseInv
<1>. UNCHANGED <<probe, world>>
    BY OneProbeRuns
<1>1. /\ ctx \in Contexts /\ world \in EnterpriseWorlds /\ work \in EnterpriseLocals
      /\ pc \in {"start", "resolve"} => Len(work.proxies) = work.at - 1
      /\ pc \in {"start", "resolve", "connect", "request"} => work.at \in 1..3
      /\ pc \in {"connect", "request"} =>
            /\ Len(work.proxies) = work.at
            /\ ChosenFor(PathNames[work.at], work.proxies[work.at])
      /\ \A i \in 1..Len(work.paths) : ChosenFor(work.paths[i].name, work.paths[i])
    BY DEF EnterpriseInv
<1>2. CASE ContextEnds
    BY <1>2 DEF ContextEnds, EnterpriseInv, Contexts, ChosenFor
<1>3. CASE EnterpriseBegins
    BY <1>1, <1>3 DEF EnterpriseBegins, EnterpriseInv, Continue, Return, ChosenFor
<1>4. CASE EnterpriseResolves
    <2>1. pc = "resolve" /\ work.at \in 1..3 /\ Len(work.proxies) = work.at - 1
          /\ UNCHANGED <<ctx, result>>
        BY <1>1, <1>4 DEF EnterpriseResolves, NextPath, Continue
    <2>2. ASSUME NEW way \in Ways, ChosenFor(PathNames[work.at], way),
                 NEW to \in {"connect", "request"},
                 Continue(to, [work EXCEPT !.proxies = Append(work.proxies, way)])
          PROVE  EnterpriseInv'
        <3>1. /\ Append(work.proxies, way) \in Seq(Ways)
              /\ Len(Append(work.proxies, way)) = work.at
              /\ Append(work.proxies, way)[work.at] = way
            BY <1>1, <2>1, <2>2, AppendProperties DEF EnterpriseLocals
        <3>2. /\ work' \in EnterpriseLocals /\ work'.proxies = Append(work.proxies, way)
              /\ work'.at = work.at /\ work'.paths = work.paths
            BY <1>1, <3>1, <2>2 DEF EnterpriseLocals, Continue
        <3>3. /\ (\A i \in 1..Len(work.paths) : ChosenFor(work.paths[i].name, work.paths[i]))'
              /\ ChosenFor(PathNames[work.at], work.proxies[work.at])'
            BY <1>1, <2>2, <3>1, <3>2 DEF ChosenFor, PathNames
        <3>. QED
            BY <1>1, <2>1, <2>2, <3>1, <3>2, <3>3 DEF EnterpriseInv, Continue
    <2>3. CASE PathNames[work.at] = "direct"
        <3>1. Resolved("direct", None) \in Ways
              /\ ChosenFor(PathNames[work.at], Resolved("direct", None))
            BY DEF Resolved, Ways, ChosenFor
        <3>. QED
            BY <1>4, <2>2, <2>3, <3>1 DEF EnterpriseResolves
    <2>4. CASE PathNames[work.at] # "direct"
        <3>1. PathNames[work.at] \in {"wininet", "winhttp"}
            BY <2>1, <2>4, NamesOfPaths
        <3>2. world[PathNames[work.at]] \in Settings
            BY <1>1, <3>1, WorldHasSettings
        <3>3. PICK way \in Resolutions(world[PathNames[work.at]]) :
                LET noted == [work EXCEPT !.proxies = Append(work.proxies, way)] IN
                \/ way.mode = "error" /\ NextPath(noted)
                \/ way.mode \in {"proxy", "pac"} /\ Continue("connect", noted)
                \/ way.mode = "direct" /\ Continue("request", noted)
            BY <1>4, <2>4, <3>1 DEF EnterpriseResolves
        <3>4. way \in Ways /\ ChosenFor(PathNames[work.at], way)
            BY <2>4, <3>2, ResolutionsTyped, ResolvedIsChosen DEF ChosenFor
        <3>5. CASE NextPath([work EXCEPT !.proxies = Append(work.proxies, way)])
            <4>1. /\ Append(work.proxies, way) \in Seq(Ways)
                  /\ Len(Append(work.proxies, way)) = work.at
                BY <1>1, <2>1, <3>4, AppendProperties DEF EnterpriseLocals
            <4>2. /\ work' = [at |-> work.at + 1, connect |-> None,
                              proxies |-> Append(work.proxies, way), paths |-> work.paths]
                  /\ pc' = IF work.at = 3 THEN "correlate" ELSE "resolve"
                BY <1>1, <3>5, NamesOfPaths DEF NextPath, Continue, EnterpriseLocals
            <4>3. work' \in EnterpriseLocals
                BY <1>1, <2>1, <4>1, <4>2 DEF EnterpriseLocals
            <4>4. (\A i \in 1..Len(work.paths) : ChosenFor(work.paths[i].name, work.paths[i]))'
                BY <1>1, <4>2 DEF ChosenFor
            <4>5. /\ pc' \in {"resolve", "correlate"}
                  /\ pc' = "resolve" => work'.at \in 1..3
                  /\ Len(work'.proxies) = work'.at - 1
                <5>1. work.at = 1 \/ work.at = 2 \/ work.at = 3
                    BY <2>1
                <5>. QED
                    BY <4>1, <4>2, <5>1
            <4>. QED
                BY <1>1, <2>1, <4>3, <4>4, <4>5 DEF EnterpriseInv
        <3>. QED
            BY <2>2, <3>3, <3>4, <3>5
    <2>. QED
        BY <2>3, <2>4
<1>5. CASE EnterpriseConnects
    <2>1. pc = "connect"
        BY <1>5 DEF EnterpriseConnects
    <2>2. CASE Continue("request", [work EXCEPT !.connect = "succeeded"])
        BY <1>1, <2>1, <2>2 DEF EnterpriseInv, Continue, EnterpriseLocals, ChosenFor
    <2>3. CASE \E outcome \in {"auth_required", "denied", "unavailable"} :
                 \E reason \in {"proxy_authentication_required", "proxy_connect_denied",
                                "proxy_unavailable"} :
                     Observe(Path(reason, None, FALSE, FALSE, outcome))
        BY <2>1, <2>3, ObserveKeeps DEF PathReasons
    <2>. QED
        BY <1>5, <2>2, <2>3 DEF EnterpriseConnects
<1>6. CASE EnterpriseRequests
    <2>1. pc = "request" /\ world.https \in BOOLEAN
        BY <1>1, <1>6, WorldHasSettings DEF EnterpriseRequests
    <2>2. \A challenged \in BOOLEAN :
              Connect(challenged) \in {None, "succeeded", "auth_required", "not_applicable"}
        BY <1>1 DEF Connect, EnterpriseLocals
    <2>3. \E reason \in PathReasons, certificate \in {None, "own", "other"}, trusted \in BOOLEAN,
             hostname \in BOOLEAN, challenged \in BOOLEAN :
                 Observe(Path(reason, certificate, trusted, hostname, Connect(challenged)))
        BY <1>1, <1>6, <2>1 DEF EnterpriseRequests, PathReasons, Contexts
    <2>. QED
        BY <2>1, <2>2, <2>3, ObserveKeeps
<1>7. CASE EnterpriseReturns
    BY <1>1, <1>7 DEF EnterpriseReturns, EnterpriseInv, Return, ChosenFor
<1>. QED
    BY <1>2, <1>3, <1>4, <1>5, <1>6, <1>7, OneProbeRuns DEF EnterpriseNext

\* ProxyIsTheConfigured: along the paths of the enterprise probe, a proxy is used
\* only where a well-formed list of a readable source sends the target.
THEOREM ProxiesAreConfigured == Spec => []ProxyIsTheConfigured
<1>1. Init => EnterpriseInv
    <2>. SUFFICES ASSUME Init, probe = "enterprise"
                  PROVE  EnterpriseInv
        BY DEF EnterpriseInv
    <2>1. Begins("enterprise", EnterpriseWorlds, EnterpriseWork)
        BY DEF Init, EndpointInit, DnsInit, ServiceInit, PathInit, ProxyInit, EnterpriseInit, Begins,
               EndpointNames, ListProbes
    <2>2. EnterpriseWork \in EnterpriseLocals
        BY DEF EnterpriseWork, EnterpriseLocals
    <2>. QED
        BY <2>1, <2>2 DEF Begins, EnterpriseInv, Contexts, EnterpriseWork
<1>2. EnterpriseInv /\ [Next]_runVars => EnterpriseInv'
    <2>1. ASSUME EnterpriseInv, UNCHANGED runVars
          PROVE  EnterpriseInv'
        BY <2>1 DEF runVars, EnterpriseInv, ChosenFor
    <2>. QED
        BY <2>1, EnterpriseStep
<1>3. EnterpriseInv => ProxyIsTheConfigured
    <2>1. ASSUME EnterpriseInv, probe = "enterprise"
          PROVE  DOMAIN work.paths = 1..Len(work.paths)
        BY <2>1 DEF EnterpriseInv, EnterpriseLocals
    <2>. QED
        BY <2>1 DEF EnterpriseInv, ChosenFor, Chosen, ProxyIsTheConfigured
<1>. QED
    BY <1>1, <1>2, <1>3, PTL DEF Spec

\* What the findings are, and in which order.
LEMMA FindingsInOrder ==
    ASSUME NEW differ
    PROVE  /\ DOMAIN Findings(differ) = 1..9
           /\ Findings(differ)[2].holds <=> Heard("denied")
           /\ Findings(differ)[3].holds <=> PossibleInterception
           /\ Findings(differ)[5].holds <=> DirectRestricted
           /\ \A n \in 1..9 :
                /\ Findings(differ)[n].reason = "tls_interception_suspected" => n = 3
                /\ Findings(differ)[n].reason = "direct_egress_restricted" => n = 5
BY DEF Findings

LEMMA ComparedAreProxied == ComparedPaths \subseteq PathsOf(Proxied)
BY DEF ComparedPaths

LEMMA FoundedStep == EnterpriseIsFounded /\ Next => EnterpriseIsFounded'
<1>. SUFFICES ASSUME EnterpriseIsFounded, Next, probe = "enterprise", Done'
              PROVE  EnterpriseIsFounded'
    BY OneProbeRuns DEF EnterpriseIsFounded
<1>. UNCHANGED <<probe, world>>
    BY OneProbeRuns
<1>1. CASE ContextEnds
    BY <1>1 DEF ContextEnds, Done
<1>2. CASE EnterpriseBegins
    BY <1>2 DEF EnterpriseBegins, EnterpriseIsFounded, Continue, Return, Done, NotCollected,
                EnterpriseResult, Result
<1>3. CASE EnterpriseResolves
    BY <1>3 DEF EnterpriseResolves, NextPath, Continue, Done
<1>4. ASSUME NEW path, Observe(path)
      PROVE  FALSE
    BY <1>4 DEF Observe, NextPath, Continue, Done
<1>5. CASE EnterpriseConnects
    BY <1>4, <1>5 DEF EnterpriseConnects, Continue, Done
<1>6. CASE EnterpriseRequests
    BY <1>4, <1>6 DEF EnterpriseRequests
<1>7. CASE EnterpriseReturns
    <2>1. PICK differ \in BOOLEAN :
             LET findings == Findings(differ) IN
             \/ /\ \A n \in DOMAIN findings : ~findings[n].holds
                /\ Return(EnterpriseResult("passed", None, "proxy", "proxy"), work)
             \/ \E n \in DOMAIN findings :
                  /\ findings[n].holds
                  /\ \A m \in 1..(n - 1) : ~findings[m].holds
                  /\ Return(EnterpriseResult("failed", findings[n].reason, findings[n].layer,
                                             findings[n].domain), work)
        BY <1>7 DEF EnterpriseReturns
    <2>. DEFINE findings == Findings(differ)
    <2>2. CASE /\ \A n \in DOMAIN findings : ~findings[n].holds
               /\ Return(EnterpriseResult("passed", None, "proxy", "proxy"), work)
        <3>1. ~DirectRestricted
            BY <2>2, FindingsInOrder
        <3>2. UNCHANGED work /\ result'.status = "passed" /\ result'.reason = None
            BY <2>2 DEF Return, EnterpriseResult, Result
        <3>3. DirectPaths' = DirectPaths /\ PathsOf(Proxied)' = PathsOf(Proxied)
            BY <3>2 DEF DirectPaths, PathsOf, Proxied
        <3>. QED
            BY <3>1, <3>2, <3>3 DEF EnterpriseIsFounded, DirectRestricted, ProxyPathWorks, Works, None
    <2>3. CASE \E n \in DOMAIN findings :
                  /\ findings[n].holds
                  /\ \A m \in 1..(n - 1) : ~findings[m].holds
                  /\ Return(EnterpriseResult("failed", findings[n].reason, findings[n].layer,
                                             findings[n].domain), work)
        <3>1. PICK n \in 1..9 : /\ findings[n].holds
                                /\ \A m \in 1..(n - 1) : ~findings[m].holds
                                /\ UNCHANGED work
                                /\ result'.status = "failed" /\ result'.reason = findings[n].reason
            BY <2>3, FindingsInOrder DEF Return, EnterpriseResult, Result
        <3>2. result'.reason = "tls_interception_suspected" => PossibleInterception
            BY <3>1, FindingsInOrder
        <3>3. result'.reason = "direct_egress_restricted" => DirectRestricted /\ ~Heard("denied")
            <4>1. ASSUME n = 5
                  PROVE  ~findings[2].holds
                BY <3>1, <4>1
            <4>. QED
                BY <3>1, <4>1, FindingsInOrder
        <3>4. PossibleInterception =>
                \E d \in DirectPaths, p \in PathsOf(Proxied) :
                    /\ d.certificate # None /\ d.trusted /\ d.hostname
                    /\ p.certificate # None /\ p.trusted /\ p.hostname
                    /\ d.certificate # p.certificate
            BY ComparedAreProxied DEF PossibleInterception
        <3>5. ~Heard("denied") => \A d \in DirectPaths \cup PathsOf(Proxied) : d.connect # "denied"
            BY DEF Heard, PathsOf, DirectPaths
        <3>6. DirectPaths' = DirectPaths /\ PathsOf(Proxied)' = PathsOf(Proxied)
            BY <3>1 DEF DirectPaths, PathsOf, Proxied
        <3>. QED
            BY <3>1, <3>2, <3>3, <3>4, <3>5, <3>6 DEF EnterpriseIsFounded, DirectRestricted, ProxyPathWorks, Works
    <2>. QED
        BY <2>1, <2>2, <2>3
<1>. QED
    BY <1>1, <1>2, <1>3, <1>5, <1>6, <1>7, OneProbeRuns DEF EnterpriseNext

\* EnterpriseIsFounded: interception is suspected only of two vouched certificates
\* that differ, and direct access is called restricted only beside a proxied path
\* that works and no denial.
THEOREM EnterpriseConclusions == Spec => []EnterpriseIsFounded
<1>1. Init => EnterpriseIsFounded
    BY DEF Init, EndpointInit, DnsInit, ServiceInit, PathInit, ProxyInit, EnterpriseInit, Begins,
           EndpointNames, ListProbes, EnterpriseIsFounded, Done
<1>2. EnterpriseIsFounded /\ [Next]_runVars => EnterpriseIsFounded'
    <2>1. ASSUME EnterpriseIsFounded, UNCHANGED runVars
          PROVE  EnterpriseIsFounded'
        <3>1. DirectPaths' = DirectPaths /\ PathsOf(Proxied)' = PathsOf(Proxied)
            BY <2>1 DEF runVars, DirectPaths, PathsOf, Proxied
        <3>. QED
            BY <2>1, <3>1 DEF runVars, EnterpriseIsFounded, Done, Works
    <2>. QED
        BY <2>1, FoundedStep
<1>. QED
    BY <1>1, <1>2, PTL DEF Spec

-----------------------------------------------------------------------------
(* The proxy probe.                                                         *)
DialStates == {"reachable", "unreachable", "timeout", "canceled", "not_checked"}

ConfiguredStates ==
    {"configuration_unavailable", "malformed_proxy_endpoint", "pac_configured",
     "static_proxy_configured", "direct"}

FailedStates == {"proxy_endpoint_unreachable", "proxy_endpoint_timeout"}

ProxyLocals ==
    [source : 1..3, at : Nat, dialing : BOOLEAN, state : ConfiguredStates \cup FailedStates \cup {None},
     dialed : Seq(DialStates), states : Seq(ConfiguredStates \cup FailedStates),
     checks : Seq(Seq(DialStates))]

\* No dial has failed, and one has that no cancellation explains.
Quiet(dialed) == \A i \in 1..Len(dialed) : dialed[i] \in {"reachable", "not_checked"}

Broken(dialed) == \E i \in 1..Len(dialed) : dialed[i] \in {"unreachable", "timeout"}

\* What the state of a source and the dials of its endpoints say of each other.
Accounts(source, state, dialed, over) ==
    /\ Quiet(dialed) => state = State(source)
    /\ ~Quiet(dialed) => state \in FailedStates
    /\ ~Quiet(dialed) => Broken(dialed) \/ over

ProxyInv ==
    probe = "proxy" =>
        /\ ctx \in Contexts /\ work \in ProxyLocals
        /\ pc \in {"start", "discover", "checking", "done"}
        /\ pc \in {"start", "discover"} => work = ProxyWork
        /\ work.dialing => work.source <= 2
        /\ Len(work.states) = work.source - 1 /\ Len(work.checks) = work.source - 1
        /\ pc = "checking" /\ work.source <= 2 =>
              /\ work.state # None
              /\ Accounts(SourceAt(work.source), work.state, work.dialed, ctx # "live")
        /\ \A n \in 1..Len(work.states) : Accounts(SourceAt(n), work.states[n], work.checks[n], ctx # "live")

\* That the context ends takes nothing from them.
LEMMA AccountsAge ==
    ASSUME NEW source, NEW state, NEW dialed, NEW over \in BOOLEAN, NEW ended \in BOOLEAN,
           over => ended, Accounts(source, state, dialed, over)
    PROVE  Accounts(source, state, dialed, ended)
BY DEF Accounts

LEMMA StateIsConfigured == \A source : State(source) \in ConfiguredStates
BY DEF State, ConfiguredStates

\* One endpoint more has been checked.
LEMMA CheckedKeeps ==
    ASSUME ProxyInv, probe = "proxy", pc = "checking", work.source <= 2, UNCHANGED <<probe, world>>,
           NEW status \in DialStates, NEW state,
           Continue("checking", Checked(status, state)),
           \/ status \in {"reachable", "not_checked"} /\ state = work.state
           \/ status \in {"unreachable", "timeout"} /\ state \in FailedStates
           \/ status = "canceled" /\ state \in FailedStates /\ ctx # "live"
    PROVE  ProxyInv'
<1>. DEFINE dialed == Append(work.dialed, status)
<1>1. /\ work \in ProxyLocals /\ ctx \in Contexts /\ work.state # None
      /\ Accounts(SourceAt(work.source), work.state, work.dialed, ctx # "live")
      /\ Len(work.states) = work.source - 1 /\ Len(work.checks) = work.source - 1
      /\ \A n \in 1..Len(work.states) : Accounts(SourceAt(n), work.states[n], work.checks[n], ctx # "live")
    BY DEF ProxyInv
<1>2. /\ dialed \in Seq(DialStates) /\ Len(dialed) = Len(work.dialed) + 1
      /\ dialed[Len(dialed)] = status
      /\ \A i \in 1..Len(work.dialed) : dialed[i] = work.dialed[i]
    BY <1>1, AppendProperties DEF ProxyLocals
<1>3. state \in ConfiguredStates \cup FailedStates
    BY <1>1 DEF ProxyLocals
<1>4. /\ pc' = "checking" /\ UNCHANGED <<ctx, result>>
      /\ work' = [source |-> work.source, at |-> work.at + 1, dialing |-> FALSE, state |-> state,
                  dialed |-> dialed, states |-> work.states, checks |-> work.checks]
    BY <1>1 DEF Continue, Checked, ProxyLocals
<1>5. work' \in ProxyLocals
    BY <1>1, <1>2, <1>3, <1>4 DEF ProxyLocals
<1>6. Accounts(SourceAt(work.source), state, dialed, ctx # "live")
    <2>1. Len(work.dialed) \in Nat
        BY <1>1 DEF ProxyLocals
    <2>2. \A i \in 1..Len(dialed) : i \in 1..Len(work.dialed) \/ i = Len(dialed)
        BY <1>2, <2>1
    <2>3. 1..Len(work.dialed) \subseteq 1..Len(dialed) /\ Len(dialed) \in 1..Len(dialed)
        BY <1>2, <2>1
    <2>. QED
        BY <1>1, <1>2, <2>2, <2>3 DEF Accounts, Quiet, Broken, FailedStates
<1>7. /\ Accounts(SourceAt(work.source), work.state, work.dialed, ctx # "live")'
      /\ (\A n \in 1..Len(work.states) : Accounts(SourceAt(n), work.states[n], work.checks[n], ctx # "live"))'
    BY <1>1, <1>4, <1>6 DEF SourceAt
<1>. QED
    BY <1>1, <1>3, <1>4, <1>5, <1>7 DEF ProxyInv, ConfiguredStates, FailedStates, None

\* The loop over the sources comes to the next one.
LEMMA AtSourceKeeps ==
    ASSUME NEW locals \in ProxyLocals, NEW n \in 1..3,
           Len(locals.states) = n - 1, Len(locals.checks) = n - 1, ~locals.dialing
    PROVE  /\ AtSource(n, locals) \in ProxyLocals
           /\ AtSource(n, locals).source = n /\ ~AtSource(n, locals).dialing
           /\ AtSource(n, locals).states = locals.states /\ AtSource(n, locals).checks = locals.checks
           /\ n <= 2 => /\ AtSource(n, locals).state # None
                        /\ Accounts(SourceAt(n), AtSource(n, locals).state, AtSource(n, locals).dialed, ctx # "live")
<1>. DEFINE state == IF n > Len(SourceNames) THEN None ELSE State(SourceAt(n))
<1>1. state = IF n > 2 THEN None ELSE State(SourceAt(n))
    BY DEF SourceNames
<1>2. AtSource(n, locals) =
        [source |-> n, at |-> 1, dialing |-> FALSE, state |-> state, dialed |-> <<>>,
         states |-> locals.states, checks |-> locals.checks]
    <2>. HIDE DEF state
    <2>1. AtSource(n, locals) = [locals EXCEPT !.source = n, !.at = 1, !.dialed = <<>>, !.state = state]
        BY DEF AtSource, state
    <2>. QED
        BY <2>1 DEF ProxyLocals
<1>3. AtSource(n, locals) \in ProxyLocals
    <2>1. state \in ConfiguredStates \cup FailedStates \cup {None}
        BY StateIsConfigured
    <2>2. <<>> \in Seq(DialStates) /\ n \in 1..3 /\ 1 \in Nat
        OBVIOUS
    <2>. HIDE DEF state
    <2>. QED
        BY <1>2, <2>1, <2>2 DEF ProxyLocals
<1>4. State(SourceAt(n)) # None
    BY StateIsConfigured DEF ConfiguredStates, None
<1>. QED
    BY <1>1, <1>2, <1>3, <1>4 DEF Accounts, Quiet

LEMMA ProxyStep == ProxyInv /\ Next => ProxyInv'
<1>. SUFFICES ASSUME ProxyInv, Next, probe = "proxy"
              PROVE  ProxyInv'
    BY OneProbeRuns DEF ProxyInv
<1>. UNCHANGED <<probe, world>>
    BY OneProbeRuns
<1>1. /\ work \in ProxyLocals /\ ctx \in Contexts
      /\ Len(work.states) = work.source - 1 /\ Len(work.checks) = work.source - 1
      /\ pc \in {"start", "discover"} => work = ProxyWork
      /\ work.dialing => work.source <= 2
      /\ pc = "checking" /\ work.source <= 2 =>
              /\ work.state # None
              /\ Accounts(SourceAt(work.source), work.state, work.dialed, ctx # "live")
      /\ \A n \in 1..Len(work.states) : Accounts(SourceAt(n), work.states[n], work.checks[n], ctx # "live")
    BY DEF ProxyInv
<1>2. Len(SourceNames) = 2
    BY DEF SourceNames
<1>3. ASSUME UNCHANGED work, ctx' \in Contexts, ctx # "live" => ctx' # "live",
             \/ pc' = pc
             \/ pc' = "discover" /\ pc = "start"
             \/ pc' = "done"
      PROVE  ProxyInv'
    <2>2. (\A n \in 1..Len(work.states) : Accounts(SourceAt(n), work.states[n], work.checks[n], ctx # "live"))'
        BY <1>1, <1>3, AccountsAge DEF SourceAt
    <2>3. pc' = "checking" /\ work.source <= 2 =>
              Accounts(SourceAt(work.source), work.state, work.dialed, ctx # "live")'
        BY <1>1, <1>3, AccountsAge DEF SourceAt
    <2>. QED
        BY <1>1, <1>3, <2>2, <2>3 DEF ProxyInv
<1>4. CASE ContextEnds
    BY <1>1, <1>3, <1>4 DEF ContextEnds, Contexts
<1>5. CASE ProxyBegins
    BY <1>1, <1>3, <1>5 DEF ProxyBegins, Continue, Return
<1>6. CASE ProxyReturns
    BY <1>1, <1>3, <1>6 DEF ProxyReturns, Return
<1>7. CASE ProxyDiscovers
    <2>1. CASE Continue("checking", AtSource(1, work))
        <3>1. work = ProxyWork
            BY <1>1, <1>7 DEF ProxyDiscovers
        <3>2. Len(work.states) = 0 /\ Len(work.checks) = 0 /\ ~work.dialing
            BY <3>1 DEF ProxyWork
        <3>3. /\ work' \in ProxyLocals /\ work'.source = 1 /\ work'.state # None /\ ~work'.dialing
              /\ Len(work'.states) = 0 /\ Len(work'.checks) = 0
              /\ Accounts(SourceAt(1), AtSource(1, work).state, AtSource(1, work).dialed, ctx # "live")
            BY <1>1, <2>1, <3>2, AtSourceKeeps DEF Continue
        <3>4. Accounts(SourceAt(work.source), work.state, work.dialed, ctx # "live")'
            BY <2>1, <3>3 DEF Continue, SourceAt
        <3>. QED
            BY <1>1, <2>1, <3>3, <3>4 DEF ProxyInv, Continue
    <2>. QED
        BY <1>1, <1>3, <1>7, <2>1 DEF ProxyDiscovers, Return
<1>8. CASE ProxyChecks
    <2>1. CASE Continue("checking", [work EXCEPT !.dialing = TRUE])
        <3>1. /\ work' \in ProxyLocals
              /\ UNCHANGED <<work.source, work.at, work.state, work.dialed, work.states, work.checks>>
            BY <1>1, <2>1 DEF Continue, ProxyLocals
        <3>2. /\ (\A n \in 1..Len(work.states) : Accounts(SourceAt(n), work.states[n], work.checks[n], ctx # "live"))'
              /\ work.source <= 2 => Accounts(SourceAt(work.source), work.state, work.dialed, ctx # "live")'
            BY <1>1, <1>8, <2>1, <3>1 DEF SourceAt, Continue, ProxyChecks
        <3>. QED
            BY <1>1, <1>2, <1>8, <2>1, <3>1, <3>2 DEF ProxyInv, Continue, ProxyChecks
    <2>. QED
        BY <1>1, <1>2, <1>8, <2>1, CheckedKeeps DEF ProxyChecks, DialStates, FailedStates
<1>9. CASE ProxyDials
    <2>1. CASE Continue("checking", Checked("reachable", work.state))
        BY <1>1, <1>2, <1>9, <2>1, CheckedKeeps DEF ProxyDials, DialStates
    <2>2. CASE Continue("checking", Checked("unreachable", "proxy_endpoint_unreachable"))
        BY <1>1, <1>2, <1>9, <2>2, CheckedKeeps DEF ProxyDials, DialStates, FailedStates
    <2>3. CASE Continue("checking", Checked("timeout", "proxy_endpoint_timeout"))
        BY <1>1, <1>2, <1>9, <2>3, CheckedKeeps DEF ProxyDials, DialStates, FailedStates
    <2>. QED
        BY <1>9, <2>1, <2>2, <2>3 DEF ProxyDials
<1>10. CASE ProxyNextSource
    <2>. DEFINE states == Append(work.states, work.state)
                checks == Append(work.checks, work.dialed)
                locals == [work EXCEPT !.states = states, !.checks = checks]
    <2>1. /\ pc = "checking" /\ work.source \in 1..2 /\ ~work.dialing
          /\ Continue("checking", AtSource(work.source + 1, locals))
        BY <1>1, <1>2, <1>10 DEF ProxyNextSource, ProxyLocals
    <2>2. /\ states \in Seq(ConfiguredStates \cup FailedStates) /\ Len(states) = work.source
          /\ checks \in Seq(Seq(DialStates)) /\ Len(checks) = work.source
          /\ states[work.source] = work.state /\ checks[work.source] = work.dialed
          /\ \A n \in 1..Len(work.states) : states[n] = work.states[n] /\ checks[n] = work.checks[n]
        BY <1>1, <2>1, AppendProperties DEF ProxyLocals
    <2>3. locals \in ProxyLocals /\ locals.states = states /\ locals.checks = checks /\ ~locals.dialing
        BY <1>1, <2>1, <2>2 DEF ProxyLocals
    <2>4. /\ work' \in ProxyLocals /\ work'.source = work.source + 1 /\ ~work'.dialing
          /\ work'.states = states /\ work'.checks = checks
          /\ work.source + 1 <= 2 =>
                /\ work'.state # None
                /\ Accounts(SourceAt(work.source + 1), work'.state, work'.dialed, ctx # "live")
        <3>. DEFINE n == work.source + 1
        <3>1. n \in 1..3 /\ n - 1 = work.source
            BY <2>1
        <3>. HIDE DEF n, locals, states, checks
        <3>2. /\ AtSource(n, locals) \in ProxyLocals
              /\ AtSource(n, locals).source = n /\ ~AtSource(n, locals).dialing
              /\ AtSource(n, locals).states = locals.states /\ AtSource(n, locals).checks = locals.checks
              /\ n <= 2 => /\ AtSource(n, locals).state # None
                           /\ Accounts(SourceAt(n), AtSource(n, locals).state,
                                       AtSource(n, locals).dialed, ctx # "live")
            BY <2>2, <2>3, <3>1, AtSourceKeeps
        <3>3. work' = AtSource(n, locals)
            BY <2>1 DEF Continue, n
        <3>. QED
            BY <2>3, <3>2, <3>3 DEF n
    <2>5. \A n \in 1..work.source : Accounts(SourceAt(n), states[n], checks[n], ctx # "live")
        <3>1. \A n \in 1..work.source : n \in 1..Len(work.states) \/ n = work.source
            BY <1>1, <2>1
        <3>. QED
            BY <1>1, <2>1, <2>2, <3>1
    <2>6. /\ (\A n \in 1..Len(work.states) : Accounts(SourceAt(n), work.states[n], work.checks[n], ctx # "live"))'
          /\ (work.source <= 2 => Accounts(SourceAt(work.source), work.state, work.dialed, ctx # "live"))'
        BY <2>1, <2>2, <2>4, <2>5 DEF SourceAt, Continue
    <2>7. /\ ctx' \in Contexts /\ pc' = "checking"
          /\ Len(work'.states) = work'.source - 1 /\ Len(work'.checks) = work'.source - 1
          /\ work'.source <= 2 => work'.state # None
        <3>1. ctx' \in Contexts /\ pc' = "checking"
            BY <1>1, <2>1 DEF Continue
        <3>. HIDE DEF states, checks
        <3>. QED
            BY <2>1, <2>2, <2>4, <3>1
    <2>. QED
        BY <2>4, <2>6, <2>7 DEF ProxyInv
<1>. QED
    BY <1>4, <1>5, <1>6, <1>7, <1>8, <1>9, <1>10, OneProbeRuns DEF ProxyNext

BrokenStates == {"configuration_unavailable", "malformed_proxy_endpoint"}

LEMMA StateTells ==
    ASSUME NEW source
    PROVE  /\ State(source) \in BrokenStates => ~source.available \/ Malformed(source.list)
           /\ State(source) \notin BrokenStates => source.available /\ ~Malformed(source.list)
           /\ State(source) \notin FailedStates
BY DEF State, BrokenStates, FailedStates

\* While nobody has stopped the run, the state of a source is that of its settings
\* unless a dial has failed.
LEMMA AccountsTell ==
    ASSUME NEW source, NEW state, NEW dialed, NEW over \in BOOLEAN, ~over,
           Accounts(source, state, dialed, over)
    PROVE  /\ Quiet(dialed) => /\ state \notin FailedStates
                               /\ state \in BrokenStates => ~source.available \/ Malformed(source.list)
                               /\ state \notin BrokenStates => source.available /\ ~Malformed(source.list)
           /\ ~Quiet(dialed) => state \in FailedStates /\ state \notin BrokenStates /\ Broken(dialed)
<1>1. CASE Quiet(dialed)
    BY <1>1, StateTells DEF Accounts
<1>2. CASE ~Quiet(dialed)
    BY <1>2 DEF Accounts, FailedStates, BrokenStates
<1>. QED
    BY <1>1, <1>2

\* The dials of all the sources.
Dialed == UNION {ToSet(work.checks[n]) : n \in DOMAIN work.checks}

LEMMA VerdictStep == ProxyInv /\ ProxyVerdictIsFounded /\ Next => ProxyVerdictIsFounded'
<1>. SUFFICES ASSUME ProxyInv, ProxyVerdictIsFounded, Next, probe = "proxy", Done',
                     world.discovery = "sources"
              PROVE  ProxyVerdictIsFounded'
    BY OneProbeRuns DEF ProxyVerdictIsFounded
<1>. UNCHANGED <<probe, world>>
    BY OneProbeRuns
<1>1. CASE result' = ProxyResult("error", "probe_execution_failure")
    BY <1>1 DEF ProxyVerdictIsFounded, ProxyResult, Result
<1>2. CASE ContextEnds
    BY <1>2 DEF ContextEnds, Done
<1>3. CASE ProxyBegins
    BY <1>1, <1>3 DEF ProxyBegins, Continue, Return, Done
<1>4. CASE ProxyDiscovers
    BY <1>1, <1>4 DEF ProxyDiscovers, Continue, Return, Done
<1>5. CASE ProxyChecks
    BY <1>5 DEF ProxyChecks, Continue, Done
<1>6. CASE ProxyDials
    BY <1>6 DEF ProxyDials, Continue, Done
<1>7. CASE ProxyNextSource
    BY <1>7 DEF ProxyNextSource, Continue, Done
<1>8. CASE ProxyReturns /\ ctx = "live"
    <2>. DEFINE s1 == work.states[1]  d1 == work.checks[1]  source1 == SourceAt(1)
                s2 == work.states[2]  d2 == work.checks[2]  source2 == SourceAt(2)
    <2>1. /\ work \in ProxyLocals /\ Len(work.states) = work.source - 1 /\ Len(work.checks) = work.source - 1
          /\ \A n \in 1..Len(work.states) : Accounts(SourceAt(n), work.states[n], work.checks[n], ctx # "live")
        BY DEF ProxyInv
    <2>2. Len(work.states) = 2 /\ Len(work.checks) = 2
        <3>1. work.source \in 1..3 /\ work.source > 2
            BY <1>8, <2>1 DEF ProxyReturns, ProxyLocals, SourceNames
        <3>2. work.source = 3
            BY <3>1
        <3>. QED
            BY <2>1, <3>2
    <2>3. Accounts(source1, s1, d1, ctx # "live") /\ Accounts(source2, s2, d2, ctx # "live")
        BY <2>1, <2>2
    <2>4. DOMAIN d1 = 1..Len(d1) /\ DOMAIN d2 = 1..Len(d2)
        <3>1. d1 \in Seq(DialStates) /\ d2 \in Seq(DialStates)
            BY <2>1, <2>2 DEF ProxyLocals
        <3>. QED
            BY <3>1
    <2>5. ToSet(work.states) = {s1, s2}
        <3>1. DOMAIN work.states = {1, 2}
            BY <2>1, <2>2 DEF ProxyLocals
        <3>. QED
            BY <3>1 DEF ToSet
    <2>6. Dialed = ToSet(d1) \cup ToSet(d2)
        <3>1. DOMAIN work.checks = {1, 2}
            BY <2>1, <2>2 DEF ProxyLocals
        <3>. QED
            BY <3>1 DEF Dialed
    <2>7. result' = ProxyVerdict /\ UNCHANGED work /\ Dialed' = Dialed
        BY <1>8 DEF ProxyReturns, Return, Dialed
    <2>. HIDE DEF s1, s2, d1, d2
    <2>8. ASSUME NEW d, DOMAIN d = 1..Len(d)
          PROVE  /\ Quiet(d) => ToSet(d) \subseteq {"reachable", "not_checked"}
                 /\ Broken(d) => ToSet(d) \cap {"unreachable", "timeout"} # {}
        BY <2>8 DEF Quiet, Broken, ToSet
    <2>9. CASE {s1, s2} \cap BrokenStates # {}
        <3>1. result' = ProxyResult("error", "proxy_configuration_failure")
            BY <1>8, <2>5, <2>7, <2>9 DEF ProxyVerdict, BrokenStates
        <3>2. \/ ~source1.available \/ Malformed(source1.list)
              \/ ~source2.available \/ Malformed(source2.list)
            BY <1>8, <2>3, <2>9, AccountsTell
        <3>. QED
            BY <3>1, <3>2 DEF ProxyVerdictIsFounded, ProxyResult, Result, SourceAt
    <2>10. CASE {s1, s2} \cap BrokenStates = {} /\ {s1, s2} \cap FailedStates # {}
        <3>1. result' = ProxyResult("failed", "proxy_unavailable")
            BY <1>8, <2>5, <2>7, <2>10 DEF ProxyVerdict, BrokenStates, FailedStates
        <3>2. Broken(d1) \/ Broken(d2)
            BY <1>8, <2>3, <2>10, AccountsTell
        <3>3. Dialed' \cap {"unreachable", "timeout"} # {}
            BY <2>4, <2>6, <2>7, <2>8, <3>2
        <3>. QED
            BY <3>1, <3>3 DEF ProxyVerdictIsFounded, ProxyResult, Result, Dialed
    <2>11. CASE {s1, s2} \cap BrokenStates = {} /\ {s1, s2} \cap FailedStates = {}
        <3>1. /\ Quiet(d1) /\ Quiet(d2)
              /\ source1.available /\ ~Malformed(source1.list)
              /\ source2.available /\ ~Malformed(source2.list)
            BY <1>8, <2>3, <2>11, AccountsTell
        <3>2. Dialed' \subseteq {"reachable", "not_checked"}
            BY <2>4, <2>6, <2>7, <2>8, <3>1
        <3>3. result' = ProxyResult("passed", None)
            BY <1>8, <2>5, <2>7, <2>11 DEF ProxyVerdict, BrokenStates, FailedStates
        <3>. QED
            BY <3>1, <3>2, <3>3 DEF ProxyVerdictIsFounded, Dialed, SourceAt, None, ProxyResult, Result
    <2>. QED
        BY <2>9, <2>10, <2>11
<1>9. CASE ProxyReturns /\ ctx # "live"
    BY <1>1, <1>9 DEF ProxyReturns, ProxyVerdict, Return
<1>. QED
    BY <1>2, <1>3, <1>4, <1>5, <1>6, <1>7, <1>8, <1>9, OneProbeRuns DEF ProxyNext

\* ProxyVerdictIsFounded: the proxy probe passes only over readable, well-formed
\* settings whose endpoints answered, and blames what has failed.
THEOREM ProxyConclusions == Spec => []ProxyVerdictIsFounded
<1>1. Init => ProxyInv /\ ProxyVerdictIsFounded
    <2>. SUFFICES ASSUME Init, probe = "proxy"
                  PROVE  ProxyInv /\ ~Done
        BY DEF ProxyInv, ProxyVerdictIsFounded
    <2>1. Begins("proxy", ProxyWorlds, ProxyWork)
        BY DEF Init, EndpointInit, DnsInit, ServiceInit, PathInit, ProxyInit, EnterpriseInit, Begins,
               EndpointNames, ListProbes
    <2>2. ProxyWork \in ProxyLocals
        BY DEF ProxyWork, ProxyLocals
    <2>. QED
        BY <2>1, <2>2 DEF Begins, ProxyInv, Contexts, ProxyWork, Done
<1>2. ProxyInv /\ ProxyVerdictIsFounded /\ [Next]_runVars => (ProxyInv /\ ProxyVerdictIsFounded)'
    <2>1. ASSUME ProxyInv, ProxyVerdictIsFounded, UNCHANGED runVars
          PROVE  (ProxyInv /\ ProxyVerdictIsFounded)'
        BY <2>1 DEF runVars, ProxyInv, ProxyVerdictIsFounded, Done, SourceAt
    <2>. QED
        BY <2>1, ProxyStep, VerdictStep
<1>. QED
    BY <1>1, <1>2, PTL DEF Spec

-----------------------------------------------------------------------------
(* The dns probe.                                                           *)
DnsLocals ==
    [helper : 0..4, answers : Seq(Answers), sent : Seq(Answers), received : Seq(Answers)]

\* The goroutine has one answer for each family that it has asked for, and the
\* channel carries all of them or none.
DnsInv ==
    probe = "dns" =>
        /\ ctx \in Contexts /\ world \in DnsWorlds /\ work \in DnsLocals
        /\ pc \in {"start", "environment", "config", "lookup", "done"}
        /\ work.helper = 0 => work.answers = <<>>
        /\ work.helper \in 1..3 => Len(work.answers) = work.helper - 1
        /\ pc \in {"start", "environment", "config"} => work.helper = 0
        /\ work.sent # <<>> => Len(work.sent) = 2
        /\ pc # "done" => work.received = <<>>

LEMMA DnsStep == DnsInv /\ Next => DnsInv'
<1>. SUFFICES ASSUME DnsInv, Next, probe = "dns"
              PROVE  DnsInv'
    BY OneProbeRuns DEF DnsInv
<1>. UNCHANGED <<probe, world>>
    BY OneProbeRuns
<1>1. CASE ContextEnds
    BY <1>1 DEF ContextEnds, DnsInv, Contexts
<1>2. CASE DnsBegins
    BY <1>2 DEF DnsBegins, DnsInv, Continue, Return
<1>3. CASE DnsWaits
    BY <1>3 DEF DnsWaits, DnsInv, Continue
<1>4. CASE DnsEnvironment
    BY <1>4 DEF DnsEnvironment, DnsInv, Continue
<1>5. CASE DnsConfig
    <2>1. CASE Continue("lookup", [work EXCEPT !.helper = 1])
        BY <1>5, <2>1 DEF DnsConfig, DnsInv, DnsLocals, Continue
    <2>2. CASE UNCHANGED <<work, ctx>> /\ pc' = "done"
        BY <2>2 DEF DnsInv
    <2>. QED
        BY <1>5, <2>1, <2>2 DEF DnsConfig, Return
<1>6. CASE DnsAnswer
    <2>1. DOMAIN Families = {1, 2} /\ Families[1] = "A" /\ Families[2] = "AAAA"
        BY DEF Families
    <2>2. work.helper = 1 \/ work.helper = 2
        BY <1>6, <2>1 DEF DnsAnswer
    <2>3. world.A \in Answers /\ world.AAAA \in Answers
        BY DEF DnsInv, DnsWorlds, Answers
    <2>4. world[Families[work.helper]] \in Answers
        <3>1. CASE work.helper = 1
            BY <2>1, <2>3, <3>1
        <3>2. CASE work.helper = 2
            BY <2>1, <2>3, <3>2
        <3>. QED
            BY <2>2, <3>1, <3>2
    <2>5. PICK answer \in Answers :
             work' = [work EXCEPT !.helper = work.helper + 1, !.answers = Append(work.answers, answer)]
        <3>1. {world[Families[work.helper]]}
                 \cup (IF LookupOver THEN {IF ctx = "cancelled" THEN "resolver_failure" ELSE "timeout"}
                       ELSE {}) \subseteq Answers
            BY <2>4 DEF Answers
        <3>. QED
            BY <1>6, <3>1 DEF DnsAnswer
    <2>6. work \in DnsLocals
        BY DEF DnsInv
    <2>7. work' = [helper |-> work.helper + 1, answers |-> Append(work.answers, answer),
                   sent |-> work.sent, received |-> work.received]
        BY <2>5, <2>6 DEF DnsLocals
    <2>8. /\ Append(work.answers, answer) \in Seq(Answers)
          /\ Len(Append(work.answers, answer)) = Len(work.answers) + 1
        BY <2>6, AppendProperties DEF DnsLocals
    <2>9. work.helper + 1 \in 2..3
        BY <2>2
    <2>10. work' \in DnsLocals
        <3>1. work.helper + 1 \in 0..4 /\ work.sent \in Seq(Answers) /\ work.received \in Seq(Answers)
            BY <2>6, <2>9 DEF DnsLocals
        <3>. QED
            BY <2>7, <2>8, <3>1 DEF DnsLocals
    <2>11. Len(work.answers) = work.helper - 1
        BY <2>2 DEF DnsInv
    <2>12. /\ work'.helper = work.helper + 1 /\ Len(work'.answers) = work'.helper - 1
           /\ work'.sent = work.sent /\ work'.received = work.received
        BY <2>2, <2>7, <2>8, <2>11
    <2>13. UNCHANGED <<pc, ctx>> /\ pc \in {"lookup", "done"}
        BY <1>6, <2>2 DEF DnsAnswer, DnsInv
    <2>14. work'.helper # 0 /\ (work'.sent # <<>> => Len(work'.sent) = 2)
        BY <2>2, <2>12 DEF DnsInv
    <2>15. pc' # "done" => work'.received = <<>>
        BY <2>12, <2>13 DEF DnsInv
    <2>16. probe' = probe /\ world' \in DnsWorlds /\ ctx' \in Contexts
        BY <2>13 DEF DnsInv
    <2>. QED
        BY <2>10, <2>12, <2>13, <2>14, <2>15, <2>16 DEF DnsInv
<1>7. CASE DnsSends
    <2>1. work \in DnsLocals /\ Len(work.answers) = 2 /\ pc \in {"lookup", "done"}
        BY <1>7 DEF DnsSends, DnsInv
    <2>2. work' = [helper |-> 4, answers |-> work.answers, sent |-> work.answers, received |-> work.received]
        BY <1>7, <2>1 DEF DnsSends, DnsLocals
    <2>3. work' \in DnsLocals
        BY <2>1, <2>2 DEF DnsLocals
    <2>. QED
        BY <1>7, <2>1, <2>2, <2>3 DEF DnsSends, DnsInv
<1>8. CASE DnsReceives
    BY <1>8 DEF DnsReceives, DnsInv, DnsLocals, Return
<1>9. CASE DnsGivesUp
    BY <1>9 DEF DnsGivesUp, DnsInv, Return
<1>. QED
    BY <1>1, <1>2, <1>3, <1>4, <1>5, <1>6, <1>7, <1>8, <1>9, OneProbeRuns DEF DnsNext

\* What resolutionStatus makes of the answers of both families.
LEMMA ResolutionIsHonest ==
    ASSUME NEW answers \in Seq(Answers), Len(answers) = 2
    PROVE  LET found == ResolutionStatus(answers)
               negative == Failures(answers) \subseteq {"not_found", "no_answer"}
           IN  /\ found.about # 0 => answers[found.about] = "addresses"
               /\ found.reason \in {"dns_nxdomain", "dns_no_answer"} =>
                     "addresses" \notin ToSet(answers) /\ negative
               /\ negative => (found.status = "passed" <=> "addresses" \in ToSet(answers))
<1>. DEFINE failures == Failures(answers)
            selected == Selected(answers)
            negative == failures \subseteq {"not_found", "no_answer"}
<1>1. /\ DOMAIN answers = {1, 2} /\ answers[1] \in Answers /\ answers[2] \in Answers
      /\ ToSet(answers) = {answers[1], answers[2]}
    BY DEF ToSet
<1>2. failures \subseteq {"not_found", "no_answer", "timeout", "resolver_failure"}
    BY <1>1 DEF Failures, Answers
<1>3. /\ selected # 0 <=> "addresses" \in ToSet(answers)
      /\ selected # 0 => answers[selected] = "addresses"
    BY <1>1 DEF Selected
<1>. HIDE DEF failures, selected
<1>4. CASE "timeout" \in failures
    <2>1. ResolutionStatus(answers) = DnsResult("failed", "dns_timeout", selected)
        BY <1>4 DEF ResolutionStatus, failures, selected
    <2>. QED
        BY <1>3, <1>4, <2>1 DEF failures, DnsResult, Result
<1>5. CASE "timeout" \notin failures /\ "resolver_failure" \in failures
    <2>1. ResolutionStatus(answers) = DnsResult("failed", "dns_resolver_failure", selected)
        BY <1>5 DEF ResolutionStatus, failures, selected
    <2>. QED
        BY <1>3, <1>5, <2>1 DEF failures, DnsResult, Result
<1>6. CASE negative /\ selected # 0
    <2>1. ResolutionStatus(answers) = DnsResult("passed", "none", selected)
        BY <1>6 DEF ResolutionStatus, failures, selected
    <2>. QED
        BY <1>3, <1>6, <2>1 DEF failures, DnsResult, Result
<1>7. CASE negative /\ selected = 0
    <2>1. failures = {"not_found"} \/ failures \in {{}, {"no_answer"}, {"not_found", "no_answer"}}
        BY <1>7
    <2>2. \/ ResolutionStatus(answers) = DnsResult("failed", "dns_nxdomain", 0)
          \/ ResolutionStatus(answers) = DnsResult("failed", "dns_no_answer", 0)
        BY <1>7, <2>1 DEF ResolutionStatus, failures, selected
    <2>. QED
        BY <1>3, <1>7, <2>2 DEF failures, DnsResult, Result
<1>. QED
    BY <1>2, <1>4, <1>5, <1>6, <1>7

LEMMA LookupStep == DnsInv /\ LookupIsHonest /\ Next => LookupIsHonest'
<1>. SUFFICES ASSUME DnsInv, LookupIsHonest, Next, probe = "dns", Done', world.target = "name"
              PROVE  LookupIsHonest'
    BY OneProbeRuns DEF LookupIsHonest
<1>. UNCHANGED <<probe, world>>
    BY OneProbeRuns
<1>1. ASSUME result'.status \in {"failed", "error"}, result'.about = 0, work'.received = <<>>,
             result'.reason \in {"dns_timeout", "dns_resolver_failure"}
      PROVE  LookupIsHonest'
    BY <1>1 DEF LookupIsHonest
<1>2. CASE ContextEnds
    BY <1>2 DEF ContextEnds, Done
<1>3. CASE DnsBegins
    BY <1>3 DEF DnsBegins, Continue, Done
<1>4. CASE DnsWaits
    BY <1>4 DEF DnsWaits, Continue, Done
<1>5. CASE DnsEnvironment
    BY <1>5 DEF DnsEnvironment, Continue, Done
<1>6. CASE DnsConfig
    BY <1>1, <1>6 DEF DnsConfig, DnsInv, Continue, Return, Done, DnsResult, Result, ContextReason
<1>7. CASE DnsAnswer
    <2>1. UNCHANGED <<pc, result>> /\ work'.received = work.received
        BY <1>7 DEF DnsAnswer, DnsInv, DnsLocals
    <2>. QED
        BY <2>1 DEF LookupIsHonest, Done
<1>8. CASE DnsSends
    <2>1. UNCHANGED <<pc, result>> /\ work'.received = work.received
        BY <1>8 DEF DnsSends, DnsInv, DnsLocals
    <2>. QED
        BY <2>1 DEF LookupIsHonest, Done
<1>9. CASE DnsReceives
    <2>1. /\ work.sent \in Seq(Answers) /\ Len(work.sent) = 2 /\ work.sent # <<>>
          /\ work'.received = work.sent /\ result' = ResolutionStatus(work.sent)
        BY <1>9 DEF DnsReceives, DnsInv, DnsLocals, Return
    <2>. QED
        BY <2>1, ResolutionIsHonest DEF LookupIsHonest
<1>10. CASE DnsGivesUp
    BY <1>1, <1>10 DEF DnsGivesUp, DnsInv, Return, DnsResult, Result, ContextReason
<1>. QED
    BY <1>2, <1>3, <1>4, <1>5, <1>6, <1>7, <1>8, <1>9, <1>10, OneProbeRuns DEF DnsNext

-----------------------------------------------------------------------------
(* The dns_service probe.                                                   *)
ServiceFields == {"lane", "at", "retry", "left", "budget", "udp", "tcp"}

Transports == {"udp", "tcp"}

AttemptOutcomes ==
    {"success", "refused", "malformed_response", "timeout", "transport_failure", "cancellation"}

\* What a lane has found while it still asks: no valid response, and the outcome it
\* keeps is the best it has met.
InProgress(lane) ==
    /\ lane.outcome \in {"unknown"} \cup (AttemptOutcomes \ Valid)
    /\ lane.top = Rank(lane.outcome)

\* What it reports in the end: a lane that was cancelled before it asked has met nothing.
Ranked(lane) ==
    /\ lane.top \in 0..6 /\ (lane.top = 6 <=> lane.outcome \in Valid)
    /\ lane.top \in 1..5 => Rank(lane.outcome) = lane.top

\* The lanes are asked in turn, and only a lane that is asked has anything to tell.
ServiceInv ==
    probe = "dns_service" =>
        /\ pc \in {"start", "lane", "attempt", "dialing", "reading", "lane_ends", "done"}
        /\ work = [field \in ServiceFields |-> work[field]] /\ work.lane \in Transports
        /\ \A lane \in Transports :
             /\ work[lane] = [outcome |-> work[lane].outcome, asked |-> work[lane].asked,
                              top |-> work[lane].top]
             /\ Ranked(work[lane])
        /\ work.lane = "udp" => work.tcp = NoLane
        /\ pc \in {"start", "lane"} => Lane = NoLane
        /\ pc = "start" => work.lane = "udp"
        /\ pc \in {"attempt", "dialing", "reading"} => InProgress(Lane)

LEMMA RankIsNumber ==
    ASSUME NEW outcome \in {"unknown"} \cup AttemptOutcomes
    PROVE  /\ Rank(outcome) \in 0..5
           /\ Rank(outcome) = 0 => outcome \in {"unknown", "success"}
BY DEF Rank, AttemptOutcomes

\* An attempt that is noted leaves the best outcome with its rank.
LEMMA NotedKeepsBest ==
    ASSUME InProgress(Lane), NEW outcome \in AttemptOutcomes, NEW asked
    PROVE  /\ Ranked(Noted(outcome, asked))
           /\ outcome \notin Valid => InProgress(Noted(outcome, asked))
<1>. DEFINE noted == Noted(outcome, asked)
            old == Lane.outcome
            top == Lane.top
<1>1. old \in {"unknown"} \cup (AttemptOutcomes \ Valid) /\ top = Rank(old)
    BY DEF InProgress
<1>2. /\ top \in 0..5 /\ Rank(outcome) \in 0..5
      /\ old = "unknown" => top = 0
      /\ outcome \notin Valid => Rank(outcome) # 0
    BY <1>1, RankIsNumber DEF Rank, Valid, AttemptOutcomes
<1>3. CASE outcome \in Valid
    <2>1. noted.outcome = outcome /\ noted.top = 6
        BY <1>2, <1>3 DEF Noted
    <2>. QED
        BY <1>3, <2>1 DEF Ranked
<1>4. CASE outcome \notin Valid
    <2>1. /\ noted.outcome = Better(old, outcome)
          /\ noted.top = IF Rank(outcome) > top THEN Rank(outcome) ELSE top
        BY <1>4 DEF Noted
    <2>. HIDE DEF noted, old, top
    <2>2. noted.outcome \in {"unknown"} \cup (AttemptOutcomes \ Valid) /\ noted.top = Rank(noted.outcome)
        <3>1. CASE old = "unknown" \/ Rank(outcome) > Rank(old)
            BY <1>1, <1>2, <1>4, <2>1, <3>1 DEF Better
        <3>2. CASE ~(old = "unknown" \/ Rank(outcome) > Rank(old))
            BY <1>1, <1>2, <1>4, <2>1, <3>2 DEF Better
        <3>. QED
            BY <3>1, <3>2
    <2>3. noted.top \in 0..5
        BY <2>2, RankIsNumber
    <2>4. noted.outcome \notin Valid
        BY <2>2 DEF Valid
    <2>5. Ranked(noted) /\ InProgress(noted)
        BY <2>2, <2>3, <2>4 DEF Ranked, InProgress
    <2>. QED
        BY <2>5 DEF noted
<1>. QED
    BY <1>3, <1>4

LEMMA AttemptStep ==
    ASSUME ServiceInv, probe = "dns_service", pc \in {"attempt", "dialing", "reading"},
           NEW outcome \in AttemptOutcomes, NEW asked, NEW skip, NextAttempt(outcome, asked, skip)
    PROVE  ServiceInv' /\ ~Done'
<1>. DEFINE noted == Noted(outcome, asked)
            other == IF work.lane = "udp" THEN "tcp" ELSE "udp"
<1>1. /\ Ranked(noted) /\ (outcome \notin Valid => InProgress(noted))
      /\ noted = [outcome |-> noted.outcome, asked |-> noted.asked, top |-> noted.top]
    <2>1. InProgress(Lane)
        BY DEF ServiceInv
    <2>. QED
        BY <2>1, NotedKeepsBest DEF Noted
<1>2. /\ work = [field \in ServiceFields |-> work[field]] /\ work.lane \in Transports
      /\ Transports \subseteq ServiceFields
    BY DEF ServiceInv, Transports, ServiceFields
<1>. HIDE DEF noted
<1>3. /\ work' = [field \in ServiceFields |-> work'[field]] /\ work'.lane = work.lane
      /\ work'[work.lane] = noted /\ work'[other] = work[other]
      /\ pc' \in {"lane_ends", "attempt"} /\ (pc' = "attempt" => outcome \notin Valid)
      /\ probe' = probe
    <2>1. CASE outcome \in Valid
        BY <1>2, <2>1 DEF NextAttempt, Continue, noted, ServiceFields, Transports
    <2>2. CASE outcome \notin Valid /\ (skip \/ work.retry = Retries)
        BY <1>2, <2>2 DEF NextAttempt, Continue, noted, ServiceFields, Transports
    <2>3. CASE outcome \notin Valid /\ ~(skip \/ work.retry = Retries)
        BY <1>2, <2>3 DEF NextAttempt, Continue, noted, ServiceFields, Transports
    <2>. QED
        BY <2>1, <2>2, <2>3
<1>. QED
    BY <1>1, <1>2, <1>3 DEF ServiceInv, Transports, Lane, Done

LEMMA ServiceStep == ServiceInv /\ Next => ServiceInv'
<1>. SUFFICES ASSUME ServiceInv, Next, probe = "dns_service"
              PROVE  ServiceInv'
    BY OneProbeRuns DEF ServiceInv
<1>. probe' = probe
    BY OneProbeRuns
<1>1. CASE ContextEnds
    BY <1>1 DEF ContextEnds, ServiceInv, Lane, InProgress
<1>2. CASE ServiceBegins
    BY <1>2 DEF ServiceBegins, ServiceInv, Continue, Return, Lane
<1>3. CASE ServiceLane
    <2>1. Lane = NoLane /\ pc = "lane" /\ work.lane \in Transports
        BY <1>3 DEF ServiceLane, ServiceInv
    <2>2. CASE ServiceOver
        <3>. DEFINE given == [Lane EXCEPT !.outcome = "cancellation"]
        <3>1. work' = [work EXCEPT ![work.lane] = given] /\ pc' = "lane_ends"
            BY <1>3, <2>2 DEF ServiceLane, Continue, Lane
        <3>2. /\ given = [outcome |-> given.outcome, asked |-> given.asked, top |-> given.top]
              /\ Ranked(given)
            BY <2>1 DEF NoLane, Ranked, Rank, Valid
        <3>. HIDE DEF given
        <3>3. /\ work' = [field \in ServiceFields |-> work'[field]] /\ work'.lane = work.lane
              /\ work'[work.lane] = given
              /\ \A lane \in Transports \ {work.lane} : work'[lane] = work[lane]
            BY <2>1, <3>1 DEF ServiceInv, ServiceFields, Transports
        <3>. QED
            BY <2>1, <3>1, <3>2, <3>3 DEF ServiceInv, Transports, Lane
    <2>3. CASE ~ServiceOver
        <3>1. /\ work' = [field \in ServiceFields |-> work'[field]] /\ work'.lane = work.lane
              /\ work'.udp = work.udp /\ work'.tcp = work.tcp /\ pc' = "attempt"
            BY <1>3, <2>3 DEF ServiceLane, Continue, ServiceInv, ServiceFields
        <3>2. InProgress(NoLane)
            BY DEF InProgress, NoLane, Rank
        <3>. QED
            BY <2>1, <3>1, <3>2 DEF ServiceInv, Transports, Lane
    <2>. QED
        BY <2>2, <2>3
<1>4. CASE ServiceAttempt
    <2>1. CASE Continue("lane_ends", work)
        BY <1>4, <2>1 DEF ServiceAttempt, ServiceInv, Continue
    <2>2. CASE Continue("dialing", [work EXCEPT !.left = AttemptBudget])
        <3>1. /\ work' = [field \in ServiceFields |-> work'[field]] /\ work'.lane = work.lane
              /\ work'.udp = work.udp /\ work'.tcp = work.tcp /\ pc' = "dialing"
            BY <2>2 DEF Continue, ServiceInv, ServiceFields
        <3>. QED
            BY <1>4, <3>1 DEF ServiceAttempt, ServiceInv, Transports, Lane
    <2>3. ASSUME NEW outcome \in AttemptOutcomes, NextAttempt(outcome, 0, TRUE)
          PROVE  ServiceInv'
        BY <1>4, <2>3, AttemptStep DEF ServiceAttempt
    <2>. QED
        BY <1>4, <2>1, <2>2, <2>3 DEF ServiceAttempt, AttemptOutcomes
<1>5. CASE ServiceWaits
    <2>1. /\ work' = [field \in ServiceFields |-> work'[field]] /\ work'.lane = work.lane
          /\ work'.udp = work.udp /\ work'.tcp = work.tcp /\ pc' = pc
        BY <1>5 DEF ServiceWaits, Continue, ServiceInv, ServiceFields
    <2>. QED
        BY <1>5, <2>1 DEF ServiceWaits, ServiceInv, Transports, Lane
<1>6. CASE ServiceDials
    <2>1. CASE Continue("reading", work)
        BY <1>6, <2>1 DEF ServiceDials, ServiceInv, Continue, Lane
    <2>2. ASSUME NEW outcome \in AttemptOutcomes, NextAttempt(outcome, 1, FALSE)
          PROVE  ServiceInv'
        BY <1>6, <2>2, AttemptStep DEF ServiceDials
    <2>. QED
        BY <1>6, <2>1, <2>2 DEF ServiceDials, AttemptOutcomes
<1>7. CASE ServiceReads
    <2>1. ASSUME NEW outcome \in AttemptOutcomes, NextAttempt(outcome, 1, FALSE)
          PROVE  ServiceInv'
        BY <1>7, <2>1, AttemptStep DEF ServiceReads
    <2>. QED
        BY <1>7, <2>1 DEF ServiceReads, AttemptOutcomes, Valid, Answered
<1>8. CASE ServiceLaneEnds
    <2>1. CASE Continue("lane", [work EXCEPT !.lane = "tcp"]) /\ work.lane = "udp"
        <3>1. /\ work' = [field \in ServiceFields |-> work'[field]] /\ work'.lane = "tcp"
              /\ work'.udp = work.udp /\ work'.tcp = work.tcp /\ pc' = "lane"
            BY <2>1 DEF Continue, ServiceInv, ServiceFields
        <3>. QED
            BY <2>1, <3>1 DEF ServiceInv, Transports, Lane
    <2>2. CASE UNCHANGED work /\ pc' = "done"
        BY <2>2 DEF ServiceInv
    <2>. QED
        BY <1>8, <2>1, <2>2 DEF ServiceLaneEnds, Return
<1>. QED
    BY <1>1, <1>2, <1>3, <1>4, <1>5, <1>6, <1>7, <1>8, OneProbeRuns DEF ServiceNext

LEMMA ServiceVerdictStep == ServiceInv /\ ServiceIsHonest /\ Next => ServiceIsHonest'
<1>. SUFFICES ASSUME ServiceInv, ServiceIsHonest, Next, probe = "dns_service", Done'
              PROVE  ServiceIsHonest'
    BY OneProbeRuns DEF ServiceIsHonest
<1>. DEFINE Honest(status, udp, tcp) ==
        /\ (udp.top = 6 <=> udp.outcome \in Valid) /\ (tcp.top = 6 <=> tcp.outcome \in Valid)
        /\ udp.top \in 1..5 => Rank(udp.outcome) = udp.top
        /\ tcp.top \in 1..5 => Rank(tcp.outcome) = tcp.top
        /\ status = "passed" <=> 6 \in {udp.top, tcp.top}
<1>1. Ranked(work.udp) /\ Ranked(work.tcp) /\ probe' = probe
    BY OneProbeRuns DEF ServiceInv, Transports
<1>2. ASSUME UNCHANGED work, result'.status = "passed" <=> 6 \in {work.udp.top, work.tcp.top}
      PROVE  ServiceIsHonest'
    <2>1. Honest(result'.status, work.udp, work.tcp)
        BY <1>1, <1>2 DEF Ranked
    <2>. QED
        BY <1>2, <2>1 DEF ServiceIsHonest, Succeeds
<1>3. CASE ContextEnds
    BY <1>3 DEF ContextEnds, Done
<1>4. CASE ServiceBegins
    <2>1. Lane = NoLane /\ work.lane = "udp" /\ work.tcp = NoLane
        BY <1>4 DEF ServiceBegins, ServiceInv
    <2>2. work.udp.top = 0 /\ work.tcp.top = 0
        BY <2>1 DEF Lane, NoLane
    <2>3. UNCHANGED work /\ result'.status = "error"
        BY <1>4 DEF ServiceBegins, Continue, Return, Done, ServiceResult, Result
    <2>. QED
        BY <1>2, <2>2, <2>3
<1>5. CASE ServiceLane
    BY <1>5 DEF ServiceLane, Continue, Done
<1>6. ASSUME pc \in {"attempt", "dialing", "reading"}, NEW outcome \in AttemptOutcomes, NEW asked, NEW skip,
             NextAttempt(outcome, asked, skip)
      PROVE  FALSE
    BY <1>6, AttemptStep
<1>7. CASE ServiceAttempt
    BY <1>6, <1>7 DEF ServiceAttempt, Continue, Done, AttemptOutcomes
<1>8. CASE ServiceWaits
    BY <1>8 DEF ServiceWaits, Continue, Done
<1>9. CASE ServiceDials
    BY <1>6, <1>9 DEF ServiceDials, Continue, Done, AttemptOutcomes
<1>10. CASE ServiceReads
    BY <1>6, <1>10 DEF ServiceReads, AttemptOutcomes, Valid, Answered
<1>11. CASE ServiceLaneEnds
    <2>1. UNCHANGED work /\ (result'.status = "passed" <=> Succeeds("udp") \/ Succeeds("tcp"))
        BY <1>11 DEF ServiceLaneEnds, Continue, Return, Done, ServiceResult, Result
    <2>. QED
        BY <1>1, <1>2, <2>1 DEF Succeeds, Ranked
<1>. QED
    BY <1>3, <1>4, <1>5, <1>7, <1>8, <1>9, <1>10, <1>11, OneProbeRuns DEF ServiceNext

\* A dns_service probe begins with lanes that have met nothing.
LEMMA ServiceStarts == Init => ServiceInv /\ (probe = "dns_service" => ~Done)
<1>. USE DEF Init, EndpointInit, DnsInit, ServiceInit, PathInit, ProxyInit, EnterpriseInit, Begins,
             EndpointNames, ListProbes
<1>. SUFFICES ASSUME Init, probe = "dns_service"
              PROVE  ServiceInv /\ ~Done
    BY DEF ServiceInv
<1>1. Begins("dns_service", ServiceWorlds, ServiceWork)
    OBVIOUS
<1>2. Ranked(NoLane)
    BY DEF Ranked, NoLane, Rank, Valid
<1>3. /\ work.lane = "udp" /\ work.udp = NoLane /\ work.tcp = NoLane
      /\ work = [field \in ServiceFields |-> work[field]] /\ pc = "start"
    BY <1>1 DEF ServiceWork, ServiceFields
<1>4. NoLane = [outcome |-> NoLane.outcome, asked |-> NoLane.asked, top |-> NoLane.top]
    BY DEF NoLane
<1>. QED
    BY <1>2, <1>3, <1>4 DEF ServiceInv, Lane, Transports, Done

\* DnsIsHonest: what dns says of the name is what its lookup answered, and a lane of
\* dns_service reports the most telling of all that it has met.
THEOREM DnsConclusions == Spec => []DnsIsHonest
<1>. DEFINE Inv == DnsInv /\ LookupIsHonest /\ ServiceInv /\ ServiceIsHonest
<1>1. Init => Inv
    <2>. USE DEF Init, EndpointInit, DnsInit, ServiceInit, PathInit, ProxyInit, EnterpriseInit, Begins,
                 EndpointNames, ListProbes
    <2>1. Init /\ probe = "dns" => DnsInv /\ ~Done
        <3>. SUFFICES ASSUME Init, probe = "dns"
                      PROVE  DnsInv /\ ~Done
            OBVIOUS
        <3>1. Begins("dns", DnsWorlds, DnsWork)
            OBVIOUS
        <3>2. DnsWork \in DnsLocals /\ DnsWork.helper = 0 /\ DnsWork.answers = <<>>
              /\ DnsWork.sent = <<>> /\ DnsWork.received = <<>>
            BY DEF DnsWork, DnsLocals
        <3>. QED
            BY <3>1, <3>2 DEF DnsInv, Contexts, Done
    <2>2. Init /\ probe = "dns_service" => ServiceInv /\ ~Done
        BY ServiceStarts
    <2>. QED
        BY <2>1, <2>2 DEF DnsInv, ServiceInv, LookupIsHonest, ServiceIsHonest
<1>2. Inv /\ [Next]_runVars => Inv'
    <2>1. ASSUME Inv, UNCHANGED runVars
          PROVE  Inv'
        BY <2>1 DEF runVars, DnsInv, LookupIsHonest, ServiceInv, ServiceIsHonest, Done, Lane, Succeeds
    <2>. QED
        BY <2>1, DnsStep, LookupStep, ServiceStep, ServiceVerdictStep
<1>3. Inv => DnsIsHonest
    BY DEF DnsIsHonest
<1>. QED
    BY <1>1, <1>2, <1>3, PTL DEF Spec

-----------------------------------------------------------------------------
(* The time of dns_service: every attempt over every transport has its own. *)

\* Less of the same, and all of them are natural numbers.
LEMMA SmallerTimes ==
    ASSUME NEW x \in Nat, NEW r \in Nat, NEW s \in Nat, r <= s
    PROVE  r * x <= s * x /\ s * x \in Nat /\ r * x \in Nat
OBVIOUS

\* How many of the first candidates have an address.
Addressed(n) == Cardinality({i \in 1..n : world.hosts[i] = "address"})

\* The attempts that a lane has still before it, and the time that its lane ends.
AttemptsLeft(at, retry) == (HostCount - at + 1) * Attempts - retry

LaneEnd(lane) == IF lane = "udp" THEN LaneBudget ELSE 2 * LaneBudget

\* A lane has heard a valid response, or has asked all.
AskedAll(lane) == lane.outcome \in Valid \/ lane.asked = Attempts * Addressed(HostCount)

\* What is true of the time of a lane as long as nobody stops the run.
LaneInTime ==
    /\ pc # "start" /\ ~Done => HostCount # 0
    /\ pc = "start" => clock = 0
    /\ pc = "lane" => clock <= LaneEnd(work.lane) - LaneBudget
    /\ pc = "lane_ends" => clock <= LaneEnd(work.lane) /\ AskedAll(Lane)
    /\ pc \in {"attempt", "dialing", "reading"} =>
          /\ work.at \in 1..(HostCount + 1) /\ work.retry \in 0..Retries
          /\ work.at = HostCount + 1 => work.retry = 0
          /\ work.retry # 0 => world.hosts[work.at] = "address"
          /\ work.budget \in Nat /\ clock + work.budget <= LaneEnd(work.lane)
          /\ Lane.asked = Attempts * Addressed(work.at - 1) + work.retry
    /\ pc = "attempt" => AttemptsLeft(work.at, work.retry) * AttemptBudget <= work.budget
    /\ pc \in {"dialing", "reading"} =>
          /\ work.at # HostCount + 1 /\ world.hosts[work.at] = "address" /\ work.left \in Nat
          /\ (AttemptsLeft(work.at, work.retry) - 1) * AttemptBudget + work.left <= work.budget
    /\ work.lane = "tcp" /\ ~(Done /\ HostCount = 0) => AskedAll(work.udp)
    /\ Done => \A lane \in Transports : AskedAll(work[lane])

\* Both lanes run in their halves of the time.
ServiceTimeInv ==
    probe = "dns_service" =>
        /\ world \in ServiceWorlds /\ clock \in Nat /\ clock <= ServiceTimeout
        /\ ctx = "live" => LaneInTime

\* Every attempt of every candidate has at least a tick of its lane.
LEMMA AttemptsHaveTime ==
    ASSUME world \in ServiceWorlds, HostCount # 0
    PROVE  /\ HostCount \in Nat \ {0} /\ Attempts \in Nat \ {0} /\ LaneBudget \in Nat
           /\ 2 * LaneBudget <= ServiceTimeout
           /\ AttemptBudget \in Nat \ {0} /\ (HostCount * Attempts) * AttemptBudget <= LaneBudget
<1>1. HostCount \in Nat \ {0} /\ HostCount <= ServiceHosts
    BY DEF ServiceWorlds, HostCount
<1>2. /\ Attempts \in Nat \ {0} /\ ServiceHosts \in Nat /\ ServiceTimeout \in Nat
      /\ Attempts = Retries + 1
    BY DnsAssumption DEF Attempts
<1>3. PICK all \in Nat : all = ServiceHosts * Attempts
    BY <1>2
<1>4. 2 * all <= ServiceTimeout
    <2>1. 2 * ServiceHosts * (Retries + 1) <= ServiceTimeout
        BY DnsAssumption
    <2>2. 2 * ServiceHosts * Attempts = 2 * (ServiceHosts * Attempts)
        BY <1>2
    <2>. QED
        BY <1>2, <1>3, <2>1, <2>2
<1>5. LaneBudget \in Nat /\ 2 * LaneBudget <= ServiceTimeout /\ all <= LaneBudget
    BY <1>2, <1>3, <1>4 DEF LaneBudget
<1>6. PICK asked \in Nat : asked = HostCount * Attempts
    BY <1>1, <1>2
<1>7. asked # 0 /\ asked <= all
    <2>1. 1 * Attempts <= HostCount * Attempts /\ HostCount * Attempts <= ServiceHosts * Attempts
        BY <1>1, <1>2, SmallerTimes
    <2>2. 1 * Attempts = Attempts
        BY <1>2
    <2>. QED
        BY <1>1, <1>2, <1>3, <1>6, <2>1, <2>2
<1>8. AttemptBudget = LaneBudget \div asked
    BY <1>6 DEF AttemptBudget
<1>9. /\ LaneBudget \div asked \in Nat \ {0}
      /\ asked * (LaneBudget \div asked) <= LaneBudget
    BY <1>3, <1>5, <1>6, <1>7
<1>. QED
    BY <1>1, <1>2, <1>5, <1>6, <1>8, <1>9

\* An attempt that is made, or a candidate that is passed over, leaves fewer.
LEMMA AttemptsDecrease ==
    ASSUME HostCount \in Nat, Attempts \in Nat \ {0}, NEW at \in 1..HostCount, NEW retry \in 0..Retries
    PROVE  /\ AttemptsLeft(at, retry) \in Nat \ {0}
           /\ AttemptsLeft(at + 1, 0) \in Nat
           /\ AttemptsLeft(at + 1, 0) < AttemptsLeft(at, retry)
           /\ retry = Retries => AttemptsLeft(at + 1, 0) = AttemptsLeft(at, retry) - 1
           /\ AttemptsLeft(at, retry + 1) = AttemptsLeft(at, retry) - 1
<1>1. PICK later \in Nat : later = HostCount - at
    OBVIOUS
<1>2. PICK rest \in Nat : rest = later * Attempts
    BY <1>1
<1>3. (later + 1) * Attempts = rest + Attempts
    BY <1>1, <1>2
<1>4. Attempts = Retries + 1 /\ Retries \in Nat
    BY DnsAssumption DEF Attempts
<1>5. HostCount - at + 1 = later + 1 /\ HostCount - (at + 1) + 1 = later
    BY <1>1
<1>6. /\ AttemptsLeft(at, retry) = rest + Attempts - retry
      /\ AttemptsLeft(at, retry + 1) = rest + Attempts - (retry + 1)
      /\ AttemptsLeft(at + 1, 0) = rest - 0
    BY <1>2, <1>3, <1>5 DEF AttemptsLeft
<1>. QED
    BY <1>2, <1>4, <1>6

\* One candidate more is one more that has an address, if it has one.
LEMMA AddressedNext ==
    ASSUME world \in ServiceWorlds, NEW at \in 1..HostCount
    PROVE  /\ Addressed(at - 1) \in Nat
           /\ Addressed(at) = IF world.hosts[at] = "address" THEN Addressed(at - 1) + 1
                              ELSE Addressed(at - 1)
<1>. DEFINE Few == {i \in 1..(at - 1) : world.hosts[i] = "address"}
            Many == {i \in 1..at : world.hosts[i] = "address"}
<1>1. HostCount \in Nat
    BY DEF ServiceWorlds, HostCount
<1>2. IsFiniteSet(Few)
    <2>1. IsFiniteSet(1..(at - 1)) /\ Few \subseteq 1..(at - 1)
        BY <1>1, FS_Interval
    <2>. QED
        BY <2>1, FS_Subset
<1>3. Cardinality(Few) \in Nat
    BY <1>2, FS_CardinalityType
<1>4. CASE world.hosts[at] = "address"
    <2>1. Many = Few \cup {at} /\ at \notin Few
        BY <1>1, <1>4
    <2>2. Cardinality(Few \cup {at}) = Cardinality(Few) + 1
        BY <1>2, <2>1, FS_AddElement
    <2>. QED
        BY <1>3, <1>4, <2>1, <2>2 DEF Addressed
<1>5. CASE world.hosts[at] # "address"
    <2>1. Many = Few
        BY <1>1, <1>5
    <2>. QED
        BY <1>3, <1>5, <2>1 DEF Addressed
<1>. QED
    BY <1>4, <1>5

\* What an attempt that ends does to the locals of the probe.
LEMMA AttemptMoves ==
    ASSUME ServiceInv, probe = "dns_service", pc \in {"attempt", "dialing", "reading"},
           NEW outcome \in AttemptOutcomes, NEW asked, NEW skip \in BOOLEAN,
           NextAttempt(outcome, asked, skip)
    PROVE  /\ UNCHANGED <<probe, world, ctx>>
           /\ work'.lane = work.lane /\ work'.budget = work.budget
           /\ work.lane = "tcp" => work'.udp = work.udp
           /\ Lane'.asked = Lane.asked + asked
           /\ outcome \in Valid => pc' = "lane_ends" /\ Lane'.outcome \in Valid
           /\ outcome \notin Valid =>
                 /\ pc' = "attempt"
                 /\ skip \/ work.retry = Retries => work'.at = work.at + 1 /\ work'.retry = 0
                 /\ ~skip /\ work.retry # Retries =>
                       work'.at = work.at /\ work'.retry = work.retry + 1
<1>1. PICK noted : noted = Noted(outcome, asked)
    OBVIOUS
<1>2. noted.asked = Lane.asked + asked /\ (outcome \in Valid => noted.outcome = outcome)
    BY <1>1 DEF Noted
<1>3. work = [field \in ServiceFields |-> work[field]] /\ work.lane \in Transports
    BY DEF ServiceInv
<1>4. CASE outcome \in Valid
    <2>1. work' = [work EXCEPT ![work.lane] = noted] /\ pc' = "lane_ends" /\ UNCHANGED <<probe, world, ctx>>
        BY <1>1, <1>4 DEF NextAttempt, Continue
    <2>2. /\ work'.lane = work.lane /\ work'.budget = work.budget /\ work'[work.lane] = noted
          /\ work.lane = "tcp" => work'.udp = work.udp
        BY <1>3, <2>1 DEF ServiceFields, Transports
    <2>. QED
        BY <1>2, <1>4, <2>1, <2>2 DEF Lane
<1>5. CASE outcome \notin Valid /\ (skip \/ work.retry = Retries)
    <2>1. /\ work' = [[work EXCEPT ![work.lane] = noted] EXCEPT !.at = @ + 1, !.retry = 0]
          /\ pc' = "attempt" /\ UNCHANGED <<probe, world, ctx>>
        BY <1>1, <1>5 DEF NextAttempt, Continue
    <2>2. /\ work'.lane = work.lane /\ work'.budget = work.budget /\ work'[work.lane] = noted
          /\ work'.at = work.at + 1 /\ work'.retry = 0
          /\ work.lane = "tcp" => work'.udp = work.udp
        BY <1>3, <2>1 DEF ServiceFields, Transports
    <2>. QED
        BY <1>2, <1>5, <2>1, <2>2 DEF Lane
<1>6. CASE outcome \notin Valid /\ ~(skip \/ work.retry = Retries)
    <2>1. /\ work' = [[work EXCEPT ![work.lane] = noted] EXCEPT !.retry = @ + 1]
          /\ pc' = "attempt" /\ UNCHANGED <<probe, world, ctx>>
        BY <1>1, <1>6 DEF NextAttempt, Continue
    <2>2. /\ work'.lane = work.lane /\ work'.budget = work.budget /\ work'[work.lane] = noted
          /\ work'.at = work.at /\ work'.retry = work.retry + 1
          /\ work.lane = "tcp" => work'.udp = work.udp
        BY <1>3, <2>1 DEF ServiceFields, Transports
    <2>. QED
        BY <1>2, <1>6, <2>1, <2>2 DEF Lane
<1>. QED
    BY <1>4, <1>5, <1>6

\* An attempt that was made leaves time for all the others.
LEMMA AttemptKeepsTime ==
    ASSUME ServiceInv, ServiceTimeInv, LaneInTime, probe = "dns_service", ctx = "live",
           pc \in {"dialing", "reading"}, NEW outcome \in AttemptOutcomes,
           NextAttempt(outcome, 1, FALSE), UNCHANGED clock
    PROVE  LaneInTime'
<1>1. /\ work.at \in 1..(HostCount + 1) /\ work.at # HostCount + 1 /\ work.retry \in 0..Retries
      /\ world.hosts[work.at] = "address" /\ work.left \in Nat
      /\ work.budget \in Nat /\ clock + work.budget <= LaneEnd(work.lane)
      /\ Lane.asked = Attempts * Addressed(work.at - 1) + work.retry
      /\ (AttemptsLeft(work.at, work.retry) - 1) * AttemptBudget + work.left <= work.budget
      /\ HostCount # 0 /\ world \in ServiceWorlds /\ clock \in Nat
      /\ work.lane = "tcp" => AskedAll(work.udp)
    BY DEF LaneInTime, ServiceTimeInv, Done
<1>2. /\ HostCount \in Nat \ {0} /\ Attempts \in Nat \ {0} /\ LaneBudget \in Nat
      /\ AttemptBudget \in Nat \ {0} /\ Attempts = Retries + 1 /\ Retries \in Nat
    BY <1>1, AttemptsHaveTime, DnsAssumption DEF Attempts
<1>3. work.at \in 1..HostCount
    BY <1>1, <1>2
<1>4. /\ UNCHANGED <<world, ctx>>
      /\ work'.lane = work.lane /\ work'.budget = work.budget
      /\ work.lane = "tcp" => work'.udp = work.udp
      /\ Lane'.asked = Lane.asked + 1
      /\ outcome \in Valid => pc' = "lane_ends" /\ Lane'.outcome \in Valid
      /\ outcome \notin Valid =>
            /\ pc' = "attempt"
            /\ work.retry = Retries => work'.at = work.at + 1 /\ work'.retry = 0
            /\ work.retry # Retries => work'.at = work.at /\ work'.retry = work.retry + 1
    BY AttemptMoves, FALSE \in BOOLEAN
<1>5. /\ HostCount' = HostCount /\ LaneEnd(work.lane)' = LaneEnd(work.lane)
      /\ AttemptBudget' = AttemptBudget
      /\ \A n : Addressed(n)' = Addressed(n)
      /\ \A at, retry : AttemptsLeft(at, retry)' = AttemptsLeft(at, retry)
      /\ \A lane : AskedAll(lane)' = AskedAll(lane)
    BY <1>4 DEF HostCount, LaneEnd, LaneBudget, AttemptBudget, Addressed, AttemptsLeft, AskedAll
<1>6. CASE outcome \in Valid
    <2>1. pc' = "lane_ends" /\ AskedAll(Lane')
        BY <1>4, <1>6 DEF AskedAll
    <2>2. clock <= LaneEnd(work.lane)
        BY <1>1, <1>2 DEF LaneEnd
    <2>. QED
        BY <1>1, <1>4, <1>5, <2>1, <2>2 DEF LaneInTime, Done
<1>7. CASE outcome \notin Valid
    <2>1. /\ AttemptsLeft(work.at, work.retry) \in Nat \ {0}
          /\ Addressed(work.at - 1) \in Nat /\ Addressed(work.at) = Addressed(work.at - 1) + 1
        BY <1>1, <1>2, <1>3, AttemptsDecrease, AddressedNext
    <2>2. PICK left \in Nat : left = AttemptsLeft(work.at, work.retry) - 1
        BY <2>1
    <2>3. left * AttemptBudget <= work.budget
        <3>1. left * AttemptBudget \in Nat
            BY <1>2, <2>2
        <3>. QED
            BY <1>1, <2>2, <3>1
    <2>4. CASE work.retry = Retries
        <3>1. work'.at = work.at + 1 /\ work'.retry = 0 /\ pc' = "attempt"
            BY <1>4, <1>7, <2>4
        <3>2. AttemptsLeft(work.at + 1, 0) = left
            BY <1>1, <1>2, <1>3, <2>2, <2>4, AttemptsDecrease
        <3>3. Lane.asked + 1 = Attempts * Addressed(work.at) + 0
            <4>1. Attempts * (Addressed(work.at - 1) + 1) = Attempts * Addressed(work.at - 1) + Attempts
                BY <1>2, <2>1
            <4>2. Attempts * Addressed(work.at - 1) \in Nat
                BY <1>2, <2>1
            <4>. QED
                BY <1>1, <1>2, <2>1, <2>4, <4>1, <4>2
        <3>4. work.at + 1 \in 1..(HostCount + 1) /\ 0 \in 0..Retries /\ (work.at + 1) - 1 = work.at
            BY <1>2, <1>3
        <3>. QED
            BY <1>1, <1>4, <1>5, <2>3, <3>1, <3>2, <3>3, <3>4 DEF LaneInTime, Done
    <2>5. CASE work.retry # Retries
        <3>1. work'.at = work.at /\ work'.retry = work.retry + 1 /\ pc' = "attempt"
            BY <1>4, <1>7, <2>5
        <3>2. AttemptsLeft(work.at, work.retry + 1) = left
            BY <1>1, <1>2, <1>3, <2>2, AttemptsDecrease
        <3>3. Lane.asked + 1 = Attempts * Addressed(work.at - 1) + (work.retry + 1)
            <4>1. Attempts * Addressed(work.at - 1) \in Nat
                BY <1>2, <2>1
            <4>. QED
                BY <1>1, <4>1
        <3>4. work.retry + 1 \in 0..Retries
            <4>1. work.retry \in 0..Retries
                BY <1>1
            <4>2. Retries \in Nat
                BY <1>2
            <4>. QED
                BY <2>5, <4>1, <4>2
        <3>. QED
            BY <1>1, <1>4, <1>5, <2>3, <3>1, <3>2, <3>3, <3>4 DEF LaneInTime, Done
    <2>. QED
        BY <2>4, <2>5
<1>. QED
    BY <1>6, <1>7

\* Nor does a candidate without an address take anything.
LEMMA SkipKeepsTime ==
    ASSUME ServiceInv, ServiceTimeInv, LaneInTime, probe = "dns_service", ctx = "live",
           pc = "attempt", work.at <= HostCount, world.hosts[work.at] = "unresolved",
           NextAttempt("transport_failure", 0, TRUE), UNCHANGED clock
    PROVE  LaneInTime'
<1>1. /\ work.at \in 1..(HostCount + 1) /\ work.retry = 0
      /\ work.budget \in Nat /\ clock + work.budget <= LaneEnd(work.lane)
      /\ Lane.asked = Attempts * Addressed(work.at - 1) + 0
      /\ AttemptsLeft(work.at, 0) * AttemptBudget <= work.budget
      /\ HostCount # 0 /\ world \in ServiceWorlds /\ clock \in Nat
      /\ work.lane = "tcp" => AskedAll(work.udp)
    BY DEF LaneInTime, ServiceTimeInv, Done
<1>2. /\ HostCount \in Nat \ {0} /\ Attempts \in Nat \ {0} /\ LaneBudget \in Nat
      /\ AttemptBudget \in Nat \ {0} /\ Retries \in Nat
    BY <1>1, AttemptsHaveTime, DnsAssumption
<1>3. work.at \in 1..HostCount
    BY <1>1, <1>2
<1>4. /\ UNCHANGED <<world, ctx>>
      /\ work'.lane = work.lane /\ work'.budget = work.budget
      /\ work.lane = "tcp" => work'.udp = work.udp
      /\ Lane'.asked = Lane.asked + 0
      /\ pc' = "attempt" /\ work'.at = work.at + 1 /\ work'.retry = 0
    <2>1. "transport_failure" \in AttemptOutcomes /\ "transport_failure" \notin Valid
        BY DEF AttemptOutcomes, Valid
    <2>. QED
        BY <2>1, AttemptMoves, TRUE \in BOOLEAN
<1>5. /\ HostCount' = HostCount /\ LaneEnd(work.lane)' = LaneEnd(work'.lane)
      /\ AttemptBudget' = AttemptBudget
      /\ \A n : Addressed(n)' = Addressed(n)
      /\ \A at, retry : AttemptsLeft(at, retry)' = AttemptsLeft(at, retry)
      /\ \A lane : AskedAll(lane)' = AskedAll(lane)
    BY <1>4 DEF HostCount, LaneEnd, LaneBudget, AttemptBudget, Addressed, AttemptsLeft, AskedAll
<1>6. /\ Addressed(work.at - 1) \in Nat /\ Addressed(work.at) = Addressed(work.at - 1)
    BY <1>1, <1>3, AddressedNext
<1>7. Lane.asked + 0 = Attempts * Addressed(work.at) + 0
    <2>1. Attempts * Addressed(work.at - 1) \in Nat
        BY <1>2, <1>6
    <2>. QED
        BY <1>1, <1>6, <2>1
<1>8. AttemptsLeft(work.at + 1, 0) * AttemptBudget <= work.budget
    <2>1. /\ AttemptsLeft(work.at, 0) \in Nat \ {0} /\ AttemptsLeft(work.at + 1, 0) \in Nat
          /\ AttemptsLeft(work.at + 1, 0) < AttemptsLeft(work.at, 0)
        BY <1>2, <1>3, 0 \in 0..Retries, AttemptsDecrease
    <2>2. PICK fewer \in Nat, more \in Nat :
            fewer = AttemptsLeft(work.at + 1, 0) /\ more = AttemptsLeft(work.at, 0) /\ fewer <= more
        BY <2>1
    <2>3. fewer * AttemptBudget <= more * AttemptBudget /\ more * AttemptBudget \in Nat
          /\ fewer * AttemptBudget \in Nat
        BY <1>2, <2>2, SmallerTimes
    <2>. QED
        BY <1>1, <2>2, <2>3
<1>9. work.at + 1 \in 1..(HostCount + 1) /\ 0 \in 0..Retries /\ (work.at + 1) - 1 = work.at
    BY <1>2, <1>3
<1>. QED
    BY <1>1, <1>4, <1>5, <1>7, <1>8, <1>9 DEF LaneInTime, Done

\* Every step leaves each attempt that is still to come its share of the lane.
LEMMA ServiceTimeStep == ServiceInv /\ ServiceTimeInv /\ Next => ServiceTimeInv'
<1>. SUFFICES ASSUME ServiceInv, ServiceTimeInv, Next, probe = "dns_service"
              PROVE  ServiceTimeInv'
    BY OneProbeRuns DEF ServiceTimeInv
<1>. UNCHANGED <<probe, world>>
    BY OneProbeRuns
<1>1. /\ world \in ServiceWorlds /\ clock \in Nat /\ clock <= ServiceTimeout
      /\ HostCount' = HostCount /\ AttemptBudget' = AttemptBudget
      /\ \A lane : LaneEnd(lane)' = LaneEnd(lane)
      /\ \A n : Addressed(n)' = Addressed(n)
      /\ \A at, retry : AttemptsLeft(at, retry)' = AttemptsLeft(at, retry)
      /\ \A lane : AskedAll(lane)' = AskedAll(lane)
    BY DEF ServiceTimeInv, HostCount, LaneEnd, LaneBudget, AttemptBudget, Addressed, AttemptsLeft, AskedAll
<1>2. ASSUME UNCHANGED clock, ctx = "live" /\ ctx' = ctx => LaneInTime', ctx' = "live" => ctx = "live"
      PROVE  ServiceTimeInv'
    BY <1>1, <1>2 DEF ServiceTimeInv
<1>3. ctx' = "live" => ctx = "live"
    <2>1. CASE ContextEnds
        BY <2>1 DEF ContextEnds
    <2>2. CASE ServiceNext
        BY <2>2 DEF ServiceNext, ServiceBegins, ServiceLane, ServiceAttempt, ServiceWaits,
                    ServiceDials, ServiceReads, ServiceLaneEnds, NextAttempt, Continue, Return
    <2>. QED
        BY <2>1, <2>2, OneProbeRuns
<1>4. CASE ContextEnds
    BY <1>2, <1>3, <1>4 DEF ContextEnds
<1>5. CASE ServiceWaits
    <2>1. /\ pc \in {"dialing", "reading"} /\ pc' = pc /\ ctx' = ctx
          /\ work.left > 0 /\ work.budget > 0 /\ clock < ServiceTimeout /\ clock' = clock + 1
          /\ work' = [[work EXCEPT !.left = @ - 1] EXCEPT !.budget = @ - 1]
        BY <1>5 DEF ServiceWaits, Continue
    <2>2. /\ work'.lane = work.lane /\ work'.udp = work.udp /\ work'.tcp = work.tcp
          /\ work'.at = work.at /\ work'.retry = work.retry
          /\ work'.left = work.left - 1 /\ work'.budget = work.budget - 1
        BY <2>1 DEF ServiceInv, ServiceFields
    <2>3. Lane' = Lane
        BY <2>2 DEF Lane, ServiceInv, Transports
    <2>4. clock + 1 \in Nat /\ clock + 1 <= ServiceTimeout
        BY <1>1, <2>1, DnsAssumption
    <2>5. ASSUME ctx = "live"
          PROVE  LaneInTime'
        <3>1. LaneInTime
            BY <2>5 DEF ServiceTimeInv
        <3>2. /\ work.at \in 1..(HostCount + 1) /\ work.retry \in 0..Retries
              /\ work.at # HostCount + 1 /\ world.hosts[work.at] = "address"
              /\ work.left \in Nat /\ work.budget \in Nat /\ clock + work.budget <= LaneEnd(work.lane)
              /\ Lane.asked = Attempts * Addressed(work.at - 1) + work.retry
              /\ (AttemptsLeft(work.at, work.retry) - 1) * AttemptBudget + work.left <= work.budget
              /\ HostCount # 0 /\ (work.lane = "tcp" => AskedAll(work.udp))
            BY <2>1, <3>1 DEF LaneInTime, Done
        <3>3. /\ work.left - 1 \in Nat /\ work.budget - 1 \in Nat
              /\ (clock + 1) + (work.budget - 1) <= LaneEnd(work.lane)
            BY <1>1, <2>1, <3>2
        <3>4. (AttemptsLeft(work.at, work.retry) - 1) * AttemptBudget + (work.left - 1) <= work.budget - 1
            <4>1. (AttemptsLeft(work.at, work.retry) - 1) * AttemptBudget \in Nat
                <5>1. /\ HostCount \in Nat /\ Attempts \in Nat \ {0} /\ AttemptBudget \in Nat
                    BY <1>1, <3>2, AttemptsHaveTime
                <5>2. work.at \in 1..HostCount
                    BY <3>2, <5>1
                <5>3. PICK left \in Nat : left = AttemptsLeft(work.at, work.retry) - 1
                    BY <3>2, <5>1, <5>2, AttemptsDecrease
                <5>4. left * AttemptBudget \in Nat
                    BY <5>1
                <5>. QED
                    BY <5>3, <5>4
            <4>. QED
                BY <3>2, <4>1
        <3>. QED
            BY <1>1, <2>1, <2>2, <2>3, <3>2, <3>3, <3>4 DEF LaneInTime, Done
    <2>. QED
        BY <1>1, <1>3, <2>1, <2>4, <2>5 DEF ServiceTimeInv
<1>6. SUFFICES ASSUME UNCHANGED clock, ctx = "live", ctx' = ctx, LaneInTime, ServiceNext
               PROVE  LaneInTime'
    <2>1. CASE ServiceNext /\ UNCHANGED clock
        BY <1>2, <1>3, <1>6, <2>1 DEF ServiceTimeInv
    <2>2. ServiceNext /\ ~ServiceWaits => UNCHANGED clock
        BY DEF ServiceNext, ServiceBegins, ServiceLane, ServiceAttempt, ServiceDials, ServiceReads,
               ServiceLaneEnds, Stays
    <2>. QED
        BY <1>4, <1>5, <2>1, <2>2, OneProbeRuns
<1>7. work = [field \in ServiceFields |-> work[field]] /\ work.lane \in Transports
    BY DEF ServiceInv
<1>8. HostCount # 0 =>
         /\ HostCount \in Nat \ {0} /\ Attempts \in Nat \ {0} /\ LaneBudget \in Nat
         /\ 2 * LaneBudget <= ServiceTimeout
         /\ AttemptBudget \in Nat \ {0} /\ (HostCount * Attempts) * AttemptBudget <= LaneBudget
    BY <1>1, AttemptsHaveTime
<1>9. CASE ServiceBegins
    <2>1. pc = "start" /\ UNCHANGED work /\ work.lane = "udp" /\ work.udp = NoLane /\ work.tcp = NoLane
          /\ clock = 0
        BY <1>6, <1>9 DEF ServiceBegins, Continue, Return, ServiceInv, LaneInTime, Lane
    <2>2. CASE HostCount = 0 /\ pc' = "done"
        <3>1. Addressed(0) = 0
            <4>1. {i \in 1..0 : world.hosts[i] = "address"} = {}
                OBVIOUS
            <4>. QED
                BY <4>1, FS_EmptySet DEF Addressed
        <3>2. Attempts * 0 = 0
            BY DnsAssumption DEF Attempts
        <3>3. AskedAll(NoLane)
            BY <2>2, <3>1, <3>2 DEF AskedAll, NoLane
        <3>. QED
            BY <1>1, <1>6, <2>1, <2>2, <3>3 DEF LaneInTime, Done, Transports
    <2>3. CASE HostCount # 0 /\ pc' = "lane"
        BY <1>1, <1>6, <1>8, <2>1, <2>3 DEF LaneInTime, Done, LaneEnd
    <2>. QED
        BY <1>6, <1>9, <2>2, <2>3 DEF ServiceBegins, Continue, Return
<1>10. CASE ServiceLane
    <2>1. pc = "lane" /\ HostCount # 0 /\ clock <= LaneEnd(work.lane) - LaneBudget /\ Lane = NoLane
          /\ (work.lane = "tcp" => AskedAll(work.udp))
        BY <1>6, <1>10 DEF ServiceLane, LaneInTime, Done, ServiceInv
    <2>2. ~ServiceOver
        <3>1. clock < ServiceTimeout
            <4>1. LaneBudget # 0
                <5>1. HostCount * Attempts \in Nat /\ HostCount * Attempts # 0
                    BY <1>8, <2>1
                <5>2. PICK all \in Nat \ {0} : all = HostCount * Attempts
                    BY <5>1
                <5>3. all * AttemptBudget # 0 /\ all * AttemptBudget \in Nat
                    BY <1>8, <2>1
                <5>. QED
                    BY <1>8, <2>1, <5>2, <5>3
            <4>. QED
                BY <1>1, <1>8, <2>1, <4>1, DnsAssumption DEF LaneEnd
        <3>. QED
            BY <1>6, <3>1, DnsAssumption, <1>1 DEF ServiceOver
    <2>3. /\ pc' = "attempt"
          /\ work' = [[[work EXCEPT !.at = 1] EXCEPT !.retry = 0] EXCEPT !.budget = LaneBudget]
        BY <1>10, <2>2 DEF ServiceLane, Continue
    <2>4. /\ work'.lane = work.lane /\ work'.udp = work.udp /\ work'.tcp = work.tcp
          /\ work'.at = 1 /\ work'.retry = 0 /\ work'.budget = LaneBudget
        BY <1>7, <2>3 DEF ServiceFields
    <2>5. Lane'.asked = Attempts * Addressed(1 - 1) + 0
        <3>1. Addressed(1 - 1) = 0
            <4>1. {i \in 1..(1 - 1) : world.hosts[i] = "address"} = {}
                OBVIOUS
            <4>. QED
                BY <4>1, FS_EmptySet DEF Addressed
        <3>2. Attempts * 0 = 0
            BY <1>8, <2>1
        <3>3. Lane'.asked = 0
            BY <1>7, <2>1, <2>4 DEF Lane, NoLane, Transports
        <3>. QED
            BY <3>1, <3>2, <3>3
    <2>6. AttemptsLeft(1, 0) * AttemptBudget <= LaneBudget
        <3>1. AttemptsLeft(1, 0) = HostCount * Attempts
            <4>1. HostCount - 1 + 1 = HostCount /\ HostCount * Attempts \in Nat
                BY <1>8, <2>1
            <4>. QED
                BY <1>8, <2>1, <4>1 DEF AttemptsLeft
        <3>. QED
            BY <1>8, <2>1, <3>1
    <2>7. /\ 1 \in 1..(HostCount + 1) /\ 0 \in 0..Retries /\ LaneBudget \in Nat
          /\ clock + LaneBudget <= LaneEnd(work.lane)
        <3>1. LaneEnd(work.lane) \in Nat
            BY <1>8, <2>1 DEF LaneEnd
        <3>. QED
            BY <1>1, <1>8, <2>1, <3>1, DnsAssumption
    <2>. QED
        BY <1>1, <1>6, <2>1, <2>3, <2>4, <2>5, <2>6, <2>7 DEF LaneInTime, Done
<1>11. CASE ServiceAttempt
    <2>1. /\ pc = "attempt" /\ HostCount # 0
          /\ work.at \in 1..(HostCount + 1) /\ work.retry \in 0..Retries
          /\ work.at = HostCount + 1 => work.retry = 0
          /\ work.budget \in Nat /\ clock + work.budget <= LaneEnd(work.lane)
          /\ Lane.asked = Attempts * Addressed(work.at - 1) + work.retry
          /\ AttemptsLeft(work.at, work.retry) * AttemptBudget <= work.budget
          /\ work.lane = "tcp" => AskedAll(work.udp)
        BY <1>6, <1>11 DEF ServiceAttempt, LaneInTime, Done
    <2>2. CASE work.at = HostCount + 1
        <3>1. work.at > HostCount /\ ~(work.at <= HostCount) /\ (HostCount + 1) - 1 = HostCount
            BY <1>8, <2>1, <2>2
        <3>2. pc' = "lane_ends" /\ UNCHANGED work
            BY <1>11, <3>1 DEF ServiceAttempt, Continue
        <3>3. Lane.asked = Attempts * Addressed(HostCount) + 0
            BY <2>1, <2>2, <3>1
        <3>4. Attempts * Addressed(HostCount) \in Nat
            <4>1. Addressed(HostCount) \in Nat
                <5>1. HostCount \in 1..HostCount
                    BY <1>8, <2>1
                <5>2. Addressed(HostCount - 1) \in Nat
                    BY <1>1, <5>1, AddressedNext
                <5>. QED
                    BY <1>1, <5>1, <5>2, AddressedNext
            <4>. QED
                BY <1>8, <2>1, <4>1
        <3>5. AskedAll(Lane) /\ Lane' = Lane
            BY <3>2, <3>3, <3>4 DEF AskedAll, Lane
        <3>6. clock <= LaneEnd(work.lane)
            BY <1>1, <1>8, <2>1 DEF LaneEnd
        <3>. QED
            BY <1>1, <1>6, <2>1, <3>2, <3>5, <3>6 DEF LaneInTime, Done
    <2>3. CASE work.at <= HostCount /\ world.hosts[work.at] = "unresolved"
        <3>1. ~(work.at > HostCount)
            BY <1>8, <2>1, <2>3
        <3>2. NextAttempt("transport_failure", 0, TRUE)
            BY <1>11, <2>3, <3>1 DEF ServiceAttempt
        <3>. QED
            BY <1>6, <2>1, <2>3, <3>2, SkipKeepsTime
    <2>4. CASE work.at <= HostCount /\ world.hosts[work.at] = "address"
        <3>1. work.at \in 1..HostCount
            BY <1>8, <2>1, <2>4
        <3>2. PICK left \in Nat : left = AttemptsLeft(work.at, work.retry) - 1
            BY <1>8, <2>1, <3>1, AttemptsDecrease
        <3>3. /\ AttemptsLeft(work.at, work.retry) = left + 1
              /\ (left + 1) * AttemptBudget = left * AttemptBudget + AttemptBudget
              /\ left * AttemptBudget \in Nat
            <4>1. AttemptsLeft(work.at, work.retry) \in Nat
                BY <1>8, <2>1, <3>1, AttemptsDecrease
            <4>. QED
                BY <1>8, <2>1, <3>2, <4>1
        <3>4. left * AttemptBudget + AttemptBudget <= work.budget /\ work.budget # 0
            BY <1>8, <2>1, <3>3
        <3>5. ~LaneOver
            <4>1. clock < ServiceTimeout
                <5>1. LaneEnd(work.lane) \in Nat /\ LaneEnd(work.lane) <= ServiceTimeout
                    BY <1>8, <2>1, DnsAssumption DEF LaneEnd
                <5>. QED
                    BY <1>1, <2>1, <3>4, <5>1, DnsAssumption
            <4>. QED
                BY <1>1, <1>6, <3>4, <4>1, DnsAssumption DEF LaneOver, ServiceOver
        <3>11. ~(work.at > HostCount)
            BY <1>8, <2>1, <3>1
        <3>6. pc' = "dialing" /\ work' = [work EXCEPT !.left = AttemptBudget]
            BY <1>11, <2>4, <3>5, <3>11 DEF ServiceAttempt, Continue
        <3>7. /\ work'.lane = work.lane /\ work'.udp = work.udp /\ work'.tcp = work.tcp
              /\ work'.at = work.at /\ work'.retry = work.retry /\ work'.budget = work.budget
              /\ work'.left = AttemptBudget
            BY <1>7, <3>6 DEF ServiceFields
        <3>8. Lane' = Lane
            BY <1>7, <3>7 DEF Lane, Transports
        <3>9. (AttemptsLeft(work.at, work.retry) - 1) * AttemptBudget + AttemptBudget <= work.budget
            BY <3>2, <3>4
        <3>10. work.at # HostCount + 1 /\ AttemptBudget \in Nat
            BY <1>8, <2>1, <3>1
        <3>. QED
            BY <1>1, <1>6, <2>1, <2>4, <3>6, <3>7, <3>8, <3>9, <3>10 DEF LaneInTime, Done
    <2>5. work.at = HostCount + 1 \/ work.at <= HostCount
        BY <1>8, <2>1
    <2>6. work.at <= HostCount => world.hosts[work.at] \in {"unresolved", "address"}
        BY <1>1, <1>8, <2>1 DEF ServiceWorlds, HostCount
    <2>. QED
        BY <2>2, <2>3, <2>4, <2>5, <2>6
<1>12. ASSUME pc \in {"dialing", "reading"}, NEW outcome \in AttemptOutcomes, NextAttempt(outcome, 1, FALSE)
       PROVE  LaneInTime'
    BY <1>6, <1>12, AttemptKeepsTime
<1>13. CASE ServiceDials
    <2>1. CASE Continue("reading", work)
        <3>1. pc = "dialing" /\ pc' = "reading" /\ UNCHANGED work
            BY <1>13, <2>1 DEF ServiceDials, Continue
        <3>2. Lane' = Lane
            BY <3>1 DEF Lane
        <3>. QED
            BY <1>1, <1>6, <3>1, <3>2 DEF LaneInTime, Done
    <2>. QED
        BY <1>12, <1>13, <2>1 DEF ServiceDials, AttemptOutcomes
<1>14. CASE ServiceReads
    BY <1>12, <1>14 DEF ServiceReads, AttemptOutcomes, Valid, Answered
<1>15. CASE ServiceLaneEnds
    <2>1. /\ pc = "lane_ends" /\ HostCount # 0
          /\ clock <= LaneEnd(work.lane) /\ AskedAll(Lane)
          /\ work.lane = "tcp" => AskedAll(work.udp)
        BY <1>6, <1>15 DEF ServiceLaneEnds, LaneInTime, Done
    <2>2. CASE work.lane = "udp"
        <3>1. pc' = "lane" /\ work' = [work EXCEPT !.lane = "tcp"]
            BY <1>15, <2>2 DEF ServiceLaneEnds, Continue
        <3>2. work'.lane = "tcp" /\ work'.udp = work.udp
            BY <1>7, <3>1 DEF ServiceFields
        <3>3. AskedAll(work.udp) /\ clock <= LaneEnd("tcp") - LaneBudget
            BY <1>1, <1>8, <2>1, <2>2 DEF Lane, LaneEnd
        <3>. QED
            BY <1>1, <1>6, <2>1, <3>1, <3>2, <3>3 DEF LaneInTime, Done
    <2>3. CASE work.lane = "tcp"
        <3>1. pc' = "done" /\ UNCHANGED work
            BY <1>15, <2>3 DEF ServiceLaneEnds, Return
        <3>2. \A lane \in Transports : AskedAll(work[lane])
            BY <2>1, <2>3 DEF Lane, Transports
        <3>. QED
            BY <1>1, <1>6, <2>1, <3>1, <3>2 DEF LaneInTime, Done
    <2>. QED
        BY <1>7, <2>2, <2>3 DEF Transports
<1>. QED
    BY <1>5, <1>6, <1>9, <1>10, <1>11, <1>13, <1>14, <1>15 DEF ServiceNext, ServiceTimeInv

\* Before the first attempt, all of the time is left.
LEMMA ServiceTimeStarts == Init => ServiceTimeInv
<1>. SUFFICES ASSUME Init, probe = "dns_service"
              PROVE  ServiceTimeInv
    BY DEF ServiceTimeInv
<1>1. Begins("dns_service", ServiceWorlds, ServiceWork)
    BY DEF Init, EndpointInit, DnsInit, ServiceInit, PathInit, ProxyInit, EnterpriseInit, Begins,
           EndpointNames, ListProbes
<1>2. pc = "start" /\ clock = 0 /\ work.lane = "udp" /\ world \in ServiceWorlds
    BY <1>1 DEF Begins, ServiceWork
<1>3. 0 \in Nat /\ 0 <= ServiceTimeout
    BY DnsAssumption
<1>. QED
    BY <1>2, <1>3 DEF ServiceTimeInv, LaneInTime, Done

\* Both lanes have asked all that they could in their time.
LEMMA LanesAreInTime == ServiceTimeInv => LanesShareTime
BY DEF ServiceTimeInv, LaneInTime, LanesShareTime, AskedAll, Addressed, Succeeds, Transports, Done

-----------------------------------------------------------------------------
(* The path probe: a lane of ttls, each with its attempts, over each protocol.*)

\* The order of the natural numbers, whose sets have a least element.
NatLess == {p \in Nat \X Nat : p[1] < p[2]}

LEMMA FirstPlace ==
    ASSUME NEW S, S \subseteq Nat, S # {}
    PROVE  \E m \in S : \A k \in S : m <= k
<1>1. IsWellFoundedOn(NatLess, Nat)
    BY NatLessThanWellFounded, Zenon DEF NatLess, OpToRel
<1>2. PICK m \in S : \A k \in S : ~(<<k, m>> \in NatLess)
    BY <1>1, WFMin, Zenon
<1>3. \A k \in S : <<k, m>> \in Nat \X Nat /\ <<k, m>>[1] = k /\ <<k, m>>[2] = m
    OBVIOUS
<1>4. \A k \in S : ~(k < m)
    BY <1>2, <1>3, Zenon DEF NatLess
<1>. QED
    BY <1>4

\* Who answers at a hop, the hops of a lane, and a hop at which somebody answered.
Responders == {"router", "destination"}

HopList == Seq([responders : SUBSET Responders, state : {"observed", "unobservable"}])

Seen(hop) == hop.state = "observed" /\ hop.responders # {}

\* Around a ttl at which nobody was seen there is a longest silence.
LEMMA SilenceHasEnds ==
    ASSUME NEW hops \in HopList, NEW t \in 1..Len(hops), ~Seen(hops[t])
    PROVE  \E a \in 1..t, b \in t..Len(hops) :
              /\ \A c \in a..b : ~Seen(hops[c])
              /\ a = 1 \/ Seen(hops[a - 1])
              /\ b = Len(hops) \/ Seen(hops[b + 1])
<1>. DEFINE Starts == {d \in 0..(t - 1) : t - d = 1 \/ Seen(hops[t - d - 1])}
            Stops  == {b \in t..Len(hops) : b = Len(hops) \/ Seen(hops[b + 1])}
<1>1. PICK d \in Starts : \A e \in Starts : d <= e
    <2>1. t - 1 \in Starts /\ Starts \subseteq Nat
        OBVIOUS
    <2>. QED
        BY <2>1, FirstPlace
<1>2. PICK b \in Stops : \A e \in Stops : b <= e
    <2>1. Len(hops) \in Stops /\ Stops \subseteq Nat
        OBVIOUS
    <2>. QED
        BY <2>1, FirstPlace
<1>3. \A c \in (t - d)..b : ~Seen(hops[c])
    <2>. SUFFICES ASSUME NEW c \in (t - d)..b, Seen(hops[c])
                  PROVE  FALSE
        OBVIOUS
    <2>1. CASE c < t
        <3>1. /\ c \in Int /\ d \in 0..(t - 1)
              /\ t - c - 1 \in 0..(t - 1) /\ t - c - 1 < d /\ t - (t - c - 1) - 1 = c
            BY <2>1
        <3>2. t - c - 1 \in Starts
            BY <3>1
        <3>3. d <= t - c - 1
            BY <1>1, <3>2
        <3>. QED
            BY <3>1, <3>3
    <2>2. CASE c > t
        <3>1. /\ c \in Int /\ b \in t..Len(hops)
              /\ c - 1 \in t..Len(hops) /\ c - 1 < b /\ (c - 1) + 1 = c
            BY <2>2
        <3>2. c - 1 \in Stops
            BY <3>1
        <3>3. b <= c - 1
            BY <1>2, <3>2
        <3>. QED
            BY <3>1, <3>3
    <2>. QED
        BY <1>1, <2>1, <2>2
<1>4. t - d \in 1..t
    OBVIOUS
<1>. QED
    BY <1>1, <1>2, <1>3, <1>4

\* buildSegments leaves no ttl out: each lies in a responder or in a whole silence.
LEMMA SegmentsCover ==
    ASSUME NEW hops \in HopList, NEW t \in 1..Len(hops)
    PROVE  \E s \in Segments(hops) : s.kind # "inferred" /\ t \in s.from..s.to
<1>1. DOMAIN hops = 1..Len(hops)
    OBVIOUS
<1>2. CASE Seen(hops[t])
    <2>. DEFINE segment == [kind |-> "observed_responder", from |-> t, to |-> t]
    <2>1. segment \in Segments(hops)
        BY <1>1, <1>2 DEF Segments, Seen
    <2>2. segment.kind # "inferred" /\ t \in segment.from..segment.to
        OBVIOUS
    <2>. QED
        BY <1>1, <2>1, <2>2
<1>3. CASE ~Seen(hops[t])
    <2>1. PICK a \in 1..t, b \in t..Len(hops) :
              /\ \A c \in a..b : ~Seen(hops[c])
              /\ a = 1 \/ Seen(hops[a - 1])
              /\ b = Len(hops) \/ Seen(hops[b + 1])
        BY <1>3, SilenceHasEnds
    <2>. DEFINE segment == [kind |-> "unobservable", from |-> a, to |-> b]
                run == <<a, b>>
    <2>2. run \in (DOMAIN hops) \X (DOMAIN hops) /\ run[1] = a /\ run[2] = b /\ a <= b
        BY <1>1
    <2>3. segment \in Segments(hops)
        <3>. HIDE DEF run
        <3>. QED
            BY <2>1, <2>2 DEF Segments, Seen
    <2>4. segment.kind # "inferred" /\ t \in segment.from..segment.to
        OBVIOUS
    <2>. QED
        BY <2>3, <2>4
<1>. QED
    BY <1>2, <1>3

\* What a lane is, whatever it has met.
PathLanes ==
    [ttl : 1..(MaxTTL + 1), attempt : Nat, at : {"next", "observing", "done"}, until : Nat,
     here : SUBSET Responders, hops : HopList, status : {"observed", "error", "unsupported"},
     reached : BOOLEAN, connected : BOOLEAN, late : BOOLEAN]

\* A lane that still asks has a hop for each earlier ttl, and knows whether the
\* destination has answered at this one.
Asks(lane) ==
    lane.at # "done" =>
        /\ lane.ttl <= MaxTTL /\ lane.attempt < PathAttempts /\ Len(lane.hops) = lane.ttl - 1
        /\ lane.status = "observed" /\ ~lane.late
        /\ lane.reached <=> "destination" \in lane.here

\* A lane that was observed to its end has hops up to the destination or the last ttl.
Ended(lane) ==
    lane.at = "done" /\ lane.status = "observed" =>
        /\ Len(lane.hops) \in 1..MaxTTL
        /\ Len(lane.hops) = MaxTTL \/ lane.reached
        /\ lane.reached <=> "destination" \in lane.hops[Len(lane.hops)].responders

\* There is time for the next attempt, and only the last attempt of all has all of it.
InTime(lane, now) ==
    /\ lane.at = "next" => now < PathTimeout
    /\ lane.at = "observing" => /\ now <= lane.until /\ lane.until <= PathTimeout
                                /\ lane.until = PathTimeout => Remaining(lane) = 1

\* Time runs out for a lane only at its last ttl, unless its caller gave up.
LateAtLast(lane, context) == lane.late /\ context = "live" => Len(lane.hops) = MaxTTL

LaneInv(lane, now, context) ==
    lane \in PathLanes /\ Asks(lane) /\ Ended(lane) /\ InTime(lane, now) /\ LateAtLast(lane, context)

\* Both lanes, and both have ended when the probe has joined them.
PathInv ==
    probe = "path" =>
        /\ ctx \in Contexts /\ pc \in {"start", "observing", "done"}
        /\ clock \in Nat /\ clock <= PathTimeout
        /\ work \in [Protocols -> PathLanes]
        /\ \A p \in Protocols : LaneInv(work[p], clock, ctx)
        /\ pc = "start" => \A p \in Protocols : work[p].at = "next"
        /\ pc = "done" => (\A p \in Protocols : work[p].at = "done")
                          \/ (\A p \in Protocols : work[p].at = "next")

\* How many attempts remain: one only at the last of all.
LEMMA RemainingAttempts ==
    ASSUME NEW lane \in PathLanes, Asks(lane), lane.at # "done"
    PROVE  /\ Remaining(lane) \in Nat \ {0}
           /\ Remaining(lane) = 1 <=> lane.ttl = MaxTTL /\ lane.attempt + 1 = PathAttempts
<1>1. /\ lane.ttl \in 1..MaxTTL /\ lane.attempt \in 0..(PathAttempts - 1)
      /\ MaxTTL \in Nat \ {0} /\ PathAttempts \in Nat \ {0}
    BY PathAssumption DEF PathLanes, Asks
<1>2. PICK later \in Nat : later = MaxTTL - lane.ttl
    BY <1>1
<1>3. /\ Remaining(lane) = later * PathAttempts + PathAttempts - lane.attempt
      /\ later * PathAttempts \in Nat
    <2>1. /\ (later + 1) * PathAttempts = later * PathAttempts + PathAttempts
          /\ later * PathAttempts \in Nat
        BY <1>1
    <2>2. Remaining(lane) = (later + 1) * PathAttempts - lane.attempt
        BY <1>2 DEF Remaining
    <2>. QED
        BY <1>1, <2>1, <2>2
<1>4. CASE lane.ttl = MaxTTL
    <2>1. later = 0
        BY <1>1, <1>2, <1>4
    <2>2. later * PathAttempts = 0
        BY <1>1, <2>1
    <2>. QED
        BY <1>1, <1>3, <1>4, <2>2
<1>5. CASE lane.ttl # MaxTTL
    <2>1. later * PathAttempts >= PathAttempts /\ later * PathAttempts \in Nat
        <3>1. 1 \in Nat /\ 1 <= later /\ PathAttempts \in Nat
            BY <1>1, <1>2, <1>5
        <3>2. 1 * PathAttempts <= later * PathAttempts /\ later * PathAttempts \in Nat
            BY <1>2, <3>1, SmallerTimes
        <3>. QED
            BY <3>1, <3>2
    <2>2. Remaining(lane) \in Nat /\ Remaining(lane) > 1
        BY <1>1, <1>2, <1>3, <2>1
    <2>3. lane.ttl # MaxTTL
        BY <1>1, <1>2, <1>5
    <2>. QED
        BY <2>2, <2>3
<1>. QED
    BY <1>4, <1>5

\* attemptContext: the share of an attempt ends with the lane only if it is the last.
LEMMA ShareOfAttempt ==
    ASSUME clock \in Nat, clock < PathTimeout, NEW lane \in PathLanes, Asks(lane), lane.at # "done"
    PROVE  /\ AttemptUntil(lane) \in Nat /\ clock <= AttemptUntil(lane)
           /\ AttemptUntil(lane) <= PathTimeout
           /\ AttemptUntil(lane) = PathTimeout => Remaining(lane) = 1
<1>. DEFINE left == PathTimeout - clock
            share == left \div Remaining(lane)
<1>1. left \in Nat \ {0} /\ Remaining(lane) \in Nat \ {0} /\ PathTimeout \in Nat
    BY PathAssumption, RemainingAttempts
<1>. HIDE DEF left
<1>2. share \in Nat /\ share <= left /\ (Remaining(lane) # 1 => share < left)
    BY <1>1
<1>. HIDE DEF share
<1>3. AttemptUntil(lane) = clock + share
    BY DEF AttemptUntil, share, left
<1>. QED
    BY <1>1, <1>2, <1>3 DEF left

\* An attempt that has ended leaves the lane in order, whoever answered it.
LEMMA NextStepKeeps ==
    ASSUME clock \in Nat, NEW lane \in PathLanes, LaneInv(lane, clock, ctx), lane.at = "observing",
           NEW known \in BOOLEAN, NEW connected \in BOOLEAN,
           NEW here \in SUBSET Responders, known <=> "destination" \in here
    PROVE  LaneInv(NextStep([lane EXCEPT !.reached = known, !.connected = connected], here), clock, ctx)
<1>1. PICK seen : seen = [lane EXCEPT !.reached = known, !.connected = connected]
    OBVIOUS
<1>2. PICK after : after = NextStep(seen, here)
    OBVIOUS
<1>3. /\ lane.ttl \in 1..MaxTTL /\ lane.attempt \in 0..(PathAttempts - 1)
      /\ Len(lane.hops) = lane.ttl - 1 /\ lane.status = "observed" /\ lane.late = FALSE
      /\ lane.here \in SUBSET Responders /\ lane.hops \in HopList
      /\ lane.until \in Nat
    BY PathAssumption DEF LaneInv, Asks, PathLanes
<1>4. seen = [ttl |-> lane.ttl, attempt |-> lane.attempt, at |-> lane.at, until |-> lane.until,
              here |-> lane.here, hops |-> lane.hops, status |-> lane.status,
              reached |-> known, connected |-> connected, late |-> FALSE]
    BY <1>1, <1>3 DEF PathLanes
<1>5. ASSUME lane.attempt + 1 < PathAttempts
      PROVE  LaneInv(after, clock, ctx)
    <2>1. after = [seen EXCEPT !.attempt = lane.attempt + 1, !.here = here, !.at = "next"]
        BY <1>1, <1>2, <1>4, <1>5 DEF NextStep
    <2>2. after = [ttl |-> lane.ttl, attempt |-> lane.attempt + 1, at |-> "next", until |-> lane.until,
                   here |-> here, hops |-> lane.hops, status |-> lane.status,
                   reached |-> known, connected |-> connected, late |-> FALSE]
        BY <1>4, <2>1
    <2>3. after \in PathLanes
        <3>1. /\ lane.ttl \in 1..(MaxTTL + 1) /\ lane.attempt + 1 \in Nat
              /\ lane.status \in {"observed", "error", "unsupported"}
              /\ lane.until \in Nat /\ lane.hops \in HopList
            BY <1>3, PathAssumption
        <3>. QED
            BY <2>2, <3>1 DEF PathLanes
    <2>4. clock < PathTimeout
        <3>1. Remaining(lane) # 1
            BY <1>3, <1>5, RemainingAttempts DEF LaneInv
        <3>. QED
            BY <1>3, <3>1, PathAssumption DEF LaneInv, InTime
    <2>5. Asks(after)
        BY <1>3, <1>5, <2>2 DEF Asks
    <2>6. Ended(after) /\ InTime(after, clock) /\ LateAtLast(after, ctx)
        BY <2>2, <2>4 DEF Ended, InTime, LateAtLast
    <2>. QED
        BY <2>3, <2>5, <2>6 DEF LaneInv
<1>6. ASSUME ~(lane.attempt + 1 < PathAttempts)
      PROVE  LaneInv(after, clock, ctx)
    <2>. DEFINE hops == Append(lane.hops, Hop(here))
                at == IF known \/ lane.ttl = MaxTTL THEN "done" ELSE "next"
    <2>1. after = [seen EXCEPT !.attempt = 0, !.here = {}, !.hops = hops, !.ttl = lane.ttl + 1, !.at = at]
        BY <1>1, <1>2, <1>4, <1>6 DEF NextStep, Hops
    <2>2. Hop(here) \in [responders : SUBSET Responders, state : {"observed", "unobservable"}]
          /\ Hop(here).responders = here
        BY DEF Hop
    <2>3. hops \in HopList /\ Len(hops) = lane.ttl /\ hops[lane.ttl] = Hop(here)
        BY <1>3, <2>2, AppendProperties DEF HopList
    <2>. HIDE DEF hops, at
    <2>4. at \in {"next", "done"} /\ lane.ttl + 1 \in 1..(MaxTTL + 1)
        BY <1>3, PathAssumption DEF at
    <2>5. after = [ttl |-> lane.ttl + 1, attempt |-> 0, at |-> at, until |-> lane.until,
                   here |-> {}, hops |-> hops, status |-> lane.status,
                   reached |-> known, connected |-> connected, late |-> FALSE]
        BY <1>4, <2>1
    <2>6. after \in PathLanes
        <3>1. /\ lane.status \in {"observed", "error", "unsupported"}
              /\ at \in {"next", "observing", "done"} /\ lane.ttl + 1 \in 1..(MaxTTL + 1)
              /\ lane.until \in Nat /\ hops \in HopList
            BY <1>3, <2>3, <2>4
        <3>. QED
            BY <2>5, <3>1 DEF PathLanes
    <2>7. CASE at = "next"
        <3>1. ~known /\ lane.ttl # MaxTTL
            BY <2>7 DEF at
        <3>2. clock < PathTimeout
            <4>1. Remaining(lane) # 1
                BY <1>3, <3>1, RemainingAttempts DEF LaneInv
            <4>. QED
                BY <1>3, <4>1, PathAssumption DEF LaneInv, InTime
        <3>. QED
            BY <1>3, <2>3, <2>5, <2>6, <2>7, <3>1, <3>2, PathAssumption
            DEF LaneInv, Asks, Ended, InTime, LateAtLast
    <2>8. CASE at = "done"
        <3>1. known \/ lane.ttl = MaxTTL
            BY <2>8 DEF at
        <3>2. Asks(after) /\ InTime(after, clock) /\ LateAtLast(after, ctx)
            BY <2>5, <2>8 DEF Asks, InTime, LateAtLast
        <3>3. Ended(after)
            BY <1>3, <2>2, <2>3, <2>5, <3>1 DEF Ended
        <3>. QED
            BY <2>6, <3>2, <3>3 DEF LaneInv
    <2>. QED
        BY <2>4, <2>7, <2>8
<1>7. LaneInv(after, clock, ctx)
    BY <1>5, <1>6
<1>. QED
    BY <1>1, <1>2, <1>7

\* An attempt that was observed leaves its lane in order, whoever has answered.
LEMMA AfterAttemptKeeps ==
    ASSUME clock \in Nat, NEW lane \in PathLanes, LaneInv(lane, clock, ctx), lane.at = "observing",
           NEW observation
    PROVE  LaneInv(AfterAttempt(lane, observation), clock, ctx)
<1>. DEFINE reached == observation \in {"reached", "refused"}
            who == CASE observation = "router" -> {"router"}
                     [] reached -> {"destination"}
                     [] OTHER -> {}
<1>1. PICK known \in BOOLEAN, connected \in BOOLEAN :
        /\ known = (lane.reached \/ reached)
        /\ connected = (lane.connected \/ observation = "reached")
    OBVIOUS
<1>2. PICK here : here = lane.here \cup who
    OBVIOUS
<1>3. here \in SUBSET Responders /\ (known <=> "destination" \in here)
    <2>1. lane.here \in SUBSET Responders /\ (lane.reached <=> "destination" \in lane.here)
        BY DEF LaneInv, Asks, PathLanes
    <2>2. who = IF observation = "router" THEN {"router"}
                ELSE IF reached THEN {"destination"} ELSE {}
        OBVIOUS
    <2>. HIDE DEF who
    <2>. QED
        BY <1>1, <1>2, <2>1, <2>2 DEF Responders
<1>4. AfterAttempt(lane, observation)
        = NextStep([lane EXCEPT !.reached = known, !.connected = connected], here)
    BY <1>1, <1>2 DEF AfterAttempt
<1>. QED
    BY <1>3, <1>4, NextStepKeeps

\* A lane that breaks off over its time while the caller waits was at the last ttl.
LEMMA BreaksKeeps ==
    ASSUME clock \in Nat, clock <= PathTimeout, NEW lane \in PathLanes, LaneInv(lane, clock, ctx),
           lane.at # "done"
    PROVE  LaneInv(Breaks(lane), clock, ctx)
<1>1. PICK late \in BOOLEAN : late = PathOver
    BY DEF PathOver
<1>2. PICK broken : broken = Breaks(lane)
    OBVIOUS
<1>3. PICK hops : hops = Append(lane.hops, [responders |-> lane.here, state |-> "unobservable"])
    OBVIOUS
<1>4. /\ lane.ttl \in 1..(MaxTTL + 1) /\ lane.attempt \in Nat /\ lane.until \in Nat
      /\ lane.here \in SUBSET Responders /\ lane.hops \in HopList
      /\ lane.reached \in BOOLEAN /\ lane.connected \in BOOLEAN /\ Len(lane.hops) = lane.ttl - 1
    BY DEF LaneInv, Asks, PathLanes
<1>5. broken = [ttl |-> lane.ttl, attempt |-> lane.attempt, at |-> "done", until |-> lane.until,
                here |-> lane.here, hops |-> hops, status |-> "error",
                reached |-> lane.reached, connected |-> lane.connected, late |-> late]
    BY <1>1, <1>2, <1>3 DEF Breaks, PathLanes
<1>6. hops \in HopList /\ Len(hops) = lane.ttl
    <2>1. [responders |-> lane.here, state |-> "unobservable"]
             \in [responders : SUBSET Responders, state : {"observed", "unobservable"}]
        BY <1>4
    <2>. QED
        BY <1>3, <1>4, <2>1, AppendProperties DEF HopList
<1>7. broken \in PathLanes
    BY <1>4, <1>5, <1>6 DEF PathLanes
<1>8. ASSUME late, ctx = "live"
      PROVE  lane.ttl = MaxTTL
    <2>1. clock >= PathTimeout
        BY <1>1, <1>8 DEF PathOver
    <2>2. lane.at = "observing" /\ lane.until = PathTimeout
        BY <1>4, <2>1, PathAssumption DEF LaneInv, InTime, PathLanes
    <2>. QED
        BY <2>2, RemainingAttempts DEF LaneInv, InTime
<1>9. Asks(broken) /\ Ended(broken) /\ InTime(broken, clock) /\ LateAtLast(broken, ctx)
    BY <1>5, <1>6, <1>8 DEF Asks, Ended, InTime, LateAtLast
<1>. QED
    BY <1>2, <1>7, <1>9 DEF LaneInv

\* A step of one lane leaves the other as it is.
LEMMA OnLaneKeeps ==
    ASSUME PathInv, probe = "path", pc = "observing", NEW p \in Protocols, NEW lane,
           OnLane(p, lane), LaneInv(lane, clock, ctx), probe' = probe
    PROVE  PathInv'
<1>1. /\ work' = [work EXCEPT ![p] = lane] /\ pc' = "observing" /\ UNCHANGED <<clock, ctx>>
    BY DEF OnLane, Continue
<1>2. work \in [Protocols -> PathLanes] /\ lane \in PathLanes
    BY DEF PathInv, LaneInv
<1>3. /\ work' \in [Protocols -> PathLanes] /\ work'[p] = lane
      /\ \A q \in Protocols \ {p} : work'[q] = work[q]
    BY <1>1, <1>2
<1>4. \A q \in Protocols : LaneInv(work'[q], clock', ctx')
    BY <1>1, <1>3 DEF PathInv
<1>. QED
    BY <1>1, <1>3, <1>4 DEF PathInv

\* Every step of a path probe keeps both of its lanes in order and in time.
LEMMA PathStep == PathInv /\ Next => PathInv'
<1>. SUFFICES ASSUME PathInv, Next, probe = "path"
              PROVE  PathInv'
    BY OneProbeRuns DEF PathInv
<1>. probe' = probe
    BY OneProbeRuns
<1>1. /\ ctx \in Contexts /\ clock \in Nat /\ clock <= PathTimeout
      /\ work \in [Protocols -> PathLanes]
      /\ \A p \in Protocols : LaneInv(work[p], clock, ctx)
    BY DEF PathInv
<1>2. CASE ContextEnds
    <2>1. ctx' \in {"cancelled", "deadline"} /\ UNCHANGED <<pc, clock, work>>
        BY <1>2 DEF ContextEnds
    <2>2. \A p \in Protocols : LaneInv(work'[p], clock', ctx')
        BY <1>1, <2>1 DEF LaneInv, LateAtLast
    <2>. QED
        BY <2>1, <2>2 DEF PathInv, Contexts
<1>3. CASE PathBegins
    <2>1. pc = "start" /\ UNCHANGED <<clock, ctx, work>> /\ pc' \in {"observing", "done"}
        BY <1>3 DEF PathBegins, Continue, Return
    <2>2. \A p \in Protocols : LaneInv(work'[p], clock', ctx')
        BY <1>1, <2>1
    <2>. QED
        BY <1>1, <2>1, <2>2 DEF PathInv
<1>4. CASE PathWaits
    <2>1. /\ pc = "observing" /\ pc' = pc /\ clock' = clock + 1 /\ UNCHANGED <<ctx, work>>
          /\ \A p \in Protocols : work[p].at # "done" => work[p].at = "observing" /\ clock < work[p].until
        BY <1>4 DEF PathWaits, Continue
    <2>2. PICK p \in Protocols : work[p].at # "done"
        BY <1>4 DEF PathWaits
    <2>3. clock + 1 <= PathTimeout
        <3>1. clock < work[p].until /\ work[p].until <= PathTimeout /\ work[p].until \in Nat
            BY <1>1, <2>1, <2>2 DEF LaneInv, InTime, PathLanes
        <3>. QED
            BY <1>1, <3>1, PathAssumption
    <2>4. ASSUME NEW q \in Protocols
          PROVE  LaneInv(work[q], clock + 1, ctx)
        <3>1. LaneInv(work[q], clock, ctx) /\ work[q] \in PathLanes
            BY <1>1
        <3>2. InTime(work[q], clock + 1)
            <4>1. CASE work[q].at = "done"
                BY <4>1 DEF InTime
            <4>2. CASE work[q].at # "done"
                <5>1. work[q].at = "observing" /\ clock < work[q].until /\ work[q].until \in Nat
                    BY <2>1, <3>1, <4>2 DEF PathLanes
                <5>2. clock + 1 <= work[q].until
                    BY <1>1, <5>1
                <5>. QED
                    BY <3>1, <5>1, <5>2 DEF LaneInv, InTime
            <4>. QED
                BY <4>1, <4>2
        <3>. QED
            BY <3>1, <3>2 DEF LaneInv
    <2>5. \A q \in Protocols : LaneInv(work'[q], clock', ctx')
        BY <2>1, <2>4
    <2>. QED
        BY <1>1, <2>1, <2>3, <2>5 DEF PathInv
<1>5. CASE PathJoins
    <2>1. pc' = "done" /\ UNCHANGED <<clock, ctx, work>> /\ \A p \in Protocols : work[p].at = "done"
        BY <1>5 DEF PathJoins, Return
    <2>2. \A p \in Protocols : LaneInv(work'[p], clock', ctx')
        BY <1>1, <2>1
    <2>. QED
        BY <1>1, <2>1, <2>2 DEF PathInv
<1>6. ASSUME NEW p \in Protocols, PathAttempt(p)
      PROVE  PathInv'
    <2>. DEFINE lane == work[p]
    <2>1. pc = "observing" /\ lane.at = "next" /\ lane \in PathLanes /\ LaneInv(lane, clock, ctx)
        BY <1>1, <1>6 DEF PathAttempt
    <2>2. CASE PathOver
        <3>1. OnLane(p, Breaks(lane))
            BY <1>6, <2>2 DEF PathAttempt
        <3>2. LaneInv(Breaks(lane), clock, ctx)
            BY <1>1, <2>1, BreaksKeeps
        <3>. QED
            BY <2>1, <3>1, <3>2, OnLaneKeeps
    <2>3. CASE ~PathOver
        <3>1. PICK begun : begun = [lane EXCEPT !.at = "observing", !.until = AttemptUntil(lane)]
            OBVIOUS
        <3>2. OnLane(p, begun)
            BY <1>6, <2>3, <3>1 DEF PathAttempt
        <3>3. /\ AttemptUntil(lane) \in Nat /\ clock <= AttemptUntil(lane)
              /\ AttemptUntil(lane) <= PathTimeout
              /\ AttemptUntil(lane) = PathTimeout => Remaining(lane) = 1
            <4>1. clock < PathTimeout /\ Asks(lane) /\ lane.at # "done"
                BY <2>1 DEF LaneInv, InTime
            <4>. QED
                BY <1>1, <2>1, <4>1, ShareOfAttempt
        <3>4. /\ begun \in PathLanes /\ begun.at = "observing" /\ begun.until = AttemptUntil(lane)
              /\ begun.ttl = lane.ttl /\ begun.attempt = lane.attempt /\ begun.hops = lane.hops
              /\ begun.here = lane.here /\ begun.status = lane.status /\ begun.late = lane.late
              /\ begun.reached = lane.reached
            BY <2>1, <3>1, <3>3 DEF PathLanes
        <3>5. LaneInv(begun, clock, ctx)
            BY <2>1, <3>3, <3>4 DEF LaneInv, Asks, Ended, InTime, LateAtLast, Remaining
        <3>. QED
            BY <2>1, <3>2, <3>5, OnLaneKeeps
    <2>. QED
        BY <2>2, <2>3
<1>7. ASSUME NEW p \in Protocols, PathObserves(p)
      PROVE  PathInv'
    <2>. DEFINE lane == work[p]
    <2>1. pc = "observing" /\ lane.at = "observing" /\ lane \in PathLanes /\ LaneInv(lane, clock, ctx)
        BY <1>1, <1>7 DEF PathObserves
    <2>2. ASSUME NEW observation, OnLane(p, AfterAttempt(lane, observation))
          PROVE  PathInv'
        BY <1>1, <2>1, <2>2, AfterAttemptKeeps, OnLaneKeeps
    <2>3. CASE OnLane(p, Breaks(lane))
        BY <1>1, <2>1, <2>3, BreaksKeeps, OnLaneKeeps
    <2>4. CASE OnLane(p, [lane EXCEPT !.status = "unsupported", !.at = "done"])
        <3>1. PICK given : given = [lane EXCEPT !.status = "unsupported", !.at = "done"]
            OBVIOUS
        <3>2. /\ given \in PathLanes /\ given.at = "done" /\ given.status = "unsupported"
              /\ given.late = lane.late
            BY <2>1, <3>1 DEF PathLanes
        <3>3. LaneInv(given, clock, ctx)
            BY <2>1, <3>2 DEF LaneInv, Asks, Ended, InTime, LateAtLast
        <3>. QED
            BY <2>1, <2>4, <3>1, <3>3, OnLaneKeeps
    <2>. QED
        <3>1. ASSUME NEW observation,
                     OnLane(p, CASE observation = "error"       -> Breaks(lane)
                                 [] observation = "unsupported" -> [lane EXCEPT !.status = "unsupported", !.at = "done"]
                                 [] OTHER -> AfterAttempt(lane, observation))
              PROVE  PathInv'
            <4>1. CASE observation = "error"
                BY <2>3, <3>1, <4>1
            <4>2. CASE observation = "unsupported"
                BY <2>4, <3>1, <4>2
            <4>3. CASE observation # "error" /\ observation # "unsupported"
                BY <2>2, <3>1, <4>3
            <4>. QED
                BY <4>1, <4>2, <4>3
        <3>. QED
            BY <1>7, <2>2, <2>3, <3>1 DEF PathObserves
<1>. QED
    BY <1>2, <1>3, <1>4, <1>5, <1>6, <1>7, OneProbeRuns DEF PathNext

\* What the probe makes of both lanes when it has joined them.
LEMMA PathVerdictStep == PathInv /\ PathIsKept /\ Next => PathIsKept'
<1>. SUFFICES ASSUME PathInv, PathIsKept, Next, PathRan'
              PROVE  PathIsKept'
    BY DEF PathIsKept
<1>. probe' = probe /\ probe = "path" /\ Done'
    BY OneProbeRuns DEF PathRan
<1>1. /\ work \in [Protocols -> PathLanes]
      /\ \A p \in Protocols : LaneInv(work[p], clock, ctx)
    BY DEF PathInv
<1>2. CASE ContextEnds
    BY <1>2 DEF ContextEnds, Done
<1>3. CASE PathBegins
    <2>1. pc = "start" /\ work' = work
        BY <1>3 DEF PathBegins, Continue, Return
    <2>2. work["icmp"].at = "next"
        BY <2>1 DEF PathInv, Protocols
    <2>. QED
        BY <2>1, <2>2 DEF PathRan
<1>4. CASE PathWaits
    BY <1>4 DEF PathWaits, Continue, Done
<1>5. CASE PathJoins
    <2>1. /\ \A p \in Protocols : work[p].at = "done"
          /\ result' = PathVerdict /\ work' = work
        BY <1>5 DEF PathJoins, Return
    <2>2. ASSUME NEW p \in Protocols, Observed(p)
          PROVE  /\ Len(work[p].hops) = MaxTTL \/ work[p].reached
                 /\ work[p].reached <=> "destination" \in work[p].hops[Len(work[p].hops)].responders
                 /\ \A t \in DOMAIN work[p].hops :
                      \E s \in Segments(work[p].hops) : s.kind # "inferred" /\ t \in s.from..s.to
        <3>1. work[p].hops \in HopList /\ Ended(work[p])
            BY <1>1 DEF LaneInv, PathLanes
        <3>2. DOMAIN work[p].hops = 1..Len(work[p].hops)
            BY <3>1 DEF HopList
        <3>3. \A t \in DOMAIN work[p].hops :
                 \E s \in Segments(work[p].hops) : s.kind # "inferred" /\ t \in s.from..s.to
            BY <3>1, <3>2, SegmentsCover
        <3>. QED
            BY <2>1, <2>2, <3>1, <3>3 DEF Ended, Observed
    <2>3. /\ (\E p \in Protocols : Observed(p)) <=> PathVerdict.status = "passed"
          /\ PathVerdict.layer = "tcp" => work["tcp"].connected /\ Observed("tcp")
        <3>1. PathLayer = "tcp" => Observed("tcp") /\ work["tcp"].connected
            BY DEF PathLayer
        <3>2. CASE \E p \in Protocols : Observed(p)
            <4>1. PathVerdict = PathResult("passed", "none", PathLayer)
                BY <3>2 DEF PathVerdict, Observed, Protocols
            <4>. QED
                BY <3>1, <3>2, <4>1 DEF PathResult, Result
        <3>3. CASE ~(\E p \in Protocols : Observed(p))
            <4>1. \/ PathVerdict = PathResult("error", "unsupported", PathLayer)
                  \/ \E reason : PathVerdict = PathResult("error", reason, "network")
                BY <3>3 DEF PathVerdict
            <4>. QED
                BY <3>1, <3>3, <4>1 DEF PathResult, Result
        <3>. QED
            BY <3>2, <3>3
    <2>. QED
        <3>1. \A p \in Protocols : Observed(p)' = Observed(p)
            BY <2>1 DEF Observed
        <3>. QED
            BY <2>1, <2>2, <2>3, <3>1 DEF PathIsKept, Protocols
<1>6. ASSUME NEW p \in Protocols, PathAttempt(p) \/ PathObserves(p)
      PROVE  FALSE
    BY <1>6 DEF PathAttempt, PathObserves, OnLane, Continue, Done
<1>. QED
    BY <1>2, <1>3, <1>4, <1>5, <1>6, OneProbeRuns DEF PathNext

\* So they are when it begins, with nothing reported yet.
LEMMA PathStarts == Init => PathInv /\ PathIsKept
<1>. SUFFICES ASSUME Init, probe = "path"
              PROVE  PathInv /\ PathIsKept
    BY DEF PathInv, PathIsKept, PathRan
<1>1. Begins("path", [valid : BOOLEAN], [icmp |-> ProtocolLane, tcp |-> ProtocolLane])
    BY DEF Init, EndpointInit, DnsInit, ServiceInit, PathInit, ProxyInit, EnterpriseInit, Begins,
           EndpointNames, ListProbes
<1>2. 0 < PathTimeout
    <2>1. 1 <= MaxTTL * PathAttempts
        <3>1. 1 * PathAttempts <= MaxTTL * PathAttempts /\ 1 * PathAttempts = PathAttempts
            BY PathAssumption, SmallerTimes
        <3>. QED
            BY <3>1, PathAssumption
    <2>. QED
        BY <2>1, PathAssumption
<1>3. ProtocolLane \in PathLanes
    <2>1. <<>> \in HopList
        BY DEF HopList
    <2>. QED
        BY <2>1, PathAssumption DEF ProtocolLane, PathLanes
<1>4. LaneInv(ProtocolLane, 0, ctx)
    BY <1>2, <1>3, PathAssumption DEF ProtocolLane, LaneInv, Asks, Ended, InTime, LateAtLast
<1>5. /\ work \in [Protocols -> PathLanes] /\ \A p \in Protocols : work[p] = ProtocolLane
      /\ clock = 0 /\ pc = "start" /\ ctx \in Contexts
    BY <1>1, <1>3 DEF Begins, Protocols, Contexts
<1>6. \A p \in Protocols : LaneInv(work[p], clock, ctx) /\ work[p].at = "next"
    <2>1. ProtocolLane.at = "next"
        BY DEF ProtocolLane
    <2>2. LaneInv(ProtocolLane, clock, ctx)
        BY <1>4, <1>5, Zenon
    <2>. QED
        BY <1>5, <2>1, <2>2, Zenon
<1>7. 0 \in Nat /\ 0 <= PathTimeout
    BY PathAssumption
<1>. QED
    BY <1>5, <1>6, <1>7 DEF PathInv, PathIsKept, PathRan, Done

\* A lane that ran out of time before its last ttl was given up by its caller.
LEMMA PathTimeIsShared == PathInv => PathSharesTime
BY DEF PathInv, PathSharesTime, LaneInv, LateAtLast, Protocols

-----------------------------------------------------------------------------
(* The probes that connect to the target: tcp, ssh, rdp, smb, tls and http. *)

\* What a peer replies, in any protocol, how a dial or a wait ends, and an attempt.
AllReplies == SshReplies \cup RdpReplies \cup SmbReplies \cup TlsReplies \cup HttpReplies

DialErrors == {"refused", "reset", "unreachable", "timed_out", "interrupted"}

Tries == [candidate : Nat, outcome : AllReplies \cup DialErrors, cut : BOOLEAN]

\* The replies of every protocol are among them.
LEMMA RepliesAre ==
    ASSUME NEW name \in EndpointNames
    PROVE  Replies(name) \subseteq AllReplies
<1>1. CASE name = "tcp"
    BY <1>1 DEF Replies, AllReplies, SshReplies
<1>2. CASE name = "ssh"
    BY <1>2 DEF Replies, AllReplies
<1>3. CASE name = "rdp"
    BY <1>3 DEF Replies, AllReplies
<1>4. CASE name = "smb"
    BY <1>4 DEF Replies, AllReplies
<1>5. CASE name = "tls"
    BY <1>5 DEF Replies, AllReplies
<1>6. CASE name = "http"
    BY <1>6 DEF Replies, AllReplies
<1>. QED
    BY <1>1, <1>2, <1>3, <1>4, <1>5, <1>6 DEF EndpointNames, ListProbes

\* The candidates of a valid target, and what each of them does.
LEMMA CandidatesAre ==
    ASSUME probe \in EndpointNames, world \in EndpointWorlds(probe), world.valid
    PROVE  /\ Candidates \in Nat \ {0} /\ Candidates <= MaxCandidates
           /\ \A i \in 1..Candidates :
                 /\ world.hosts[i].reply \in AllReplies
                 /\ world.hosts[i].reply \in Replies(probe) \/ world.hosts[i].dial # "accepts"
                 /\ world.hosts[i].dial # "accepts" => world.hosts[i].reply = "silent"
<1>. DEFINE longest == IF probe \in {"smb", "tls"} THEN 1 ELSE MaxCandidates
<1>1. PICK n \in 1..MaxCandidates : world.hosts \in [1..n -> Hosts(probe)]
    <2>1. world.hosts \in UNION {[1..n -> Hosts(probe)] : n \in 1..longest}
        BY DEF EndpointWorlds
    <2>2. 1..longest \subseteq 1..MaxCandidates
        BY EndpointAssumption
    <2>. HIDE DEF longest
    <2>. QED
        BY <2>1, <2>2
<1>2. Candidates = n
    BY <1>1 DEF Candidates
<1>3. ASSUME NEW i \in 1..n
      PROVE  /\ world.hosts[i].reply \in AllReplies
             /\ world.hosts[i].reply \in Replies(probe) \/ world.hosts[i].dial # "accepts"
             /\ world.hosts[i].dial # "accepts" => world.hosts[i].reply = "silent"
    <2>1. world.hosts[i] \in Hosts(probe)
        BY <1>1
    <2>2. "silent" \in AllReplies
        BY DEF AllReplies, SshReplies
    <2>. QED
        BY <2>1, <2>2, RepliesAre DEF Hosts
<1>. QED
    BY <1>1, <1>2, <1>3, EndpointAssumption

\* A dial that fails says so of its candidate, and only a refusal is called one.
LEMMA DialFailureTells ==
    ASSUME probe \in EndpointNames, NEW error \in DialErrors
    PROVE  /\ DialFailure(error).about = work.at /\ DialFailure(error).status # "passed"
           /\ DialFailure(error).reason = TcpRefused => error = "refused"
<1>1. CASE probe = "tcp"
    BY <1>1 DEF DialFailure, TcpDialFailure, R, Result, TcpRefused, TcpReset
<1>2. ASSUME NEW other, other # TcpRefused
      PROVE  /\ ListDialFailure(error, other).about = work.at
             /\ ListDialFailure(error, other).status # "passed"
             /\ ListDialFailure(error, other).reason = TcpRefused => error = "refused"
    BY <1>2 DEF ListDialFailure, R, Result, TcpRefused, TcpReset
<1>3. CASE probe = "ssh"
    BY <1>2, <1>3 DEF DialFailure, SshDialFailure, TcpRefused
<1>4. CASE probe = "rdp"
    BY <1>2, <1>4 DEF DialFailure, RdpDialFailure, TcpRefused
<1>5. CASE probe = "smb"
    BY <1>5 DEF DialFailure, SmbDialFailure, R, Result, TcpRefused
<1>6. CASE probe = "tls"
    BY <1>6 DEF DialFailure, TlsDialFailure, R, Result, TcpRefused
<1>7. CASE probe = "http"
    BY <1>7 DEF DialFailure, HttpFailure, R, Result, TcpRefused, TcpReset
<1>. QED
    BY <1>1, <1>3, <1>4, <1>5, <1>6, <1>7 DEF EndpointNames, ListProbes

\* So does a reply, and only the right one passes.
LEMMA ReplyTells ==
    ASSUME probe \in EndpointNames \ {"tcp"}, NEW reply \in AllReplies \cup {"timed_out", "interrupted"}
    PROVE  /\ Reply(reply).about = work.at
           /\ Reply(reply).status = "passed" <=> reply = "answers"
           /\ Reply(reply).reason # TcpRefused
<1>1. CASE probe = "ssh"
    BY <1>1 DEF Reply, SshReply, R, Result, TcpRefused
<1>2. CASE probe = "rdp"
    BY <1>2 DEF Reply, RdpReply, R, Result, TcpRefused
<1>3. CASE probe = "smb"
    BY <1>3 DEF Reply, SmbReply, R, Result, TcpRefused
<1>4. CASE probe = "tls"
    BY <1>4 DEF Reply, TlsReply, R, Result, TcpRefused
<1>5. CASE probe = "http"
    <2>1. /\ HttpFailure(reply).about = work.at /\ HttpFailure(reply).status # "passed"
          /\ HttpFailure(reply).reason = TcpRefused => reply = "refused"
        BY DEF HttpFailure, R, Result, TcpRefused, TcpReset
    <2>2. reply # "refused"
        BY DEF AllReplies, SshReplies, RdpReplies, SmbReplies, TlsReplies, HttpReplies
    <2>. QED
        BY <1>5, <2>1, <2>2 DEF Reply, HttpReply, R, Result, TcpRefused
<1>. QED
    BY <1>1, <1>2, <1>3, <1>4, <1>5 DEF EndpointNames, ListProbes

\* The locals of these probes.
EndpointFields == {"at", "left", "open", "attempts", "reported"}

\* The tcp probe keeps what it found at its first candidate.
TellsOfFirst ==
    /\ work.reported.about = 1 /\ work.reported.status # "passed"
    /\ work.reported.reason = TcpRefused => world.hosts[1].dial = "refuses"
    /\ work.attempts[1].candidate = 1

\* The time that the whole run may take.
Limit == IF probe = "smb" THEN 2 * Timeout ELSE Timeout

\* The time by which the attempt that is under way ends.
TimeBound ==
    IF probe \in ListProbes THEN work.at * Share
    ELSE IF probe = "smb" /\ pc = "exchanging" THEN 2 * Timeout ELSE Timeout

\* While it waits for a peer, a probe has tried all earlier candidates, and each in
\* its own time.
WaitsInTurn ==
    /\ world.valid /\ work.at \in Nat \ {0} /\ work.left \in Nat
    /\ clock + work.left <= TimeBound
    /\ \A i \in 1..Len(work.attempts) : work.attempts[i].outcome # "answers"
    /\ probe \in ListProbes => work.at <= Candidates /\ Len(work.attempts) = work.at - 1
    /\ probe \in {"smb", "tls"} => work.at = 1
    /\ probe = "http" /\ work.at > Candidates => world.hosts[Candidates].reply = "redirects"
    /\ probe = "tcp" /\ work.at > 1 => TellsOfFirst

\* An attempt that timed out while the caller waits has had all of its time.
TimedOutInTime ==
    \A i \in 1..Len(work.attempts) :
        work.attempts[i].outcome = "timed_out" => ~work.attempts[i].cut

EndpointInv ==
    probe \in EndpointNames =>
        /\ world \in EndpointWorlds(probe) /\ ctx \in Contexts
        /\ clock \in Nat /\ clock <= Limit
        /\ pc \in {"start", "dialing", "exchanging", "done"}
        /\ work = [field \in EndpointFields |-> work[field]] /\ work.attempts \in Seq(Tries)
        /\ pc = "start" => work = EndpointWork /\ clock = 0
        /\ Waiting => WaitsInTurn
        /\ ctx = "live" => TimedOutInTime

\* The shares of all candidates are together no more than the time of the probe.
LEMMA SharesAdd ==
    ASSUME probe \in EndpointNames, world \in EndpointWorlds(probe), world.valid
    PROVE  /\ Share \in Nat /\ Share <= Timeout /\ Timeout \in Nat
           /\ probe \in ListProbes => \A n \in 0..Candidates : n * Share <= Timeout /\ n * Share \in Nat
<1>1. Candidates \in Nat \ {0} /\ Timeout \in Nat
    BY CandidatesAre, EndpointAssumption
<1>2. CASE probe \in ListProbes
    <2>1. Share = Timeout \div Candidates
        BY <1>2 DEF Share
    <2>2. Share \in Nat /\ Candidates * Share <= Timeout /\ Share <= Timeout
        BY <1>1, <2>1
    <2>3. ASSUME NEW n \in 0..Candidates
          PROVE  n * Share <= Timeout /\ n * Share \in Nat
        <3>1. n \in Nat /\ n <= Candidates
            BY <1>1
        <3>2. n * Share <= Candidates * Share /\ n * Share \in Nat /\ Candidates * Share \in Nat
            BY <1>1, <2>2, <3>1, SmallerTimes
        <3>. QED
            BY <1>1, <2>2, <3>2
    <2>. QED
        BY <1>1, <2>2, <2>3
<1>3. CASE probe \notin ListProbes
    BY <1>1, <1>3 DEF Share
<1>. QED
    BY <1>2, <1>3

\* The time of every attempt ends within that of the run.
LEMMA TimeHasEnd ==
    ASSUME EndpointInv, probe \in EndpointNames, Waiting
    PROVE  /\ TimeBound \in Nat /\ TimeBound <= Limit /\ Limit \in Nat
           /\ Over => work.left = 0
<1>1. /\ world \in EndpointWorlds(probe) /\ WaitsInTurn /\ clock \in Nat
      /\ world.valid /\ work.at \in Nat \ {0} /\ work.left \in Nat
      /\ clock + work.left <= TimeBound
      /\ probe \in ListProbes => work.at <= Candidates
    BY DEF EndpointInv, WaitsInTurn
<1>2. Timeout \in Nat /\ Candidates \in Nat
    BY <1>1, CandidatesAre, EndpointAssumption
<1>3. /\ TimeBound \in Nat /\ TimeBound <= Limit /\ Limit \in Nat
      /\ probe # "smb" => Limit = Timeout
    <2>1. CASE probe \in ListProbes
        <3>1. work.at \in 0..Candidates /\ probe # "smb"
            BY <1>1, <1>2, <2>1 DEF ListProbes
        <3>2. \A n \in 0..Candidates : n * Share <= Timeout /\ n * Share \in Nat
            BY <1>1, <2>1, SharesAdd
        <3>3. work.at * Share <= Timeout /\ work.at * Share \in Nat
            BY <3>1, <3>2, Zenon
        <3>4. TimeBound = work.at * Share /\ Limit = Timeout
            BY <2>1, <3>1 DEF TimeBound, Limit
        <3>. QED
            BY <1>2, <3>3, <3>4, Zenon
    <2>2. CASE probe \notin ListProbes /\ probe = "smb"
        <3>1. TimeBound \in {Timeout, 2 * Timeout} /\ Limit = 2 * Timeout
            BY <2>2, Zenon DEF TimeBound, Limit
        <3>. QED
            BY <1>2, <2>2, <3>1
    <2>3. CASE probe \notin ListProbes /\ probe # "smb"
        <3>1. TimeBound = Timeout /\ Limit = Timeout
            BY <2>3, Zenon DEF TimeBound, Limit
        <3>. QED
            BY <1>2, <3>1
    <2>. QED
        BY <2>1, <2>2, <2>3
<1>4. ASSUME probe # "smb", clock >= Timeout
      PROVE  work.left = 0
    BY <1>1, <1>2, <1>3, <1>4
<1>. QED
    BY <1>3, <1>4 DEF Over

\* What settling an attempt does.
LEMMA SettleDoes ==
    ASSUME EndpointInv, probe \in EndpointNames, Waiting, NEW value, NEW outcome, Settle(value, outcome)
    PROVE  /\ work'.attempts = Append(work.attempts, Attempted(outcome))
           /\ work'.reported = Reported(value)
           /\ work' = [field \in EndpointFields |-> work'[field]]
           /\ UNCHANGED <<world, ctx, clock, probe>>
           /\ \/ /\ value.status = "passed" /\ Done' /\ result' = value
              \/ /\ value.status # "passed" /\ probe \in ListProbes /\ work.at < Candidates
                 /\ pc' = "dialing" /\ work'.at = work.at + 1 /\ work'.left = Share
              \/ /\ value.status # "passed" /\ Done' /\ result' = Reported(value)
                 /\ ~(probe \in ListProbes /\ work.at < Candidates /\ ctx = "live")
<1>1. work = [field \in EndpointFields |-> work[field]]
    BY DEF EndpointInv
<1>2. PICK noted : noted = [work EXCEPT !.attempts = Append(@, Attempted(outcome)), !.open = FALSE,
                                        !.reported = Reported(value)]
    OBVIOUS
<1>3. /\ noted.attempts = Append(work.attempts, Attempted(outcome))
      /\ noted.reported = Reported(value) /\ noted.at = work.at
      /\ noted = [field \in EndpointFields |-> noted[field]]
    BY <1>1, <1>2 DEF EndpointFields
<1>4. \/ value.status = "passed" /\ Return(value, noted) /\ UNCHANGED clock
      \/ value.status # "passed" /\ probe \in ListProbes /\ work.at < Candidates /\ Dials(noted)
      \/ /\ value.status # "passed" /\ Return(noted.reported, noted) /\ UNCHANGED clock
         /\ ~(probe \in ListProbes /\ work.at < Candidates /\ ctx = "live")
    BY <1>2 DEF Settle
<1>5. CASE value.status = "passed" /\ Return(value, noted) /\ UNCHANGED clock
    BY <1>3, <1>5 DEF Return, Done
<1>6. CASE value.status # "passed" /\ probe \in ListProbes /\ work.at < Candidates /\ Dials(noted)
    BY <1>3, <1>6 DEF Dials, Continue, EndpointFields
<1>7. CASE /\ value.status # "passed" /\ Return(noted.reported, noted) /\ UNCHANGED clock
           /\ ~(probe \in ListProbes /\ work.at < Candidates /\ ctx = "live")
    BY <1>3, <1>7 DEF Return, Done
<1>. QED
    BY <1>4, <1>5, <1>6, <1>7

\* An attempt that ends is noted after the earlier ones.
LEMMA AttemptIsNoted ==
    ASSUME EndpointInv, probe \in EndpointNames, Waiting, NEW outcome \in AllReplies \cup DialErrors,
           ctx = "live" /\ outcome = "timed_out" => work.left = 0,
           work'.attempts = Append(work.attempts, Attempted(outcome)), UNCHANGED ctx
    PROVE  \E n \in Nat, attempt \in Tries :
              /\ n = Len(work.attempts) /\ attempt.candidate = work.at /\ attempt.outcome = outcome
              /\ work'.attempts \in Seq(Tries) /\ Len(work'.attempts) = n + 1
              /\ \A i \in 1..n : work'.attempts[i] = work.attempts[i]
              /\ work'.attempts[n + 1] = attempt
              /\ ctx' = "live" => TimedOutInTime'
<1>1. work.attempts \in Seq(Tries) /\ work.at \in Nat \ {0} /\ work.left \in Nat
    BY DEF EndpointInv, WaitsInTurn
<1>2. PICK attempt : attempt = Attempted(outcome)
    OBVIOUS
<1>3. /\ attempt \in Tries /\ attempt.candidate = work.at /\ attempt.outcome = outcome
      /\ ctx = "live" /\ outcome = "timed_out" => ~attempt.cut
    <2>1. attempt = [candidate |-> work.at, outcome |-> outcome, cut |-> work.left > 0]
        BY <1>2 DEF Attempted
    <2>2. PICK cut \in BOOLEAN : cut = (work.left > 0)
        <3>1. (work.left > 0) \in BOOLEAN
            OBVIOUS
        <3>. QED
            BY <3>1, Zenon
    <2>3. attempt = [candidate |-> work.at, outcome |-> outcome, cut |-> cut]
        BY <2>1, <2>2, Zenon
    <2>4. ctx = "live" /\ outcome = "timed_out" => ~cut
        <3>1. work.left = 0 => ~(work.left > 0)
            OBVIOUS
        <3>. QED
            BY <2>2, <3>1, Zenon
    <2>. QED
        <3>1. attempt \in Tries
            BY <1>1, <2>3 DEF Tries
        <3>2. attempt.candidate = work.at /\ attempt.outcome = outcome /\ attempt.cut = cut
            BY <2>3
        <3>. QED
            BY <2>4, <3>1, <3>2
<1>4. PICK n \in Nat : n = Len(work.attempts)
    BY <1>1
<1>5. /\ work'.attempts \in Seq(Tries) /\ Len(work'.attempts) = n + 1
      /\ \A i \in 1..n : work'.attempts[i] = work.attempts[i]
      /\ work'.attempts[n + 1] = attempt
    <2>1. work'.attempts = Append(work.attempts, attempt)
        BY <1>2
    <2>. QED
        BY <1>1, <1>3, <1>4, <2>1
<1>6. ctx' = "live" => TimedOutInTime'
    <2>1. ctx = "live" => \A i \in 1..n : work.attempts[i].outcome = "timed_out" => ~work.attempts[i].cut
        BY <1>4 DEF EndpointInv, TimedOutInTime
    <2>2. ASSUME NEW i \in 1..(n + 1), ctx = "live", work'.attempts[i].outcome = "timed_out"
          PROVE  ~work'.attempts[i].cut
        BY <1>3, <1>5, <2>1, <2>2
    <2>. QED
        BY <1>5, <2>2 DEF TimedOutInTime
<1>. QED
    BY <1>3, <1>4, <1>5, <1>6

\* What a probe makes of the attempt that it settles: it says of the candidate what
\* happened there.
Tells(value, outcome) ==
    /\ outcome \in AllReplies \cup DialErrors
    /\ value.about = work.at
    /\ value.status = "passed" <=> outcome = "answers"
    /\ value.reason = TcpRefused => work.at <= Candidates /\ world.hosts[work.at].dial = "refuses"
    /\ ctx = "live" /\ outcome = "timed_out" => work.left = 0

\* What is claimed of these probes.
EndpointResults == FairShare /\ EvidenceIsKept

\* Settling an attempt keeps the order of the candidates, and decides on what was found.
LEMMA SettleKeeps ==
    ASSUME EndpointInv, probe \in EndpointNames, Waiting, NEW value, NEW outcome,
           Tells(value, outcome), Settle(value, outcome)
    PROVE  EndpointInv' /\ (Done' => EndpointResults')
<1>1. /\ world \in EndpointWorlds(probe) /\ WaitsInTurn /\ clock \in Nat /\ clock <= Limit
      /\ ctx \in Contexts /\ work.attempts \in Seq(Tries) /\ world.valid
      /\ work.at \in Nat \ {0} /\ work.left \in Nat /\ clock + work.left <= TimeBound
    BY DEF EndpointInv, WaitsInTurn
<1>2. PICK n \in Nat, attempt \in Tries :
         /\ n = Len(work.attempts) /\ attempt.candidate = work.at /\ attempt.outcome = outcome
         /\ work'.attempts \in Seq(Tries) /\ Len(work'.attempts) = n + 1
         /\ \A i \in 1..n : work'.attempts[i] = work.attempts[i]
         /\ work'.attempts[n + 1] = attempt
         /\ ctx' = "live" => TimedOutInTime'
    <2>1. work'.attempts = Append(work.attempts, Attempted(outcome)) /\ UNCHANGED ctx
        BY SettleDoes
    <2>. QED
        BY <2>1, AttemptIsNoted DEF Tells
<1>3. attempt.candidate = work.at /\ attempt.outcome = outcome
    BY <1>2
<1>4. n = Len(work.attempts)
    BY <1>2
<1>5. /\ work'.attempts \in Seq(Tries) /\ Len(work'.attempts) = n + 1
      /\ \A i \in 1..n : work'.attempts[i] = work.attempts[i]
      /\ work'.attempts[n + 1] = attempt
    BY <1>2
<1>6. /\ work'.reported = Reported(value)
      /\ work' = [field \in EndpointFields |-> work'[field]]
      /\ UNCHANGED <<world, ctx, clock, probe>>
    BY SettleDoes
<1>7. /\ \A i \in 1..n : work.attempts[i].outcome # "answers"
      /\ probe \in ListProbes => work.at <= Candidates /\ n = work.at - 1
      /\ probe = "tcp" /\ work.at > 1 => TellsOfFirst
    BY <1>1, <1>4 DEF WaitsInTurn
<1>8. ctx' = "live" => TimedOutInTime'
    BY <1>2
<1>9. Limit' = Limit
    BY <1>6 DEF Limit
\* What a tcp probe reports when an attempt failed is what it found first.
<1>10. ASSUME probe = "tcp", value.status # "passed"
       PROVE  TellsOfFirst' /\ Reported(value).about = 1
    <2>0. work'.attempts[1].candidate = 1
        <3>1. CASE work.at = 1
            BY <1>3, <1>5, <1>7, <1>10, <3>1 DEF ListProbes
        <3>2. CASE work.at > 1
            <4>1. 1 \in 1..n
                BY <1>1, <1>7, <1>10, <3>2 DEF ListProbes
            <4>. QED
                BY <1>5, <1>7, <1>10, <3>2, <4>1 DEF TellsOfFirst
        <3>. QED
            BY <1>1, <3>1, <3>2
    <2>1. CASE work.at = 1
        <3>1. Reported(value) = value
            BY <2>1 DEF Reported
        <3>. QED
            BY <1>6, <1>10, <2>0, <2>1, <3>1 DEF TellsOfFirst, Tells
    <2>2. CASE work.at > 1
        <3>1. Reported(value) = work.reported
            BY <1>10, <2>2 DEF Reported
        <3>. QED
            BY <1>6, <1>7, <1>10, <2>0, <2>2, <3>1 DEF TellsOfFirst
    <2>. QED
        BY <1>1, <2>1, <2>2
<1>11. /\ DOMAIN work'.attempts = 1..(n + 1) /\ 1 \in 1..(n + 1) /\ n + 1 \in 1..(n + 1)
       /\ value.status # "passed" => \A i \in 1..(n + 1) : work'.attempts[i].outcome # "answers"
    <2>1. \A i \in 1..(n + 1) : i \in 1..n \/ i = n + 1
        OBVIOUS
    <2>2. value.status # "passed" => attempt.outcome # "answers"
        BY <1>3 DEF Tells
    <2>3. DOMAIN work'.attempts = 1..(n + 1)
        BY <1>5
    <2>4. value.status # "passed" => \A i \in 1..(n + 1) : work'.attempts[i].outcome # "answers"
        BY <1>5, <1>7, <2>1, <2>2
    <2>. QED
        BY <2>3, <2>4
\* The parts of FairShare that hold while it runs.
<1>12. /\ clock' <= (IF probe = "smb" THEN 2 * Timeout ELSE Timeout)'
       /\ ctx' = "live" => \A i \in DOMAIN work'.attempts :
                             work'.attempts[i].outcome = "timed_out" => ~work'.attempts[i].cut
    <2>1. clock' <= Limit'
        BY <1>1, <1>6, <1>9
    <2>2. DOMAIN work'.attempts = 1..Len(work'.attempts)
        BY <1>5
    <2>. QED
        BY <1>8, <2>1, <2>2, Zenon DEF TimedOutInTime, Limit
<1>13. CASE value.status = "passed" /\ Done' /\ result' = value
    <2>1. EndpointInv'
        BY <1>1, <1>5, <1>6, <1>8, <1>9, <1>13 DEF EndpointInv, Done, Waiting
    <2>2. EvidenceIsKept'
        <3>1. work'.attempts[n + 1].candidate = result'.about /\ work'.attempts[n + 1].outcome = "answers"
            BY <1>3, <1>5, <1>13 DEF Tells
        <3>2. result'.reason = TcpRefused => world'.hosts[result'.about].dial = "refuses"
            BY <1>6, <1>13 DEF Tells
        <3>. QED
            BY <1>11, <1>13, <3>1, <3>2 DEF EvidenceIsKept
    <2>3. FairShare'
        BY <1>12, <1>13 DEF FairShare
    <2>. QED
        BY <2>1, <2>2, <2>3 DEF EndpointResults
<1>14. CASE /\ value.status # "passed" /\ probe \in ListProbes /\ work.at < Candidates
            /\ pc' = "dialing" /\ work'.at = work.at + 1 /\ work'.left = Share
    <2>1. /\ Share \in Nat /\ work.at * Share \in Nat
          /\ (work.at + 1) * Share = work.at * Share + Share
        <3>1. Share \in Nat
            BY <1>1, SharesAdd
        <3>. QED
            BY <1>1, <3>1, SmallerTimes
    <2>2. clock' + work'.left <= TimeBound'
        <3>1. Share' = Share
            BY <1>6 DEF Share, Candidates
        <3>2. TimeBound = work.at * Share /\ TimeBound' = (work.at + 1) * Share
            BY <1>6, <1>14, <3>1 DEF TimeBound
        <3>. QED
            BY <1>1, <1>6, <1>14, <2>1, <3>2
    <2>3. \A i \in 1..Len(work'.attempts) : work'.attempts[i].outcome # "answers"
        BY <1>5, <1>11, <1>14
    <2>4. /\ work'.at \in Nat \ {0} /\ work'.left \in Nat /\ work'.at <= Candidates
          /\ Len(work'.attempts) = work'.at - 1
        <3>1. Candidates \in Nat /\ Share \in Nat
            BY <1>1, <2>1, CandidatesAre
        <3>2. work'.at = work.at + 1 /\ work'.left = Share /\ work.at < Candidates
            BY <1>14
        <3>3. Len(work'.attempts) = work.at
            <4>1. n = work.at - 1 /\ Len(work'.attempts) = n + 1
                BY <1>5, <1>7, <1>14
            <4>. QED
                BY <1>1, <4>1
        <3>. QED
            BY <1>1, <3>1, <3>2, <3>3
    <2>5. probe \notin {"smb", "tls", "http"} /\ Candidates' = Candidates
        BY <1>6, <1>14 DEF ListProbes, Candidates
    <2>6. WaitsInTurn'
        BY <1>1, <1>6, <1>10, <1>14, <2>2, <2>3, <2>4, <2>5 DEF WaitsInTurn
    <2>7. ~Done'
        BY <1>14 DEF Done
    <2>. QED
        BY <1>1, <1>5, <1>6, <1>8, <1>9, <1>14, <2>6, <2>7 DEF EndpointInv
<1>15. CASE /\ value.status # "passed" /\ Done' /\ result' = Reported(value)
            /\ ~(probe \in ListProbes /\ work.at < Candidates /\ ctx = "live")
    <2>1. EndpointInv'
        BY <1>1, <1>5, <1>6, <1>8, <1>9, <1>15 DEF EndpointInv, Done, Waiting
    <2>2. /\ \E i \in DOMAIN work'.attempts : work'.attempts[i].candidate = result'.about
          /\ result'.status # "passed"
          /\ result'.reason = TcpRefused => world'.hosts[result'.about].dial = "refuses"
          /\ probe = "tcp" => result'.about = 1
        <3>1. CASE probe = "tcp"
            <4>1. result' = work'.reported
                BY <1>6, <1>15
            <4>. QED
                BY <1>6, <1>10, <1>11, <1>15, <3>1, <4>1 DEF TellsOfFirst
        <3>2. CASE probe # "tcp"
            <4>1. result' = value
                BY <1>15, <3>2 DEF Reported
            <4>. QED
                BY <1>3, <1>5, <1>6, <1>11, <1>15, <3>2, <4>1 DEF Tells
        <3>. QED
            BY <3>1, <3>2
    <2>3. \A i \in DOMAIN work'.attempts : work'.attempts[i].outcome # "answers"
        BY <1>11, <1>15
    <2>4. EvidenceIsKept'
        BY <1>6, <2>2, <2>3 DEF EvidenceIsKept
    <2>5. ctx = "live" /\ probe \in ListProbes => Len(work'.attempts) = Candidates'
        BY <1>1, <1>5, <1>6, <1>7, <1>15, CandidatesAre DEF Candidates
    <2>6. FairShare'
        BY <1>6, <1>12, <1>15, <2>2, <2>5 DEF FairShare
    <2>. QED
        BY <2>1, <2>4, <2>6 DEF EndpointResults
<1>. QED
    BY <1>13, <1>14, <1>15, SettleDoes

\* The candidate that is asked: the current one, or, after more redirects than hosts,
\* the last one of the chain, which redirects for ever.
LEMMA HostIsCandidate ==
    ASSUME EndpointInv, probe \in EndpointNames, Waiting
    PROVE  /\ Host.reply \in AllReplies
           /\ Host.dial = "refuses" => work.at <= Candidates /\ world.hosts[work.at].dial = "refuses"
           /\ Host.reply = "redirects" /\ work.at >= Candidates =>
                 world.hosts[Candidates].reply = "redirects"
<1>1. /\ world \in EndpointWorlds(probe) /\ world.valid /\ work.at \in Nat \ {0}
      /\ probe \in ListProbes => work.at <= Candidates
      /\ probe \in {"smb", "tls"} => work.at = 1
      /\ probe = "http" /\ work.at > Candidates => world.hosts[Candidates].reply = "redirects"
    BY DEF EndpointInv, WaitsInTurn
<1>2. /\ Candidates \in Nat \ {0}
      /\ \A i \in 1..Candidates :
            /\ world.hosts[i].reply \in AllReplies
            /\ world.hosts[i].dial # "accepts" => world.hosts[i].reply = "silent"
    BY <1>1, CandidatesAre
<1>3. CASE work.at <= Candidates
    <2>1. Host = world.hosts[work.at] /\ work.at \in 1..Candidates
        BY <1>1, <1>2, <1>3 DEF Host
    <2>2. work.at >= Candidates => work.at = Candidates
        BY <1>1, <1>2, <1>3
    <2>. QED
        BY <1>2, <1>3, <2>1, <2>2
<1>4. CASE work.at > Candidates
    <2>1. Host = world.hosts[Candidates] /\ Candidates \in 1..Candidates
        BY <1>1, <1>2, <1>4 DEF Host
    <2>2. probe = "http"
        BY <1>1, <1>2, <1>4 DEF EndpointNames
    <2>3. Host.reply = "redirects"
        BY <1>1, <1>4, <2>1, <2>2
    <2>4. Host.dial = "accepts"
        BY <1>2, <2>1, <2>3
    <2>. QED
        BY <1>2, <2>1, <2>3, <2>4
<1>. QED
    BY <1>1, <1>2, <1>3, <1>4

\* A dial that fails is settled.
LEMMA DialFailsKeeps ==
    ASSUME EndpointInv, probe \in EndpointNames, Waiting, NEW error \in DialErrors, DialFails(error),
           error = "refused" => Host.dial = "refuses",
           ctx = "live" /\ error = "timed_out" => Over
    PROVE  EndpointInv' /\ (Done' => EndpointResults')
<1>1. Tells(DialFailure(error), error)
    <2>1. error # "answers"
        BY DEF DialErrors
    <2>2. /\ DialFailure(error).about = work.at /\ DialFailure(error).status # "passed"
          /\ DialFailure(error).reason = TcpRefused => error = "refused"
        BY DialFailureTells
    <2>3. ctx = "live" /\ error = "timed_out" => work.left = 0
        BY TimeHasEnd
    <2>. QED
        BY <2>1, <2>2, <2>3, HostIsCandidate DEF Tells
<1>. QED
    BY <1>1, SettleKeeps DEF DialFails

\* So is a reply, or the lack of one.
LEMMA ReplyKeeps ==
    ASSUME EndpointInv, probe \in EndpointNames \ {"tcp"}, Waiting,
           NEW reply \in AllReplies \cup {"timed_out", "interrupted"}, Settle(Reply(reply), reply),
           ctx = "live" /\ reply = "timed_out" => Over
    PROVE  EndpointInv' /\ (Done' => EndpointResults')
<1>1. Tells(Reply(reply), reply)
    <2>1. reply \in AllReplies \cup DialErrors
        BY DEF DialErrors
    <2>2. /\ Reply(reply).about = work.at /\ (Reply(reply).status = "passed" <=> reply = "answers")
          /\ Reply(reply).reason # TcpRefused
        BY ReplyTells
    <2>3. ctx = "live" /\ reply = "timed_out" => work.left = 0
        BY TimeHasEnd
    <2>. QED
        BY <2>1, <2>2, <2>3 DEF Tells
<1>. QED
    BY <1>1, SettleKeeps

\* The connection is there: a tcp probe is done, the others speak their protocol.
LEMMA AcceptsKeeps ==
    ASSUME EndpointInv, probe \in EndpointNames, pc = "dialing", Accepts
    PROVE  EndpointInv' /\ (Done' => EndpointResults')
<1>. Waiting
    BY DEF Waiting
<1>1. CASE probe = "tcp"
    <2>1. PICK value : value = R("passed", "none", "tcp", "transport")
        OBVIOUS
    <2>2. Settle(value, "answers")
        BY <1>1, <2>1 DEF Accepts
    <2>3. Tells(value, "answers")
        BY <2>1 DEF Tells, R, Result, AllReplies, SshReplies, TcpRefused
    <2>. QED
        BY <2>2, <2>3, SettleKeeps
<1>2. CASE probe # "tcp"
    <2>1. /\ EndpointInv /\ WaitsInTurn /\ clock \in Nat /\ work.left \in Nat
          /\ clock + work.left <= TimeBound /\ TimeBound \in Nat /\ Timeout \in Nat
        BY TimeHasEnd, EndpointAssumption DEF EndpointInv, WaitsInTurn
    <2>2. /\ pc' = "exchanging" /\ UNCHANGED <<probe, world, ctx, clock>>
          /\ work' = [work EXCEPT !.open = TRUE, !.left = IF probe = "smb" THEN Timeout ELSE @]
        BY <1>2 DEF Accepts, Continue
    <2>3. /\ work' = [field \in EndpointFields |-> work'[field]]
          /\ work'.at = work.at /\ work'.attempts = work.attempts /\ work'.reported = work.reported
          /\ work'.left = IF probe = "smb" THEN Timeout ELSE work.left
        BY <2>1, <2>2 DEF EndpointInv, EndpointFields
    <2>4. clock' + work'.left <= TimeBound' /\ work'.left \in Nat
        <3>1. CASE probe = "smb"
            <4>1. TimeBound = Timeout /\ TimeBound' = 2 * Timeout /\ work'.left = Timeout
                BY <2>2, <2>3, <3>1 DEF TimeBound, ListProbes
            <4>. QED
                BY <2>1, <2>2, <4>1
        <3>2. CASE probe # "smb"
            <4>1. TimeBound' = TimeBound /\ work'.left = work.left
                BY <2>2, <2>3, <3>2 DEF TimeBound, Share, Candidates
            <4>. QED
                BY <2>1, <2>2, <4>1
        <3>. QED
            BY <3>1, <3>2
    <2>5. WaitsInTurn'
        BY <1>2, <2>1, <2>2, <2>3, <2>4 DEF WaitsInTurn, Candidates
    <2>. QED
        BY <2>1, <2>2, <2>3, <2>5 DEF EndpointInv, Done, Limit, TimedOutInTime
<1>. QED
    BY <1>1, <1>2

\* A redirect is noted and followed, in the time that is left.
LEMMA RedirectKeeps ==
    ASSUME EndpointInv, probe = "http", EndpointRedirect
    PROVE  EndpointInv' /\ (Done' => EndpointResults')
<1>. Waiting /\ probe \in EndpointNames /\ probe # "tcp"
    BY DEF EndpointRedirect, Waiting, EndpointNames
<1>0. "redirects" \in AllReplies
    BY DEF AllReplies, HttpReplies
<1>1. CASE Settle(Reply("redirects"), "redirects")
    BY <1>0, <1>1, ReplyKeeps
<1>2. CASE /\ Continue("dialing", [work EXCEPT !.at = @ + 1, !.open = FALSE,
                                               !.attempts = Append(@, Attempted("redirects"))])
           /\ UNCHANGED clock
    <2>1. /\ EndpointInv /\ WaitsInTurn /\ clock \in Nat /\ work.left \in Nat /\ work.at \in Nat \ {0}
          /\ clock + work.left <= TimeBound
        BY DEF EndpointInv, WaitsInTurn
    <2>2. pc' = "dialing" /\ UNCHANGED <<probe, world, ctx, clock>>
        BY <1>2 DEF Continue
    <2>3. /\ work' = [field \in EndpointFields |-> work'[field]]
          /\ work'.at = work.at + 1 /\ work'.attempts = Append(work.attempts, Attempted("redirects"))
          /\ work'.left = work.left
        BY <1>2, <2>1 DEF EndpointInv, EndpointFields, Continue
    <2>4. PICK n \in Nat, attempt \in Tries :
             /\ n = Len(work.attempts) /\ attempt.candidate = work.at /\ attempt.outcome = "redirects"
             /\ work'.attempts \in Seq(Tries) /\ Len(work'.attempts) = n + 1
             /\ \A i \in 1..n : work'.attempts[i] = work.attempts[i]
             /\ work'.attempts[n + 1] = attempt
             /\ ctx' = "live" => TimedOutInTime'
        BY <1>0, <2>2, <2>3, AttemptIsNoted
    <2>5. \A i \in 1..Len(work'.attempts) : work'.attempts[i].outcome # "answers"
        <3>1. \A i \in 1..n : work.attempts[i].outcome # "answers"
            BY <2>1, <2>4 DEF WaitsInTurn
        <3>2. \A i \in 1..(n + 1) : i \in 1..n \/ i = n + 1
            OBVIOUS
        <3>3. Len(work'.attempts) = n + 1 /\ work'.attempts[n + 1].outcome = "redirects"
            BY <2>4
        <3>4. \A i \in 1..n : work'.attempts[i] = work.attempts[i]
            BY <2>4
        <3>. QED
            BY <3>1, <3>2, <3>3, <3>4
    <2>6. TimeBound = Timeout /\ TimeBound' = Timeout
        BY <2>2 DEF TimeBound, ListProbes
    <2>7. work'.at > Candidates => world.hosts[Candidates].reply = "redirects"
        <3>1. Host.reply = "redirects"
            BY DEF EndpointRedirect, Redirected
        <3>2. Candidates \in Nat
            BY <2>1, CandidatesAre DEF EndpointInv, WaitsInTurn
        <3>3. work'.at > Candidates => work.at >= Candidates
            BY <2>1, <2>3, <3>2
        <3>. QED
            BY <3>1, <3>3, HostIsCandidate
    <2>8. clock' + work'.left <= TimeBound' /\ work'.at \in Nat \ {0} /\ work'.left \in Nat
        BY <2>1, <2>2, <2>3, <2>6
    <2>9. WaitsInTurn'
        BY <2>1, <2>2, <2>5, <2>7, <2>8 DEF WaitsInTurn, Candidates, ListProbes
    <2>. QED
        BY <2>1, <2>2, <2>3, <2>4, <2>9 DEF EndpointInv, Done, Limit
<1>. QED
    BY <1>1, <1>2 DEF EndpointRedirect

\* The first candidate has all of its share before it.
LEMMA BeginsKeeps ==
    ASSUME EndpointInv, probe \in EndpointNames, EndpointBegins
    PROVE  EndpointInv' /\ (Done' => EndpointResults')
<1>1. /\ EndpointInv /\ pc = "start" /\ clock = 0 /\ work = EndpointWork /\ Timeout \in Nat
      /\ world \in EndpointWorlds(probe)
    BY EndpointAssumption DEF EndpointInv, EndpointBegins
<1>2. ASSUME NEW value, Refuses(value), ctx # "live" \/ ~world.valid
      PROVE  EndpointInv' /\ (Done' => EndpointResults')
    <2>1. /\ pc' = "done" /\ UNCHANGED <<probe, world, ctx, clock, work>>
        BY <1>2 DEF Refuses, Return
    <2>2. work.attempts = <<>> /\ work = [field \in EndpointFields |-> work[field]]
        BY <1>1 DEF EndpointWork, EndpointFields
    <2>3. EndpointInv'
        BY <1>1, <2>1 DEF EndpointInv, Limit, Waiting, TimedOutInTime
    <2>4. EvidenceIsKept'
        BY <2>1, <2>2 DEF EvidenceIsKept
    <2>5. FairShare'
        BY <1>1, <1>2, <2>1, <2>2 DEF FairShare
    <2>. QED
        BY <2>3, <2>4, <2>5 DEF EndpointResults
<1>3. ASSUME world.valid, Dials(work)
      PROVE  EndpointInv' /\ (Done' => EndpointResults')
    <2>1. Share \in Nat /\ Share <= Timeout
        BY <1>1, <1>3, SharesAdd
    <2>2. /\ pc' = "dialing" /\ UNCHANGED <<probe, world, ctx, clock>>
          /\ work' = [work EXCEPT !.at = @ + 1, !.left = Share, !.open = FALSE]
        BY <1>3 DEF Dials, Continue
    <2>3. /\ work' = [field \in EndpointFields |-> work'[field]]
          /\ work'.at = 1 /\ work'.left = Share /\ work'.attempts = <<>>
        <3>1. work = [at |-> 0, left |-> 0, open |-> FALSE, attempts |-> <<>>, reported |-> NoResult]
            BY <1>1 DEF EndpointWork
        <3>2. work.at + 1 = 1
            BY <3>1
        <3>3. work' = [work EXCEPT !.at = 1, !.left = Share, !.open = FALSE]
            BY <2>2, <3>2
        <3>4. work' = [at |-> 1, left |-> Share, open |-> FALSE, attempts |-> <<>>, reported |-> NoResult]
            BY <3>1, <3>3
        <3>. QED
            BY <3>4 DEF EndpointFields
    <2>4. clock' + work'.left <= TimeBound'
        <3>1. Share' = Share
            BY <2>2 DEF Share, Candidates
        <3>2. TimeBound' = Share \/ TimeBound' = Timeout
            <4>1. CASE probe \in ListProbes
                <5>1. TimeBound' = work'.at * Share'
                    BY <2>2, <4>1 DEF TimeBound
                <5>. QED
                    BY <2>1, <2>3, <3>1, <5>1
            <4>2. CASE probe \notin ListProbes
                BY <2>2, <4>2 DEF TimeBound
            <4>. QED
                BY <4>1, <4>2
        <3>. QED
            BY <1>1, <2>1, <2>2, <2>3, <3>2
    <2>5. WaitsInTurn'
        <3>1. Candidates \in Nat \ {0} /\ Candidates' = Candidates
            BY <1>1, <1>3, <2>2, CandidatesAre DEF Candidates
        <3>. QED
            BY <1>3, <2>1, <2>2, <2>3, <2>4, <3>1 DEF WaitsInTurn
    <2>6. TimedOutInTime' /\ work'.attempts \in Seq(Tries)
        BY <2>3 DEF TimedOutInTime
    <2>. QED
        BY <1>1, <2>2, <2>3, <2>5, <2>6 DEF EndpointInv, Done, Limit
<1>4. \/ \E value : Refuses(value) /\ (ctx # "live" \/ ~world.valid)
      \/ world.valid /\ Dials(work)
    BY DEF EndpointBegins
<1>. QED
    BY <1>2, <1>3, <1>4

\* A tick takes from the time of this attempt only.
LEMMA WaitsKeeps ==
    ASSUME EndpointInv, probe \in EndpointNames, EndpointWaits
    PROVE  EndpointInv' /\ ~Done'
<1>. Waiting
    BY DEF EndpointWaits
<1>1. /\ EndpointInv /\ WaitsInTurn /\ clock \in Nat /\ work.left \in Nat /\ work.left # 0
      /\ clock + work.left <= TimeBound
    BY DEF EndpointInv, WaitsInTurn, EndpointWaits, Over
<1>2. TimeBound \in Nat /\ TimeBound <= Limit /\ Limit \in Nat
    BY TimeHasEnd
<1>3. /\ UNCHANGED <<probe, world, pc, ctx>> /\ clock' = clock + 1
      /\ work' = [work EXCEPT !.left = @ - 1]
    BY DEF EndpointWaits
<1>4. /\ work' = [field \in EndpointFields |-> work'[field]]
      /\ work'.at = work.at /\ work'.attempts = work.attempts /\ work'.reported = work.reported
      /\ work'.left = work.left - 1
    BY <1>1, <1>3 DEF EndpointInv, EndpointFields
<1>5. Limit' = Limit /\ TimeBound' = TimeBound
    BY <1>3, <1>4 DEF Limit, TimeBound, Share, Candidates
<1>6. /\ clock' \in Nat /\ clock' <= Limit' /\ work'.left \in Nat
      /\ clock' + work'.left <= TimeBound'
    BY <1>1, <1>2, <1>3, <1>4, <1>5
<1>7. WaitsInTurn'
    BY <1>1, <1>3, <1>4, <1>6 DEF WaitsInTurn, Candidates, TellsOfFirst
<1>. QED
    BY <1>1, <1>3, <1>4, <1>6, <1>7 DEF EndpointInv, Waiting, Done, TimedOutInTime

\* While it runs, nothing was decided yet.
LEMMA RunningShares ==
    ASSUME EndpointInv, Done => EndpointResults
    PROVE  EndpointResults
<1>1. CASE Done \/ probe \notin EndpointNames
    BY <1>1 DEF EndpointResults, FairShare, EvidenceIsKept, EndpointDone
<1>2. CASE ~Done /\ probe \in EndpointNames
    <2>1. DOMAIN work.attempts = 1..Len(work.attempts)
        BY <1>2 DEF EndpointInv
    <2>. QED
        BY <1>2, <2>1, Zenon DEF EndpointResults, FairShare, EvidenceIsKept, EndpointDone, EndpointInv,
                                 Limit, TimedOutInTime
<1>. QED
    BY <1>1, <1>2

\* Every step of a probe keeps the order, and what it returns is founded.
LEMMA EndpointStep == EndpointInv /\ EndpointResults /\ Next => EndpointInv' /\ EndpointResults'
<1>. SUFFICES ASSUME EndpointInv, EndpointResults, Next
              PROVE  EndpointInv' /\ EndpointResults'
    OBVIOUS
<1>1. SUFFICES ASSUME probe \in EndpointNames
               PROVE  EndpointInv' /\ (Done' => EndpointResults')
    <2>1. probe' = probe
        BY OneProbeRuns
    <2>2. CASE probe \in EndpointNames
        BY <2>1, <2>2, RunningShares, PTL
    <2>3. CASE probe \notin EndpointNames
        BY <2>1, <2>3 DEF EndpointInv, EndpointResults, FairShare, EvidenceIsKept, EndpointDone
    <2>. QED
        BY <2>2, <2>3
<1>2. CASE ContextEnds
    <2>1. /\ UNCHANGED <<probe, world, pc, clock, work, result>> /\ ~Done /\ ctx' \in Contexts
          /\ ctx' # "live"
        BY <1>2 DEF ContextEnds, Contexts
    <2>2. Waiting => WaitsInTurn'
        BY <1>1, <2>1 DEF EndpointInv, WaitsInTurn, TimeBound, Share, Candidates, TellsOfFirst
    <2>. QED
        BY <1>1, <2>1, <2>2 DEF EndpointInv, Waiting, Done, Limit
<1>3. CASE EndpointBegins
    BY <1>1, <1>3, BeginsKeeps
<1>4. CASE EndpointWaits
    BY <1>1, <1>4, WaitsKeeps
<1>5. CASE EndpointDials
    <2>1. Waiting /\ pc = "dialing"
        BY <1>5 DEF EndpointDials, Waiting
    <2>2. CASE Accepts
        BY <1>1, <2>1, <2>2, AcceptsKeeps
    <2>3. CASE \E error \in DialErrors :
                  /\ DialFails(error) /\ (error = "refused" => Host.dial = "refuses")
                  /\ ctx = "live" /\ error = "timed_out" => Over
        BY <1>1, <2>1, <2>3, DialFailsKeeps
    <2>. QED
        BY <1>5, <2>2, <2>3 DEF EndpointDials, DialErrors
<1>6. CASE EndpointReply /\ probe # "tcp"
    <2>1. Waiting /\ Host.reply \in AllReplies /\ Host.reply # "timed_out"
        BY <1>1, <1>6, HostIsCandidate
           DEF EndpointReply, Waiting, AllReplies, SshReplies, RdpReplies, SmbReplies, TlsReplies,
               HttpReplies
    <2>2. \E reply \in AllReplies \cup {"timed_out", "interrupted"} :
             /\ Settle(Reply(reply), reply)
             /\ ctx = "live" /\ reply = "timed_out" => Over
        BY <1>6, <2>1 DEF EndpointReply, TimesOut
    <2>. QED
        BY <1>1, <1>6, <2>1, <2>2, ReplyKeeps
<1>7. CASE EndpointRedirect /\ probe = "http"
    BY <1>1, <1>7, RedirectKeeps
<1>. QED
    BY <1>1, <1>2, <1>3, <1>4, <1>5, <1>6, <1>7, OneProbeRuns
       DEF EndpointNext, TcpRun, SshRun, RdpRun, SmbRun, TlsRun, HttpRun

\* So it is when it begins.
LEMMA EndpointStarts == Init => EndpointInv /\ EndpointResults
<1>1. SUFFICES ASSUME Init, probe \in EndpointNames
               PROVE  EndpointInv /\ EndpointResults
    BY DEF EndpointInv, EndpointResults, FairShare, EvidenceIsKept, EndpointDone
<1>2. EndpointInit
    BY <1>1 DEF Init, DnsInit, ServiceInit, PathInit, ProxyInit, EnterpriseInit, Begins, EndpointNames,
                ListProbes
<1>3. /\ world \in EndpointWorlds(probe) /\ work = EndpointWork /\ pc = "start" /\ clock = 0
      /\ ctx \in Contexts /\ Timeout \in Nat
    BY <1>2, EndpointAssumption DEF EndpointInit, Begins, Contexts
<1>4. /\ work = [field \in EndpointFields |-> work[field]] /\ work.attempts = <<>>
    BY <1>3 DEF EndpointWork, EndpointFields
<1>5. EndpointInv
    <2>1. Limit \in Nat
        <3>1. Timeout \in Nat /\ 2 * Timeout \in Nat
            BY <1>3
        <3>. QED
            BY <3>1, Zenon DEF Limit
    <2>. QED
        <3>1. work.attempts \in Seq(Tries) /\ TimedOutInTime
            <4>1. work.attempts = <<>>
                BY <1>4
            <4>2. work.attempts \in Seq(Tries) /\ Len(work.attempts) = 0
                BY <4>1
            <4>. QED
                BY <4>2 DEF TimedOutInTime
        <3>2. ~Waiting /\ clock \in Nat /\ clock <= Limit
            BY <1>3, <2>1 DEF Waiting
        <3>. QED
            BY <1>3, <1>4, <3>1, <3>2 DEF EndpointInv
<1>6. ~Done
    BY <1>3 DEF Done
<1>. QED
    BY <1>5, <1>6, RunningShares

-----------------------------------------------------------------------------
(* What holds of all probes.                                                *)

\* TimeIsShared: an attempt that times out while the caller waits has had its whole
\* share and no run exceeds its time (the candidates of tcp, ssh and rdp, the
\* second timeout of smb); both lanes of dns_service ask every server all of their
\* attempts; and a lane of a path runs out of time at its last ttl only.
THEOREM TimeIsAlwaysShared == Spec => []TimeIsShared
<1>. DEFINE Inv == /\ EndpointInv /\ EndpointResults
                   /\ ServiceInv /\ ServiceTimeInv
                   /\ PathInv
<1>1. Init => Inv
    BY EndpointStarts, ServiceStarts, ServiceTimeStarts, PathStarts
<1>2. Inv /\ [Next]_runVars => Inv'
    <2>1. ASSUME Inv, UNCHANGED runVars
          PROVE  Inv'
        <3>1. EndpointInv' /\ EndpointResults'
            BY <2>1 DEF runVars, EndpointInv, EndpointResults, FairShare, EvidenceIsKept, EndpointDone,
                        Done, Waiting, WaitsInTurn, TimeBound, Share, Candidates, Limit, TellsOfFirst,
                        TimedOutInTime
        <3>2. ServiceInv' /\ ServiceTimeInv'
            BY <2>1 DEF runVars, ServiceInv, ServiceTimeInv, LaneInTime, Lane, AskedAll, Addressed,
                        AttemptsLeft, HostCount, LaneEnd, LaneBudget, AttemptBudget, Attempts, Done
        <3>3. PathInv'
            BY <2>1 DEF runVars, PathInv
        <3>. QED
            BY <3>1, <3>2, <3>3
    <2>. QED
        BY <2>1, EndpointStep, ServiceStep, ServiceTimeStep, PathStep
<1>3. Inv => TimeIsShared
    BY LanesAreInTime, PathTimeIsShared DEF TimeIsShared, EndpointResults
<1>. QED
    BY <1>1, <1>2, <1>3, PTL DEF Spec

\* AnswersAreKept: a result says of the candidate that it names what happened there,
\* and no candidate or protocol that answered is hidden behind the failure of another.
THEOREM AnswersAreAlwaysKept == Spec => []AnswersAreKept
<1>. DEFINE Inv == EndpointInv /\ EndpointResults /\ PathInv /\ PathIsKept
<1>1. Init => Inv
    BY EndpointStarts, PathStarts
<1>2. Inv /\ [Next]_runVars => Inv'
    <2>1. ASSUME Inv, UNCHANGED runVars
          PROVE  Inv'
        <3>1. EndpointInv' /\ EndpointResults'
            BY <2>1 DEF runVars, EndpointInv, EndpointResults, FairShare, EvidenceIsKept, EndpointDone,
                        Done, Waiting, WaitsInTurn, TimeBound, Share, Candidates, Limit, TellsOfFirst,
                        TimedOutInTime
        <3>2. PathInv' /\ PathIsKept'
            BY <2>1 DEF runVars, PathInv, PathIsKept, PathRan, Observed, Done
        <3>. QED
            BY <3>1, <3>2
    <2>. QED
        BY <2>1, EndpointStep, PathStep, PathVerdictStep
<1>3. Inv => AnswersAreKept
    BY DEF AnswersAreKept, EndpointResults
<1>. QED
    BY <1>1, <1>2, <1>3, PTL DEF Spec
=============================================================================
