--------------------------- MODULE EnvoyTranslator ---------------------------
(***************************************************************************)
(* The translation of the operator's neutral model of listeners and routes *)
(* (pkg/model) into the resources of a DolphinEnvoyConfig                  *)
(* (pkg/model/translation), shared by the Gateway API and the Ingress      *)
(* controllers, and the part of Envoy that gives those resources their     *)
(* meaning.  Everything here is a pure function of the model.              *)
(*                                                                         *)
(*   hostname   a sequence of labels; "*" is <<"*">>, nil is <<>>          *)
(*   path       the sequence of its segments; "/" is <<"">>, "/a/" is      *)
(*              <<"a", "">> and the empty string is <<>>                   *)
(*   pointer    <<>> when nil, <<v>> otherwise                             *)
(*   backend    [ns, name, port, weight], weight <<>> when unset           *)
(*   route      [hosts, path, headers, query, backends, direct, redirect,  *)
(*              rewrite, mirrors]                                          *)
(*   listener   [name, source, port, host, tls, routes]                    *)
(*   model      [HTTP, TLS, TCP, UDP], sequences of listeners              *)
(*                                                                         *)
(* Header and query matchers are opaque members of a set.  Header filters, *)
(* timeouts, socket options and the protobuf encoding are left out.        *)
(***************************************************************************)
EXTENDS Integers, Sequences, FiniteSets, SequencesExt

CONSTANT HostOrder   \* every hostname, in the order sort.Strings gives them

ASSUME HostOrderAssumption == IsInjective(HostOrder)

AnyHost == <<"*">>

SortHosts(s) ==
    SortSeq(s, LAMBDA a, b : SelectInSeq(HostOrder, LAMBDA h : h = a)
                               < SelectInSeq(HostOrder, LAMBDA h : h = b))

hostnameMatchesWildcardHostname(h, w) ==
    /\ Len(h) >= Len(w)
    /\ SubSeq(h, Len(h) - Len(w) + 2, Len(h)) = Tail(w)

\* The hostnames a route serves on a listener; duplicates are kept.
ComputeHosts(routeHosts, listenerHost) ==
    LET hosts(r) ==
          CASE listenerHost \in {<<>>, r} -> <<r>>
            [] listenerHost \notin {<<>>, r} /\ Head(listenerHost) = "*" ->
                 IF hostnameMatchesWildcardHostname(r, listenerHost) THEN <<r>> ELSE <<>>
            [] OTHER ->
                 IF Head(r) = "*" /\ hostnameMatchesWildcardHostname(listenerHost, r)
                 THEN <<listenerHost>> ELSE <<>>
    IN  IF routeHosts = <<>>
        THEN IF listenerHost = <<>> THEN <<AnyHost>> ELSE <<listenerHost>>
        ELSE SortHosts(FlattenSeq([i \in DOMAIN routeHosts |-> hosts(routeHosts[i])]))

TrimSlash(p) == IF p # <<>> /\ Last(p) = "" THEN Front(p) ELSE p

SegmentLen(s) == CASE s = "" -> 0 [] s = ".*" -> 2 [] OTHER -> 1

PathLen(p) == FoldSeq(LAMBDA s, n : n + 1 + SegmentLen(s), 0, p)

ClusterOf(b) == <<b.ns, b.name, b.port>>

GetMatchKey(r) == <<r.path, r.headers, r.query>>

\* Mutant: a wildcard covers any number of labels.
NoAuthorityMatchers(host, suffixMatch) == {}

\* The :authority matchers that keep a wildcard to one label (Ingress only).
AuthorityMatchers(host, suffixMatch) ==
    IF ~suffixMatch /\ host # AnyHost /\ Head(host) = "*" THEN {host} ELSE {}

getRouteMatch(r, host, suffixMatch) ==
    LET spec == CASE r.path.kind = "exact" -> <<"path", r.path.value>>
                  [] r.path.kind = "prefix" /\ r.path.value # <<"">> ->
                       <<"separatedPrefix", TrimSlash(r.path.value)>>
                  [] r.path.kind = "regex" -> <<"regex", r.path.value>>
                  [] OTHER -> <<"prefix", <<"">>>>
    IN  [kind |-> spec[1], value |-> spec[2], headers |-> r.headers,
         query |-> r.query, authority |-> AuthorityMatchers(host, suffixMatch)]

\* Mutant: the number of headers is compared before the path.
HeadersFirst(m) ==
    <<Cardinality(m.headers), IF m.kind = "path" THEN PathLen(m.value) ELSE 0,
      IF m.kind # "path" THEN PathLen(m.value) ELSE 0, Cardinality(m.query), 0>>

\* What SortableRoute.Less compares, in its order; more specific is larger.
Specificity(m) ==
    LET len(kinds) == IF m.kind \in kinds THEN PathLen(m.value) ELSE 0
    IN  <<len({"path"}), len({"regex"}), len({"separatedPrefix", "prefix"}),
          Cardinality(m.headers) + Cardinality(m.authority), Cardinality(m.query)>>

Larger(s, t) == \E i \in DOMAIN s : s[i] > t[i] /\ \A j \in 1..(i-1) : s[j] = t[j]

Less(a, b) == Larger(Specificity(a.match), Specificity(b.match))

\* sort.Stable
StableSort(s) ==
    LET rank(i) == Cardinality({j \in DOMAIN s :
                       \/ Less(s[j], s[i])
                       \/ j <= i /\ ~Less(s[i], s[j])})
    IN  [k \in DOMAIN s |-> s[CHOOSE i \in DOMAIN s : rank(i) = k]]

\* A replacement prefix; "/" or nothing strips the matched prefix.
pathPrefixMutation(r) ==
    IF r.rewrite[1].prefix \in {<<>>, <<"">>}
    THEN [kind |-> "strip", value |-> IF r.path.kind = "prefix" THEN r.path.value ELSE <<>>]
    ELSE [kind |-> "prefix", value |-> r.rewrite[1].prefix]

pathFullReplaceMutation(r) == [kind |-> "full", value |-> r.rewrite[1].exact]

RewriteAction(r) ==
    CASE r.rewrite = <<>> -> [kind |-> "none", value |-> <<>>]
      [] r.rewrite # <<>> /\ r.rewrite[1].exact # <<>> -> pathFullReplaceMutation(r)
      [] OTHER -> pathPrefixMutation(r)

requestMirrorMutation(r) == {ClusterOf(b) : b \in ToSet(r.mirrors)}

\* Mutant: an unset weight counts as zero.
ZeroWeight(b) == IF b.weight = <<>> THEN 0 ELSE b.weight[1]

Weight(b) == IF b.weight = <<>> THEN 1 ELSE b.weight[1]

getRouteAction(r, backends) ==
    [kind     |-> "forward",
     clusters |-> IF Len(backends) = 1
                  THEN <<[cluster |-> ClusterOf(backends[1]), weight |-> 1]>>
                  ELSE [i \in DOMAIN backends |-> [cluster |-> ClusterOf(backends[i]),
                                                   weight  |-> Weight(backends[i])]],
     mirrors  |-> requestMirrorMutation(r),
     rewrite  |-> RewriteAction(r)]

getRouteRedirect(redirect, listenerPort) ==
    [kind |-> "redirect",
     port |-> CASE redirect.port # 0 -> redirect.port
                [] redirect.port = 0 /\ redirect.scheme = "https" -> 443
                [] redirect.port = 0 /\ redirect.scheme = "http" -> 80
                [] OTHER -> listenerPort]

\* A direct response, or the nil route of a route that has none.
envoyHTTPRouteNoBackend(r) ==
    IF r.direct = <<>> THEN [kind |-> "nil"] ELSE [kind |-> "direct", code |-> r.direct[1]]

SameKey(routes, r) == SelectSeq(routes, LAMBDA x : GetMatchKey(x) = GetMatchKey(r))

Backends(routes) == FlattenSeq([i \in DOMAIN routes |-> routes[i].backends])

\* The position is the first one of its match key.
FirstOfKey(routes, i) ==
    \A j \in 1..(i-1) : GetMatchKey(routes[j]) # GetMatchKey(routes[i])

\* One Envoy route per match key with the backends of all its routes, except
\* that a key without backends yields one per route: it is never deleted from
\* matchBackendMap.
envoyHTTPRoutes(routes, host, suffixMatch, listenerPort) ==
    LET group(i)    == SameKey(routes, routes[i])
        bare(i)     == Backends(group(i)) = <<>> /\ group(i)[1].redirect = <<>>
        action(i)   == CASE bare(i) -> envoyHTTPRouteNoBackend(group(i)[1])
                         [] ~bare(i) /\ group(i)[1].redirect # <<>> ->
                              getRouteRedirect(group(i)[1].redirect[1], listenerPort)
                         [] OTHER -> getRouteAction(group(i)[1], Backends(group(i)))
        emit(i)     == IF bare(i) \/ FirstOfKey(routes, i)
                       THEN <<[match |-> getRouteMatch(routes[i], host, suffixMatch),
                               action |-> action(i)]>>
                       ELSE <<>>
    IN  FlattenSeq([i \in DOMAIN routes |-> emit(i)])

\* Redirect to HTTPS; the call passes the query matchers as headers and the
\* header matchers as query parameters.
envoyHTTPSRoutes(routes, host, suffixMatch) ==
    LET swap(r) == [r EXCEPT !.headers = r.query, !.query = r.headers]
        emit(i) == IF FirstOfKey(routes, i)
                   THEN <<[match  |-> getRouteMatch(swap(routes[i]), host, suffixMatch),
                           action |-> [kind |-> "redirect", port |-> 443]]>>
                   ELSE <<>>
    IN  FlattenSeq([i \in DOMAIN routes |-> emit(i)])

\* Mutant: the redirect to HTTPS is forgotten.
NewVirtualHostNoRedirect(routes, host, httpsRedirect, suffixMatch, listenerPort) ==
    StableSort(envoyHTTPRoutes(routes, host, suffixMatch, listenerPort))

NewVirtualHost(routes, host, httpsRedirect, suffixMatch, listenerPort) ==
    StableSort(IF httpsRedirect THEN envoyHTTPSRoutes(routes, host, suffixMatch)
               ELSE envoyHTTPRoutes(routes, host, suffixMatch, listenerPort))

PortOf(l) == IF l.tls = <<>> THEN "insecure" ELSE "secure"

HostsOf(l, r) == IF r.hosts = <<>> THEN <<l.host>> ELSE r.hosts

PortHostName(m, port) ==
    UNION {UNION {ToSet(HostsOf(l, r)) : r \in ToSet(l.routes)} :
              l \in {x \in ToSet(m.HTTP) : PortOf(x) = port}}

\* The routes of a host, in listener and route order, once per occurrence of
\* the host, whatever port the listener has.
HostNamePortRoutes(m, host, port) ==
    LET copies(l, r)  == [k \in 1..Len(SelectSeq(HostsOf(l, r), LAMBDA h : h = host)) |-> r]
        ofListener(l) == IF PortOf(l) # port THEN <<>>
                         ELSE FlattenSeq([j \in DOMAIN l.routes |-> copies(l, l.routes[j])])
    IN  FlattenSeq([i \in DOMAIN m.HTTP |-> ofListener(m.HTTP[i])])

\* The route configuration "listener-<port>": its virtual hosts by hostname
\* inside <<>>, or <<>> when it is not part of the resources.
getEnvoyHTTPRouteConfiguration(m, port, enforceHTTPs, suffixMatch) ==
    LET hosts    == PortHostName(m, port)
        redirect == IF port = "insecure" /\ enforceHTTPs THEN PortHostName(m, "secure") ELSE {}
        vhost(h) == IF h \in redirect
                    THEN NewVirtualHost(HostNamePortRoutes(m, h, "secure"), h, TRUE,
                                        suffixMatch, m.HTTP[1].port)
                    ELSE NewVirtualHost(HostNamePortRoutes(m, h, port), h, FALSE,
                                        suffixMatch, m.HTTP[1].port)
    IN  IF hosts # {} THEN <<[h \in hosts \cup redirect |-> vhost(h)]>>
        ELSE IF port = "insecure" /\ m.HTTP # <<>> THEN << <<>> >> ELSE <<>>

\* Mutant: mirrors get no cluster.
ForwardBackends(r) == ToSet(r.backends)

RouteBackends(r) == ToSet(r.backends) \cup ToSet(r.mirrors)

\* The clusters of some backends, as <<namespace, name, port>>.
mergeBackends(backends) == {ClusterOf(b) : b \in backends}

RoutesOf(listeners) == UNION {ToSet(l.routes) : l \in ToSet(listeners)}

HTTPClusters(m) == UNION {mergeBackends(RouteBackends(r)) : r \in RoutesOf(m.HTTP)}

L4Clusters(m) == UNION {mergeBackends(ToSet(r.backends)) : r \in RoutesOf(m.TLS \o m.TCP)}

getBackendServices(m) == HTTPClusters(m) \cup L4Clusters(m)

\* The hostname getClusters gives every upstream TLS connection: the first of
\* the last route that has one.
UpstreamSNI(m) ==
    LET all   == FlattenSeq([i \in DOMAIN m.HTTP |-> m.HTTP[i].routes])
        named == SelectSeq(all, LAMBDA r : r.hosts # <<>>)
    IN  IF named = <<>> THEN <<>> ELSE Head(Last(named).hosts)

\* For the port 443 only.
WithUpstreamTLS(c, sni) == IF c[3] = 443 THEN <<sni>> ELSE <<>>

NewHTTPCluster(c, sni) == [name |-> c, type |-> "http", sni |-> WithUpstreamTLS(c, sni)]

NewTCPCluster(c) == [name |-> c, type |-> "tcp", sni |-> <<>>]

\* A cluster used for HTTP is an HTTP cluster even if a TLS or TCP route also
\* uses it.
getClusters(m) ==
    {NewHTTPCluster(c, UpstreamSNI(m)) : c \in HTTPClusters(m)}
    \cup {NewTCPCluster(c) : c \in L4Clusters(m) \ HTTPClusters(m)}

getServices(m) ==
    {l.port % 2^16 : l \in {x \in ToSet(m.HTTP) \cup ToSet(m.TLS) \cup ToSet(m.TCP) : x.port # 0}}

toFilterChainMatch(hosts) == IF hosts = {AnyHost} THEN {} ELSE hosts

TLSSecrets(m) ==
    UNION {ToSet(l.tls[1]) : l \in {x \in ToSet(m.HTTP) : x.tls # <<>>}}

tlsSecretsToHostnames(m, s) ==
    {l.host : l \in {x \in ToSet(m.HTTP) : x.tls # <<>> /\ s \in ToSet(x.tls[1])}}

PassthroughClusters(m) == UNION {mergeBackends(ToSet(r.backends)) : r \in RoutesOf(m.TLS)}

tlsPassthroughBackendsToHostnames(m, c) ==
    UNION {UNION {ToSet(r.hosts) : r \in {x \in ToSet(l.routes) :
                       \E b \in ToSet(x.backends) : ClusterOf(b) = c}} : l \in ToSet(m.TLS)}

httpFilterChain == [transport |-> "raw_buffer", names |-> {}, target |-> <<"insecure">>]

\* One chain per secret, for all the hostnames it is used for.
httpsFilterChains(m) ==
    {[transport |-> "tls", names |-> toFilterChainMatch(tlsSecretsToHostnames(m, s)),
      target |-> <<"secure", s>>] : s \in TLSSecrets(m)}

tlsPassthroughFilterChains(m) ==
    {[transport |-> "tls", names |-> toFilterChainMatch(tlsPassthroughBackendsToHostnames(m, c)),
      target |-> <<"passthrough", c>>] : c \in PassthroughClusters(m)}

\* The filter chains of the one listener; no server names match every name.
getListener(m) ==
    (IF m.HTTP = <<>> THEN {} ELSE {httpFilterChain})
    \cup httpsFilterChains(m) \cup tlsPassthroughFilterChains(m)

\* Its first backend takes all the traffic.
NewTCPListener(l, route) == [port |-> l.port, cluster |-> ClusterOf(Head(route.backends))]

\* One raw TCP listener per TCP listener that has a route with backends, for
\* the first of them.
getTCPRouteListeners(m) ==
    LET bound(l) == SelectSeq(l.routes, LAMBDA r : r.backends # <<>>)
        emit(l)  == IF bound(l) = <<>> THEN <<>> ELSE <<NewTCPListener(l, Head(bound(l)))>>
    IN  FlattenSeq([i \in DOMAIN m.TCP |-> emit(m.TCP[i])])

\* defaultTranslator.Translate: the DolphinEnvoyConfig.
Translate(m, enforceHTTPs, suffixMatch) ==
    [backendServices |-> getBackendServices(m),
     ports           |-> getServices(m),
     chains          |-> getListener(m),
     insecure        |-> getEnvoyHTTPRouteConfiguration(m, "insecure", enforceHTTPs, suffixMatch),
     secure          |-> getEnvoyHTTPRouteConfiguration(m, "secure", enforceHTTPs, suffixMatch),
     clusters        |-> getClusters(m),
     tcp             |-> getTCPRouteListeners(m)]

-----------------------------------------------------------------------------
(***************************************************************************)
(* Envoy, as far as the configuration depends on it: the virtual host of a *)
(* request is that of its hostname, else of the longest matching wildcard; *)
(* the first route that matches serves it.  A request is                   *)
(* [host, path, headers, query].                                           *)
(***************************************************************************)
HostMatches(h, pattern) ==
    h = pattern \/ (Head(pattern) = "*" /\ hostnameMatchesWildcardHostname(h, pattern))

\* The key of the virtual host in <<>>, or <<>> when none matches.
VirtualHostOf(vhosts, host) ==
    LET fit == {d \in DOMAIN vhosts : HostMatches(host, d)}
    IN  IF fit = {} THEN <<>>
        ELSE <<IF host \in fit THEN host
               ELSE CHOOSE d \in fit : \A e \in fit : Len(d) >= Len(e)>>

PathMatches(m, p) ==
    LET n == Len(m.value)
    IN  CASE m.kind = "path" -> p = m.value
          [] m.kind = "prefix" -> TRUE
          [] m.kind = "separatedPrefix" -> Len(p) >= n /\ SubSeq(p, 1, n) = m.value
          [] m.kind = "regex" -> IF Last(m.value) = ".*"
                                 THEN Len(p) >= n /\ SubSeq(p, 1, n - 1) = Front(m.value)
                                 ELSE p = m.value

RequestMatches(m, q) ==
    /\ PathMatches(m, q.path)
    /\ m.headers \subseteq q.headers /\ m.query \subseteq q.query
    /\ \A h \in m.authority : Len(q.host) = Len(h)

\* The Envoy route that serves a request in <<>>, or <<>> for a 404.
Serve(config, q) ==
    LET vhosts == IF config = <<>> THEN <<>> ELSE config[1]
        d      == VirtualHostOf(vhosts, q.host)
        fit    == SelectSeq(vhosts[d[1]], LAMBDA r : RequestMatches(r.match, q))
    IN  IF d = <<>> \/ fit = <<>> THEN <<>> ELSE <<Head(fit)>>
=============================================================================
