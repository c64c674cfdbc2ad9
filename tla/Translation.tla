----------------------------- MODULE Translation -----------------------------
(***************************************************************************)
(* The two translation pipelines end to end: what the Gateway reconciler   *)
(* and the dedicated Ingress reconciler compute between reading their      *)
(* inputs and writing the DolphinEnvoyConfig.  The system takes one input  *)
(* and translates it; a Gateway reconcile updates the statuses of the      *)
(* BackendTLSPolicies in between, and starts again when that fails or      *)
(* when it is asked to.  The properties compare the configuration with     *)
(* what the routes and rules of the input say of each request.             *)
(***************************************************************************)
EXTENDS ListenerAttachment, IngressIngestion, BackendTLSPolicy

CONSTANTS GatewayInputs,   \* clusters, as the Gateway reconciler reads them
          IngressInputs,   \* [ingress, enforceHTTPs, passthrough]
          PolicyInputs,    \* [gateway, policies, authz, services]
          Requests         \* the requests the properties look at

ASSUME PolicyInputsAssumption ==
    \A i \in PolicyInputs : Admitted(i.policies)

VARIABLES input,    \* <<"gateway" or "ingress", the input>>
          model,    \* <<>> before the ingestion, then <<model>>
          output    \* <<>> before the translation, then <<result>>

vars == <<input, model, output, policyVars>>

\* The listeners and routes that reach the ingestion.
Gathered == IngestionInput(input[2])

Init ==
    /\ \/ /\ input \in ({"gateway"} \X GatewayInputs) \cup ({"ingress"} \X IngressInputs)
          /\ PolicyInit(<<>>, FALSE, {}, {})
       \/ \E i \in PolicyInputs :
             /\ input = <<"gateway", i.gateway>>
             /\ PolicyInit(i.policies, IngestionInput(i.gateway).http # <<>>, i.authz, i.services)
    /\ model = <<>> /\ output = <<>>

IngestGateway ==
    /\ input[1] = "gateway" /\ model = <<>>
    /\ model' = <<GatewayAPI(Gathered)>>
    /\ UNCHANGED <<input, output, policyVars>>

IngestIngress ==
    /\ input[1] = "ingress" /\ model = <<>>
    /\ model' = <<IF input[2].passthrough
                  THEN [HTTP |-> <<>>, TLS |-> IngressPassthrough(input[2].ingress),
                        TCP |-> <<>>, UDP |-> <<>>]
                  ELSE [HTTP |-> Ingress(input[2].ingress),
                        TLS |-> <<>>, TCP |-> <<>>, UDP |-> <<>>]>>
    /\ UNCHANGED <<input, output, policyVars>>

\* setBackendTLSPolicyStatuses runs between ingestion and translation.
SetBackendTLSPolicyStatuses ==
    /\ input[1] = "gateway" /\ model # <<>>
    /\ SetPolicyStatuses
    /\ UNCHANGED <<input, model, output>>

TranslateModel ==
    /\ model # <<>> /\ output = <<>>
    /\ input[1] = "gateway" => pass.pc = "done"
    /\ output' = <<IF input[1] = "gateway" THEN TranslateGateway(model[1])
                   ELSE TranslateDedicated(model[1], input[2].enforceHTTPs)>>
    /\ UNCHANGED <<input, model, policyVars>>

\* A failed reconcile is retried; other events start one after a success.
ReconcileAgain ==
    /\ DOMAIN policies # {} /\ pass.n < MaxPasses
    /\ pass.pc = "failed" \/ output # <<>>
    /\ PassEnds
    /\ model' = <<>> /\ output' = <<>> /\ UNCHANGED input

Cluster == (SyncPolicy \/ ChangeService) /\ UNCHANGED <<input, model, output>>

Next ==
    \/ IngestGateway \/ IngestIngress \/ SetBackendTLSPolicyStatuses \/ TranslateModel
    \/ ReconcileAgain \/ Cluster

Spec == Init /\ [][Next]_vars

-----------------------------------------------------------------------------
HasConfig == output # <<>> /\ ~output[1].error /\ output[1].config # <<>>
Config    == output[1].config[1]
RouteSets == {c \in {Config.insecure, Config.secure} : c # <<>>}
EnvoyRoutes == UNION {UNION {ToSet(c[1][h]) : h \in DOMAIN c[1]} : c \in RouteSets}
ClusterNames(route) ==
    IF route.action.kind # "forward" THEN {}
    ELSE {x.cluster : x \in ToSet(route.action.clusters)} \cup route.action.mirrors

\* Every cluster that a route, a mirror, a passthrough chain or a TCP listener
\* names is among the clusters of the configuration, and its Service is among
\* the backend services the agent is told to sync: getClusters and
\* getBackendServices collect their names apart from the code that uses them.
ClustersComplete ==
    HasConfig =>
      LET used == UNION {ClusterNames(r) : r \in EnvoyRoutes}
                  \cup {c.target[2] : c \in {x \in Config.chains : x.target[1] = "passthrough"}}
                  \cup {t.cluster : t \in ToSet(Config.tcp)}
      IN  /\ used \subseteq {c.name : c \in Config.clusters}
          /\ used \subseteq Config.backendServices
          /\ \A r \in EnvoyRoutes : \A c \in ClusterNames(r), k \in Config.clusters :
                k.name = c => k.type = "http"

\* A virtual host never holds the nil route that envoyHTTPRouteNoBackend
\* returns for a route with neither backends nor a direct response.
NoNilRoute == HasConfig => \A r \in EnvoyRoutes : r.action.kind # "nil"

\* The matches of the attached HTTPRoutes for the listeners of one port class,
\* read off the input: [host, match, id, backends, rule].
Candidates(in, port) ==
    LET of(l, r, i) ==
          LET rule == r.rules[i]
              ms   == IF rule.matches = <<>> THEN <<NoMatch>> ELSE rule.matches
          IN  {[host |-> h, match |-> m, id |-> <<r, i>>,
                backends |-> toBackends(rule.refs, r.ns, "HttpRoute", in), rule |-> rule] :
                  h \in ToSet(MatchedHosts(l, r)), m \in ToSet(ms)}
        web == {l \in ToSet(in.listeners) : l.protocol \in {"HTTP", "HTTPS", "TLS"} /\ PortOf(l) = port}
    IN  UNION {UNION {UNION {of(l, r, i) : i \in DOMAIN r.rules} :
                  r \in {x \in ToSet(in.http) : HTTPAttached(l, x)}} : l \in web}

RefMatches(m, q) ==
    LET t == TrimSlash(m.path.value)
    IN  /\ CASE m.path.kind = "none" -> TRUE
             [] m.path.kind = "exact" -> q.path = m.path.value
             [] m.path.kind = "prefix" -> Len(q.path) >= Len(t) /\ SubSeq(q.path, 1, Len(t)) = t
             [] m.path.kind = "regex" -> PathMatches([kind |-> "regex", value |-> m.path.value], q.path)
        /\ m.headers \subseteq q.headers /\ m.query \subseteq q.query

RefSpecificity(m) ==
    LET len(k) == IF m.path.kind = k THEN PathLen(TrimSlash(m.path.value)) ELSE 0
    IN  <<IF m.path.kind = "exact" THEN PathLen(m.path.value) ELSE 0, len("regex"), len("prefix"),
          Cardinality(m.headers), Cardinality(m.query)>>

\* The candidates of the most specific host of a request, then those of its
\* most specific matches.
Fitting(cands, q) ==
    LET hosts == {c.host : c \in {x \in cands : HostMatches(q.host, x.host)}}
        best  == IF q.host \in hosts THEN {q.host}
                 ELSE {h \in hosts : \A g \in hosts : Len(h) >= Len(g)}
    IN  {c \in cands : c.host \in best /\ RefMatches(c.match, q)}

Top(fit) ==
    {c \in fit : \A d \in fit : ~Larger(RefSpecificity(d.match), RefSpecificity(c.match))}

ServedBy(port, q) == Serve(IF port = "secure" THEN Config.secure ELSE Config.insecure, q)

\* Envoy's choice (longest host, first route of the sorted list) serves every
\* request with a match of the most specific host that has one, and only with
\* the backends of a most specific match, however the rules are spread over
\* listeners, routes, duplicated hosts and merged match keys.  Methods, which the
\* ingestion drops from HTTP matches (ingestion/gateway.go:770), are left out.
MostSpecificServes ==
    HasConfig /\ input[1] = "gateway" /\ Gathered.grpc = <<>> =>
      \A port \in {"insecure", "secure"} :
        LET cands == Candidates(Gathered, port)
        IN  \A q \in Requests :
              LET top == Top(Fitting(cands, q))
                  s   == ServedBy(port, q)
              IN  /\ s = <<>> <=> top = {}
                  /\ s # <<>> =>
                       CASE s[1].action.kind = "forward" ->
                              \A x \in ToSet(s[1].action.clusters) :
                                 \E c \in top : x.cluster \in {ClusterOf(b) : b \in ToSet(c.backends)}
                         [] s[1].action.kind = "direct" -> \E c \in top : c.backends = <<>>
                         [] s[1].action.kind = "redirect" -> \E c \in top : c.rule.redirect # <<>>

\* Every cluster an HTTP request is forwarded to is a backend of an HTTPRoute
\* with a parentRef that names the Gateway, or a ListenerSet merged into it,
\* and that fits one of this parent's listeners in section, port and namespace
\* policy.  The ingestion no longer looks at the name of a Gateway, at ports
\* or at policies: the selection of the routes before it has to.
OnlyAdmittedRoutes ==
    HasConfig /\ input[1] = "gateway" =>
      LET admits(l, r) ==
            /\ \E p \in ToSet(r.parents) : /\ p.kind = l.source.kind /\ Key(p) = Key(l.source)
                                           /\ p.section = "" \/ p.section = l.name
                                           /\ p.port = 0 \/ p.port = l.port
            /\ CASE l.allow.from = "All" -> TRUE
                 [] l.allow.from = "Selector" -> r.ns \in l.allow.selected
                 [] OTHER -> r.ns = l.source.ns
          fit == {r \in ToSet(input[2].http) : \E l \in ToSet(Gathered.listeners) : admits(l, r)}
          backends(r) == UNION {{ClusterOf(b) : b \in ToSet(r.rules[i].refs)} : i \in DOMAIN r.rules}
      IN  \A x \in {y \in EnvoyRoutes : y.action.kind = "forward"} :
            \A w \in ToSet(x.action.clusters) :
              \E r \in fit \cup ToSet(Gathered.grpc) : w.cluster \in backends(r)

WeightOf(cluster, xs, clusterOf(_), weightOf(_)) ==
    FoldSeq(LAMBDA x, n : n + (IF clusterOf(x) = cluster THEN weightOf(x) ELSE 0), 0, xs)

TotalWeight(xs, weightOf(_)) == FoldSeq(LAMBDA x, n : n + weightOf(x), 0, xs)

\* The traffic of a request whose most specific matches all belong to one rule
\* is split among the backends in the ratio of that rule's weights, however
\* often duplicated hosts and several listeners copied the rule.
SplitPreserved ==
    HasConfig /\ input[1] = "gateway" /\ Gathered.grpc = <<>> =>
      \A port \in {"insecure", "secure"} :
        LET cands == Candidates(Gathered, port)
        IN  \A q \in Requests :
              LET top == Top(Fitting(cands, q))
                  s   == ServedBy(port, q)
              IN  (/\ s # <<>> /\ s[1].action.kind = "forward"
                   /\ Cardinality({c.id : c \in top}) = 1) =>
                    LET want == (CHOOSE c \in top : TRUE).backends
                        got  == s[1].action.clusters
                        given(b) == IF b.weight = <<>> THEN 1 ELSE b.weight[1]
                        tw   == TotalWeight(want, given)
                        tg   == TotalWeight(got, LAMBDA x : x.weight)
                    IN  tw > 0 => \A b \in ToSet(want) :
                          WeightOf(ClusterOf(b), got, LAMBDA x : x.cluster, LAMBDA x : x.weight) * tw
                            = WeightOf(ClusterOf(b), want, ClusterOf, given) * tg

\* The path Envoy sends upstream; PrefixRewrite and the regex of the "strip"
\* form are only defined here for path-separated prefix matches.
Rewritten(route, p) ==
    LET rw   == route.action.rewrite
        rest == SubSeq(p, Len(route.match.value) + 1, Len(p))
    IN  CASE rw.kind = "none" -> p
          [] rw.kind = "full" -> rw.value
          [] rw.kind = "prefix" -> rw.value \o rest
          [] rw.kind = "strip" -> IF Last(rw.value) = "" /\ rest = <<>> THEN p
                                  ELSE IF rest = <<>> THEN <<"">> ELSE rest

\* Replacing a prefix other than "/" keeps the rest of the path, segment by
\* segment, and an empty result becomes "/".  (A prefix ending in "/" and a
\* request without it is the one exception: the regex does not match.)
RewriteKeepsRest ==
    HasConfig /\ input[1] = "gateway" /\ Gathered.grpc = <<>> =>
      \A port \in {"insecure", "secure"}, q \in Requests :
        LET s    == ServedBy(port, q)
            top  == Top(Fitting(Candidates(Gathered, port), q))
            c    == CHOOSE c \in top : TRUE
            t    == TrimSlash(c.match.path.value)
            new  == TrimSlash(c.rule.rewrite[1].prefix)
            want == new \o SubSeq(q.path, Len(t) + 1, Len(q.path))
        IN  (/\ s # <<>> /\ s[1].action.kind = "forward"
             /\ Cardinality(top) = 1 /\ c.rule.rewrite # <<>> /\ c.match.path.kind = "prefix"
             /\ c.match.path.value # <<"">> /\ c.rule.rewrite[1].exact = <<>>
             /\ (Last(c.match.path.value) = "" => q.path # t))
            => Rewritten(s[1], q.path) = IF want = <<>> THEN <<"">> ELSE want

\* A passthrough chain names exactly the hosts that attached TLSRoutes with
\* its backend serve on some listener, or no name when that is any host, although
\* the ingestion loop over the routes is nested in itself and the chains are
\* collected across listeners.
PassthroughFaithful ==
    HasConfig /\ input[1] = "gateway" =>
      LET in    == Gathered
          web   == {l \in ToSet(in.listeners) : l.protocol \in {"HTTP", "HTTPS", "TLS"}}
          pairs == {lr \in web \X ToSet(in.tls) : SectionAttached(lr[1], lr[2])
                                                  /\ MatchedHosts(lr[1], lr[2]) # <<>>}
          uses(r, c) == \E i \in DOMAIN r.rules :
                          \E b \in ToSet(toBackends(r.rules[i].refs, r.ns, "TLSRoute", in)) : ClusterOf(b) = c
          hosts(c)   == UNION {ToSet(MatchedHosts(lr[1], lr[2])) : lr \in {x \in pairs : uses(x[2], c)}}
          chains     == {x \in Config.chains : x.target[1] = "passthrough"}
      IN  /\ {x.target[2] : x \in chains} = {c \in Config.backendServices :
                                                \E lr \in pairs : uses(lr[2], c)}
          /\ \A x \in chains : x.names = IF hosts(x.target[2]) = {AnyHost} THEN {} ELSE hosts(x.target[2])

\* The generated resources are owned by the Gateway, except when all of the
\* Gateway's own listeners come after a ListenerSet's in the order HTTP, TLS,
\* TCP, UDP in which Translate looks for the first source.
OwnerIsGateway ==
    output # <<>> /\ ~output[1].error /\ input[1] = "gateway" =>
      LET ls      == ToSet(Gathered.listeners)
          rank(l) == CASE l.protocol = "TCP" -> 1 [] l.protocol = "UDP" -> 2 [] OTHER -> 0
          mine    == {l \in ls : l.source.kind = "Gateway"}
      IN  output[1].owner.kind # "Gateway" =>
            \E l \in ls \ mine : \A g \in mine : rank(l) < rank(g)

\* The rules of an Ingress for the most specific of its hosts: a wildcard
\* covers one label, and a hostless rule or the default backend every host.
IngressHost(routes, q) ==
    LET fit == {h \in DOMAIN routes : HostMatches(q.host, h)}
    IN  IF q.host \in fit THEN {q.host}
        ELSE {h \in fit : (\A g \in fit : Len(h) >= Len(g)) /\ (h = AnyHost \/ Len(h) = Len(q.host))}

\* Over plain HTTP a host is served by the most specific path of its own rules
\* and by nothing else; over HTTPS a host of a TLS entry likewise, when there
\* is no default listener and HTTPS is not enforced.
IngressHostServed ==
    HasConfig /\ input[1] = "ingress" /\ ~input[2].passthrough =>
      LET ing    == input[2].ingress
          routes == InsecureRoutes(ing)
          tls    == UNION {ToSet(e.hosts) : e \in ToSet(ing.tls)}
          expect(q) ==
            LET fit == UNION {{r \in ToSet(routes[h]) : RefMatches(r, q)} : h \in IngressHost(routes, q)}
            IN  {r \in fit : \A d \in fit : ~Larger(RefSpecificity(d), RefSpecificity(r))}
          right(s, q) == IF s = <<>> THEN expect(q) = {}
                         ELSE \A x \in ToSet(s[1].action.clusters) :
                                \E r \in expect(q) : x.cluster = ClusterOf(r.backends[1])
      IN  \A q \in Requests :
            /\ (~input[2].enforceHTTPs /\ (tls = {} \/ \A e \in ToSet(ing.tls) : Certificate(ing, e) # <<>>))
                 => right(ServedBy("insecure", q), q)
            /\ (AnyHost \notin DOMAIN routes /\ q.host \in tls \cap DOMAIN routes
                  /\ \A e \in ToSet(ing.tls) : Certificate(ing, e) # <<>>)
                 => right(ServedBy("secure", q), q)

\* With enforced HTTPS, no plain request for a host that has a certificate and
\* routes of its own is forwarded to a backend.
HTTPSEnforced ==
    HasConfig /\ input[1] = "ingress" /\ ~input[2].passthrough /\ input[2].enforceHTTPs =>
      LET ing   == input[2].ingress
          hosts == UNION {ToSet(e.hosts) : e \in {x \in ToSet(ing.tls) : Certificate(ing, x) # <<>>}}
      IN  \A q \in Requests :
            q.host \in hosts =>
              LET s == ServedBy("insecure", q)
              IN  s # <<>> => s[1].action.kind = "redirect"
=============================================================================
