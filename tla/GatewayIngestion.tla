-------------------------- MODULE GatewayIngestion ---------------------------
(***************************************************************************)
(* How a Gateway, the listeners merged into it and the routes attached to  *)
(* it become the neutral model (ingestion.GatewayAPI), and the model the   *)
(* DolphinEnvoyConfig and the Service of the Gateway (the Gateway API      *)
(* translator).                                                            *)
(*                                                                         *)
(*   listener   [name, port, protocol, host, tls, source]; tls holds the   *)
(*              certificate references [ns, name] of the listener          *)
(*   source     [kind, ns, name]: the Gateway or the ListenerSet           *)
(*   route      [ns, parents, hosts, rules]                                *)
(*   parent     [kind, ns, name, section], section "" when unset           *)
(*   rule       [refs, matches, redirect, rewrite, mirrors]                *)
(*   ref        [kind, ns, name, port, weight], port 0 when unset          *)
(*   input      [gateway, listeners, http, grpc, tls, tcp, udp, services,  *)
(*              grants]                                                    *)
(***************************************************************************)
EXTENDS EnvoyTranslator

\* helpers.isReferenceAllowed; a grant is [ns, fromKind, fromNs, toKind, toName].
isReferenceAllowed(fromNs, ref, fromKind, toKind, grants) ==
    \/ ref.ns = fromNs
    \/ \E g \in grants : /\ g.ns = ref.ns
                         /\ g.fromKind = fromKind /\ g.fromNs = fromNs
                         /\ g.toKind = toKind /\ g.toName \in {"", ref.name}

\* The references of a rule that become backends.
toBackends(refs, ns, routeKind, in) ==
    LET usable(b) == /\ isReferenceAllowed(ns, b, routeKind, "Service", in.grants)
                     /\ b.kind = "Service"
                     /\ b.port # 0
                     /\ <<b.ns, b.name>> \in in.services
        used == SelectSeq(refs, usable)
    IN  [i \in DOMAIN used |-> [ns |-> used[i].ns, name |-> used[i].name,
                                port |-> used[i].port, weight |-> used[i].weight]]

\* The attachment test of GRPC, TLS, TCP and UDP routes.
SectionAttached(l, r) == \E p \in ToSet(r.parents) : p.section \in {"", l.name}

HTTPAttached(l, r) ==
    \E p \in ToSet(r.parents) :
        /\ p.section \in {"", l.name}
        /\ IF l.source.kind = "Gateway" THEN p.kind = "Gateway"
           ELSE p.kind = "ListenerSet" /\ <<p.ns, p.name>> = <<l.source.ns, l.source.name>>

MatchedHosts(l, r) == ComputeHosts(r.hosts, l.host)

\* A route for all hosts carries none: the listener's hostname is used instead.
RouteHosts(l, r) == IF MatchedHosts(l, r) = <<AnyHost>> THEN <<>> ELSE MatchedHosts(l, r)

toHTTPRequestRedirectFilter(l, f) ==
    IF f.port = 0 /\ f.scheme = "" THEN [f EXCEPT !.port = l.port] ELSE f

\* Mutant: the trailing slash of the replacement stays.
RewriteFilterAsIs(f) == f

toHTTPRewriteFilter(f) == [f EXCEPT !.prefix = TrimSlash(f.prefix)]

NoMatch == [path |-> [kind |-> "none", value |-> <<>>], headers |-> {}, query |-> {}]

\* Mutant: only a rule that names no backend gets a direct response.
DirectWithoutRefs(rule, backends) == IF rule.refs = <<>> THEN <<500>> ELSE <<>>

DirectResponse(rule, backends) == IF backends = <<>> THEN <<500>> ELSE <<>>

\* The model routes of one rule: one per match, one for a rule without any.
RuleRoutes(l, r, rule, routeKind, matches, in) ==
    LET backends == toBackends(rule.refs, r.ns, routeKind, in)
        ms       == IF matches = <<>> THEN <<NoMatch>> ELSE matches
    IN  [i \in DOMAIN ms |->
          [hosts    |-> RouteHosts(l, r),
           path     |-> ms[i].path, headers |-> ms[i].headers, query |-> ms[i].query,
           backends |-> backends,
           direct   |-> DirectResponse(rule, backends),
           redirect |-> [j \in DOMAIN rule.redirect |->
                            toHTTPRequestRedirectFilter(l, rule.redirect[j])],
           rewrite  |-> [j \in DOMAIN rule.rewrite |-> toHTTPRewriteFilter(rule.rewrite[j])],
           mirrors  |-> rule.mirrors]]

\* The method of an HTTP match is not taken over, so matches have none here.
toHTTPRoutes(l, in) ==
    LET rules(r) == IF HTTPAttached(l, r) /\ MatchedHosts(l, r) # <<>>
                    THEN FlattenSeq([i \in DOMAIN r.rules |->
                           RuleRoutes(l, r, r.rules[i], "HttpRoute", r.rules[i].matches, in)])
                    ELSE <<>>
    IN  FlattenSeq([i \in DOMAIN in.http |-> rules(in.http[i])])

\* A GRPC match is [service, method, type, headers], "" for an unset name.
toGRPCPathMatch(m) ==
    [kind  |-> IF m.service = "" THEN "none" ELSE m.type,
     value |-> IF m.service = "" THEN <<>>
               ELSE <<m.service>> \o (IF m.method = "" THEN <<>> ELSE <<m.method>>)]

toGRPCRoutes(l, in) ==
    LET match(m) == [path |-> toGRPCPathMatch(m), headers |-> m.headers, query |-> {}]
        rules(r) == IF SectionAttached(l, r) /\ MatchedHosts(l, r) # <<>>
                    THEN FlattenSeq([i \in DOMAIN r.rules |->
                           RuleRoutes(l, r, [redirect |-> <<>>, rewrite |-> <<>>] @@ r.rules[i],
                                      "GrpcRoute",
                                      [k \in DOMAIN r.rules[i].matches |-> match(r.rules[i].matches[k])],
                                      in)])
                    ELSE <<>>
    IN  FlattenSeq([i \in DOMAIN in.grpc |-> rules(in.grpc[i])])

\* Mutant: the inner loop takes the hosts of the outer route.
TLSRoutesOuterHosts(l, in) ==
    LET attached == SelectSeq(in.tls, LAMBDA r : SectionAttached(l, r) /\ MatchedHosts(l, r) # <<>>)
        rules(o, r) == [i \in DOMAIN r.rules |->
                          [hosts    |-> RouteHosts(l, o),
                           backends |-> toBackends(r.rules[i].refs, r.ns, "TLSRoute", in)]]
        all(o)   == FlattenSeq([i \in DOMAIN attached |-> rules(o, attached[i])])
    IN  FlattenSeq([i \in DOMAIN attached |-> all(attached[i])])

\* One TLS route per rule of every attached route, repeated for every rule of
\* every attached route: the loop over the routes is nested in itself.
toTLSRoutes(l, in) ==
    LET attached == SelectSeq(in.tls, LAMBDA r : SectionAttached(l, r) /\ MatchedHosts(l, r) # <<>>)
        rules(r) == [i \in DOMAIN r.rules |->
                       [hosts    |-> RouteHosts(l, r),
                        backends |-> toBackends(r.rules[i].refs, r.ns, "TLSRoute", in)]]
        all      == FlattenSeq([i \in DOMAIN attached |-> rules(attached[i])])
    IN  FlattenSeq([i \in DOMAIN all |-> all])

\* Whatever Gateway a parent names: only its section is looked at.
toL4Routes(l, routes, routeKind, in) ==
    LET rules(r) == IF SectionAttached(l, r)
                    THEN [i \in DOMAIN r.rules |->
                            [backends |-> toBackends(r.rules[i].refs, r.ns, routeKind, in)]]
                    ELSE <<>>
    IN  FlattenSeq([i \in DOMAIN routes |-> rules(routes[i])])

toTCPRoutes(l, in) == toL4Routes(l, in.tcp, "TCPRoute", in)
toUDPRoutes(l, in) == toL4Routes(l, in.udp, "UDPRoute", in)

\* nil without a TLS section; else the references allowed by the grants, the
\* listener's namespace being that of the Gateway.
toTLS(l, in) ==
    [j \in DOMAIN l.tls |->
        SelectSeq(l.tls[j], LAMBDA c : isReferenceAllowed(in.gateway.ns, c, "Gateway", "Secret", in.grants))]

toHostname(host) == IF host = <<>> THEN AnyHost ELSE host

ModelListener(l, routes) ==
    [name |-> l.name, source |-> l.source, port |-> l.port, routes |-> routes]

\* ingestion.GatewayAPI.
GatewayAPI(in) ==
    LET of(protocols) == SelectSeq(in.listeners, LAMBDA l : l.protocol \in protocols)
        web == of({"HTTP", "HTTPS", "TLS"})
        tcp == of({"TCP"})
        udp == of({"UDP"})
    IN  [HTTP |-> [i \in DOMAIN web |->
                     ModelListener(web[i], toHTTPRoutes(web[i], in) \o toGRPCRoutes(web[i], in))
                       @@ [host |-> toHostname(web[i].host), tls |-> toTLS(web[i], in)]],
         TLS  |-> [i \in DOMAIN web |->
                     ModelListener(web[i], toTLSRoutes(web[i], in))
                       @@ [host |-> toHostname(web[i].host)]],
         TCP  |-> [i \in DOMAIN tcp |->
                     ModelListener(tcp[i], toTCPRoutes(tcp[i], in))],
         UDP  |-> [i \in DOMAIN udp |->
                     ModelListener(udp[i], toUDPRoutes(udp[i], in))]]

\* Mutant: the last listener's source wins.
LastSource(all) == Last(all).source

FirstSource(all) == Head(all).source

\* The Gateway API translator: the owner is the source of the first listener,
\* the Service exposes every port, and a Gateway with UDP listeners only has
\* no Envoy configuration.  An empty model is an error.
TranslateGateway(m) ==
    LET all == m.HTTP \o m.TLS \o m.TCP \o m.UDP
    IN  IF all = <<>> THEN [error |-> TRUE]
        ELSE [error  |-> FALSE,
              owner  |-> FirstSource(all),
              ports  |-> {l.port : l \in ToSet(all)},
              config |-> IF m.HTTP = <<>> /\ m.TLS = <<>> /\ m.TCP = <<>> THEN <<>>
                         ELSE <<Translate(m, FALSE, TRUE)>>]
=============================================================================
