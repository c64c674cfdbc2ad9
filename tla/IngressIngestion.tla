-------------------------- MODULE IngressIngestion ---------------------------
(***************************************************************************)
(* How an Ingress becomes the neutral model (ingestion.Ingress and         *)
(* IngressPassthrough) and the model a DolphinEnvoyConfig (the dedicated   *)
(* and the shared Ingress translator).                                     *)
(*                                                                         *)
(*   ingress    [ns, name, default, rules, tls]                            *)
(*   default    <<backend>> or <<>>                                        *)
(*   rule       [host, paths]: host <<>> when unset, paths inside <<>>, or *)
(*              <<>> for a rule without an HTTP section                    *)
(*   path       [kind, value, backend]                                     *)
(*   tls entry  [hosts, secret], secret "" when unset                      *)
(***************************************************************************)
EXTENDS EnvoyTranslator

CONSTANT DefaultSecret   \* the configured default certificate, "" for none

ingressRoute(path, backend) ==
    [hosts |-> <<>>, path |-> path, headers |-> {}, query |-> {},
     backends |-> <<backend>>, direct |-> <<>>, redirect |-> <<>>,
     rewrite |-> <<>>, mirrors |-> <<>>]

source(ing) == [kind |-> "Ingress", ns |-> ing.ns, name |-> ing.name]

RuleHost(rule) == IF rule.host = <<>> THEN AnyHost ELSE rule.host

\* insecureListenerMap: the routes of each host, in rule order, after that of
\* the default backend; a rule without an HTTP section adds no host.
InsecureRoutes(ing) ==
    LET rules      == SelectSeq(ing.rules, LAMBDA r : r.paths # <<>>)
        default(h) == IF h = AnyHost
                      THEN [i \in DOMAIN ing.default |->
                              ingressRoute([kind |-> "none", value |-> <<>>], ing.default[i])]
                      ELSE <<>>
        paths(r)   == [i \in DOMAIN r.paths[1] |->
                         ingressRoute([kind |-> r.paths[1][i].kind, value |-> r.paths[1][i].value],
                                      r.paths[1][i].backend)]
        of(h)      == SelectSeq(rules, LAMBDA r : RuleHost(r) = h)
        hosts      == {RuleHost(r) : r \in ToSet(rules)}
                        \cup (IF ing.default = <<>> THEN {} ELSE {AnyHost})
    IN  [h \in hosts |-> default(h) \o FlattenSeq([i \in DOMAIN of(h) |-> paths(of(h)[i])])]

\* The certificate of a TLS entry inside <<>>, or <<>> when there is none and
\* the listener keeps what it had.
Certificate(ing, entry) ==
    IF entry.secret # "" THEN << <<[ns |-> ing.ns, name |-> entry.secret]>> >>
    ELSE IF DefaultSecret # "" THEN << <<[ns |-> "default", name |-> DefaultSecret]>> >>
    ELSE <<>>

\* secureListenerMap after one host of one TLS entry: a function from hosts to
\* [routes, tls].  A default listener replaces the host's own one.
SecureStep(ing, insecure, secure, entry, host) ==
    LET plain(h) == [routes |-> insecure[h], tls |-> <<>>]
        own      == CASE host \in DOMAIN secure -> <<secure[host]>>
                      [] host \notin DOMAIN secure /\ host \in DOMAIN insecure -> <<plain(host)>>
                      [] host \notin DOMAIN secure /\ host \notin DOMAIN insecure
                           /\ AnyHost \in DOMAIN insecure -> <<plain(AnyHost)>>
                      [] OTHER -> <<>>
        base     == IF AnyHost \in DOMAIN insecure THEN plain(AnyHost) ELSE own[1]
        cert     == Certificate(ing, entry)
    IN  IF own = <<>> THEN secure
        ELSE (host :> [base EXCEPT !.tls = IF cert = <<>> THEN @ ELSE cert]) @@ secure

SecureListeners(ing) ==
    LET pairs == FlattenSeq([i \in DOMAIN ing.tls |->
                    [j \in DOMAIN ing.tls[i].hosts |-> <<ing.tls[i], ing.tls[i].hosts[j]>>]])
    IN  FoldLeft(LAMBDA s, p : SecureStep(ing, InsecureRoutes(ing), s, p[1], p[2]), <<>>, pairs)

\* appendValuesInKeyOrder.
InKeyOrder(listeners) ==
    LET keys == SelectSeq(HostOrder, LAMBDA h : h \in DOMAIN listeners)
    IN  [i \in DOMAIN keys |-> listeners[keys[i]]]

\* ingestion.Ingress: the insecure listeners, then the secure ones.
Ingress(ing) ==
    LET insecure == InsecureRoutes(ing)
        secure   == SecureListeners(ing)
        listener(h, port, routes, tls) ==
            [name |-> ing.name, source |-> source(ing), port |-> port, host |-> h,
             tls |-> tls, routes |-> routes]
    IN  InKeyOrder([h \in DOMAIN insecure |-> listener(h, 80, insecure[h], <<>>)])
        \o InKeyOrder([h \in DOMAIN secure |-> listener(h, 443, secure[h].routes, secure[h].tls)])

\* ingestion.IngressPassthrough: one TLS listener per host whose rules have a
\* path "/"; other paths, hostless rules and the default backend are skipped.
\* A rule whose host has no route yet adds none; once the host has one, later
\* rules of the host only add theirs.
IngressPassthrough(ing) ==
    LET rules     == SelectSeq(ing.rules, LAMBDA r : r.host # <<>> /\ r.paths # <<>>)
        root(r)   == SelectSeq(r.paths[1], LAMBDA p : p.value = <<"">>)
        routes(r) == [i \in DOMAIN root(r) |-> [hosts |-> <<>>, backends |-> <<root(r)[i].backend>>]]
        of(h)     == SelectSeq(rules, LAMBDA r : r.host = h)
        all(h)    == FlattenSeq([i \in DOMAIN of(h) |-> routes(of(h)[i])])
        hosts     == {h \in {r.host : r \in ToSet(rules)} : all(h) # <<>>}
    IN  InKeyOrder([h \in hosts |-> [name |-> ing.name, source |-> source(ing), port |-> 443,
                                     host |-> h, routes |-> all(h)]])

\* The dedicated translator: an empty model is an error.
TranslateDedicated(m, enforceHTTPs) ==
    IF m.HTTP = <<>> /\ m.TLS = <<>> THEN [error |-> TRUE]
    ELSE [error  |-> FALSE,
          owner  |-> Head(m.HTTP \o m.TLS).source,
          ports  |-> {80, 443},
          config |-> <<Translate(m, enforceHTTPs, FALSE)>>]
=============================================================================
