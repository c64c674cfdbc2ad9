---------------------------- MODULE MCTranslation ----------------------------
(* Bounded inputs for Translation. *)
EXTENDS Translation

Star    == <<"*">>
StarCom == <<"*", "com">>
StarA   == <<"*", "a", "com">>
A       == <<"a", "com">>
BA      == <<"b", "a", "com">>
B       == <<"b", "com">>

MCHostOrder == <<Star, StarA, StarCom, A, BA, B>>

MCRequests ==
    {[host |-> h, path |-> p, headers |-> x[1], query |-> x[2]] :
        h \in {A, BA, B, <<"c", "b", "a", "com">>},
        p \in {<<"">>, <<"a">>, <<"a", "">>, <<"a", "b">>, <<"b">>},
        x \in {<<{}, {}>>, <<{"h"}, {}>>, <<{"h"}, {"p"}>>}}

Match(kind, value, headers, query) ==
    [path |-> [kind |-> kind, value |-> value], headers |-> headers, query |-> query]

Ref(name, port, weight) ==
    [kind |-> "Service", ns |-> "n1", name |-> name, port |-> port, weight |-> weight]

S1 == Ref("s1", 80, <<>>)
S2 == Ref("s2", 80, <<3>>)
S3 == Ref("s3", 443, <<0>>)
Elsewhere == [S2 EXCEPT !.ns = "n2"]

Rule(refs, matches) ==
    [refs |-> refs, matches |-> matches, redirect |-> <<>>, rewrite |-> <<>>, mirrors |-> <<>>]

Rules ==
    <<Rule(<<S1>>, <<>>),
      Rule(<<S1, S2>>, <<Match("exact", <<"a">>, {}, {}), Match("prefix", <<"b">>, {}, {})>>),
      Rule(<<S2>>, <<Match("prefix", <<"a">>, {"h"}, {})>>),
      [Rule(<<S1>>, <<Match("prefix", <<"a", "">>, {}, {})>>)
          EXCEPT !.rewrite = <<[exact |-> <<>>, prefix |-> <<"x", "">>]>>],
      [Rule(<<S1, S3>>, <<Match("prefix", <<"a">>, {}, {})>>)
          EXCEPT !.rewrite = <<[exact |-> <<>>, prefix |-> <<"">>]>>, !.mirrors = <<S2>>],
      Rule(<<Ref("none", 80, <<>>), Elsewhere>>, <<Match("regex", <<"a", ".*">>, {}, {})>>),
      [Rule(<<>>, <<Match("prefix", <<"">>, {}, {}), Match("prefix", <<"a">>, {}, {"p"})>>)
          EXCEPT !.redirect = <<[scheme |-> "", port |-> 0]>>],
      Rule(<<S3, S2, S1>>, <<Match("prefix", <<"a">>, {}, {}), Match("prefix", <<"a">>, {"h"}, {"p"})>>)>>

Parent(kind, name, section) ==
    [kind |-> kind, ns |-> "n1", name |-> name, section |-> section, port |-> 0]

Route(parent, hosts, rules) == [ns |-> "n1", parents |-> <<parent>>, hosts |-> hosts, rules |-> rules]

GatewaySource == [kind |-> "Gateway", ns |-> "n1", name |-> "gw"]

Same == [from |-> "Same", selected |-> {}, kinds |-> <<>>]

Listener(name, port, protocol, host, tls) ==
    [name |-> name, port |-> port, protocol |-> protocol, host |-> host, tls |-> tls, allow |-> Same]

Cert == << <<[ns |-> "n1", name |-> "c1"]>> >>

L1 == Listener("l1", 80, "HTTP", <<>>, <<>>)
L2 == Listener("l2", 8080, "HTTP", StarCom, <<>>)
L3 == Listener("l3", 443, "HTTPS", StarA, Cert)
L4 == Listener("l4", 443, "HTTPS", A, Cert)
L5 == Listener("l5", 80, "HTTP", StarA, <<>>)
L6 == Listener("l6", 443, "TLS", <<>>, <<>>)
L7 == Listener("l7", 53, "UDP", <<>>, <<>>)
L8 == Listener("l8", 5432, "TCP", <<>>, <<>>)
L9 == Listener("l9", 5433, "TCP", <<>>, <<>>)

ListenerSet(ns, name, rank, created, parent, listeners) ==
    [ns |-> ns, name |-> name, rank |-> rank, created |-> created, parent |-> parent,
     listeners |-> listeners]

\* The listeners of one ListenerSet of the Gateway, none for <<>>.
Set(listeners) ==
    IF listeners = <<>> THEN {} ELSE {ListenerSet("n1", "ls", 1, 1, <<"n1", "gw">>, listeners)}

Gateway(own, set, http, grpc, tls, tcp, udp) ==
    [gateway |-> GatewaySource, allowed |-> Same, own |-> own, sets |-> Set(set),
     http |-> http, grpc |-> grpc, tls |-> tls, tcp |-> tcp, udp |-> udp,
     services |-> {<<"n1", "s1">>, <<"n1", "s2">>, <<"n1", "s3">>, <<"n2", "s2">>},
     grants |-> {}]

AnySection == Parent("Gateway", "gw", "")

HostLists == {<<>>, <<A>>, <<StarCom>>, <<BA, StarA>>}

\* One route with two rules, over hosts, parents and pairs of listeners.
OneRoute ==
    {Gateway(ls[1], ls[2], <<Route(p, hs, <<Rules[x[1]], Rules[x[2]]>>)>>, <<>>, <<>>, <<>>, <<>>) :
        ls \in {<< <<L1>>, <<>> >>, << <<L1, L2>>, <<>> >>, << <<L2, L3>>, <<>> >>,
                << <<L3, L4>>, <<>> >>, << <<L1>>, <<L5>> >>},
        p \in {AnySection, Parent("Gateway", "gw", "l2"), Parent("ListenerSet", "ls", "")},
        hs \in HostLists,
        x \in {y \in (DOMAIN Rules) \X (DOMAIN Rules) : y[1] # y[2]}}

\* Two routes with one rule each.
TwoRoutes ==
    {Gateway(ls, <<>>, <<Route(AnySection, <<A, BA>>, <<Rules[i]>>), Route(AnySection, hs, <<Rules[j]>>)>>,
             <<>>, <<>>, <<>>, <<>>) :
        ls \in {<<L1>>, <<L2, L3>>, <<L1, L2, L4>>}, hs \in HostLists, i, j \in DOMAIN Rules}

L4Route(parent, refs) == [ns |-> "n1", parents |-> <<parent>>, hosts |-> <<>>, rules |-> refs]

GRPCRule == [refs |-> <<S1, S2>>, mirrors |-> <<>>,
             matches |-> <<[service |-> "a", method |-> "b", type |-> "exact", headers |-> {}],
                           [service |-> "", method |-> "", type |-> "exact", headers |-> {"h"}]>>]

TLSRoute(section, hosts, refs) ==
    [ns |-> "n1", attachable |-> {<<"n1", "gw">>}, hosts |-> hosts,
     parents |-> <<Parent("Gateway", "gw", section)>>,
     rules |-> <<[refs |-> refs], [refs |-> <<S3>>]>>]

\* GRPC, TLS, TCP and UDP routes.
OtherRoutes ==
    {Gateway(ls[1], ls[2], <<>>, grpc, tls, <<L4Route(AnySection, <<[refs |-> <<>>], [refs |-> <<S2, S1>>]>>),
                                    L4Route(Parent("Gateway", "gw", "l8"), <<[refs |-> <<S1>>]>>)>>,
             <<L4Route(AnySection, <<[refs |-> <<S1>>]>>)>>) :
        ls \in {<< <<>>, <<>> >>, << <<L7>>, <<>> >>, << <<L8>>, <<>> >>, << <<L7>>, <<L9>> >>,
                << <<L8>>, <<L5>> >>, << <<L6>>, <<>> >>, << <<L6, L4, L8>>, <<>> >>,
                << <<L6>>, <<L5, L9>> >>},
        grpc \in {<<>>, <<[ns |-> "n1", attachable |-> {<<"n1", "gw">>}, parents |-> <<AnySection>>, hosts |-> <<A>>, rules |-> <<GRPCRule>>]>>},
        tls \in {<<>>, <<TLSRoute("l6", <<A>>, <<S1>>)>>,
                 <<TLSRoute("", <<A, B>>, <<S1>>), TLSRoute("", <<BA>>, <<S1, S2>>)>>}}

With(l, from, selected, kinds) ==
    [l EXCEPT !.allow = [from |-> from, selected |-> selected, kinds |-> kinds]]

TwoParents ==
    {<<AnySection>>, <<Parent("Gateway", "other", ""), Parent("Gateway", "gw", "l2")>>,
     <<Parent("Gateway", "other", "")>>, <<[AnySection EXCEPT !.port = 8080]>>,
     <<[Parent("ListenerSet", "ls", "") EXCEPT !.ns = "n2"]>>,
     <<Parent("ListenerSet", "ls", "l5"), [AnySection EXCEPT !.port = 81]>>}

\* Routes and ListenerSets of two namespaces under every kind of policy.
Policies ==
    {[Gateway(<<With(L1, f1[1], f1[2], k), With(L2, f2[1], f2[2], <<>>)>>, <<>>,
              <<[Route(AnySection, <<>>, <<Rules[1]>>) EXCEPT !.ns = ns, !.parents = ps],
                Route(Parent("Gateway", "gw", "l1"), <<A>>, <<Rules[3]>>)>>,
              <<>>, <<>>, <<>>, <<>>)
        EXCEPT !.allowed = [Same EXCEPT !.from = al, !.selected = {"n2"}],
               !.sets = {ListenerSet("n1", "ls", 1, 2, <<"n1", "gw">>, <<L5>>),
                         ListenerSet("n2", "ls", 2, t, <<"n1", "gw">>, <<With(L5, f2[1], f2[2], <<>>)>>)}] :
        f1 \in {<<"Same", {}>>, <<"unset", {}>>, <<"Selector", {"n2"}>>},
        f2 \in {<<"All", {}>>, <<"None", {}>>, <<"Selector", {"n1"}>>},
        k \in {<<>>, <<{"TLSRoute"}>>}, ns \in {"n1", "n2"}, ps \in TwoParents,
        al \in {"unset", "All", "Same", "Selector"}, t \in {1, 2}}

MCGatewayInputs == Policies \cup OneRoute \cup TwoRoutes \cup OtherRoutes

T(service, section) == [kind |-> "Service", service |-> service, section |-> section]
NotAService == [T("s1", "") EXCEPT !.kind = "ServiceImport"]

Policy(created, rank, targets, ca) ==
    [created |-> created, rank |-> rank, targets |-> targets, ca |-> ca]

TargetLists ==
    {<<T("s1", "")>>, <<T("s1", ""), T("s2", "")>>, <<T("s1", "a"), NotAService, T("s1", "b")>>,
     <<T("s2", "a"), T("s1", "b"), T("s2", "a")>>}

\* One policy under every kind of CA reference, and two or three that compete.
OnePolicy ==
    {"p1" :> Policy(1, 1, <<T("s1", "")>>, ca) :
        ca \in {"wellKnown", "both", "many", "kind", "missing", "noKey", "notPEM", "good"}}

TwoPolicies ==
    {"p1" :> Policy(1, 1, t1, "good") @@ "p2" :> Policy(c[1], 2, t2, c[2]) :
        t1, t2 \in TargetLists,
        c \in {<<0, "notPEM">>, <<1, "wellKnown">>, <<2, "notPEM">>}}

ThreePolicies ==
    {"p1" :> Policy(1, 1, <<T("s1", "")>>, "good") @@ "p2" :> Policy(1, 2, <<T("s1", "")>>, "good")
       @@ "p3" :> Policy(c, 3, t, "good") : c \in {0, 1}, t \in TargetLists}

PolicyInput(routes, ps, svcs) ==
    [gateway |-> Gateway(<<L1>>, <<>>, routes, <<>>, <<>>, <<>>, <<>>), policies |-> ps,
     authz |-> {"s1"}, services |-> svcs]

MCPolicyInputs ==
    {PolicyInput(<<Route(AnySection, <<A>>, <<Rules[1]>>)>>, ps, svcs) :
        ps \in OnePolicy \cup TwoPolicies \cup ThreePolicies, svcs \in {{"s1", "s2"}, {"s2"}}}
    \cup {PolicyInput(<<>>, ps, {"s2"}) : ps \in OnePolicy \cup ThreePolicies}

IBackend(name) == [ns |-> "n1", name |-> name, port |-> 80, weight |-> <<>>]
IPath(kind, value, name) == [kind |-> kind, value |-> value, backend |-> IBackend(name)]
IRule(host, paths) == [host |-> host, paths |-> paths]

IngressRules ==
    {<<>>, <<IRule(A, <<>>)>>,
     <<IRule(A, << <<IPath("prefix", <<"">>, "s1"), IPath("exact", <<"a">>, "s2")>> >>)>>,
     <<IRule(StarA, << <<IPath("prefix", <<"a">>, "s1")>> >>), IRule(A, << <<IPath("regex", <<"a", ".*">>, "s3")>> >>)>>,
     <<IRule(<<>>, << <<IPath("prefix", <<"b">>, "s2")>> >>), IRule(A, << <<IPath("prefix", <<"">>, "s1")>> >>)>>,
     <<IRule(B, << <<IPath("exact", <<"b">>, "s1")>> >>), IRule(B, << <<IPath("prefix", <<"">>, "s2")>> >>)>>}

IngressTLS ==
    {<<>>, <<[hosts |-> <<A>>, secret |-> "t1"]>>, <<[hosts |-> <<A, B>>, secret |-> ""]>>,
     <<[hosts |-> <<StarA>>, secret |-> "t1"], [hosts |-> <<B, A>>, secret |-> "t2"]>>}

MCIngressInputs ==
    {[ingress |-> [ns |-> "n1", name |-> "ing", default |-> d, rules |-> rs, tls |-> t],
      enforceHTTPs |-> e, passthrough |-> pt] :
        d \in {<<>>, <<IBackend("s3")>>}, rs \in IngressRules, t \in IngressTLS, e, pt \in BOOLEAN}
=============================================================================
