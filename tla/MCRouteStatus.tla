--------------------------- MODULE MCRouteStatus ----------------------------
EXTENDS RouteStatus, TLC

CONSTANTS r1, r2

Ref(refKind, name, section) == [kind |-> refKind, name |-> name, section |-> section, port |-> 0]
To(g) == Ref("Gateway", g, "")

Backend(ns, service, mirror) == [ns |-> ns, service |-> service, mirror |-> mirror]

RouteSpec(parents, backends, invalid) ==
    [parents |-> parents, hosts |-> {}, backends |-> backends, invalid |-> invalid]

Plain == RouteSpec(<<To("g1")>>, {Backend("own", TRUE, FALSE)}, FALSE)

\* One or both Gateways, a section no listener has, a parent of another kind,
\* and backends that are unsupported, mirrored to or in another namespace.
MCSpecs ==
    {Plain,
     RouteSpec(<<To("g2")>>, {Backend("own", TRUE, FALSE)}, TRUE),
     RouteSpec(<<To("g1"), To("g2")>>, {Backend("other", TRUE, FALSE)}, FALSE),
     RouteSpec(<<Ref("ListenerSet", "set", ""), Ref("Gateway", "g1", "b")>>, {Backend("own", FALSE, FALSE)}, FALSE),
     RouteSpec(<<To("g1")>>, {Backend("own", TRUE, TRUE)}, FALSE)}
MCInitSpecs == {Plain, RouteSpec(<<To("g1"), To("g2")>>, {Backend("other", TRUE, FALSE)}, FALSE)}

Listener(from, kinds) == [name |-> "a", port |-> 80, host |-> "", from |-> from, kinds |-> kinds]
GatewayValue(live, class, listener) ==
    [live |-> live, class |-> class, ns |-> "own", listeners |-> <<listener>>]

Ours   == GatewayValue(TRUE, "ours", Listener("Same", {}))
Foreign == GatewayValue(TRUE, "theirs", Listener("All", {}))
MCGateways ==
    {Ours, Foreign, GatewayValue(FALSE, "ours", Listener("Same", {})),
     GatewayValue(TRUE, "ours", Listener("Selector", {"HTTPRoute"}))}
MCInitGateways == [g \in {"g1", "g2"} |-> IF g = "g1" THEN Ours ELSE Foreign]

\* Names of routes are interchangeable.
Symmetric == Permutations({r1, r2})

MCSetParent == [s \in {"set"} |-> "g2"]
=============================================================================
