------------------------- MODULE ListenerAttachment --------------------------
(***************************************************************************)
(* What the Gateway reconciler makes of the cluster before the ingestion:  *)
(* which ListenerSets are merged into the Gateway, in which order, and     *)
(* which routes are handed on.                                             *)
(*                                                                         *)
(*   cluster   [gateway, allowed, own, sets, http, grpc, tls, tcp, udp,    *)
(*             services, grants]: allowed is the allowedListeners policy,  *)
(*             own the listeners of the Gateway, sets the ListenerSets     *)
(*   set       [ns, name, rank, created, parent, listeners]; rank is its   *)
(*             place in the order of the strings "namespace/name"          *)
(*   listener  without a source; allow is its allowedRoutes policy         *)
(*   policy    [from, selected, kinds]: selected holds the namespaces the  *)
(*             selector matches, kinds is <<>> when no kinds are listed;   *)
(*             the kind "any" stands for an entry without a group          *)
(*   parent    also has a port, 0 when unset                               *)
(*   route     also has attachable: the Gateways for which its status says *)
(*             Accepted=True or ResolvedRefs=False                         *)
(***************************************************************************)
EXTENDS GatewayIngestion

Key(o) == <<o.ns, o.name>>

\* helpers.IsListenerSetAllowed; "unset" stands for no policy at all.
IsListenerSetAllowed(c, set) ==
    \/ c.allowed.from = "All"
    \/ c.allowed.from = "Same" /\ set.ns = c.gateway.ns
    \/ c.allowed.from = "Selector" /\ set.ns \in c.allowed.selected

\* listenerSetsForGateway lists every ListenerSet, whatever Gateway its
\* parentRef names, in the order of sortListenerSets.
listenerSetsForGateway(c) ==
    LET before(a, b) == \/ a.created < b.created
                        \/ a.created = b.created /\ a.rank < b.rank
    IN  SetToSortSeq(c.sets, before)

filterToAllowedListenerSets(c) ==
    SelectSeq(listenerSetsForGateway(c), LAMBDA s : IsListenerSetAllowed(c, s))

\* <<>> for all namespaces.  A policy "None" falls through to the default.
resolveAllowedNamespaces(set, l) ==
    CASE l.allow.from = "All" -> <<>>
      [] l.allow.from = "Selector" -> <<l.allow.selected>>
      [] OTHER -> <<{set.ns}>>

mergeListeners(c, sets) ==
    LET with(l, source, allowed) == [source |-> source, allowedNamespaces |-> allowed] @@ l
        of(s) == [i \in DOMAIN s.listeners |->
                    with(s.listeners[i], [kind |-> "ListenerSet", ns |-> s.ns, name |-> s.name],
                         resolveAllowedNamespaces(s, s.listeners[i]))]
    IN  [i \in DOMAIN c.own |-> with(c.own[i], c.gateway, <<>>)]
          \o FlattenSeq([i \in DOMAIN sets |-> of(sets[i])])

\* No GRPC kind is known here: a listener that lists kinds takes no GRPCRoute,
\* unless an entry has no group.
isKindAllowed(l, kind) ==
    \/ l.allow.kinds = <<>>
    \/ "any" \in l.allow.kinds[1]
    \/ kind \in l.allow.kinds[1] \cap {"HTTPRoute", "TLSRoute", "TCPRoute", "UDPRoute"}

\* labelled: have the labels of the namespaces been listed?
IsListenerNamespaceAllowed(c, l, ns, labelled) ==
    \/ l.allow.from = "All"
    \/ l.allow.from \in {"unset", "Same"} /\ ns = c.gateway.ns
    \/ l.allow.from = "Selector" /\ labelled /\ ns \in l.allow.selected

listenerisAllowed(c, l, r, kind, labelled) ==
    /\ l.allow.from = "unset" \/ isKindAllowed(l, kind)
    /\ IsListenerNamespaceAllowed(c, l, r.ns, labelled)

\* Only with such a listener are the namespaces listed.
hasAllowedRoutesNamespaceSelector(c) == \E l \in ToSet(c.own) : l.allow.from = "Selector"

isGRPCAllowed(c, r) ==
    \E l \in ToSet(c.own) :
        listenerisAllowed(c, l, r, "unknown", hasAllowedRoutesNamespaceSelector(c))

\* The first listener without a policy decides, unless an earlier one admits.
isAllowed(c, r, kind) ==
    LET admits(l) == /\ isKindAllowed(l, kind)
                     /\ IsListenerNamespaceAllowed(c, l, r.ns, TRUE)
    IN  \E i \in DOMAIN c.own :
          /\ \A j \in 1 .. i - 1 : c.own[j].allow.from # "unset"
          /\ IF c.own[i].allow.from = "unset" THEN r.ns = c.gateway.ns ELSE admits(c.own[i])

isAttachable(c, r) == Key(c.gateway) \in r.attachable

\* Some listener of the Gateway itself has a host of the route.
computeHosts(c, r) == \E l \in ToSet(c.own) : MatchedHosts(l, r) # <<>>

\* Mutant: the parent's name is not compared.
MatchesAnyParent(c, l, r) ==
    \E p \in ToSet(r.parents) : p.section \in {"", l.name} /\ p.port \in {0, l.port}

listenerMatchesRouteParent(c, l, r) ==
    \E p \in ToSet(r.parents) :
        /\ p.section \in {"", l.name} /\ p.port \in {0, l.port}
        /\ p.kind = l.source.kind /\ Key(p) = Key(l.source)

\* The namespaces' labels are not handed on here (nil): a selector of one of
\* the Gateway's own listeners admits nothing.
filterHTTPRoutesByGateway(c, listeners) ==
    LET takes(l, r) ==
          /\ listenerMatchesRouteParent(c, l, r)
          /\ MatchedHosts(l, r) # <<>>
          /\ IF l.source.kind = "ListenerSet"
             THEN l.allowedNamespaces = <<>> \/ r.ns \in l.allowedNamespaces[1]
             ELSE listenerisAllowed(c, l, r, "HTTPRoute", FALSE)
    IN  SelectSeq(c.http, LAMBDA r : \E l \in ToSet(listeners) : takes(l, r))

filterTLSRoutesByGateway(c) ==
    SelectSeq(c.tls, LAMBDA r : isAttachable(c, r) /\ isAllowed(c, r, "TLSRoute") /\ computeHosts(c, r))

filterGRPCRoutesByGateway(c) ==
    SelectSeq(c.grpc, LAMBDA r : isAttachable(c, r) /\ isGRPCAllowed(c, r) /\ computeHosts(c, r))

\* The input of the ingestion.  Every TCPRoute and UDPRoute is handed on, and
\* the ReferenceGrants are not.
IngestionInput(c) ==
    LET listeners == mergeListeners(c, filterToAllowedListenerSets(c))
    IN  [gateway |-> c.gateway, listeners |-> listeners,
         http |-> filterHTTPRoutesByGateway(c, listeners),
         grpc |-> filterGRPCRoutesByGateway(c), tls |-> filterTLSRoutesByGateway(c),
         tcp |-> c.tcp, udp |-> c.udp, services |-> c.services, grants |-> {}]
=============================================================================
