---------------------------- MODULE RouteStatus -----------------------------
(* The status of the routes.  HTTP, TCP and UDP routes get theirs from the   *)
(* Gateway reconciler, which refreshes every route of the cluster when a     *)
(* Gateway is reconciled; GRPC and TLS routes from reconcilers of their own. *)
(* Both read informer caches, write with an optimistic lock, and share the   *)
(* status with the controllers of other Gateways.  One kind per behaviour.   *)
EXTENDS Naturals, FiniteSets, SeqFilter

CONSTANTS
    Routes,         \* names of the routes, all in one namespace
    Gateways,       \* names of the Gateways
    Kinds,          \* the kinds of route considered
    Specs,          \* the route specifications users write
    InitSpecs,      \* the ones the routes start with
    GatewayValues,  \* the forms a Gateway takes
    InitGateways,   \* the form each Gateway starts with
    SetParent,      \* the Gateway each ListenerSet names
    Selected,       \* whether the route's namespace carries the selected label
    MaxUpsets       \* bound: routes created, user edits, failures and crashes

ParentRefs == UNION {RangeOf(s.parents) : s \in Specs}

ASSUME StartAssumption ==
    /\ IsFiniteSet(Routes)
    /\ Kinds \subseteq {"HTTPRoute", "TCPRoute", "UDPRoute", "GRPCRoute", "TLSRoute"}
    /\ InitSpecs \subseteq Specs
    /\ \A s \in Specs : s.parents \in Seq(ParentRefs)
    /\ InitGateways \in [Gateways -> GatewayValues]
    /\ RangeOf(SetParent) \subseteq Gateways
    /\ MaxUpsets \in Nat

VARIABLES
    kind,    \* the kind of the routes
    api,     \* the objects in the API server
    seen,    \* the informer caches
    behind,  \* routes of which the cache does not have the stored version
    queue,   \* requests waiting in the controller's queue
    work,    \* the request in progress
    upsets   \* creations, edits, failures and crashes so far

vars == <<kind, api, seen, behind, queue, work, upsets>>

\* The reconciler of this kind works on Gateways, not on routes.
ByGateway == kind \in {"HTTPRoute", "TCPRoute", "UDPRoute"}
Requests == IF ByGateway THEN Gateways ELSE Routes

Live(r) == r.phase # "absent"
-----------------------------------------------------------------------------
(* Status entries *)

\* Everything the reason of a condition can be; "" sets none, and "Theirs" stands
\* for the reason and the wording of another controller.
Reasons ==
    {"", "Accepted", "Invalid", "NotAllowedByListeners", "NoMatchingParent", "NoMatchingListenerHostname",
     "UnsupportedValue", "ResolvedRefs", "RefNotPermitted", "InvalidKind", "BackendNotFound", "Theirs"}

\* A parent, the controller that reports on it, and at most one condition of each
\* of the types Accepted and ResolvedRefs.
Conditions == [reason : Reasons, gen : Nat]
Entry == [ref : ParentRefs, ctl : {"ours", "theirs"}, acc : Seq(Conditions), res : Seq(Conditions)]
RouteValue == [phase : {"live", "deleting", "absent"}, gen : Nat, spec : Specs, status : Seq(Entry)]
World == [routes : [Routes -> RouteValue], gws : [Gateways -> GatewayValues], svc : BOOLEAN, grant : BOOLEAN]

\* A condition of type acc or res is set by its reason, "" leaves it alone; it
\* carries the generation of the route it was computed from.
merge(e, cond, gen) ==
    [e EXCEPT !.acc = IF cond.acc = "" THEN @ ELSE <<[reason |-> cond.acc, gen |-> gen]>>,
              !.res = IF cond.res = "" THEN @ ELSE <<[reason |-> cond.res, gen |-> gen]>>]

\* The first entry with a reference takes its conditions, whoever wrote the
\* entry; where there is none, one of this controller is appended.  conds gives
\* each reference its conditions.
mergeStatusConditions(status, r, refs, conds) ==
    LET isFirst(i) == \A j \in 1..(i - 1) : status[j].ref # status[i].ref
        added      == Only(refs, RangeOf(refs) \ {e.ref : e \in RangeOf(status)})
        blank(ref) == [ref |-> ref, ctl |-> "ours", acc |-> <<>>, res |-> <<>>]
    IN  [i \in DOMAIN status |->
            IF status[i].ref \in RangeOf(refs) /\ isFirst(i)
            THEN merge(status[i], conds[status[i].ref], r.gen)
            ELSE status[i]]
        \o [i \in DOMAIN added |-> merge(blank(added[i]), conds[added[i]], r.gen)]

\* Entries of other controllers stay; ours stay while the parent is named.
pruneRouteParentStatuses(status, parents) ==
    Only(status, {e \in RangeOf(status) : e.ctl # "ours" \/ e.ref \in RangeOf(parents)})
-----------------------------------------------------------------------------
(* The checks of the GRPCRoute and TLSRoute reconcilers, on the objects c *)

\* By name only: the kind of the reference is not looked at.
GetGateway(c, ref) ==
    IF ref.name \in Gateways /\ c.gws[ref.name].live THEN <<c.gws[ref.name]>> ELSE <<>>

HostsMeet(l, hosts) == hosts = {} \/ l.host = "" \/ l.host \in hosts

\* The first listener that lets the namespace in, or selects namespaces, settles
\* it; when no matching listener restricts namespaces the checks end silently.
CheckGatewayAllowedForNamespace(gw, r, ref) ==
    LET rules    == SelectSeq(gw.listeners, LAMBDA l :
                        /\ ref.section \in {"", l.name}
                        /\ ref.port \in {0, l.port}
                        /\ HostsMeet(l, r.spec.hosts)
                        /\ l.from # "nil")
        settling == SelectSeq(rules, LAMBDA l :
                        \/ l.from \in {"All", "Selector"}
                        \/ l.from = "Same" /\ gw.ns = "own")
    IN  IF rules = <<>> THEN "end"
        ELSE IF settling = <<>> \/ (Head(settling).from = "Selector" /\ ~Selected)
        THEN "NotAllowedByListeners"
        ELSE "continue"

CheckGatewayRouteKindAllowed(gw) ==
    \A l \in RangeOf(gw.listeners) : l.kinds = {} \/ kind \in l.kinds

CheckGatewayMatchingPorts(gw, ref) ==
    ref.port = 0 \/ \E l \in RangeOf(gw.listeners) : l.port = ref.port

CheckGatewayMatchingHostnames(gw, r) ==
    \E l \in RangeOf(gw.listeners) : HostsMeet(l, r.spec.hosts)

CheckGatewayMatchingSection(gw, ref) ==
    ref.section = "" \/ \E l \in RangeOf(gw.listeners) : l.name = ref.section

\* What the checks of one parent leave as the reason of the Accepted condition.
GatewayVerdict(c, r, ref) ==
    LET found  == GetGateway(c, ref)
        gw     == found[1]
        nsCheck == CheckGatewayAllowedForNamespace(gw, r, ref)
    IN  IF found = <<>>                                THEN "Invalid"
        ELSE IF nsCheck = "end"                        THEN "Accepted"
        ELSE IF nsCheck = "NotAllowedByListeners"      THEN "NotAllowedByListeners"
        ELSE IF ~CheckGatewayRouteKindAllowed(gw)      THEN "NotAllowedByListeners"
        ELSE IF ~CheckGatewayMatchingPorts(gw, ref)    THEN "NoMatchingParent"
        ELSE IF ~CheckGatewayMatchingHostnames(gw, r)  THEN "NoMatchingListenerHostname"
        ELSE IF ~CheckGatewayMatchingSection(gw, ref)  THEN "NoMatchingParent"
        ELSE "Accepted"

CheckAgainstCrossNamespaceBackendReferences(c, r) ==
    \A be \in r.spec.backends : be.ns = "own" \/ c.grant

CheckBackendIsService(r) == \A be \in r.spec.backends : be.service

CheckBackendIsExistingService(c, r) == \A be \in r.spec.backends : be.ns # "own" \/ c.svc

\* The reason of ResolvedRefs; the first two end the checks.
BackendVerdict(c, r) ==
    IF ~CheckAgainstCrossNamespaceBackendReferences(c, r) THEN "RefNotPermitted"
    ELSE IF ~CheckBackendIsService(r)                     THEN "InvalidKind"
    ELSE IF ~CheckBackendIsExistingService(c, r)          THEN "BackendNotFound"
    ELSE "ResolvedRefs"

Unresolvable(c, r) == BackendVerdict(c, r) \in {"RefNotPermitted", "InvalidKind"}

\* Every parent is set to accepted and resolved, then overwritten by its checks.
ReconciledStatus(c, r, resolved) ==
    mergeStatusConditions(r.status, r, r.spec.parents,
        [ref \in RangeOf(r.spec.parents) |-> [acc |-> GatewayVerdict(c, r, ref), res |-> resolved]])

ReconcileGRPCRoute(c, r) == ReconciledStatus(c, r, BackendVerdict(c, r))
ReconcileTLSRoute(c, r) == ReconciledStatus(c, r, BackendVerdict(c, r))
-----------------------------------------------------------------------------
(* The checks of the Gateway reconciler *)

parentIsMatchingGateway(c, g) == c.gws[g].live /\ c.gws[g].class = "ours"

\* ListenerSet parents are followed for HTTP routes only, other kinds never.
ParentMatches(c, ref) ==
    \/ /\ ref.kind = "Gateway"
       /\ ref.name \in Gateways
       /\ parentIsMatchingGateway(c, ref.name)
    \/ /\ ref.kind = "ListenerSet"
       /\ kind = "HTTPRoute"
       /\ ref.name \in DOMAIN SetParent
       /\ parentIsMatchingGateway(c, SetParent[ref.name])

setInitialRouteConditions == [acc |-> "Accepted", res |-> "ResolvedRefs"]

runCommonRouteChecks(c, status, r) ==
    mergeStatusConditions(status, r,
                          Only(r.spec.parents, {ref \in RangeOf(r.spec.parents) : ParentMatches(c, ref)}),
                          [ref \in RangeOf(r.spec.parents) |-> setInitialRouteConditions])

\* An invalid header modifier or expression is noted under every entry's
\* reference, whoever wrote the entry.
RunValidators(status, r) ==
    IF r.spec.invalid
    THEN LET refs == [i \in DOMAIN status |-> status[i].ref]
         IN  mergeStatusConditions(status, r, refs,
                 [ref \in RangeOf(refs) |-> [acc |-> "UnsupportedValue", res |-> ""]])
    ELSE status

setHTTPRouteStatuses(c, r) ==
    RunValidators(runCommonRouteChecks(c, pruneRouteParentStatuses(r.status, r.spec.parents), r), r)

setTCPRouteStatuses(c, r) ==
    runCommonRouteChecks(c, pruneRouteParentStatuses(r.status, r.spec.parents), r)

setUDPRouteStatuses(c, r) ==
    runCommonRouteChecks(c, pruneRouteParentStatuses(r.status, r.spec.parents), r)

\* The status the reconciler of this kind computes for route value r.
Computed(c, r) ==
    IF kind = "HTTPRoute" THEN setHTTPRouteStatuses(c, r)
    ELSE IF kind = "TCPRoute" THEN setTCPRouteStatuses(c, r)
    ELSE IF kind = "UDPRoute" THEN setUDPRouteStatuses(c, r)
    ELSE IF kind = "GRPCRoute" THEN ReconcileGRPCRoute(c, r)
    ELSE ReconcileTLSRoute(c, r)
-----------------------------------------------------------------------------
(* Watches *)

\* Mutant: the predicate looks at the new object only, and the index forgets
\* routes whose Gateway is gone.
RequestsForPresent(old, new, g) ==
    IF ByGateway
    THEN {g} \cap {x \in Gateways : new.gws[x].class = "ours"}
    ELSE {x \in Routes : /\ new.gws[g].live
                         /\ Live(new.routes[x])
                         /\ \E ref \in RangeOf(new.routes[x].spec.parents) :
                               ref.kind = "Gateway" /\ ref.name = g}

\* The cached routes by parent Gateway.
enqueueFromIndex(c, g) ==
    {x \in Routes : /\ Live(c.routes[x])
                    /\ \E ref \in RangeOf(c.routes[x].spec.parents) : ref.kind = "Gateway" /\ ref.name = g}

\* The predicate looks at the old and the new object.
RequestsForGateway(old, new, g) ==
    IF ByGateway
    THEN {g} \cap {x \in Gateways : old.gws[x].class = "ours" \/ new.gws[x].class = "ours"}
    ELSE enqueueFromIndex(new, g)

\* The Gateways the route names, resolved in the cache.  A ListenerSet is looked
\* up in a namespace called "ListenerSet" and never found.
getGatewayReconcileRequestsForRoute(c, r) ==
    {g \in Gateways : /\ parentIsMatchingGateway(c, g)
                      /\ \E ref \in RangeOf(r.spec.parents) : ref.kind = "Gateway" /\ ref.name = g}

\* Mutant: a route event enqueues the route, whatever the controller works on.
RequestsForItself(old, new, x) == {x}

EnqueueRequestForOwningHTTPRoute(old, new, x) ==
    getGatewayReconcileRequestsForRoute(new, old.routes[x])
    \cup getGatewayReconcileRequestsForRoute(new, new.routes[x])

\* TCP and UDP: the handlers are given the name of no controller, and find no
\* Gateway.
RequestsForRoute(old, new, x) ==
    IF kind = "HTTPRoute" THEN EnqueueRequestForOwningHTTPRoute(old, new, x)
    ELSE IF kind \in {"TCPRoute", "UDPRoute"} THEN {}
    ELSE {x}

\* The index by backend Service leaves out the mirrors.
getBackendServiceForGRPCRoute(r) ==
    \E be \in r.spec.backends : be.ns = "own" /\ be.service /\ ~be.mirror

\* The Gateways of this controller that the HTTP routes of the Service name.
enqueueRequestForBackendService(c) ==
    UNION {getGatewayReconcileRequestsForRoute(c, c.routes[x]) :
              x \in {y \in Routes : Live(c.routes[y]) /\ getBackendServiceForGRPCRoute(c.routes[y])}}

\* TCP and UDP routes are in no index by Service.
RequestsForService(c) ==
    IF kind = "HTTPRoute" THEN enqueueRequestForBackendService(c)
    ELSE IF kind \in {"TCPRoute", "UDPRoute"} THEN {}
    ELSE {x \in Routes : Live(c.routes[x]) /\ getBackendServiceForGRPCRoute(c.routes[x])}

\* enqueueAll: every cached route; every cached Gateway for the Gateway controller.
RequestsForGrant(c) ==
    IF ByGateway THEN {g \in Gateways : c.gws[g].live} ELSE {x \in Routes : Live(c.routes[x])}
-----------------------------------------------------------------------------
(* The controller *)

\* A request in progress has routes left to do, in any order, the routes as they
\* were listed, and those of them whose stored version is still the one listed.
Idle == [req |-> "none", todo |-> {}, snap |-> <<>>, fresh |-> {}]

\* The objects of the controller's own kind, when its informers start.
InitialRequests(c) ==
    IF ByGateway THEN {g \in Gateways : parentIsMatchingGateway(c, g)} ELSE {x \in Routes : Live(c.routes[x])}

Upset == upsets < MaxUpsets /\ upsets' = upsets + 1

Init ==
    /\ kind \in Kinds
    /\ \E spec \in [Routes -> InitSpecs], created \in (SUBSET Routes) \ {{}} :
          /\ api = [routes |-> [x \in Routes |->
                                  [phase |-> IF x \in created THEN "live" ELSE "absent",
                                   gen |-> 1, spec |-> spec[x], status |-> <<>>]],
                    gws |-> InitGateways, svc |-> TRUE, grant |-> FALSE]
          /\ upsets = Cardinality(created)
          /\ upsets <= MaxUpsets
    /\ seen = api
    /\ behind = {}
    /\ queue = InitialRequests(api)
    /\ work = Idle

\* The routes a request is about, as cached when the request starts.
Todo(q) ==
    IF ByGateway
    THEN {x \in Routes : parentIsMatchingGateway(seen, q) /\ Live(seen.routes[x])}
    ELSE {x \in {q} : seen.routes[x].phase = "live"}

Start(q) ==
    /\ work = Idle
    /\ q \in queue
    /\ queue' = queue \ {q}
    /\ work' = IF Todo(q) = {} THEN Idle
               ELSE [req |-> q, todo |-> Todo(q), snap |-> seen.routes, fresh |-> Todo(q) \ behind]
    /\ UNCHANGED <<kind, api, seen, behind, upsets>>

\* Fail: the request goes back to the queue; the routes left are not reached.
FailRequest ==
    /\ queue' = queue \cup {work.req}
    /\ work' = Idle

Advance(x) ==
    /\ work' = IF work.todo = {x} THEN Idle
               ELSE [work EXCEPT !.todo = @ \ {x}, !.fresh = @ \ {x}]
    /\ UNCHANGED queue

\* Mutant: unresolvable backends are an error for TLS routes as well.
ProceedOrFail(x, r) ==
    IF ~ByGateway /\ Unresolvable(seen, r) THEN FailRequest ELSE Advance(x)

\* The next route, or the end: a GRPCRoute whose backends cannot be resolved
\* ends in an error every time.
Proceed(x, r) ==
    IF kind = "GRPCRoute" /\ Unresolvable(seen, r) THEN FailRequest ELSE Advance(x)

\* The API server stores a status: a new version of the route.
Store(x, status) ==
    /\ api' = [api EXCEPT !.routes[x].status = status]
    /\ behind' = behind \cup {x}

\* Mutant: the write does not depend on the version that was read.
UpdateStatusUnconditionally(x, r, new) ==
    \/ /\ new = r.status
       /\ UNCHANGED <<api, behind>>
       /\ Proceed(x, r)
    \/ /\ new # r.status
       /\ Store(x, IF Live(api.routes[x]) THEN new ELSE api.routes[x].status)
       /\ Proceed(x, r)

\* Nothing to write when the status is the one that was read; a route changed
\* or removed since then is a conflict.
updateStatus(x, r, new) ==
    \/ /\ new = r.status
       /\ UNCHANGED <<api, behind>>
       /\ Proceed(x, r)
    \/ /\ new # r.status
       /\ x \notin work.fresh
       /\ FailRequest
       /\ UNCHANGED <<api, behind>>
    \/ /\ new # r.status
       /\ x \in work.fresh
       /\ Store(x, new)
       /\ Proceed(x, r)

SetRouteStatus ==
    /\ \E x \in work.todo : updateStatus(x, work.snap[x], Computed(seen, work.snap[x]))
    /\ UNCHANGED <<kind, seen, upsets>>

\* The Service lookup fails: the status is written as far as it got, which
\* claims the references to be resolved, and the request fails.
ServiceLookupFails ==
    /\ ~ByGateway
    /\ \E x \in work.todo :
          LET r == work.snap[x]
          IN  /\ ~Unresolvable(seen, r)
              /\ r.spec.backends # {}
              /\ IF x \in work.fresh THEN Store(x, ReconciledStatus(seen, r, "ResolvedRefs"))
                 ELSE UNCHANGED <<api, behind>>
    /\ FailRequest
    /\ Upset
    /\ UNCHANGED <<kind, seen>>

\* An API call fails; the status write may have taken effect all the same.
Fault ==
    /\ \E x \in work.todo :
          LET r == work.snap[x] new == Computed(seen, r)
          IN  \/ UNCHANGED <<api, behind>>
              \/ /\ new # r.status
                 /\ x \in work.fresh
                 /\ Store(x, new)
    /\ FailRequest
    /\ Upset
    /\ UNCHANGED <<kind, seen>>

\* The process ends and comes back: fresh caches, a request for every object.
Restart ==
    /\ work' = Idle
    /\ seen' = api
    /\ behind' = {}
    /\ queue' = InitialRequests(api)
    /\ Upset
    /\ UNCHANGED <<kind, api>>
-----------------------------------------------------------------------------
(* The informers *)

Enqueue(requests) ==
    /\ queue' = queue \cup requests
    /\ UNCHANGED <<kind, api, work, upsets>>

\* Every stored version is an event, whatever it changes.
DeliverRoute(x) ==
    /\ x \in behind
    /\ seen' = [seen EXCEPT !.routes[x] = api.routes[x]]
    /\ behind' = behind \ {x}
    /\ Enqueue(RequestsForRoute(seen, seen', x))

DeliverGateway(g) ==
    /\ seen.gws[g] # api.gws[g]
    /\ seen' = [seen EXCEPT !.gws[g] = api.gws[g]]
    /\ UNCHANGED behind
    /\ Enqueue(RequestsForGateway(seen, seen', g))

DeliverService ==
    /\ seen.svc # api.svc
    /\ seen' = [seen EXCEPT !.svc = api.svc]
    /\ UNCHANGED behind
    /\ Enqueue(RequestsForService(seen'))

DeliverGrant ==
    /\ seen.grant # api.grant
    /\ seen' = [seen EXCEPT !.grant = api.grant]
    /\ UNCHANGED behind
    /\ Enqueue(RequestsForGrant(seen'))
-----------------------------------------------------------------------------
(* Users and the other controllers *)

\* Somebody else changes a route: a version later than the one cached, and than
\* the one the request in progress has listed.
Supersede(x) ==
    /\ behind' = behind \cup {x}
    /\ work' = [work EXCEPT !.fresh = @ \ {x}]

EditRoute(x) ==
    /\ api.routes[x].phase = "live"
    /\ \E spec \in Specs \ {api.routes[x].spec} :
          api' = [api EXCEPT !.routes[x].spec = spec, !.routes[x].gen = @ + 1]
    /\ Upset
    /\ Supersede(x)
    /\ UNCHANGED <<kind, seen, queue>>

DeleteRoute(x) ==
    /\ Live(api.routes[x])
    /\ \E phase \in {"deleting", "absent"} \ {api.routes[x].phase} :
          api' = [api EXCEPT !.routes[x].phase = phase]
    /\ Upset
    /\ Supersede(x)
    /\ UNCHANGED <<kind, seen, queue>>

EditGateway(g) ==
    /\ \E gw \in GatewayValues \ {api.gws[g]} : api' = [api EXCEPT !.gws[g] = gw]
    /\ Upset
    /\ UNCHANGED <<kind, seen, behind, queue, work>>

EditBackend ==
    /\ \/ api' = [api EXCEPT !.svc = ~@]
       \/ api' = [api EXCEPT !.grant = ~@]
    /\ Upset
    /\ UNCHANGED <<kind, seen, behind, queue, work>>

\* Another controller reports on the route under its own Gateways, writes its
\* entries again when they are not as it left them or the route has a new
\* generation, and withdraws those whose parent is gone.  It touches no entry of
\* this controller.
TheirGateway(ref) ==
    ref.kind = "Gateway" /\ ref.name \in Gateways
    /\ api.gws[ref.name].live /\ api.gws[ref.name].class = "theirs"

TheirEntry(r, ref) ==
    [ref |-> ref, ctl |-> "theirs", acc |-> <<[reason |-> "Theirs", gen |-> r.gen]>>,
     res |-> <<[reason |-> "Theirs", gen |-> r.gen]>>]

TheirStatus(r) ==
    LET wanted == Only(r.spec.parents, {ref \in RangeOf(r.spec.parents) : TheirGateway(ref)})
        kept   == Only(r.status, {e \in RangeOf(r.status) : e.ctl = "ours" \/ e.ref \in RangeOf(wanted)})
        missing == Only(wanted, {ref \in RangeOf(wanted) :
                                    ~\E e \in RangeOf(kept) : e.ref = ref /\ e.ctl = "theirs"})
    IN  [i \in DOMAIN kept |-> IF kept[i].ctl = "ours" THEN kept[i] ELSE TheirEntry(r, kept[i].ref)]
        \o [i \in DOMAIN missing |-> TheirEntry(r, missing[i])]

TheyWrite(x) ==
    /\ Live(api.routes[x])
    /\ TheirStatus(api.routes[x]) # api.routes[x].status
    /\ api' = [api EXCEPT !.routes[x].status = TheirStatus(api.routes[x])]
    /\ Supersede(x)
    /\ UNCHANGED <<kind, seen, queue, upsets>>
-----------------------------------------------------------------------------
Work == (\E q \in Requests : Start(q)) \/ SetRouteStatus

Deliver ==
    \/ \E x \in Routes : DeliverRoute(x)
    \/ \E g \in Gateways : DeliverGateway(g)
    \/ DeliverService
    \/ DeliverGrant

Next ==
    \/ Work
    \/ Deliver
    \/ ServiceLookupFails
    \/ Fault
    \/ Restart
    \/ \E x \in Routes : EditRoute(x) \/ DeleteRoute(x) \/ TheyWrite(x)
    \/ \E g \in Gateways : EditGateway(g)
    \/ EditBackend

Spec == Init /\ [][Next]_vars

\* The worker goes on while there is work, and every watch delivers: no informer
\* waits for another.
Fairness ==
    /\ WF_vars(Work)
    /\ WF_vars(\E x \in Routes : DeliverRoute(x))
    /\ WF_vars(\E g \in Gateways : DeliverGateway(g))
    /\ WF_vars(DeliverService)
    /\ WF_vars(DeliverGrant)

FairSpec == Spec /\ Fairness
-----------------------------------------------------------------------------
(* Properties *)

\* Requests name objects of the reconciler's own kind, a request in progress has
\* a route left to do, and every status, stored, cached or listed, consists of
\* entries for parents that a specification names, with conditions the API knows,
\* whatever failed in between (gateway_reconcile.go:288, grpcroute_reconcile.go:24).
TypeOK ==
    /\ kind \in Kinds
    /\ api \in World /\ seen \in World
    /\ behind \subseteq Routes
    /\ queue \subseteq Requests
    /\ work = Idle \/ work \in [req : Requests, todo : (SUBSET Routes) \ {{}},
                                snap : [Routes -> RouteValue], fresh : SUBSET Routes]
    /\ upsets \in 0..MaxUpsets

\* A status entry of another controller outlives every step of this one: neither
\* pruning nor a write computed from an outdated route removes it
\* (status.go:56-66, status_route.go:275, grpcroute_reconcile.go:129).
Theirs(r) == {e.ref : e \in {d \in RangeOf(r.status) : d.ctl = "theirs"}}
ForeignKept ==
    [][\A x \in Routes : Theirs(api.routes[x]) \subseteq Theirs(api'.routes[x]) \/ TheyWrite(x)]_vars

Quiescent == queue = {} /\ work = Idle /\ behind = {} /\ seen = api

\* The routes whose inputs are all watched: not a TCP or UDP route, whose events
\* reach no Gateway, not an HTTP route without a Gateway of this controller, and
\* not a GRPC or TLS route that mirrors to a Service, or that names a parent of
\* another kind which has the name of a Gateway.
Watched(r) ==
    \/ /\ kind = "HTTPRoute"
       /\ Live(r)
       /\ \E ref \in RangeOf(r.spec.parents) : ref.kind = "Gateway" /\ ParentMatches(api, ref)
    \/ /\ kind \in {"GRPCRoute", "TLSRoute"}
       /\ r.phase = "live"
       /\ ~\E be \in r.spec.backends : be.mirror
       /\ \A ref \in RangeOf(r.spec.parents) : ref.name \in Gateways => ref.kind = "Gateway"

\* When nothing is left to do, the status of every watched route is the one its
\* reconciler computes from the present objects: after conflicts, failures that
\* left later routes undone, restarts, and changes of Gateways, Services and
\* grants in any order, no status is left stale (grpcroute.go:187-233,
\* tlsroute.go:107-112, gateway.go:196-213, status_route.go:126-233).
QuiescentStatus ==
    Quiescent => \A x \in Routes :
                    Watched(api.routes[x]) => Computed(api, api.routes[x]) = api.routes[x].status

\* The routes over which this controller and another can fight for ever: the
\* GRPC and TLS reconcilers set the conditions of every parent, and RunValidators
\* those of every entry of an invalid HTTP route, whoever wrote the entry
\* (grpcroute.go:156-166, status_route.go:206), and the other controller sets its
\* own again.
Contested(r) ==
    /\ \E ref \in RangeOf(r.spec.parents) : TheirGateway(ref)
    /\ \/ kind \in {"GRPCRoute", "TLSRoute"} /\ r.phase = "live"
       \/ kind = "HTTPRoute" /\ Live(r) /\ r.spec.invalid

\* The status writes of the reconcilers do not keep them going: the queue drains
\* for good, unless a GRPC route has backends that cannot be resolved, or another
\* controller goes on restoring its entries of a contested route
\* (grpcroute_reconcile.go:107, tlsroute_reconcile.go:98-119, status_route.go:264).
QueueDrains ==
    \/ <>[](queue = {} /\ work = Idle)
    \/ []<>(/\ kind = "GRPCRoute"
            /\ \E x \in Routes : seen.routes[x].phase = "live" /\ Unresolvable(seen, seen.routes[x]))
    \/ []<><<\E x \in Routes : Contested(api.routes[x]) /\ TheyWrite(x)>>_vars
=============================================================================
