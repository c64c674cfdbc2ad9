-------------------------- MODULE GatewayReconcile --------------------------
(***************************************************************************)
(* The Gateway controller: one Gateway object, the objects the controller  *)
(* derives from it (Service, Endpoints, DolphinEnvoyConfig and             *)
(* CiliumEnvoyConfig), the informer caches the reconciler reads, the work  *)
(* queue and its single worker.  The worker's steps follow                 *)
(* gatewayReconciler.Reconcile (pkg/gateway_api/gateway_reconcile.go); one *)
(* step ends at each API call that can fail or that others can observe.    *)
(* The watches are those of SetupWithManager (pkg/gateway_api/gateway.go). *)
(*                                                                         *)
(* Status().Update is guarded by the object's resourceVersion.  Only       *)
(* equality with the stored version matters, so "fresh" says whether the   *)
(* cached Gateway is the stored version and "wfresh" whether the worker's  *)
(* copy is.                                                                *)
(***************************************************************************)
EXTENDS Naturals

CONSTANTS
    Config,         \* contents of a Gateway's spec (listeners, infrastructure)
    UDPOnly,        \* the ones that yield neither HTTP, TLS nor TCP listeners
    NoSource,       \* the ones that yield no listener at all
    RouteState,     \* contents of the attached routes of one group
    Addr,           \* addresses a load balancer hands out
    WithSets,       \* the ones that valid ListenerSets are attached to
    ListenerSetCRD, \* is the optional ListenerSet CRD installed?
    Class,          \* the GatewayClasses a Gateway may name
    Ours,           \* the ones that name this controller
    InitClasses,    \* the ones that exist at the start
    None,           \* no object, no content, no address
    MaxGen,         \* bound: generations of the Gateway's spec
    MaxEdits,       \* bound: edits of routes and address changes
    MaxFaults       \* bound: failed API calls and operator restarts

ASSUME SetsAssumption ==
    /\ UDPOnly \subseteq Config
    /\ NoSource \subseteq Config
    /\ Ours \subseteq Class
    /\ InitClasses \subseteq Class
ASSUME NoneAssumption == None \notin Config \cup RouteState \cup Addr \cup Class
ASSUME ListenerSetAssumption ==
    /\ WithSets \subseteq Config
    /\ ListenerSetCRD \in BOOLEAN
    /\ WithSets # {} => ListenerSetCRD
ASSUME BoundsAssumption ==
    MaxGen \in Nat \ {0} /\ MaxEdits \in Nat /\ MaxFaults \in Nat

VARIABLES
    gw, svc, ep, dec, cec,       \* objects in the API server
    routes,                      \* the attached routes: l7 (HTTP, GRPC), l4 (TLS, TCP, UDP)
    classes,                     \* GatewayClass objects
    cgw, csvc, cep, cdec, croutes,  \* informer caches
    fresh,                       \* cgw is the stored version of gw
    queued,                      \* the Gateway's key is in the work queue
    pc, orig, copy, wfresh, rts, \* the worker and its local variables
    edits, faults                \* spent budgets

objects == <<gw, svc, ep, dec, cec, routes, classes>>
caches  == <<cgw, csvc, cep, cdec, croutes>>
locals  == <<orig, copy, wfresh, rts>>
derived == <<svc, ep, dec, cec>>
vars == <<objects, caches, fresh, queued, pc, locals, edits, faults>>

-----------------------------------------------------------------------------
(* Objects.                                                                *)

Cond(v, g) == [v |-> v, gen |-> g]
NoRoutes == [l7 |-> None, l4 |-> None]
NoSvc == [cfg |-> None, lb |-> None]
NoDec == [cfg |-> None, l7 |-> None, l4 |-> None]

\* The status a Gateway is created with (the CRD's default conditions).
NoStatus == [acc  |-> Cond("Unknown", 0), prog |-> Cond("Unknown", 0),
             lst  |-> [gen |-> 0, routes |-> NoRoutes],
             addr |-> None, als |-> 0]
NoGw == [phase |-> "gone", gen |-> 0, cfg |-> None, class |-> None, st |-> NoStatus]

Routes == [l7 : RouteState, l4 : RouteState]
RoutesOrNone == [l7 : RouteState \cup {None}, l4 : RouteState \cup {None}]
Condition == [v : {"Unknown", "True", "False"}, gen : 0 .. MaxGen]
Status == [acc : Condition, prog : Condition,
           lst : [gen : 0 .. MaxGen, routes : RoutesOrNone],
           addr : Addr \cup {None}, als : Nat]
Gateway == [phase : {"live", "deleting", "gone"}, gen : 0 .. MaxGen,
            cfg : Config \cup {None}, class : Class \cup {None}, st : Status]
Service == [cfg : Config \cup {None}, lb : Addr \cup {None}]
EnvoyConfig == [cfg : Config \cup {None}, l7 : RouteState \cup {None},
                l4 : RouteState \cup {None}]

\* Mutant: any class that exists is taken for a matching one.
hasExistingClass(g) == g.phase # "gone" /\ g.class \in classes

\* Mutant: the class is not looked up.
hasNamedClass(g) == g.phase # "gone" /\ g.class \in Ours

\* hasMatchingController: the Gateway's class exists and names this controller.
hasMatchingController(g) ==
    g.phase # "gone" /\ g.class \in Ours /\ g.class \in classes

SetAccepted(g, v) == [g EXCEPT !.st.acc = Cond(v, g.gen)]
SetProgrammed(g, v) == [g EXCEPT !.st.prog = Cond(v, g.gen)]

\* The statuses of the listeners, with the routes attached to each, and the
\* number of attached ListenerSets, 1 standing for any but none.
setListenerStatus(g, r) == [g EXCEPT !.st.lst = [gen |-> g.gen, routes |-> r]]
setListenerSetStatuses(g) == [g EXCEPT !.st.als = IF g.cfg \in WithSets THEN 1 ELSE 0]

\* The envoy configuration Translate derives from the Gateway and its routes.
Translated == [cfg |-> copy.cfg, l7 |-> rts.l7, l4 |-> rts.l4]

-----------------------------------------------------------------------------
(* How a reconcile ends.                                                   *)

ClearLocals ==
    pc' = "idle" /\ orig' = NoGw /\ copy' = NoGw /\ wfresh' = FALSE /\ rts' = NoRoutes
Succeed == ClearLocals /\ UNCHANGED queued
\* Mutant: the error is swallowed and the key is not retried.
FailWithoutRetry == ClearLocals /\ UNCHANGED queued
Fail == ClearLocals /\ queued' = TRUE
ApiFault == faults < MaxFaults /\ faults' = faults + 1

-----------------------------------------------------------------------------
(* The worker.                                                             *)

\* Step 1 of Reconcile: take the key, read the Gateway from the cache.
GetGateway ==
    /\ pc = "idle" /\ queued
    /\ queued' = FALSE
    /\ \/ cgw.phase # "live" /\ UNCHANGED <<pc, locals>>
       \/ /\ cgw.phase = "live"
          /\ pc' = "class" /\ orig' = cgw /\ copy' = cgw /\ wfresh' = fresh
          /\ UNCHANGED rts
    /\ UNCHANGED <<objects, caches, fresh, edits, faults>>

\* A missing GatewayClass and one of another controller both end in Success.
GetGatewayClass ==
    /\ pc = "class"
    /\ \/ ~hasMatchingController(orig) /\ Succeed
       \/ /\ hasMatchingController(orig)
          /\ pc' = "gather"
          /\ UNCHANGED <<queued, locals>>
    /\ UNCHANGED <<objects, caches, fresh, edits, faults>>

\* List everything, write the statuses of the routes and of the BackendTLS
\* policies, list the ListenerSets.  Until here copy = orig, so the error path
\* writes nothing.  Listing ListenerSets fails while their CRD is missing.
GatherInputs ==
    /\ pc = "gather"
    /\ \/ /\ UNCHANGED faults
          /\ IF ListenerSetCRD
             THEN pc' = "listeners" /\ rts' = croutes /\ UNCHANGED <<queued, orig, copy, wfresh>>
             ELSE Fail
       \/ ApiFault /\ Fail
    /\ UNCHANGED <<objects, caches, fresh, edits>>

\* setListenerStatus(copy), setGatewayAccepted(copy, true), then
\* setListenerSetStatuses(gw) and Translate, which mark the original, not copy.
AcceptGateway ==
    /\ pc = "listeners"
    /\ \/ /\ copy' = setListenerStatus(SetAccepted(copy, "True"), rts)
          /\ \/ /\ copy.cfg \notin NoSource
                /\ orig' = setListenerSetStatuses(orig)
                /\ pc' = "service"
             \/ /\ copy.cfg \in NoSource
                /\ orig' = SetAccepted(setListenerSetStatuses(orig), "False")
                /\ pc' = "error"
          /\ UNCHANGED faults
       \/ /\ ApiFault
          /\ copy' = SetAccepted(copy, "False")
          /\ pc' = "error" /\ UNCHANGED orig
    /\ UNCHANGED <<objects, caches, fresh, queued, wfresh, rts, edits>>

\* After acceptance a failed step marks the original and persists copy.
FailAfterAcceptance ==
    pc' = "error" /\ orig' = SetAccepted(orig, "False") /\ UNCHANGED <<copy, wfresh, rts>>

\* CreateOrPatch chooses Create or Patch by the cached object: Create of an
\* object that is stored, and Patch of one that is not, are refused.
CanApply(cachedExists, storedExists) == cachedExists = storedExists

\* The patch is the difference to the cached object; the fields the API server
\* fills in (node ports, cluster IP) are part of every patch of a Service.
EnsureService ==
    /\ pc = "service"
    /\ \/ /\ CanApply(csvc.cfg # None, svc.cfg # None)
          /\ \/ svc' = [svc EXCEPT !.cfg = copy.cfg]
             \/ csvc.cfg = copy.cfg /\ svc' = svc
          /\ pc' = "endpoints" /\ UNCHANGED <<locals, faults>>
       \/ /\ ~CanApply(csvc.cfg # None, svc.cfg # None)
          /\ FailAfterAcceptance /\ UNCHANGED <<svc, faults>>
       \/ ApiFault /\ FailAfterAcceptance /\ UNCHANGED svc
    /\ UNCHANGED <<gw, ep, dec, cec, routes, classes, caches, fresh, queued, edits>>

\* The Endpoints are the same for every Gateway: a dummy address and port.
EnsureEndpoints ==
    /\ pc = "endpoints"
    /\ \/ /\ CanApply(cep, ep)
          /\ ep' = TRUE
          /\ pc' = IF copy.cfg \in UDPOnly THEN "deleteDEC" ELSE "DEC"
          /\ UNCHANGED <<locals, faults>>
       \/ /\ ~CanApply(cep, ep)
          /\ FailAfterAcceptance /\ UNCHANGED <<ep, faults>>
       \/ ApiFault /\ FailAfterAcceptance /\ UNCHANGED ep
    /\ UNCHANGED <<gw, svc, dec, cec, routes, classes, caches, fresh, queued, edits>>

\* No patch is sent when the cached DolphinEnvoyConfig equals the desired one.
EnsureEnvoyConfig ==
    /\ pc = "DEC"
    /\ \/ /\ CanApply(cdec.cfg # None, dec.cfg # None)
          /\ dec' = IF cdec = Translated THEN dec ELSE Translated
          /\ pc' = "CEC" /\ UNCHANGED <<locals, faults>>
       \/ /\ ~CanApply(cdec.cfg # None, dec.cfg # None)
          /\ FailAfterAcceptance /\ UNCHANGED <<dec, faults>>
       \/ ApiFault /\ FailAfterAcceptance /\ UNCHANGED dec
    /\ UNCHANGED <<gw, svc, ep, cec, routes, classes, caches, fresh, queued, edits>>

\* CiliumEnvoyConfigs are unstructured: they are read from the API server.
EnsureCiliumEnvoyConfig ==
    /\ pc = "CEC"
    /\ \/ cec' = Translated /\ pc' = "address" /\ UNCHANGED <<locals, faults>>
       \/ ApiFault /\ FailAfterAcceptance /\ UNCHANGED cec
    /\ UNCHANGED <<gw, svc, ep, dec, routes, classes, caches, fresh, queued, edits>>

\* Mutant: the envoy configuration of an earlier spec is left behind.
KeepEnvoyConfig ==
    /\ pc = "deleteDEC" /\ pc' = "deleteCEC"
    /\ UNCHANGED <<objects, caches, fresh, queued, locals, edits, faults>>

\* deleteEnvoyConfigs, first half: a missing object is not an error.
DeleteEnvoyConfig ==
    /\ pc = "deleteDEC"
    /\ \/ dec' = NoDec /\ pc' = "deleteCEC" /\ UNCHANGED faults
       \/ ApiFault /\ pc' = "error" /\ UNCHANGED dec
    /\ UNCHANGED <<gw, svc, ep, cec, routes, classes, caches, fresh, queued, locals, edits>>

\* deleteEnvoyConfigs, second half.
DeleteCiliumEnvoyConfig ==
    /\ pc = "deleteCEC"
    /\ \/ cec' = NoDec /\ pc' = "address" /\ UNCHANGED faults
       \/ ApiFault /\ pc' = "error" /\ UNCHANGED cec
    /\ UNCHANGED <<gw, svc, ep, dec, routes, classes, caches, fresh, queued, locals, edits>>

\* Mutant: Programmed although the Service has no address yet.
SetMissingAddress ==
    /\ pc = "address"
    /\ copy' = [SetProgrammed(copy, "True") EXCEPT !.st.addr = csvc.lb]
    /\ pc' = "update"
    /\ UNCHANGED <<orig, objects, caches, fresh, queued, wfresh, rts, edits, faults>>

\* The address comes from the cached Service; without one the reconcile fails.
SetAddressStatus ==
    /\ pc = "address"
    /\ \/ /\ csvc.cfg # None /\ csvc.lb # None
          /\ copy' = [SetProgrammed(copy, "True") EXCEPT !.st.addr = csvc.lb]
          /\ pc' = "update" /\ UNCHANGED orig
       \/ /\ csvc.cfg = None \/ csvc.lb = None
          /\ orig' = SetProgrammed(orig, "False")
          /\ pc' = "error" /\ UNCHANGED copy
    /\ UNCHANGED <<objects, caches, fresh, queued, wfresh, rts, edits, faults>>

\* Mutant: the write is not guarded by the resourceVersion.
StatusOverwrite ==
    gw.phase # "gone" /\ gw' = [gw EXCEPT !.st = copy.st] /\ fresh' = FALSE

\* Status().Update(copy): refused unless copy is the stored version.  A write
\* that changes nothing but transition times may or may not make a new version.
StatusWrite ==
    /\ gw.phase # "gone" /\ wfresh
    /\ gw' = [gw EXCEPT !.st = copy.st]
    /\ \/ fresh' = FALSE
       \/ gw.st = copy.st /\ UNCHANGED fresh
NoStatusWrite == UNCHANGED <<gw, fresh>>
StatusRefused == gw.phase = "gone" \/ ~wfresh

\* Mutant: the status is written even when nothing in it has changed.
UpdateStatusAlways ==
    /\ pc = "update"
    /\ \/ gw.phase # "gone" /\ wfresh /\ gw' = [gw EXCEPT !.st = copy.st]
          /\ fresh' = FALSE /\ Succeed
       \/ StatusRefused /\ NoStatusWrite /\ Fail
    /\ UNCHANGED <<derived, routes, classes, caches, edits, faults>>

\* updateStatus at the end of a successful reconcile.
UpdateStatus ==
    /\ pc = "update"
    /\ \/ orig.st = copy.st /\ NoStatusWrite /\ Succeed /\ UNCHANGED faults
       \/ orig.st # copy.st /\ StatusWrite /\ Succeed /\ UNCHANGED faults
       \/ orig.st # copy.st /\ StatusRefused /\ NoStatusWrite /\ Fail /\ UNCHANGED faults
       \/ orig.st # copy.st /\ ApiFault /\ NoStatusWrite /\ Fail
    /\ UNCHANGED <<derived, routes, classes, caches, edits>>

\* handleReconcileErrorWithStatus: the same write, then the key is retried.
HandleReconcileErrorWithStatus ==
    /\ pc = "error"
    /\ Fail
    /\ \/ orig.st = copy.st /\ NoStatusWrite /\ UNCHANGED faults
       \/ orig.st # copy.st /\ StatusWrite /\ UNCHANGED faults
       \/ orig.st # copy.st /\ StatusRefused /\ NoStatusWrite /\ UNCHANGED faults
       \/ orig.st # copy.st /\ ApiFault /\ NoStatusWrite
    /\ UNCHANGED <<derived, routes, classes, caches, edits>>

Reconcile ==
    \/ GetGateway \/ GetGatewayClass \/ GatherInputs \/ AcceptGateway
    \/ EnsureService \/ EnsureEndpoints \/ EnsureEnvoyConfig \/ EnsureCiliumEnvoyConfig
    \/ DeleteEnvoyConfig \/ DeleteCiliumEnvoyConfig
    \/ SetAddressStatus \/ UpdateStatus \/ HandleReconcileErrorWithStatus

-----------------------------------------------------------------------------
(* Informers: a cache catches up and the watch enqueues.                   *)

\* Mutant: only the old object is looked at.
SyncGatewayOldOnly ==
    /\ ~fresh
    /\ cgw' = gw /\ fresh' = TRUE
    /\ queued' = (queued \/ hasMatchingController(cgw))
    /\ UNCHANGED <<objects, csvc, cep, cdec, croutes, pc, locals, edits, faults>>

\* Predicate GatewayOwnedByController: the old or the new object matches.
SyncGateway ==
    /\ ~fresh
    /\ cgw' = gw /\ fresh' = TRUE
    /\ queued' = (queued \/ hasMatchingController(cgw) \/ hasMatchingController(gw))
    /\ UNCHANGED <<objects, csvc, cep, cdec, croutes, pc, locals, edits, faults>>

\* Owns(Service) and Owns(DolphinEnvoyConfig) enqueue the owner.
SyncService ==
    /\ csvc # svc
    /\ csvc' = svc /\ queued' = TRUE
    /\ UNCHANGED <<objects, cgw, cep, cdec, croutes, fresh, pc, locals, edits, faults>>

SyncEnvoyConfig ==
    /\ cdec # dec
    /\ cdec' = dec /\ queued' = TRUE
    /\ UNCHANGED <<objects, cgw, csvc, cep, croutes, fresh, pc, locals, edits, faults>>

\* Endpoints are cached but not watched (the controller owns EndpointSlices).
SyncEndpoints ==
    /\ cep # ep
    /\ cep' = ep
    /\ UNCHANGED <<objects, cgw, csvc, cdec, croutes, fresh, queued, pc, locals, edits, faults>>

\* Mutant: no route event enqueues anything.
SyncRoutesSilently ==
    /\ croutes # routes
    /\ croutes' = routes
    /\ UNCHANGED <<objects, cgw, csvc, cep, cdec, fresh, queued, pc, locals, edits, faults>>

\* HTTPRoute and GRPCRoute events enqueue the matching parents.  TLSRoutes are
\* not watched, and the TCPRoute and UDPRoute handlers compare the class with
\* the wrong controller name, so l4 changes enqueue nothing.
SyncRoutes ==
    /\ croutes # routes
    /\ croutes' = routes
    /\ queued' = (queued \/ (croutes.l7 # routes.l7 /\ hasMatchingController(cgw)))
    /\ UNCHANGED <<objects, cgw, csvc, cep, cdec, fresh, pc, locals, edits, faults>>

Informers ==
    SyncGateway \/ SyncService \/ SyncEnvoyConfig \/ SyncEndpoints \/ SyncRoutes

-----------------------------------------------------------------------------
(* Users, the cluster and crashes.                                         *)

EditGateway ==
    /\ gw.phase = "live" /\ gw.gen < MaxGen
    /\ \E c \in Config, k \in Class :
          /\ <<c, k>> # <<gw.cfg, gw.class>>
          /\ gw' = [gw EXCEPT !.cfg = c, !.class = k, !.gen = gw.gen + 1]
    /\ fresh' = FALSE /\ wfresh' = FALSE
    /\ UNCHANGED <<derived, routes, classes, caches, queued, pc, orig, copy, rts, edits, faults>>

\* With a finalizer the object is first marked, then removed.
DeleteGateway ==
    /\ \/ gw.phase = "live" /\ \E p \in {"deleting", "gone"} : gw' = [gw EXCEPT !.phase = p]
       \/ gw.phase = "deleting" /\ gw' = [gw EXCEPT !.phase = "gone"]
    /\ fresh' = FALSE /\ wfresh' = FALSE
    /\ UNCHANGED <<derived, routes, classes, caches, queued, pc, orig, copy, rts, edits, faults>>

\* The cluster's garbage collector removes what a removed Gateway owned.
GarbageCollect ==
    /\ gw.phase = "gone"
    /\ derived # <<NoSvc, FALSE, NoDec, NoDec>>
    /\ svc' = NoSvc /\ ep' = FALSE /\ dec' = NoDec /\ cec' = NoDec
    /\ UNCHANGED <<gw, routes, classes, caches, fresh, queued, pc, locals, edits, faults>>

EditRoutes ==
    /\ edits < MaxEdits /\ edits' = edits + 1
    /\ \E s \in RouteState :
          \/ s # routes.l7 /\ routes' = [routes EXCEPT !.l7 = s]
          \/ s # routes.l4 /\ routes' = [routes EXCEPT !.l4 = s]
    /\ UNCHANGED <<gw, derived, classes, caches, fresh, queued, pc, locals, faults>>

CreateClass ==
    /\ \E k \in Class \ classes : classes' = classes \cup {k}
    /\ UNCHANGED <<gw, derived, routes, caches, fresh, queued, pc, locals, edits, faults>>

AssignAddress ==
    /\ svc.cfg # None /\ svc.lb = None
    /\ \E a \in Addr : svc' = [svc EXCEPT !.lb = a]
    /\ UNCHANGED <<gw, ep, dec, cec, routes, classes, caches, fresh, queued, pc, locals, edits, faults>>

ChangeAddress ==
    /\ svc.lb # None /\ edits < MaxEdits /\ edits' = edits + 1
    /\ \E a \in Addr \ {svc.lb} : svc' = [svc EXCEPT !.lb = a]
    /\ UNCHANGED <<gw, ep, dec, cec, routes, classes, caches, fresh, queued, pc, locals, faults>>

\* A new process lists everything before it works; every listed object is a
\* create event, and owned objects enqueue their owner whatever its class.
Restart ==
    /\ ApiFault
    /\ cgw' = gw /\ csvc' = svc /\ cep' = ep /\ cdec' = dec /\ croutes' = routes
    /\ fresh' = TRUE
    /\ ClearLocals
    /\ queued' = (hasMatchingController(gw) \/ svc.cfg # None \/ dec.cfg # None)
    /\ UNCHANGED <<objects, edits>>

Environment ==
    \/ EditGateway \/ DeleteGateway \/ GarbageCollect \/ EditRoutes
    \/ CreateClass \/ AssignAddress \/ ChangeAddress \/ Restart

-----------------------------------------------------------------------------
Init ==
    /\ \E c \in Config, k \in Class :
          gw = [phase |-> "live", gen |-> 1, cfg |-> c, class |-> k, st |-> NoStatus]
    /\ routes \in Routes /\ croutes = routes
    /\ classes = InitClasses
    /\ svc = NoSvc /\ ep = FALSE /\ dec = NoDec /\ cec = NoDec
    /\ cgw = NoGw /\ csvc = NoSvc /\ cep = FALSE /\ cdec = NoDec
    /\ fresh = FALSE /\ queued = FALSE
    /\ pc = "idle" /\ orig = NoGw /\ copy = NoGw /\ wfresh = FALSE /\ rts = NoRoutes
    /\ edits = 0 /\ faults = 0

Next == Reconcile \/ Informers \/ Environment

Spec == Init /\ [][Next]_vars

\* The worker and the informers never stop; the cloud assigns an address and
\* collects garbage.  Users and restarts owe nothing.
Fairness ==
    /\ WF_vars(Reconcile)
    /\ WF_vars(SyncGateway) /\ WF_vars(SyncService) /\ WF_vars(SyncEnvoyConfig)
    /\ WF_vars(SyncEndpoints) /\ WF_vars(SyncRoutes)
    /\ WF_vars(AssignAddress) /\ WF_vars(GarbageCollect)

FairSpec == Spec /\ Fairness

-----------------------------------------------------------------------------
(* Properties.                                                             *)

FlagsOK ==
    /\ ep \in BOOLEAN /\ cep \in BOOLEAN
    /\ fresh \in BOOLEAN /\ wfresh \in BOOLEAN /\ queued \in BOOLEAN

\* Every variable stays in its domain: in particular no status, cached or
\* stored, ever carries a generation the Gateway has not had.
TypeOK ==
    /\ gw \in Gateway /\ cgw \in Gateway /\ orig \in Gateway /\ copy \in Gateway
    /\ svc \in Service /\ csvc \in Service
    /\ dec \in EnvoyConfig /\ cdec \in EnvoyConfig /\ cec \in EnvoyConfig
    /\ FlagsOK
    /\ routes \in Routes /\ croutes \in Routes /\ rts \in RoutesOrNone
    /\ classes \subseteq Class
    /\ pc \in {"idle", "class", "gather", "listeners", "service", "endpoints", "DEC",
               "CEC", "deleteDEC", "deleteCEC", "address", "update", "error"}
    /\ edits \in 0 .. MaxEdits /\ faults \in 0 .. MaxFaults

Synced ==
    fresh /\ csvc = svc /\ cep = ep /\ cdec = dec /\ croutes = routes
Managed == gw.phase = "live" /\ hasMatchingController(gw)

\* The envoy configuration d is what the Gateway and the HTTP and GRPC routes
\* in state l7 ask for.
EnvoyApplied(d, l7) ==
    IF gw.cfg \in UDPOnly THEN d = NoDec ELSE d.cfg = gw.cfg /\ d.l7 = l7
Converged ==
    /\ gw.st.acc = Cond("True", gw.gen) /\ gw.st.prog = Cond("True", gw.gen)
    /\ gw.st.lst.gen = gw.gen /\ gw.st.lst.routes.l7 = routes.l7
    /\ gw.st.addr = svc.lb /\ svc.lb # None
    /\ svc.cfg = gw.cfg /\ ep
    /\ EnvoyApplied(dec, routes.l7) /\ EnvoyApplied(cec, routes.l7)

\* No event is lost: when the work queue is empty, the worker idle and the
\* caches up to date, a managed Gateway is reported Programmed at its current
\* generation and every derived object has the content its spec and its HTTP
\* routes ask for.  Reconcile's early returns, its unpersisted error statuses
\* and its reads of stale caches must all be followed by another event.
QuiescentConverged ==
    (pc = "idle" /\ ~queued /\ Synced /\ Managed /\ classes = InitClasses) => Converged

\* The worker's last read of the Gateway, its class and the caches is current.
Steady == ~queued /\ fresh /\ Managed /\ classes = InitClasses

\* What the worker has achieved when it has come to step pc.  Everything is
\* relative to the caches: a change that reaches them enqueues the Gateway, one
\* that is undone before it does is never seen.
Later == {"service", "endpoints", "DEC", "CEC", "deleteDEC", "deleteCEC", "address", "update"}
Started == pc \in {"class", "gather", "listeners"} => orig = gw /\ copy = gw
Gathered == pc \in Later \cup {"listeners"} => rts.l7 = croutes.l7
Accepted ==
    pc \in Later =>
        /\ copy.cfg = gw.cfg /\ copy.gen = gw.gen
        /\ copy.st.acc = Cond("True", gw.gen)
        /\ copy.st.lst.gen = gw.gen /\ copy.st.lst.routes.l7 = croutes.l7
        /\ orig.st.acc = gw.st.acc /\ orig.st.prog = gw.st.prog
        /\ orig.st.lst = gw.st.lst /\ orig.st.addr = gw.st.addr
ServiceApplied ==
    pc \in (Later \ {"service"}) \cup {"idle"} => (csvc.cfg = svc.cfg => svc.cfg = gw.cfg)
EndpointsApplied == pc \in (Later \ {"service", "endpoints"}) \cup {"idle"} => ep
ConfigKind ==
    /\ pc \in {"DEC", "CEC"} => gw.cfg \notin UDPOnly
    /\ pc \in {"deleteDEC", "deleteCEC"} => gw.cfg \in UDPOnly
DecApplied ==
    pc \in {"CEC", "deleteCEC", "address", "update", "idle"} =>
        (cdec = dec => EnvoyApplied(dec, croutes.l7))
CecApplied == pc \in {"address", "update", "idle"} => EnvoyApplied(cec, croutes.l7)
AddressSet ==
    pc = "update" =>
        copy.st.prog = Cond("True", gw.gen) /\ copy.st.addr = csvc.lb /\ csvc.lb # None
StatusWritten ==
    pc = "idle" =>
        /\ gw.st.acc = Cond("True", gw.gen) /\ gw.st.prog = Cond("True", gw.gen)
        /\ gw.st.lst.gen = gw.gen /\ gw.st.lst.routes.l7 = croutes.l7
        /\ gw.st.addr = csvc.lb /\ csvc.lb # None

WorkerDone ==
    /\ Started /\ Gathered /\ Accepted /\ ServiceApplied /\ EndpointsApplied
    /\ ConfigKind /\ DecApplied /\ CecApplied /\ AddressSet /\ StatusWritten

\* The strengthening of QuiescentConverged that every step of Reconcile keeps:
\* as long as no event is outstanding, the worker's copy is the stored Gateway
\* plus what the steps so far have decided, and the objects it has passed are
\* applied; an error step ends in a retry and promises nothing.
WorkerInv ==
    /\ fresh => cgw = gw
    /\ InitClasses \subseteq classes
    /\ Steady => WorkerDone

\* What keeps Reconcile from accepting the Gateway.
Barred ==
    \/ gw.gen = 1 /\ gw.class \notin Ours \cap classes
    \/ Ours \cap classes = {}
    \/ ~ListenerSetCRD

\* A Gateway that never had a class of this controller, whose class does not
\* exist yet, or whose inputs cannot be listed is left alone: Reconcile's returns
\* before acceptance derive nothing and write no status, on every retry.
NoEffectBeforeAcceptance ==
    Barred => derived = <<NoSvc, FALSE, NoDec, NoDec>> /\ gw.st = NoStatus

\* The strengthening of NoEffectBeforeAcceptance: before its first edit the
\* cache and the worker know no other class of the Gateway, and the worker of a
\* barred Gateway has come no further than listing the ListenerSets.
BarredInv ==
    /\ gw.gen >= 1
    /\ gw.gen = 1 => /\ cgw.class \in {gw.class, None}
                     /\ pc = "class" => orig.class \in {gw.class, None}
    /\ Barred => /\ svc = NoSvc /\ ep = FALSE /\ dec = NoDec /\ cec = NoDec
                 /\ gw.st = NoStatus
                 /\ pc \in {"idle", "class", "gather"}
                 /\ pc = "gather" => ~ListenerSetCRD

\* A status that reaches the API server describes the spec that is stored at
\* that moment, and no condition goes back to an older generation: updateStatus
\* writes what a worker computed from a cached, possibly outdated, Gateway and
\* relies on the resourceVersion to refuse it.
StatusDescribesSpec ==
    [][gw'.st # gw.st => /\ gw'.st.acc.gen = gw.gen
                         /\ gw'.st.prog.gen >= gw.st.prog.gen
                         /\ gw'.st.lst.gen >= gw.st.lst.gen]_vars

CecFor(c) == IF c \in UDPOnly THEN None ELSE c

\* A Gateway reported Programmed at its current generation has an address, a
\* Service, Endpoints and the CiliumEnvoyConfig of that very generation,
\* whatever caches were stale, calls failed or restarts happened on the way.
ProgrammedMeansApplied ==
    (gw.phase # "gone" /\ gw.st.prog = Cond("True", gw.gen)) =>
        /\ gw.st.addr # None /\ svc.cfg # None /\ ep
        /\ cec.cfg = CecFor(gw.cfg)

\* The strengthening of StatusDescribesSpec: generations only grow from the
\* worker's copy to the cache to the API server, equal generations mean equal
\* specs, and a copy whose write will be accepted is not behind.
VersionInv ==
    /\ fresh => cgw = gw
    /\ cgw.gen <= gw.gen /\ (cgw.gen = gw.gen => cgw.cfg = gw.cfg)
    /\ gw.st.prog.gen <= cgw.gen /\ gw.st.lst.gen <= cgw.gen
    /\ cgw.st.prog.gen <= cgw.gen /\ cgw.st.lst.gen <= cgw.gen
    /\ gw.phase # "gone" => gw.cfg \in Config
    /\ cgw.phase # "gone" => cgw.cfg \in Config
    /\ pc = "idle" => ~wfresh
    /\ pc # "idle" =>
          /\ copy.cfg \in Config
          /\ copy.gen <= cgw.gen /\ (copy.gen = gw.gen => copy.cfg = gw.cfg)
          /\ gw.st.prog.gen <= copy.gen /\ gw.st.lst.gen <= copy.gen
          /\ copy.st.prog.gen <= copy.gen /\ copy.st.lst.gen <= copy.gen
    /\ pc \in Later \cup {"error"} => copy.st.acc.gen = copy.gen
    /\ wfresh => /\ gw.phase = "live" /\ copy.gen = gw.gen
                 /\ pc # "update" => copy.st.prog = gw.st.prog /\ copy.st.addr = gw.st.addr
                 /\ pc = "update" => copy.st.prog.gen = gw.gen
                 /\ copy.st.lst.gen >= gw.st.lst.gen

\* The strengthening of ProgrammedMeansApplied, by the step the worker is at.
AppliedInv ==
    /\ ProgrammedMeansApplied
    /\ pc \in {"DEC", "CEC"} => copy.cfg \notin UDPOnly
    /\ pc \in {"deleteDEC", "deleteCEC"} => copy.cfg \in UDPOnly
    /\ wfresh =>
          /\ pc \in Later \ {"service"} => svc.cfg # None
          /\ pc \in Later \ {"service", "endpoints"} => ep
          /\ pc \in {"address", "update"} => cec.cfg = CecFor(gw.cfg)
          /\ pc = "update" => copy.st.addr # None

\* Once users stop editing and calls stop failing the controller comes to
\* rest: no reconcile keeps triggering the next one.  Two Gateways of this
\* controller are the exceptions.  One without any listener fails and is retried
\* for ever.  For one with a ListenerSet attached, setListenerSetStatuses counts
\* the sets in the original only (gateway_reconcile.go:827, 936), so updateStatus
\* finds a difference every time and writes a status that differs in transition
\* times alone, and that write is the event that starts the next reconcile.
Quiesces ==
    \/ <>[](pc = "idle" /\ ~queued)
    \/ <>[](Managed /\ gw.cfg \in NoSource \cup WithSets)

\* "The reconciler will be triggered by Gateway and related resource events"
\* (gateway.go:87): a Gateway of an existing class of this controller is
\* eventually programmed, or stops being one.  (The formula is equivalent to
\* Managed ~> ~Managed \/ ..., and cheaper for TLC.)
EventuallyProgrammed ==
    []<>(Managed => gw.cfg \in NoSource \/ gw.st.prog.v = "True")

\* "It returns an error if required CRDs are missing and returns the GVKs of
\* optional CRDs that are installed" (cell.go:175): a Gateway is programmed
\* whether or not the optional ListenerSet CRD is installed.
OptionalCRDOptional ==
    (Managed /\ ~ListenerSetCRD) ~> (~Managed \/ gw.cfg \in NoSource \/ gw.st.prog.v = "True")
=============================================================================
