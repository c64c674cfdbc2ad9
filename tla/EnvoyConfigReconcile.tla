------------------------ MODULE EnvoyConfigReconcile -------------------------
(***************************************************************************)
(* The L7 load balancer controller (pkg/dolphinenvoyconfig) for the        *)
(* Services of one name: it keeps a DolphinEnvoyConfig for a Service that  *)
(* asks for one and deletes that of a Service that does not.  A Service    *)
(* deleted and created again has another uid; the cluster's garbage        *)
(* collector removes a configuration whose controlling uid is gone.        *)
(*                                                                         *)
(* A Service spec is [lb, ports, mode]: the annotation lb-l7 is "enabled", *)
(* its ports, and the annotation lb-l7-algorithm ("" when unset).  Of the  *)
(* resources in a configuration (listener, route and cluster, all named    *)
(* after the Service) only the cluster's policy differs between specs.     *)
(* "unseen" holds the versions of the configuration its watch has still to *)
(* deliver; "wfresh" says that the worker's copy is the stored version.    *)
(***************************************************************************)
EXTENDS Naturals

CONSTANTS
    Specs,             \* the specs users may write
    L7Ports,           \* option loadbalancer-l7-port
    DefaultAlgorithm,  \* option loadbalancer-l7-algo
    Policies,          \* the algorithms Envoy knows
    None,
    MaxUid,            \* bound on the Services of the name, one after another
    MaxUpsets          \* bound on edits, foreign writes, faults and restarts together

ASSUME NoneAssumption == None \notin Policies
ASSUME RoundRobinAssumption == "ROUND_ROBIN" \in Policies
ASSUME SpecAssumption ==
    Specs \subseteq [lb : BOOLEAN, ports : SUBSET Nat, mode : STRING]
ASSUME BoundsAssumption == MaxUid \in Nat \ {0} /\ MaxUpsets \in Nat

VARIABLES
    svc, dec,              \* the stored Service and configuration
    csvc, cdec, unseen,    \* the informer caches
    queued,                \* the Service's key is in the work queue
    pc, wsvc, wdec, wfresh, \* the worker and its local variables
    upsets

stored == <<svc, dec>>
cached == <<csvc, cdec, unseen>>
worker == <<pc, wsvc, wdec, wfresh>>
vars   == <<stored, cached, queued, worker, upsets>>

Uids == 0 .. MaxUid
NoDec == [owner |-> 0, policy |-> None]
Decs == [owner : Uids, policy : Policies \cup {None}]

\* A Service is [uid, last, spec]: uid 0 when there is none, last the newest uid.
Services == [uid : Uids, last : Uids, spec : Specs]

-----------------------------------------------------------------------------
isLBProtocolAnnotationEnabled(s) == s.lb

hasAnyPort(s) == s.ports \cap L7Ports # {}

\* An unknown algorithm counts as the first value of the protobuf enumeration,
\* in the option and in the annotation.
lbPolicy(name) == IF name \in Policies THEN name ELSE "ROUND_ROBIN"

\* getClustersResource and lbModeClusterMutator.
getClustersResource(s) == lbPolicy(IF s.mode = "" THEN DefaultAlgorithm ELSE s.mode)

\* The policy the Service's configuration should have, None for no configuration.
Desired(s) ==
    IF isLBProtocolAnnotationEnabled(s) \/ hasAnyPort(s) THEN getClustersResource(s) ELSE None

Upset == upsets < MaxUpsets /\ upsets' = upsets + 1

\* The cached configuration is the stored version.
fresh == unseen = {}

\* A write makes a new version.
NewVersion(d) == dec' = d /\ unseen' = unseen \cup {d}

-----------------------------------------------------------------------------
(* Reconcile *)

Finish == pc' = "idle" /\ UNCHANGED <<wsvc, wdec, wfresh>>
Succeed == Finish /\ UNCHANGED queued
\* Mutant: an error ends the request.
FailQuietly == Finish /\ UNCHANGED queued
Fail == Finish /\ queued' = TRUE

\* Take the key and read the Service from the cache; without one there is
\* nothing to do, its configuration is the garbage collector's.
GetService ==
    /\ pc = "idle" /\ queued
    /\ queued' = FALSE
    /\ \/ csvc.uid = 0 /\ UNCHANGED worker
       \/ csvc.uid # 0 /\ pc' = "lookup" /\ wsvc' = csvc /\ UNCHANGED <<wdec, wfresh>>
    /\ UNCHANGED <<stored, cached, upsets>>

\* Read the configuration from the cache.  Without one there is nothing to
\* delete; whether DeepEqual looks beyond the specs decides whether a
\* configuration that is as desired is written again.
LookupEnvoyConfig ==
    /\ pc = "lookup"
    /\ wdec' = cdec /\ wfresh' = fresh /\ UNCHANGED wsvc
    /\ \/ cdec.policy = Desired(wsvc.spec) /\ pc' = "idle"
       \/ ~(cdec.policy = None /\ Desired(wsvc.spec) = None) /\ pc' = "apply"
    /\ UNCHANGED <<stored, cached, queued, upsets>>

\* createOrUpdateDolphinEnvoyConfig.  Create is refused when the object exists
\* and Update when the version is not the stored one.  An update keeps the
\* metadata of the object it found, the owner included; one that changes
\* nothing makes no new version.
createOrUpdateDolphinEnvoyConfig ==
    /\ pc = "apply" /\ Desired(wsvc.spec) # None
    /\ \/ /\ wdec.policy = None /\ dec.policy = None
          /\ NewVersion([owner |-> wsvc.uid, policy |-> Desired(wsvc.spec)])
          /\ Succeed
       \/ /\ wdec.policy = None /\ dec.policy # None
          /\ Fail /\ UNCHANGED <<dec, unseen>>
       \/ /\ wdec.policy # None /\ wfresh /\ dec.policy # Desired(wsvc.spec)
          /\ NewVersion([owner |-> wdec.owner, policy |-> Desired(wsvc.spec)])
          /\ Succeed
       \/ /\ wdec.policy # None /\ wfresh /\ dec.policy = Desired(wsvc.spec)
          /\ Succeed /\ UNCHANGED <<dec, unseen>>
       \/ /\ wdec.policy # None /\ ~wfresh
          /\ Fail /\ UNCHANGED <<dec, unseen>>
    /\ UNCHANGED <<svc, csvc, cdec, upsets>>

\* deleteEnvoyConfig: whatever configuration has the name, whoever owns it.
deleteEnvoyConfig ==
    /\ pc = "apply" /\ Desired(wsvc.spec) = None
    /\ \/ dec.policy # None /\ NewVersion(NoDec) /\ Succeed
       \/ dec.policy = None /\ Fail /\ UNCHANGED <<dec, unseen>>
    /\ UNCHANGED <<svc, csvc, cdec, upsets>>

\* A call to the API server or a lookup fails.
Fault ==
    /\ pc # "idle" /\ Upset
    /\ Fail
    /\ UNCHANGED <<stored, cached>>

Reconcile ==
    GetService \/ LookupEnvoyConfig \/ createOrUpdateDolphinEnvoyConfig \/ deleteEnvoyConfig

-----------------------------------------------------------------------------
(* Watches *)

\* For(Service).
DeliverService ==
    /\ csvc # svc
    /\ csvc' = svc /\ queued' = TRUE
    /\ UNCHANGED <<stored, cdec, unseen, worker, upsets>>

\* Mutant: configurations are cached but not watched.
EnqueueNobody(versions) == FALSE

\* Owns(DolphinEnvoyConfig) enqueues the Service that the old or the new object
\* of an event names as its controller, whatever uid it has.
EnqueueOwner(versions) == \E d \in versions : d.owner # 0

DeliverEnvoyConfig ==
    /\ ~fresh
    /\ cdec' = dec /\ unseen' = {}
    /\ queued' = (queued \/ EnqueueOwner({cdec} \cup unseen))
    /\ UNCHANGED <<stored, csvc, worker, upsets>>

-----------------------------------------------------------------------------
(* Users, the garbage collector, restarts *)

\* Another writer's new version of the configuration.
Foreign(d) == NewVersion(d) /\ wfresh' = FALSE

EditService ==
    /\ svc.uid # 0 /\ Upset
    /\ \E s \in Specs \ {svc.spec} : svc' = [svc EXCEPT !.spec = s]
    /\ UNCHANGED <<dec, cached, queued, worker>>

DeleteService ==
    /\ svc.uid # 0 /\ Upset
    /\ svc' = [svc EXCEPT !.uid = 0]
    /\ UNCHANGED <<dec, cached, queued, worker>>

CreateService ==
    /\ svc.uid = 0 /\ svc.last < MaxUid /\ Upset
    /\ \E s \in Specs : svc' = [uid |-> svc.last + 1, last |-> svc.last + 1, spec |-> s]
    /\ UNCHANGED <<dec, cached, queued, worker>>

\* Someone changes or deletes the configuration.
Tamper ==
    /\ dec.policy # None /\ Upset
    /\ \/ Foreign(NoDec)
       \/ \E p \in Policies \ {dec.policy} : Foreign([dec EXCEPT !.policy = p])
    /\ UNCHANGED <<svc, csvc, cdec, queued, pc, wsvc, wdec>>

\* The owner is gone.
Orphaned(d) == d.owner # 0 /\ d.owner # svc.uid

Collect ==
    /\ Orphaned(dec)
    /\ Foreign(NoDec)
    /\ UNCHANGED <<svc, csvc, cdec, queued, pc, wsvc, wdec, upsets>>

\* A new process lists both kinds before it works; each object is an event.
Restart ==
    /\ Upset
    /\ csvc' = svc /\ cdec' = dec /\ unseen' = {}
    /\ queued' = (svc.uid # 0 \/ EnqueueOwner({dec}))
    /\ Finish
    /\ UNCHANGED stored

Environment ==
    EditService \/ DeleteService \/ CreateService \/ Tamper \/ Collect \/ Restart \/ Fault

\* The configuration's name, dolphin-envoy-lb-<service>, is this controller's alone.
Init ==
    /\ svc \in {s \in Services : s.uid \in {0, 1} /\ s.last = s.uid}
    /\ dec = NoDec
    /\ csvc = svc /\ cdec = dec /\ unseen = {}
    /\ queued = (svc.uid # 0)
    /\ pc = "idle" /\ wsvc = svc /\ wdec = NoDec /\ wfresh = FALSE
    /\ upsets = 0

Next == Reconcile \/ DeliverService \/ DeliverEnvoyConfig \/ Environment

Spec == Init /\ [][Next]_vars

\* The worker and the informers keep running; so does the garbage collector.
FairSpec ==
    /\ Spec
    /\ WF_vars(Reconcile) /\ WF_vars(DeliverService) /\ WF_vars(DeliverEnvoyConfig)
    /\ WF_vars(Collect)

-----------------------------------------------------------------------------
\* The values of the variables.
TypeOK ==
    /\ svc \in Services /\ csvc \in Services /\ wsvc \in Services
    /\ dec \in Decs /\ cdec \in Decs /\ wdec \in Decs
    /\ unseen \subseteq Decs /\ wfresh \in BOOLEAN /\ queued \in BOOLEAN
    /\ pc \in {"idle", "lookup", "apply"}
    /\ upsets \in 0 .. MaxUpsets

Quiescent == pc = "idle" /\ ~queued /\ csvc = svc /\ fresh /\ ~Orphaned(dec)

Settled ==
    /\ svc.uid # 0 => dec.policy = Desired(svc.spec)
    /\ svc.uid = 0 => dec.policy = None

\* When no request, event or collection is outstanding, a Service that asks for
\* load balancing has its configuration with its current policy, one that does
\* not has none, and a Service that is gone has left none behind: although the
\* reconciler reads both objects from caches, keeps a replaced Service's uid in
\* the configuration it updates, and leaves a deleted Service to the collector.
QuiescentSettled == Quiescent => Settled

\* The configuration a Service ends with stays: once users, faults and restarts
\* rest, the queue drains for good and the configuration is the desired one.
EventuallySettled == <>[](Quiescent /\ Settled)
=============================================================================
