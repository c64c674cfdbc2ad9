-------------------------- MODULE EnvoyConfigProofs --------------------------
(***************************************************************************)
(* Proofs about EnvoyConfigReconcile, for all specs, algorithms and ports  *)
(* and any number of Services and upsets: its variables keep their types,  *)
(* and a controller with nothing left to do leaves the desired             *)
(* configuration.                                                          *)
(***************************************************************************)
EXTENDS EnvoyConfigReconcile, TLAPS

\* A desired policy is one Envoy knows.
LEMMA DesiredType == ASSUME NEW s PROVE Desired(s) \in Policies \cup {None}
BY RoundRobinAssumption DEF Desired, getClustersResource, lbPolicy

LEMMA NoDecType == NoDec \in Decs
BY BoundsAssumption DEF NoDec, Decs, Uids

\* A write leaves the versions in their domain.
LEMMA NewVersionType ==
    ASSUME TypeOK, NEW d \in Decs, NewVersion(d)
    PROVE  dec' \in Decs /\ unseen' \subseteq Decs
BY DEF TypeOK, NewVersion

\* A step of the reconciler leaves the worker where it may be.
LEMMA WorkerType ==
    ASSUME TypeOK, Succeed \/ Fail
    PROVE  /\ wsvc' \in Services /\ wdec' \in Decs /\ wfresh' \in BOOLEAN
           /\ queued' \in BOOLEAN /\ pc' \in {"idle", "lookup", "apply"}
BY Zenon DEF TypeOK, Succeed, Fail, Finish

LEMMA UpsetType == ASSUME TypeOK, Upset PROVE upsets' \in 0 .. MaxUpsets
BY BoundsAssumption DEF TypeOK, Upset

\* What createOrUpdateDolphinEnvoyConfig may leave stored.
LEMMA WriteType ==
    ASSUME TypeOK, createOrUpdateDolphinEnvoyConfig
    PROVE  dec' \in Decs /\ unseen' \subseteq Decs /\ (Succeed \/ Fail)
<1> DEFINE made == [owner |-> wsvc.uid, policy |-> Desired(wsvc.spec)]
           kept == [owner |-> wdec.owner, policy |-> Desired(wsvc.spec)]
<1>1. made \in Decs /\ kept \in Decs
  BY DesiredType DEF TypeOK, Decs, Services
<1>2. \/ NewVersion(made) /\ Succeed
      \/ NewVersion(kept) /\ Succeed
      \/ UNCHANGED <<dec, unseen>> /\ (Succeed \/ Fail)
  BY Zenon DEF createOrUpdateDolphinEnvoyConfig
<1> HIDE DEF made, kept
<1>3. CASE NewVersion(made) /\ Succeed
  BY <1>1, <1>3, NewVersionType
<1>4. CASE NewVersion(kept) /\ Succeed
  BY <1>1, <1>4, NewVersionType
<1>5. CASE UNCHANGED <<dec, unseen>> /\ (Succeed \/ Fail)
  BY <1>5 DEF TypeOK
<1>q. QED
  BY <1>2, <1>3, <1>4, <1>5

\* Every step keeps the variables in their domains.
LEMMA TypeStep == TypeOK /\ [Next]_vars => TypeOK'
<1> SUFFICES ASSUME TypeOK, [Next]_vars PROVE TypeOK'
  OBVIOUS
<1>s. CASE UNCHANGED vars
  BY <1>s DEF vars, stored, cached, worker, TypeOK
<1>1. CASE GetService
  BY <1>1 DEF GetService, stored, cached, worker, TypeOK
<1>2. CASE LookupEnvoyConfig
  BY <1>2 DEF LookupEnvoyConfig, stored, cached, fresh, TypeOK
<1>3. CASE createOrUpdateDolphinEnvoyConfig
  <2>1. UNCHANGED <<svc, csvc, cdec, upsets>>
    BY <1>3 DEF createOrUpdateDolphinEnvoyConfig
  <2>q. QED
    BY <1>3, <2>1, WriteType, WorkerType, Zenon DEF TypeOK
<1>4. CASE deleteEnvoyConfig
  <2>1. UNCHANGED <<svc, csvc, cdec, upsets>> /\ (Succeed \/ Fail)
    BY <1>4, Zenon DEF deleteEnvoyConfig
  <2>2. dec' \in Decs /\ unseen' \subseteq Decs
    BY <1>4, NewVersionType, NoDecType DEF deleteEnvoyConfig, TypeOK
  <2>q. QED
    BY <2>1, <2>2, WorkerType, Zenon DEF TypeOK
<1>5. CASE Fault
  BY <1>5, WorkerType, UpsetType DEF Fault, stored, cached, TypeOK
<1>6. CASE DeliverService
  BY <1>6 DEF DeliverService, stored, worker, TypeOK
<1>7. CASE DeliverEnvoyConfig
  <2>1. queued' \in BOOLEAN
    BY <1>7 DEF DeliverEnvoyConfig
  <2>q. QED
    BY <1>7, <2>1 DEF DeliverEnvoyConfig, stored, worker, TypeOK
<1>8. CASE EditService
  BY <1>8, UpsetType DEF EditService, cached, worker, TypeOK, Services
<1>9. CASE DeleteService
  BY <1>9, UpsetType, BoundsAssumption DEF DeleteService, cached, worker, TypeOK, Services, Uids
<1>10. CASE CreateService
  <2>1. svc' \in Services
    BY <1>10, BoundsAssumption DEF CreateService, TypeOK, Services, Uids
  <2>q. QED
    BY <1>10, <2>1, UpsetType DEF CreateService, cached, worker, TypeOK
<1>11. CASE Tamper
  <2>1. PICK d \in Decs : Foreign(d)
    BY <1>11, NoDecType DEF Tamper, TypeOK, Decs
  <2>q. QED
    BY <1>11, <2>1, NewVersionType, UpsetType DEF Tamper, Foreign, TypeOK
<1>12. CASE Collect
  BY <1>12, NewVersionType, NoDecType DEF Collect, Foreign, TypeOK
<1>13. CASE Restart
  <2>1. queued' \in BOOLEAN
    BY <1>13 DEF Restart
  <2>q. QED
    BY <1>13, <2>1, UpsetType DEF Restart, Finish, stored, TypeOK
<1>q. QED
  BY <1>s, <1>1, <1>2, <1>3, <1>4, <1>5, <1>6, <1>7, <1>8, <1>9, <1>10, <1>11, <1>12, <1>13
     DEF Next, Reconcile, Environment

\* The controller's variables keep their types.
THEOREM TypeCorrect == Spec => []TypeOK
<1>1. Init => TypeOK
  <2> SUFFICES ASSUME Init PROVE TypeOK
    OBVIOUS
  <2>1. svc \in Services /\ upsets \in 0 .. MaxUpsets /\ queued \in BOOLEAN
    BY BoundsAssumption DEF Init
  <2>q. QED
    BY <2>1, NoDecType DEF Init, TypeOK
<1>q. QED
  BY <1>1, TypeStep, PTL DEF Spec

-----------------------------------------------------------------------------
(* Quiescence. *)

\* A configuration exists when it has an owner: the watch sees all of them.
Owned(d) == d.owner # 0 <=> d.policy # None

\* Versions: every one is owned, and the stored one is cached or under way.
VersionInv ==
    /\ Owned(dec) /\ Owned(cdec) /\ Owned(wdec) /\ \A d \in unseen : Owned(d)
    /\ unseen = {} => cdec = dec
    /\ unseen # {} => dec \in unseen

\* The worker's Service is the cached one, or it will look again.
WorkerInv == pc # "idle" => wsvc.uid # 0 /\ (queued \/ wsvc = csvc)

\* With no request for the cached Service, its configuration is as desired, or a
\* version is under way whose event makes a request.
RestInv ==
    pc = "idle" /\ ~queued /\ csvc.uid # 0 =>
      /\ unseen = {} => cdec.policy = Desired(csvc.spec)
      /\ Desired(csvc.spec) = None \/ \E d \in {cdec} \cup unseen : d.owner # 0

\* A write keeps the versions in order.
LEMMA NewVersionInv ==
    ASSUME VersionInv, NEW d, Owned(d), NewVersion(d), UNCHANGED cdec, Owned(wdec)'
    PROVE  VersionInv'
BY DEF VersionInv, NewVersion, Owned

LEMMA VersionStep == TypeOK /\ VersionInv /\ WorkerInv /\ [Next]_vars => VersionInv'
<1> SUFFICES ASSUME TypeOK, VersionInv, WorkerInv, [Next]_vars PROVE VersionInv'
  OBVIOUS
<1>n. Owned(NoDec)
  BY DEF Owned, NoDec
<1>s. CASE UNCHANGED <<dec, cdec, unseen, wdec>>
  BY <1>s DEF VersionInv, Owned
<1>2. CASE LookupEnvoyConfig
  BY <1>2 DEF LookupEnvoyConfig, stored, cached, VersionInv, Owned
<1>3. CASE createOrUpdateDolphinEnvoyConfig
  <2> DEFINE made == [owner |-> wsvc.uid, policy |-> Desired(wsvc.spec)]
             kept == [owner |-> wdec.owner, policy |-> Desired(wsvc.spec)]
  <2>1. pc = "apply" /\ Desired(wsvc.spec) # None /\ wsvc.uid # 0 /\ UNCHANGED <<cdec, wdec>>
    BY <1>3 DEF createOrUpdateDolphinEnvoyConfig, Succeed, Fail, Finish, WorkerInv
  <2>2. CASE NewVersion(made)
    BY <2>1, <2>2, NewVersionInv DEF Owned, VersionInv
  <2>3. CASE NewVersion(kept) /\ wdec.policy # None
    BY <2>1, <2>3, NewVersionInv DEF Owned, VersionInv
  <2>4. CASE UNCHANGED <<dec, unseen>>
    BY <1>s, <2>1, <2>4
  <2>q. QED
    BY <1>3, <2>2, <2>3, <2>4 DEF createOrUpdateDolphinEnvoyConfig
<1>4. CASE deleteEnvoyConfig
  <2>1. UNCHANGED <<cdec, wdec>>
    BY <1>4 DEF deleteEnvoyConfig, Succeed, Fail, Finish
  <2>2. NewVersion(NoDec) \/ UNCHANGED <<dec, unseen>>
    BY <1>4 DEF deleteEnvoyConfig
  <2>q. QED
    BY <1>n, <1>s, <2>1, <2>2, NewVersionInv DEF VersionInv, Owned
<1>7. CASE DeliverEnvoyConfig
  BY <1>7 DEF DeliverEnvoyConfig, stored, worker, VersionInv, Owned
<1>11. CASE Tamper
  <2>1. PICK d : NewVersion(d) /\ Owned(d)
    <3>1. CASE Foreign(NoDec)
      BY <1>n, <3>1 DEF Foreign
    <3>2. CASE \E p \in Policies \ {dec.policy} : Foreign([dec EXCEPT !.policy = p])
      <4>1. PICK p \in Policies \ {dec.policy} : Foreign([dec EXCEPT !.policy = p])
        BY <3>2
      <4>2. Owned([dec EXCEPT !.policy = p])
        BY <1>11, NoneAssumption DEF Tamper, TypeOK, Decs, VersionInv, Owned
      <4>q. QED
        BY <4>1, <4>2 DEF Foreign
    <3>q. QED
      BY <1>11, <3>1, <3>2 DEF Tamper
  <2>q. QED
    BY <1>11, <2>1, NewVersionInv DEF Tamper, VersionInv, Owned
<1>12. CASE Collect
  BY <1>12, <1>n, NewVersionInv DEF Collect, Foreign, VersionInv, Owned
<1>13. CASE Restart
  BY <1>13 DEF Restart, Finish, stored, VersionInv, Owned
<1>q. QED
  BY <1>s, <1>2, <1>3, <1>4, <1>7, <1>11, <1>12, <1>13
     DEF Next, Reconcile, Environment, GetService, Fault, DeliverService, EditService,
         DeleteService, CreateService, Fail, Finish, vars, stored, cached, worker

LEMMA WorkerStep == TypeOK /\ WorkerInv /\ [Next]_vars => WorkerInv'
<1> SUFFICES ASSUME TypeOK, WorkerInv, [Next]_vars PROVE WorkerInv'
  OBVIOUS
<1> USE DEF WorkerInv, stored, cached, worker, Finish, Succeed, Fail
<1>1. CASE GetService
  BY <1>1 DEF GetService
<1>2. CASE LookupEnvoyConfig
  BY <1>2 DEF LookupEnvoyConfig
<1>3. CASE createOrUpdateDolphinEnvoyConfig
  BY <1>3 DEF createOrUpdateDolphinEnvoyConfig
<1>4. CASE deleteEnvoyConfig \/ Fault \/ Restart
  BY <1>4 DEF deleteEnvoyConfig, Fault, Restart
<1>5. CASE DeliverService
  BY <1>5 DEF DeliverService
<1>6. CASE DeliverEnvoyConfig
  BY <1>6 DEF DeliverEnvoyConfig
<1>7. CASE EditService \/ DeleteService \/ CreateService \/ Tamper \/ Collect \/ UNCHANGED vars
  BY <1>7 DEF EditService, DeleteService, CreateService, Tamper, Collect, vars
<1>q. QED
  BY <1>1, <1>2, <1>3, <1>4, <1>5, <1>6, <1>7 DEF Next, Reconcile, Environment

\* The stored version, when it is owned, is one the watch has or will bring.
LEMMA StoredSeen ==
    ASSUME VersionInv, dec.policy # None
    PROVE  \E d \in {cdec} \cup unseen : d.owner # 0
BY DEF VersionInv, Owned

LEMMA RestStep == TypeOK /\ VersionInv /\ WorkerInv /\ RestInv /\ [Next]_vars => RestInv'
<1> SUFFICES ASSUME TypeOK, VersionInv, WorkerInv, RestInv, [Next]_vars,
                    pc' = "idle", ~queued', csvc'.uid # 0
             PROVE  /\ unseen' = {} => cdec'.policy = Desired(csvc'.spec)
                    /\ Desired(csvc'.spec) = None \/ \E d \in {cdec'} \cup unseen' : d.owner # 0
  BY DEF RestInv
<1>s. CASE UNCHANGED <<csvc, cdec, unseen, pc, queued>>
  BY <1>s DEF RestInv
<1>1. CASE GetService
  BY <1>1 DEF GetService, cached, worker
<1>2. CASE LookupEnvoyConfig
  <2>1. wsvc = csvc /\ cdec.policy = Desired(wsvc.spec) /\ UNCHANGED cached
    BY <1>2 DEF LookupEnvoyConfig, WorkerInv
  <2>q. QED
    BY <2>1 DEF cached, VersionInv, Owned
<1>3. CASE createOrUpdateDolphinEnvoyConfig
  <2>1. wsvc = csvc /\ wsvc.uid # 0 /\ UNCHANGED <<csvc, cdec>>
    BY <1>3 DEF createOrUpdateDolphinEnvoyConfig, WorkerInv, Succeed, Fail
  <2>2. CASE NewVersion([owner |-> wsvc.uid, policy |-> Desired(wsvc.spec)])
    BY <2>1, <2>2 DEF NewVersion
  <2>3. CASE NewVersion([owner |-> wdec.owner, policy |-> Desired(wsvc.spec)]) /\ wdec.policy # None
    BY <2>1, <2>3 DEF NewVersion, VersionInv, Owned
  <2>4. CASE UNCHANGED <<dec, unseen>> /\ dec.policy = Desired(wsvc.spec)
    BY <1>3, <2>1, <2>4, StoredSeen DEF createOrUpdateDolphinEnvoyConfig, VersionInv
  <2>q. QED
    BY <1>3, <2>2, <2>3, <2>4 DEF createOrUpdateDolphinEnvoyConfig, Fail
<1>4. CASE deleteEnvoyConfig
  <2>1. wsvc = csvc /\ Desired(wsvc.spec) = None /\ UNCHANGED csvc
    BY <1>4 DEF deleteEnvoyConfig, WorkerInv, Succeed, Fail
  <2>2. NewVersion(NoDec)
    BY <1>4 DEF deleteEnvoyConfig, Fail
  <2>q. QED
    BY <2>1, <2>2 DEF NewVersion
<1>5. CASE Fault \/ DeliverService
  BY <1>5 DEF Fault, DeliverService, Fail
<1>7. CASE DeliverEnvoyConfig
  <2>1. ~queued /\ pc = "idle" /\ UNCHANGED <<csvc, dec>> /\ cdec' = dec /\ unseen' = {}
    BY <1>7 DEF DeliverEnvoyConfig, worker, stored
  <2>2. \A d \in {cdec} \cup unseen : d.owner = 0
    BY <1>7 DEF DeliverEnvoyConfig, EnqueueOwner
  <2>3. Desired(csvc.spec) = None
    BY <2>1, <2>2 DEF RestInv
  <2>4. dec.policy = None
    BY <2>2, StoredSeen
  <2>q. QED
    BY <2>1, <2>3, <2>4
<1>8. CASE Tamper \/ Collect
  <2>1. /\ dec.policy # None /\ UNCHANGED <<csvc, cdec, pc, queued>>
        /\ \E d : unseen' = unseen \cup {d}
    BY <1>8 DEF Tamper, Collect, Orphaned, Foreign, NewVersion, VersionInv, Owned
  <2>q. QED
    BY <2>1, StoredSeen
<1>13. CASE Restart
  BY <1>13 DEF Restart, EnqueueOwner
<1>q. QED
  BY <1>s, <1>1, <1>2, <1>3, <1>4, <1>5, <1>7, <1>8, <1>13
     DEF Next, Reconcile, Environment, EditService, DeleteService, CreateService,
         vars, cached, worker

\* When the queue is empty, the caches current and the collector idle, every
\* Service has the configuration it asks for, and no deleted one has left any.
THEOREM QuiescentIsSettled == Spec => []QuiescentSettled
<1>1. Init => VersionInv /\ WorkerInv /\ RestInv
  <2> SUFFICES ASSUME Init PROVE VersionInv /\ WorkerInv /\ RestInv
    OBVIOUS
  <2>1. VersionInv
    BY DEF Init, VersionInv, Owned, NoDec
  <2>2. csvc.uid # 0 => queued
    BY DEF Init
  <2>q. QED
    BY <2>1, <2>2, Zenon DEF Init, WorkerInv, RestInv
<1>2. VersionInv /\ RestInv => QuiescentSettled
  BY DEF VersionInv, RestInv, QuiescentSettled, Quiescent, Settled, Orphaned, Owned, fresh
<1>q. QED
  BY <1>1, <1>2, VersionStep, WorkerStep, RestStep, TypeCorrect, PTL DEF Spec
=============================================================================
