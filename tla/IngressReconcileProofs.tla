----------------------- MODULE IngressReconcileProofs ------------------------
(***************************************************************************)
(* Proofs about IngressReconcile, for every set of Ingresses and revisions *)
(* and any number of upsets: its variables keep their types, the           *)
(* configurations it publishes behave as IngressPublication promises, it   *)
(* forgets no Ingress, and what it has published once nothing is left to   *)
(* do is up to date.                                                       *)
(***************************************************************************)
EXTENDS IngressReconcile, TLAPS

USE ZenonT(40)

WorkType ==
    [pc : PCs, req : Ingresses \cup {Pseudo}, rev : Nat, mode : Modes,
     want : [Ingresses -> Nat], left : SUBSET Kinds]

Requests == Ingresses \cup {Pseudo}

\* Reconcile writes a status only in the two modes that have a Service.
StatusMode == work.pc = "status" => work.mode \in {"dedicated", "shared"}

TypeInv == TypeOK /\ StatusMode

LEMMA IdleType == Idle \in WorkType /\ Idle.pc = "idle" /\ Nothing \in [Ingresses -> Nat]
BY DEF Idle, WorkType, PCs, Modes, Nothing

\* A request that fails or is dropped leaves an idle worker.
LEMMA FailType ==
    ASSUME TypeInv, FailRequest
    PROVE  work' \in WorkType /\ StatusMode' /\ queue' \subseteq Requests
BY IdleType DEF FailRequest, TypeInv, TypeOK, Requests, StatusMode, WorkType

LEMMA OwnerType == ASSUME NEW kind, NEW i PROVE EnqueueOwner(kind, i) \subseteq {i}
BY DEF EnqueueOwner

LEMMA StopType ==
    ASSUME Stop
    PROVE  work' \in WorkType /\ StatusMode' /\ queue' \subseteq Requests /\ up' \in BOOLEAN
BY IdleType DEF Stop, StatusMode

LEMMA InitialType ==
    ASSUME NEW default PROVE InitialRequests(default) \subseteq Requests
<1>1. UNION {EnqueueOwner("dec", i) : i \in {j \in Ingresses : decs[j] # 0}} \subseteq Ingresses
  <2> SUFFICES ASSUME NEW x \in UNION {EnqueueOwner("dec", i) : i \in {j \in Ingresses : decs[j] # 0}}
               PROVE  x \in Ingresses
    OBVIOUS
  <2>1. PICK i \in Ingresses : x \in EnqueueOwner("dec", i)
    OBVIOUS
  <2>q. QED
    BY <2>1, OwnerType
<1>2. {Pseudo : i \in {j \in Ingresses : shared[j] # 0}} \subseteq {Pseudo}
  OBVIOUS
<1>q. QED
  BY <1>1, <1>2 DEF InitialRequests, Requests

\* The steps of the worker.
LEMMA WorkTypeStep == TypeInv /\ Work => TypeInv'
<1> SUFFICES ASSUME TypeInv, Work PROVE TypeInv'
  OBVIOUS
<1>w. work \in WorkType /\ queue \subseteq Requests /\ TypeOK
  BY DEF TypeInv, TypeOK, WorkType, Requests
<1>1. CASE Classify
  <2>1. work' \in WorkType /\ StatusMode' /\ queue' \subseteq Requests
    <3>1. CASE FailRequest
      BY <3>1, FailType
    <3>2. CASE /\ queue' = queue
               /\ \/ work' = [work EXCEPT !.pc = "list", !.mode = "unmanaged"]
                  \/ work' = [work EXCEPT !.pc = "list", !.mode = "shared"]
                  \/ work' = [work EXCEPT !.pc = "dec", !.mode = "dedicated"]
      BY <1>w, <3>2 DEF WorkType, StatusMode, PCs, Modes
    <3>q. QED
      BY <1>1, <3>1, <3>2 DEF Classify
  <2>q. QED
    BY <1>1, <1>w, <2>1 DEF Classify, TypeInv, TypeOK, WorkType, Requests, world, published, caches
<1>2. CASE WriteDolphinEnvoyConfig
  <2>1. work' \in WorkType /\ StatusMode'
    BY <1>2, <1>w, IdleType DEF WriteDolphinEnvoyConfig, WorkType, StatusMode, Goto, PCs
  <2>2. decs' \in [Ingresses -> Nat]
    <3>1. decs \in [Ingresses -> Nat] /\ work.rev \in Nat
      BY <1>w DEF TypeOK, WorkType
    <3>2. decs' = decs \/ decs' = [decs EXCEPT ![work.req] = work.rev]
      BY <1>2 DEF WriteDolphinEnvoyConfig
    <3>q. QED
      BY <3>1, <3>2
  <2>3. queue' \subseteq Requests
    BY <1>2, <1>w, OwnerType, SMT DEF WriteDolphinEnvoyConfig, WorkType, Requests
  <2>q. QED
    BY <1>2, <1>w, <2>1, <2>2, <2>3
       DEF WriteDolphinEnvoyConfig, TypeInv, TypeOK, WorkType, Requests, world, caches
<1>3. CASE WriteService
  <2>1. work' \in WorkType /\ StatusMode'
    BY <1>3, <1>w, IdleType DEF WriteService, WorkType, StatusMode, Goto, PCs
  <2>2. svc' \in [Ingresses -> {"none", "pending", "assigned"}]
    <3> DEFINE new == IF svc[work.req] = "none" THEN "pending" ELSE svc[work.req]
    <3>1. work.req \in Ingresses => new \in {"none", "pending", "assigned"}
      BY <1>w DEF TypeOK
    <3>2. svc' = svc \/ svc' = [svc EXCEPT ![work.req] = new]
      BY <1>3 DEF WriteService
    <3> HIDE DEF new
    <3>q. QED
      BY <1>w, <3>1, <3>2 DEF TypeOK
  <2>3. queue' \subseteq Requests
    BY <1>3, <1>w, OwnerType, SMT DEF WriteService, WorkType, Requests
  <2>q. QED
    BY <1>3, <1>w, <2>1, <2>2, <2>3
       DEF WriteService, TypeInv, TypeOK, WorkType, Requests, world, caches
<1>4. CASE ListShared
  <2>1. work' \in WorkType /\ StatusMode' /\ queue' \subseteq Requests
    <3>1. CASE FailRequest
      BY <3>1, FailType
    <3>2. CASE ~FailRequest
      <4> DEFINE want == [i \in Ingresses |->
                            IF InSharedModel(Cached(i), seenDefault) THEN seen[i] ELSE 0]
      <4>1. want \in [Ingresses -> Nat]
        BY <1>w DEF TypeOK
      <4>2. work' = [work EXCEPT !.pc = "shared", !.want = want] /\ queue' = queue
        BY <1>4, <3>2 DEF ListShared
      <4> HIDE DEF want
      <4>q. QED
        BY <1>w, <4>1, <4>2 DEF WorkType, StatusMode, PCs
    <3>q. QED
      BY <3>1, <3>2
  <2>q. QED
    BY <1>4, <1>w, <2>1 DEF ListShared, TypeInv, TypeOK, WorkType, Requests, world, published, caches
<1>5. CASE WriteShared
  <2>1. work' \in WorkType /\ StatusMode'
    <3>1. CASE work' = Idle
      BY <3>1, IdleType DEF StatusMode
    <3>2. CASE work' = [work EXCEPT !.pc = "status", !.want = Nothing] /\ work.mode = "dedicated"
      BY <1>w, <3>2, IdleType DEF WorkType, StatusMode, PCs
    <3>3. CASE work' = [work EXCEPT !.pc = "delete", !.want = Nothing, !.left = Kinds]
      BY <1>w, <3>3, IdleType DEF WorkType, StatusMode, PCs
    <3>q. QED
      BY <1>5, <3>1, <3>2, <3>3 DEF WriteShared
  <2>2. shared' \in [Ingresses -> Nat] /\ queue' \subseteq Requests
    BY <1>5, <1>w DEF WriteShared, WorkType, Requests
  <2>q. QED
    BY <1>5, <1>w, <2>1, <2>2 DEF WriteShared, TypeInv, TypeOK, WorkType, Requests, world, caches
<1>6. ASSUME NEW kind \in Kinds, DeleteDedicated(kind) PROVE TypeInv'
  <2>1. work' \in WorkType /\ StatusMode'
    <3>1. PICK pc \in PCs :
            /\ work' = [work EXCEPT !.left = @ \ {kind}, !.pc = pc]
            /\ pc = "status" => work.mode = "shared"
      BY <1>6, <1>w DEF DeleteDedicated, WorkType, PCs, At
    <3>q. QED
      BY <1>w, <3>1 DEF WorkType, StatusMode
  <2>2. decs' \in [Ingresses -> Nat]
    BY <1>6, <1>w DEF DeleteDedicated, TypeOK
  <2>3. svc' \in [Ingresses -> {"none", "pending", "assigned"}]
    BY <1>6, <1>w DEF DeleteDedicated, TypeOK
  <2>4. queue' \subseteq Requests
    BY <1>6, <1>w, OwnerType, SMT DEF DeleteDedicated, WorkType, Requests
  <2>q. QED
    BY <1>6, <1>w, <2>1, <2>2, <2>3, <2>4
       DEF DeleteDedicated, TypeInv, TypeOK, WorkType, Requests, world, caches
<1>7. CASE UpdateStatus
  <2>1. addr' \in [Ingresses -> {"none", "dedicated", "shared"}]
    BY <1>7, <1>w DEF UpdateStatus, TypeInv, StatusMode, TypeOK, At
  <2>2. work' \in WorkType /\ StatusMode'
    BY <1>7, IdleType DEF UpdateStatus, FailRequest, StatusMode
  <2>3. queue' \subseteq Requests
    BY <1>7, <1>w DEF UpdateStatus, FailRequest, WorkType, Requests
  <2>q. QED
    BY <1>7, <1>w, <2>1, <2>2, <2>3
       DEF UpdateStatus, TypeInv, TypeOK, WorkType, Requests, world, caches
<1>8. CASE ClearStatus
  <2>1. addr' \in [Ingresses -> {"none", "dedicated", "shared"}]
    BY <1>8, <1>w DEF ClearStatus, TypeOK
  <2>2. work' \in WorkType /\ StatusMode'
    BY <1>8, IdleType DEF ClearStatus, StatusMode
  <2>q. QED
    BY <1>8, <1>w, <2>1, <2>2
       DEF ClearStatus, TypeInv, TypeOK, WorkType, Requests, world, caches
<1>q. QED
  BY <1>1, <1>2, <1>3, <1>4, <1>5, <1>6, <1>7, <1>8 DEF Work

\* Every step keeps the variables in their domains.
LEMMA TypeStep == TypeInv /\ [Next]_vars => TypeInv'
<1> SUFFICES ASSUME TypeInv, [Next]_vars PROVE TypeInv'
  OBVIOUS
<1>w. work \in WorkType /\ queue \subseteq Requests /\ TypeOK /\ StatusMode
  BY DEF TypeInv, TypeOK, WorkType, Requests
<1>u. Upset => upsets' \in Nat
  BY <1>w, SMT DEF Upset, TypeOK
<1> USE DEF WorkType, Requests
<1>s. CASE UNCHANGED vars
  BY <1>s, <1>w DEF vars, world, published, caches, TypeInv, TypeOK, StatusMode
<1>1. ASSUME NEW r \in Requests, Start(r) PROVE TypeInv'
  <2>1. work' \in WorkType /\ StatusMode'
    <3>1. r # Pseudo => r \in Ingresses /\ seen[r] \in Nat
      BY <1>w DEF TypeOK
    <3>2. \/ work' = Idle
          \/ work' = [Idle EXCEPT !.pc = "list"]
          \/ r # Pseudo /\ work' = [Idle EXCEPT !.pc = "list", !.req = r, !.rev = seen[r]]
          \/ r # Pseudo /\ work' = [Idle EXCEPT !.pc = "classify", !.req = r, !.rev = seen[r]]
      BY <1>1 DEF Start
    <3>q. QED
      BY <3>1, <3>2, IdleType DEF StatusMode, PCs
  <2>2. queue' \subseteq Requests
    BY <1>1, <1>w DEF Start
  <2>q. QED
    BY <1>1, <1>w, <2>1, <2>2 DEF Start, TypeInv, TypeOK, world, published, caches
<1>2. CASE Work
  BY <1>2, WorkTypeStep
<1>3. ASSUME NEW i \in Ingresses, Deliver(i) PROVE TypeInv'
  <2>1. seen' \in [Ingresses -> Nat]
    BY <1>3, <1>w, SMT DEF Deliver, TypeOK
  <2>2. CASE Stop
    BY <1>3, <1>w, <2>1, <2>2, StopType DEF Deliver, TypeInv, TypeOK, world, published
  <2>3. CASE UNCHANGED <<up, work>> /\ queue' \subseteq queue \cup {i}
    BY <1>3, <1>w, <2>1, <2>3 DEF Deliver, TypeInv, TypeOK, StatusMode, world, published
  <2>q. QED
    BY <1>3, <2>2, <2>3 DEF Deliver
<1>4. CASE DeliverClass
  BY <1>4, <1>w DEF DeliverClass, ClasslessRequests, TypeInv, TypeOK, StatusMode, world, published
<1>5. CASE Fault
  BY <1>5, <1>w, <1>u, FailType DEF Fault, TypeInv, TypeOK, world, published, caches
<1>6. CASE Crash
  BY <1>6, <1>w, <1>u, StopType DEF Crash, TypeInv, TypeOK, world, published, caches
<1>7. CASE Restart
  <2>1. seen' \in [Ingresses -> Nat]
    BY <1>7, <1>w, SMT DEF Restart, TypeOK
  <2>2. queue' \subseteq Requests
    BY <1>7, InitialType DEF Restart
  <2>q. QED
    BY <1>7, <1>w, <2>1, <2>2 DEF Restart, TypeInv, TypeOK, StatusMode, world, published
<1>8. ASSUME NEW i \in Ingresses, NEW r \in Revisions, NewRevision(i, r), upsets' \in Nat
      PROVE  TypeInv'
  <2>1. api' \in [Ingresses -> Seq(Revisions)]
    BY <1>8, <1>w, SMT DEF NewRevision, TypeOK
  <2>q. QED
    BY <1>8, <1>w, <2>1 DEF NewRevision, TypeInv, TypeOK, StatusMode, published, caches
<1>9. ASSUME NEW i \in Ingresses, TerminateNamespace(i) PROVE TypeInv'
  BY <1>9, <1>w, <1>u DEF TerminateNamespace, TypeInv, TypeOK, StatusMode, published, caches
<1>10. ASSUME NEW i \in Ingresses, FinishNamespace(i) PROVE TypeInv'
  BY <1>10, <1>w DEF FinishNamespace, TypeInv, TypeOK, StatusMode, caches
<1>11. ASSUME NEW i \in Ingresses, Collect(i) PROVE TypeInv'
  <2>1. decs' \in [Ingresses -> Nat]
    BY <1>11, <1>w DEF Collect, TypeOK
  <2>2. queue' \subseteq Requests
    BY <1>11, <1>w, OwnerType, SMT DEF Collect, Requests
  <2>q. QED
    BY <1>11, <1>w, <2>1, <2>2 DEF Collect, TypeInv, TypeOK, StatusMode, world, caches
<1>12. ASSUME NEW i \in Ingresses, AssignDedicated(i) PROVE TypeInv'
  <2>1. svc' \in [Ingresses -> {"none", "pending", "assigned"}]
    BY <1>12, <1>w DEF AssignDedicated, TypeOK
  <2>2. queue' \subseteq Requests
    BY <1>12, <1>w, OwnerType, SMT DEF AssignDedicated, Requests
  <2>q. QED
    BY <1>12, <1>w, <2>1, <2>2 DEF AssignDedicated, TypeInv, TypeOK, StatusMode, world, caches
<1>13. CASE ToggleDefault
  <2>1. isDefault' \in BOOLEAN
    BY <1>13 DEF ToggleDefault
  <2>q. QED
    BY <1>13, <1>w, <1>u, <2>1 DEF ToggleDefault, TypeInv, TypeOK, StatusMode, published, caches
<1>14. CASE AssignShared
  <2>1. CASE Stop
    BY <1>14, <1>w, <2>1, StopType DEF AssignShared, TypeInv, TypeOK, published, caches
  <2>2. CASE UNCHANGED <<up, work>> /\ queue' \subseteq queue \cup SharedRequests
    BY <1>14, <1>w, <2>2
       DEF AssignShared, SharedRequests, TypeInv, TypeOK, StatusMode, published, caches
  <2>q. QED
    BY <1>14, <2>1, <2>2 DEF AssignShared
<1>15. CASE Drift
  BY <1>15, <1>w, <1>u, IdleType DEF Drift, TypeInv, TypeOK, StatusMode, world, caches
<1>c. CASE Cluster
  <2>1. ASSUME NEW i \in Ingresses, Revise(i) PROVE TypeInv'
    BY <1>8, <1>u, <2>1 DEF Revise
  <2>2. ASSUME NEW i \in Ingresses, RemoveDoomed(i) PROVE TypeInv'
    BY <1>8, <1>w, <2>2 DEF RemoveDoomed, TypeOK
  <2>q. QED
    BY <1>c, <2>1, <2>2, <1>9, <1>10, <1>11, <1>12, <1>13, <1>14, <1>15 DEF Cluster
<1>q. QED
  BY <1>s, <1>1, <1>2, <1>3, <1>4, <1>5, <1>6, <1>7, <1>c DEF Next

LEMMA TypeInit == Init => TypeInv
<1> SUFFICES ASSUME Init PROVE TypeInv
  OBVIOUS
<1>1. api \in [Ingresses -> Seq(Revisions)]
  <2>1. ASSUME NEW r \in InitRevisions PROVE <<r>> \in Seq(Revisions)
    BY RevisionsAssumption, SMT
  <2>2. api \in [Ingresses -> {<<r>> : r \in InitRevisions}]
    BY DEF Init
  <2>q. QED
    BY <2>1, <2>2
<1>2. queue \subseteq Requests
  BY InitialType DEF Init
<1>3. up \in BOOLEAN
  BY DEF Init
<1>4. addr \in [Ingresses -> {"none", "dedicated", "shared"}]
      /\ svc \in [Ingresses -> {"none", "pending", "assigned"}]
      /\ seen \in [Ingresses -> Nat]
  BY DEF Init
<1>q. QED
  BY <1>1, <1>2, <1>3, <1>4, IdleType DEF Init, TypeInv, TypeOK, StatusMode, WorkType, Requests

\* The controller's variables keep their types.
THEOREM TypeCorrect == Spec => []TypeOK
<1>1. TypeInv => TypeOK
  BY DEF TypeInv
<1>q. QED
  BY <1>1, TypeInit, TypeStep, PTL DEF Spec

-----------------------------------------------------------------------------
(* Refinement. *)

Serves(r) == Publication!MayServe(r)
Own(r) == Publication!Dedicated(r)
Keeps(r) == Publication!MustServe(r) /\ Publication!Dedicated(r)

\* The revision the worker read.
Rev == api[work.req][work.rev]

\* What is published was seen, and what was seen was written.
SeenInv ==
    \A i \in Ingresses :
      /\ seen[i] \in 1 .. Len(api[i])
      /\ decs[i] <= seen[i] /\ shared[i] <= seen[i]

\* The worker has a revision that nothing newer has replaced, and has read from
\* it what the step it is about to take needs.
HasRequest ==
    \/ work.pc \in {"classify", "dec", "svc", "delete"}
    \/ work.pc \in {"list", "shared"} /\ work.mode # "gone"

ReadInv ==
    /\ HasRequest => work.req \in Ingresses
    /\ work.pc # "idle" /\ work.req \in Ingresses =>
          work.rev \in 1 .. seen[work.req] /\ decs[work.req] <= work.rev
    /\ work.pc = "classify" => Rev.phase = "live"
    /\ work.pc \in {"dec", "svc"} => work.mode = "dedicated" /\ Serves(Rev) /\ Own(Rev)
    /\ work.pc \in {"list", "shared", "delete"} /\ work.mode \in {"unmanaged", "shared"} =>
          ~Keeps(Rev)
    /\ work.pc = "delete" => work.mode \in {"unmanaged", "shared"}

\* The shared configuration the worker built is newer than the published one.
ListInv ==
    work.pc = "shared" => \A i \in Ingresses : work.want[i] # 0 =>
        /\ work.want[i] \in shared[i] .. seen[i]
        /\ Serves(api[i][work.want[i]]) /\ ~Own(api[i][work.want[i]])

RefInv == SeenInv /\ ReadInv /\ ListInv

\* Histories only grow.
Grows ==
    \A i \in Ingresses : /\ Len(api'[i]) >= Len(api[i])
                         /\ \A k \in 1 .. Len(api[i]) : api'[i][k] = api[i][k]

LEMMA RevisionGrows ==
    ASSUME TypeOK, NEW i \in Ingresses, NEW r \in Revisions, NewRevision(i, r)
    PROVE  Grows
<1>1. \A j \in Ingresses : api'[j] = IF j = i THEN Append(api[i], r) ELSE api[j]
  BY DEF NewRevision, TypeOK
<1>2. api[i] \in Seq(Revisions)
  BY DEF TypeOK
<1>3. /\ Len(Append(api[i], r)) >= Len(api[i])
      /\ \A k \in 1 .. Len(api[i]) : Append(api[i], r)[k] = api[i][k]
  BY <1>2, SMT
<1>4. \A j \in Ingresses : Len(api[j]) \in Nat
  BY SMT DEF TypeOK
<1> SUFFICES ASSUME NEW j \in Ingresses
             PROVE  /\ Len(api'[j]) >= Len(api[j])
                    /\ \A k \in 1 .. Len(api[j]) : api'[j][k] = api[j][k]
  BY DEF Grows
<1>5. CASE j = i
  BY <1>1, <1>3, <1>5
<1>6. CASE j # i
  <2>1. api'[j] = api[j]
    BY <1>1, <1>6
  <2>q. QED
    BY <1>4, <2>1, SMT
<1>q. QED
  BY <1>5, <1>6

\* Without a step of the worker: users write, the informer delivers, others
\* delete what is published.
LEMMA OthersKeep ==
    ASSUME TypeOK, TypeOK', RefInv, Grows, UNCHANGED work,
           \A i \in Ingresses : /\ seen'[i] \in seen[i] .. Len(api'[i])
                                /\ decs'[i] \in {0, decs[i]} /\ shared'[i] \in {0, shared[i]}
    PROVE  RefInv'
<1> USE DEF RefInv
<1>1. \A i \in Ingresses : /\ Len(api[i]) \in Nat /\ Len(api'[i]) \in Nat
                           /\ seen[i] \in Nat /\ decs[i] \in Nat /\ shared[i] \in Nat
                           /\ work.want[i] \in Nat
  <2>1. api \in [Ingresses -> Seq(Revisions)] /\ api' \in [Ingresses -> Seq(Revisions)]
    BY DEF TypeOK
  <2>2. \A i \in Ingresses : Len(api[i]) \in Nat /\ Len(api'[i]) \in Nat
    BY <2>1, SMT
  <2>3. work.want \in [Ingresses -> Nat]
    BY DEF TypeOK
  <2>q. QED
    BY <2>2, <2>3 DEF TypeOK
<1>2. SeenInv'
  BY <1>1, SMTT(20) DEF SeenInv, Grows
<1>3. work.pc # "idle" /\ work.req \in Ingresses => Rev' = Rev
  BY <1>1, SMTT(20) DEF Rev, ReadInv, SeenInv, Grows
<1>4. ReadInv'
  <2>1. HasRequest' <=> HasRequest
    BY DEF HasRequest
  <2>2. work.pc # "idle" /\ work.req \in Ingresses =>
          work.rev \in 1 .. seen'[work.req] /\ decs'[work.req] <= work.rev
    BY <1>1, SMTT(20) DEF ReadInv
  <2>3. work.pc \in {"classify", "dec", "svc", "delete"}
           \/ (work.pc \in {"list", "shared"} /\ work.mode \in {"unmanaged", "shared"})
         => Rev' = Rev
    BY <1>3 DEF ReadInv, HasRequest
  <2> HIDE DEF Serves, Own, Keeps, Rev
  <2>q. QED
    BY <2>1, <2>2, <2>3 DEF ReadInv
<1>5. ListInv'
  <2> SUFFICES ASSUME work.pc = "shared", NEW i \in Ingresses, work.want[i] # 0
               PROVE  /\ work.want[i] \in shared'[i] .. seen'[i]
                      /\ Serves(api'[i][work.want[i]]) /\ ~Own(api'[i][work.want[i]])
    BY DEF ListInv
  <2>1. work.want[i] \in shared'[i] .. seen'[i] /\ work.want[i] \in 1 .. Len(api[i])
    BY <1>1, SMT DEF ListInv, SeenInv
  <2>2. api'[i][work.want[i]] = api[i][work.want[i]]
    BY <2>1 DEF Grows
  <2>q. QED
    BY <2>1, <2>2 DEF ListInv
<1>q. QED
  BY <1>2, <1>4, <1>5

\* A worker that gave up or finished needs nothing.
LEMMA IdleKeeps == ASSUME SeenInv', work' = Idle PROVE RefInv'
BY IdleType DEF RefInv, ReadInv, ListInv, HasRequest

\* Numbers, for the steps below.
LEMMA Numbers ==
    ASSUME TypeOK
    PROVE  /\ \A i \in Ingresses : /\ Len(api[i]) \in Nat /\ seen[i] \in Nat
                                   /\ decs[i] \in Nat /\ shared[i] \in Nat /\ work.want[i] \in Nat
           /\ work.rev \in Nat
<1>1. api \in [Ingresses -> Seq(Revisions)]
  BY DEF TypeOK
<1>2. \A i \in Ingresses : Len(api[i]) \in Nat
  BY <1>1, SMT
<1>3. work.want \in [Ingresses -> Nat] /\ work.rev \in Nat
  BY DEF TypeOK
<1>q. QED
  BY <1>2, <1>3 DEF TypeOK

\* A step of the worker that moves on with the revision it read.
LEMMA ReadOn ==
    ASSUME TypeOK, RefInv, UNCHANGED <<api, seen, decs, shared>>,
           work'.req = work.req, work'.rev = work.rev, work.pc # "idle",
           work'.pc # "classify", work'.pc # "shared",
           HasRequest' => work.req \in Ingresses,
           work'.pc \in {"dec", "svc"} => work'.mode = "dedicated" /\ Serves(Rev) /\ Own(Rev),
           work'.pc \in {"list", "delete"} /\ work'.mode \in {"unmanaged", "shared"} => ~Keeps(Rev),
           work'.pc = "delete" => work'.mode \in {"unmanaged", "shared"}
    PROVE  RefInv'
<1>1. Rev' = Rev
  BY DEF Rev
<1>2. SeenInv' /\ ListInv'
  BY DEF RefInv, SeenInv, ListInv
<1> HIDE DEF Serves, Own, Keeps, Rev
<1>q. QED
  BY <1>1, <1>2 DEF RefInv, ReadInv

\* What Classify finds.
LEMMA Classified ==
    ASSUME TypeOK, RefInv, Classify, ~FailRequest
    PROVE  /\ work.req \in Ingresses
           /\ \/ /\ work' = [work EXCEPT !.pc = "list", !.mode = "unmanaged"]
                 /\ ~Keeps(Rev)
              \/ /\ work' = [work EXCEPT !.pc = "list", !.mode = "shared"]
                 /\ ~Keeps(Rev)
              \/ /\ work' = [work EXCEPT !.pc = "dec", !.mode = "dedicated"]
                 /\ Serves(Rev) /\ Own(Rev)
<1>1. work.req \in Ingresses /\ Rev.phase = "live"
  BY DEF RefInv, ReadInv, HasRequest, Classify, At
<1>2. \/ /\ work' = [work EXCEPT !.pc = "list", !.mode = "unmanaged"]
         /\ ~isdolphinManagedIngress(Rev, seenDefault)
      \/ /\ work' = [work EXCEPT !.pc = "list", !.mode = "shared"]
         /\ ~isEffectiveLoadbalancerModeDedicated(Rev)
      \/ /\ work' = [work EXCEPT !.pc = "dec", !.mode = "dedicated"]
         /\ isdolphinManagedIngress(Rev, seenDefault)
         /\ isEffectiveLoadbalancerModeDedicated(Rev)
  BY DEF Classify, Rev
<1> HIDE DEF Rev
<1>3. Own(Rev) <=> isEffectiveLoadbalancerModeDedicated(Rev)
  BY DEF Own, Publication!Dedicated, isEffectiveLoadbalancerModeDedicated
<1>4. isdolphinManagedIngress(Rev, seenDefault) => Serves(Rev)
  BY <1>1 DEF isdolphinManagedIngress, Serves, Publication!MayServe
<1>5. ~isdolphinManagedIngress(Rev, seenDefault) => ~Keeps(Rev)
  BY DEF isdolphinManagedIngress, Keeps, Publication!MustServe
<1>6. Keeps(Rev) => Own(Rev)
  BY DEF Keeps, Own
<1>q. QED
  BY <1>1, <1>2, <1>3, <1>4, <1>5, <1>6

\* What Start reads.
LEMMA StartKeeps ==
    ASSUME TypeOK, RefInv, NEW r \in Requests, Start(r)
    PROVE  RefInv'
<1>1. SeenInv'
  BY DEF Start, RefInv, SeenInv, world, published, caches
<1>2. CASE work' = Idle
  BY <1>1, <1>2, IdleKeeps
<1>3. CASE work' = [Idle EXCEPT !.pc = "list"]
  <2>1. work'.pc = "list" /\ work'.mode = "gone" /\ work'.req = Pseudo
    BY <1>3 DEF Idle
  <2>q. QED
    BY <1>1, <2>1, PseudoAssumption DEF RefInv, ReadInv, ListInv, HasRequest
<1>4. CASE r # Pseudo /\ work' = [Idle EXCEPT !.pc = "list", !.req = r, !.rev = seen[r]]
  <2>1. /\ work'.pc = "list" /\ work'.mode = "gone" /\ work'.req = r /\ work'.rev = seen[r]
        /\ r \in Ingresses
    BY <1>4 DEF Idle, Requests
  <2>2. work'.rev \in 1 .. seen'[r] /\ decs'[r] <= work'.rev
    BY <2>1, Numbers, SMT DEF Start, RefInv, SeenInv, caches, published
  <2>q. QED
    BY <1>1, <2>1, <2>2 DEF RefInv, ReadInv, ListInv, HasRequest
<1>5. CASE /\ r # Pseudo /\ work' = [Idle EXCEPT !.pc = "classify", !.req = r, !.rev = seen[r]]
           /\ Cached(r).phase # "absent" /\ Cached(r).phase # "deleting"
  <2>1. /\ work'.pc = "classify" /\ work'.req = r /\ work'.rev = seen[r]
        /\ r \in Ingresses
    BY <1>5 DEF Idle, Requests
  <2>2. work'.rev \in 1 .. seen'[r] /\ decs'[r] <= work'.rev
    BY <2>1, Numbers, SMT DEF Start, RefInv, SeenInv, caches, published
  <2>3. Cached(r) \in Revisions
    BY <2>1, SMT DEF Cached, TypeOK, RefInv, SeenInv
  <2>4. Cached(r).phase = "live"
    BY <1>5, <2>3, RevisionsAssumption
  <2>5. Rev' = Cached(r)
    BY <2>1 DEF Rev, Cached, Start, world
  <2>q. QED
    BY <1>1, <2>1, <2>2, <2>4, <2>5 DEF RefInv, ReadInv, ListInv, HasRequest
<1>q. QED
  BY <1>2, <1>3, <1>4, <1>5 DEF Start

\* The steps of the worker.
LEMMA WorkKeeps == ASSUME TypeOK, TypeOK', RefInv, Work PROVE RefInv'
<1>t. work \in WorkType
  BY DEF TypeOK, WorkType
<1>1. CASE Classify
  <2>1. UNCHANGED <<api, seen, decs, shared>> /\ work.pc = "classify"
    BY <1>1 DEF Classify, At, world, published, caches
  <2>2. SeenInv'
    BY <2>1 DEF RefInv, SeenInv
  <2>3. CASE FailRequest
    BY <2>2, <2>3, IdleKeeps DEF FailRequest
  <2>4. CASE ~FailRequest
    <3> HIDE DEF Serves, Own, Keeps, Rev
    <3>1. /\ work.req \in Ingresses
          /\ \/ /\ work' = [work EXCEPT !.pc = "list", !.mode = "unmanaged"]
                /\ ~Keeps(Rev)
             \/ /\ work' = [work EXCEPT !.pc = "list", !.mode = "shared"]
                /\ ~Keeps(Rev)
             \/ /\ work' = [work EXCEPT !.pc = "dec", !.mode = "dedicated"]
                /\ Serves(Rev) /\ Own(Rev)
      BY <1>1, <2>4, Classified
    <3>2. work'.req = work.req /\ work'.rev = work.rev
      BY <1>t, <3>1 DEF WorkType
    <3>3. \/ work'.pc = "list" /\ ~Keeps(Rev)
          \/ work'.pc = "dec" /\ work'.mode = "dedicated" /\ Serves(Rev) /\ Own(Rev)
      BY <1>t, <3>1 DEF WorkType
    <3>q. QED
      BY <2>1, <3>1, <3>2, <3>3, ReadOn
  <2>q. QED
    BY <2>3, <2>4
<1>2. CASE WriteDolphinEnvoyConfig
  <2>1. /\ UNCHANGED <<api, seen, shared>> /\ work.pc = "dec" /\ work.req \in Ingresses
        /\ work.rev \in 1 .. seen[work.req]
    BY <1>2 DEF WriteDolphinEnvoyConfig, At, world, caches, RefInv, ReadInv, HasRequest
  <2>2. CASE work' = Idle /\ UNCHANGED decs
    BY <2>1, <2>2, IdleKeeps DEF RefInv, SeenInv
  <2>3. CASE work' = [work EXCEPT !.pc = "svc"] /\ decs' = [decs EXCEPT ![work.req] = work.rev]
    <3>1. \A i \in Ingresses : decs'[i] = IF i = work.req THEN work.rev ELSE decs[i]
      BY <2>3 DEF TypeOK
    <3>2. SeenInv'
      BY <2>1, <3>1, Numbers, SMT DEF RefInv, SeenInv
    <3>3. /\ work'.pc = "svc" /\ work'.req = work.req /\ work'.rev = work.rev
          /\ work'.mode = work.mode
      BY <1>t, <2>3 DEF WorkType
    <3>4. Rev' = Rev
      BY <2>1, <3>3 DEF Rev
    <3>5. decs'[work'.req] <= work'.rev
      BY <2>1, <3>1, <3>3, Numbers, SMT
    <3> HIDE DEF Serves, Own, Keeps, Rev
    <3>q. QED
      BY <2>1, <3>2, <3>3, <3>4, <3>5 DEF RefInv, ReadInv, ListInv
  <2>q. QED
    BY <1>2, <2>2, <2>3 DEF WriteDolphinEnvoyConfig, Goto
<1>3. CASE WriteService
  <2>1. UNCHANGED <<api, seen, decs, shared>> /\ work.pc = "svc"
    BY <1>3 DEF WriteService, At, world, caches
  <2>2. SeenInv'
    BY <2>1 DEF RefInv, SeenInv
  <2>3. CASE work' = Idle
    BY <2>2, <2>3, IdleKeeps
  <2>4. CASE work' = [work EXCEPT !.pc = "list"]
    <3>1. /\ work'.pc = "list" /\ work'.req = work.req /\ work'.rev = work.rev
          /\ work'.mode = work.mode
      BY <1>t, <2>4 DEF WorkType
    <3>2. work.mode = "dedicated" /\ work.req \in Ingresses
      BY <2>1 DEF RefInv, ReadInv, HasRequest
    <3>q. QED
      BY <2>1, <3>1, <3>2, ReadOn
  <2>q. QED
    BY <1>3, <2>3, <2>4 DEF WriteService, Goto
<1>4. CASE ListShared
  <2>1. UNCHANGED <<api, seen, decs, shared>> /\ work.pc = "list"
    BY <1>4 DEF ListShared, At, world, published, caches
  <2>2. SeenInv'
    BY <2>1 DEF RefInv, SeenInv
  <2>3. CASE FailRequest
    BY <2>2, <2>3, IdleKeeps DEF FailRequest
  <2>4. CASE ~FailRequest
    <3> DEFINE want == [i \in Ingresses |->
                          IF InSharedModel(Cached(i), seenDefault) THEN seen[i] ELSE 0]
    <3>1. work' = [work EXCEPT !.pc = "shared", !.want = want]
      BY <1>4, <2>4 DEF ListShared
    <3>2. ASSUME NEW i \in Ingresses, want[i] # 0
          PROVE  /\ want[i] \in shared[i] .. seen[i]
                 /\ Serves(api[i][want[i]]) /\ ~Own(api[i][want[i]])
      <4>1. want[i] = seen[i] /\ InSharedModel(api[i][want[i]], seenDefault)
        BY <3>2 DEF Cached
      <4>2. want[i] \in shared[i] .. seen[i]
        BY <4>1, Numbers, SMT DEF RefInv, SeenInv
      <4>q. QED
        BY <4>1, <4>2
           DEF InSharedModel, isdolphinManagedIngress, isEffectiveLoadbalancerModeDedicated,
               Serves, Own, Publication!MayServe, Publication!Dedicated
    <3> HIDE DEF want
    <3>3. /\ work'.pc = "shared" /\ work'.req = work.req /\ work'.rev = work.rev
          /\ work'.mode = work.mode /\ work'.want = want
      BY <1>t, <3>1 DEF WorkType
    <3>4. Rev' = Rev
      BY <2>1, <3>3 DEF Rev
    <3>5. ListInv'
      BY <2>1, <3>2, <3>3 DEF ListInv
    <3> HIDE DEF Serves, Own, Keeps, Rev
    <3>q. QED
      BY <2>1, <2>2, <3>3, <3>4, <3>5 DEF RefInv, ReadInv, HasRequest
  <2>q. QED
    BY <2>3, <2>4
<1>5. CASE WriteShared
  <2>1. UNCHANGED <<api, seen, decs>> /\ work.pc = "shared" /\ shared' = work.want
    BY <1>5 DEF WriteShared, At, world, caches
  <2>2. SeenInv'
    <3> SUFFICES ASSUME NEW i \in Ingresses PROVE work.want[i] <= seen[i]
      BY <2>1 DEF RefInv, SeenInv
    <3>q. QED
      BY <2>1, Numbers, SMT DEF RefInv, ListInv, SeenInv
  <2>3. CASE work' = Idle
    BY <2>2, <2>3, IdleKeeps
  <2>4. CASE work' # Idle
    <3>1. /\ work'.req = work.req /\ work'.rev = work.rev /\ work'.mode = work.mode
          /\ work.mode # "gone"
          /\ work'.pc \in {"status", "delete"}
          /\ work'.pc = "delete" => work.mode \in {"unmanaged", "shared"}
      BY <1>5, <1>t, <2>4 DEF WriteShared, WorkType, Modes
    <3>2. Rev' = Rev
      BY <2>1, <3>1 DEF Rev
    <3>3. work.req \in Ingresses
      BY <2>1, <3>1 DEF RefInv, ReadInv, HasRequest
    <3> HIDE DEF Serves, Own, Keeps, Rev
    <3>q. QED
      BY <2>1, <2>2, <3>1, <3>2, <3>3 DEF RefInv, ReadInv, ListInv
  <2>q. QED
    BY <2>3, <2>4
<1>6. ASSUME NEW kind \in Kinds, DeleteDedicated(kind) PROVE RefInv'
  <2>1. UNCHANGED <<api, seen, shared>> /\ work.pc = "delete" /\ work.req \in Ingresses
    BY <1>6 DEF DeleteDedicated, At, world, caches, RefInv, ReadInv, HasRequest
  <2>2. \A i \in Ingresses : decs'[i] = decs[i] \/ decs'[i] = 0
    <3>1. decs' = decs \/ decs' = [decs EXCEPT ![work.req] = 0]
      BY <1>6 DEF DeleteDedicated
    <3>2. decs \in [Ingresses -> Nat]
      BY DEF TypeOK
    <3>q. QED
      BY <3>1, <3>2
  <2>3. SeenInv'
    BY <2>1, <2>2, Numbers, SMT DEF RefInv, SeenInv
  <2>4. /\ work'.req = work.req /\ work'.rev = work.rev /\ work'.mode = work.mode
        /\ work'.pc \in {"delete", "status", "clear"}
    BY <1>6, <1>t, <2>1 DEF DeleteDedicated, WorkType
  <2>5. Rev' = Rev
    BY <2>1, <2>4 DEF Rev
  <2>6. decs'[work.req] <= work.rev
    BY <2>1, <2>2, Numbers, SMT DEF RefInv, ReadInv
  <2> HIDE DEF Serves, Own, Keeps, Rev
  <2>q. QED
    BY <2>1, <2>3, <2>4, <2>5, <2>6 DEF RefInv, ReadInv, ListInv
<1>7. CASE UpdateStatus \/ ClearStatus
  <2>1. UNCHANGED <<api, seen, decs, shared>> /\ work' = Idle
    BY <1>7 DEF UpdateStatus, ClearStatus, FailRequest, world, caches
  <2>2. SeenInv'
    BY <2>1 DEF RefInv, SeenInv
  <2>q. QED
    BY <2>1, <2>2, IdleKeeps
<1>q. QED
  BY <1>1, <1>2, <1>3, <1>4, <1>5, <1>6, <1>7 DEF Work

LEMMA StillKeeps ==
    ASSUME TypeOK, TypeOK', RefInv, UNCHANGED <<api, seen, decs, shared>>, work' \in {work, Idle}
    PROVE  RefInv'
<1>1. CASE work' = work
  <2>1. Grows
    BY Numbers, SMT DEF Grows
  <2>2. \A i \in Ingresses : seen[i] \in seen[i] .. Len(api[i])
    BY Numbers, SMT DEF RefInv, SeenInv
  <2>q. QED
    BY <1>1, <2>1, <2>2, OthersKeep
<1>2. CASE work' = Idle
  BY <1>2, IdleKeeps DEF RefInv, SeenInv
<1>q. QED
  BY <1>1, <1>2

LEMMA RefStep == TypeOK /\ TypeOK' /\ RefInv /\ [Next]_vars => RefInv'
<1> SUFFICES ASSUME TypeOK, TypeOK', RefInv, [Next]_vars PROVE RefInv'
  OBVIOUS
<1>n. \A i \in Ingresses : /\ seen[i] \in Nat /\ Len(api[i]) \in Nat
                           /\ seen[i] \in 1 .. Len(api[i])
  BY Numbers DEF RefInv, SeenInv
<1>g. UNCHANGED api => Grows
  BY <1>n, SMT DEF Grows
<1>1. ASSUME NEW r \in Requests, Start(r) PROVE RefInv'
  BY <1>1, StartKeeps
<1>2. CASE Work
  BY <1>2, WorkKeeps
<1>3. ASSUME NEW i \in Ingresses, Deliver(i) PROVE RefInv'
  <2>1. /\ UNCHANGED <<api, decs, shared>> /\ work' \in {work, Idle}
        /\ \A j \in Ingresses : seen'[j] \in seen[j] .. Len(api[j])
    <3>1. UNCHANGED <<api, decs, shared>> /\ work' \in {work, Idle}
      BY <1>3 DEF Deliver, Stop, world, published
    <3>2. \A j \in Ingresses : seen'[j] = IF j = i THEN Len(api[i]) ELSE seen[j]
      BY <1>3 DEF Deliver, TypeOK
    <3>3. ASSUME NEW j \in Ingresses PROVE seen'[j] \in seen[j] .. Len(api[j])
      <4>1. CASE j = i
        BY <1>n, <3>2, <4>1, SMT
      <4>2. CASE j # i
        BY <1>n, <3>2, <4>2, SMT
      <4>q. QED
        BY <4>1, <4>2
    <3>q. QED
      BY <3>1, <3>3
  <2>2. SeenInv'
    BY <1>n, <2>1, Numbers, SMT DEF RefInv, SeenInv
  <2>q. QED
    BY <1>g, <2>1, <2>2, IdleKeeps, OthersKeep
<1>4. CASE DeliverClass \/ Fault \/ Crash \/ ToggleDefault \/ AssignShared \/ UNCHANGED vars
  <2>1. UNCHANGED <<api, seen, decs, shared>> /\ work' \in {work, Idle}
    BY <1>4 DEF DeliverClass, Fault, FailRequest, Crash, Stop, ToggleDefault, AssignShared,
                vars, world, published, caches
  <2>q. QED
    BY <2>1, StillKeeps
<1>5. CASE Restart
  <2>1. /\ UNCHANGED <<api, decs, shared, work>>
        /\ \A j \in Ingresses : seen'[j] \in seen[j] .. Len(api[j])
    BY <1>5, <1>n, SMT DEF Restart, world, published
  <2>q. QED
    BY <1>g, <2>1, OthersKeep
<1>6. ASSUME NEW i \in Ingresses, NEW r \in Revisions, NewRevision(i, r) PROVE RefInv'
  <2>1. Grows
    BY <1>6, RevisionGrows
  <2>2. UNCHANGED <<seen, decs, shared, work>>
    BY <1>6 DEF NewRevision, published, caches
  <2>3. \A j \in Ingresses : Len(api'[j]) \in Nat
    <3>1. api' \in [Ingresses -> Seq(Revisions)]
      BY DEF TypeOK
    <3>q. QED
      BY <3>1, SMT
  <2>4. \A j \in Ingresses : seen'[j] \in seen[j] .. Len(api'[j])
    BY <1>n, <2>1, <2>2, <2>3, SMT DEF Grows
  <2>q. QED
    BY <2>1, <2>2, <2>4, OthersKeep
<1>7. ASSUME NEW i \in Ingresses,
             TerminateNamespace(i) \/ FinishNamespace(i) \/ AssignDedicated(i)
      PROVE  RefInv'
  <2>1. UNCHANGED <<api, seen, decs, shared, work>>
    BY <1>7 DEF TerminateNamespace, FinishNamespace, AssignDedicated, world, published, caches
  <2>q. QED
    BY <2>1, StillKeeps
<1>8. ASSUME NEW i \in Ingresses, Collect(i) PROVE RefInv'
  <2>1. /\ UNCHANGED <<api, seen, shared, work>>
        /\ \A j \in Ingresses : decs'[j] \in {0, decs[j]}
    BY <1>8, SMT DEF Collect, world, caches, TypeOK
  <2>2. \A j \in Ingresses : seen'[j] \in seen[j] .. Len(api'[j])
    BY <1>n, <2>1, SMT
  <2>q. QED
    BY <1>g, <2>1, <2>2, OthersKeep
<1>9. CASE Drift
  <2>1. /\ UNCHANGED <<api, seen, decs, work>>
        /\ \A j \in Ingresses : shared'[j] \in {0, shared[j]}
    BY <1>9 DEF Drift, Nothing, world, caches
  <2>2. \A j \in Ingresses : seen'[j] \in seen[j] .. Len(api'[j])
    BY <1>n, <2>1, SMT
  <2>q. QED
    BY <1>g, <2>1, <2>2, OthersKeep
<1>q. QED
  BY <1>1, <1>2, <1>3, <1>4, <1>5, <1>6, <1>7, <1>8, <1>9
     DEF Next, Cluster, Revise, RemoveDoomed, Requests

\* Each step is one of IngressPublication, or changes nothing it speaks of.
LEMMA StepRefines ==
    TypeOK /\ TypeOK' /\ RefInv /\ [Next]_vars => [Publication!Next]_(Publication!vars)
<1> SUFFICES ASSUME TypeOK, TypeOK', RefInv, [Next]_vars, ~UNCHANGED <<api, decs, shared>>
             PROVE  Publication!Next
  BY DEF Publication!vars
<1>1. ASSUME NEW i \in Ingresses, NEW r \in Revisions, NewRevision(i, r)
      PROVE  Publication!Next
  <2>1. Publication!Revise(i)
    BY <1>1 DEF NewRevision, published, Publication!Revise
  <2>q. QED
    BY <2>1 DEF Publication!Next
<1>2. CASE WriteDolphinEnvoyConfig
  <2>1. /\ work.req \in Ingresses /\ work.rev \in 1 .. seen[work.req]
        /\ decs[work.req] <= work.rev /\ Serves(Rev) /\ Own(Rev)
    BY <1>2 DEF WriteDolphinEnvoyConfig, At, RefInv, ReadInv, HasRequest
  <2>2. work.rev \in 1 .. Len(api[work.req]) /\ work.rev >= decs[work.req]
    BY <2>1, Numbers, SMT DEF RefInv, SeenInv
  <2>3. decs' = [decs EXCEPT ![work.req] = work.rev] /\ UNCHANGED <<api, shared>>
    BY <1>2 DEF WriteDolphinEnvoyConfig, world
  <2>4. Publication!PublishDedicated(work.req)
    BY <2>1, <2>2, <2>3 DEF Publication!PublishDedicated, Serves, Own, Rev
  <2>q. QED
    BY <2>1, <2>4 DEF Publication!Next
<1>3. CASE WriteShared
  <2>1. shared' = work.want /\ work.pc = "shared" /\ UNCHANGED <<api, decs>>
    BY <1>3 DEF WriteShared, At, world
  <2>2. work.want \in [Ingresses -> Nat]
    BY DEF TypeOK
  <2>3. ASSUME NEW i \in Ingresses, work.want[i] # 0
        PROVE  /\ work.want[i] \in shared[i] .. Len(api[i])
               /\ Serves(api[i][work.want[i]]) /\ ~Own(api[i][work.want[i]])
    BY <2>1, <2>3, Numbers, SMT DEF RefInv, ListInv, SeenInv
  <2>4. Publication!PublishShared
    BY <2>1, <2>2, <2>3 DEF Publication!PublishShared, Serves, Own
  <2>q. QED
    BY <2>4 DEF Publication!Next
<1>4. ASSUME NEW kind \in Kinds, DeleteDedicated(kind) PROVE Publication!Next
  <2>1. /\ work.req \in Ingresses /\ work.rev \in 1 .. seen[work.req]
        /\ decs[work.req] <= work.rev /\ ~Keeps(Rev)
    BY <1>4 DEF DeleteDedicated, At, RefInv, ReadInv, HasRequest
  <2>2. decs' = [decs EXCEPT ![work.req] = 0] /\ UNCHANGED <<api, shared>>
    BY <1>4 DEF DeleteDedicated, world
  <2>3. decs[work.req] # 0
    BY <2>1, <2>2, SMT DEF TypeOK
  <2>4. work.rev \in decs[work.req] .. Len(api[work.req])
    BY <2>1, Numbers, SMT DEF RefInv, SeenInv
  <2>5. Publication!Retire(work.req)
    BY <2>1, <2>2, <2>3, <2>4 DEF Publication!Retire, Keeps, Rev
  <2>q. QED
    BY <2>1, <2>5 DEF Publication!Next
<1>5. ASSUME NEW i \in Ingresses, Collect(i) PROVE Publication!Next
  <2>1. PICK k \in decs[i] .. Len(api[i]) : api[i][k].phase = "absent"
    BY <1>5 DEF Collect, Orphaned
  <2>2. ~(Publication!MustServe(api[i][k]) /\ Publication!Dedicated(api[i][k]))
    BY <2>1 DEF Publication!MustServe
  <2>3. Publication!Retire(i)
    BY <1>5, <2>1, <2>2 DEF Collect, Orphaned, Publication!Retire, world
  <2>q. QED
    BY <2>3 DEF Publication!Next
<1>6. CASE Drift
  <2>1. Publication!PublishShared
    BY <1>6 DEF Drift, Nothing, Publication!PublishShared, world
  <2>q. QED
    BY <2>1 DEF Publication!Next
<1>7. UNCHANGED <<api, decs, shared>> \/ Work \/ Cluster
  BY DEF Next, Start, Deliver, DeliverClass, Fault, Crash, Restart, vars, world, published
<1>8. CASE Work
  BY <1>2, <1>3, <1>4, <1>8
     DEF Work, Classify, WriteService, ListShared, UpdateStatus, ClearStatus, world, published
<1>9. CASE Cluster
  <2>1. CASE \E i \in Ingresses : Revise(i) \/ RemoveDoomed(i) \/ Collect(i)
    BY <1>1, <1>5, <1>6, <2>1 DEF Revise, RemoveDoomed
  <2>2. CASE \E i \in Ingresses : TerminateNamespace(i) \/ FinishNamespace(i) \/ AssignDedicated(i)
    BY <2>2 DEF TerminateNamespace, FinishNamespace, AssignDedicated, world, published
  <2>3. CASE ToggleDefault \/ AssignShared
    BY <2>3 DEF ToggleDefault, AssignShared, world, published
  <2>q. QED
    BY <1>6, <1>9, <2>1, <2>2, <2>3 DEF Cluster
<1>q. QED
  BY <1>7, <1>8, <1>9

LEMMA RefInit == Init => RefInv
<1> SUFFICES ASSUME Init PROVE RefInv
  OBVIOUS
<1>1. api \in [Ingresses -> {<<r>> : r \in InitRevisions}]
  BY DEF Init
<1>2. \A i \in Ingresses : Len(api[i]) = 1
  <2> SUFFICES ASSUME NEW i \in Ingresses PROVE Len(api[i]) = 1
    OBVIOUS
  <2>1. PICK r \in InitRevisions : api[i] = <<r>>
    BY <1>1
  <2>q. QED
    BY <2>1, SMT
<1>3. SeenInv
  <2>1. \A i \in Ingresses : seen[i] = 1 /\ decs[i] = 0 /\ shared[i] = 0
    BY DEF Init, Nothing
  <2>2. 1 \in 1 .. 1 /\ 0 <= 1
    BY SMT
  <2>q. QED
    BY <1>2, <2>1, <2>2 DEF SeenInv
<1>4. work.pc = "idle"
  BY IdleType DEF Init
<1>q. QED
  BY <1>3, <1>4 DEF RefInv, ReadInv, ListInv, HasRequest

\* The Ingress controller implements IngressPublication: whatever it reads from
\* caches, and however its steps interleave with edits, faults and crashes, what
\* it publishes is a revision that asked for it, and never gets older.
THEOREM Implements == Spec => ImplementsPublication
<1>1. Init => Publication!Init
  <2> SUFFICES ASSUME Init PROVE Publication!Init
    OBVIOUS
  <2>1. api \in [Ingresses -> {<<r>> : r \in InitRevisions}]
    BY DEF Init
  <2>q. QED
    BY <2>1, RevisionsAssumption DEF Init, Nothing, Publication!Init
<1>2. TypeInv => TypeOK
  BY DEF TypeInv
<1>q. QED
  BY <1>1, <1>2, RefInit, TypeInit, TypeStep, RefStep, StepRefines, PTL
     DEF Spec, ImplementsPublication, Publication!Spec

-----------------------------------------------------------------------------
(* Nothing is forgotten.                                                   *)

\* What the cached revision of i is, and what it asks for.
CachedManaged(i) ==
    Cached(i).phase # "absent" /\ isdolphinManagedIngress(Cached(i), seenDefault)
CachedDedicated(i) ==
    /\ Cached(i).phase = "live" /\ isdolphinManagedIngress(Cached(i), seenDefault)
    /\ isEffectiveLoadbalancerModeDedicated(Cached(i))
CachedShared(i) == InSharedModel(Cached(i), seenDefault)
SharedTarget(i) == IF CachedShared(i) THEN seen[i] ELSE 0

\* LostTrack, as far as the cache goes.
Lost(i) == ~CachedManaged(i) /\ \E k \in 1 .. (seen[i] - 1) : Slippery(api[i][k])

\* Its resources may not be created, or its next event is still to come.
Barred(i) == CachedDedicated(i) /\ (i \in doomed \/ seen[i] # Len(api[i]))

Waived(i) == Cached(i).phase = "deleting" \/ Lost(i) \/ Barred(i) \/ i \in queue

\* The worker has yet to write or delete the configuration of i.
WillFix(i) ==
    /\ work.req = i
    /\ \/ work.pc \in {"classify", "dec"}
       \/ work.mode \in {"unmanaged", "shared"} /\ work.pc \in {"list", "shared"}
       \/ work.pc = "delete" /\ "dec" \in work.left

DecOK(i) ==
    \/ Waived(i) \/ WillFix(i)
    \/ CachedDedicated(i) /\ decs[i] = seen[i]
    \/ ~CachedDedicated(i) /\ (decs[i] = 0 \/ Orphaned(i))

\* The worker has yet to write the shared configuration, and will queue i or the
\* pseudo Ingress again if it does not get there.
WillShare(i) ==
    work.req \in {i, Pseudo} /\ work.pc \in {"classify", "dec", "svc", "list", "shared"}

SharedOK(i) ==
    Waived(i) \/ Pseudo \in queue \/ WillShare(i) \/ shared[i] = SharedTarget(i)

\* What the worker listed is what the cache still says.
WantOK(i) == work.pc = "shared" => work.want[i] = SharedTarget(i) \/ i \in queue

\* The branch of Reconcile the worker is in is the one for the cached revision.
Agrees(i) ==
    /\ work.pc = "classify" => \/ work.rev = seen[i]
                               \/ api[i][work.rev].class = "other" /\ ~CachedManaged(i)
    /\ work.pc # "classify" =>
         /\ work.mode \in {"gone", "unmanaged"} => ~CachedManaged(i)
         /\ work.mode = "dedicated" => CachedDedicated(i) /\ work.rev = seen[i]
         /\ work.mode = "shared" => CachedShared(i)

WorkOK(i) == work.pc # "idle" /\ work.req = i => i \in queue \/ Lost(i) \/ Agrees(i)

Tracked(i) == DecOK(i) /\ SharedOK(i) /\ WantOK(i) /\ WorkOK(i)

TrackInv == (~up => work = Idle) /\ (up => \A i \in Ingresses : Tracked(i))

\* What the cache says of i is the same after the step.
SameView(i) ==
    /\ Cached(i)' = Cached(i) /\ seen'[i] = seen[i]
    /\ CachedManaged(i)' <=> CachedManaged(i)
    /\ CachedDedicated(i)' <=> CachedDedicated(i)
    /\ CachedShared(i)' <=> CachedShared(i)
    /\ SharedTarget(i)' = SharedTarget(i)
    /\ Lost(i)' <=> Lost(i)
    /\ Barred(i) => Barred(i)'

LEMMA Lengths ==
    ASSUME TypeOK, TypeOK', NEW i \in Ingresses
    PROVE  Len(api[i]) \in Nat /\ Len(api'[i]) \in Nat
<1>1. api[i] \in Seq(Revisions) /\ api'[i] \in Seq(Revisions)
  BY DEF TypeOK
<1>q. QED
  BY <1>1, SMT

\* Users and the cluster may write; the informer brings nothing.
LEMMA StillView ==
    ASSUME TypeOK, TypeOK', RefInv, Grows, NEW i \in Ingresses,
           seen'[i] = seen[i], seenDefault' = seenDefault,
           i \in doomed /\ CachedDedicated(i) => i \in doomed' \/ seen[i] # Len(api'[i])
    PROVE  SameView(i)
<1>1. /\ seen[i] \in 1 .. Len(api[i]) /\ Len(api[i]) \in Nat /\ Len(api'[i]) \in Nat
      /\ Len(api'[i]) >= Len(api[i])
  <2>1. Len(api[i]) \in Nat /\ Len(api'[i]) \in Nat
    BY Lengths
  <2>q. QED
    BY <2>1 DEF RefInv, SeenInv, Grows
<1>2. \A k \in 1 .. seen[i] : api'[i][k] = api[i][k]
  BY <1>1, SMT DEF Grows
<1>3. Cached(i)' = Cached(i)
  BY <1>1, <1>2, SMT DEF Cached
<1>4. /\ CachedManaged(i)' <=> CachedManaged(i)
      /\ CachedDedicated(i)' <=> CachedDedicated(i)
      /\ CachedShared(i)' <=> CachedShared(i)
      /\ SharedTarget(i)' = SharedTarget(i)
  BY <1>3 DEF CachedManaged, CachedDedicated, CachedShared, SharedTarget, InSharedModel,
              isdolphinManagedIngress, isEffectiveLoadbalancerModeDedicated
<1>5. Lost(i)' <=> Lost(i)
  <2>1. \A k \in 1 .. (seen[i] - 1) : api'[i][k] = api[i][k]
    BY <1>1, <1>2, SMTT(20)
  <2>q. QED
    BY <1>4, <2>1 DEF Lost, Slippery
<1>6. Barred(i) => Barred(i)'
  BY <1>1, <1>4, SMT DEF Barred
<1>q. QED
  BY <1>3, <1>4, <1>5, <1>6 DEF SameView

LEMMA WaivedStill ==
    ASSUME NEW i, SameView(i), Waived(i), queue \subseteq queue'
    PROVE  Waived(i)'
BY DEF SameView, Waived

\* A configuration whose owner is gone stays one until it is deleted.
LEMMA OrphanedStill ==
    ASSUME TypeOK, TypeOK', Grows, NEW i \in Ingresses, Orphaned(i), decs'[i] = decs[i]
    PROVE  Orphaned(i)'
<1>1. Len(api[i]) \in Nat /\ Len(api'[i]) \in Nat /\ Len(api'[i]) >= Len(api[i]) /\ decs[i] \in Nat
  <2>1. Len(api[i]) \in Nat /\ Len(api'[i]) \in Nat
    BY Lengths
  <2>q. QED
    BY <2>1 DEF Grows, TypeOK
<1>2. PICK k \in decs[i] .. Len(api[i]) : api[i][k].phase = "absent"
  BY DEF Orphaned
<1>3. k \in 1 .. Len(api[i]) /\ k \in decs'[i] .. Len(api'[i])
  BY <1>1, <1>2, SMT DEF Orphaned
<1>q. QED
  BY <1>2, <1>3 DEF Orphaned, Grows, EnqueueOwner, OwnerGroup

\* A step that is neither the worker's nor brings news of i.
LEMMA StillTracked ==
    ASSUME TypeOK, TypeOK', RefInv, Grows, NEW i \in Ingresses, SameView(i), Tracked(i),
           work' = work, queue \subseteq queue',
           decs'[i] = decs[i] \/ i \in queue', shared'[i] = shared[i] \/ Pseudo \in queue'
    PROVE  Tracked(i)'
<1>1. Waived(i) => Waived(i)'
  BY WaivedStill
<1>2. decs'[i] = decs[i] => (Orphaned(i) => Orphaned(i)')
  BY OrphanedStill
<1>3. i \in queue' => Waived(i)'
  BY DEF Waived
<1>4. DecOK(i)'
  BY <1>1, <1>2, <1>3 DEF Tracked, DecOK, WillFix, SameView
<1>5. SharedOK(i)'
  BY <1>1, <1>3 DEF Tracked, SharedOK, WillShare, SameView
<1>6. WantOK(i)'
  BY DEF Tracked, WantOK, SameView
<1>7. WorkOK(i)'
  <2>1. work.pc = "classify" /\ work.req = i => api'[i][work.rev] = api[i][work.rev]
    <3>1. work.pc = "classify" /\ work.req = i => work.rev \in 1 .. Len(api[i])
      BY Lengths, SMT DEF RefInv, ReadInv, SeenInv
    <3>q. QED
      BY <3>1 DEF Grows
  <2>q. QED
    BY <2>1 DEF Tracked, WorkOK, Agrees, SameView
<1>q. QED
  BY <1>4, <1>5, <1>6, <1>7 DEF Tracked

\* The steps of the worker leave the caches and the Ingresses alone.
LEMMA WorkView ==
    ASSUME TypeOK, TypeOK', RefInv, UNCHANGED <<world, caches>>, NEW i \in Ingresses
    PROVE  SameView(i) /\ (decs'[i] = decs[i] => (Orphaned(i) => Orphaned(i)'))
<1>1. Grows
  <2>1. \A j \in Ingresses : Len(api[j]) \in Nat
    BY Lengths
  <2>q. QED
    BY <2>1, SMT DEF Grows, world
<1>q. QED
  BY <1>1, StillView, OrphanedStill DEF world, caches

\* What a step of the worker does not change for an Ingress it is not about, or
\* whose configuration it has done with.
LEMMA DecKept ==
    ASSUME TypeOK, TypeOK', RefInv, UNCHANGED <<world, caches>>, NEW i \in Ingresses,
           queue \subseteq queue', decs'[i] = decs[i], DecOK(i), WillFix(i) => WillFix(i)'
    PROVE  DecOK(i)'
<1>1. SameView(i) /\ (Orphaned(i) => Orphaned(i)')
  BY WorkView
<1>2. Waived(i) => Waived(i)'
  BY <1>1, WaivedStill
<1>q. QED
  BY <1>1, <1>2 DEF DecOK, SameView

LEMMA SharedKept ==
    ASSUME TypeOK, TypeOK', RefInv, UNCHANGED <<world, caches>>, NEW i \in Ingresses,
           queue \subseteq queue', shared'[i] = shared[i], SharedOK(i), WillShare(i) => WillShare(i)'
    PROVE  SharedOK(i)'
<1>1. SameView(i)
  BY WorkView
<1>2. Waived(i) => Waived(i)'
  BY <1>1, WaivedStill
<1>q. QED
  BY <1>1, <1>2 DEF SharedOK, SameView

\* The worker stays in the branch that is right for the cached revision.
LEMMA WorkKept ==
    ASSUME TypeOK, TypeOK', RefInv, UNCHANGED <<world, caches>>, NEW i \in Ingresses,
           queue \subseteq queue', WorkOK(i), work.pc # "idle", work.pc # "classify",
           work'.pc # "classify", work'.req = work.req, work'.rev = work.rev, work'.mode = work.mode
    PROVE  WorkOK(i)'
<1>1. SameView(i)
  BY WorkView
<1>q. QED
  BY <1>1 DEF WorkOK, Agrees, SameView

\* A worker that is idle again has left nothing behind for i.
LEMMA IdleTracked ==
    ASSUME NEW i \in Ingresses, work' = Idle, DecOK(i)', SharedOK(i)'
    PROVE  Tracked(i)'
BY IdleType DEF Tracked, WantOK, WorkOK

LEMMA FailTracked ==
    ASSUME TypeOK, TypeOK', RefInv, UNCHANGED <<world, published, caches>>, NEW i \in Ingresses,
           Tracked(i), FailRequest
    PROVE  Tracked(i)'
<1>1. queue \subseteq queue' /\ work.req \in queue' /\ work' = Idle
  BY DEF FailRequest
<1>2. work.req = i => Waived(i)'
  BY <1>1 DEF Waived
<1>3. DecOK(i)'
  <2>1. CASE WillFix(i)
    BY <1>2, <2>1 DEF WillFix, DecOK
  <2>2. CASE ~WillFix(i)
    BY <1>1, <2>2, DecKept DEF Tracked, published
  <2>q. QED
    BY <2>1, <2>2
<1>4. SharedOK(i)'
  <2>1. CASE WillShare(i)
    BY <1>1, <1>2, <2>1 DEF WillShare, SharedOK
  <2>2. CASE ~WillShare(i)
    BY <1>1, <2>2, SharedKept DEF Tracked, published
  <2>q. QED
    BY <2>1, <2>2
<1>q. QED
  BY <1>1, <1>3, <1>4, IdleTracked

\* A write that is forbidden ends the reconciliation: i is barred, or it is not the
\* Ingress of the cache any more.
LEMMA AbortTracked ==
    ASSUME TypeOK, TypeOK', RefInv, UNCHANGED <<world, published, caches, queue>>,
           NEW i \in Ingresses, Tracked(i), work.pc \in {"dec", "svc"}, work.req \in doomed,
           work' = Idle
    PROVE  Tracked(i)'
<1>1. work.mode = "dedicated" /\ work.req \in Ingresses
  BY DEF RefInv, ReadInv, HasRequest
<1>2. work.req = i => Waived(i)
  BY <1>1 DEF Tracked, WorkOK, Agrees, Waived, Barred
<1>3. Waived(i) => Waived(i)'
  BY WorkView, WaivedStill
<1>4. DecOK(i)'
  <2>1. CASE WillFix(i)
    BY <1>2, <1>3, <2>1 DEF WillFix, DecOK
  <2>2. CASE ~WillFix(i)
    BY <2>2, DecKept DEF Tracked, published
  <2>q. QED
    BY <2>1, <2>2
<1>5. SharedOK(i)'
  <2>1. CASE WillShare(i)
    BY <1>1, <1>2, <1>3, <2>1, PseudoAssumption DEF WillShare, SharedOK
  <2>2. CASE ~WillShare(i)
    BY <2>2, SharedKept DEF Tracked, published
  <2>q. QED
    BY <2>1, <2>2
<1>q. QED
  BY <1>4, <1>5, IdleTracked

LEMMA ClassifyTracked ==
    ASSUME TypeOK, TypeOK', RefInv, NEW i \in Ingresses, Tracked(i), Classify
    PROVE  Tracked(i)'
<1>t. work \in WorkType /\ UNCHANGED <<world, published, caches>>
  BY DEF TypeOK, WorkType, Classify
<1>1. CASE FailRequest
  BY <1>t, <1>1, FailTracked
<1>2. CASE ~FailRequest
  <2>1. /\ queue' = queue /\ work.pc = "classify" /\ work.req \in Ingresses /\ Rev.phase = "live"
        /\ \/ /\ work' = [work EXCEPT !.pc = "list", !.mode = "unmanaged"]
              /\ ~isdolphinManagedIngress(Rev, seenDefault)
           \/ /\ work' = [work EXCEPT !.pc = "list", !.mode = "shared"]
              /\ isdolphinManagedIngress(Rev, seenDefault)
              /\ ~isEffectiveLoadbalancerModeDedicated(Rev)
           \/ /\ work' = [work EXCEPT !.pc = "dec", !.mode = "dedicated"]
              /\ isdolphinManagedIngress(Rev, seenDefault)
              /\ isEffectiveLoadbalancerModeDedicated(Rev)
    BY <1>2 DEF Classify, At, Rev, RefInv, ReadInv, HasRequest
  <2>2. work'.req = work.req /\ work'.rev = work.rev /\ work'.pc \in {"list", "dec"}
    BY <1>t, <2>1 DEF WorkType
  <2>3. DecOK(i)'
    <3>1. WillFix(i) => WillFix(i)'
      BY <1>t, <2>1, <2>2 DEF WillFix, WorkType
    <3>q. QED
      BY <1>t, <2>1, <3>1, DecKept DEF Tracked, published
  <2>4. SharedOK(i)'
    <3>1. WillShare(i) => WillShare(i)'
      BY <2>1, <2>2 DEF WillShare
    <3>q. QED
      BY <1>t, <2>1, <3>1, SharedKept DEF Tracked, published
  <2>5. WantOK(i)'
    BY <2>2 DEF WantOK
  <2>6. WorkOK(i)'
    <3> SUFFICES ASSUME work.req = i, i \notin queue, ~Lost(i) PROVE Agrees(i)'
      BY <1>t, <2>1, <2>2, WorkView DEF WorkOK, SameView
    <3>1. \/ work.rev = seen[i] /\ Rev = Cached(i)
          \/ Rev.class = "other" /\ ~CachedManaged(i)
      BY <2>1 DEF Tracked, WorkOK, Agrees, Rev, Cached
    <3>2. SameView(i)
      BY <1>t, WorkView
    <3>3. CASE work' = [work EXCEPT !.pc = "list", !.mode = "unmanaged"]
      <4>1. work'.pc = "list" /\ work'.mode = "unmanaged"
        BY <1>t, <3>3 DEF WorkType
      <4>2. ~isdolphinManagedIngress(Rev, seenDefault)
        BY <1>t, <2>1, <4>1 DEF WorkType
      <4>q. QED
        BY <3>1, <3>2, <4>1, <4>2 DEF Agrees, SameView, CachedManaged
    <3>4. CASE work' = [work EXCEPT !.pc = "list", !.mode = "shared"]
      <4>1. work'.pc = "list" /\ work'.mode = "shared"
        BY <1>t, <3>4 DEF WorkType
      <4>2. isdolphinManagedIngress(Rev, seenDefault) /\ ~isEffectiveLoadbalancerModeDedicated(Rev)
        BY <1>t, <2>1, <4>1 DEF WorkType
      <4>3. Rev.class # "other"
        BY <4>2 DEF isdolphinManagedIngress
      <4>4. CachedShared(i)
        BY <2>1, <3>1, <4>2, <4>3 DEF CachedShared, InSharedModel
      <4>q. QED
        BY <3>2, <4>1, <4>4 DEF Agrees, SameView
    <3>5. CASE work' = [work EXCEPT !.pc = "dec", !.mode = "dedicated"]
      <4>1. work'.pc = "dec" /\ work'.mode = "dedicated" /\ work'.rev = work.rev
        BY <1>t, <3>5 DEF WorkType
      <4>2. isdolphinManagedIngress(Rev, seenDefault) /\ isEffectiveLoadbalancerModeDedicated(Rev)
        BY <1>t, <2>1, <4>1 DEF WorkType
      <4>3. Rev.class # "other"
        BY <4>2 DEF isdolphinManagedIngress
      <4>4. CachedDedicated(i) /\ work.rev = seen[i]
        BY <2>1, <3>1, <4>2, <4>3 DEF CachedDedicated
      <4>q. QED
        BY <3>2, <4>1, <4>4 DEF Agrees, SameView
    <3>q. QED
      BY <2>1, <3>3, <3>4, <3>5
  <2>q. QED
    BY <2>3, <2>4, <2>5, <2>6 DEF Tracked
<1>q. QED
  BY <1>1, <1>2

LEMMA WriteTracked ==
    ASSUME TypeOK, TypeOK', RefInv, NEW i \in Ingresses, Tracked(i),
           WriteDolphinEnvoyConfig \/ WriteService
    PROVE  Tracked(i)'
<1>t. work \in WorkType /\ UNCHANGED <<world, shared, addr, caches>>
  BY DEF TypeOK, WorkType, WriteDolphinEnvoyConfig, WriteService
<1>r. /\ work.pc \in {"dec", "svc"} /\ work.mode = "dedicated" /\ work.req \in Ingresses
      /\ work.req # Pseudo
  BY PseudoAssumption DEF RefInv, ReadInv, HasRequest, WriteDolphinEnvoyConfig, WriteService, At
<1>1. CASE work' = Idle /\ work.req \in doomed /\ UNCHANGED <<decs, svc, queue>>
  BY <1>t, <1>r, <1>1, AbortTracked DEF published
<1>2. CASE /\ work' = [work EXCEPT !.pc = IF work.pc = "dec" THEN "svc" ELSE "list"]
           /\ queue \subseteq queue'
           /\ decs' = IF work.pc = "dec" THEN [decs EXCEPT ![work.req] = work.rev] ELSE decs
  <2>1. /\ work'.req = work.req /\ work'.rev = work.rev /\ work'.mode = work.mode
        /\ work'.pc = IF work.pc = "dec" THEN "svc" ELSE "list"
    BY <1>t, <1>2 DEF WorkType
  <2>2. DecOK(i)'
    <3>1. CASE work.pc = "dec" /\ work.req = i
      <4>1. decs'[i] = work.rev
        BY <1>2, <1>r, <3>1 DEF TypeOK
      <4>2. i \in queue \/ Lost(i) \/ (CachedDedicated(i) /\ work.rev = seen[i])
        BY <1>r, <3>1 DEF Tracked, WorkOK, Agrees
      <4>q. QED
        BY <1>t, <1>2, <4>1, <4>2, WorkView DEF DecOK, Waived, SameView
    <3>2. CASE ~(work.pc = "dec" /\ work.req = i)
      <4>1. decs'[i] = decs[i]
        BY <1>2, <1>r, <3>2 DEF TypeOK
      <4>2. WillFix(i) => WillFix(i)'
        BY <1>r, <2>1, <3>2 DEF WillFix
      <4>q. QED
        BY <1>t, <1>2, <4>1, <4>2, DecKept DEF Tracked
    <3>q. QED
      BY <3>1, <3>2
  <2>3. SharedOK(i)'
    <3>1. WillShare(i) => WillShare(i)'
      BY <1>r, <2>1 DEF WillShare
    <3>q. QED
      BY <1>t, <1>2, <3>1, SharedKept DEF Tracked
  <2>4. WantOK(i)'
    BY <1>r, <2>1 DEF WantOK
  <2>5. WorkOK(i)'
    BY <1>t, <1>r, <1>2, <2>1, WorkKept, SMT DEF Tracked
  <2>q. QED
    BY <2>2, <2>3, <2>4, <2>5 DEF Tracked
<1>q. QED
  BY <1>1, <1>2 DEF WriteDolphinEnvoyConfig, WriteService, At, Goto, CreateForbidden

LEMMA ListTracked ==
    ASSUME TypeOK, TypeOK', RefInv, NEW i \in Ingresses, Tracked(i), ListShared
    PROVE  Tracked(i)'
<1>t. work \in WorkType /\ UNCHANGED <<world, published, caches>> /\ work.pc = "list"
  BY DEF TypeOK, WorkType, ListShared, At
<1>1. CASE FailRequest
  BY <1>t, <1>1, FailTracked
<1>2. CASE /\ work' = [work EXCEPT !.pc = "shared",
                         !.want = [j \in Ingresses |->
                                     IF InSharedModel(Cached(j), seenDefault) THEN seen[j] ELSE 0]]
           /\ queue' = queue
  <2>1. /\ work'.req = work.req /\ work'.rev = work.rev /\ work'.mode = work.mode
        /\ work'.pc = "shared" /\ work'.want[i] = SharedTarget(i)
    BY <1>t, <1>2 DEF WorkType, SharedTarget, CachedShared
  <2>2. DecOK(i)'
    <3>1. WillFix(i) => WillFix(i)'
      BY <1>t, <2>1 DEF WillFix
    <3>q. QED
      BY <1>t, <1>2, <3>1, DecKept DEF Tracked, published
  <2>3. SharedOK(i)'
    <3>1. WillShare(i) => WillShare(i)'
      BY <2>1 DEF WillShare
    <3>q. QED
      BY <1>t, <1>2, <3>1, SharedKept DEF Tracked, published
  <2>4. WantOK(i)'
    BY <1>t, <2>1, WorkView DEF WantOK, SameView
  <2>5. WorkOK(i)'
    BY <1>t, <1>2, <2>1, WorkKept DEF Tracked
  <2>q. QED
    BY <2>2, <2>3, <2>4, <2>5 DEF Tracked
<1>q. QED
  BY <1>1, <1>2 DEF ListShared

LEMMA WriteSharedTracked ==
    ASSUME TypeOK, TypeOK', RefInv, NEW i \in Ingresses, Tracked(i), WriteShared
    PROVE  Tracked(i)'
<1>t. /\ work \in WorkType /\ UNCHANGED <<world, decs, caches>> /\ work.pc = "shared"
      /\ shared'[i] = work.want[i] /\ queue \subseteq queue'
  BY DEF TypeOK, WorkType, WriteShared, At
<1>1. SharedOK(i)'
  BY <1>t, WorkView DEF Tracked, WantOK, SharedOK, Waived, SameView
<1>2. CASE work.mode = "gone" /\ work' = Idle
  <2>1. ~WillFix(i)
    BY <1>t, <1>2 DEF WillFix
  <2>2. DecOK(i)'
    BY <1>t, <2>1, DecKept DEF Tracked
  <2>q. QED
    BY <1>1, <1>2, <2>2, IdleTracked
<1>3. CASE \/ work.mode = "dedicated" /\ work' = [work EXCEPT !.pc = "status", !.want = Nothing]
           \/ /\ work.mode \in {"unmanaged", "shared"}
              /\ work' = [work EXCEPT !.pc = "delete", !.want = Nothing, !.left = Kinds]
  <2>1. /\ work'.req = work.req /\ work'.rev = work.rev /\ work'.mode = work.mode
        /\ work'.pc \in {"status", "delete"}
        /\ work.mode # "dedicated" => work'.pc = "delete" /\ work'.left = Kinds
    BY <1>t, <1>3 DEF WorkType
  <2>2. DecOK(i)'
    <3>1. WillFix(i) => WillFix(i)'
      BY <1>t, <2>1 DEF WillFix, Kinds
    <3>q. QED
      BY <1>t, <3>1, DecKept DEF Tracked
  <2>3. WantOK(i)'
    BY <2>1 DEF WantOK
  <2>4. WorkOK(i)'
    BY <1>t, <2>1, WorkKept DEF Tracked
  <2>q. QED
    BY <1>1, <2>2, <2>3, <2>4 DEF Tracked
<1>q. QED
  BY <1>t, <1>2, <1>3 DEF WriteShared, WorkType, Modes

LEMMA DeleteTracked ==
    ASSUME TypeOK, TypeOK', RefInv, NEW i \in Ingresses, Tracked(i), NEW kind \in Kinds,
           DeleteDedicated(kind)
    PROVE  Tracked(i)'
<1>t. /\ work \in WorkType /\ UNCHANGED <<world, shared, caches>> /\ work.pc = "delete"
      /\ queue \subseteq queue' /\ kind \in work.left
  BY DEF TypeOK, WorkType, DeleteDedicated, At
<1>r. work.mode \in {"unmanaged", "shared"} /\ work.req \in Ingresses
  BY <1>t DEF RefInv, ReadInv, HasRequest
<1>1. /\ work'.req = work.req /\ work'.rev = work.rev /\ work'.mode = work.mode
      /\ work'.left = work.left \ {kind}
      /\ work'.pc = IF work.left # {kind} THEN "delete"
                    ELSE IF work.mode = "shared" THEN "status" ELSE "clear"
  BY <1>t DEF DeleteDedicated, WorkType
<1>2. DecOK(i)'
  <2>1. CASE kind = "dec" /\ work.req = i
    <3>1. decs'[i] = 0
      BY <1>r, <2>1 DEF DeleteDedicated, TypeOK
    <3>2. i \in queue \/ Lost(i) \/ ~CachedManaged(i) \/ CachedShared(i)
      BY <1>t, <1>r, <2>1 DEF Tracked, WorkOK, Agrees
    <3>3. ~CachedManaged(i) \/ CachedShared(i) => ~CachedDedicated(i)
      BY DEF CachedManaged, CachedShared, CachedDedicated, InSharedModel
    <3>q. QED
      BY <1>t, <3>1, <3>2, <3>3, WorkView, SMT DEF DecOK, Waived, SameView
  <2>2. CASE ~(kind = "dec" /\ work.req = i)
    <3>1. decs'[i] = decs[i]
      BY <1>r, <2>2 DEF DeleteDedicated, TypeOK
    <3>2. WillFix(i) => WillFix(i)'
      <4>1. WillFix(i) => work.req = i /\ "dec" \in work.left /\ kind # "dec"
        BY <1>t, <2>2 DEF WillFix
      <4>q. QED
        BY <1>1, <4>1 DEF WillFix
    <3>q. QED
      BY <1>t, <3>1, <3>2, DecKept, SMT DEF Tracked
  <2>q. QED
    BY <2>1, <2>2
<1>3. SharedOK(i)'
  <2>1. ~WillShare(i)
    BY <1>t DEF WillShare
  <2>q. QED
    BY <1>t, <2>1, SharedKept DEF Tracked
<1>4. WantOK(i)'
  BY <1>1 DEF WantOK
<1>5. WorkOK(i)'
  BY <1>t, <1>1, WorkKept DEF Tracked
<1>q. QED
  BY <1>2, <1>3, <1>4, <1>5 DEF Tracked

LEMMA StatusTracked ==
    ASSUME TypeOK, TypeOK', RefInv, NEW i \in Ingresses, Tracked(i), UpdateStatus \/ ClearStatus
    PROVE  Tracked(i)'
<1>t. /\ UNCHANGED <<world, decs, shared, caches>> /\ work.pc \in {"status", "clear"}
      /\ queue \subseteq queue' /\ work' = Idle
  BY DEF UpdateStatus, ClearStatus, At, FailRequest
<1>1. ~WillFix(i) /\ ~WillShare(i)
  BY <1>t DEF WillFix, WillShare
<1>2. DecOK(i)' /\ SharedOK(i)'
  BY <1>t, <1>1, DecKept, SharedKept DEF Tracked
<1>q. QED
  BY <1>t, <1>2, IdleTracked

\* A reconciliation starts with what the cache says.
LEMMA StartTracked ==
    ASSUME TypeOK, TypeOK', RefInv, NEW i \in Ingresses, Tracked(i), NEW r \in Requests, Start(r)
    PROVE  Tracked(i)'
<1>t. /\ UNCHANGED <<world, published, caches>> /\ work.pc = "idle"
      /\ queue' = queue \ {r}
  BY DEF Start, At
<1>v. /\ SameView(i) /\ decs' = decs /\ shared' = shared /\ (Orphaned(i) => Orphaned(i)')
      /\ seen'[i] = seen[i]
  BY <1>t, WorkView DEF published, caches
<1>n. i # Pseudo /\ ~WillFix(i) /\ ~WillShare(i)
  BY <1>t, PseudoAssumption DEF WillFix, WillShare
<1>1. CASE r # i /\ r # Pseudo
  <2>1. work'.req # i /\ work'.pc \in {"idle", "list", "classify"}
    BY <1>1, <1>n DEF Start, Idle
  <2>2. Waived(i) => Waived(i)'
    BY <1>t, <1>v, <1>1 DEF Waived, SameView
  <2>3. Pseudo \in queue => Pseudo \in queue'
    BY <1>t, <1>1
  <2>q. QED
    BY <1>v, <1>n, <2>1, <2>2, <2>3
       DEF Tracked, DecOK, SharedOK, WantOK, WorkOK, SameView
<1>2. CASE r = Pseudo
  <2>1. work'.req = Pseudo /\ work'.pc = "list"
    BY <1>2 DEF Start, Idle
  <2>2. Waived(i) => Waived(i)'
    BY <1>t, <1>v, <1>2, <1>n DEF Waived, SameView
  <2>3. WillShare(i)'
    BY <2>1 DEF WillShare
  <2>q. QED
    BY <1>v, <1>n, <2>1, <2>2, <2>3
       DEF Tracked, DecOK, SharedOK, WantOK, WorkOK, SameView
<1>3. CASE r = i /\ Cached(i).phase = "absent"
  <2>1. work'.req = i /\ work'.pc = "list" /\ work'.mode = "gone"
    BY <1>3, <1>n DEF Start, Idle
  <2>2. ~CachedManaged(i) /\ ~CachedDedicated(i)
    BY <1>3 DEF CachedManaged, CachedDedicated
  <2>3. decs[i] = 0 \/ Orphaned(i)
    <3>1. seen[i] \in Nat /\ decs[i] \in Nat /\ Len(api[i]) \in Nat
      BY Numbers
    <3>2. decs[i] <= seen[i] /\ seen[i] \in 1 .. Len(api[i])
      BY DEF RefInv, SeenInv
    <3>3. seen[i] \in decs[i] .. Len(api[i])
      BY <3>1, <3>2, SMT
    <3>q. QED
      BY <1>3, <3>3 DEF Orphaned, EnqueueOwner, OwnerGroup, Cached
  <2>4. DecOK(i)' /\ SharedOK(i)'
    BY <1>v, <2>1, <2>2, <2>3 DEF DecOK, SharedOK, WillShare, SameView
  <2>5. WantOK(i)' /\ WorkOK(i)'
    BY <1>v, <2>1, <2>2 DEF WantOK, WorkOK, Agrees, SameView
  <2>q. QED
    BY <2>4, <2>5 DEF Tracked
<1>4. CASE r = i /\ Cached(i).phase = "deleting"
  <2>1. work' = Idle
    BY <1>4, <1>n DEF Start
  <2>2. Waived(i)'
    BY <1>4, <1>v DEF Waived, SameView
  <2>3. DecOK(i)' /\ SharedOK(i)'
    BY <2>2 DEF DecOK, SharedOK
  <2>q. QED
    BY <2>1, <2>3, IdleTracked
<1>5. CASE r = i /\ Cached(i).phase # "absent" /\ Cached(i).phase # "deleting"
  <2>1. work'.req = i /\ work'.pc = "classify" /\ work'.rev = seen[i]
    BY <1>5, <1>n DEF Start, Idle
  <2>2. DecOK(i)' /\ SharedOK(i)'
    BY <2>1 DEF DecOK, SharedOK, WillFix, WillShare
  <2>3. WantOK(i)' /\ WorkOK(i)'
    BY <1>v, <2>1 DEF WantOK, WorkOK, Agrees
  <2>q. QED
    BY <2>2, <2>3 DEF Tracked
<1>q. QED
  BY <1>1, <1>2, <1>3, <1>4, <1>5

\* An event brings the newest revision of i.
LEMMA DeliverTracked ==
    ASSUME TypeOK, TypeOK', RefInv, NEW i \in Ingresses, Tracked(i), Deliver(i), ~Stop
    PROVE  Tracked(i)'
<1>1. /\ UNCHANGED <<world, published, seenDefault, up, work>> /\ seen'[i] = Len(api[i])
      /\ seen[i] < Len(api[i]) /\ ~Panics(Cached(i))
      /\ queue' = IF Relevant(Cached(i), Newest(i), seenDefault) THEN queue \cup {i} ELSE queue
  BY DEF Deliver, PredicatePanics, TypeOK
<1>2. CASE i \in queue'
  <2>1. Waived(i)'
    BY <1>2 DEF Waived
  <2>q. QED
    BY <1>2, <2>1 DEF Tracked, DecOK, SharedOK, WantOK, WorkOK
<1>3. CASE i \notin queue'
  <2>1. ~Relevant(Cached(i), Newest(i), seenDefault) /\ queue' = queue
    BY <1>1, <1>3
  <2>2. Cached(i)' = Newest(i)
    BY <1>1 DEF Cached, Newest, world
  <2>3. ~CachedManaged(i) /\ ~CachedManaged(i)'
    BY <1>1, <2>1, <2>2 DEF Relevant, CachedManaged, isdolphinManagedIngress
  <2>4. /\ ~CachedDedicated(i) /\ ~CachedDedicated(i)' /\ ~CachedShared(i) /\ ~CachedShared(i)'
        /\ SharedTarget(i) = 0 /\ SharedTarget(i)' = 0
    BY <2>3 DEF CachedManaged, CachedDedicated, CachedShared, SharedTarget, InSharedModel
  <2>5. /\ seen[i] \in 1 .. (seen'[i] - 1) /\ 1 .. (seen[i] - 1) \subseteq 1 .. (seen'[i] - 1)
        /\ api' = api
    BY <1>1, Lengths, SMT DEF RefInv, SeenInv, world
  <2>6. Lost(i) => Lost(i)'
    <3> SUFFICES ASSUME NEW k \in 1 .. (seen[i] - 1), Slippery(api[i][k]) PROVE Lost(i)'
      BY DEF Lost
    <3>1. k \in 1 .. (seen'[i] - 1) /\ Slippery(api'[i][k])
      BY <2>5
    <3>q. QED
      BY <2>3, <3>1 DEF Lost, Slippery
  <2>7. Slippery(Cached(i)) => Lost(i)'
    <3> SUFFICES ASSUME Slippery(Cached(i)) PROVE Lost(i)'
      OBVIOUS
    <3>1. Slippery(api'[i][seen[i]])
      BY <2>5 DEF Cached
    <3>q. QED
      BY <2>3, <2>5, <3>1 DEF Lost, Slippery
  <2>8. Waived(i) => Waived(i)'
    <3>1. Cached(i).phase = "deleting" => Slippery(Cached(i))
      BY <2>3 DEF CachedManaged, isdolphinManagedIngress, Slippery
    <3>q. QED
      BY <2>1, <2>4, <2>6, <2>7, <3>1 DEF Waived, Barred
  <2>9. DecOK(i)'
    <3>1. Orphaned(i) => Orphaned(i)'
      BY <1>1, <2>5 DEF Orphaned, EnqueueOwner, OwnerGroup, published
    <3>2. WillFix(i) => WillFix(i)'
      BY <1>1 DEF WillFix
    <3>q. QED
      BY <1>1, <2>4, <2>8, <3>1, <3>2 DEF Tracked, DecOK, published
  <2>10. SharedOK(i)' /\ WantOK(i)'
    BY <1>1, <2>1, <2>4, <2>8 DEF Tracked, SharedOK, WillShare, WantOK, published
  <2>11. WorkOK(i)'
    <3>1. work.pc = "classify" /\ work.req = i /\ work.rev = seen[i] =>
            Slippery(Cached(i)) \/ api[i][work.rev].class = "other"
      <4> SUFFICES ASSUME work.pc = "classify", work.req = i, work.rev = seen[i]
                   PROVE  Slippery(Cached(i)) \/ Cached(i).class = "other"
        BY DEF Cached
      <4>1. Cached(i).phase = "live"
        BY DEF RefInv, ReadInv, Rev, Cached
      <4>2. Cached(i).class \in {"dolphin", "other", "empty", "nil"}
        <5>1. Cached(i) \in Revisions
          BY SMTT(20) DEF Cached, TypeOK, RefInv, SeenInv
        <5>q. QED
          BY <5>1, RevisionsAssumption
      <4>q. QED
        BY <1>1, <2>3, <4>1, <4>2 DEF Panics, Slippery, CachedManaged, isdolphinManagedIngress
    <3>q. QED
      BY <1>1, <2>1, <2>3, <2>4, <2>5, <2>6, <2>7, <3>1, TypeOK DEF Tracked, WorkOK, Agrees
  <2>q. QED
    BY <2>9, <2>10, <2>11 DEF Tracked
<1>q. QED
  BY <1>2, <1>3

\* An event of the IngressClass: it matters to the Ingresses without an explicit
\* class, and these are queued.
LEMMA ClassTracked ==
    ASSUME TypeOK, TypeOK', RefInv, NEW i \in Ingresses, Tracked(i), DeliverClass
    PROVE  Tracked(i)'
<1>1. UNCHANGED <<world, published, seen, up, work>> /\ queue' = queue \cup ClasslessRequests
  BY DEF DeliverClass
<1>2. CASE i \in ClasslessRequests
  <2>1. i \in queue' /\ Waived(i)'
    BY <1>1, <1>2 DEF Waived
  <2>q. QED
    BY <2>1 DEF Tracked, DecOK, SharedOK, WantOK, WorkOK
<1>3. CASE i \notin ClasslessRequests
  <2>1. Cached(i)' = Cached(i) /\ seen' = seen /\ api' = api
    BY <1>1 DEF Cached, world
  <2>2. Cached(i).phase = "absent" \/ Cached(i).class \notin {"empty", "nil"}
    BY <1>3 DEF ClasslessRequests
  <2>3. /\ CachedManaged(i)' <=> CachedManaged(i)
        /\ CachedDedicated(i)' <=> CachedDedicated(i)
        /\ CachedShared(i)' <=> CachedShared(i)
        /\ SharedTarget(i)' = SharedTarget(i)
    BY <2>1, <2>2 DEF CachedManaged, CachedDedicated, CachedShared, SharedTarget, InSharedModel,
                      isdolphinManagedIngress, isEffectiveLoadbalancerModeDedicated
  <2>4. SameView(i)
    BY <1>1, <2>1, <2>3 DEF SameView, Lost, Slippery, Barred, world
  <2>5. Grows
    BY <2>1, Lengths, SMT DEF Grows
  <2>q. QED
    BY <1>1, <2>4, <2>5, StillTracked DEF published
<1>q. QED
  BY <1>2, <1>3

\* A process that starts has every Ingress its caches and the published objects
\* tell it of in its queue.
Fresh ==
    /\ \A i \in Ingresses : seen[i] = Len(api[i])
    /\ seenDefault = isDefault /\ queue = InitialRequests(isDefault) /\ work = Idle

LEMMA FreshTracked == Fresh => \A i \in Ingresses : Tracked(i)
<1> SUFFICES ASSUME Fresh, NEW i \in Ingresses PROVE Tracked(i)
  OBVIOUS
<1>1. Cached(i) = Newest(i) /\ queue = InitialRequests(seenDefault)
  BY DEF Fresh, Cached, Newest
<1>2. CachedManaged(i) => i \in queue
  BY <1>1 DEF InitialRequests, CachedManaged
<1>3. decs[i] # 0 => i \in queue
  <2>1. EnqueueOwner("dec", i) = {i}
    BY DEF EnqueueOwner, OwnerGroup
  <2>q. QED
    BY <1>1, <2>1 DEF InitialRequests
<1>4. shared[i] # 0 => Pseudo \in queue
  BY <1>1 DEF InitialRequests
<1>5. CachedDedicated(i) \/ CachedShared(i) => CachedManaged(i)
  BY DEF CachedManaged, CachedDedicated, CachedShared, InSharedModel
<1>6. DecOK(i) /\ SharedOK(i)
  BY <1>2, <1>3, <1>4, <1>5 DEF DecOK, SharedOK, Waived, SharedTarget
<1>q. QED
  BY <1>6, IdleType DEF Tracked, WantOK, WorkOK, Fresh

LEMMA TrackInit == Init => TrackInv
<1> SUFFICES ASSUME Init PROVE TrackInv
  OBVIOUS
<1>1. \A i \in Ingresses : seen[i] = Len(api[i])
  <2> SUFFICES ASSUME NEW i \in Ingresses PROVE seen[i] = Len(api[i])
    OBVIOUS
  <2>1. PICK r \in InitRevisions : api[i] = <<r>>
    BY DEF Init
  <2>2. seen[i] = 1
    BY DEF Init
  <2>q. QED
    BY <2>1, <2>2
<1>2. up => Fresh
  BY <1>1 DEF Init, Fresh
<1>q. QED
  BY <1>2, FreshTracked DEF TrackInv, Init

\* Every step keeps track of every Ingress.
LEMMA TrackStep == TypeOK /\ TypeOK' /\ RefInv /\ TrackInv /\ [Next]_vars => TrackInv'
<1> SUFFICES ASSUME TypeOK, TypeOK', RefInv, TrackInv, [Next]_vars PROVE TrackInv'
  OBVIOUS
<1>w. \A i \in Ingresses : Len(api[i]) \in Nat
  BY Lengths
<1>g. api' = api => Grows
  BY <1>w, SMT DEF Grows
<1>stop. CASE Stop
  BY <1>stop DEF Stop, TrackInv
\* A step that leaves the worker and the caches alone.
<1>o. ASSUME Grows, UNCHANGED <<seen, seenDefault, work, up>>, up => queue \subseteq queue',
             \A i \in Ingresses :
               /\ i \in doomed /\ CachedDedicated(i) => i \in doomed' \/ seen[i] # Len(api'[i])
               /\ up => decs'[i] = decs[i] \/ i \in queue'
               /\ up => shared'[i] = shared[i] \/ Pseudo \in queue'
      PROVE  TrackInv'
  <2>1. up => \A i \in Ingresses : SameView(i) /\ Tracked(i)
    BY <1>o, StillView DEF TrackInv
  <2>2. up => \A i \in Ingresses : Tracked(i)'
    BY <1>o, <2>1, StillTracked
  <2>q. QED
    BY <1>o, <2>2 DEF TrackInv
<1>s. CASE UNCHANGED vars
  BY <1>s, <1>g, <1>o DEF vars, world, published, caches
<1>1. ASSUME NEW r \in Requests, Start(r) PROVE TrackInv'
  <2>1. up /\ up' = up
    BY <1>1 DEF Start, At
  <2>2. \A i \in Ingresses : Tracked(i)'
    BY <1>1, <2>1, StartTracked DEF TrackInv
  <2>q. QED
    BY <2>1, <2>2 DEF TrackInv
<1>2. CASE Work
  <2>1. up /\ up' = up
    BY <1>2 DEF Work, Classify, WriteDolphinEnvoyConfig, WriteService, ListShared, WriteShared,
                DeleteDedicated, UpdateStatus, ClearStatus, At
  <2>2. ASSUME NEW i \in Ingresses PROVE Tracked(i)'
    <3>1. Tracked(i)
      BY <2>1 DEF TrackInv
    <3>q. QED
      BY <1>2, <3>1, ClassifyTracked, WriteTracked, ListTracked, WriteSharedTracked,
         DeleteTracked, StatusTracked DEF Work
  <2>q. QED
    BY <2>1, <2>2 DEF TrackInv
<1>3. ASSUME NEW i \in Ingresses, Deliver(i), ~Stop PROVE TrackInv'
  <2>1. /\ up /\ UNCHANGED <<world, published, seenDefault, up, work>> /\ queue \subseteq queue'
        /\ \A j \in Ingresses \ {i} : seen'[j] = seen[j]
    BY <1>3 DEF Deliver, TypeOK
  <2>2. Tracked(i)'
    BY <1>3, <2>1, DeliverTracked DEF TrackInv
  <2>3. ASSUME NEW j \in Ingresses \ {i} PROVE Tracked(j)'
    <3>1. SameView(j)
      BY <1>g, <2>1, StillView DEF world
    <3>q. QED
      BY <1>g, <2>1, <3>1, StillTracked DEF TrackInv, world, published
  <2>q. QED
    BY <2>1, <2>2, <2>3 DEF TrackInv
<1>4. CASE DeliverClass
  <2>1. up /\ up' = up
    BY <1>4 DEF DeliverClass
  <2>q. QED
    BY <1>4, <2>1, ClassTracked DEF TrackInv
<1>5. CASE Fault
  <2>1. up /\ UNCHANGED <<world, published, caches, up>> /\ FailRequest
    BY <1>5 DEF Fault
  <2>q. QED
    BY <2>1, FailTracked DEF TrackInv
<1>6. CASE Restart
  <2>1. work = Idle /\ work' = work /\ up'
    BY <1>6 DEF Restart, TrackInv
  <2>2. Fresh'
    <3>1. UNCHANGED <<api, isDefault, decs, shared>>
      BY <1>6 DEF Restart, world, published
    <3>2. InitialRequests(isDefault)' = InitialRequests(isDefault)
      BY <3>1 DEF InitialRequests, Newest, isdolphinManagedIngress, EnqueueOwner, OwnerGroup
    <3>3. Idle' = Idle
      BY DEF Idle, Nothing
    <3>q. QED
      BY <1>6, <2>1, <3>1, <3>2, <3>3 DEF Fresh, Restart
  <2>3. (\A i \in Ingresses : Tracked(i))'
    BY <2>2, FreshTracked, PTL
  <2>q. QED
    BY <2>1, <2>3 DEF TrackInv
<1>7. ASSUME NEW i \in Ingresses, NEW r \in Revisions, NewRevision(i, r) PROVE TrackInv'
  <2>1. Grows
    BY <1>7, RevisionGrows
  <2>q. QED
    BY <1>7, <1>o, <2>1 DEF NewRevision, published, caches
<1>8. ASSUME NEW i \in Ingresses, FinishNamespace(i) PROVE TrackInv'
  <2>1. UNCHANGED <<api, seen, seenDefault, work, up, queue, decs, shared>>
    BY <1>8 DEF FinishNamespace, caches
  <2>2. \A j \in Ingresses : j \in doomed /\ CachedDedicated(j) =>
                               j \in doomed' \/ seen[j] # Len(api'[j])
    BY <1>8, <2>1 DEF FinishNamespace, CachedDedicated, Cached, Newest
  <2>q. QED
    BY <1>g, <1>o, <2>1, <2>2
<1>9. ASSUME NEW i \in Ingresses, Collect(i) PROVE TrackInv'
  <2>1. UNCHANGED <<api, seen, seenDefault, work, up, doomed, shared>>
    BY <1>9 DEF Collect, world, caches
  <2>2. (up => queue \subseteq queue' /\ i \in queue') /\ \A j \in Ingresses \ {i} : decs'[j] = decs[j]
    BY <1>9 DEF Collect, EnqueueOwner, OwnerGroup, TypeOK
  <2>q. QED
    BY <1>g, <1>o, <2>1, <2>2
<1>10. CASE \/ \E i \in Ingresses : TerminateNamespace(i) \/ AssignDedicated(i)
            \/ ToggleDefault \/ (AssignShared /\ ~Stop) \/ Drift
  <2>1. UNCHANGED <<api, seen, seenDefault, work, up, decs>>
    BY <1>10 DEF TerminateNamespace, AssignDedicated, ToggleDefault, AssignShared, Drift,
                 world, published, caches
  <2>2. /\ doomed \subseteq doomed' /\ (up => queue \subseteq queue')
        /\ up => shared' = shared \/ Pseudo \in queue'
    BY <1>10 DEF TerminateNamespace, AssignDedicated, ToggleDefault, AssignShared, Drift,
                 world, published, caches
  <2>q. QED
    BY <1>g, <1>o, <2>1, <2>2
<1>c. CASE Cluster
  BY <1>c, <1>stop, <1>7, <1>8, <1>9, <1>10 DEF Cluster, Revise, RemoveDoomed
<1>q. QED
  BY <1>stop, <1>s, <1>1, <1>2, <1>3, <1>4, <1>5, <1>6, <1>c DEF Next, Requests, Crash

\* What is tracked of the cache says for a cache that is up to date.
LEMMA UpToDate ==
    ASSUME seenDefault = isDefault, NEW i \in Ingresses, seen[i] = Len(api[i])
    PROVE  /\ Cached(i) = Newest(i)
           /\ CachedDedicated(i) <=> WantsDedicated(i)
           /\ CachedShared(i) <=> WantsShared(i)
           /\ Lost(i) => LostTrack(i) /\ ~WantsDedicated(i) /\ ~WantsShared(i)
<1>1. Cached(i) = Newest(i)
  BY DEF Cached, Newest
<1>q. QED
  BY <1>1 DEF CachedDedicated, WantsDedicated, CachedShared, WantsShared, Lost, LostTrack,
              CachedManaged, InSharedModel

\* Whatever interleaves, fails or crashes: an Ingress that is not published at its
\* newest revision has a reconciliation coming.
THEOREM NothingForgotten == Spec => []NoForgottenGap
<1>1. TypeOK /\ TrackInv => NoForgottenGap
  <2> SUFFICES ASSUME TypeOK, TrackInv, NEW i \in Ingresses, ~Coming(i)
               PROVE  /\ WantsDedicated(i) /\ decs[i] # Len(api[i]) => i \in doomed
                      /\ WantsShared(i) /\ shared[i] # Len(api[i]) =>
                           Pseudo \in queue \/ (work.pc # "idle" /\ work.req = Pseudo)
    BY DEF NoForgottenGap
  <2>1. /\ up /\ seenDefault = isDefault /\ seen[i] = Len(api[i]) /\ i \notin queue
        /\ ~(work.pc # "idle" /\ work.req = i)
    BY DEF Coming
  <2>2. DecOK(i) /\ SharedOK(i) /\ ~WillFix(i)
    BY <2>1 DEF TrackInv, Tracked, WillFix
  <2>3. WantsDedicated(i) \/ WantsShared(i) => ~(Cached(i).phase = "deleting" \/ Lost(i))
    BY <2>1, UpToDate DEF WantsDedicated, WantsShared, InSharedModel
  <2>4. WantsShared(i) => ~WantsDedicated(i)
    BY DEF WantsDedicated, WantsShared, InSharedModel
  <2>5. WantsDedicated(i) /\ decs[i] # Len(api[i]) => i \in doomed
    BY <2>1, <2>2, <2>3, UpToDate DEF DecOK, Waived, Barred
  <2>6. WantsShared(i) /\ shared[i] # Len(api[i]) =>
          Pseudo \in queue \/ (work.pc # "idle" /\ work.req = Pseudo)
    BY <2>1, <2>2, <2>3, <2>4, UpToDate DEF SharedOK, Waived, Barred, WillShare, SharedTarget
  <2>q. QED
    BY <2>5, <2>6
<1>2. TypeInv => TypeOK
  BY DEF TypeInv
<1>q. QED
  BY <1>1, <1>2, TypeInit, TypeStep, RefInit, RefStep, TrackInit, TrackStep, PTL DEF Spec

\* With nothing left to do, every Ingress is published as its newest revision
\* asks, and in no other way.
THEOREM QuiescentIsCurrent == Spec => []QuiescentCurrent
<1>1. TrackInv => QuiescentCurrent
  <2> SUFFICES ASSUME TrackInv, up, work.pc = "idle", queue = {}, seenDefault = isDefault,
                      NEW i \in Ingresses, seen[i] = Len(api[i]), i \notin doomed, ~Orphaned(i),
                      Newest(i).phase # "deleting", ~LostTrack(i)
               PROVE  /\ decs[i] = IF WantsDedicated(i) THEN Len(api[i]) ELSE 0
                      /\ shared[i] = IF WantsShared(i) THEN Len(api[i]) ELSE 0
    BY DEF QuiescentCurrent, Current
  <2>1. DecOK(i) /\ SharedOK(i) /\ ~WillFix(i) /\ ~WillShare(i)
    BY DEF TrackInv, Tracked, WillFix, WillShare
  <2>2. ~Waived(i)
    BY UpToDate DEF Waived, Barred
  <2>q. QED
    BY <2>1, <2>2, UpToDate DEF DecOK, SharedOK, SharedTarget
<1>2. TypeInv => TypeOK
  BY DEF TypeInv
<1>q. QED
  BY <1>1, <1>2, TypeInit, TypeStep, RefInit, RefStep, TrackInit, TrackStep, PTL DEF Spec
=============================================================================
