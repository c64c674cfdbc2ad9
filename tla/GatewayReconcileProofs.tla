----------------------- MODULE GatewayReconcileProofs -----------------------
(***************************************************************************)
(* Proofs about GatewayReconcile, for every choice of its constants.       *)
(***************************************************************************)
EXTENDS GatewayReconcile, TLAPS

USE ZenonT(40)

USE SetsAssumption, NoneAssumption, ListenerSetAssumption, BoundsAssumption

-----------------------------------------------------------------------------
(* Types.                                                                  *)

\* The objects that stand for "nothing" are well typed.
LEMMA AbsentTypes ==
    /\ NoStatus \in Status /\ NoGw \in Gateway
    /\ NoRoutes \in RoutesOrNone /\ NoSvc \in Service /\ NoDec \in EnvoyConfig
BY SMT DEF NoStatus, NoGw, NoRoutes, NoSvc, NoDec, Status, Gateway, RoutesOrNone, Service,
       EnvoyConfig, Condition, Cond

\* Routes read from the cache are routes the worker can hold.
LEMMA RoutesTypes == Routes \subseteq RoutesOrNone
BY DEF Routes, RoutesOrNone

\* Every component of a well-typed Gateway is well typed, and conversely.
LEMMA GatewayFields ==
    ASSUME NEW g \in Gateway
    PROVE  /\ g = [phase |-> g.phase, gen |-> g.gen, cfg |-> g.cfg, class |-> g.class,
                   st |-> g.st]
           /\ g.st = [acc |-> g.st.acc, prog |-> g.st.prog, lst |-> g.st.lst,
                      addr |-> g.st.addr, als |-> g.st.als]
           /\ g.phase \in {"live", "deleting", "gone"} /\ g.gen \in 0 .. MaxGen
           /\ g.cfg \in Config \cup {None} /\ g.class \in Class \cup {None} /\ g.st \in Status
           /\ g.st.acc \in Condition /\ g.st.prog \in Condition
           /\ g.st.lst \in [gen : 0 .. MaxGen, routes : RoutesOrNone]
           /\ g.st.addr \in Addr \cup {None} /\ g.st.als \in Nat
BY DEF Gateway, Status

\* setGatewayAccepted and setGatewayProgrammed change one condition, to the
\* generation of the object they are given.
LEMMA SetConditionTypes ==
    ASSUME NEW g \in Gateway, NEW v \in {"True", "False"}
    PROVE  /\ SetAccepted(g, v) \in Gateway
           /\ SetProgrammed(g, v) \in Gateway
BY DEF SetAccepted, SetProgrammed, Gateway, Status, Condition, Cond

\* So do the assignments to the other fields of a Gateway.
LEMMA SetFieldTypes ==
    ASSUME NEW g \in Gateway
    PROVE  /\ \A l \in [gen : 0 .. MaxGen, routes : RoutesOrNone] :
                  [g EXCEPT !.st.lst = l] \in Gateway
           /\ \A n \in Nat : [g EXCEPT !.st.als = n] \in Gateway
           /\ \A a \in Addr \cup {None} : [g EXCEPT !.st.addr = a] \in Gateway
           /\ \A t \in Status : [g EXCEPT !.st = t] \in Gateway
           /\ \A p \in {"live", "deleting", "gone"} : [g EXCEPT !.phase = p] \in Gateway
           /\ \A c \in Config, k \in Class, n \in 0 .. MaxGen :
                  [g EXCEPT !.cfg = c, !.class = k, !.gen = n] \in Gateway
BY DEF Gateway, Status

\* So do the listener statuses.
LEMMA ListenerStatusTypes ==
    ASSUME NEW g \in Gateway
    PROVE  /\ \A r \in RoutesOrNone : setListenerStatus(g, r) \in Gateway
           /\ setListenerSetStatuses(g) \in Gateway
<1>1. ASSUME NEW r \in RoutesOrNone PROVE setListenerStatus(g, r) \in Gateway
    <2>1. [gen |-> g.gen, routes |-> r] \in [gen : 0 .. MaxGen, routes : RoutesOrNone]
        BY GatewayFields
    <2> QED BY <2>1, SetFieldTypes DEF setListenerStatus
<1>2. setListenerSetStatuses(g) \in Gateway
    BY SetFieldTypes DEF setListenerSetStatuses
<1> QED BY <1>1, <1>2

\* Every step keeps the Boolean variables Boolean.
LEMMA FlagsStep == FlagsOK /\ [Next]_vars => FlagsOK'
<1> SUFFICES ASSUME FlagsOK, [Next]_vars PROVE FlagsOK'
    OBVIOUS
<1> USE DEF FlagsOK, objects, caches, locals, derived
<1>1. CASE GetGateway \/ GetGatewayClass
    BY <1>1 DEF GetGateway, GetGatewayClass, Succeed, ClearLocals
<1>2. CASE GatherInputs \/ AcceptGateway
    BY <1>2 DEF GatherInputs, AcceptGateway, Fail, ClearLocals
<1>3. CASE EnsureService \/ EnsureEndpoints
    BY <1>3 DEF EnsureService, EnsureEndpoints, FailAfterAcceptance
<1>4. CASE EnsureEnvoyConfig \/ EnsureCiliumEnvoyConfig
    BY <1>4 DEF EnsureEnvoyConfig, EnsureCiliumEnvoyConfig, FailAfterAcceptance
<1>5. CASE DeleteEnvoyConfig \/ DeleteCiliumEnvoyConfig \/ SetAddressStatus
    BY <1>5 DEF DeleteEnvoyConfig, DeleteCiliumEnvoyConfig, SetAddressStatus
<1>6. CASE UpdateStatus
    BY <1>6 DEF UpdateStatus, StatusWrite, NoStatusWrite, Succeed, Fail, ClearLocals
<1>7. CASE HandleReconcileErrorWithStatus
    BY <1>7
       DEF HandleReconcileErrorWithStatus, StatusWrite, NoStatusWrite, Fail, ClearLocals
<1>8. CASE SyncGateway \/ SyncService \/ SyncEnvoyConfig
    BY <1>8 DEF SyncGateway, SyncService, SyncEnvoyConfig
<1>9. CASE SyncEndpoints \/ SyncRoutes
    BY <1>9 DEF SyncEndpoints, SyncRoutes
<1>10. CASE EditGateway \/ DeleteGateway \/ GarbageCollect \/ EditRoutes
    BY <1>10 DEF EditGateway, DeleteGateway, GarbageCollect, EditRoutes
<1>11. CASE CreateClass \/ AssignAddress \/ ChangeAddress
    BY <1>11 DEF CreateClass, AssignAddress, ChangeAddress
<1>12. CASE Restart
    BY <1>12 DEF Restart, ClearLocals
<1>13. CASE UNCHANGED vars
    BY <1>13 DEF vars
<1> QED
    BY <1>1, <1>2, <1>3, <1>4, <1>5, <1>6, <1>7, <1>8, <1>9, <1>10, <1>11, <1>12, <1>13
    DEF Next, Reconcile, Informers, Environment

\* Every step keeps every variable in its domain.
LEMMA TypeStep == TypeOK /\ [Next]_vars => TypeOK'
<1> SUFFICES ASSUME TypeOK, [Next]_vars PROVE TypeOK'
    OBVIOUS
<1> FlagsOK'
    BY FlagsStep DEF TypeOK
<1> USE AbsentTypes DEF TypeOK
<1>1. CASE GetGateway
    BY <1>1 DEF GetGateway, objects, caches, locals
<1>2. CASE GetGatewayClass
    BY <1>2 DEF GetGatewayClass, objects, caches, locals, Succeed, ClearLocals
<1>3. CASE GatherInputs
    <2>1. rts' \in RoutesOrNone /\ orig' \in Gateway /\ copy' \in Gateway
        BY <1>3, RoutesTypes DEF GatherInputs, Fail, ClearLocals
    <2> QED BY <1>3, <2>1, SMT DEF GatherInputs, objects, caches, Fail, ClearLocals, ApiFault
<1>4. CASE AcceptGateway
    <2>1. SetAccepted(copy, "True") \in Gateway /\ SetAccepted(copy, "False") \in Gateway
        BY SetConditionTypes
    <2>2. setListenerStatus(SetAccepted(copy, "True"), rts) \in Gateway
        BY <2>1, ListenerStatusTypes
    <2>3. setListenerSetStatuses(orig) \in Gateway
        BY ListenerStatusTypes
    <2>4. SetAccepted(setListenerSetStatuses(orig), "False") \in Gateway
        BY <2>3, SetConditionTypes
    <2> QED BY <1>4, <2>1, <2>2, <2>3, <2>4, SMT DEF AcceptGateway, objects, caches, ApiFault
<1>5. CASE EnsureService
    BY <1>5, SetConditionTypes, SMT
       DEF EnsureService, caches, locals, FailAfterAcceptance, ApiFault, Service, Gateway
<1>6. CASE EnsureEndpoints
    <2>1. SetAccepted(orig, "False") \in Gateway
        BY SetConditionTypes
    <2>2. CASE copy.cfg \in UDPOnly
        BY <1>6, <2>1, <2>2, SMT DEF EnsureEndpoints, caches, locals, FailAfterAcceptance, ApiFault
    <2>3. CASE copy.cfg \notin UDPOnly
        BY <1>6, <2>1, <2>3, SMT DEF EnsureEndpoints, caches, locals, FailAfterAcceptance, ApiFault
    <2> QED BY <2>2, <2>3
<1>7. CASE EnsureEnvoyConfig
    BY <1>7, SetConditionTypes, SMT
       DEF EnsureEnvoyConfig, caches, locals, FailAfterAcceptance, ApiFault, Translated,
           EnvoyConfig, Gateway, RoutesOrNone
<1>8. CASE EnsureCiliumEnvoyConfig
    BY <1>8, SetConditionTypes, SMT
       DEF EnsureCiliumEnvoyConfig, caches, locals, FailAfterAcceptance, ApiFault, Translated,
           EnvoyConfig, Gateway, RoutesOrNone
<1>9. CASE DeleteEnvoyConfig
    BY <1>9, SMT DEF DeleteEnvoyConfig, caches, locals, ApiFault
<1>10. CASE DeleteCiliumEnvoyConfig
    BY <1>10, SMT DEF DeleteCiliumEnvoyConfig, caches, locals, ApiFault
<1>11. CASE SetAddressStatus
    <2>1. SetProgrammed(copy, "True") \in Gateway /\ SetProgrammed(orig, "False") \in Gateway
        BY SetConditionTypes
    <2>2. [SetProgrammed(copy, "True") EXCEPT !.st.addr = csvc.lb] \in Gateway
        BY <2>1, SetFieldTypes DEF Service
    <2> QED BY <1>11, <2>1, <2>2 DEF SetAddressStatus, objects, caches
<1>12. CASE UpdateStatus
    <2>1. [gw EXCEPT !.st = copy.st] \in Gateway
        BY GatewayFields, SetFieldTypes
    <2>2. gw' \in Gateway
        BY <1>12, <2>1 DEF UpdateStatus, StatusWrite, NoStatusWrite
    <2> QED
        BY <1>12, <2>2, SMT DEF UpdateStatus, derived, caches, Succeed, Fail, ClearLocals, ApiFault
<1>13. CASE HandleReconcileErrorWithStatus
    <2>1. [gw EXCEPT !.st = copy.st] \in Gateway
        BY GatewayFields, SetFieldTypes
    <2>2. gw' \in Gateway
        BY <1>13, <2>1 DEF HandleReconcileErrorWithStatus, StatusWrite, NoStatusWrite
    <2> QED
        BY <1>13, <2>2, SMT
           DEF HandleReconcileErrorWithStatus, derived, caches, Fail, ClearLocals, ApiFault
<1>14. CASE Informers
    BY <1>14 DEF Informers, SyncGateway, SyncService, SyncEnvoyConfig,
                 SyncEndpoints, SyncRoutes, objects, locals
<1>15. CASE EditGateway
    <2>1. gw' \in Gateway
        <3>1. PICK c \in Config, k \in Class :
                 gw' = [gw EXCEPT !.cfg = c, !.class = k, !.gen = gw.gen + 1]
            BY <1>15 DEF EditGateway
        <3>2. gw.gen \in 0 .. MaxGen /\ gw.gen < MaxGen
            BY <1>15, GatewayFields DEF EditGateway
        <3>3. gw.gen + 1 \in 0 .. MaxGen
            BY <3>2, SMT
        <3> QED BY <3>1, <3>3, SetFieldTypes
    <2> QED BY <1>15, <2>1 DEF EditGateway, derived, caches
<1>16. CASE DeleteGateway
    <2>1. gw' \in Gateway
        BY <1>16, SetFieldTypes DEF DeleteGateway
    <2> QED BY <1>16, <2>1 DEF DeleteGateway, derived, caches
<1>17. CASE GarbageCollect \/ CreateClass
    BY <1>17 DEF GarbageCollect, CreateClass, derived, caches, locals
<1>18. CASE EditRoutes
    BY <1>18, SMT DEF EditRoutes, derived, caches, locals, Routes
<1>19. CASE AssignAddress \/ ChangeAddress
    BY <1>19, SMT DEF AssignAddress, ChangeAddress, caches, locals, Service
<1>20. CASE Restart
    BY <1>20, SMT DEF Restart, objects, ApiFault, ClearLocals
<1>21. CASE UNCHANGED vars
    BY <1>21 DEF vars, objects, caches, locals
<1> QED
    BY <1>1, <1>2, <1>3, <1>4, <1>5, <1>6, <1>7, <1>8, <1>9, <1>10, <1>11, <1>12, <1>13,
       <1>14, <1>15, <1>16, <1>17, <1>18, <1>19, <1>20, <1>21
    DEF Next, Reconcile, Environment

\* The initial state is well typed.
LEMMA TypeInit == Init => TypeOK
<1> SUFFICES ASSUME Init PROVE TypeOK
    OBVIOUS
<1>1. gw \in Gateway
    BY AbsentTypes, SMT DEF Init, Gateway
<1>2. FlagsOK
    BY DEF Init, FlagsOK
<1> QED BY <1>1, <1>2, AbsentTypes, SMT DEF Init, TypeOK

\* Type correctness of the Gateway controller.
THEOREM TypeCorrect == Spec => []TypeOK
BY TypeInit, TypeStep, PTL DEF Spec

-----------------------------------------------------------------------------
(* Convergence.                                                            *)

\* fresh says what its name says, and GatewayClasses are only created.
LEMMA CacheStep ==
    ASSUME TypeOK, fresh => cgw = gw, InitClasses \subseteq classes, [Next]_vars
    PROVE  (fresh' => cgw' = gw') /\ InitClasses \subseteq classes'
<1>0. gw.st = copy.st => [gw EXCEPT !.st = copy.st] = gw
    BY DEF TypeOK, Gateway
<1> USE DEF objects, caches, locals, derived
<1>1. CASE GetGateway \/ GetGatewayClass \/ GatherInputs \/ AcceptGateway
    BY <1>1, SMT DEF GetGateway, GetGatewayClass, GatherInputs, AcceptGateway
<1>2. CASE EnsureService \/ EnsureEndpoints \/ EnsureEnvoyConfig \/ EnsureCiliumEnvoyConfig
    BY <1>2, SMT DEF EnsureService, EnsureEndpoints, EnsureEnvoyConfig, EnsureCiliumEnvoyConfig
<1>3. CASE DeleteEnvoyConfig \/ DeleteCiliumEnvoyConfig \/ SetAddressStatus
    BY <1>3, SMT DEF DeleteEnvoyConfig, DeleteCiliumEnvoyConfig, SetAddressStatus
<1>4. CASE UpdateStatus
    BY <1>0, <1>4, SMT DEF UpdateStatus, StatusWrite, NoStatusWrite
<1>5. CASE HandleReconcileErrorWithStatus
    BY <1>0, <1>5, SMT DEF HandleReconcileErrorWithStatus, StatusWrite, NoStatusWrite
<1>6. CASE Informers
    BY <1>6, SMT DEF Informers, SyncGateway, SyncService, SyncEnvoyConfig, SyncEndpoints, SyncRoutes
<1>7. CASE EditGateway \/ DeleteGateway
    BY <1>7 DEF EditGateway, DeleteGateway
<1>8. CASE GarbageCollect \/ EditRoutes
    <2>1. gw' = gw /\ cgw' = cgw /\ fresh' = fresh /\ classes' = classes
        BY <1>8 DEF GarbageCollect, EditRoutes
    <2> QED BY <2>1
<1>9. CASE AssignAddress \/ ChangeAddress
    BY <1>9, SMT DEF AssignAddress, ChangeAddress
<1>10. CASE CreateClass
    BY <1>10 DEF CreateClass
<1>11. CASE Restart
    BY <1>11 DEF Restart
<1>12. CASE UNCHANGED vars
    BY <1>12 DEF vars
<1> QED
    BY <1>1, <1>2, <1>3, <1>4, <1>5, <1>6, <1>7, <1>8, <1>9, <1>10, <1>11, <1>12
    DEF Next, Reconcile, Environment

\* A step that touches nothing WorkerDone is about keeps it.
LEMMA WorkerFrame ==
    ASSUME Steady => WorkerDone, Steady',
           UNCHANGED <<gw, svc, ep, dec, cec, csvc, cdec, queued, fresh, pc, orig, copy, rts>>,
           classes' = classes, croutes'.l7 = croutes.l7
    PROVE  WorkerDone'
<1>1. Steady
    BY DEF Steady, Managed, hasMatchingController
<1> QED
    BY <1>1, SMT DEF WorkerDone, Started, Gathered, Accepted, ServiceApplied, EndpointsApplied,
                ConfigKind, DecApplied, CecApplied, AddressSet, StatusWritten, EnvoyApplied

\* The error step promises nothing: it ends in a retry.
LEMMA ErrorStep == ASSUME pc' = "error" PROVE WorkerDone'
BY DEF WorkerDone, Started, Gathered, Accepted, ServiceApplied, EndpointsApplied,
       ConfigKind, DecApplied, CecApplied, AddressSet, StatusWritten, Later

\* While the Gateway stays Steady, every step of the worker adds its part.
LEMMA WorkerStep ==
    ASSUME TypeOK, WorkerInv, [Next]_vars, Steady'
    PROVE  WorkerDone'
<1>0. /\ fresh => cgw = gw
      /\ InitClasses \subseteq classes
      /\ Steady => WorkerDone
    BY DEF WorkerInv
<1> USE DEF objects, caches, locals, derived
<1>1. CASE GetGateway
    <2>1. gw' = gw /\ fresh /\ gw.phase = "live"
        BY <1>1 DEF GetGateway, Steady, Managed
    <2>2. pc' = "class" /\ orig' = gw' /\ copy' = gw'
        BY <1>0, <1>1, <2>1 DEF GetGateway
    <2> QED
        BY <2>2 DEF WorkerDone, Started, Gathered, Accepted, ServiceApplied, EndpointsApplied,
                    ConfigKind, DecApplied, CecApplied, AddressSet, StatusWritten, Later
<1>2. CASE GetGatewayClass
    <2>1. Steady /\ gw' = gw
        BY <1>2, SMT DEF GetGatewayClass, Steady, Managed, hasMatchingController, Succeed
    <2>2. orig = gw /\ copy = gw
        BY <1>0, <1>2, <2>1 DEF GetGatewayClass, WorkerDone, Started
    <2>3. pc' = "gather" /\ orig' = gw' /\ copy' = gw'
        BY <1>2, <2>1, <2>2 DEF GetGatewayClass, Steady, Managed
    <2> QED
        BY <2>3 DEF WorkerDone, Started, Gathered, Accepted, ServiceApplied, EndpointsApplied,
                    ConfigKind, DecApplied, CecApplied, AddressSet, StatusWritten, Later
<1>3. CASE GatherInputs
    <2>1. Steady /\ gw' = gw /\ pc' = "listeners" /\ orig' = orig /\ copy' = copy
          /\ rts' = croutes'
        BY <1>3 DEF GatherInputs, Fail, Steady, Managed, hasMatchingController
    <2>2. orig = gw /\ copy = gw
        BY <1>0, <1>3, <2>1 DEF GatherInputs, WorkerDone, Started
    <2> QED
        BY <2>1, <2>2
           DEF WorkerDone, Started, Gathered, Accepted, ServiceApplied, EndpointsApplied,
               ConfigKind, DecApplied, CecApplied, AddressSet, StatusWritten, Later
<1>4. CASE AcceptGateway
    <2>1. Steady /\ gw' = gw /\ croutes' = croutes
        BY <1>4 DEF AcceptGateway, Steady, Managed, hasMatchingController
    <2>2. orig = gw /\ copy = gw /\ rts.l7 = croutes.l7
        BY <1>0, <1>4, <2>1 DEF AcceptGateway, WorkerDone, Started, Gathered
    <2>3. CASE pc' = "error"
        BY <2>3, ErrorStep
    <2>4. CASE pc' = "service"
        <3>1. /\ copy' = setListenerStatus(SetAccepted(copy, "True"), rts)
              /\ orig' = setListenerSetStatuses(orig)
              /\ rts' = rts
            BY <1>4, <2>4 DEF AcceptGateway
        <3>2. gw \in Gateway
            BY DEF TypeOK
        <3>3. Accepted'
            BY <2>1, <2>2, <3>1, <3>2
               DEF Accepted, SetAccepted, setListenerStatus, setListenerSetStatuses,
                   Gateway, Status, Condition, Cond
        <3> QED
            BY <2>1, <2>2, <2>4, <3>1, <3>3
               DEF WorkerDone, Started, Gathered, ServiceApplied, EndpointsApplied,
                   ConfigKind, DecApplied, CecApplied, AddressSet, StatusWritten, Later
    <2> QED BY <1>4, <2>3, <2>4 DEF AcceptGateway
<1>5. CASE EnsureService
    <2>1. Steady /\ gw' = gw /\ csvc' = csvc /\ croutes' = croutes
        BY <1>5 DEF EnsureService, Steady, Managed, hasMatchingController
    <2>2. CASE pc' = "error"
        BY <2>2, ErrorStep
    <2>3. CASE pc' = "endpoints"
        <3>1. /\ orig' = orig /\ copy' = copy /\ rts' = rts
              /\ \/ svc' = [svc EXCEPT !.cfg = copy.cfg]
                 \/ csvc.cfg = copy.cfg
            BY <1>5, <2>3 DEF EnsureService, FailAfterAcceptance
        <3>2. Gathered /\ Accepted /\ pc = "service"
            BY <1>0, <1>5, <2>1 DEF WorkerDone, EnsureService
        <3>3. Gathered' /\ Accepted' /\ copy.cfg = gw.cfg
            BY <2>1, <3>1, <3>2 DEF Gathered, Accepted, Later
        <3>4. ServiceApplied'
            BY <2>1, <3>1, <3>3 DEF ServiceApplied, TypeOK, Service
        <3> QED
            BY <2>3, <3>3, <3>4
               DEF WorkerDone, Started, EndpointsApplied,
                   ConfigKind, DecApplied, CecApplied, AddressSet, StatusWritten, Later
    <2> QED BY <1>5, <2>2, <2>3 DEF EnsureService, FailAfterAcceptance
<1>6. CASE EnsureEndpoints
    <2>1. Steady /\ gw' = gw /\ svc' = svc /\ csvc' = csvc /\ croutes' = croutes
        BY <1>6 DEF EnsureEndpoints, Steady, Managed, hasMatchingController
    <2>2. CASE pc' = "error"
        BY <2>2, ErrorStep
    <2>3. CASE pc' # "error"
        <3>1. /\ orig' = orig /\ copy' = copy /\ rts' = rts /\ ep' = TRUE
              /\ pc' = IF copy.cfg \in UDPOnly THEN "deleteDEC" ELSE "DEC"
            BY <1>6, <2>3 DEF EnsureEndpoints, FailAfterAcceptance
        <3>2. Gathered /\ Accepted /\ ServiceApplied /\ pc = "endpoints"
            BY <1>0, <1>6, <2>1 DEF WorkerDone, EnsureEndpoints
        <3>3. Gathered' /\ Accepted' /\ copy.cfg = gw.cfg
            BY <2>1, <3>1, <3>2 DEF Gathered, Accepted, Later
        <3>4. ServiceApplied'
            BY <2>1, <3>1, <3>2 DEF ServiceApplied, Later
        <3>5. EndpointsApplied'
            BY <3>1 DEF EndpointsApplied
        <3>6. pc' \in {"deleteDEC", "DEC"} /\ ConfigKind'
            BY <2>1, <3>1, <3>3 DEF ConfigKind
        <3> QED
            BY <3>3, <3>4, <3>5, <3>6
               DEF WorkerDone, Started, DecApplied, CecApplied, AddressSet, StatusWritten
    <2> QED BY <2>2, <2>3
<1>7. CASE EnsureEnvoyConfig
    <2>1. Steady /\ UNCHANGED <<gw, svc, ep, cec, csvc, cdec, croutes>>
        BY <1>7 DEF EnsureEnvoyConfig, Steady, Managed, hasMatchingController
    <2>2. CASE pc' = "error"
        BY <2>2, ErrorStep
    <2>3. CASE pc' = "CEC"
        <3>1. /\ orig' = orig /\ copy' = copy /\ rts' = rts
              /\ dec' = IF cdec = Translated THEN dec ELSE Translated
            BY <1>7, <2>3 DEF EnsureEnvoyConfig, FailAfterAcceptance
        <3>2. /\ Gathered /\ Accepted /\ ServiceApplied /\ EndpointsApplied /\ ConfigKind
              /\ pc = "DEC"
            BY <1>0, <1>7, <2>1 DEF WorkerDone, EnsureEnvoyConfig
        <3>3. /\ Gathered' /\ Accepted' /\ copy.cfg = gw.cfg /\ rts.l7 = croutes.l7
              /\ gw.cfg \notin UDPOnly
            BY <2>1, <3>1, <3>2 DEF Gathered, Accepted, ConfigKind, Later
        <3>4. ServiceApplied' /\ EndpointsApplied' /\ ConfigKind'
            BY <2>1, <2>3, <3>2, <3>3
               DEF ServiceApplied, EndpointsApplied, ConfigKind, Later
        <3>5. DecApplied'
            BY <2>1, <3>1, <3>3, SMT DEF DecApplied, EnvoyApplied, Translated
        <3> QED
            BY <2>3, <3>3, <3>4, <3>5
               DEF WorkerDone, Started, CecApplied, AddressSet, StatusWritten
    <2> QED BY <1>7, <2>2, <2>3 DEF EnsureEnvoyConfig, FailAfterAcceptance
<1>8. CASE EnsureCiliumEnvoyConfig
    <2>1. Steady /\ UNCHANGED <<gw, svc, ep, dec, csvc, cdec, croutes>>
        BY <1>8 DEF EnsureCiliumEnvoyConfig, Steady, Managed, hasMatchingController
    <2>2. CASE pc' = "error"
        BY <2>2, ErrorStep
    <2>3. CASE pc' = "address"
        <3>1. orig' = orig /\ copy' = copy /\ rts' = rts /\ cec' = Translated
            BY <1>8, <2>3 DEF EnsureCiliumEnvoyConfig, FailAfterAcceptance
        <3>2. /\ Gathered /\ Accepted /\ ServiceApplied /\ EndpointsApplied /\ ConfigKind
              /\ DecApplied /\ pc = "CEC"
            BY <1>0, <1>8, <2>1 DEF WorkerDone, EnsureCiliumEnvoyConfig
        <3>3. /\ Gathered' /\ Accepted' /\ copy.cfg = gw.cfg /\ rts.l7 = croutes.l7
              /\ gw.cfg \notin UDPOnly
            BY <2>1, <3>1, <3>2 DEF Gathered, Accepted, ConfigKind, Later
        <3>4. ServiceApplied' /\ EndpointsApplied' /\ DecApplied'
            BY <2>1, <2>3, <3>2
               DEF ServiceApplied, EndpointsApplied, DecApplied, EnvoyApplied, Later
        <3>5. CecApplied'
            BY <2>1, <3>1, <3>3 DEF CecApplied, EnvoyApplied, Translated
        <3> QED
            BY <2>3, <3>3, <3>4, <3>5
               DEF WorkerDone, Started, ConfigKind, AddressSet, StatusWritten
    <2> QED BY <1>8, <2>2, <2>3 DEF EnsureCiliumEnvoyConfig, FailAfterAcceptance
<1>9. CASE DeleteEnvoyConfig
    <2>1. Steady /\ UNCHANGED <<gw, svc, ep, cec, csvc, cdec, croutes, orig, copy, rts>>
        BY <1>9 DEF DeleteEnvoyConfig, Steady, Managed, hasMatchingController
    <2>2. CASE pc' = "error"
        BY <2>2, ErrorStep
    <2>3. CASE pc' = "deleteCEC"
        <3>1. dec' = NoDec
            BY <1>9, <2>3 DEF DeleteEnvoyConfig
        <3>2. /\ Gathered /\ Accepted /\ ServiceApplied /\ EndpointsApplied /\ ConfigKind
              /\ pc = "deleteDEC"
            BY <1>0, <1>9, <2>1 DEF WorkerDone, DeleteEnvoyConfig
        <3>3. Gathered' /\ Accepted' /\ gw.cfg \in UDPOnly
            BY <2>1, <3>2 DEF Gathered, Accepted, ConfigKind, Later
        <3>4. ServiceApplied' /\ EndpointsApplied' /\ ConfigKind'
            BY <2>1, <2>3, <3>2, <3>3
               DEF ServiceApplied, EndpointsApplied, ConfigKind, Later
        <3>5. DecApplied'
            BY <2>1, <3>1, <3>3 DEF DecApplied, EnvoyApplied
        <3> QED
            BY <2>3, <3>3, <3>4, <3>5
               DEF WorkerDone, Started, CecApplied, AddressSet, StatusWritten
    <2> QED BY <1>9, <2>2, <2>3 DEF DeleteEnvoyConfig
<1>10. CASE DeleteCiliumEnvoyConfig
    <2>1. Steady /\ UNCHANGED <<gw, svc, ep, dec, csvc, cdec, croutes, orig, copy, rts>>
        BY <1>10 DEF DeleteCiliumEnvoyConfig, Steady, Managed, hasMatchingController
    <2>2. CASE pc' = "error"
        BY <2>2, ErrorStep
    <2>3. CASE pc' = "address"
        <3>1. cec' = NoDec
            BY <1>10, <2>3 DEF DeleteCiliumEnvoyConfig
        <3>2. /\ Gathered /\ Accepted /\ ServiceApplied /\ EndpointsApplied /\ ConfigKind
              /\ DecApplied /\ pc = "deleteCEC"
            BY <1>0, <1>10, <2>1 DEF WorkerDone, DeleteCiliumEnvoyConfig
        <3>3. Gathered' /\ Accepted' /\ gw.cfg \in UDPOnly
            BY <2>1, <3>2 DEF Gathered, Accepted, ConfigKind, Later
        <3>4. ServiceApplied' /\ EndpointsApplied' /\ DecApplied'
            BY <2>1, <2>3, <3>2
               DEF ServiceApplied, EndpointsApplied, DecApplied, EnvoyApplied, Later
        <3>5. CecApplied'
            BY <2>1, <3>1, <3>3 DEF CecApplied, EnvoyApplied
        <3> QED
            BY <2>3, <3>3, <3>4, <3>5
               DEF WorkerDone, Started, ConfigKind, AddressSet, StatusWritten
    <2> QED BY <1>10, <2>2, <2>3 DEF DeleteCiliumEnvoyConfig
<1>11. CASE SetAddressStatus
    <2>1. Steady /\ UNCHANGED <<gw, svc, ep, dec, cec, csvc, cdec, croutes, rts>>
        BY <1>11 DEF SetAddressStatus, Steady, Managed, hasMatchingController
    <2>2. CASE pc' = "error"
        BY <2>2, ErrorStep
    <2>3. CASE pc' = "update"
        <3>1. /\ csvc.lb # None /\ orig' = orig
              /\ copy' = [SetProgrammed(copy, "True") EXCEPT !.st.addr = csvc.lb]
            BY <1>11, <2>3 DEF SetAddressStatus
        <3>2. /\ Gathered /\ Accepted /\ ServiceApplied /\ EndpointsApplied
              /\ DecApplied /\ CecApplied /\ pc = "address"
            BY <1>0, <1>11, <2>1 DEF WorkerDone, SetAddressStatus
        <3>3. copy \in Gateway /\ copy.gen = gw.gen
            BY <3>2 DEF TypeOK, Accepted, Later
        <3>4. /\ copy'.cfg = copy.cfg /\ copy'.gen = copy.gen
              /\ copy'.st.acc = copy.st.acc /\ copy'.st.lst = copy.st.lst
              /\ copy'.st.prog = Cond("True", gw.gen) /\ copy'.st.addr = csvc.lb
            BY <3>1, <3>3 DEF SetProgrammed, Gateway, Status
        <3>5. Gathered' /\ Accepted'
            BY <2>1, <3>1, <3>2, <3>4 DEF Gathered, Accepted, Later
        <3>6. ServiceApplied' /\ EndpointsApplied' /\ DecApplied' /\ CecApplied'
            BY <2>1, <2>3, <3>2
               DEF ServiceApplied, EndpointsApplied, DecApplied, CecApplied, EnvoyApplied, Later
        <3>7. AddressSet'
            BY <2>1, <3>1, <3>4 DEF AddressSet
        <3> QED
            BY <2>3, <3>5, <3>6, <3>7
               DEF WorkerDone, Started, ConfigKind, StatusWritten
    <2> QED BY <1>11, <2>2, <2>3 DEF SetAddressStatus
<1>12. CASE UpdateStatus
    <2>1. /\ UNCHANGED <<svc, ep, dec, cec, csvc, cdec, croutes, classes, queued, fresh>>
          /\ pc' = "idle" /\ pc = "update" /\ fresh'
        BY <1>12 DEF UpdateStatus, StatusWrite, NoStatusWrite, Succeed, Fail, ClearLocals,
                     Steady
    <2>2. \/ gw' = gw /\ orig.st = copy.st
          \/ gw' = [gw EXCEPT !.st = copy.st] /\ gw.st = copy.st
        BY <1>12 DEF UpdateStatus, StatusWrite, NoStatusWrite, Fail, Steady
    <2>3. gw' = gw
        BY <2>2, SMT DEF TypeOK, Gateway
    <2>4. Steady
        BY <2>1, <2>3 DEF Steady, Managed, hasMatchingController
    <2>5. /\ Accepted /\ AddressSet /\ ServiceApplied /\ EndpointsApplied
          /\ DecApplied /\ CecApplied
        BY <1>0, <2>4 DEF WorkerDone
    <2>6. StatusWritten'
        BY <2>1, <2>2, <2>3, <2>5 DEF StatusWritten, Accepted, AddressSet, Later
    <2>7. ServiceApplied' /\ EndpointsApplied' /\ DecApplied' /\ CecApplied'
        BY <2>1, <2>3, <2>5
           DEF ServiceApplied, EndpointsApplied, DecApplied, CecApplied, EnvoyApplied, Later
    <2> QED
        BY <2>1, <2>6, <2>7
           DEF WorkerDone, Started, Gathered, Accepted, ConfigKind, AddressSet, Later
<1>13. CASE HandleReconcileErrorWithStatus
    BY <1>13 DEF HandleReconcileErrorWithStatus, Fail, Steady
<1>14. CASE SyncGateway
    <2>1. queued'
        BY <1>14 DEF SyncGateway, Steady, Managed, hasMatchingController
    <2> QED BY <2>1 DEF Steady
<1>15. CASE SyncService \/ SyncEnvoyConfig
    BY <1>15 DEF SyncService, SyncEnvoyConfig, Steady
<1>16. CASE SyncEndpoints
    BY <1>0, <1>16, WorkerFrame DEF SyncEndpoints
<1>17. CASE SyncRoutes
    <2>1. /\ UNCHANGED <<gw, svc, ep, dec, cec, csvc, cdec, fresh, pc, orig, copy, rts>>
          /\ classes' = classes /\ cgw' = cgw
        BY <1>17 DEF SyncRoutes
    <2>2. hasMatchingController(cgw)
        BY <1>0, <2>1 DEF Steady, Managed, hasMatchingController
    <2>3. ~queued' /\ ~queued /\ croutes'.l7 = croutes.l7
        BY <1>17, <2>2 DEF SyncRoutes, Steady
    <2>4. queued' = queued
        BY <2>3, <1>17 DEF SyncRoutes, TypeOK, FlagsOK
    <2> QED BY <1>0, <2>1, <2>3, <2>4, WorkerFrame
<1>18. CASE EditGateway \/ DeleteGateway
    BY <1>18 DEF EditGateway, DeleteGateway, Steady
<1>19. CASE GarbageCollect
    <2>1. gw' = gw /\ gw.phase = "gone"
        BY <1>19 DEF GarbageCollect
    <2> QED BY <2>1 DEF Steady, Managed
<1>20. CASE EditRoutes
    BY <1>0, <1>20, WorkerFrame DEF EditRoutes
<1>21. CASE CreateClass
    BY <1>0, <1>21 DEF CreateClass, Steady
<1>22. CASE AssignAddress \/ ChangeAddress
    <2>1. /\ UNCHANGED <<gw, ep, dec, cec, csvc, cdec, croutes, queued, fresh, pc>>
          /\ UNCHANGED <<orig, copy, rts, classes>>
        BY <1>22 DEF AssignAddress, ChangeAddress
    <2>2. svc'.cfg = svc.cfg
        BY <1>22 DEF AssignAddress, ChangeAddress, TypeOK, Service
    <2>3. Steady
        BY <2>1 DEF Steady, Managed, hasMatchingController
    <2> QED
        BY <1>0, <2>1, <2>2, <2>3, SMTT(20)
           DEF WorkerDone, Started, Gathered, Accepted, ServiceApplied, EndpointsApplied,
               ConfigKind, DecApplied, CecApplied, AddressSet, StatusWritten, EnvoyApplied
<1>23. CASE Restart
    <2>1. queued'
        BY <1>23 DEF Restart, Steady, Managed, hasMatchingController
    <2> QED BY <2>1 DEF Steady
<1>24. CASE UNCHANGED vars
    BY <1>0, <1>24, WorkerFrame DEF vars
<1> QED
    BY <1>1, <1>2, <1>3, <1>4, <1>5, <1>6, <1>7, <1>8, <1>9, <1>10, <1>11, <1>12, <1>13,
       <1>14, <1>15, <1>16, <1>17, <1>18, <1>19, <1>20, <1>21, <1>22, <1>23, <1>24
    DEF Next, Reconcile, Informers, Environment

\* WorkerInv is an invariant of the Gateway controller.
THEOREM WorkerCorrect == Spec => []WorkerInv
<1>1. Init => WorkerInv
    BY DEF Init, WorkerInv, Steady
<1>2. TypeOK /\ WorkerInv /\ [Next]_vars => WorkerInv'
    BY CacheStep, WorkerStep DEF WorkerInv
<1> QED BY <1>1, <1>2, TypeCorrect, PTL DEF Spec

\* Convergence: whenever the controller is at rest with current caches, the
\* managed Gateway and everything derived from it are as its spec asks.
THEOREM Convergence == Spec => []QuiescentConverged
<1>1. WorkerInv => QuiescentConverged
    BY DEF WorkerInv, QuiescentConverged, Steady, Synced, WorkerDone, StatusWritten,
           ServiceApplied, EndpointsApplied, DecApplied, CecApplied, Converged
<1> QED BY <1>1, WorkerCorrect, PTL

-----------------------------------------------------------------------------
(* What the status of a Gateway promises.                                  *)

HIDE SetsAssumption
HIDE NoneAssumption
HIDE ListenerSetAssumption
HIDE BoundsAssumption

\* What the numbers and fields in VersionInv are.
LEMMA VersionTypes ==
    ASSUME NEW g \in Gateway
    PROVE  /\ g.gen \in Nat /\ g.st.prog.gen \in Nat /\ g.st.lst.gen \in Nat
           /\ g.st.acc.gen \in Nat
           /\ \A v : /\ SetAccepted(g, v).cfg = g.cfg /\ SetAccepted(g, v).gen = g.gen
                     /\ SetAccepted(g, v).st.acc.gen = g.gen
                     /\ SetAccepted(g, v).st.prog = g.st.prog
                     /\ SetAccepted(g, v).st.lst = g.st.lst
                     /\ SetAccepted(g, v).st.addr = g.st.addr
           /\ \A v : /\ SetProgrammed(g, v).cfg = g.cfg /\ SetProgrammed(g, v).gen = g.gen
                     /\ SetProgrammed(g, v).st.prog = Cond(v, g.gen)
                     /\ SetProgrammed(g, v).st.acc = g.st.acc
                     /\ SetProgrammed(g, v).st.lst = g.st.lst
<1>1. /\ g.gen \in Nat /\ g.st.prog.gen \in Nat /\ g.st.lst.gen \in Nat
      /\ g.st.acc.gen \in Nat
    BY SMT DEF Gateway, Status, Condition
<1>2. \A v : /\ SetAccepted(g, v).cfg = g.cfg /\ SetAccepted(g, v).gen = g.gen
             /\ SetAccepted(g, v).st.acc.gen = g.gen
             /\ SetAccepted(g, v).st.prog = g.st.prog
             /\ SetAccepted(g, v).st.lst = g.st.lst
             /\ SetAccepted(g, v).st.addr = g.st.addr
    BY DEF SetAccepted, Cond, Gateway, Status
<1>3. \A v : /\ SetProgrammed(g, v).cfg = g.cfg /\ SetProgrammed(g, v).gen = g.gen
             /\ SetProgrammed(g, v).st.prog = Cond(v, g.gen)
             /\ SetProgrammed(g, v).st.acc = g.st.acc
             /\ SetProgrammed(g, v).st.lst = g.st.lst
    BY DEF SetProgrammed, Cond, Gateway, Status
<1> QED BY <1>1, <1>2, <1>3

\* The versions a worker, its cache and the API server hold stay in order.
LEMMA VersionStep ==
    ASSUME TypeOK, VersionInv, [Next]_vars
    PROVE  VersionInv'
<1> USE DEF objects, caches, locals, derived
<1>0. /\ gw \in Gateway /\ cgw \in Gateway /\ copy \in Gateway /\ orig \in Gateway
      /\ wfresh \in BOOLEAN /\ fresh \in BOOLEAN
    BY DEF TypeOK, FlagsOK
<1>1. CASE GetGateway
    BY <1>0, <1>1, VersionTypes, SMTT(20) DEF GetGateway, VersionInv, Later
<1>2. CASE GetGatewayClass
    BY <1>2, SMTT(20) DEF GetGatewayClass, VersionInv, Succeed, ClearLocals, Later
<1>3. CASE GatherInputs
    BY <1>3, SMTT(20) DEF GatherInputs, VersionInv, Fail, ClearLocals, Later
<1>4. CASE AcceptGateway
    <2>1. UNCHANGED <<gw, cgw, fresh, wfresh>> /\ pc = "listeners" /\ pc' \in {"service", "error"}
        BY <1>4 DEF AcceptGateway
    <2>2. /\ copy'.cfg = copy.cfg /\ copy'.gen = copy.gen /\ copy'.st.acc.gen = copy.gen
          /\ copy'.st.prog = copy.st.prog /\ copy'.st.addr = copy.st.addr
          /\ copy'.st.lst.gen \in {copy.st.lst.gen, copy.gen}
        <3>1. CASE copy' = SetAccepted(copy, "False")
            BY <1>0, <3>1, VersionTypes, SMT
        <3>2. CASE copy' = setListenerStatus(SetAccepted(copy, "True"), rts)
            <4>1. SetAccepted(copy, "True") \in Gateway
                BY <1>0, SetConditionTypes
            <4> QED BY <1>0, <3>2, <4>1, VersionTypes, SMT
                   DEF setListenerStatus, Gateway, Status
        <3> QED BY <1>4, <3>1, <3>2 DEF AcceptGateway
    <2> QED BY <1>0, <2>1, <2>2, VersionTypes, SMT DEF VersionInv, Later
<1>5. CASE EnsureService \/ EnsureEndpoints
    BY <1>5, SMTT(20) DEF EnsureService, EnsureEndpoints, FailAfterAcceptance, VersionInv, Later
<1>6. CASE EnsureEnvoyConfig \/ EnsureCiliumEnvoyConfig
    BY <1>6, SMTT(20) DEF EnsureEnvoyConfig, EnsureCiliumEnvoyConfig, FailAfterAcceptance, VersionInv, Later
<1>7. CASE DeleteEnvoyConfig \/ DeleteCiliumEnvoyConfig
    BY <1>7, SMT DEF DeleteEnvoyConfig, DeleteCiliumEnvoyConfig, VersionInv, Later
<1>8. CASE SetAddressStatus
    <2>1. UNCHANGED <<gw, cgw, fresh, wfresh>> /\ pc = "address"
        BY <1>8 DEF SetAddressStatus
    <2>2. CASE pc' = "error"
        BY <1>8, <2>1, <2>2, SMTT(20) DEF SetAddressStatus, VersionInv, Later
    <2>3. CASE pc' = "update"
        <3>1. SetProgrammed(copy, "True") \in Gateway
            BY <1>0, SetConditionTypes
        <3>2. /\ copy'.cfg = copy.cfg /\ copy'.gen = copy.gen
              /\ copy'.st.acc = copy.st.acc /\ copy'.st.lst = copy.st.lst
              /\ copy'.st.prog = Cond("True", copy.gen)
            BY <1>0, <1>8, <2>3, <3>1, VersionTypes, SMT DEF SetAddressStatus, Gateway, Status
        <3>3. copy'.st.prog.gen = copy.gen
            BY <3>2, SMT DEF Cond
        <3> QED BY <1>0, <2>1, <2>3, <3>2, <3>3, VersionTypes, SMT DEF VersionInv, Later
    <2> QED BY <1>8, <2>2, <2>3 DEF SetAddressStatus
<1>9. CASE UpdateStatus \/ HandleReconcileErrorWithStatus
    <2>1. /\ cgw' = cgw /\ pc' = "idle" /\ ~wfresh' /\ pc # "idle"
          /\ \/ gw' = gw /\ fresh' = fresh
             \/ wfresh /\ gw' = [gw EXCEPT !.st = copy.st] /\ ~fresh'
             \/ wfresh /\ gw' = [gw EXCEPT !.st = copy.st] /\ gw.st = copy.st /\ fresh' = fresh
        BY <1>9 DEF UpdateStatus, HandleReconcileErrorWithStatus, StatusWrite, NoStatusWrite,
                    Succeed, Fail, ClearLocals
    <2>2. gw.st = copy.st => [gw EXCEPT !.st = copy.st] = gw
        BY <1>0, SMT DEF Gateway
    <2>3. CASE gw' = gw /\ fresh' = fresh
        BY <2>1, <2>3 DEF VersionInv, Later
    <2>4. CASE wfresh /\ gw' = [gw EXCEPT !.st = copy.st] /\ ~fresh'
        <3>1. gw'.cfg = gw.cfg /\ gw'.gen = gw.gen /\ gw'.st = copy.st /\ gw'.phase = gw.phase
            BY <1>0, <2>4, SMTT(20) DEF Gateway
        <3> QED BY <1>0, <2>1, <2>4, <3>1, VersionTypes, SMT DEF VersionInv, Later
    <2> QED BY <2>1, <2>2, <2>3, <2>4
<1>10. CASE SyncGateway
    BY <1>0, <1>10, VersionTypes, SMTT(20) DEF SyncGateway, VersionInv
<1>11. CASE SyncService \/ SyncEnvoyConfig \/ SyncEndpoints \/ SyncRoutes
    BY <1>11, SMTT(20) DEF SyncService, SyncEnvoyConfig, SyncEndpoints, SyncRoutes, VersionInv
<1>12. CASE EditGateway
    <2>1. /\ gw'.gen = gw.gen + 1 /\ gw'.cfg \in Config /\ gw'.st = gw.st
          /\ ~fresh' /\ ~wfresh' /\ UNCHANGED <<cgw, copy, pc>>
        BY <1>0, <1>12 DEF EditGateway, Gateway
    <2> QED BY <1>0, <2>1, VersionTypes, SMT DEF VersionInv
<1>13. CASE DeleteGateway
    <2>1. /\ gw'.gen = gw.gen /\ gw'.cfg = gw.cfg /\ gw'.st = gw.st /\ gw.phase # "gone"
          /\ ~fresh' /\ ~wfresh' /\ UNCHANGED <<cgw, copy, pc>>
        BY <1>0, <1>13 DEF DeleteGateway, Gateway
    <2> QED BY <1>0, <2>1, VersionTypes DEF VersionInv
<1>14. CASE GarbageCollect \/ EditRoutes \/ CreateClass \/ AssignAddress \/ ChangeAddress
    <2>1. UNCHANGED <<gw, cgw, fresh, wfresh, copy, pc>>
        BY <1>14 DEF GarbageCollect, EditRoutes, CreateClass, AssignAddress, ChangeAddress
    <2> QED BY <2>1, SMT DEF VersionInv
<1>15. CASE Restart
    BY <1>0, <1>15, VersionTypes, SMT DEF Restart, ClearLocals, VersionInv, Later
<1>16. CASE UNCHANGED vars
    BY <1>16 DEF vars, VersionInv
<1> QED
    BY <1>1, <1>2, <1>3, <1>4, <1>5, <1>6, <1>7, <1>8, <1>9, <1>10, <1>11, <1>12, <1>13,
       <1>14, <1>15, <1>16
    DEF Next, Reconcile, Informers, Environment

\* VersionInv is an invariant.
THEOREM VersionsOrdered == Spec => []VersionInv
<1>1. Init => VersionInv
    BY SMT DEF Init, VersionInv, NoGw, NoStatus, Cond, Later
<1>2. TypeOK /\ VersionInv /\ [Next]_vars => VersionInv'
    BY VersionStep
<1> QED BY <1>1, <1>2, TypeCorrect, PTL DEF Spec

\* A status write is one of the worker's last steps.
LEMMA StatusWriter ==
    ASSUME TypeOK, [Next]_vars, gw'.st # gw.st
    PROVE  /\ pc \in {"update", "error"} /\ wfresh
           /\ gw' = [gw EXCEPT !.st = copy.st]
<1> USE DEF objects, caches, locals, derived
<1>0. gw \in Gateway
    BY DEF TypeOK
<1>1. CASE UpdateStatus \/ HandleReconcileErrorWithStatus
    BY <1>1 DEF UpdateStatus, HandleReconcileErrorWithStatus, StatusWrite, NoStatusWrite
<1>2. CASE EditGateway \/ DeleteGateway
    BY <1>0, <1>2 DEF EditGateway, DeleteGateway, Gateway
<1>3. CASE GetGateway \/ GetGatewayClass \/ GatherInputs \/ AcceptGateway
    BY <1>3 DEF GetGateway, GetGatewayClass, GatherInputs, AcceptGateway
<1>4. CASE EnsureService \/ EnsureEndpoints \/ EnsureEnvoyConfig \/ EnsureCiliumEnvoyConfig
    BY <1>4 DEF EnsureService, EnsureEndpoints, EnsureEnvoyConfig, EnsureCiliumEnvoyConfig
<1>5. CASE DeleteEnvoyConfig \/ DeleteCiliumEnvoyConfig \/ SetAddressStatus
    BY <1>5 DEF DeleteEnvoyConfig, DeleteCiliumEnvoyConfig, SetAddressStatus
<1>6. CASE Informers
    BY <1>6 DEF Informers, SyncGateway, SyncService, SyncEnvoyConfig, SyncEndpoints, SyncRoutes
<1>7. CASE GarbageCollect \/ EditRoutes \/ CreateClass \/ AssignAddress \/ ChangeAddress
    BY <1>7 DEF GarbageCollect, EditRoutes, CreateClass, AssignAddress, ChangeAddress
<1>8. CASE Restart \/ UNCHANGED vars
    BY <1>8 DEF Restart, vars
<1> QED
    BY <1>1, <1>2, <1>3, <1>4, <1>5, <1>6, <1>7, <1>8 DEF Next, Reconcile, Environment

\* What reaches the API server as status was computed from the stored spec, and
\* no condition goes back in generations.
THEOREM StatusSound == Spec => StatusDescribesSpec
<1>1. ASSUME TypeOK, VersionInv, [Next]_vars, gw'.st # gw.st
      PROVE  /\ gw'.st.acc.gen = gw.gen
             /\ gw'.st.prog.gen >= gw.st.prog.gen
             /\ gw'.st.lst.gen >= gw.st.lst.gen
    <2>1. pc \in {"update", "error"} /\ wfresh /\ gw' = [gw EXCEPT !.st = copy.st]
        BY <1>1, StatusWriter
    <2>2. gw \in Gateway /\ copy \in Gateway
        BY <1>1 DEF TypeOK
    <2>3. gw'.st = copy.st
        BY <2>1, <2>2 DEF Gateway
    <2> QED BY <1>1, <2>1, <2>2, <2>3, VersionTypes, SMT DEF VersionInv, Later
<1>2. TypeOK /\ VersionInv /\ [Next]_vars
        => [gw'.st # gw.st => /\ gw'.st.acc.gen = gw.gen
                              /\ gw'.st.prog.gen >= gw.st.prog.gen
                              /\ gw'.st.lst.gen >= gw.st.lst.gen]_vars
    BY <1>1
<1> QED BY <1>2, TypeCorrect, VersionsOrdered, PTL DEF Spec, StatusDescribesSpec

-----------------------------------------------------------------------------
(* Programmed means applied.                                               *)

\* A condition True at the current generation was computed from the current
\* spec, so a worker whose copy is not older has that spec.
LEMMA SameSpec ==
    ASSUME TypeOK, VersionInv, pc # "idle", gw.st.prog = Cond("True", gw.gen)
    PROVE  copy.cfg = gw.cfg
<1>1. gw \in Gateway /\ copy \in Gateway /\ cgw \in Gateway
    BY SMT DEF TypeOK
<1>2. gw.st.prog.gen = gw.gen
    BY SMT DEF Cond
<1> QED BY <1>1, <1>2, VersionTypes, SMT DEF VersionInv

\* Every step keeps AppliedInv.
LEMMA AppliedStep ==
    ASSUME TypeOK, VersionInv, AppliedInv, [Next]_vars
    PROVE  AppliedInv'
<1> USE DEF objects, caches, locals, derived
<1>0. /\ gw \in Gateway /\ copy \in Gateway /\ svc \in Service /\ None \notin Config
      /\ None \notin Addr
    BY NoneAssumption DEF TypeOK
<1>1. CASE GetGateway
    BY <1>1 DEF GetGateway, AppliedInv, ProgrammedMeansApplied, Later
<1>2. CASE GetGatewayClass \/ GatherInputs
    BY <1>2 DEF GetGatewayClass, GatherInputs, AppliedInv, ProgrammedMeansApplied, Later,
                Succeed, Fail, ClearLocals
<1>3. CASE AcceptGateway
    BY <1>3 DEF AcceptGateway, AppliedInv, ProgrammedMeansApplied, Later
<1>4. CASE EnsureService
    <2>1. svc'.cfg # None \/ (svc' = svc /\ pc' = "error")
        BY <1>0, <1>4
           DEF EnsureService, VersionInv, CanApply, FailAfterAcceptance, Service
    <2>2. UNCHANGED <<gw, ep, cec, wfresh, copy>> /\ pc' \in {"endpoints", "error"}
        BY <1>4 DEF EnsureService, FailAfterAcceptance
    <2> QED BY <2>1, <2>2 DEF AppliedInv, ProgrammedMeansApplied, Later
<1>5. CASE EnsureEndpoints
    <2>1. /\ UNCHANGED <<gw, svc, cec, wfresh, copy>> /\ pc = "endpoints"
          /\ pc' \in {"DEC", "deleteDEC", "error"}
          /\ pc' = "DEC" => ep' /\ copy.cfg \notin UDPOnly
          /\ pc' = "deleteDEC" => ep' /\ copy.cfg \in UDPOnly
          /\ ep => ep'
        BY <1>5, SMT DEF EnsureEndpoints, FailAfterAcceptance
    <2> QED BY <2>1 DEF AppliedInv, ProgrammedMeansApplied, Later
<1>6. CASE EnsureEnvoyConfig \/ DeleteEnvoyConfig
    <2>1. /\ UNCHANGED <<gw, svc, ep, cec, wfresh, copy>>
          /\ \/ pc' = "error"
             \/ pc = "DEC" /\ pc' = "CEC"
             \/ pc = "deleteDEC" /\ pc' = "deleteCEC"
        BY <1>6 DEF EnsureEnvoyConfig, DeleteEnvoyConfig, FailAfterAcceptance
    <2> QED BY <2>1 DEF AppliedInv, ProgrammedMeansApplied, Later
<1>7. CASE EnsureCiliumEnvoyConfig \/ DeleteCiliumEnvoyConfig
    <2>1. /\ UNCHANGED <<gw, svc, ep, wfresh, copy>> /\ pc \in {"CEC", "deleteCEC"}
          /\ \/ pc' = "error" /\ cec' = cec
             \/ pc = "CEC" /\ pc' = "address" /\ cec' = Translated
             \/ pc = "deleteCEC" /\ pc' = "address" /\ cec' = NoDec
        BY <1>7 DEF EnsureCiliumEnvoyConfig, DeleteCiliumEnvoyConfig, FailAfterAcceptance
    <2>2. cec' = cec \/ cec'.cfg = CecFor(copy.cfg)
        BY <2>1, SMT DEF AppliedInv, CecFor, Translated, NoDec
    <2>3. wfresh => copy.cfg = gw.cfg
        BY <2>1 DEF VersionInv
    <2>4. gw.st.prog = Cond("True", gw.gen) => copy.cfg = gw.cfg
        BY <2>1, SameSpec
    <2> QED BY <2>1, <2>2, <2>3, <2>4, SMT
            DEF AppliedInv, ProgrammedMeansApplied, Later, Translated, NoDec, CecFor
<1>8. CASE SetAddressStatus
    <2>1. UNCHANGED <<gw, svc, ep, cec, wfresh>> /\ pc = "address" /\ pc' \in {"error", "update"}
        BY <1>8 DEF SetAddressStatus
    <2>2. pc' = "update" => copy'.st.addr # None
        <3>1. SetProgrammed(copy, "True") \in Gateway
            BY <1>0, SetConditionTypes
        <3> QED BY <1>8, <3>1, SMT DEF SetAddressStatus, Gateway, Status
    <2> QED BY <2>1, <2>2 DEF AppliedInv, ProgrammedMeansApplied, Later
<1>9. CASE UpdateStatus \/ HandleReconcileErrorWithStatus
    <2>1. /\ UNCHANGED <<svc, ep, cec>> /\ pc' = "idle" /\ ~wfresh'
          /\ \/ gw' = gw
             \/ wfresh /\ gw' = [gw EXCEPT !.st = copy.st]
          /\ pc \in {"update", "error"}
        BY <1>9 DEF UpdateStatus, HandleReconcileErrorWithStatus, StatusWrite, NoStatusWrite,
                    Succeed, Fail, ClearLocals
    <2>2. CASE gw' = gw
        BY <2>1, <2>2 DEF AppliedInv, ProgrammedMeansApplied, Later
    <2>3. CASE wfresh /\ gw' = [gw EXCEPT !.st = copy.st]
        <3>1. gw'.cfg = gw.cfg /\ gw'.gen = gw.gen /\ gw'.st = copy.st /\ gw'.phase = gw.phase
            BY <1>0, <2>3 DEF Gateway
        <3>2. CASE pc = "error"
            BY <2>1, <2>3, <3>1, <3>2
               DEF AppliedInv, VersionInv, ProgrammedMeansApplied, Later
        <3>3. CASE pc = "update"
            BY <2>1, <2>3, <3>1, <3>3 DEF AppliedInv, ProgrammedMeansApplied, Later
        <3> QED BY <2>1, <3>2, <3>3
    <2> QED BY <2>1, <2>2, <2>3
<1>10. CASE Informers
    <2>1. UNCHANGED <<gw, svc, ep, cec, wfresh, copy, pc>>
        BY <1>10 DEF Informers, SyncGateway, SyncService, SyncEnvoyConfig, SyncEndpoints,
                     SyncRoutes
    <2> QED BY <2>1 DEF AppliedInv, ProgrammedMeansApplied
<1>11. CASE EditGateway
    <2>1. /\ gw'.gen = gw.gen + 1 /\ gw'.st = gw.st /\ ~wfresh'
          /\ UNCHANGED <<copy, pc>>
        BY <1>0, <1>11 DEF EditGateway, Gateway
    <2>2. gw'.st.prog # Cond("True", gw'.gen)
        <3>1. gw.st.prog.gen <= gw.gen /\ gw.gen \in Nat /\ gw.st.prog.gen \in Nat
            BY <1>0, VersionTypes, SMT DEF VersionInv, TypeOK
        <3> QED BY <2>1, <3>1, SMTT(20) DEF Cond
    <2> QED BY <2>1, <2>2 DEF AppliedInv, ProgrammedMeansApplied
<1>12. CASE DeleteGateway
    <2>1. /\ gw'.gen = gw.gen /\ gw'.cfg = gw.cfg /\ gw'.st = gw.st /\ gw.phase # "gone"
          /\ ~wfresh' /\ UNCHANGED <<svc, ep, cec, copy, pc>>
        BY <1>0, <1>12 DEF DeleteGateway, Gateway
    <2> QED BY <2>1 DEF AppliedInv, ProgrammedMeansApplied
<1>13. CASE GarbageCollect
    <2>1. gw' = gw /\ gw.phase = "gone" /\ UNCHANGED <<wfresh, copy, pc>>
        BY <1>13 DEF GarbageCollect
    <2>2. ~wfresh
        BY <2>1 DEF VersionInv
    <2> QED BY <2>1, <2>2 DEF AppliedInv, ProgrammedMeansApplied
<1>14. CASE EditRoutes \/ CreateClass
    <2>1. UNCHANGED <<gw, svc, ep, cec, wfresh, copy, pc>>
        BY <1>14 DEF EditRoutes, CreateClass
    <2> QED BY <2>1 DEF AppliedInv, ProgrammedMeansApplied
<1>15. CASE AssignAddress \/ ChangeAddress
    <2>1. UNCHANGED <<gw, ep, cec, wfresh, copy, pc>>
        BY <1>15 DEF AssignAddress, ChangeAddress
    <2>2. svc'.cfg = svc.cfg
        BY <1>0, <1>15 DEF AssignAddress, ChangeAddress, Service
    <2> QED BY <2>1, <2>2 DEF AppliedInv, ProgrammedMeansApplied
<1>16. CASE Restart
    <2>1. UNCHANGED <<gw, svc, ep, cec>> /\ pc' = "idle" /\ ~wfresh'
        BY <1>16 DEF Restart, ClearLocals
    <2> QED BY <2>1 DEF AppliedInv, ProgrammedMeansApplied, Later
<1>17. CASE UNCHANGED vars
    <2>1. UNCHANGED <<gw, svc, ep, cec, wfresh, copy, pc>>
        BY <1>17 DEF vars
    <2> QED BY <2>1 DEF AppliedInv, ProgrammedMeansApplied
<1> QED
    BY <1>1, <1>2, <1>3, <1>4, <1>5, <1>6, <1>7, <1>8, <1>9, <1>10, <1>11, <1>12, <1>13,
       <1>14, <1>15, <1>16, <1>17
    DEF Next, Reconcile, Environment

\* A Gateway reported Programmed at its current generation is applied.
THEOREM ProgrammedSound == Spec => []ProgrammedMeansApplied
<1>1. ASSUME Init PROVE AppliedInv
    <2>1. pc = "idle" /\ ~wfresh
        BY <1>1 DEF Init
    <2>2. gw.st = NoStatus
        BY <1>1, SMT DEF Init
    <2>3. gw.st.prog # Cond("True", gw.gen)
        BY <2>2, SMT DEF NoStatus, Cond
    <2> QED BY <2>1, <2>3, SMT DEF AppliedInv, ProgrammedMeansApplied
<1>2. TypeOK /\ VersionInv /\ AppliedInv /\ [Next]_vars => AppliedInv'
    BY AppliedStep
<1>3. AppliedInv => ProgrammedMeansApplied
    BY DEF AppliedInv
<1> QED BY <1>1, <1>2, <1>3, TypeCorrect, VersionsOrdered, PTL DEF Spec

-----------------------------------------------------------------------------
(* Nothing happens before acceptance.                                      *)

\* Every step keeps BarredInv.
LEMMA BarredStep ==
    ASSUME TypeOK, BarredInv, [Next]_vars
    PROVE  BarredInv'
<1> USE DEF objects, caches, locals, derived
<1>0. /\ gw \in Gateway /\ cgw \in Gateway /\ orig \in Gateway /\ copy \in Gateway
      /\ gw.gen \in Nat /\ None \notin Ours
    BY VersionTypes, NoneAssumption, SetsAssumption DEF TypeOK
<1>1. CASE GetGateway
    BY <1>1 DEF GetGateway, BarredInv, Barred
<1>2. CASE GetGatewayClass
    BY <1>0, <1>2 DEF GetGatewayClass, BarredInv, Barred, Succeed, ClearLocals, NoGw,
                hasMatchingController
<1>3. CASE GatherInputs
    BY <1>3 DEF GatherInputs, BarredInv, Barred, Fail, ClearLocals, NoGw
<1>4. CASE AcceptGateway \/ EnsureService \/ EnsureEndpoints \/ EnsureEnvoyConfig
           \/ EnsureCiliumEnvoyConfig \/ DeleteEnvoyConfig \/ DeleteCiliumEnvoyConfig
           \/ SetAddressStatus \/ UpdateStatus \/ HandleReconcileErrorWithStatus
    <2>1. pc \notin {"idle", "class", "gather"} /\ pc' # "class" /\ cgw' = cgw
        BY <1>4 DEF AcceptGateway, EnsureService, EnsureEndpoints, EnsureEnvoyConfig,
                    EnsureCiliumEnvoyConfig, DeleteEnvoyConfig, DeleteCiliumEnvoyConfig,
                    SetAddressStatus, UpdateStatus, HandleReconcileErrorWithStatus,
                    FailAfterAcceptance, Succeed, Fail, ClearLocals
    <2>2. ~Barred
        BY <2>1 DEF BarredInv
    <2>3. gw'.gen = gw.gen /\ gw'.class = gw.class /\ classes' = classes
        <3>1. classes' = classes /\ (gw' = gw \/ gw' = [gw EXCEPT !.st = copy.st])
            BY <1>4 DEF AcceptGateway, EnsureService, EnsureEndpoints, EnsureEnvoyConfig,
                        EnsureCiliumEnvoyConfig, DeleteEnvoyConfig, DeleteCiliumEnvoyConfig,
                        SetAddressStatus, UpdateStatus, HandleReconcileErrorWithStatus,
                        StatusWrite, NoStatusWrite
        <3> QED BY <1>0, <3>1 DEF Gateway
    <2> QED BY <2>1, <2>2, <2>3 DEF BarredInv, Barred
<1>5. CASE Informers
    <2>1. UNCHANGED <<gw, svc, ep, dec, cec, classes, pc, orig>> /\ cgw' \in {cgw, gw}
        BY <1>5, SMTT(20) DEF Informers, SyncGateway, SyncService, SyncEnvoyConfig, SyncEndpoints,
                    SyncRoutes
    <2> QED BY <2>1 DEF BarredInv, Barred
<1>6. CASE EditGateway
    <2>1. /\ gw'.gen = gw.gen + 1 /\ gw'.st = gw.st
          /\ UNCHANGED <<svc, ep, dec, cec, classes, pc>>
        BY <1>0, <1>6 DEF EditGateway, Gateway
    <2> QED BY <1>0, <2>1, SMT DEF BarredInv, Barred
<1>7. CASE DeleteGateway
    <2>1. /\ gw'.gen = gw.gen /\ gw'.class = gw.class /\ gw'.st = gw.st
          /\ UNCHANGED <<svc, ep, dec, cec, classes, pc, cgw, orig>>
        BY <1>0, <1>7 DEF DeleteGateway, Gateway
    <2> QED BY <2>1 DEF BarredInv, Barred
<1>8. CASE GarbageCollect
    <2>1. /\ svc' = NoSvc /\ ep' = FALSE /\ dec' = NoDec /\ cec' = NoDec
          /\ UNCHANGED <<gw, classes, cgw, pc, orig>>
        BY <1>8 DEF GarbageCollect
    <2> QED BY <2>1 DEF BarredInv, Barred
<1>9. CASE EditRoutes
    BY <1>9 DEF EditRoutes, BarredInv, Barred
<1>10. CASE CreateClass
    BY <1>10 DEF CreateClass, BarredInv, Barred
<1>11. CASE AssignAddress \/ ChangeAddress
    <2>1. svc # NoSvc
        BY <1>11, SMT DEF AssignAddress, ChangeAddress, NoSvc
    <2>2. UNCHANGED <<gw, classes, cgw, orig, pc>>
        BY <1>11 DEF AssignAddress, ChangeAddress
    <2> QED BY <2>1, <2>2 DEF BarredInv, Barred
<1>12. CASE Restart
    BY <1>12 DEF Restart, ClearLocals, NoGw, BarredInv, Barred
<1>13. CASE UNCHANGED vars
    BY <1>13 DEF vars, BarredInv, Barred
<1> QED
    BY <1>1, <1>2, <1>3, <1>4, <1>5, <1>6, <1>7, <1>8, <1>9, <1>10, <1>11, <1>12, <1>13
    DEF Next, Reconcile, Environment

\* A Gateway that Reconcile has no reason to accept is left alone.
THEOREM BarredLeftAlone == Spec => []NoEffectBeforeAcceptance
<1>1. Init => BarredInv
    BY SMT DEF Init, BarredInv, NoGw
<1>2. TypeOK /\ BarredInv /\ [Next]_vars => BarredInv'
    BY BarredStep
<1>3. BarredInv => NoEffectBeforeAcceptance
    BY DEF BarredInv, NoEffectBeforeAcceptance, derived
<1> QED BY <1>1, <1>2, <1>3, TypeCorrect, PTL DEF Spec
=============================================================================
