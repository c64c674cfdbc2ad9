---------------------- MODULE OperatorLifecycleProofs ----------------------
(***************************************************************************)
(* Proofs about OperatorLifecycle, for every number of replicas, hooks and *)
(* faults: its variables keep their types, and a replica that runs leader- *)
(* scoped cells holds the Lease unless it lost it or started late.         *)
(***************************************************************************)
EXTENDS OperatorLifecycle, TLAPS

\* A process that ends leaves every variable in its domain.
LEMMA GoneTypes ==
    ASSUME TypeOK, NEW o \in Ops, Gone(o), faults' \in 0 .. MaxFaults,
           UNCHANGED disableLeaderElection
    PROVE  TypeOK'
BY HooksAssumption, OpsAssumption DEF TypeOK, Gone

\* A step of any kind keeps every variable in its domain.
LEMMA TypeStep == TypeOK /\ [Next]_vars => TypeOK'
<1> SUFFICES ASSUME TypeOK, [Next]_vars PROVE TypeOK'
  OBVIOUS
<1>l. UNCHANGED disableLeaderElection
  BY DEF Next, Hive, Runner, Starter, Misfortune, ExpireLease, vars
<1> USE <1>l, HooksAssumption, OpsAssumption, FaultsAssumption
<1>s. CASE UNCHANGED vars
  BY <1>s DEF vars, proc, TypeOK
<1>1. ASSUME NEW o \in Ops, OnStart(o) PROVE TypeOK'
  BY <1>1 DEF TypeOK, OnStart
<1>2. ASSUME NEW o \in Ops, ServerStart(o) PROVE TypeOK'
  <2>1. faults' \in 0 .. MaxFaults
    BY <1>2 DEF TypeOK, ServerStart, Fault
  <2>2. servers' \in [Ops -> SUBSET Listeners]
    BY <1>2 DEF TypeOK, ServerStart
  <2>3. /\ main' \in [Ops -> {"down", "serverStart", "up", "serverStop", "llcStop",
                             "cleanup", "wait"}]
        /\ shutdown' \in [Ops -> BOOLEAN]
    BY <1>2 DEF TypeOK, ServerStart
  <2>q. QED
    BY <1>2, <2>1, <2>2, <2>3 DEF TypeOK, ServerStart
<1>3. ASSUME NEW o \in Ops, ServeFails(o) PROVE TypeOK'
  BY <1>3 DEF TypeOK, ServeFails, Fault
<1>4. ASSUME NEW o \in Ops, RunElection(o) PROVE TypeOK'
  BY <1>4 DEF TypeOK, RunElection
<1>5. ASSUME NEW o \in Ops, RunLocal(o) PROVE TypeOK'
  BY <1>5 DEF TypeOK, RunLocal
<1>6. ASSUME NEW o \in Ops, RunLocalDone(o) PROVE TypeOK'
  BY <1>6 DEF TypeOK, RunLocalDone
<1>7. ASSUME NEW o \in Ops, Acquire(o) PROVE TypeOK'
  BY <1>7 DEF TypeOK, Acquire
<1>8. ASSUME NEW o \in Ops, ElectionCancelled(o) PROVE TypeOK'
  BY <1>8 DEF TypeOK, ElectionCancelled, OnStoppedLeading
<1>9. ASSUME NEW o \in Ops, RenewFails(o) PROVE TypeOK'
  BY <1>9 DEF TypeOK, RenewFails, Fault, OnStoppedLeading
<1>10. ASSUME NEW o \in Ops, StartLeaderCells(o) PROVE TypeOK'
  BY <1>10 DEF TypeOK, StartLeaderCells
<1>11. ASSUME NEW o \in Ops, StartHook(o) PROVE TypeOK'
  <2>1. isLeader' \in [Ops -> BOOLEAN]
    <3>1. CASE started[o] + 1 = LegacyHook
      BY <1>11, <3>1 DEF TypeOK, StartHook
    <3>2. CASE started[o] + 1 # LegacyHook
      BY <1>11, <3>2 DEF TypeOK, StartHook
    <3>q. QED
      BY <3>1, <3>2
  <2>2. CASE UNCHANGED <<starter, mutex, shutdown, faults>>
    BY <1>11, <2>1, <2>2 DEF TypeOK, StartHook, Fault
  <2>3. CASE UNCHANGED started /\ Fault
    <3>1. starter' \in [Ops -> {"none", "pending", "starting", "done", "failed"}]
      BY <1>11 DEF TypeOK, StartHook
    <3>2. mutex' \in [Ops -> {"free", "start", "stop"}]
      BY <1>11 DEF TypeOK, StartHook
    <3>3. shutdown' \in [Ops -> BOOLEAN]
      BY <1>11 DEF TypeOK, StartHook
    <3>q. QED
      BY <1>11, <2>1, <2>3, <3>1, <3>2, <3>3 DEF TypeOK, StartHook, Fault
  <2>q. QED
    BY <1>11, <2>2, <2>3 DEF StartHook
<1>12. ASSUME NEW o \in Ops, StartDone(o) PROVE TypeOK'
  BY <1>12 DEF TypeOK, StartDone
<1>13. ASSUME NEW o \in Ops, BeginStop(o) PROVE TypeOK'
  BY <1>13 DEF TypeOK, BeginStop, Fault
<1>14. ASSUME NEW o \in Ops, ServerStop(o) PROVE TypeOK'
  BY <1>14 DEF TypeOK, ServerStop, Fault
<1>15. ASSUME NEW o \in Ops, LlcStop(o) PROVE TypeOK'
  BY <1>15 DEF TypeOK, LlcStop
<1>16. ASSUME NEW o \in Ops, StopHook(o) PROVE TypeOK'
  BY <1>16 DEF TypeOK, StopHook
<1>17. ASSUME NEW o \in Ops, LlcStopDone(o) PROVE TypeOK'
  <2>1. CASE Fault /\ Gone(o)
    BY <2>1, GoneTypes DEF TypeOK, Fault
  <2>2. CASE ~(Fault /\ Gone(o))
    BY <1>17, <2>2 DEF TypeOK, LlcStopDone
  <2>q. QED
    BY <2>1, <2>2
<1>18. ASSUME NEW o \in Ops, DoCleanup(o) PROVE TypeOK'
  <2>1. CASE Gone(o) /\ UNCHANGED faults
    BY <2>1, GoneTypes DEF TypeOK
  <2>2. CASE ~(Gone(o) /\ UNCHANGED faults)
    BY <1>18, <2>2, ZenonT(40) DEF TypeOK, DoCleanup
  <2>q. QED
    BY <2>1, <2>2
<1>19. ASSUME NEW o \in Ops, Exit(o) PROVE TypeOK'
  BY <1>19 DEF TypeOK, Exit, Gone
<1>20. ASSUME NEW o \in Ops, Crash(o) PROVE TypeOK'
  BY <1>20 DEF TypeOK, Crash, Fault, Gone
<1>21. CASE ExpireLease
  BY <1>21 DEF TypeOK, ExpireLease, proc
<1>q. QED
  BY <1>s, <1>1, <1>2, <1>3, <1>4, <1>5, <1>6, <1>7, <1>8, <1>9, <1>10, <1>11, <1>12, <1>13, <1>14, <1>15, <1>16, <1>17, <1>18, <1>19, <1>20, <1>21 DEF Next, Hive, Runner, Starter, Misfortune

\* A step of any kind keeps ElectionInv.
LEMMA ElectionStep == TypeOK /\ ElectionInv /\ [Next]_vars => ElectionInv'
<1> SUFFICES ASSUME TypeOK, ElectionInv, [Next]_vars PROVE ElectionInv'
  OBVIOUS
<1>l. UNCHANGED disableLeaderElection
  BY DEF Next, Hive, Runner, Starter, Misfortune, ExpireLease, vars
<1> USE <1>l, HooksAssumption, OpsAssumption, FaultsAssumption, ModeAssumption
<1>s. CASE UNCHANGED vars
  BY <1>s DEF vars, proc, ElectionInv
<1>1. ASSUME NEW o \in Ops, OnStart(o) PROVE ElectionInv'
  BY <1>1 DEF TypeOK, ElectionInv, OnStart
<1>2. ASSUME NEW o \in Ops, ServerStart(o) PROVE ElectionInv'
  BY <1>2 DEF TypeOK, ElectionInv, ServerStart, Fault
<1>3. ASSUME NEW o \in Ops, ServeFails(o) PROVE ElectionInv'
  BY <1>3 DEF TypeOK, ElectionInv, ServeFails, Fault
<1>4. ASSUME NEW o \in Ops, RunElection(o) PROVE ElectionInv'
  BY <1>4 DEF TypeOK, ElectionInv, RunElection
<1>5. ASSUME NEW o \in Ops, RunLocal(o) PROVE ElectionInv'
  BY <1>5 DEF TypeOK, ElectionInv, RunLocal
<1>6. ASSUME NEW o \in Ops, RunLocalDone(o) PROVE ElectionInv'
  BY <1>6 DEF TypeOK, ElectionInv, RunLocalDone
<1>7. ASSUME NEW o \in Ops, Acquire(o) PROVE ElectionInv'
  BY <1>7 DEF TypeOK, ElectionInv, Acquire
<1>8. ASSUME NEW o \in Ops, ElectionCancelled(o) PROVE ElectionInv'
  BY <1>8 DEF TypeOK, ElectionInv, ElectionCancelled, OnStoppedLeading
<1>9. ASSUME NEW o \in Ops, RenewFails(o) PROVE ElectionInv'
  BY <1>9 DEF TypeOK, ElectionInv, RenewFails, Fault, OnStoppedLeading
<1>10. ASSUME NEW o \in Ops, StartLeaderCells(o) PROVE ElectionInv'
  <2>1. late'[o] = (main[o] \in {"cleanup", "wait"})
    BY <1>10, Zenon DEF TypeOK, StartLeaderCells
  <2>2. \A p \in Ops : p # o => late'[p] = late[p]
    BY <1>10 DEF TypeOK, StartLeaderCells
  <2>3. SUFFICES ASSUME NEW p \in Ops
                 PROVE  main[p] \in {"cleanup", "wait"} /\ ~late'[p] =>
                            started[p] = 0 /\ mutex'[p] = "free"
    BY <1>10 DEF TypeOK, ElectionInv, StartLeaderCells
  <2>4. CASE p = o
    BY <2>1, <2>4
  <2>5. CASE p # o
    BY <1>10, <2>2, <2>5 DEF TypeOK, ElectionInv, StartLeaderCells
  <2>q. QED
    BY <2>4, <2>5
<1>11. ASSUME NEW o \in Ops, StartHook(o) PROVE ElectionInv'
  BY <1>11 DEF TypeOK, ElectionInv, StartHook, Fault
<1>12. ASSUME NEW o \in Ops, StartDone(o) PROVE ElectionInv'
  BY <1>12 DEF TypeOK, ElectionInv, StartDone
<1>13. ASSUME NEW o \in Ops, BeginStop(o) PROVE ElectionInv'
  BY <1>13 DEF TypeOK, ElectionInv, BeginStop, Fault
<1>14. ASSUME NEW o \in Ops, ServerStop(o) PROVE ElectionInv'
  BY <1>14 DEF TypeOK, ElectionInv, ServerStop, Fault
<1>15. ASSUME NEW o \in Ops, LlcStop(o) PROVE ElectionInv'
  BY <1>15 DEF TypeOK, ElectionInv, LlcStop
<1>16. ASSUME NEW o \in Ops, StopHook(o) PROVE ElectionInv'
  BY <1>16 DEF TypeOK, ElectionInv, StopHook
<1>17. ASSUME NEW o \in Ops, LlcStopDone(o) PROVE ElectionInv'
  BY <1>17 DEF TypeOK, ElectionInv, LlcStopDone, Fault, Gone
<1>18. ASSUME NEW o \in Ops, DoCleanup(o) PROVE ElectionInv'
  BY <1>18 DEF TypeOK, ElectionInv, DoCleanup, Gone
<1>19. ASSUME NEW o \in Ops, Exit(o) PROVE ElectionInv'
  BY <1>19 DEF TypeOK, ElectionInv, Exit, Gone
<1>20. ASSUME NEW o \in Ops, Crash(o) PROVE ElectionInv'
  BY <1>20 DEF TypeOK, ElectionInv, Crash, Fault, Gone
<1>21. CASE ExpireLease
  BY <1>21 DEF TypeOK, ElectionInv, ExpireLease, proc
<1>q. QED
  BY <1>s, <1>1, <1>2, <1>3, <1>4, <1>5, <1>6, <1>7, <1>8, <1>9, <1>10, <1>11, <1>12, <1>13, <1>14, <1>15, <1>16, <1>17, <1>18, <1>19, <1>20, <1>21 DEF Next, Hive, Runner, Starter, Misfortune

\* Every variable of the replicas and the Lease stays in its domain (cmd/root.go,
\* api/server.go), whatever fails.
THEOREM LifecycleTypeCorrect == Spec => []TypeOK
<1>1. Init => TypeOK
  BY HooksAssumption, OpsAssumption, FaultsAssumption, ModeAssumption DEF Init, TypeOK
<1>q. QED
  BY <1>1, TypeStep, PTL DEF Spec

\* The protocol between OnStop, the elector and the goroutine that starts the
\* leader-scoped cells keeps ElectionInv.
THEOREM ElectionCorrect == Spec => []ElectionInv
<1>1. Init => ElectionInv
  BY OpsAssumption DEF Init, ElectionInv
<1>q. QED
  BY <1>1, ElectionStep, LifecycleTypeCorrect, PTL DEF Spec

\* registerOperatorHooks' OnStop stops the cells before doCleanup gives up the
\* Lease: a replica that runs them holds it, or lost it, or started them late.
THEOREM LeadershipSound == Spec => []LeaderHoldsLease
<1>1. TypeOK /\ ElectionInv => LeaderHoldsLease
  BY HooksAssumption DEF TypeOK, ElectionInv, LeaderHoldsLease
<1>q. QED
  BY <1>1, LifecycleTypeCorrect, ElectionCorrect, PTL
=============================================================================
