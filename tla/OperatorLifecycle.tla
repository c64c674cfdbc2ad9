------------------------- MODULE OperatorLifecycle -------------------------
(***************************************************************************)
(* Start, leader election and shutdown of operator replicas: the hive's    *)
(* start and stop hooks that cmd/root.go and api/server.go register, the   *)
(* goroutine that runs the election, the goroutine it spawns to start the  *)
(* leader-scoped cells, and the Lease they compete for.  The hive (its     *)
(* hooks run in order, are stopped in reverse order, and one mutex guards  *)
(* Start and Stop of a lifecycle) and client-go's leader elector are       *)
(* external and modelled from their use.  Time is abstracted: an elector   *)
(* gives up (RenewDeadline, 10s) before its Lease can be taken over        *)
(* (LeaseDuration, 15s).                                                   *)
(***************************************************************************)
EXTENDS Naturals, FiniteSets

CONSTANTS
    Ops,                    \* operator replicas
    Hooks,                  \* number of start hooks of the leader-scoped cells
    LegacyHook,             \* the one legacyOnLeader registers
    Listeners,              \* addresses the API server listens on
    Modes,                  \* the settings of DisableLeaderElection
    NoOp,                   \* nobody holds the Lease
    Orphan,                 \* held by a replica that no longer renews it
    MaxFaults               \* bound: failing calls, signals and crashes

ASSUME HooksAssumption == Hooks \in Nat \ {0} /\ LegacyHook \in 1 .. Hooks
ASSUME OpsAssumption == NoOp \notin Ops /\ Orphan \notin Ops /\ NoOp # Orphan
ASSUME ModeAssumption == Modes \subseteq BOOLEAN
ASSUME FaultsAssumption == MaxFaults \in Nat

VARIABLES
    disableLeaderElection,  \* local mode
    lease,      \* holder of dolphin-operator-resource-lock
    main,       \* the thread that runs the hive
    servers,    \* listeners of the API server that are open
    runner,     \* the goroutine in runOperator
    starter,    \* the goroutine in OnStartedLeading (in local mode: runOperator)
    started,    \* leader-scoped hooks that have been started
    mutex,      \* who holds the LeaderLifecycle: Start, Stop or nobody
    cancelSet,  \* leaderElectionCtxCancel is not nil
    cancelled,  \* leaderElectionCtx is done
    isLeader,
    shutdown,   \* the hive has been asked to shut down
    late,       \* history: the leader cells were started after llc.Stop
    lost,       \* history: the Lease could not be renewed
    faults      \* spent budget

proc == <<main, servers, runner, starter, started, mutex, cancelSet, cancelled, isLeader,
          shutdown, late, lost>>
vars == <<disableLeaderElection, lease, proc, faults>>

Fault == faults < MaxFaults /\ faults' = faults + 1

\* The process is gone, and with it every goroutine; a Lease it still holds
\* runs out (the identity in it is random per process).
Gone(o) ==
    /\ main' = [main EXCEPT ![o] = "down"]
    /\ servers' = [servers EXCEPT ![o] = {}]
    /\ runner' = [runner EXCEPT ![o] = "none"]
    /\ starter' = [starter EXCEPT ![o] = "none"]
    /\ started' = [started EXCEPT ![o] = 0]
    /\ mutex' = [mutex EXCEPT ![o] = "free"]
    /\ cancelSet' = [cancelSet EXCEPT ![o] = FALSE]
    /\ cancelled' = [cancelled EXCEPT ![o] = FALSE]
    /\ isLeader' = [isLeader EXCEPT ![o] = FALSE]
    /\ shutdown' = [shutdown EXCEPT ![o] = FALSE]
    /\ late' = [late EXCEPT ![o] = FALSE]
    /\ lost' = [lost EXCEPT ![o] = FALSE]
    /\ lease' = IF lease = o THEN Orphan ELSE lease

Stopping(o) == main[o] \in {"serverStop", "llcStop", "cleanup", "wait"}

-----------------------------------------------------------------------------
(* The hive: start.                                                        *)

\* OnStart of registerOperatorHooks: spawn runOperator.
OnStart(o) ==
    /\ main[o] = "down"
    /\ main' = [main EXCEPT ![o] = "serverStart"]
    /\ runner' = [runner EXCEPT ![o] = "run"]
    /\ UNCHANGED <<lease, servers, starter, started, mutex, cancelSet, cancelled, isLeader,
                   shutdown, late, lost, faults>>

\* server.Start: an address that cannot be bound is skipped; when none can, the
\* hook fails and the hive stops the hooks that were started.
ServerStart(o) ==
    /\ main[o] = "serverStart"
    /\ \/ /\ \E S \in SUBSET Listeners :
                /\ S # {}
                /\ S = Listeners \/ Fault
                /\ S # Listeners \/ UNCHANGED faults
                /\ servers' = [servers EXCEPT ![o] = S]
          /\ main' = [main EXCEPT ![o] = "up"]
          /\ UNCHANGED shutdown
       \/ /\ Fault
          /\ shutdown' = [shutdown EXCEPT ![o] = TRUE]
          /\ main' = [main EXCEPT ![o] = "llcStop"]
          /\ UNCHANGED servers
    /\ UNCHANGED <<lease, runner, starter, started, mutex, cancelSet, cancelled, isLeader,
                   late, lost>>

\* A listener's Serve returns unexpectedly.
ServeFails(o) ==
    /\ main[o] = "up" /\ servers[o] # {} /\ Fault
    /\ shutdown' = [shutdown EXCEPT ![o] = TRUE]
    /\ UNCHANGED <<lease, main, servers, runner, starter, started, mutex, cancelSet,
                   cancelled, isLeader, late, lost>>

-----------------------------------------------------------------------------
(* runOperator.                                                            *)

\* Election mode: the cancel function is set here, in the goroutine.
RunElection(o) ==
    /\ runner[o] = "run" /\ ~disableLeaderElection
    /\ isLeader' = [isLeader EXCEPT ![o] = FALSE]
    /\ cancelSet' = [cancelSet EXCEPT ![o] = TRUE]
    /\ runner' = [runner EXCEPT ![o] = "acquire"]
    /\ UNCHANGED <<lease, main, servers, starter, started, mutex, cancelled, shutdown, late,
                   lost, faults>>

\* Local mode: the leader-scoped cells are started by this goroutine.
RunLocal(o) ==
    /\ runner[o] = "run" /\ disableLeaderElection
    /\ runner' = [runner EXCEPT ![o] = "local"]
    /\ starter' = [starter EXCEPT ![o] = "pending"]
    /\ UNCHANGED <<lease, main, servers, started, mutex, cancelSet, cancelled, isLeader,
                   shutdown, late, lost, faults>>

\* isLeader is stored whether or not Start failed.
RunLocalDone(o) ==
    /\ runner[o] = "local" /\ starter[o] \in {"done", "failed"}
    /\ isLeader' = [isLeader EXCEPT ![o] = TRUE]
    /\ runner' = [runner EXCEPT ![o] = "done"]
    /\ UNCHANGED <<lease, main, servers, starter, started, mutex, cancelSet, cancelled,
                   shutdown, late, lost, faults>>

\* The elector: acquire, then spawn OnStartedLeading and renew.
Acquire(o) ==
    /\ runner[o] = "acquire" /\ ~cancelled[o] /\ lease = NoOp
    /\ lease' = o
    /\ runner' = [runner EXCEPT ![o] = "renew"]
    /\ starter' = [starter EXCEPT ![o] = "pending"]
    /\ UNCHANGED <<main, servers, started, mutex, cancelSet, cancelled, isLeader, shutdown,
                   late, lost, faults>>

\* OnStoppedLeading, called on every return of the elector.
OnStoppedLeading(o) ==
    /\ shutdown' = [shutdown EXCEPT ![o] = TRUE]
    /\ runner' = [runner EXCEPT ![o] = "done"]

\* The election context is cancelled: ReleaseOnCancel tries to give the Lease back.
ElectionCancelled(o) ==
    /\ runner[o] \in {"acquire", "renew"} /\ cancelled[o]
    /\ OnStoppedLeading(o)
    /\ lease' \in IF lease = o THEN {NoOp, Orphan} ELSE {lease}
    /\ UNCHANGED <<main, servers, starter, started, mutex, cancelSet, cancelled, isLeader,
                   late, lost, faults>>

\* The Lease cannot be renewed for RenewDeadline; the release is tried anyway.
RenewFails(o) ==
    /\ runner[o] = "renew" /\ Fault
    /\ OnStoppedLeading(o)
    /\ lost' = [lost EXCEPT ![o] = TRUE]
    /\ lease' \in {NoOp, Orphan}
    /\ UNCHANGED <<main, servers, starter, started, mutex, cancelSet, cancelled, isLeader,
                   late>>

ExpireLease ==
    /\ lease = Orphan
    /\ lease' = NoOp
    /\ UNCHANGED <<disableLeaderElection, proc, faults>>

-----------------------------------------------------------------------------
(* The leader lifecycle's Start, in a goroutine of its own.                *)

StartLeaderCells(o) ==
    /\ starter[o] = "pending" /\ mutex[o] = "free"
    /\ mutex' = [mutex EXCEPT ![o] = "start"]
    /\ starter' = [starter EXCEPT ![o] = "starting"]
    /\ late' = [late EXCEPT ![o] = main[o] \in {"cleanup", "wait"}]
    /\ UNCHANGED <<lease, main, servers, runner, started, cancelSet, cancelled, isLeader,
                   shutdown, lost, faults>>

\* Mutant of StartHook: a failed Start is only logged.
StartHookLogged(o) ==
    /\ starter[o] = "starting" /\ started[o] < Hooks
    /\ isLeader' = IF started[o] + 1 = LegacyHook
                   THEN [isLeader EXCEPT ![o] = TRUE] ELSE isLeader
    /\ \/ /\ started' = [started EXCEPT ![o] = started[o] + 1]
          /\ UNCHANGED <<starter, mutex, faults>>
       \/ /\ Fault
          /\ starter' = [starter EXCEPT ![o] = "failed"]
          /\ mutex' = [mutex EXCEPT ![o] = "free"]
          /\ UNCHANGED started
    /\ UNCHANGED <<lease, main, servers, runner, cancelSet, cancelled, shutdown, late, lost>>

\* One hook; the legacy hook stores isLeader first.
StartHook(o) ==
    /\ starter[o] = "starting" /\ started[o] < Hooks
    /\ isLeader' = IF started[o] + 1 = LegacyHook
                   THEN [isLeader EXCEPT ![o] = TRUE] ELSE isLeader
    /\ \/ /\ started' = [started EXCEPT ![o] = started[o] + 1]
          /\ UNCHANGED <<starter, mutex, shutdown, faults>>
       \/ /\ Fault
          /\ shutdown' = [shutdown EXCEPT ![o] = TRUE]
          /\ starter' = [starter EXCEPT ![o] = "failed"]
          /\ mutex' = [mutex EXCEPT ![o] = "free"]
          /\ UNCHANGED started
    /\ UNCHANGED <<lease, main, servers, runner, cancelSet, cancelled, late, lost>>

StartDone(o) ==
    /\ starter[o] = "starting" /\ started[o] = Hooks
    /\ starter' = [starter EXCEPT ![o] = "done"]
    /\ mutex' = [mutex EXCEPT ![o] = "free"]
    /\ UNCHANGED <<lease, main, servers, runner, started, cancelSet, cancelled, isLeader,
                   shutdown, late, lost, faults>>

-----------------------------------------------------------------------------
(* The hive: stop.                                                         *)

\* A signal, or Shutdown by one of the goroutines.
BeginStop(o) ==
    /\ main[o] = "up"
    /\ \/ shutdown[o] /\ UNCHANGED faults
       \/ ~shutdown[o] /\ Fault
    /\ main' = [main EXCEPT ![o] = "serverStop"]
    /\ UNCHANGED <<lease, servers, runner, starter, started, mutex, cancelSet, cancelled,
                   isLeader, shutdown, late, lost>>

\* server.Stop returns at the first server whose Shutdown fails.
ServerStop(o) ==
    /\ main[o] = "serverStop"
    /\ \/ servers' = [servers EXCEPT ![o] = {}] /\ UNCHANGED faults
       \/ Fault /\ \E S \in SUBSET servers[o] : S # {} /\ servers' = [servers EXCEPT ![o] = S]
    /\ main' = [main EXCEPT ![o] = "llcStop"]
    /\ UNCHANGED <<lease, runner, starter, started, mutex, cancelSet, cancelled, isLeader,
                   shutdown, late, lost>>

\* Mutant of LlcStop: OnStop cancels the election before it stops the cells.
CancelBeforeStop(o) ==
    /\ main[o] = "llcStop" /\ mutex[o] = "free"
    /\ mutex' = [mutex EXCEPT ![o] = "stop"]
    /\ cancelled' = [cancelled EXCEPT ![o] = cancelSet[o]]
    /\ UNCHANGED <<lease, main, servers, runner, starter, started, cancelSet,
                   isLeader, shutdown, late, lost, faults>>

\* llc.Stop, hook by hook in reverse; it waits for a Start that is running.
LlcStop(o) ==
    /\ main[o] = "llcStop" /\ mutex[o] = "free"
    /\ mutex' = [mutex EXCEPT ![o] = "stop"]
    /\ UNCHANGED <<lease, main, servers, runner, starter, started, cancelSet, cancelled,
                   isLeader, shutdown, late, lost, faults>>

StopHook(o) ==
    /\ main[o] = "llcStop" /\ mutex[o] = "stop" /\ started[o] > 0
    /\ started' = [started EXCEPT ![o] = started[o] - 1]
    /\ UNCHANGED <<lease, main, servers, runner, starter, mutex, cancelSet, cancelled,
                   isLeader, shutdown, late, lost, faults>>

\* A failed Stop makes OnStop return before doCleanup and wg.Wait.
LlcStopDone(o) ==
    /\ main[o] = "llcStop" /\ mutex[o] = "stop" /\ started[o] = 0
    /\ \/ /\ main' = [main EXCEPT ![o] = "cleanup"]
          /\ mutex' = [mutex EXCEPT ![o] = "free"]
          /\ UNCHANGED <<lease, servers, runner, starter, started, cancelSet, cancelled,
                         isLeader, shutdown, late, lost, faults>>
       \/ Fault /\ Gone(o)

\* Mutant of DoCleanup: the election is not cancelled.
CleanupWithoutCancel(o) ==
    /\ main[o] = "cleanup"
    /\ isLeader' = [isLeader EXCEPT ![o] = FALSE]
    /\ main' = [main EXCEPT ![o] = "wait"]
    /\ UNCHANGED <<lease, servers, runner, starter, started, mutex, cancelSet, cancelled,
                   shutdown, late, lost, faults>>

\* doCleanup: calling a nil cancel function ends the process.
DoCleanup(o) ==
    /\ main[o] = "cleanup"
    /\ \/ /\ cancelSet[o]
          /\ isLeader' = [isLeader EXCEPT ![o] = FALSE]
          /\ cancelled' = [cancelled EXCEPT ![o] = TRUE]
          /\ main' = [main EXCEPT ![o] = "wait"]
          /\ UNCHANGED <<lease, servers, runner, starter, started, mutex, cancelSet, shutdown,
                         late, lost>>
       \/ ~cancelSet[o] /\ Gone(o)
    /\ UNCHANGED faults

\* wg.Wait: only runOperator is waited for.
Exit(o) ==
    /\ main[o] = "wait" /\ runner[o] = "done"
    /\ Gone(o) /\ UNCHANGED faults

\* log.Fatal in runOperator, or the process is killed.
Crash(o) ==
    /\ main[o] # "down" /\ Fault /\ Gone(o)

-----------------------------------------------------------------------------
Init ==
    /\ disableLeaderElection \in Modes
    /\ lease = NoOp /\ faults = 0
    /\ main = [o \in Ops |-> "down"] /\ servers = [o \in Ops |-> {}]
    /\ runner = [o \in Ops |-> "none"] /\ starter = [o \in Ops |-> "none"]
    /\ started = [o \in Ops |-> 0] /\ mutex = [o \in Ops |-> "free"]
    /\ cancelSet = [o \in Ops |-> FALSE] /\ cancelled = [o \in Ops |-> FALSE]
    /\ isLeader = [o \in Ops |-> FALSE] /\ shutdown = [o \in Ops |-> FALSE]
    /\ late = [o \in Ops |-> FALSE] /\ lost = [o \in Ops |-> FALSE]

Hive(o) ==
    /\ \/ OnStart(o) \/ ServerStart(o) \/ BeginStop(o) \/ ServerStop(o) \/ LlcStop(o)
       \/ StopHook(o) \/ LlcStopDone(o) \/ DoCleanup(o) \/ Exit(o)
    /\ UNCHANGED disableLeaderElection
Runner(o) ==
    /\ \/ RunElection(o) \/ RunLocal(o) \/ RunLocalDone(o)
       \/ Acquire(o) \/ ElectionCancelled(o)
    /\ UNCHANGED disableLeaderElection
Starter(o) ==
    /\ StartLeaderCells(o) \/ StartHook(o) \/ StartDone(o)
    /\ UNCHANGED disableLeaderElection
Misfortune(o) ==
    /\ ServeFails(o) \/ RenewFails(o) \/ Crash(o)
    /\ UNCHANGED disableLeaderElection

Next ==
    \/ \E o \in Ops : Hive(o) \/ Runner(o) \/ Starter(o) \/ Misfortune(o)
    \/ ExpireLease

Spec == Init /\ [][Next]_vars

\* Goroutines are scheduled, leases run out and the cluster restarts a process
\* that ended; faults owe nothing.
Fairness ==
    /\ \A o \in Ops : WF_vars(Hive(o)) /\ WF_vars(Runner(o)) /\ WF_vars(Starter(o))
    /\ WF_vars(ExpireLease)
FairSpec == Spec /\ Fairness

-----------------------------------------------------------------------------
(* Properties.                                                             *)

\* Every variable stays in its domain.
TypeOK ==
    /\ disableLeaderElection \in BOOLEAN
    /\ lease \in Ops \cup {NoOp, Orphan}
    /\ main \in [Ops -> {"down", "serverStart", "up", "serverStop", "llcStop", "cleanup",
                         "wait"}]
    /\ servers \in [Ops -> SUBSET Listeners]
    /\ runner \in [Ops -> {"none", "run", "local", "acquire", "renew", "done"}]
    /\ starter \in [Ops -> {"none", "pending", "starting", "done", "failed"}]
    /\ started \in [Ops -> 0 .. Hooks]
    /\ mutex \in [Ops -> {"free", "start", "stop"}]
    /\ cancelSet \in [Ops -> BOOLEAN] /\ cancelled \in [Ops -> BOOLEAN]
    /\ isLeader \in [Ops -> BOOLEAN] /\ shutdown \in [Ops -> BOOLEAN]
    /\ late \in [Ops -> BOOLEAN] /\ lost \in [Ops -> BOOLEAN]
    /\ faults \in 0 .. MaxFaults

\* OnStop stops the leader-scoped cells before it cancels the election: a
\* replica that runs some of them holds the Lease, unless it could not renew
\* it, or its Start won the race for the lifecycle only after llc.Stop.
LeaderHoldsLease ==
    ~disableLeaderElection =>
        \A o \in Ops : started[o] > 0 => lease = o \/ lost[o] \/ late[o]

\* The inductive strengthening of LeaderHoldsLease: who may be where while the
\* lifecycle's mutex, the election context and the Lease change hands.
ElectionInv ==
    \A o \in Ops :
        /\ lease = o => runner[o] = "renew"
        /\ runner[o] = "renew" => lease = o
        /\ main[o] = "down" => runner[o] = "none"
        /\ runner[o] \in {"none", "run", "acquire"} => starter[o] = "none"
        /\ runner[o] = "local" => disableLeaderElection
        /\ runner[o] = "done" /\ ~disableLeaderElection => main[o] = "wait" \/ lost[o]
        /\ cancelled[o] => main[o] = "wait"
        /\ starter[o] \in {"none", "pending"} => started[o] = 0
        /\ starter[o] = "starting" <=> mutex[o] = "start"
        /\ mutex[o] = "stop" => main[o] = "llcStop"
        /\ main[o] \in {"cleanup", "wait"} /\ ~late[o] =>
               started[o] = 0 /\ mutex[o] = "free"

\* A replica whose leader-scoped cells failed to start, that lost its Lease or
\* that crashed does not block the others: once faults end, some replica leads
\* with all its cells started and isLeader set, for good.
EventuallyLed ==
    <>[](\E o \in Ops : /\ lease = o \/ disableLeaderElection
                       /\ isLeader[o] /\ started[o] = Hooks)

\* A shutdown comes to its end: OnStop waits for the goroutine of runOperator
\* and for the mutex of the lifecycle, and neither waits for OnStop.
StopTerminates == \A o \in Ops : Stopping(o) ~> main[o] = "down"
=============================================================================
