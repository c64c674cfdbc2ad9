-------------------------- MODULE IngressReconcile ---------------------------
(***************************************************************************)
(* The Ingress controller: the informer that feeds its work queue, the one *)
(* worker that runs Reconcile, and the objects Reconcile publishes (a      *)
(* DolphinEnvoyConfig, a Service and Endpoints of its own for an Ingress   *)
(* in dedicated mode, one shared DolphinEnvoyConfig for all the others).   *)
(*                                                                         *)
(* api[i] is the sequence of revisions of the Ingress named i; a revision  *)
(* is [phase, class, lb, empty]: phase "live", "deleting" (it has a        *)
(* deletion timestamp) or "absent"; class "dolphin", "other", "empty" (the *)
(* class annotation is set to the empty string) or "nil" (no class at      *)
(* all); lb "dedicated", "shared" or "unset"; empty when its rules yield   *)
(* no listener.  Configurations hold indexes into api[i], 0 for none.      *)
(***************************************************************************)
EXTENDS Naturals, Sequences

CONSTANTS
    Ingresses,
    Pseudo,            \* the request for the pseudo Ingress
    Revisions,         \* the revisions users may write
    InitRevisions,     \* those an Ingress may have when the operator first starts
    DefaultDedicated,  \* the configured default load balancer mode is dedicated
    MaxUpsets          \* bound on edits, faults, crashes and foreign writes together

ASSUME PseudoAssumption == Pseudo \notin Ingresses
ASSUME RevisionsAssumption ==
    /\ Revisions \subseteq [phase : {"live", "deleting", "absent"},
                            class : {"dolphin", "other", "empty", "nil"},
                            lb : {"dedicated", "shared", "unset"}, empty : BOOLEAN]
    /\ InitRevisions \subseteq Revisions
ASSUME BoundAssumption == MaxUpsets \in Nat

VARIABLES
    api, isDefault, doomed, sharedLB, addr,    \* Ingresses and their world
    decs, svc, shared,                    \* published objects
    seen, seenDefault,                         \* informer caches
    up, queue, work,                           \* the process, its queue and worker
    upsets

world     == <<api, isDefault, doomed, sharedLB>>
published == <<decs, svc, shared, addr>>
caches    == <<seen, seenDefault>>
vars      == <<world, published, caches, up, queue, work, upsets>>

Newest(i) == api[i][Len(api[i])]
Cached(i) == api[i][seen[i]]

-----------------------------------------------------------------------------
(* Classification *)

isdolphinManagedIngress(r, default) == r.class = "dolphin" \/ (r.class = "empty" /\ default)

isEffectiveLoadbalancerModeDedicated(r) ==
    r.lb = "dedicated" \/ (r.lb = "unset" /\ DefaultDedicated)

\* isdolphinManagedIngress dereferences the class name before it tests it.
Panics(r) == r.phase # "absent" /\ r.class = "nil"

\* buildSharedResources keeps an Ingress that is managed, shared and not being
\* deleted.
\* Mutant: the mode is not looked at.
SharedWhateverMode(r, default) ==
    /\ r.phase = "live"
    /\ isdolphinManagedIngress(r, default)
InSharedModel(r, default) ==
    /\ r.phase = "live"
    /\ isdolphinManagedIngress(r, default)
    /\ ~isEffectiveLoadbalancerModeDedicated(r)

-----------------------------------------------------------------------------
(* Watches *)

\* The dedicated translator gives the Service and the Endpoints an owner of the
\* core group; SetControllerReference gives the DolphinEnvoyConfig the real one.
OwnerGroup(kind) == IF kind = "dec" THEN "networking.k8s.io" ELSE ""

\* Owns(...): an event of an object enqueues the Ingress that controls it.
EnqueueOwner(kind, i) == IF OwnerGroup(kind) = "networking.k8s.io" THEN {i} ELSE {}

\* The events a starting process receives: every Ingress its predicate lets
\* through, the owner of every DolphinEnvoyConfig, and the shared one.
InitialRequests(default) ==
    {i \in Ingresses : Newest(i).phase # "absent" /\ isdolphinManagedIngress(Newest(i), default)}
      \cup (UNION {EnqueueOwner("dec", i) : i \in {j \in Ingresses : decs[j] # 0}})
      \cup {Pseudo : i \in {j \in Ingresses : shared[j] # 0}}
      \cup {i \in Ingresses : default /\ Newest(i).phase # "absent" /\ Newest(i).class = "empty"}

\* matchesDolphinRelevantIngressPredicate on an event from one revision to
\* another.
\* Mutant: an update is judged by the new revision alone.
RelevantByNewRevision(old, new, default) ==
    new.phase # "absent" /\ isdolphinManagedIngress(new, default)
Relevant(old, new, default) ==
    \/ old.phase # "absent" /\ isdolphinManagedIngress(old, default)
    \/ new.phase # "absent" /\ isdolphinManagedIngress(new, default)

\* The predicate's second operand is evaluated only when the first is false.
PredicatePanics(old, new, default) ==
    \/ Panics(old)
    \/ Panics(new) /\ (old.phase = "absent" \/ ~isdolphinManagedIngress(old, default))

\* enqueSharedDolphinIngress.
\* Mutant: the shared Service's events reach no Ingress.
SharedNobody == {}
SharedRequests ==
    {i \in Ingresses : /\ Cached(i).phase # "absent"
                       /\ isdolphinManagedIngress(Cached(i), seenDefault)
                       /\ ~isEffectiveLoadbalancerModeDedicated(Cached(i))}

\* enqueueIngressesWithoutExplicitClass.
ClasslessRequests ==
    {i \in Ingresses : Cached(i).phase # "absent" /\ Cached(i).class \in {"empty", "nil"}}

-----------------------------------------------------------------------------
(* The worker *)

Nothing == [i \in Ingresses |-> 0]
Idle == [pc |-> "idle", req |-> Pseudo, rev |-> 0, mode |-> "gone", want |-> Nothing, left |-> {}]
Kinds == {"dec", "svc"}
PCs == {"idle", "classify", "dec", "svc", "list", "shared", "delete", "status", "clear"}
Modes == {"gone", "unmanaged", "dedicated", "shared"}

Init ==
    /\ api \in [Ingresses -> {<<r>> : r \in InitRevisions}]
    /\ isDefault = TRUE
    /\ doomed = {}
    /\ sharedLB = "pending"
    /\ addr = [i \in Ingresses |-> "none"]
    /\ decs = Nothing
    /\ svc = [i \in Ingresses |-> "none"]
    /\ shared = Nothing
    /\ seen = [i \in Ingresses |-> 1]
    /\ seenDefault = isDefault
    /\ up = \A i \in Ingresses : ~Panics(Newest(i))
    /\ queue = IF up THEN InitialRequests(isDefault) ELSE {}
    /\ work = Idle
    /\ upsets = 0

At(pc) == up /\ work.pc = pc
Goto(pc) == work' = [work EXCEPT !.pc = pc]

\* controllerruntime.Fail: the request is queued again.
\* Mutant: the request is dropped.
DropRequest == work' = Idle /\ queue' = queue
FailRequest == work' = Idle /\ queue' = queue \cup {work.req}

\* Reconcile: Get, then the deletion timestamp.
Start(r) ==
    /\ At("idle") /\ r \in queue
    /\ queue' = queue \ {r}
    /\ work' = IF r = Pseudo THEN [Idle EXCEPT !.pc = "list"]
               ELSE IF Cached(r).phase = "absent"
               THEN [Idle EXCEPT !.pc = "list", !.req = r, !.rev = seen[r]]
               ELSE IF Cached(r).phase = "deleting" THEN Idle
               ELSE [Idle EXCEPT !.pc = "classify", !.req = r, !.rev = seen[r]]
    /\ UNCHANGED <<world, published, caches, up, upsets>>

\* Managed or not, dedicated or shared; building the dedicated resources of an
\* Ingress without listeners is an error, and a panic of Reconcile is recovered
\* as one.
Classify ==
    /\ At("classify")
    /\ LET r == api[work.req][work.rev]
       IN  IF Panics(r) THEN FailRequest
           ELSE IF ~isdolphinManagedIngress(r, seenDefault)
           THEN work' = [work EXCEPT !.pc = "list", !.mode = "unmanaged"] /\ queue' = queue
           ELSE IF ~isEffectiveLoadbalancerModeDedicated(r)
           THEN work' = [work EXCEPT !.pc = "list", !.mode = "shared"] /\ queue' = queue
           ELSE IF r.empty THEN FailRequest
           ELSE work' = [work EXCEPT !.pc = "dec", !.mode = "dedicated"] /\ queue' = queue
    /\ UNCHANGED <<world, published, caches, up, upsets>>

\* A create is forbidden in a namespace that is being deleted, and Reconcile
\* then ends without an error.
CreateForbidden(absent) == work.req \in doomed /\ absent

WriteDolphinEnvoyConfig ==
    /\ At("dec")
    /\ IF CreateForbidden(decs[work.req] = 0) THEN work' = Idle /\ UNCHANGED <<decs, queue>>
       ELSE /\ decs' = [decs EXCEPT ![work.req] = work.rev]
            /\ queue' = IF decs' # decs THEN queue \cup EnqueueOwner("dec", work.req) ELSE queue
            /\ Goto("svc")
    /\ UNCHANGED <<world, svc, shared, addr, caches, up, upsets>>

\* createOrUpdateService and createOrUpdateEndpoints: the two share their name,
\* their owner and their fate, and svc stands for both.
WriteService ==
    /\ At("svc")
    /\ IF CreateForbidden(svc[work.req] = "none") THEN work' = Idle /\ UNCHANGED <<svc, queue>>
       ELSE /\ svc' = [svc EXCEPT ![work.req] = IF @ = "none" THEN "pending" ELSE @]
            /\ queue' = IF svc' # svc THEN queue \cup EnqueueOwner("svc", work.req) ELSE queue
            /\ Goto("list")
    /\ UNCHANGED <<world, decs, shared, addr, caches, up, upsets>>

\* buildSharedResources: the List.
ListShared ==
    /\ At("list")
    /\ IF \E i \in Ingresses : Panics(Cached(i)) THEN FailRequest
       ELSE /\ work' = [work EXCEPT !.pc = "shared",
                  !.want = [i \in Ingresses |->
                              IF InSharedModel(Cached(i), seenDefault) THEN seen[i] ELSE 0]]
            /\ queue' = queue
    /\ UNCHANGED <<world, published, caches, up, upsets>>

\* createOrUpdateSharedResources and tryCleanupSharedResources do the same; what
\* follows depends on the branch of Reconcile.
WriteShared ==
    /\ At("shared")
    /\ shared' = work.want
    /\ queue' = IF shared' # shared THEN queue \cup {Pseudo} ELSE queue
    /\ work' = IF work.mode = "gone" THEN Idle
               ELSE IF work.mode = "dedicated" THEN [work EXCEPT !.pc = "status", !.want = Nothing]
               ELSE [work EXCEPT !.pc = "delete", !.want = Nothing, !.left = Kinds]
    /\ UNCHANGED <<world, decs, svc, addr, caches, up, upsets>>

\* tryCleanupDedicatedResources ranges over a map: any order.
DeleteDedicated(kind) ==
    /\ At("delete") /\ kind \in work.left
    /\ decs' = IF kind = "dec" THEN [decs EXCEPT ![work.req] = 0] ELSE decs
    /\ svc' = IF kind = "svc" THEN [svc EXCEPT ![work.req] = "none"] ELSE svc
    /\ queue' = IF <<decs, svc>>' # <<decs, svc>>
                THEN queue \cup EnqueueOwner(kind, work.req) ELSE queue
    /\ work' = [work EXCEPT !.left = @ \ {kind},
                  !.pc = IF work.left # {kind} THEN @
                         ELSE IF work.mode = "shared" THEN "status" ELSE "clear"]
    /\ UNCHANGED <<world, shared, addr, caches, up, upsets>>

\* updateIngressLoadbalancerStatus: without the Service nothing is written; a
\* write based on an old revision is a conflict.
UpdateStatus ==
    /\ At("status")
    /\ LET i       == work.req
           service == IF work.mode = "dedicated" THEN svc[i] ELSE sharedLB
       IN  IF service = "none" THEN work' = Idle /\ UNCHANGED <<addr, queue>>
           ELSE IF work.rev # Len(api[i]) THEN FailRequest /\ UNCHANGED addr
           ELSE /\ addr' = [addr EXCEPT ![i] = IF service = "assigned" THEN work.mode ELSE "none"]
                /\ queue' = IF addr' # addr /\ isdolphinManagedIngress(Newest(i), seenDefault)
                            THEN queue \cup {i} ELSE queue
                /\ work' = Idle
    /\ UNCHANGED <<world, decs, svc, shared, caches, up, upsets>>

\* tryCleanupIngressStatus: an error is only logged.
ClearStatus ==
    /\ At("clear")
    /\ addr' = IF work.rev = Len(api[work.req]) THEN [addr EXCEPT ![work.req] = "none"] ELSE addr
    /\ work' = Idle
    /\ UNCHANGED <<world, decs, svc, shared, caches, up, queue, upsets>>

Work ==
    \/ Classify \/ WriteDolphinEnvoyConfig \/ WriteService
    \/ ListShared \/ WriteShared \/ (\E kind \in Kinds : DeleteDedicated(kind))
    \/ UpdateStatus \/ ClearStatus

-----------------------------------------------------------------------------
(* Informer and process *)

Stop == up' = FALSE /\ work' = Idle /\ queue' = {}

\* The informer brings the newest revision; the predicate runs in its goroutine,
\* where a panic ends the process.
Deliver(i) ==
    /\ up /\ seen[i] < Len(api[i])
    /\ seen' = [seen EXCEPT ![i] = Len(api[i])]
    /\ IF PredicatePanics(Cached(i), Newest(i), seenDefault) THEN Stop
       ELSE /\ queue' = IF Relevant(Cached(i), Newest(i), seenDefault) THEN queue \cup {i} ELSE queue
            /\ UNCHANGED <<up, work>>
    /\ UNCHANGED <<world, published, seenDefault, upsets>>

\* forDolphinIngressClass, withDefaultIngressClassAnnotation.
DeliverClass ==
    /\ up /\ seenDefault # isDefault
    /\ seenDefault' = isDefault
    /\ queue' = queue \cup ClasslessRequests
    /\ UNCHANGED <<world, published, seen, up, work, upsets>>

Upset == upsets < MaxUpsets /\ upsets' = upsets + 1

\* A call fails, before or after it took effect: the next step is not reached.
Fault ==
    /\ Upset /\ up /\ work.pc # "idle"
    /\ FailRequest
    /\ UNCHANGED <<world, published, caches, up>>

Crash == Upset /\ up /\ Stop /\ UNCHANGED <<world, published, caches>>

Restart ==
    /\ ~up /\ \A i \in Ingresses : ~Panics(Newest(i))
    /\ up' = TRUE
    /\ seen' = [i \in Ingresses |-> Len(api[i])]
    /\ seenDefault' = isDefault
    /\ queue' = InitialRequests(isDefault)
    /\ UNCHANGED <<world, published, work, upsets>>

-----------------------------------------------------------------------------
(* Users and the cluster *)

NewRevision(i, r) ==
    /\ Newest(i).phase = "absent" => r.phase = "live" /\ i \notin doomed
    /\ Newest(i).phase = "deleting" => r.phase = "absent"
    /\ r # Newest(i)
    /\ api' = [api EXCEPT ![i] = Append(@, r)]
    /\ UNCHANGED <<isDefault, doomed, sharedLB, published, caches, up, queue, work>>

Revise(i) == Upset /\ \E r \in Revisions : NewRevision(i, r)

ToggleDefault ==
    /\ Upset
    /\ isDefault' = ~isDefault
    /\ UNCHANGED <<api, doomed, sharedLB, published, caches, up, queue, work>>

TerminateNamespace(i) ==
    /\ Upset
    /\ i \notin doomed /\ Newest(i).phase # "absent"
    /\ doomed' = doomed \cup {i}
    /\ UNCHANGED <<api, isDefault, sharedLB, published, caches, up, queue, work>>

\* The namespace controller removes the Ingress ...
RemoveDoomed(i) ==
    /\ i \in doomed
    /\ \E r \in Revisions : r.phase = "absent" /\ NewRevision(i, r)
    /\ UNCHANGED upsets

\* ... and what is left of the Service and Endpoints.
FinishNamespace(i) ==
    /\ i \in doomed /\ Newest(i).phase = "absent" /\ decs[i] = 0
    /\ doomed' = doomed \ {i}
    /\ svc' = [svc EXCEPT ![i] = "none"]
    /\ UNCHANGED <<api, isDefault, sharedLB, decs, shared, addr, caches, up, queue, work, upsets>>

\* The owner of the configuration is gone: the Ingress it was built from was
\* deleted, even if another of its name was created since.
Orphaned(i) ==
    /\ decs[i] # 0 /\ EnqueueOwner("dec", i) # {}
    /\ \E k \in decs[i]..Len(api[i]) : api[i][k].phase = "absent"

\* The garbage collector.
Collect(i) ==
    /\ Orphaned(i)
    /\ decs' = [decs EXCEPT ![i] = 0]
    /\ queue' = IF up THEN queue \cup EnqueueOwner("dec", i) ELSE queue
    /\ UNCHANGED <<world, svc, shared, addr, caches, up, work, upsets>>

\* The load balancer gives a Service its address.
AssignDedicated(i) ==
    /\ svc[i] = "pending"
    /\ svc' = [svc EXCEPT ![i] = "assigned"]
    /\ queue' = IF up THEN queue \cup EnqueueOwner("svc", i) ELSE queue
    /\ UNCHANGED <<world, decs, shared, addr, caches, up, work, upsets>>

AssignShared ==
    /\ sharedLB = "pending"
    /\ sharedLB' = "assigned"
    /\ IF up /\ \E i \in Ingresses : Panics(Cached(i)) THEN Stop
       ELSE /\ queue' = IF up THEN queue \cup SharedRequests ELSE queue
            /\ UNCHANGED <<up, work>>
    /\ UNCHANGED <<api, isDefault, doomed, published, caches, upsets>>

\* Somebody empties or deletes the shared configuration.
Drift ==
    /\ Upset /\ shared # Nothing
    /\ shared' = Nothing
    /\ queue' = IF up THEN queue \cup {Pseudo} ELSE queue
    /\ UNCHANGED <<world, decs, svc, addr, caches, up, work>>

Cluster ==
    \/ \E i \in Ingresses : \/ Revise(i)
                            \/ TerminateNamespace(i) \/ RemoveDoomed(i) \/ FinishNamespace(i)
                            \/ Collect(i) \/ AssignDedicated(i)
    \/ ToggleDefault \/ AssignShared \/ Drift

Next ==
    \/ \E r \in Ingresses \cup {Pseudo} : Start(r)
    \/ Work
    \/ \E i \in Ingresses : Deliver(i)
    \/ DeliverClass \/ Fault \/ Crash \/ Restart
    \/ Cluster

Spec == Init /\ [][Next]_vars

\* The worker runs while there is work, and the work queue is FIFO, so no
\* request waits for ever; watches deliver; a crashed process is restarted; the
\* garbage collector, the namespace controller and the load balancer get to
\* their objects.
FairSpec ==
    /\ Spec
    /\ \A r \in Ingresses \cup {Pseudo} : SF_vars(Start(r))
    /\ WF_vars(Work)
    /\ WF_vars(DeliverClass) /\ WF_vars(Restart) /\ WF_vars(AssignShared)
    /\ \A i \in Ingresses : /\ WF_vars(Deliver(i)) /\ WF_vars(Collect(i))
                            /\ WF_vars(RemoveDoomed(i)) /\ WF_vars(FinishNamespace(i))
                            /\ WF_vars(AssignDedicated(i))

-----------------------------------------------------------------------------
(* Properties *)

\* Every variable stays in its domain: a published or cached revision exists,
\* and the worker's request, revision and branch are ones Reconcile can have.
TypeOK ==
    /\ api \in [Ingresses -> Seq(Revisions)]
    /\ isDefault \in BOOLEAN /\ seenDefault \in BOOLEAN /\ up \in BOOLEAN
    /\ doomed \subseteq Ingresses
    /\ sharedLB \in {"none", "pending", "assigned"}
    /\ addr \in [Ingresses -> {"none", "dedicated", "shared"}]
    /\ svc \in [Ingresses -> {"none", "pending", "assigned"}]
    /\ decs \in [Ingresses -> Nat] /\ shared \in [Ingresses -> Nat] /\ seen \in [Ingresses -> Nat]
    /\ queue \subseteq Ingresses \cup {Pseudo}
    /\ work \in [pc : PCs, req : Ingresses \cup {Pseudo}, rev : Nat, mode : Modes,
                 want : [Ingresses -> Nat], left : SUBSET Kinds]
    /\ upsets \in Nat

\* What the newest revision of i asks for.
WantsShared(i)    == InSharedModel(Newest(i), isDefault)
WantsDedicated(i) == /\ Newest(i).phase = "live"
                     /\ isdolphinManagedIngress(Newest(i), isDefault)
                     /\ isEffectiveLoadbalancerModeDedicated(Newest(i))

\* An Ingress that names no class at all: the operator crashes until it is gone.
Blocked == \E i \in Ingresses : Panics(Newest(i))

\* A revision from which the controller can lose an Ingress that then leaves its
\* class.  One being deleted is not reconciled, and when it is gone the predicate
\* sees only its last class.  One without an explicit class is judged when
\* Reconcile gets there, by the IngressClass of that moment.
Slippery(r) == (r.phase = "deleting" /\ r.class # "dolphin") \/ (r.phase = "live" /\ r.class = "empty")

LostTrack(i) ==
    /\ Newest(i).phase = "absent" \/ ~isdolphinManagedIngress(Newest(i), isDefault)
    /\ \E k \in 1 .. (Len(api[i]) - 1) : Slippery(api[i][k])

\* Reconcile does not touch what an Ingress that is being deleted has published.
Current(i) ==
    \/ Newest(i).phase = "deleting" \/ LostTrack(i)
    \/ /\ decs[i] = IF WantsDedicated(i) THEN Len(api[i]) ELSE 0
       /\ shared[i] = IF WantsShared(i) THEN Len(api[i]) ELSE 0

\* A reconciliation of i is under way, or something that brings one.
Coming(i) ==
    \/ ~up \/ seenDefault # isDefault \/ seen[i] # Len(api[i])
    \/ i \in queue \/ (work.pc # "idle" /\ work.req = i)

\* An Ingress that is to be served and is not published at its newest revision,
\* in the mode this revision asks for, has a reconciliation coming (in shared mode
\* that of the pseudo Ingress will do): a switch of modes, another Ingress's
\* rebuild of the shared configuration, an aborted write or a crash never leave it
\* behind.  Only a namespace that is being deleted keeps it from being created.
NoForgottenGap ==
    \A i \in Ingresses :
      /\ WantsDedicated(i) /\ decs[i] # Len(api[i]) => Coming(i) \/ i \in doomed
      /\ WantsShared(i) /\ shared[i] # Len(api[i]) =>
            Coming(i) \/ Pseudo \in queue \/ (work.pc # "idle" /\ work.req = Pseudo)

\* When the controller and the garbage collector have nothing left to do, each
\* Ingress is published in the mode its newest revision asks for, at that
\* revision, and in no other.
QuiescentCurrent ==
    up /\ work.pc = "idle" /\ queue = {} /\ seenDefault = isDefault
      /\ (\A i \in Ingresses : seen[i] = Len(api[i]) /\ i \notin doomed /\ ~Orphaned(i))
      => \A i \in Ingresses : Current(i)

\* Building the resources of a dedicated Ingress without listeners always fails.
Unbuildable(i) == WantsDedicated(i) /\ Newest(i).empty

\* Once users and faults stop, the configurations become and stay current, of
\* every Ingress that can be built, unless the operator cannot run at all.
ConfigSettles == \A i \in Ingresses : <>[](Unbuildable(i) \/ Blocked \/ Current(i))

\* Once users and faults stop, an Ingress in shared mode carries the address of
\* the shared Service.
SharedStatusSettles ==
    \A i \in Ingresses : <>[](WantsShared(i) /\ sharedLB = "assigned" => addr[i] = "shared" \/ Blocked)

\* The published configurations behave as IngressPublication promises.
Publication ==
    INSTANCE IngressPublication WITH history <- api, dedicated <- decs, shared <- shared
ImplementsPublication == Publication!Spec
=============================================================================
