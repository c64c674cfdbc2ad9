# A TLA+ model of the dolphin operator

This directory holds TLA+ modules that model the operator in `src/`, TLC
configurations that check them on small instances, and proofs checked by TLAPS.
Every definition is a translation of source lines; `PROJECT.json` names them
(`map`), together with the components, runs, mutants, findings, hazards and
theorems.

## 1. The system and its parts

The operator is a Go process built from hive cells (`cmd/root.go`). Some cells
run in every replica (API server, log controller), the others only in the
replica that is elected leader: the controller-runtime manager with the Gateway
API, Ingress and DolphinEnvoyConfig reconcilers, and the garbage collectors.

| part | source | module |
|---|---|---|
| start, leader election, shutdown; API server | `cmd/root.go`, `cmd/lifecycle.go`, `api/server.go` | `OperatorLifecycle` |
| Gateway API start-up, CRD discovery | `pkg/gateway_api/cell.go` | `CRDDiscovery` |
| Gateway reconciler, its watches and status | `pkg/gateway_api/gateway*.go`, `controller.go`, `predicates/` | `GatewayReconcile` |
| ListenerSets, selection of routes | `gateway_reconcile.go`, `helpers.go`, `helpers/` | `ListenerAttachment` |
| BackendTLSPolicies | `helpers/backendtlspolicy.go`, `policychecks/`, `gateway_reconcile.go` | `BackendTLSPolicy` |
| statuses of HTTP, TCP, UDP, GRPC and TLS routes | `status_route.go`, `grpcroute*.go`, `tlsroute*.go`, `routechecker/`, `watch-handlers/` | `RouteStatus` |
| neutral model and ingestion | `pkg/model/`, `pkg/model/ingestion/` | `GatewayIngestion`, `IngressIngestion` |
| envoy translation | `pkg/model/translation/` | `EnvoyTranslator`, composed in `Translation` |
| Ingress reconciler | `pkg/ingress/` | `IngressReconcile`, its promise in `IngressPublication` |
| L7 load balancing of Services | `pkg/dolphinenvoyconfig/` | `EnvoyConfigReconcile` |
| manager | `pkg/controller-runtime/` | external; the `Restart` actions |
| the rest | | section 6 |

The parts interact through the API server and the informer caches of one
manager: the leader lifecycle starts the manager, the start-up decides which
reconcilers it runs, and the reconcilers read what users write and write
Services, Endpoints, statuses and envoy configurations.

Each component has its specification in a module of its own; `MC...` modules
give its constants small values for TLC, `...Proofs` modules hold its theorems.
A definition whose comment starts with "Mutant" is a faulty variant of the one
after it: replacing the latter by it makes TLC find a violation, which shows
that the property named in `PROJECT.json` is sensitive to that code. No
specification uses a mutant.

## 2. Modules

### GatewayReconcile

One Gateway, the objects derived from it, the caches, the work queue and the
single worker controller-runtime gives each controller. `pc` walks through
`gatewayReconciler.Reconcile`: a step ends at each API call that can fail or
that others can see.

| actions | code |
|---|---|
| `GetGateway`, `GetGatewayClass`, `GatherInputs`, `AcceptGateway` | steps 1 to 3 of `Reconcile` |
| `EnsureService`, `EnsureEndpoints`, `EnsureEnvoyConfig`, `EnsureCiliumEnvoyConfig` | the `ensure*` helpers (CreateOrPatch) |
| `DeleteEnvoyConfig`, `DeleteCiliumEnvoyConfig` | `deleteEnvoyConfigs`, for Gateways with UDP listeners only |
| `SetAddressStatus`, `UpdateStatus`, `HandleReconcileErrorWithStatus` | step 4 and the error path |
| `Sync*` | an informer catches up; the watch of `SetupWithManager` enqueues |
| `EditGateway` ... `Restart` | users, the cluster, restarts of the operator |

`orig` and `copy` are the code's `original`/`gw` and its deep copy: some error
paths mark the one and store the other. `fresh` and `wfresh` abstract resource
versions, of which only equality with the stored one matters.

Abstractions: a spec, a set of routes and an address are model values; routes
are split into `l7` (HTTP, GRPC) and `l4` (TLS, TCP, UDP) because they are
watched differently. `WithSets` are the specs with a valid ListenerSet attached,
which the status counts. Listener validation and the statuses of routes, policies
and ListenerSets are part of `GatherInputs` and `AcceptGateway` here; routes
and policies have modules of their own below. A cache jumps to the stored
object, so several changes can become one event: fewer events than in reality,
the harder case for "no event is lost". Cached reads fail only for missing
objects and missing CRDs. The GatewayClasses are read as they are stored;
`Class` names them and `Ours` those of this controller, one of which may be
created late. A Gateway is not created again under the same name. One Gateway
suffices because the worker handles one key at a time and shares no state
between keys. The long-name difference between the deleted and the created
envoy configuration is left out.

### OperatorLifecycle

Several replicas, each with the thread that runs the hive (`main`), the
goroutine in `runOperator` (`runner`), the goroutine in `OnStartedLeading`
(`starter`), the mutex of the leader lifecycle, and the Lease. The hive and
client-go's elector are external. `lost` and `late` record that the Lease could
not be renewed and that the cells were started after `llc.Stop`. A process that
ends while it holds the Lease leaves an `Orphan` that expires, because the
identity in the Lease is random per process. Time is abstracted: the elector
stops at RenewDeadline (10s), before LeaseDuration (15s) lets another replica in.

### CRDDiscovery

The preconditions and `initGatewayAPIController`, one step per Get. Joined
errors are reduced to what `isTransientError` can tell: the first API status
among them and whether there is a network errno. A call fails with any error:
one `isTransientError` knows, another API status, or one that is neither.
`missing` and `unknown` record whether the current attempt was told that a
required CRD is not served, and whether it met an error that is not known. CRDs
are installed and upgraded, never removed.

### RouteStatus

The statuses of the routes of one kind per behaviour. HTTP, TCP and UDP routes
get theirs from the Gateway reconciler, which walks over all routes of the
cluster and stops at the first failed write; GRPC and TLS routes have
reconcilers of their own. `api` and `seen` are the stored and the cached
objects, `behind` the routes of which the cache does not have the latest version,
`work` the request in progress with the routes still to do and those among them
(`fresh`) whose listed version is still the stored one. Versions are kept apart
from contents: a route edited back to what it was is a new version, conflicts
with a write and is an event.

| actions | code |
|---|---|
| `Start`, `SetRouteStatus` | `Reconcile`, `setHTTPRouteStatuses` and its siblings: compute the status (`Computed`), compare, write under the resource version |
| `ServiceLookupFails`, `Fault` | the error paths, and any other failing call |
| `Deliver*` | informers and the watch handlers (`RequestsFor*`) |
| `Edit*`, `DeleteRoute`, `TheyWrite`, `Restart` | users, another controller with Gateways of its own, the process |

The checks (`CheckGateway...`, `CheckBackend...`, the validators) are operators
that follow the code's ladders, early returns included. A condition is its
reason and generation; messages and transition times are left out, and so is
everything of a Gateway but its class, namespace and listeners. The other
controller writes conditions of its own wording (`"Theirs"`), withdraws the
entries of parents that are gone and restores an entry of its own that this
controller overwrote (`TheirStatus`), so the two can fight over a status.

### ListenerAttachment, GatewayIngestion, IngressIngestion, EnvoyTranslator

Pure functions, one operator per function of the source: which ListenerSets are
merged and which routes selected (`IngestionInput`), how they become the neutral
model (`GatewayAPI`, `Ingress`), and how the model becomes listeners, filter
chains, virtual hosts, routes and clusters. `EnvoyTranslator` also says how
Envoy reads these resources (host and route selection), so that the properties
can be about requests. Hostnames and paths are sequences of labels and segments;
header and query matchers are opaque; an HTTP match has no method, because the
ingestion drops it. Header filters, host rewrites, timeouts
and the protobuf encoding, which are copied through, are left out.

### BackendTLSPolicy

The lookup map that resolves conflicts, the validation, and the loop that writes
the statuses.

| actions | code |
|---|---|
| `ListPolicies` | the cached list at the start of the policy part of `Reconcile` |
| `BuildBackendTLSPolicyLookup` | one target of one policy is added to the map (`ReadTarget`) |
| `VisitService`, `VisitFails` | one round of the loop up to the Get of the Service |
| `MarkSection`, `ValidationFails`, `MarkLoser` | one policy of that Service: check, compare, write |
| `PassEnds` | the reconcile returns; a failed one is repeated |
| `SyncPolicy`, `ChangeService` | the informer catches up; a targeted Service comes or goes |

Lists and Go maps are visited in any order, and the cluster may change between
any two steps. A status is written with the resource version of the listed
object, so a second, different write to the same policy in one reconcile is
refused (`listed.stale`). Any read may fail, and so may a write, before or after
it has its effect. `pass.lagging` and `pass.upset` record that the list was
older than the stored statuses and that a call failed or an object changed
during the reconcile: the reasons why its outcome may not describe the cluster.
`PolicySpec` is this machine by itself.

### Translation

The composition of the four modules above with `BackendTLSPolicy`: a Gateway
reconcile from its inputs (`IngestGateway`) through the policy statuses
(`SetBackendTLSPolicyStatuses`) to the configuration (`TranslateModel`), and the
same for a dedicated Ingress. The properties compare the configuration with
reference definitions of what the routes say of each request.

### IngressReconcile and IngressPublication

The Ingress controller: revisions of each Ingress, the informer and its
predicate, the queue, one worker whose steps end at each API call (`Start`,
`Classify`, `WriteDolphinEnvoyConfig`, `WriteService`, `ListShared`,
`WriteShared`, `DeleteDedicated`, `UpdateStatus`, `ClearStatus`), the IngressClass, the
shared load balancer, terminating namespaces, the garbage collector, crashes. An
Ingress without any class makes the predicate panic (`Panics`).

`IngressPublication` is the promise, without queues, caches and steps: what is
published for an Ingress is a revision that asked for that mode, never an older
one than before, and its own configuration goes only after a revision that is at
least as new stopped asking for it. `IngressReconcile` implements it under the
mapping `history <- api, dedicated <- decs, shared <- shared`.

### EnvoyConfigReconcile

The controller that keeps a configuration for each Service annotated for L7 load
balancing: the two caches, the worker between its read and its write, Services
deleted and created again under a new uid, foreign writes, the garbage
collector. Of a configuration the policy of its cluster and its owner are kept.

## 3. Runs

| run | checks | shows |
|---|---|---|
| GatewayFaults | WorkerInv, QuiescentConverged, ProgrammedMeansApplied, NoEffectBeforeAcceptance, StatusDescribesSpec | edits, class changes, deletion, failed calls and restarts lose no event; stored statuses are true |
| GatewayInputs | QuiescentConverged, NoEffectBeforeAcceptance | route and address changes are taken up; a late class has no effect before it exists |
| GatewayLiveness | Quiesces, EventuallyProgrammed | the controller comes to rest, except over a Gateway with a ListenerSet attached, which it reconciles without end; either Gateway is programmed |
| Leader | ElectionInv, LeaderHoldsLease, EventuallyLed, StopTerminates | leader-scoped cells run under the Lease, but for two named races; a leader emerges once faults end; shutdowns end |
| CRDStartup | RegisteredServed, DisabledOnlyIfMissing, Settles | what is registered is served; only a CRD that is not served, or an error that is not known, disables the Gateway API; the start-up ends |
| Translation | ClustersComplete, NoNilRoute, MostSpecificServes, SplitPreserved, OnlyAdmittedRoutes, RewriteKeepsRest, PassthroughFaithful, OwnerIsGateway | the configuration of a Gateway serves each request as its routes say |
| | IngressHostServed, HTTPSEnforced | the same for a dedicated Ingress |
| | OldestPolicyWins, PolicyVerdictStored, PoliciesBlockOnlyMixed | policy precedence and statuses do not depend on list or map order; a policy stops the reconcile only if its targets disagree |
| Ingress | NoForgottenGap, QuiescentCurrent, ImplementsPublication | switching modes, classes and default class with failures and crashes |
| IngressLiveness | ConfigSettles, SharedStatusSettles | configurations and shared addresses settle |
| RouteStatus | TypeOK, QuiescentStatus, ForeignKept | no watched status stays stale; no entry of another controller is lost |
| RouteLiveness | QueueDrains | status writes do not keep the reconcilers going, but for unresolvable GRPC routes and routes over which another controller fights |
| EnvoyConfig | QuiescentSettled, EventuallySettled | L7 configurations end as the Service asks |
| GatewayNoListenerSetCRD | OptionalCRDOptional (violated) | without the optional CRD every reconcile of a Gateway fails; `cell.go:176` treats it as optional |

Type invariants that section 4 proves for every value of the constants are not
checked again, except that of `RouteStatus`, which also says which objects a
request may name and what a status is made of. `GatewayFaults` has 2,080,695
distinct states, `Ingress` 1,676,570, `RouteStatus` 877,214, `Translation` 349,204.

Deadlock is not checked: the controllers and a finished start-up rest when
nothing is left to do, and users owe no further edits.

**Bounds.** In `GatewayReconcile`, `MaxGen` (1 or 2 generations) lets the spec
change while a reconcile works on the previous one; `MaxEdits` and `MaxFaults`
let a change or failure hit any step. In the other controllers `MaxUpsets` (2 to
4) counts edits, faults, foreign writes and restarts together: two are enough
for a change during the reconcile of another, three for a failure on top, four
for a Service that is replaced while its configuration is tampered with.
Configurations cover a normal, a UDP-only and a listener-less spec in
`GatewayFaults`, and specs with and without an attached ListenerSet in
`GatewayLiveness`. Two replicas
and two hooks give every handover and every half-started state. Two required
kinds and one optional kind give every mixture of joined errors. Two Ingresses
let the rebuild of the shared configuration for one meet the switch of the
other; two routes let one failed write leave another route behind; two Gateways
are one of this and one of another controller. `Translation` enumerates inputs
rather than steps: overlapping hosts (exact and wildcard at two depths), paths
that are prefixes of each other, weights unset, zero and positive, references
that are not granted or not there, own and merged listeners. Its policies have
up to two targets each, on two Services and two sections, and `MaxPasses = 2`
lets a reconcile meet the leftovers of a failed one, with one failed call or
changed Service (`MaxUpsets = 1`) at any step of either. The theorems of section
4 hold without these bounds.

**Symmetry** is used where only safety is checked and the names are
interchangeable: routes and addresses in `GatewayInputs`, Ingresses in
`Ingress`, route names in `RouteStatus`.

**Fairness.** The workers, the goroutines and the informers are weakly fair, each
informer by itself: controller-runtime retries with backoff and Go schedules
runnable goroutines. The other controller of `RouteStatus` owes nothing.
Address assignment, garbage collection, the namespace controller, expiry of
Leases and restart of an ended process are weakly fair because the cluster
provides them. Users, faults, timeouts and crashes are not fair; their budget is
finite, which says that outages and edits end.

## 4. Proofs

Proved by TLAPS for every value of the constants that satisfies the named
assumptions (`None`, `Pseudo` and the Lease markers are not data, bounds are
naturals, sets of classes, specs and revisions are as declared, the policies of
an input are ones the API server admits).

* `GatewayReconcileProofs`: `TypeCorrect`, `WorkerCorrect`, `Convergence`,
  `VersionsOrdered`, `StatusSound`, `ProgrammedSound`, `BarredLeftAlone`.
  `QuiescentConverged` only speaks of a controller at rest and is not inductive.
  `WorkerInv` says for each `pc` what has been decided and applied, provided no
  event is outstanding (`Steady`), and relative to the caches: a change that is
  undone before the cache sees it is never seen. `VersionInv` orders the generations of the worker's copy,
  the cache and the API server; with it the resourceVersion guard of
  `updateStatus` gives `StatusDescribesSpec`. `AppliedInv` adds, for a copy whose
  write would be accepted, which objects already have its content. `BarredInv`
  says how far the worker of a barred Gateway can have come.
* `OperatorLifecycleProofs`: `LifecycleTypeCorrect`, `ElectionCorrect`,
  `LeadershipSound`. `ElectionInv` relates the Lease to the elector, the context
  to the shutdown and the mutex to the two goroutines; a replica that neither
  lost its Lease nor started late can only run cells while its elector renews.
* `CRDDiscoveryProofs`: `TypeCorrect`, `OnlyServedRegistered`,
  `DisablingJustified`. `CheckedInv` says that the kinds before the current
  position were found at the version in question, which stays true because CRDs
  are only installed and upgraded; `OutageInv` follows the class of the joined
  error through the retries: until the context ends, the error of an attempt that
  met neither a missing CRD nor an unknown error is one worth a retry.
* `EnvoyConfigProofs`: `TypeCorrect`, `QuiescentIsSettled`. `VersionInv` relates
  the stored configuration to the versions still to be delivered, `WorkerInv`
  says what the worker's copies are, `RestInv` that a configuration differing
  from the desired one has a request, event or collection outstanding.
* `IngressReconcileProofs`: `TypeCorrect`, the refinement `Implements`,
  `NothingForgotten` and `QuiescentIsCurrent`. The mapping is a step simulation that needs `RefInv`: cached revisions are not
  newer than the stored ones and nothing published is newer than the cache
  (`SeenInv`), the worker's copy is the cached revision or an older one that
  classifies as its mode says (`ReadInv`), and the list it read for the shared
  configuration replaces no publication by an older revision (`ListInv`).

  For the two invariants `TrackInv` says of each Ingress, relative to what the
  cache shows of it: its configuration is the wanted one, or the worker has yet to
  write or delete it (`DecOK`); the shared configuration has it as wanted, or will
  be rebuilt (`SharedOK`); a list the worker took is still right unless the Ingress
  is queued again (`WantOK`); and the branch of `Reconcile` the worker is in fits
  the cached revision (`WorkOK`). Each may be waived while the Ingress is queued,
  which is why a failure or a crash between two writes does no harm.
* `RouteStatusProofs`: `RequestsWellFormed`, `OthersKept`, `StatusUpToDate`. The
  first includes the statuses: stored, cached or listed, they consist of entries
  for parents that some specification names. The lemmas start from what a filtered sequence holds
  (`SeqFilter` defines the filter by the rank of a position, so that no induction
  is needed), and then say of each stage of the computation which entries it
  keeps, adds and changes: merging, the common checks, the validators, pruning.
  `Sound` relates the cache and the worker's list to the stored versions; with it
  no write based on a superseded version is accepted, which gives `OthersKept`.
  `Settled` says of each route that is not behind: recomputing its status from the
  cache changes nothing, or a request that reaches it is queued or in progress.
  For HTTP routes, whose entries come from several Gateways, this has to be said
  per Gateway: once one Gateway is done the status is right for all that are done
  (`HTTPSettled`). It is kept when a Gateway leaves this controller, which brings
  no request, because the computation leaves entries of parents that no longer
  match alone (`FewerMatches`), and when one joins, which brings its own.
* `BackendTLSPolicyProofs`: `OldestPolicyWinsAlways`, `PolicyVerdictStoredAlways`
  and `PoliciesBlockOnlyMixedAlways`, all from `PolicyInvariant`, for any number
  of policies, targets, Services, sections, reconciles and disturbances. The only
  assumption is `Admitted`: every policy has a target, and no two have the same
  name. `OldestPolicyWins` speaks of the finished map. `BuildInv` says it of the
  targets read so far (`Added`), and `Upsert` that adding a target keeps it:
  whoever is displaced stays outranked, because `Outranks` is a strict total
  order (`Order`). A failed check moves a policy from Valid to Invalid, which
  keeps the holder of its slot; `LoopInv` says that this touches no Service still
  to come. `CalmInv` carries the other two properties. In a reconcile with an
  up-to-date list the loop sees what is stored; if nothing disturbs it, every
  policy it has written or confirmed, and every policy at a target it has been
  at, has the status one of its targets asks for (`Fine`). It must speak of the
  whole status and not only of Accepted: whether a write is skipped or refused is
  decided by comparing both conditions. A refused write meets a policy that is
  `Fine` and asks for something else, so two of its targets disagree
  (`SameVerdict`), which is `PoliciesBlockOnlyMixed`.
* `TranslationProofs`: `ImplementsPolicies`, the behaviours of the pipelines are
  behaviours of `PolicySpec`, and with it `PoliciesOfReconcile`, the three results
  for the specification the `Translation` run checks.

The proof modules name Zenon as their default prover where that is faster and
cite `SMT` at the leaves that need arithmetic, records or sequences; the time
limits given (`ZenonT`, `SMTT`) leave room for a slow machine. Definitions
a proof expands use IF and disjunctions rather than CASE, whose translation for
the SMT backend cannot be relied on when two of them are compared.

Only model-checked: liveness (fairness and ENABLED are out of the prover's
reach), and the properties of the configuration that `Translation` computes (its
stages are folds and sorts of sequences, and what they compute for every input
needs induction over data).

## 5. Where the code and its statements differ

Met while modelling; the models do what the code does. The first is a run; the
others are built into the models, and the comment of a property they would break
says so.

* Without the optional ListenerSet CRD every Gateway reconcile fails
  (`gateway_reconcile.go:331`, `cell.go:176`).
* A GatewayClass created after its Gateway triggers nothing (`gateway.go:87`); a
  Gateway that changes its class keeps its objects (`predicates/gateway.go:34`);
  changes of TLS, TCP and UDP routes reach no Gateway (`gateway.go:201`).
* In local mode the cancel function is nil at shutdown (`cmd/root.go:359`).
* One failed call of the second CRD check leaves the Gateway API off
  (`cell.go:113`, `cell.go:368`). During discovery a call that fails with an error
  `isTransientError` does not know (an internal error, a broken connection, a
  failed name lookup) passes for a missing CRD and disables the Gateway API
  (`cell.go:144`, `cell.go:290`), which `cell.go:103` says of CRDs that are
  "permanently missing"; `DisabledOnlyIfMissing` names it (`unknown`).
* The number of attached ListenerSets is set in the original Gateway and not in
  the copy that is stored (`gateway_reconcile.go:827`, `:936`). With a ListenerSet
  attached the two statuses always differ, each reconcile writes a status with new
  transition times, and that write triggers the next one; `Quiesces` excepts these
  Gateways (`WithSets`), and those without any listener, which are retried for ever.
* `ComputeHosts` is documented as an intersection (`pkg/model/helper.go:50`) but
  drops a route's wildcard that is wider than the listener's, such as `*.com` on a
  listener for `*.a.com` (`helper.go:82`). `MatchedHosts` is what it computes.
* The method of an HTTPRoute match is not taken over by `toHTTPRoutes`
  (`ingestion/gateway.go:770`), although the model and the translation have a place
  for it: such a match serves every method. Neither the model nor the reference
  definitions of `Translation` have methods.
* ListenerSets are taken whatever Gateway they name; the check for conflicting
  listeners is not called (`gateway_reconcile.go:592`, `:1528`).
* A BackendTLSPolicy for all sections does not conflict with one for a named
  section, although the comment says it "will conflict with any other section
  name" (`helpers/backendtlspolicy.go:40`): the map is keyed by the names as they
  are, and `OldestPolicyWins` speaks of each name by itself. Under a missing
  Service the holder of a section gets the reason Invalid, where the comment asks
  for "Accepted: False, with reason Conflicted" (`gateway_reconcile.go:1932`);
  `PolicyVerdictStored` expects what the code sets (`TargetMissing`). Policies
  whose targets disagree may stop the reconcile of the Gateway; an accepted policy
  has no effect on the configuration; its events enqueue nothing.
* A GRPC route whose backend cannot be resolved is retried without end. The GRPC
  and TLS reconcilers set the conditions of every parent, and the validators those
  of every entry of an invalid HTTP route, whoever wrote the entry
  (`grpcroute.go:156`, `status_route.go:206`): a controller that restores its own
  entries fights with this one without end. `QueueDrains` excepts both
  (`Unresolvable`, `Contested`). GRPC and TLS routes look a parent up by name whatever its kind (`grpcroute.go:97`), while
  the events of Gateways are matched to references of kind Gateway only: a route
  that refers to a Gateway under another kind is not refreshed (`Watched`).
* Service and Endpoints of a deleted dedicated Ingress stay, because their owner
  reference has the wrong group (`dedicated_ingress.go:118`); an Ingress with
  neither class nor annotation ends the process (`ingress/helpers.go:17`); over
  HTTPS a default backend hides the rules of a TLS host (`ingestion/ingress.go:196`).
* The controller loses track of an Ingress in two ways (`LostTrack`). One that
  leaves the class and is marked for deletion before its reconciliation is skipped
  (`ingress_reconcile.go:59`), and the predicate of the delete event sees only its
  last class (`ingress.go:282`), so its entry in the shared configuration stays.
  And one with an empty class, read while the IngressClass is not the default, may
  change its class while the default mark comes back: the branch taken is the one
  for the earlier moment, and no event follows.

## 6. Not modelled

* GatewayClass reconciler: patches a constant status that nothing else reads.
* Statuses of single listeners and of ListenerSets: failed updates are only
  logged and nothing reads the result.
* Endpoint garbage collector: its stores are never set; a periodic run ends in a
  nil dereference, a single run deletes what it lists.
* Identity watcher and SPIRE client: the cell is commented out of the operator.
* Log controller: its setting is never enabled.
* Identity GC, BGP, IPAM and endpoint slices: stubs in the source.
* Secrets, Nodes, ServiceImports and namespace labels as watched objects.
* Protobuf and annotation layout, header filters, timeouts, socket options,
  logging, metrics, option parsing and the diagnostics of the Gateway API cells.
  The reconciler that would synchronise secrets is not in the repository;
  `registerSecretSync` has no consumer.
