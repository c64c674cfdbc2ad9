--------------------------- MODULE BackendTLSPolicy ---------------------------
(***************************************************************************)
(* The BackendTLSPolicy part of a Gateway reconcile: the lookup map that   *)
(* resolves conflicts between policies (helpers/backendtlspolicy.go), the  *)
(* checks of one policy (policychecks/backendtlspolicy.go) and the loop    *)
(* that writes the statuses (setBackendTLSPolicyStatuses).                 *)
(*                                                                         *)
(* The map is built target by target and visited policy by policy, in the  *)
(* arbitrary orders of the listed policies and of Go's maps; the cluster   *)
(* may change between any two of these steps.  A status is written with    *)
(* the resourceVersion of the listed object, which the loop does not       *)
(* refresh after its own write: a second, different write to the same      *)
(* policy is refused and ends the reconcile.  Only the entry of this       *)
(* Gateway among a policy's ancestors is kept; the others are not touched. *)
(***************************************************************************)
EXTENDS Integers, Sequences

CONSTANTS Nil,            \* no object
          PolicyService,  \* the Services policies may target
          Section,        \* the sections of Services they name; "" for all
          MaxPasses,      \* bound on the reconciles
          MaxUpsets       \* bound on changed Services and failed calls

VARIABLES policies,   \* name -> [created, rank, targets, ca]; rank orders the names
          attached,   \* does an HTTPRoute of this Gateway exist?
          authz,      \* Services its ExternalAuth filters name
          services,   \* the targeted Services that exist
          stored,     \* name -> status in the API server
          cached,     \* name -> status in the informer's cache
          behind,     \* the policies whose cached copy is older than the stored one
          pass,       \* the worker: its number, pc (idle, build, visit, done, failed),
                      \* and why it may differ from an undisturbed one
          reading,    \* the policies not yet in the map, the current one, its next target
          lookup,     \* the lookup map
          visit,      \* the loop over it
          listed,     \* the listed objects: their statuses, and those with an
                      \* outdated resourceVersion
          upsets      \* number of changes and failures so far

passVars == <<pass, reading, lookup, visit, listed>>
policyVars == <<policies, attached, authz, services, stored, cached, behind, passVars, upsets>>

\* A Service and a section of it.
Slot == PolicyService \X Section

\* A condition; about and what stand for its message.
Condition(status, reason, about, what) ==
    [status |-> status, reason |-> reason, about |-> about, what |-> what]

NoCondition    == Condition(FALSE, "none", "none", Nil)
NoPolicyStatus == [accepted |-> NoCondition, resolved |-> NoCondition]
NoStatuses     == [p \in DOMAIN policies |-> NoPolicyStatus]

NoPass    == [n |-> 0, pc |-> "idle", lagging |-> FALSE, upset |-> FALSE]
NoReading == [todo |-> {}, policy |-> Nil, at |-> 1]

\* BackendTLSPolicyServiceMap: the policy of each slot, Nil where a map has no
\* entry, and pairs of a Service and a policy.
NoLookup == [Valid |-> [s \in Slot |-> Nil], Invalid |-> [s \in Slot |-> Nil], Conflicted |-> {}]

\* Services to come; the current one, whether it was found, its sections and
\* conflicted policies to come; confirmedValidBTLSPs.
NoVisit == [pending |-> {}, service |-> Nil, exists |-> FALSE, left |-> {}, losers |-> {},
            confirmed |-> {}]

NoListed == [seen |-> NoStatuses, stale |-> {}]

\* What the API server admits: at least one target, and no name twice.
TargetRef == [kind : STRING, service : PolicyService, section : Section]

Admitted(ps) ==
    /\ Nil \notin DOMAIN ps
    /\ \A p \in DOMAIN ps : /\ ps[p].created \in Int /\ ps[p].rank \in Int
                           /\ ps[p].targets \in Seq(TargetRef) /\ ps[p].targets # <<>>
    /\ \A p, q \in DOMAIN ps : p # q => ps[p].rank # ps[q].rank

PolicyInit(ps, rt, az, svcs) ==
    /\ policies = ps /\ attached = rt /\ authz = az /\ services = svcs
    /\ stored = NoStatuses /\ cached = stored /\ behind = {}
    /\ pass = NoPass /\ reading = NoReading /\ lookup = NoLookup /\ visit = NoVisit
    /\ listed = NoListed /\ upsets = 0

-----------------------------------------------------------------------------
(* BuildBackendTLSPolicyLookup *)

IsServiceTargetRef(t) == t.kind = "Service"
SlotOf(t) == <<t.service, t.section>>

\* Mutant: a tie of the creation times is left to the order of the list.
OlderOnly(p, q) == policies[p].created < policies[q].created

\* Oldest first, then by name.
Precedes(p, q) ==
    \/ policies[p].created < policies[q].created
    \/ policies[p].created = policies[q].created /\ policies[p].rank < policies[q].rank

UpsertPolicy(m, s, p) ==
    LET q == m.Valid[s]
    IN  IF q = Nil THEN [m EXCEPT !.Valid[s] = p]
        ELSE IF p = q THEN m
        ELSE IF Precedes(p, q) THEN [m EXCEPT !.Valid[s] = p, !.Conflicted = @ \cup {<<s[1], q>>}]
        ELSE [m EXCEPT !.Conflicted = @ \cup {<<s[1], p>>}]

\* The Services that have an entry.
Entries(m) == {svc \in PolicyService : \E x \in Section : m.Valid[<<svc, x>>] # Nil}

\* The pass begins with the cached list; without policies there is nothing to do.
ListPolicies ==
    /\ pass.pc = "idle" /\ pass.n < MaxPasses
    /\ pass' = [n |-> pass.n + 1, pc |-> IF DOMAIN policies = {} THEN "done" ELSE "build",
                lagging |-> behind # {}, upset |-> FALSE]
    /\ reading' = [NoReading EXCEPT !.todo = DOMAIN policies]
    /\ lookup' = NoLookup /\ visit' = NoVisit
    /\ listed' = [seen |-> cached, stale |-> behind]
    /\ UNCHANGED <<policies, attached, authz, services, stored, cached, behind, upsets>>

\* The worker goes to pc; u: was it disturbed here?
PassAt(pc, u) == [pass EXCEPT !.pc = pc, !.upset = @ \/ u]

\* One target of one policy is added; the policies come in any order.
ReadTarget(p) ==
    LET t    == policies[p].targets[reading.at]
        last == reading.at = Len(policies[p].targets)
        rest == IF last THEN reading.todo \ {p} ELSE reading.todo
        m    == IF IsServiceTargetRef(t) THEN UpsertPolicy(lookup, SlotOf(t), p) ELSE lookup
    IN  /\ lookup' = m
        /\ reading' = [todo |-> rest, policy |-> IF last THEN Nil ELSE p,
                       at |-> IF last THEN 1 ELSE reading.at + 1]
        /\ IF rest # {} THEN UNCHANGED <<pass, visit>>
           ELSE /\ visit' = [NoVisit EXCEPT !.pending = Entries(m)]
                /\ pass' = PassAt(IF Entries(m) = {} THEN "done" ELSE "visit", FALSE)

BuildBackendTLSPolicyLookup ==
    /\ pass.pc = "build"
    /\ \E p \in IF reading.policy = Nil THEN reading.todo ELSE {reading.policy} : ReadTarget(p)
    /\ UNCHANGED <<policies, attached, authz, services, stored, cached, behind, listed, upsets>>

-----------------------------------------------------------------------------
(* One policy *)

\* ca: how the policy names its CA certificate, and what is found there.
HasConfigMapRef(ca) == ca \in {"good", "missing", "noKey", "notPEM"}
CAValid(ca)         == ca \in {"wellKnown", "good"}

AcceptedReason(ca) == IF ca \in {"both", "many"} THEN "Invalid" ELSE "NoValidCACertificate"
ResolvedReason(ca) == IF ca \in {"both", "many"} THEN "Invalid"
                      ELSE IF ca = "kind" THEN "InvalidKind" ELSE "InvalidCACertificateRef"

Accepted(ca) ==
    IF CAValid(ca)
    THEN [accepted |-> Condition(TRUE, "Accepted", "none", Nil),
          resolved |-> Condition(TRUE, "ResolvedRefs", "none", Nil)]
    ELSE [accepted |-> Condition(FALSE, AcceptedReason(ca), "ca", ca),
          resolved |-> Condition(FALSE, ResolvedReason(ca), "ca", ca)]

TargetMissing(svc) ==
    [accepted |-> Condition(FALSE, "Invalid", "target", svc),
     resolved |-> Condition(FALSE, "BackendNotFound", "target", svc)]

Conflicted == Condition(FALSE, "Conflicted", "none", Nil)

\* u: does this step disturb the reconcile?
Upset(u) == (u => upsets < MaxUpsets) /\ upsets' = IF u THEN upsets + 1 ELSE upsets

\* The loop goes on with v, or is over.
GoOn(v, u) ==
    /\ Upset(u)
    /\ visit' = v
    /\ pass' = PassAt(IF v.pending = {} /\ v.left = {} /\ v.losers = {} THEN "done" ELSE "visit", u)

\* The reconcile ends with an error.
Fail(u) == Upset(u) /\ pass' = PassAt("failed", u) /\ UNCHANGED visit

Unwritten == UNCHANGED <<stored, behind, listed>>

Write(p, new) ==
    /\ stored' = [stored EXCEPT ![p] = new]
    /\ behind' = behind \cup {p}
    /\ listed' = [seen |-> [listed.seen EXCEPT ![p] = new], stale |-> listed.stale \cup {p}]

\* Mutant: the status is written whether or not it changed.
UpdateAlways(p, new, v) ==
    \/ p \in listed.stale /\ Fail(FALSE) /\ Unwritten
    \/ p \notin listed.stale /\ GoOn(v, FALSE) /\ Write(p, new)

\* An unchanged status is not written; v is the loop after this policy.  The
\* call may fail, before or after it has its effect.
updateBackendTLSPolicyStatus(p, new, v) ==
    \/ new = listed.seen[p] /\ GoOn(v, FALSE) /\ Unwritten
    \/ new # listed.seen[p] /\ p \in listed.stale /\ Fail(FALSE) /\ Unwritten
    \/ new # listed.seen[p] /\ p \notin listed.stale /\ GoOn(v, FALSE) /\ Write(p, new)
    \/ new # listed.seen[p] /\ Fail(TRUE) /\ (Unwritten \/ (p \notin listed.stale /\ Write(p, new)))

-----------------------------------------------------------------------------
(* setBackendTLSPolicyStatuses *)

BetweenServices == pass.pc = "visit" /\ visit.left = {} /\ visit.losers = {}

SkipService(svc, u) == GoOn([visit EXCEPT !.pending = @ \ {svc}], u)

EnterService(svc, u) ==
    GoOn([pending   |-> visit.pending \ {svc},
          service   |-> svc,
          exists    |-> svc \in services,
          left      |-> {x \in Section : lookup.Valid[<<svc, x>>] # Nil},
          losers    |-> {p \in DOMAIN policies : <<svc, p>> \in lookup.Conflicted},
          confirmed |-> visit.confirmed], u)

\* The HTTPRoutes are listed again for each Service, but not narrowed to those
\* that use it: any route of the Gateway makes the policies its own.  Routes
\* that are gone by then (u) leave those that name the Service for ext_authz.
VisitService ==
    /\ BetweenServices
    /\ \E svc \in visit.pending, u \in BOOLEAN :
          /\ u => attached
          /\ IF attached /\ (u => svc \in authz) THEN EnterService(svc, u) ELSE SkipService(svc, u)
    /\ UNCHANGED <<policies, attached, authz, services, stored, cached, behind, reading, lookup, listed>>

\* A read fails, or a route has a new generation.
FailedRead ==
    /\ Fail(TRUE) /\ Unwritten
    /\ UNCHANGED <<policies, attached, authz, services, cached, reading, lookup>>

VisitFails == BetweenServices /\ visit.pending # {} /\ attached /\ FailedRead

\* The loop after section x, or after conflicted policy p.
AfterSection(x) == [visit EXCEPT !.left = @ \ {x}]
AfterLoser(p)   == [visit EXCEPT !.losers = @ \ {p}]

MarkMissing(p, x) ==
    \/ p \in visit.confirmed /\ GoOn(AfterSection(x), FALSE) /\ Unwritten
    \/ /\ p \notin visit.confirmed
       /\ updateBackendTLSPolicyStatus(p, TargetMissing(visit.service), AfterSection(x))

\* A policy that fails its checks moves from Valid to Invalid in this section.
MarkValidated(p, x) ==
    LET valid == CAValid(policies[p].ca)
        s     == <<visit.service, x>>
    IN  /\ lookup' = IF valid THEN lookup
                     ELSE [Valid      |-> [lookup.Valid EXCEPT ![s] = Nil],
                           Invalid    |-> [lookup.Invalid EXCEPT ![s] = p],
                           Conflicted |-> lookup.Conflicted]
        /\ updateBackendTLSPolicyStatus(p, Accepted(policies[p].ca),
             [AfterSection(x) EXCEPT !.confirmed = IF valid THEN @ \cup {p} ELSE @])

\* The policy that holds a section of the current Service.
MarkSection ==
    /\ pass.pc = "visit"
    /\ \E x \in visit.left :
         LET p == lookup.Valid[<<visit.service, x>>]
         IN  \/ visit.exists /\ MarkValidated(p, x)
             \/ ~visit.exists /\ MarkMissing(p, x) /\ UNCHANGED lookup
    /\ UNCHANGED <<policies, attached, authz, services, cached, reading>>

\* The ConfigMap of such a policy cannot be read.
ValidationFails ==
    /\ pass.pc = "visit" /\ visit.exists
    /\ \E x \in visit.left : HasConfigMapRef(policies[lookup.Valid[<<visit.service, x>>]].ca)
    /\ FailedRead

\* Mutant: the losers of a conflict keep the status they have.
MarkNothing(p) == GoOn(AfterLoser(p), FALSE) /\ Unwritten

\* Under a missing Service, a policy confirmed elsewhere keeps its status.
MarkConflicted(p) ==
    \/ ~visit.exists /\ p \in visit.confirmed /\ GoOn(AfterLoser(p), FALSE) /\ Unwritten
    \/ /\ visit.exists \/ p \notin visit.confirmed
       /\ updateBackendTLSPolicyStatus(
            p, [accepted |-> Conflicted, resolved |-> listed.seen[p].resolved], AfterLoser(p))

MarkLoser ==
    /\ pass.pc = "visit" /\ visit.left = {}
    /\ \E p \in visit.losers : MarkConflicted(p)
    /\ UNCHANGED <<policies, attached, authz, services, cached, reading, lookup>>

SetPolicyStatuses ==
    \/ ListPolicies \/ BuildBackendTLSPolicyLookup \/ VisitService \/ VisitFails
    \/ MarkSection \/ ValidationFails \/ MarkLoser

\* The next reconcile begins without the variables of the last one.
PassEnds ==
    /\ pass.pc \in {"done", "failed"}
    /\ pass' = [NoPass EXCEPT !.n = pass.n]
    /\ reading' = NoReading /\ lookup' = NoLookup /\ visit' = NoVisit /\ listed' = NoListed
    /\ UNCHANGED <<policies, attached, authz, services, stored, cached, behind, upsets>>

-----------------------------------------------------------------------------
(* The cluster *)

\* The informer sees the stored status.
SyncPolicy ==
    \E p \in behind :
       /\ cached' = [cached EXCEPT ![p] = stored[p]]
       /\ behind' = behind \ {p}
       /\ UNCHANGED <<policies, attached, authz, services, stored, passVars, upsets>>

\* A targeted Service is created or deleted.
ChangeService ==
    /\ DOMAIN policies # {} /\ Upset(TRUE)
    /\ \E svc \in PolicyService :
          services' = IF svc \in services THEN services \ {svc} ELSE services \cup {svc}
    /\ pass' = PassAt(pass.pc, TRUE)
    /\ UNCHANGED <<policies, attached, authz, stored, cached, behind, reading, lookup, visit, listed>>

PolicyNext == SetPolicyStatuses \/ PassEnds \/ SyncPolicy \/ ChangeService

\* The policies by themselves, whatever the rest of the reconcile does.
PolicySpec ==
    /\ Admitted(policies) /\ PolicyInit(policies, attached, authz, services)
    /\ [][PolicyNext]_policyVars

-----------------------------------------------------------------------------
Outranks(p, q) ==
    \/ policies[p].created < policies[q].created
    \/ policies[p].created = policies[q].created /\ policies[p].rank < policies[q].rank

ServiceTargets(p) ==
    {t \in {policies[p].targets[i] : i \in DOMAIN policies[p].targets} : IsServiceTargetRef(t)}

Targeting(s) == {p \in DOMAIN policies : \E t \in ServiceTargets(p) : SlotOf(t) = s}

\* The oldest policy of a slot, and among equally old ones the first by name.
Wins(p, s) == p \in Targeting(s) /\ \A q \in Targeting(s) \ {p} : Outranks(p, q)

Holder(m, s) == IF m.Valid[s] # Nil THEN m.Valid[s] ELSE m.Invalid[s]

\* What the targets of a policy, each looked at alone, say of its acceptance.
\* The winner of a slot of a missing Service is Invalid, with the reference
\* unresolved: the comment above that loop asks for the reason Conflicted
\* (gateway_reconcile.go:1932), the code sets PolicyReasonInvalid.
Verdict(p, t) ==
    IF ~Wins(p, SlotOf(t)) THEN Conflicted
    ELSE IF t.service \in services THEN Accepted(policies[p].ca).accepted
    ELSE TargetMissing(t.service).accepted

Verdicts(p) == {Verdict(p, t) : t \in ServiceTargets(p)}

\* Each slot is held by its winner, and exactly the others of the slot are
\* conflicted.
OldestHold ==
    /\ \A s \in Slot :
         /\ lookup.Valid[s] = Nil \/ lookup.Invalid[s] = Nil
         /\ Targeting(s) = {} => Holder(lookup, s) = Nil
         /\ Targeting(s) # {} => \E p \in Targeting(s) : Wins(p, s) /\ Holder(lookup, s) = p
    /\ \A svc \in PolicyService, p \in DOMAIN policies :
         <<svc, p>> \in lookup.Conflicted <=>
           \E x \in Section : p \in Targeting(<<svc, x>>) /\ ~Wins(p, <<svc, x>>)

\* For every order in which the cache lists the policies, each section name of
\* each Service goes to its oldest policy, and exactly the others that give the
\* same name are conflicted: the map is built by one pass that displaces earlier
\* choices.  Names are compared as they are.  The exception to the rule that an
\* empty name "will conflict with any other section name"
\* (helpers/backendtlspolicy.go:40) is every pair of policies of which one names
\* a section and the other none: neither is conflicted by the other, and both
\* hold the Service.
OldestPolicyWins == pass.pc \in {"visit", "done", "failed"} => OldestHold

\* A reconcile that gets through the policies undisturbed leaves each policy
\* that targets a Service with the verdict of one of its targets (so with
\* exactly their verdict when they agree) and the others without a status,
\* whatever order the maps were visited in and whatever earlier reconciles,
\* failed ones included, had stored.  The verdict is the one the code gives:
\* Invalid under a missing Service, where a comment asks for Conflicted.
PolicyVerdictStored ==
    pass.pc = "done" /\ attached /\ ~pass.upset /\ ~pass.lagging =>
      \A p \in DOMAIN policies :
        IF ServiceTargets(p) = {} THEN stored[p] = NoPolicyStatus
        ELSE stored[p].accepted \in Verdicts(p)

\* The statuses of policies stop a Gateway's reconcile only when a call failed,
\* an object changed meanwhile, the cache lagged behind, or a policy whose
\* targets disagree was to be written twice with the same resourceVersion.
PoliciesBlockOnlyMixed ==
    pass.pc = "failed" =>
      \/ pass.upset \/ pass.lagging
      \/ \E p \in DOMAIN policies : \E v, w \in Verdicts(p) : v # w
=============================================================================
