------------------------ MODULE BackendTLSPolicyProofs ------------------------
(***************************************************************************)
(* The BackendTLSPolicy part of a Gateway reconcile, for any policies,     *)
(* Services and sections and any number of reconciles, failed calls and    *)
(* changes.  Inv is inductive; its parts say what the map holds after each *)
(* target read (BuildInv), what the loop still has to visit (LoopInv) and  *)
(* what it has achieved where it has been (CalmInv).                       *)
(***************************************************************************)
EXTENDS BackendTLSPolicy, TLAPS

USE ZenonT(40)

Names == DOMAIN policies

PassType == [n : Nat, pc : {"idle", "build", "visit", "done", "failed"},
             lagging : BOOLEAN, upset : BOOLEAN]

VisitType == [pending : SUBSET PolicyService, service : PolicyService \cup {Nil}, exists : BOOLEAN,
              left : SUBSET Section, losers : SUBSET Names, confirmed : SUBSET Names]

LookupType == [Valid : [Slot -> Names \cup {Nil}], Invalid : [Slot -> Names \cup {Nil}],
               Conflicted : SUBSET (PolicyService \X Names)]

ListedType ==
    /\ listed = [seen |-> listed.seen, stale |-> listed.stale]
    /\ DOMAIN listed.seen = Names /\ listed.stale \subseteq Names

TypeInv ==
    /\ Admitted(policies)
    /\ DOMAIN stored = Names /\ DOMAIN cached = Names /\ behind \subseteq Names
    /\ pass \in PassType /\ lookup \in LookupType /\ visit \in VisitType
    /\ reading \in [todo : SUBSET Names, policy : Names \cup {Nil}, at : Nat \ {0}]
    /\ ListedType

IsStatus(st) == st = [accepted |-> st.accepted, resolved |-> st.resolved]

\* What is stored, cached and listed.
StoreInv ==
    /\ \A p \in Names : IsStatus(stored[p]) /\ IsStatus(cached[p]) /\ IsStatus(listed.seen[p])
    /\ \A p \in Names \ behind : cached[p] = stored[p]
    /\ \A p \in Names : ServiceTargets(p) = {} => stored[p] = NoPolicyStatus

\* The policies added so far with a target that names slot s.
Read(p, i) == p \notin reading.todo \/ (p = reading.policy /\ i < reading.at)

Added ==
    [s \in Slot |->
       {p \in Names : \E i \in DOMAIN policies[p].targets :
          /\ Read(p, i) /\ IsServiceTargetRef(policies[p].targets[i])
          /\ SlotOf(policies[p].targets[i]) = s}]

\* The map holds the first policy of each slot among those in added.
MapInv(lm, added) ==
    /\ \A s \in Slot : lm.Invalid[s] = Nil
    /\ \A s \in Slot : lm.Valid[s] = Nil => added[s] = {}
    /\ \A s \in Slot : lm.Valid[s] # Nil =>
          lm.Valid[s] \in added[s] /\ \A q \in added[s] \ {lm.Valid[s]} : Outranks(lm.Valid[s], q)
    /\ \A svc \in PolicyService, p \in Names :
          <<svc, p>> \in lm.Conflicted <=>
             \E x \in Section : p \in added[<<svc, x>>] /\ lm.Valid[<<svc, x>>] # p

\* While targets are read, the map is right for those read so far.
BuildInv ==
    pass.pc = "build" =>
      /\ reading.todo # {}
      /\ reading.policy = Nil => reading.at = 1
      /\ reading.policy # Nil => /\ reading.policy \in reading.todo
                                /\ reading.at <= Len(policies[reading.policy].targets)
      /\ MapInv(lookup, Added)

Visiting == pass.pc \in {"visit", "done"}

\* What the loop still has to visit is in the map, and no policy of a Service to
\* come has been moved to Invalid.
LoopInv ==
    Visiting =>
      /\ \A x \in visit.left : lookup.Valid[<<visit.service, x>>] # Nil
      /\ \A p \in visit.losers : <<visit.service, p>> \in lookup.Conflicted
      /\ visit.left # {} \/ visit.losers # {} => visit.service \in PolicyService \ visit.pending
      /\ \A svc \in visit.pending, x \in Section : lookup.Invalid[<<svc, x>>] = Nil
      /\ pass.pc = "done" => visit.pending = {} /\ visit.left = {} /\ visit.losers = {}

\* What a target asks for, and whether a status is what target t asks for.
Outcome(p, t) == IF t.service \in services THEN Accepted(policies[p].ca) ELSE TargetMissing(t.service)

Fits(st, p, t) == IF Wins(p, SlotOf(t)) THEN st = Outcome(p, t) ELSE st.accepted = Conflicted

Fine(p) == \E t \in ServiceTargets(p) : Fits(listed.seen[p], p, t)

\* The loop v has been at the target of p in slot s.
Visited(v, p, s) ==
    /\ s[1] \notin v.pending
    /\ s[1] = v.service => IF Wins(p, s) THEN s[2] \notin v.left ELSE p \notin v.losers

\* With an up-to-date list, the loop sees what is stored.  If nothing disturbs it
\* either, each policy it wrote or confirmed, and each policy at a target the
\* loop has been at, has what one of its targets asks for.
CalmInv ==
    ~pass.lagging /\ pass.pc # "idle" =>
      /\ \A p \in Names : listed.seen[p] = stored[p]
      /\ pass.pc = "build" => listed.stale = {}
      /\ ~pass.upset /\ Visiting =>
           /\ visit.left # {} \/ visit.losers # {} => (visit.exists <=> visit.service \in services)
           /\ \A p \in listed.stale \cup visit.confirmed : Fine(p)
           /\ attached => \A s \in Slot : \A p \in Targeting(s) : Visited(visit, p, s) => Fine(p)

Inv == TypeInv /\ StoreInv /\ BuildInv /\ OldestPolicyWins /\ LoopInv /\ CalmInv /\ PoliciesBlockOnlyMixed

-----------------------------------------------------------------------------
(* The lookup map *)

\* No policies have no names.
LEMMA NoNames == DOMAIN <<>> = {}
BY SMTT(20)

\* Age and name decide between any two policies, one way.
LEMMA Order ==
    ASSUME Admitted(policies)
    PROVE  /\ \A p, q \in Names : Outranks(p, q) => ~Outranks(q, p)
           /\ \A p, q \in Names : p # q => Outranks(p, q) \/ Outranks(q, p)
           /\ \A p, q, r \in Names : Outranks(p, q) /\ Outranks(q, r) => Outranks(p, r)
<1> DEFINE c(p) == policies[p].created
           k(p) == policies[p].rank
<1>1. \A p \in Names : c(p) \in Int /\ k(p) \in Int
  BY DEF Admitted, Names
<1>2. \A p, q \in Names : p # q => k(p) # k(q)
  BY DEF Admitted, Names
<1>3. \A p, q : Outranks(p, q) <=> c(p) < c(q) \/ (c(p) = c(q) /\ k(p) < k(q))
  BY DEF Outranks
<1> HIDE DEF c, k
<1>4. \A p, q \in Names : Outranks(p, q) => ~Outranks(q, p)
  BY <1>1, <1>3, SMT
<1>5. \A p, q \in Names : p # q => Outranks(p, q) \/ Outranks(q, p)
  BY <1>1, <1>2, <1>3, SMT
<1>6. \A p, q, r \in Names : Outranks(p, q) /\ Outranks(q, r) => Outranks(p, r)
  BY <1>1, <1>3, SMT
<1> QED BY <1>4, <1>5, <1>6

\* Adding a policy to a slot keeps the map right.
LEMMA Upsert ==
    ASSUME Admitted(policies), NEW lm \in LookupType,
           NEW A \in [Slot -> SUBSET Names], MapInv(lm, A),
           NEW s \in Slot, NEW p \in Names,
           NEW B \in [Slot -> SUBSET Names], B = [A EXCEPT ![s] = @ \cup {p}]
    PROVE  UpsertPolicy(lm, s, p) \in LookupType /\ MapInv(UpsertPolicy(lm, s, p), B)
<1> DEFINE q == lm.Valid[s]
           new == UpsertPolicy(lm, s, p)
<1>1. PICK sv \in PolicyService, sx \in Section : s = <<sv, sx>> /\ s[1] = sv
  BY SMT DEF Slot
<1>2. p # Nil /\ Nil \notin Names
  BY DEF Admitted, Names
<1>3. /\ \A r \in Slot : r # s => B[r] = A[r]
      /\ B[s] = A[s] \cup {p}
  BY SMT
<1>4. \A svc \in PolicyService, x \in Section :
          <<svc, x>> \in Slot /\ (<<svc, x>> = s <=> svc = sv /\ x = sx)
  BY <1>1, SMT DEF Slot
<1>5. new \in LookupType /\ new.Invalid = lm.Invalid /\ (\A r \in Slot : r # s => new.Valid[r] = lm.Valid[r])
      /\ \/ q = Nil /\ new.Valid[s] = p /\ new.Conflicted = lm.Conflicted
         \/ q = p /\ new.Valid[s] = p /\ new.Conflicted = lm.Conflicted
         \/ /\ q \in Names \ {p} /\ Outranks(p, q)
            /\ new.Valid[s] = p /\ new.Conflicted = lm.Conflicted \cup {<<sv, q>>}
         \/ /\ q \in Names \ {p} /\ ~Outranks(p, q)
            /\ new.Valid[s] = q /\ new.Conflicted = lm.Conflicted \cup {<<sv, p>>}
  <2>1. q \in Names \cup {Nil}
    BY SMT DEF LookupType
  <2>2. CASE q = Nil
    <3>1. new = [lm EXCEPT !.Valid = [lm.Valid EXCEPT ![s] = p]]
      BY <2>2, SMT DEF UpsertPolicy
    <3> QED BY <2>2, <3>1, SMT DEF LookupType
  <2>3. CASE q = p
    <3>1. new = lm
      BY <1>2, <2>3 DEF UpsertPolicy
    <3> QED BY <2>3, <3>1
  <2>4. CASE q \in Names \ {p} /\ Outranks(p, q)
    <3>1. Precedes(p, q)
      BY <2>4 DEF Precedes, Outranks
    <3>2. new = [lm EXCEPT !.Valid = [lm.Valid EXCEPT ![s] = p],
                           !.Conflicted = lm.Conflicted \cup {<<sv, q>>}]
      BY <1>1, <1>2, <2>4, <3>1, SMT DEF UpsertPolicy
    <3> DEFINE V == [lm.Valid EXCEPT ![s] = p]
               C == lm.Conflicted \cup {<<sv, q>>}
    <3>3. C \in SUBSET (PolicyService \X Names)
      BY <2>4, SMT DEF LookupType
    <3>4. V \in [Slot -> Names \cup {Nil}] /\ V[s] = p /\ \A r \in Slot : r # s => V[r] = lm.Valid[r]
      BY SMT DEF LookupType
    <3>5. new = [lm EXCEPT !.Valid = V, !.Conflicted = C]
      BY <3>2
    <3> HIDE DEF V, C, new
    <3> DEFINE half == [lm EXCEPT !.Valid = V]
    <3>6. half.Valid = V /\ half.Invalid = lm.Invalid /\ half \in LookupType
      BY <3>4, SMT DEF LookupType
    <3>7. new = [half EXCEPT !.Conflicted = C]
      BY <3>5, SMT
    <3> HIDE DEF half
    <3>8. new.Valid = V /\ new.Invalid = lm.Invalid /\ new.Conflicted = C /\ new \in LookupType
      BY <3>3, <3>6, <3>7, SMT DEF LookupType
    <3> QED BY <2>4, <3>4, <3>8 DEF C, new
  <2>5. CASE q \in Names \ {p} /\ ~Outranks(p, q)
    <3>1. ~Precedes(p, q)
      BY <2>5 DEF Precedes, Outranks
    <3>2. new = [lm EXCEPT !.Conflicted = lm.Conflicted \cup {<<sv, p>>}]
      BY <1>1, <1>2, <2>5, <3>1, SMT DEF UpsertPolicy
    <3> QED BY <2>5, <3>2, SMT DEF LookupType
  <2> QED BY <2>1, <2>2, <2>3, <2>4, <2>5
<1> DEFINE w == new.Valid[s]
<1> HIDE DEF new
<1>6. q = Nil => A[s] = {}
  BY DEF MapInv
<1>7. q # Nil => q \in A[s] /\ \A r \in A[s] \ {q} : Outranks(q, r)
  BY DEF MapInv
<1>8. A[s] \subseteq Names
  BY SMT
<1>9. w \in B[s] /\ \A r \in B[s] \ {w} : Outranks(w, r)
  BY <1>2, <1>3, <1>5, <1>6, <1>7, <1>8, Order, SMT
<1>10. \A svc \in PolicyService, r \in Names :
          <<svc, r>> \in new.Conflicted <=>
             \E x \in Section : r \in B[<<svc, x>>] /\ new.Valid[<<svc, x>>] # r
  <2> SUFFICES ASSUME NEW svc \in PolicyService, NEW r \in Names
               PROVE  <<svc, r>> \in new.Conflicted <=>
                        \E x \in Section : r \in B[<<svc, x>>] /\ new.Valid[<<svc, x>>] # r
    OBVIOUS
  <2>1. <<svc, r>> \in lm.Conflicted <=>
          \E x \in Section : r \in A[<<svc, x>>] /\ lm.Valid[<<svc, x>>] # r
    BY DEF MapInv
  <2>2. <<svc, r>> \in new.Conflicted <=>
          <<svc, r>> \in lm.Conflicted \/ (svc = sv /\ r \in {p, q} \cap Names /\ q # Nil /\ r # w)
    BY <1>2, <1>5, SMT
  <2>3. ASSUME NEW x \in Section, <<svc, x>> # s
        PROVE  r \in A[<<svc, x>>] /\ lm.Valid[<<svc, x>>] # r <=>
               r \in B[<<svc, x>>] /\ new.Valid[<<svc, x>>] # r
    BY <1>3, <1>4, <1>5, <2>3
  <2>4. CASE svc # sv
    BY <1>4, <2>1, <2>2, <2>3, <2>4
  <2>5. CASE svc = sv
    <3>1. (r \in A[s] /\ q # r) \/ (r \in {p, q} \cap Names /\ q # Nil /\ r # w) <=> r \in B[s] /\ w # r
      BY <1>2, <1>3, <1>5, <1>6, <1>7, <1>8, <1>9, Order, SMT
    <3> QED BY <1>1, <1>4, <2>1, <2>2, <2>3, <2>5, <3>1
  <2> QED BY <2>4, <2>5
<1>11. \A r \in Slot : new.Invalid[r] = Nil
  BY <1>5 DEF MapInv
<1>12. \A r \in Slot : new.Valid[r] = Nil => B[r] = {}
  <2>1. w # Nil
    BY <1>2, <1>5
  <2> QED BY <1>3, <1>5, <2>1 DEF MapInv
<1>13. \A r \in Slot : new.Valid[r] # Nil =>
          new.Valid[r] \in B[r] /\ \A o \in B[r] \ {new.Valid[r]} : Outranks(new.Valid[r], o)
  BY <1>3, <1>5, <1>9 DEF MapInv
<1> QED BY <1>5, <1>10, <1>11, <1>12, <1>13 DEF MapInv, new

-----------------------------------------------------------------------------
(* Winners and targets *)

\* The policies do not change, so neither do their targets and the winners.
LEMMA Frame ==
    ASSUME policies' = policies
    PROVE  /\ Names' = Names /\ VisitType' = VisitType /\ LookupType' = LookupType
           /\ Admitted(policies)' <=> Admitted(policies)
           /\ \A p, q : Outranks(p, q)' <=> Outranks(p, q)
           /\ \A p : ServiceTargets(p)' = ServiceTargets(p)
           /\ \A s : Targeting(s)' = Targeting(s)
           /\ \A p, s : Wins(p, s)' <=> Wins(p, s)
<1>1. Names' = Names
  BY DEF Names
<1>2. VisitType' = VisitType /\ LookupType' = LookupType
  BY <1>1 DEF VisitType, LookupType
<1>3. Admitted(policies)' <=> Admitted(policies)
  OBVIOUS
<1>4. \A p, q : Outranks(p, q)' <=> Outranks(p, q)
  BY DEF Outranks
<1>5. \A p : ServiceTargets(p)' = ServiceTargets(p)
  BY DEF ServiceTargets
<1>6. \A s : Targeting(s)' = Targeting(s)
  BY <1>5 DEF Targeting
<1>7. \A p, s : Wins(p, s)' <=> Wins(p, s)
  BY <1>4, <1>6 DEF Wins
<1> QED BY <1>1, <1>2, <1>3, <1>4, <1>5, <1>6, <1>7

\* Without a change of the Services the verdicts stay as well.
LEMMA FrameVerdicts ==
    ASSUME policies' = policies, services' = services
    PROVE  /\ \A st, p, t : Fits(st, p, t)' <=> Fits(st, p, t)
           /\ \A p, t : Verdict(p, t)' = Verdict(p, t)
           /\ \A p : Verdicts(p)' = Verdicts(p)
<1>1. \A st, p, t : Fits(st, p, t)' <=> Fits(st, p, t)
  BY Frame DEF Fits, Outcome
<1>2. \A p, t : Verdict(p, t)' = Verdict(p, t)
  BY Frame DEF Verdict
<1>3. \A p : Verdicts(p)' = Verdicts(p)
  <2> SUFFICES ASSUME NEW p PROVE Verdicts(p)' = Verdicts(p)
    OBVIOUS
  <2>1. \A v : v \in Verdicts(p)' <=> \E t \in ServiceTargets(p)' : v = Verdict(p, t)'
    BY DEF Verdicts
  <2>2. \A v : v \in Verdicts(p) <=> \E t \in ServiceTargets(p) : v = Verdict(p, t)
    BY DEF Verdicts
  <2>3. \A v : v \in Verdicts(p)' <=> v \in Verdicts(p)
    BY <1>2, <2>1, <2>2, Frame
  <2> QED BY <2>3
<1> QED BY <1>1, <1>2, <1>3

\* The targets of admitted policies name slots.
LEMMA TargetSlots ==
    ASSUME Admitted(policies)
    PROVE  /\ \A p \in Names : \A t \in ServiceTargets(p) :
                SlotOf(t) \in Slot /\ p \in Targeting(SlotOf(t)) /\ SlotOf(t)[1] = t.service
           /\ \A s : Targeting(s) \subseteq Names
           /\ \A s : \A p \in Targeting(s) : \E t \in ServiceTargets(p) : SlotOf(t) = s
<1>1. ASSUME NEW p \in Names, NEW t \in ServiceTargets(p)
      PROVE  SlotOf(t) \in Slot /\ p \in Targeting(SlotOf(t)) /\ SlotOf(t)[1] = t.service
  <2>1. policies[p].targets \in Seq(TargetRef)
    BY DEF Admitted, Names
  <2>2. t \in TargetRef
    BY <2>1, SMT DEF ServiceTargets
  <2>3. t.service \in PolicyService /\ t.section \in Section
    BY <2>2, SMT DEF TargetRef
  <2> QED BY <2>3, SMT DEF SlotOf, Slot, Targeting, Names
<1> QED BY <1>1 DEF Targeting, Names

\* A slot has one winner.
LEMMA OneWinner ==
    ASSUME Admitted(policies), NEW s, NEW p, NEW q, Wins(p, s), Wins(q, s)
    PROVE  p = q
BY TargetSlots, Order DEF Wins

\* A policy in Valid is the winner of its slot; while the slot has no policy in
\* Invalid, the policies that target it have their winner in Valid.
LEMMA Holders ==
    ASSUME TypeInv, OldestHold, NEW s \in Slot
    PROVE  /\ lookup.Valid[s] \in Names \cup {Nil} /\ lookup.Invalid[s] \in Names \cup {Nil}
           /\ lookup.Valid[s] # Nil => Wins(lookup.Valid[s], s)
           /\ Targeting(s) # {} /\ lookup.Invalid[s] = Nil => lookup.Valid[s] # Nil
<1>1. lookup.Valid[s] \in Names \cup {Nil} /\ lookup.Invalid[s] \in Names \cup {Nil}
  BY SMT DEF TypeInv, LookupType
<1>2. Nil \notin Names /\ Targeting(s) \subseteq Names
  BY TargetSlots DEF TypeInv, Admitted, Names
<1>3. CASE Targeting(s) = {}
  <2>1. lookup.Valid[s] = Nil
    BY <1>3 DEF OldestHold, Holder
  <2> QED BY <1>1, <1>3, <2>1
<1>4. CASE Targeting(s) # {}
  <2>1. PICK p \in Targeting(s) : Wins(p, s) /\ Holder(lookup, s) = p
    BY <1>4 DEF OldestHold
  <2> QED BY <1>1, <1>2, <2>1 DEF Holder
<1> QED BY <1>3, <1>4

-----------------------------------------------------------------------------
(* Statuses *)

\* The verdict of a target is the acceptance its status shows.
LEMMA FitsVerdict ==
    ASSUME NEW st, NEW p, NEW t, Fits(st, p, t)
    PROVE  st.accepted = Verdict(p, t)
BY DEF Fits, Outcome, Verdict

\* What different targets ask of a policy differs in the acceptance.
LEMMA Outcomes ==
    ASSUME NEW p, NEW t, NEW u
    PROVE  /\ Outcome(p, t).accepted # Conflicted
           /\ Outcome(p, t).accepted = Outcome(p, u).accepted => Outcome(p, t) = Outcome(p, u)
<1> DEFINE ca == policies[p].ca
<1>1. /\ Accepted(ca).accepted.reason # "Conflicted"
      /\ Accepted(ca).accepted.about # "target"
  BY SMT DEF Accepted, AcceptedReason, Condition
<1>2. \A svc : /\ TargetMissing(svc).accepted.reason = "Invalid"
               /\ TargetMissing(svc).accepted.about = "target"
               /\ TargetMissing(svc).accepted.what = svc
  BY SMT DEF TargetMissing, Condition
<1>3. Conflicted.reason = "Conflicted"
  BY SMT DEF Conflicted, Condition
<1>4. "Invalid" # "Conflicted"
  BY SMT
<1>6. Accepted(ca).accepted # Conflicted /\ \A svc : TargetMissing(svc).accepted # Conflicted
  <2>1. Accepted(ca).accepted # Conflicted
    BY <1>1, <1>3
  <2>2. ASSUME NEW svc PROVE TargetMissing(svc).accepted # Conflicted
    <3>1. TargetMissing(svc).accepted.reason = "Invalid"
      BY <1>2
    <3> QED BY ONLY <1>3, <1>4, <3>1
  <2> QED BY <2>1, <2>2
<1>7. \A svc : TargetMissing(svc).accepted # Accepted(ca).accepted
  <2> SUFFICES ASSUME NEW svc PROVE TargetMissing(svc).accepted # Accepted(ca).accepted
    OBVIOUS
  <2>1. TargetMissing(svc).accepted.about = "target"
    BY <1>2
  <2> QED BY ONLY <1>1, <2>1
<1>8. \A v, w : TargetMissing(v).accepted = TargetMissing(w).accepted => v = w
  <2> SUFFICES ASSUME NEW v, NEW w, TargetMissing(v).accepted = TargetMissing(w).accepted PROVE v = w
    OBVIOUS
  <2>1. TargetMissing(v).accepted.what = v /\ TargetMissing(w).accepted.what = w
    BY <1>2
  <2> QED BY <2>1
<1>9. Outcome(p, t) = Accepted(ca) \/ Outcome(p, t) = TargetMissing(t.service)
  BY DEF Outcome
<1>10. Outcome(p, u) = Accepted(ca) \/ Outcome(p, u) = TargetMissing(u.service)
  BY DEF Outcome
<1>11. Outcome(p, t).accepted # Conflicted
  BY <1>6, <1>9
<1>12. ASSUME Outcome(p, t).accepted = Outcome(p, u).accepted
       PROVE  Outcome(p, t) = Outcome(p, u)
  <2>1. CASE Outcome(p, t) = Accepted(ca)
    BY <1>7, <1>10, <1>12, <2>1
  <2>2. CASE Outcome(p, t) = TargetMissing(t.service)
    <3>1. CASE Outcome(p, u) = Accepted(ca)
      BY <1>7, <1>12, <2>2, <3>1
    <3>2. CASE Outcome(p, u) = TargetMissing(u.service)
      <4>1. TargetMissing(t.service).accepted = TargetMissing(u.service).accepted
        BY <1>12, <2>2, <3>2
      <4>2. t.service = u.service
        BY <1>8, <4>1
      <4> QED BY <2>2, <3>2, <4>2
    <3> QED BY <1>10, <3>1, <3>2
  <2> QED BY <1>9, <2>1, <2>2
<1> QED BY <1>11, <1>12

\* If the targets of a policy agree, a second write would store the same.
LEMMA SameVerdict ==
    ASSUME NEW st, NEW new, NEW p, NEW t, NEW u, IsStatus(st), Fits(st, p, t), Fits(new, p, u),
           Wins(p, SlotOf(u)) \/ new = [accepted |-> Conflicted, resolved |-> st.resolved],
           Verdict(p, t) = Verdict(p, u)
    PROVE  new = st
<1>1. st.accepted = new.accepted
  BY FitsVerdict
<1>2. CASE Wins(p, SlotOf(t)) /\ Wins(p, SlotOf(u))
  BY <1>1, <1>2, Outcomes DEF Fits
<1>3. CASE ~Wins(p, SlotOf(t)) /\ Wins(p, SlotOf(u))
  BY <1>1, <1>3, Outcomes DEF Fits
<1>4. CASE ~Wins(p, SlotOf(u))
  <2>1. st.accepted = Conflicted
    BY <1>1, <1>4 DEF Fits
  <2> QED BY <1>4, <2>1 DEF IsStatus
<1> QED BY <1>2, <1>3, <1>4

\* What PassAt does to the worker.
LEMMA PassFacts ==
    ASSUME TypeInv, NEW c \in {"idle", "build", "visit", "done", "failed"}, NEW u \in BOOLEAN
    PROVE  /\ PassAt(c, u) \in PassType /\ PassAt(c, u).pc = c
           /\ PassAt(c, u).lagging = pass.lagging
           /\ PassAt(c, u).upset <=> pass.upset \/ u
<1>1. pass \in PassType
  BY DEF TypeInv
<1>2. pass.upset \in BOOLEAN
  BY <1>1, SMT DEF PassType
<1>3. (pass.upset \/ u) \in BOOLEAN
  OBVIOUS
<1> DEFINE b == pass.upset \/ u
           one == [pass EXCEPT !.pc = c]
<1>4. one \in PassType /\ one.pc = c /\ one.lagging = pass.lagging /\ one.upset = pass.upset
  BY <1>1, SMT DEF PassType
<1>5. PassAt(c, u) = [one EXCEPT !.upset = b]
  BY <1>4 DEF PassAt
<1> HIDE DEF one, b
<1>6. b \in BOOLEAN
  BY <1>3 DEF b
<1>7. /\ PassAt(c, u) \in PassType /\ PassAt(c, u).pc = c
      /\ PassAt(c, u).lagging = pass.lagging /\ PassAt(c, u).upset = b
  BY <1>4, <1>5, <1>6, SMT DEF PassType
<1> QED BY <1>7 DEF b

\* The map after a step, in terms of the policies before it.
LEMMA HoldAfter ==
    ASSUME policies' = policies,
           \A s \in Slot : /\ lookup'.Valid[s] = Nil \/ lookup'.Invalid[s] = Nil
                           /\ Targeting(s) = {} => Holder(lookup', s) = Nil
                           /\ Targeting(s) # {} => \E p \in Targeting(s) : Wins(p, s) /\ Holder(lookup', s) = p,
           \A svc \in PolicyService, p \in Names :
              <<svc, p>> \in lookup'.Conflicted <=>
                 \E x \in Section : p \in Targeting(<<svc, x>>) /\ ~Wins(p, <<svc, x>>)
    PROVE  OldestHold'
<1>1. ASSUME NEW s \in Slot
      PROVE  /\ Targeting(s)' = {} => Holder(lookup', s) = Nil
             /\ Targeting(s)' # {} => \E p \in Targeting(s)' : Wins(p, s)' /\ Holder(lookup', s) = p
  BY Frame
<1>2. ASSUME NEW svc \in PolicyService, NEW p \in Names'
      PROVE  <<svc, p>> \in lookup'.Conflicted <=>
               \E x \in Section : p \in Targeting(<<svc, x>>)' /\ ~Wins(p, <<svc, x>>)'
  <2>1. \A x : Targeting(<<svc, x>>)' = Targeting(<<svc, x>>) /\ (Wins(p, <<svc, x>>)' <=> Wins(p, <<svc, x>>))
    BY Frame
  <2>2. p \in Names
    BY Frame
  <2> QED BY <2>1, <2>2
<1> QED BY <1>1, <1>2 DEF OldestHold, Names

\* A step that leaves the map alone keeps its holders.
LEMMA KeepMap ==
    ASSUME OldestHold, policies' = policies, lookup' = lookup
    PROVE  OldestHold'
BY HoldAfter DEF OldestHold, Names

\* A step that leaves what is stored, cached and listed alone.
LEMMA KeepStore ==
    ASSUME StoreInv, UNCHANGED <<policies, stored, cached, behind, listed>>
    PROVE  StoreInv'
BY Frame DEF StoreInv, Names

\* A step that leaves the map and the two loops where they are.
LEMMA KeepPass ==
    ASSUME BuildInv, OldestPolicyWins, LoopInv, UNCHANGED <<policies, reading, lookup, visit>>,
           pass'.pc = pass.pc
    PROVE  BuildInv' /\ OldestPolicyWins' /\ LoopInv'
<1>1. Added' = Added
  BY DEF Added, Read, Names
<1>2. MapInv(lookup, Added) => MapInv(lookup, Added)'
  BY <1>1, Frame, SMT DEF MapInv
<1>3. BuildInv'
  BY <1>2 DEF BuildInv
<1>4. OldestPolicyWins'
  BY KeepMap DEF OldestPolicyWins
<1>5. LoopInv'
  BY DEF LoopInv, Visiting
<1> QED BY <1>3, <1>4, <1>5

\* The parts of the type of the state that a step leaves alone.
LEMMA KeepTypes ==
    ASSUME TypeInv, policies' = policies
    PROVE  /\ Admitted(policies)'
           /\ DOMAIN stored' = DOMAIN stored => DOMAIN stored' = Names'
           /\ cached' = cached => DOMAIN cached' = Names'
           /\ behind' = behind => behind' \subseteq Names'
           /\ pass' \in PassType => pass' \in PassType'
           /\ lookup' = lookup => lookup' \in LookupType'
           /\ visit' = visit => visit' \in VisitType'
           /\ reading' = reading =>
                reading' \in [todo : SUBSET Names', policy : Names' \cup {Nil}, at : Nat \ {0}]
           /\ listed' = listed => ListedType'
BY Frame DEF TypeInv, ListedType, PassType

-----------------------------------------------------------------------------
(* The steps *)

\* A new reconcile begins with an empty map and what the cache holds.
LEMMA ListStep ==
    ASSUME Inv, ListPolicies
    PROVE  Inv'
<1> USE DEF Inv
<1>1. /\ policies' = policies /\ stored' = stored /\ cached' = cached /\ behind' = behind
      /\ pass' = [n |-> pass.n + 1, pc |-> IF Names = {} THEN "done" ELSE "build",
                  lagging |-> behind # {}, upset |-> FALSE]
      /\ reading' = [NoReading EXCEPT !.todo = Names]
      /\ lookup' = NoLookup /\ visit' = NoVisit
      /\ listed' = [seen |-> cached, stale |-> behind]
  BY DEF ListPolicies, Names
<1>2. /\ pass' \in PassType /\ pass'.pc = (IF Names = {} THEN "done" ELSE "build")
      /\ pass'.lagging <=> behind # {}
  <2>1. pass.n + 1 \in Nat
    BY SMT DEF TypeInv, PassType
  <2>2. (behind # {}) \in BOOLEAN
    OBVIOUS
  <2>3. (IF Names = {} THEN "done" ELSE "build") \in {"idle", "build", "visit", "done", "failed"}
    BY SMT
  <2> DEFINE b == behind # {}
             c == IF Names = {} THEN "done" ELSE "build"
  <2>4. pass' = [n |-> pass.n + 1, pc |-> c, lagging |-> b, upset |-> FALSE] /\ b \in BOOLEAN
        /\ c \in {"idle", "build", "visit", "done", "failed"}
    BY <1>1, <2>2, <2>3
  <2> HIDE DEF b, c
  <2>5. pass' \in PassType /\ pass'.pc = c /\ pass'.lagging = b
    BY <2>1, <2>4, SMT DEF PassType
  <2> QED BY <2>5 DEF b, c
<1>3. reading' = [todo |-> Names, policy |-> Nil, at |-> 1]
  BY <1>1, SMT DEF NoReading
<1>4. /\ lookup'.Valid = [s \in Slot |-> Nil] /\ lookup'.Invalid = [s \in Slot |-> Nil]
      /\ lookup'.Conflicted = {} /\ lookup' \in LookupType
  BY <1>1, SMT DEF NoLookup, LookupType
<1>5. /\ visit'.pending = {} /\ visit'.left = {} /\ visit'.losers = {} /\ visit'.confirmed = {}
      /\ visit' \in VisitType
  BY <1>1, SMT DEF NoVisit, VisitType
<1>6. listed'.seen = cached /\ listed'.stale = behind
  BY <1>1
<1>7. TypeInv'
  <2>1. reading' \in [todo : SUBSET Names, policy : Names \cup {Nil}, at : Nat \ {0}]
    BY <1>3, SMT
  <2>2. ListedType'
    BY <1>1, <1>6, Frame DEF ListedType, TypeInv
  <2> QED BY <1>1, <1>2, <1>4, <1>5, <2>1, <2>2, Frame, KeepTypes DEF TypeInv
<1>8. StoreInv'
  BY <1>1, <1>6, Frame DEF StoreInv
<1>9. BuildInv'
  <2> SUFFICES ASSUME Names # {} PROVE BuildInv'
    BY <1>2, SMT DEF BuildInv
  <2>1. Nil \notin Names
    BY DEF TypeInv, Admitted, Names
  <2>2. \A p \in Names : \A i : ~Read(p, i)'
    BY <1>3, <2>1 DEF Read
  <2>3. \A s \in Slot : Added'[s] = {}
    BY <1>1, <2>2, Frame DEF Added
  <2>4. \A svc \in PolicyService, x \in Section : <<svc, x>> \in Slot
    BY DEF Slot
  <2>5. \A s \in Slot : lookup'.Valid[s] = Nil /\ lookup'.Invalid[s] = Nil
    BY <1>4
  <2>6. MapInv(lookup, Added)'
    BY <1>4, <2>3, <2>4, <2>5 DEF MapInv
  <2> QED BY <1>3, <2>6, Frame DEF BuildInv
<1>10. OldestPolicyWins'
  <2> SUFFICES ASSUME Names = {} PROVE OldestHold'
    BY <1>2, SMT DEF OldestPolicyWins
  <2>1. \A s : Targeting(s) = {} /\ (s \in Slot => Holder(lookup', s) = Nil)
    BY <1>4, TargetSlots DEF Holder, TypeInv
  <2> QED BY <1>1, <1>4, <2>1, HoldAfter
<1>11. LoopInv'
  BY <1>4, <1>5, SMT DEF LoopInv
<1>12. CalmInv'
  <2> SUFFICES ASSUME ~pass'.lagging PROVE CalmInv'
    BY DEF CalmInv
  <2>1. behind = {}
    BY <1>2
  <2>2. \A p \in Names' : listed'.seen[p] = stored'[p]
    BY <1>1, <1>6, <2>1, Frame DEF StoreInv
  <2>3. listed'.stale = {} /\ visit'.confirmed = {}
    BY <1>5, <1>6, <2>1
  <2>4. Visiting' => \A s : Targeting(s)' = {}
    <3>1. Visiting' => Names = {}
      BY <1>2, SMT DEF Visiting
    <3> QED BY <1>1, <3>1, Frame, TargetSlots DEF TypeInv
  <2> QED BY <1>5, <2>2, <2>3, <2>4 DEF CalmInv
<1>13. PoliciesBlockOnlyMixed'
  BY <1>2, SMT DEF PoliciesBlockOnlyMixed
<1> QED BY <1>7, <1>8, <1>9, <1>10, <1>11, <1>12, <1>13

\* The map when every target has been read.
LEMMA BuiltMap ==
    ASSUME TypeInv, NEW lm \in LookupType, NEW A, MapInv(lm, A), \A s \in Slot : A[s] = Targeting(s)
    PROVE  /\ \A s \in Slot : /\ lm.Invalid[s] = Nil
                              /\ lm.Valid[s] = Nil => Targeting(s) = {}
                              /\ lm.Valid[s] # Nil => Wins(lm.Valid[s], s)
           /\ \A svc \in PolicyService, p \in Names :
                <<svc, p>> \in lm.Conflicted <=>
                   \E x \in Section : p \in Targeting(<<svc, x>>) /\ ~Wins(p, <<svc, x>>)
<1>1. ASSUME NEW s \in Slot
      PROVE  /\ lm.Invalid[s] = Nil
             /\ lm.Valid[s] = Nil => Targeting(s) = {}
             /\ lm.Valid[s] # Nil => Wins(lm.Valid[s], s)
  BY DEF MapInv, Wins
<1>2. ASSUME NEW s \in Slot, NEW p \in Targeting(s)
      PROVE  lm.Valid[s] # p <=> ~Wins(p, s)
  <2>1. Targeting(s) # {}
    OBVIOUS
  <2>2. Wins(lm.Valid[s], s)
    BY <1>1, <2>1
  <2> QED BY <2>2, OneWinner DEF TypeInv
<1>3. \A svc \in PolicyService, x \in Section : <<svc, x>> \in Slot
  BY DEF Slot
<1>4. ASSUME NEW svc \in PolicyService, NEW p \in Names
      PROVE  <<svc, p>> \in lm.Conflicted <=>
               \E x \in Section : p \in Targeting(<<svc, x>>) /\ ~Wins(p, <<svc, x>>)
  <2>1. <<svc, p>> \in lm.Conflicted <=>
          \E x \in Section : p \in A[<<svc, x>>] /\ lm.Valid[<<svc, x>>] # p
    BY DEF MapInv
  <2> QED BY <1>2, <1>3, <2>1
<1> QED BY <1>1, <1>4

\* Reading one target adds its policy to the slot it names.
LEMMA ReadAdds ==
    ASSUME Inv, pass.pc = "build", policies' = policies,
           NEW p \in (IF reading.policy = Nil THEN reading.todo ELSE {reading.policy}), ReadTarget(p)
    PROVE  /\ p \in reading.todo /\ reading.todo \subseteq Names /\ reading.at \in Nat \ {0}
           /\ p \in Names /\ reading.at \in DOMAIN policies[p].targets
           /\ \A q \in Names : \A i \in DOMAIN policies[q].targets :
                Read(q, i)' <=> Read(q, i) \/ (q = p /\ i = reading.at)
<1> USE DEF Inv
<1>1. /\ reading.todo \subseteq Names /\ reading.at \in Nat \ {0} /\ Nil \notin Names
      /\ p \in reading.todo /\ p \in Names
  BY SMT DEF TypeInv, BuildInv, Admitted, Names
<1>2. /\ policies[p].targets \in Seq(TargetRef) /\ policies[p].targets # <<>>
  BY <1>1 DEF TypeInv, Admitted, Names
<1>3. /\ Len(policies[p].targets) \in Nat /\ DOMAIN policies[p].targets = 1 .. Len(policies[p].targets)
      /\ Len(policies[p].targets) # 0
  BY <1>2, SMT
<1>4. reading.policy = p \/ (reading.policy = Nil /\ reading.at = 1)
  BY <1>1 DEF BuildInv
<1>5. reading.at <= Len(policies[p].targets)
  <2>1. CASE reading.policy = p
    BY <1>1, <2>1 DEF BuildInv
  <2>2. CASE reading.at = 1
    BY <1>3, <2>2, SMT
  <2> QED BY <1>4, <2>1, <2>2
<1>6. reading.at \in DOMAIN policies[p].targets
  BY <1>1, <1>3, <1>5, SMT
<1>7. ASSUME NEW q \in Names, NEW i \in DOMAIN policies[q].targets
      PROVE  Read(q, i)' <=> Read(q, i) \/ (q = p /\ i = reading.at)
  <2>1. CASE reading.at = Len(policies[p].targets)
    <3>1. reading'.todo = reading.todo \ {p} /\ reading'.policy = Nil
      BY <2>1 DEF ReadTarget
    <3>2. Read(q, i)' <=> q \notin reading.todo \/ q = p
      BY <1>1, <3>1 DEF Read
    <3>3. CASE q # p
      BY <1>1, <1>4, <3>2, <3>3 DEF Read
    <3>4. CASE q = p
      <4>1. i \in Nat /\ 1 <= i /\ i <= reading.at
        BY <1>3, <2>1, <3>4, SMT
      <4>2. i < reading.at \/ i = reading.at
        BY <1>1, <4>1, SMT
      <4>3. reading.policy = p \/ i = reading.at
        BY <1>1, <1>4, <4>1, SMT
      <4> QED BY <3>2, <3>4, <4>2, <4>3 DEF Read
    <3> QED BY <3>3, <3>4
  <2>2. CASE reading.at # Len(policies[p].targets)
    <3>1. reading'.todo = reading.todo /\ reading'.policy = p /\ reading'.at = reading.at + 1
      BY <2>2 DEF ReadTarget
    <3>2. Read(q, i)' <=> q \notin reading.todo \/ (q = p /\ i < reading.at + 1)
      BY <3>1 DEF Read
    <3>3. CASE q # p
      BY <1>1, <1>4, <3>2, <3>3 DEF Read
    <3>4. CASE q = p
      <4>1. i \in Nat /\ 1 <= i
        BY <1>3, <3>4, SMT
      <4>2. i < reading.at + 1 <=> i < reading.at \/ i = reading.at
        BY <1>1, <4>1, SMT
      <4>3. i < reading.at => reading.policy = p
        BY <1>1, <1>4, <4>1, SMT
      <4> QED BY <1>1, <3>2, <3>4, <4>2, <4>3 DEF Read
    <3> QED BY <3>3, <3>4
  <2> QED BY <2>1, <2>2
<1> QED BY <1>1, <1>6, <1>7

\* Another target is read; after the last one the map is complete.
LEMMA BuildStep ==
    ASSUME Inv, BuildBackendTLSPolicyLookup
    PROVE  Inv'
<1> USE DEF Inv
<1>1. /\ pass.pc = "build" /\ policies' = policies /\ stored' = stored /\ cached' = cached
      /\ behind' = behind /\ listed' = listed
  BY DEF BuildBackendTLSPolicyLookup
<1>2. PICK p \in (IF reading.policy = Nil THEN reading.todo ELSE {reading.policy}) : ReadTarget(p)
  BY DEF BuildBackendTLSPolicyLookup
<1> DEFINE i == reading.at
           t == policies[p].targets[i]
           last == i = Len(policies[p].targets)
           rest == IF last THEN reading.todo \ {p} ELSE reading.todo
<1>3. /\ lookup' = (IF IsServiceTargetRef(t) THEN UpsertPolicy(lookup, SlotOf(t), p) ELSE lookup)
      /\ reading' = [todo |-> rest, policy |-> IF last THEN Nil ELSE p,
                     at |-> IF last THEN 1 ELSE i + 1]
      /\ rest # {} => pass' = pass /\ visit' = visit
      /\ rest = {} => /\ visit' = [NoVisit EXCEPT !.pending = Entries(lookup')]
                      /\ pass' = PassAt(IF Entries(lookup') = {} THEN "done" ELSE "visit", FALSE)
  BY <1>2 DEF ReadTarget
<1>4. /\ p \in reading.todo /\ reading.todo \subseteq Names /\ i \in Nat \ {0}
      /\ p \in Names /\ i \in DOMAIN policies[p].targets
      /\ \A q \in Names : \A k \in DOMAIN policies[q].targets :
           Read(q, k)' <=> Read(q, k) \/ (q = p /\ k = i)
  BY <1>1, <1>2, ReadAdds
<1>5. i \in 1 .. Len(policies[p].targets) /\ Len(policies[p].targets) \in Nat /\ t \in TargetRef
  <2>1. policies[p].targets \in Seq(TargetRef)
    BY <1>4 DEF TypeInv, Admitted, Names
  <2> QED BY <1>4, <2>1, SMT
<1> HIDE DEF i, last, t
<1>6. SlotOf(t) \in Slot
  BY <1>5, SMT DEF SlotOf, Slot, TargetRef
<1>7. ASSUME NEW s \in Slot, NEW q \in Names
      PROVE  q \in Added'[s] <=> q \in Added[s] \/ (q = p /\ IsServiceTargetRef(t) /\ SlotOf(t) = s)
  <2> DEFINE At(k) == IsServiceTargetRef(policies[q].targets[k]) /\ SlotOf(policies[q].targets[k]) = s
  <2>1. q \in Added[s] <=> \E k \in DOMAIN policies[q].targets : Read(q, k) /\ At(k)
    BY DEF Added
  <2>2. q \in Added'[s] <=> \E k \in DOMAIN policies[q].targets : Read(q, k)' /\ At(k)
    BY <1>1, Frame DEF Added
  <2>3. q = p => (At(i) <=> IsServiceTargetRef(t) /\ SlotOf(t) = s)
    BY DEF t
  <2> HIDE DEF At
  <2> QED BY <1>4, <2>1, <2>2, <2>3
<1>8. Added \in [Slot -> SUBSET Names] /\ Added' \in [Slot -> SUBSET Names]
  BY <1>1, Frame, SMT DEF Added
<1>9. lookup' \in LookupType /\ MapInv(lookup', Added') /\ MapInv(lookup, Added)'
  <2>1. MapInv(lookup, Added) /\ lookup \in LookupType /\ Admitted(policies)
    BY <1>1 DEF BuildInv, TypeInv
  <2>2. MapInv(lookup', Added') => MapInv(lookup, Added)'
    BY <1>1, Frame DEF MapInv
  <2> DEFINE A == Added
             B == Added'
  <2>3. /\ A \in [Slot -> SUBSET Names] /\ B \in [Slot -> SUBSET Names]
        /\ \A s \in Slot : A[s] \subseteq Names /\ B[s] \subseteq Names
    BY <1>8, SMT
  <2>4. CASE IsServiceTargetRef(t)
    <3>1. \A s \in Slot : B[s] = IF s = SlotOf(t) THEN A[s] \cup {p} ELSE A[s]
      BY <1>4, <1>7, <2>3, <2>4
    <3>2. lookup' = UpsertPolicy(lookup, SlotOf(t), p)
      BY <1>3, <2>4
    <3> HIDE DEF A, B
    <3>3. B = [A EXCEPT ![SlotOf(t)] = @ \cup {p}]
      BY <1>6, <2>3, <3>1, SMT
    <3> QED BY <1>4, <1>6, <2>1, <2>2, <2>3, <3>2, <3>3, Upsert DEF A, B
  <2>5. CASE ~IsServiceTargetRef(t)
    <3>1. \A s \in Slot : B[s] = A[s]
      BY <1>7, <2>3, <2>5
    <3> HIDE DEF A, B
    <3>2. B = A
      BY <2>3, <3>1, SMT
    <3> QED BY <1>3, <2>1, <2>2, <2>5, <3>2 DEF A, B
  <2> QED BY <2>4, <2>5
<1>10. StoreInv'
  BY <1>1, KeepStore
<1>11. reading' \in [todo : SUBSET Names, policy : Names \cup {Nil}, at : Nat \ {0}]
  BY <1>3, <1>4, SMT
<1>12. CASE rest # {}
  <2>1. pass' = pass /\ visit' = visit
    BY <1>3, <1>12
  <2>2. TypeInv'
    BY <1>1, <1>9, <1>11, <2>1, Frame, KeepTypes DEF TypeInv
  <2>3. BuildInv'
    <3>1. reading'.todo = rest /\ reading'.policy = (IF last THEN Nil ELSE p)
          /\ reading'.at = (IF last THEN 1 ELSE i + 1)
      BY <1>3
    <3>2. last => reading'.policy = Nil /\ reading'.at = 1
      BY <3>1
    <3>3. ~last => /\ reading'.policy = p /\ reading'.policy \in reading'.todo
                   /\ reading'.at <= Len(policies[p].targets)
      BY <1>4, <1>5, <3>1, SMT DEF last
    <3>4. p # Nil
      BY <1>4 DEF TypeInv, Admitted, Names
    <3> QED BY <1>1, <1>9, <1>12, <3>1, <3>2, <3>3, <3>4 DEF BuildInv
  <2>4. OldestPolicyWins' /\ LoopInv' /\ PoliciesBlockOnlyMixed'
    BY <1>1, <2>1, SMT DEF OldestPolicyWins, LoopInv, PoliciesBlockOnlyMixed, Visiting
  <2>5. CalmInv'
    BY <1>1, <2>1, Frame DEF CalmInv, Visiting
  <2> QED BY <1>10, <2>2, <2>3, <2>4, <2>5
<1>13. CASE rest = {}
  <2>1. /\ visit'.pending = Entries(lookup') /\ visit'.left = {} /\ visit'.losers = {}
        /\ visit'.confirmed = {} /\ visit' \in VisitType
    <3>1. Entries(lookup') \subseteq PolicyService
      BY DEF Entries
    <3> DEFINE E == Entries(lookup')
    <3>2. visit' = [pending |-> E, service |-> Nil, exists |-> FALSE, left |-> {}, losers |-> {},
                    confirmed |-> {}]
      BY <1>3, <1>13 DEF NoVisit
    <3>3. E \subseteq PolicyService
      BY <3>1
    <3> HIDE DEF E
    <3>4. visit'.pending = E /\ visit'.left = {} /\ visit'.losers = {} /\ visit'.confirmed = {}
          /\ visit' \in VisitType
      BY <3>2, <3>3, SMT DEF VisitType
    <3> QED BY <3>4 DEF E
  <2>2. pass'.pc = (IF Entries(lookup') = {} THEN "done" ELSE "visit") /\ pass' \in PassType
        /\ pass'.lagging = pass.lagging /\ (pass'.upset <=> pass.upset)
    BY <1>3, <1>13, PassFacts
  <2>3. TypeInv'
    BY <1>1, <1>9, <1>11, <2>1, <2>2, Frame, KeepTypes DEF TypeInv
  <2>4. reading'.todo = {}
    BY <1>3, <1>13
  <2>5. OldestHold' /\ \A s \in Slot : Targeting(s)' # {} => lookup'.Valid[s] # Nil
    <3>1. \A s \in Slot : Added'[s] = Targeting(s)
      <4> SUFFICES ASSUME NEW s \in Slot PROVE Added'[s] = Targeting(s)
        OBVIOUS
      <4>1. \A q, k : Read(q, k)'
        BY <2>4 DEF Read
      <4>2. Added'[s] = {q \in Names : \E k \in DOMAIN policies[q].targets :
                           /\ IsServiceTargetRef(policies[q].targets[k])
                           /\ SlotOf(policies[q].targets[k]) = s}
        BY <1>1, <4>1, Frame DEF Added
      <4> QED BY <4>2 DEF Targeting, ServiceTargets, Names
    <3>2. /\ \A s \in Slot : /\ lookup'.Invalid[s] = Nil
                             /\ lookup'.Valid[s] = Nil => Targeting(s) = {}
                             /\ lookup'.Valid[s] # Nil => Wins(lookup'.Valid[s], s)
          /\ \A svc \in PolicyService, q \in Names :
                <<svc, q>> \in lookup'.Conflicted <=>
                   \E x \in Section : q \in Targeting(<<svc, x>>) /\ ~Wins(q, <<svc, x>>)
      BY <1>9, <3>1, BuiltMap
    <3>3. ASSUME NEW s \in Slot
          PROVE  /\ Targeting(s) = {} => Holder(lookup', s) = Nil
                 /\ Targeting(s) # {} => \E q \in Targeting(s) : Wins(q, s) /\ Holder(lookup', s) = q
      BY <3>2 DEF Wins, Holder
    <3>4. OldestHold'
      BY <1>1, <3>2, <3>3, HoldAfter
    <3> QED BY <1>1, <3>2, <3>4, Frame
  <2>6. BuildInv' /\ PoliciesBlockOnlyMixed'
    BY <2>2, SMT DEF BuildInv, PoliciesBlockOnlyMixed
  <2>7. OldestPolicyWins'
    BY <2>5 DEF OldestPolicyWins
  <2>8. LoopInv'
    <3>1. \A s \in Slot : lookup'.Invalid[s] = Nil
      BY <1>9 DEF MapInv
    <3>2. \A svc \in visit'.pending, x \in Section : lookup'.Invalid[<<svc, x>>] = Nil
      <4>1. visit'.pending \subseteq PolicyService
        BY <2>1 DEF Entries
      <4>2. \A svc \in PolicyService, x \in Section : <<svc, x>> \in Slot
        BY DEF Slot
      <4> QED BY <3>1, <4>1, <4>2
    <3>3. pass'.pc = "done" => visit'.pending = {}
      BY <2>1, <2>2, SMT
    <3> QED BY <2>1, <3>2, <3>3 DEF LoopInv
  <2>9. CalmInv'
    <3>1. \A s \in Slot : \A q : Visited(visit, q, s)' => Targeting(s)' = {}
      <4> SUFFICES ASSUME NEW s \in Slot, lookup'.Valid[s] # Nil PROVE s[1] \in visit'.pending
        BY <2>5 DEF Visited
      <4> QED BY <2>1, SMT DEF Entries, Slot
    <3>2. ~pass.lagging => listed.stale = {} /\ \A q \in Names : listed.seen[q] = stored[q]
      BY <1>1, SMT DEF CalmInv
    <3> QED BY <1>1, <2>1, <2>2, <3>1, <3>2, Frame DEF CalmInv
  <2> QED BY <1>10, <2>3, <2>6, <2>7, <2>8, <2>9
<1> QED BY <1>12, <1>13

\* The worker after GoOn.
LEMMA Going ==
    ASSUME TypeInv, NEW v, NEW u \in BOOLEAN, GoOn(v, u)
    PROVE  /\ visit' = v /\ pass' \in PassType /\ pass'.pc \in {"visit", "done"}
           /\ pass'.pc = "done" <=> v.pending = {} /\ v.left = {} /\ v.losers = {}
           /\ pass'.lagging = pass.lagging /\ (pass'.upset <=> pass.upset \/ u)
           /\ BuildInv' /\ PoliciesBlockOnlyMixed'
<1> DEFINE c == IF v.pending = {} /\ v.left = {} /\ v.losers = {} THEN "done" ELSE "visit"
<1>1. visit' = v /\ pass' = PassAt(c, u)
  BY DEF GoOn
<1>2. /\ c \in {"idle", "build", "visit", "done", "failed"} /\ c \in {"visit", "done"}
      /\ c = "done" <=> v.pending = {} /\ v.left = {} /\ v.losers = {}
  BY SMT
<1> HIDE DEF c
<1>3. /\ pass' \in PassType /\ pass'.pc = c
      /\ pass'.lagging = pass.lagging /\ (pass'.upset <=> pass.upset \/ u)
  BY <1>1, <1>2, PassFacts
<1>4. pass'.pc # "build" /\ pass'.pc # "failed"
  BY <1>2, <1>3, SMT
<1>5. BuildInv' /\ PoliciesBlockOnlyMixed'
  BY <1>4 DEF BuildInv, PoliciesBlockOnlyMixed
<1> QED BY <1>1, <1>2, <1>3, <1>5

\* What the loop has reached and achieved, after a step.
LEMMA After ==
    ASSUME policies' = policies, services' = services
    PROVE  /\ \A q, s : Visited(visit, q, s)' <=> Visited(visit', q, s)
           /\ \A q : Fine(q)' <=> \E t \in ServiceTargets(q) : Fits(listed'.seen[q], q, t)
<1>1. \A q, s : Visited(visit, q, s)' <=> Visited(visit', q, s)
  BY Frame DEF Visited
<1>2. \A q : Fine(q)' <=> \E t \in ServiceTargets(q) : Fits(listed'.seen[q], q, t)
  BY Frame DEF Fine, Fits, Outcome
<1> QED BY <1>1, <1>2

\* The loop enters a Service or skips it.  On entering, each policy that targets
\* it is found among its sections or its losers, so none is passed over.
LEMMA VisitStep ==
    ASSUME Inv, VisitService
    PROVE  Inv'
<1> USE DEF Inv
<1>1. /\ pass.pc = "visit" /\ visit.left = {} /\ visit.losers = {}
      /\ policies' = policies /\ attached' = attached /\ services' = services /\ stored' = stored
      /\ cached' = cached /\ behind' = behind /\ reading' = reading /\ lookup' = lookup
      /\ listed' = listed
  BY DEF VisitService, BetweenServices
<1>2. PICK svc \in visit.pending, u \in BOOLEAN :
         IF attached /\ (u => svc \in authz) THEN EnterService(svc, u) ELSE SkipService(svc, u)
  BY DEF VisitService
<1>3. visit \in VisitType /\ visit.pending \subseteq PolicyService /\ svc \in PolicyService
      /\ visit.confirmed \subseteq Names
  BY SMT DEF TypeInv, VisitType
<1>4. OldestHold /\ OldestHold'
  BY <1>1, KeepMap DEF OldestPolicyWins
<1>5. StoreInv'
  BY <1>1, KeepStore
<1>6. \A x \in Section : lookup.Invalid[<<svc, x>>] = Nil
  BY <1>1 DEF LoopInv, Visiting
<1>7. \A r \in visit.pending, x \in Section : lookup.Invalid[<<r, x>>] = Nil
  BY <1>1 DEF LoopInv, Visiting
<1>8. \A q : Fine(q)' <=> Fine(q)
  BY <1>1, After DEF Fine
<1>9. ASSUME NEW v \in VisitType, GoOn(v, u), v.pending = visit.pending \ {svc},
             v.confirmed = visit.confirmed,
             \A x \in v.left : lookup.Valid[<<v.service, x>>] # Nil,
             \A q \in v.losers : <<v.service, q>> \in lookup.Conflicted,
             v.left # {} \/ v.losers # {} =>
                v.service \in PolicyService \ v.pending /\ (v.exists <=> v.service \in services),
             attached /\ ~u => \A s \in Slot : \A q \in Targeting(s) :
                                 Visited(v, q, s) => Visited(visit, q, s)
      PROVE  Inv'
  <2>1. /\ visit' = v /\ pass' \in PassType /\ pass'.pc \in {"visit", "done"}
        /\ pass'.pc = "done" <=> v.pending = {} /\ v.left = {} /\ v.losers = {}
        /\ pass'.lagging = pass.lagging /\ (pass'.upset <=> pass.upset \/ u)
        /\ BuildInv' /\ PoliciesBlockOnlyMixed'
    BY <1>9, Going
  <2>2. TypeInv'
    BY <1>1, <1>9, <2>1, Frame, KeepTypes DEF TypeInv
  <2>3. LoopInv'
    BY <1>1, <1>7, <1>9, <2>1 DEF LoopInv
  <2>4. CalmInv'
    <3>1. ~pass.lagging => \A q \in Names : listed.seen[q] = stored[q]
      BY <1>1, SMT DEF CalmInv
    <3>2. ASSUME ~pass'.lagging, ~pass'.upset
          PROVE  /\ \A q \in listed'.stale \cup visit'.confirmed : Fine(q)'
                 /\ attached => \A s \in Slot : \A q \in Targeting(s) : Visited(visit', q, s) => Fine(q)'
      <4>1. ~pass.lagging /\ ~pass.upset /\ ~u /\ pass.pc # "idle" /\ Visiting
        BY <1>1, <2>1, <3>2, SMT DEF Visiting
      <4> QED BY <1>1, <1>8, <1>9, <2>1, <4>1 DEF CalmInv
    <3>3. pass'.pc # "build"
      BY <2>1, SMT
    <3>4. ASSUME ~pass'.lagging, ~pass'.upset, attached', NEW s \in Slot, NEW q \in Targeting(s)',
                 Visited(visit, q, s)'
          PROVE  Fine(q)'
      BY <1>1, <3>2, <3>4, Frame, After
    <3> QED BY <1>1, <1>9, <2>1, <3>1, <3>2, <3>3, <3>4, Frame DEF CalmInv
  <2> QED BY <1>4, <1>5, <2>1, <2>2, <2>3, <2>4 DEF OldestPolicyWins
<1>10. CASE attached /\ (u => svc \in authz)
  <2> DEFINE L == {x \in Section : lookup.Valid[<<svc, x>>] # Nil}
             C == {q \in DOMAIN policies : <<svc, q>> \in lookup.Conflicted}
             e == svc \in services
             v == [pending |-> visit.pending \ {svc}, service |-> svc, exists |-> e, left |-> L,
                   losers |-> C, confirmed |-> visit.confirmed]
  <2>1. GoOn(v, u)
    BY <1>2, <1>10 DEF EnterService
  <2>2. L \subseteq Section /\ C \subseteq Names /\ e \in BOOLEAN
    <3>1. (svc \in services) \in BOOLEAN
      BY ONLY SMT
    <3>2. C \subseteq Names
      BY DEF Names
    <3> QED BY <3>1, <3>2
  <2>3. \A s \in Slot : \A q \in Targeting(s) : s[1] = svc => IF Wins(q, s) THEN s[2] \in L ELSE q \in C
    <3> SUFFICES ASSUME NEW s \in Slot, NEW q \in Targeting(s), s[1] = svc
                 PROVE  IF Wins(q, s) THEN s[2] \in L ELSE q \in C
      OBVIOUS
    <3>1. s[2] \in Section /\ s = <<svc, s[2]>>
      BY SMT DEF Slot
    <3>2. lookup.Valid[s] # Nil
      BY <1>4, <1>6, <3>1, Holders
    <3>3. q \in Names
      BY TargetSlots DEF TypeInv
    <3>4. ~Wins(q, s) => <<svc, q>> \in lookup.Conflicted
      BY <1>3, <1>4, <3>1, <3>3 DEF OldestHold, Names
    <3> QED BY <3>1, <3>2, <3>3, <3>4 DEF Names
  <2>4. /\ \A x \in L : lookup.Valid[<<svc, x>>] # Nil
        /\ \A q \in C : <<svc, q>> \in lookup.Conflicted
        /\ e <=> svc \in services
    OBVIOUS
  <2> HIDE DEF L, C, e
  <2>5. /\ v \in VisitType /\ v.pending = visit.pending \ {svc} /\ v.confirmed = visit.confirmed
        /\ v.service = svc /\ v.left = L /\ v.losers = C /\ v.exists = e
    BY <1>3, <2>2, SMT DEF VisitType
  <2> HIDE DEF v
  <2>6. svc \in PolicyService \ v.pending
    BY <1>3, <2>5
  <2>7. ASSUME NEW s \in Slot, NEW q \in Targeting(s), Visited(v, q, s)
        PROVE  Visited(visit, q, s)
    <3>1. s[1] # svc
      BY <2>3, <2>5, <2>7 DEF Visited
    <3>2. s[1] \notin visit.pending
      BY <2>5, <2>7, <3>1 DEF Visited
    <3> QED BY <1>1, <3>2 DEF Visited
  <2> QED BY <1>9, <2>1, <2>4, <2>5, <2>6, <2>7
<1>11. CASE ~(attached /\ (u => svc \in authz))
  <2> DEFINE v == [visit EXCEPT !.pending = @ \ {svc}]
  <2>1. GoOn(v, u)
    BY <1>2, <1>11 DEF SkipService
  <2>2. v \in VisitType /\ v.pending = visit.pending \ {svc} /\ v.confirmed = visit.confirmed
        /\ v.left = {} /\ v.losers = {}
    BY <1>1, <1>3, SMT DEF VisitType
  <2> HIDE DEF v
  <2> QED BY <1>9, <1>11, <2>1, <2>2
<1> QED BY <1>10, <1>11

\* A failed read ends the reconcile and counts as a disturbance.
LEMMA FailedReadStep ==
    ASSUME Inv, pass.pc = "visit", FailedRead
    PROVE  Inv'
<1> USE DEF Inv
<1>1. /\ policies' = policies /\ stored' = stored /\ cached' = cached /\ behind' = behind
      /\ reading' = reading /\ lookup' = lookup /\ visit' = visit /\ listed' = listed
      /\ pass' = PassAt("failed", TRUE)
  BY DEF FailedRead, Fail, Unwritten
<1>2. /\ pass' \in PassType /\ pass'.pc = "failed" /\ pass'.lagging = pass.lagging /\ pass'.upset
  <2>1. "failed" \in {"idle", "build", "visit", "done", "failed"}
    OBVIOUS
  <2> QED BY <1>1, <2>1, PassFacts
<1>3. TypeInv'
  BY <1>1, <1>2, KeepTypes DEF TypeInv
<1>4. StoreInv'
  BY <1>1, KeepStore
<1>5. OldestPolicyWins'
  BY <1>1, KeepMap DEF OldestPolicyWins
<1>6. BuildInv' /\ LoopInv'
  BY <1>2, SMT DEF BuildInv, LoopInv, Visiting
<1>7. CalmInv'
  <2>1. ~Visiting' /\ pass'.pc # "build"
    BY <1>2, SMT DEF Visiting
  <2>2. ~pass.lagging => \A q \in Names : listed.seen[q] = stored[q]
    BY SMT DEF CalmInv
  <2> QED BY <1>1, <1>2, <2>1, <2>2, Frame DEF CalmInv
<1>8. PoliciesBlockOnlyMixed'
  BY <1>2 DEF PoliciesBlockOnlyMixed
<1> QED BY <1>3, <1>4, <1>5, <1>6, <1>7, <1>8

\* The loop goes past policy p, which then has what one of its targets asks for.
LEMMA CalmAfter ==
    ASSUME Inv, pass.pc = "visit", policies' = policies, services' = services, attached' = attached,
           NEW p \in Names, NEW v \in VisitType, GoOn(v, FALSE),
           v.confirmed \subseteq visit.confirmed \cup {p},
           v.left # {} \/ v.losers # {} =>
              (visit.left # {} \/ visit.losers # {}) /\ v.exists = visit.exists /\ v.service = visit.service,
           \A s \in Slot : \A q \in Targeting(s) : Visited(v, q, s) => Visited(visit, q, s) \/ q = p,
           listed'.stale \subseteq listed.stale \cup {p},
           \A q \in Names \ {p} : listed'.seen[q] = listed.seen[q] /\ stored'[q] = stored[q],
           ~pass.lagging => listed'.seen[p] = stored'[p],
           ~pass.lagging /\ ~pass.upset => Fine(p)'
    PROVE  CalmInv'
<1> USE DEF Inv
<1>1. /\ visit' = v /\ pass'.pc \in {"visit", "done"}
      /\ pass'.lagging = pass.lagging /\ (pass'.upset <=> pass.upset)
  BY Going
<1>2. pass'.pc # "build"
  BY <1>1, SMT
<1>3. ~pass.lagging => \A q \in Names : listed.seen[q] = stored[q]
  BY SMT DEF CalmInv
<1>4. ~pass.lagging => \A q \in Names : listed'.seen[q] = stored'[q]
  BY <1>3
<1>5. ASSUME ~pass.lagging, ~pass.upset
      PROVE  /\ visit.left # {} \/ visit.losers # {} => (visit.exists <=> visit.service \in services)
             /\ \A q \in listed.stale \cup visit.confirmed : Fine(q)
             /\ attached => \A s \in Slot : \A q \in Targeting(s) : Visited(visit, q, s) => Fine(q)
  <2>1. pass.pc # "idle" /\ Visiting
    BY SMT DEF Visiting
  <2> QED BY <1>5, <2>1 DEF CalmInv
<1>6. ASSUME ~pass.lagging, ~pass.upset, NEW q \in Names, Fine(q) PROVE Fine(q)'
  <2>1. CASE q = p
    BY <1>6, <2>1
  <2>2. CASE q # p
    BY <1>6, <2>2, After DEF Fine
  <2> QED BY <2>1, <2>2
<1>7. listed.stale \cup visit.confirmed \subseteq Names
  BY SMT DEF TypeInv, ListedType, VisitType
<1>8. ASSUME ~pass.lagging, ~pass.upset
      PROVE  /\ \A q \in listed'.stale \cup visit'.confirmed : Fine(q)'
             /\ visit'.left # {} \/ visit'.losers # {} => (visit'.exists <=> visit'.service \in services')
  <2>1. ASSUME NEW q \in listed'.stale \cup visit'.confirmed PROVE Fine(q)'
    <3>1. q = p \/ q \in listed.stale \cup visit.confirmed
      BY <1>1
    <3> QED BY <1>5, <1>6, <1>7, <1>8, <3>1
  <2> QED BY <1>1, <1>5, <1>8, <2>1
<1>9. ASSUME ~pass.lagging, ~pass.upset, attached', NEW s \in Slot, NEW q \in Targeting(s)',
             Visited(visit, q, s)'
      PROVE  Fine(q)'
  <2>1. q \in Targeting(s) /\ q \in Names /\ Visited(v, q, s)
    <3>1. q \in Targeting(s)
      BY <1>9, Frame
    <3>2. Visited(v, q, s)
      BY <1>1, <1>9, After
    <3> QED BY <3>1, <3>2, TargetSlots DEF TypeInv
  <2>2. CASE q = p
    BY <1>9, <2>2
  <2>3. CASE q # p
    <3>1. Visited(visit, q, s)
      BY <2>1, <2>3
    <3>2. Fine(q)
      BY <1>5, <1>9, <2>1, <3>1
    <3> QED BY <1>6, <1>9, <2>1, <3>2
  <2> QED BY <2>2, <2>3
<1>10. \A q \in Names' : q \in Names
  BY Frame
<1> QED BY <1>1, <1>2, <1>4, <1>8, <1>9, <1>10 DEF CalmInv

\* What a write leaves stored and listed.
LEMMA Written ==
    ASSUME TypeInv, StoreInv, policies' = policies, cached' = cached,
           NEW p \in Names, ServiceTargets(p) # {}, NEW new, IsStatus(new), Write(p, new)
    PROVE  /\ listed'.stale = listed.stale \cup {p} /\ DOMAIN stored' = DOMAIN stored /\ behind' \subseteq Names
           /\ ListedType' /\ StoreInv' /\ stored'[p] = new /\ listed'.seen[p] = new
           /\ \A q \in Names \ {p} : stored'[q] = stored[q] /\ listed'.seen[q] = listed.seen[q]
<1>1. /\ stored' = [stored EXCEPT ![p] = new] /\ behind' = behind \cup {p}
      /\ listed' = [seen |-> [listed.seen EXCEPT ![p] = new], stale |-> listed.stale \cup {p}]
  BY DEF Write
<1>2. /\ DOMAIN stored = Names /\ DOMAIN listed.seen = Names /\ listed.stale \subseteq Names
      /\ behind \subseteq Names
  BY DEF TypeInv, ListedType
<1>3. /\ listed'.seen = [listed.seen EXCEPT ![p] = new] /\ listed'.stale = listed.stale \cup {p}
  BY <1>1
<1>4. /\ DOMAIN stored' = Names /\ DOMAIN listed'.seen = Names
      /\ stored'[p] = new /\ listed'.seen[p] = new
      /\ \A q \in Names \ {p} : stored'[q] = stored[q] /\ listed'.seen[q] = listed.seen[q]
  BY <1>1, <1>2, <1>3, SMT
<1>5. ListedType'
  BY <1>1, <1>2, <1>3, <1>4, Frame DEF ListedType
<1>6. StoreInv'
  <2>1. \A q \in Names : IsStatus(stored'[q]) /\ IsStatus(cached'[q]) /\ IsStatus(listed'.seen[q])
    BY <1>4 DEF StoreInv
  <2>2. \A q \in Names \ behind' : cached'[q] = stored'[q]
    BY <1>1, <1>4 DEF StoreInv
  <2>3. \A q \in Names : ServiceTargets(q) = {} => stored'[q] = NoPolicyStatus
    BY <1>4 DEF StoreInv
  <2> QED BY <2>1, <2>2, <2>3, Frame DEF StoreInv
<1> QED BY <1>1, <1>2, <1>3, <1>4, <1>5, <1>6

\* A status is written, is as it was, or the call fails; u is the target it is for.
LEMMA Marked ==
    ASSUME Inv, pass.pc = "visit", policies' = policies, services' = services, attached' = attached,
           cached' = cached,
           NEW p \in Names, NEW u \in ServiceTargets(p), NEW v \in VisitType, NEW new, IsStatus(new),
           v.confirmed \subseteq visit.confirmed \cup {p},
           v.left # {} \/ v.losers # {} =>
              (visit.left # {} \/ visit.losers # {}) /\ v.exists = visit.exists /\ v.service = visit.service,
           \A s \in Slot : \A q \in Targeting(s) : Visited(v, q, s) => Visited(visit, q, s) \/ q = p,
           ~pass.lagging /\ ~pass.upset =>
              /\ Fits(new, p, u)
              /\ Wins(p, SlotOf(u)) \/ new = [accepted |-> Conflicted, resolved |-> listed.seen[p].resolved],
           updateBackendTLSPolicyStatus(p, new, v)
    PROVE  /\ StoreInv' /\ BuildInv' /\ CalmInv' /\ PoliciesBlockOnlyMixed'
           /\ pass' \in PassType /\ DOMAIN stored' = DOMAIN stored /\ behind' \subseteq Names /\ ListedType'
           /\ GoOn(v, FALSE) \/ (pass'.pc = "failed" /\ visit' = visit)
<1> USE DEF Inv
<1>1. CASE new = listed.seen[p] /\ GoOn(v, FALSE) /\ Unwritten
  <2>1. stored' = stored /\ behind' = behind /\ listed' = listed
    BY <1>1 DEF Unwritten
  <2>2. StoreInv'
    BY <2>1, KeepStore
  <2>3. ~pass.lagging => listed'.seen[p] = stored'[p]
    BY <2>1, SMT DEF CalmInv
  <2>4. ~pass.lagging /\ ~pass.upset => Fine(p)'
    BY <1>1, <2>1, After
  <2>5. CalmInv'
    BY <1>1, <2>1, <2>3, <2>4, CalmAfter
  <2>6. BuildInv' /\ PoliciesBlockOnlyMixed' /\ pass' \in PassType
    BY <1>1, Going
  <2> QED BY <1>1, <2>1, <2>2, <2>5, <2>6, KeepTypes DEF TypeInv
<1>2. CASE new # listed.seen[p] /\ p \in listed.stale /\ Fail(FALSE) /\ Unwritten
  <2>1. stored' = stored /\ behind' = behind /\ listed' = listed /\ visit' = visit
        /\ pass' = PassAt("failed", FALSE)
    BY <1>2 DEF Unwritten, Fail
  <2>2. /\ pass' \in PassType /\ pass'.pc = "failed" /\ pass'.lagging = pass.lagging
        /\ pass'.upset <=> pass.upset
    <3>1. "failed" \in {"idle", "build", "visit", "done", "failed"}
      OBVIOUS
    <3> QED BY <2>1, <3>1, PassFacts
  <2>3. StoreInv'
    BY <2>1, KeepStore
  <2>4. ~Visiting' /\ pass'.pc # "build"
    BY <2>2, SMT DEF Visiting
  <2>5. CalmInv'
    <3>1. ~pass.lagging => \A q \in Names : listed.seen[q] = stored[q]
      BY SMT DEF CalmInv
    <3> QED BY <2>1, <2>2, <2>4, <3>1, Frame DEF CalmInv
  <2>6. ASSUME ~pass.lagging, ~pass.upset
        PROVE  \E a, b \in Verdicts(p) : a # b
    <3>1. Fine(p)
      <4>1. pass.pc # "idle" /\ Visiting
        BY SMT DEF Visiting
      <4> QED BY <1>2, <2>6, <4>1 DEF CalmInv
    <3>2. PICK t \in ServiceTargets(p) : Fits(listed.seen[p], p, t)
      BY <3>1 DEF Fine
    <3>3. IsStatus(listed.seen[p])
      BY DEF StoreInv
    <3>4. Verdict(p, t) # Verdict(p, u)
      BY <1>2, <2>6, <3>2, <3>3, SameVerdict
    <3>5. Verdict(p, t) \in Verdicts(p) /\ Verdict(p, u) \in Verdicts(p)
      BY DEF Verdicts
    <3> QED BY <3>4, <3>5
  <2>7. PoliciesBlockOnlyMixed'
    <3>1. Verdicts(p)' = Verdicts(p) /\ p \in (DOMAIN policies)'
      BY FrameVerdicts DEF Names
    <3>2. ~pass.lagging /\ ~pass.upset => \E q \in (DOMAIN policies)' : \E a, b \in Verdicts(q)' : a # b
      BY <2>6, <3>1
    <3> QED BY <2>2, <3>2 DEF PoliciesBlockOnlyMixed
  <2> QED BY <2>1, <2>2, <2>3, <2>4, <2>5, <2>7, KeepTypes DEF TypeInv, BuildInv
<1>3. CASE new # listed.seen[p] /\ p \notin listed.stale /\ GoOn(v, FALSE) /\ Write(p, new)
  <2>1. /\ listed'.stale = listed.stale \cup {p} /\ DOMAIN stored' = DOMAIN stored /\ behind' \subseteq Names
        /\ ListedType' /\ StoreInv' /\ stored'[p] = new /\ listed'.seen[p] = new
        /\ \A q \in Names \ {p} : stored'[q] = stored[q] /\ listed'.seen[q] = listed.seen[q]
    BY <1>3, Written
  <2>2. ~pass.lagging /\ ~pass.upset => Fine(p)'
    BY <2>1, After
  <2>3. CalmInv'
    BY <1>3, <2>1, <2>2, CalmAfter
  <2>4. BuildInv' /\ PoliciesBlockOnlyMixed' /\ pass' \in PassType
    BY <1>3, Going
  <2> QED BY <1>3, <2>1, <2>3, <2>4
<1>4. CASE /\ new # listed.seen[p] /\ Fail(TRUE)
           /\ Unwritten \/ (p \notin listed.stale /\ Write(p, new))
  <2>1. visit' = visit /\ pass' = PassAt("failed", TRUE)
    BY <1>4 DEF Fail
  <2>2. /\ pass' \in PassType /\ pass'.pc = "failed" /\ pass'.lagging = pass.lagging /\ pass'.upset
    <3>1. "failed" \in {"idle", "build", "visit", "done", "failed"}
      OBVIOUS
    <3> QED BY <2>1, <3>1, PassFacts
  <2>3. ~Visiting' /\ pass'.pc # "build"
    BY <2>2, SMT DEF Visiting
  <2>4. ~pass.lagging => \A q \in Names : listed.seen[q] = stored[q]
    BY SMT DEF CalmInv
  <2>5. BuildInv' /\ PoliciesBlockOnlyMixed'
    BY <2>2, <2>3 DEF BuildInv, PoliciesBlockOnlyMixed
  <2>6. CASE Unwritten
    <3>1. stored' = stored /\ behind' = behind /\ listed' = listed
      BY <2>6 DEF Unwritten
    <3>2. StoreInv'
      BY <3>1, KeepStore
    <3>3. CalmInv'
      BY <2>2, <2>3, <2>4, <3>1, Frame DEF CalmInv
    <3> QED BY <2>1, <2>2, <2>5, <3>1, <3>2, <3>3, KeepTypes DEF TypeInv
  <2>7. CASE Write(p, new)
    <3>1. /\ DOMAIN stored' = DOMAIN stored /\ behind' \subseteq Names
          /\ ListedType' /\ StoreInv' /\ stored'[p] = new /\ listed'.seen[p] = new
          /\ \A q \in Names \ {p} : stored'[q] = stored[q] /\ listed'.seen[q] = listed.seen[q]
      BY <2>7, Written
    <3>2. ~pass.lagging => \A q \in Names : listed'.seen[q] = stored'[q]
      BY <2>4, <3>1
    <3>3. CalmInv'
      BY <2>2, <2>3, <3>2, Frame DEF CalmInv
    <3> QED BY <2>1, <2>2, <2>5, <3>1, <3>3
  <2> QED BY <1>4, <2>6, <2>7
<1> QED BY <1>1, <1>2, <1>3, <1>4 DEF updateBackendTLSPolicyStatus

\* The same for a policy the loop passes by.
LEMMA Passed ==
    ASSUME Inv, pass.pc = "visit", policies' = policies, services' = services, attached' = attached,
           cached' = cached,
           NEW p \in Names, NEW v \in VisitType,
           v.confirmed \subseteq visit.confirmed \cup {p},
           v.left # {} \/ v.losers # {} =>
              (visit.left # {} \/ visit.losers # {}) /\ v.exists = visit.exists /\ v.service = visit.service,
           \A s \in Slot : \A q \in Targeting(s) : Visited(v, q, s) => Visited(visit, q, s) \/ q = p,
           p \in visit.confirmed, GoOn(v, FALSE), Unwritten
    PROVE  /\ StoreInv' /\ BuildInv' /\ CalmInv' /\ PoliciesBlockOnlyMixed'
           /\ pass' \in PassType /\ DOMAIN stored' = DOMAIN stored /\ behind' \subseteq Names /\ ListedType'
<1> USE DEF Inv
<1>1. stored' = stored /\ behind' = behind /\ listed' = listed
  BY DEF Unwritten
<1>2. StoreInv'
  BY <1>1, KeepStore
<1>3. ~pass.lagging => listed'.seen[p] = stored'[p]
  BY <1>1, SMT DEF CalmInv
<1>4. ~pass.lagging /\ ~pass.upset => Fine(p)'
  <2>1. pass.pc # "idle" /\ Visiting
    BY SMT DEF Visiting
  <2> QED BY <1>1, <2>1, After DEF CalmInv, Fine
<1>5. CalmInv'
  BY <1>1, <1>3, <1>4, CalmAfter
<1>6. BuildInv' /\ PoliciesBlockOnlyMixed' /\ pass' \in PassType
  BY Going
<1> QED BY <1>1, <1>2, <1>5, <1>6, KeepTypes DEF TypeInv

\* The holder of a section gets its status and may move to Invalid.
LEMMA MarkSectionStep ==
    ASSUME Inv, MarkSection
    PROVE  Inv'
<1> USE DEF Inv
<1>1. /\ pass.pc = "visit" /\ policies' = policies /\ attached' = attached /\ services' = services
      /\ cached' = cached /\ reading' = reading
  BY DEF MarkSection
<1>2. PICK x \in visit.left :
        LET p == lookup.Valid[<<visit.service, x>>]
        IN  \/ visit.exists /\ MarkValidated(p, x)
            \/ ~visit.exists /\ MarkMissing(p, x) /\ UNCHANGED lookup
  BY DEF MarkSection
<1> DEFINE s == <<visit.service, x>>
           p == lookup.Valid[s]
<1>3. /\ visit \in VisitType /\ lookup \in LookupType /\ Admitted(policies)
      /\ x \in Section /\ visit.confirmed \subseteq Names /\ visit.pending \subseteq PolicyService
      /\ visit.left \subseteq Section
  BY SMT DEF TypeInv, VisitType
<1>4. /\ \A y \in visit.left : lookup.Valid[<<visit.service, y>>] # Nil
      /\ \A q \in visit.losers : <<visit.service, q>> \in lookup.Conflicted
      /\ visit.service \in PolicyService \ visit.pending
      /\ \A svc \in visit.pending, y \in Section : lookup.Invalid[<<svc, y>>] = Nil
  BY <1>1 DEF LoopInv, Visiting
<1>5. s \in Slot /\ s[1] = visit.service /\ s[2] = x
  BY <1>3, <1>4, SMT DEF Slot
<1>6. OldestHold
  BY <1>1 DEF OldestPolicyWins
<1>7. p # Nil /\ p \in Names /\ Wins(p, s) /\ p \in Targeting(s)
  BY <1>4, <1>5, <1>6, Holders DEF Wins
<1> HIDE DEF p
<1>8. PICK t \in ServiceTargets(p) : SlotOf(t) = s
  BY <1>3, <1>7, TargetSlots
<1>9. t.service = visit.service
  BY <1>3, <1>5, <1>7, <1>8, TargetSlots
<1> HIDE DEF s
<1>10. ~pass.lagging /\ ~pass.upset => (visit.exists <=> t.service \in services)
  <2>1. pass.pc # "idle" /\ Visiting
    BY <1>1, SMT DEF Visiting
  <2> QED BY <1>9, <2>1 DEF CalmInv
<1>11. ASSUME NEW v, v.pending = visit.pending, v.service = visit.service, v.losers = visit.losers,
              v.left = visit.left \ {x}, NEW r \in Slot, NEW q \in Targeting(r), Visited(v, q, r)
       PROVE  Visited(visit, q, r) \/ q = p
  <2> SUFFICES ASSUME ~Visited(visit, q, r) PROVE q = p
    OBVIOUS
  <2>1. r[1] = visit.service /\ Wins(q, r) /\ r[2] = x
    BY <1>11 DEF Visited
  <2>2. r = s
    BY <1>3, <1>5, <2>1, SMT DEF Slot, s
  <2> QED BY <1>3, <1>7, <2>1, <2>2, OneWinner
<1>12. ASSUME NEW v \in VisitType, v.pending = visit.pending, v.service = visit.service,
              v.losers = visit.losers, v.left = visit.left \ {x},
              lookup' \in LookupType, lookup'.Conflicted = lookup.Conflicted,
              lookup'.Valid[s] = Nil \/ lookup'.Invalid[s] = Nil, Holder(lookup', s) = p,
              \A r \in Slot : r # s => lookup'.Valid[r] = lookup.Valid[r] /\ lookup'.Invalid[r] = lookup.Invalid[r],
              StoreInv', BuildInv', CalmInv', PoliciesBlockOnlyMixed', pass' \in PassType,
              DOMAIN stored' = DOMAIN stored, behind' \subseteq Names, ListedType',
              GoOn(v, FALSE) \/ (pass'.pc = "failed" /\ visit' = visit)
       PROVE  Inv'
  <2>1. TypeInv'
    <3>1. visit' \in VisitType
      BY <1>3, <1>12, Going
    <3> QED BY <1>1, <1>12, <3>1, Frame, KeepTypes DEF TypeInv
  <2>2. OldestHold'
    <3>1. ASSUME NEW r \in Slot
          PROVE  /\ lookup'.Valid[r] = Nil \/ lookup'.Invalid[r] = Nil
                 /\ Targeting(r) = {} => Holder(lookup', r) = Nil
                 /\ Targeting(r) # {} => \E q \in Targeting(r) : Wins(q, r) /\ Holder(lookup', r) = q
      <4>1. CASE r = s
        BY <1>7, <1>12, <4>1
      <4>2. CASE r # s
        <5>1. Holder(lookup', r) = Holder(lookup, r)
          BY <1>12, <4>2 DEF Holder
        <5> QED BY <1>6, <1>12, <4>2, <5>1 DEF OldestHold
      <4> QED BY <4>1, <4>2
    <3>2. \A svc \in PolicyService, q \in Names :
              <<svc, q>> \in lookup'.Conflicted <=>
                 \E y \in Section : q \in Targeting(<<svc, y>>) /\ ~Wins(q, <<svc, y>>)
      BY <1>6, <1>12 DEF OldestHold, Names
    <3> QED BY <1>1, <3>1, <3>2, HoldAfter
  <2>3. LoopInv'
    <3>1. CASE GoOn(v, FALSE)
      <4>1. /\ visit' = v
            /\ pass'.pc = "done" => v.pending = {} /\ v.left = {} /\ v.losers = {}
        BY <3>1, Going
      <4>2. \A svc \in PolicyService, y \in Section :
               <<svc, y>> \in Slot /\ (<<svc, y>> = s <=> svc = visit.service /\ y = x)
        <5>1. \A svc \in PolicyService, y \in Section : <<svc, y>> \in Slot
          BY DEF Slot
        <5>2. \A svc, y : <<svc, y>> = s <=> svc = visit.service /\ y = x
          BY SMT DEF s
        <5> QED BY <5>1, <5>2
      <4>3. ASSUME NEW y \in visit.left \ {x} PROVE lookup'.Valid[<<visit.service, y>>] # Nil
        <5>1. <<visit.service, y>> \in Slot /\ <<visit.service, y>> # s
          BY <1>3, <1>4, <4>2
        <5> QED BY <1>4, <1>12, <5>1
      <4>4. ASSUME NEW svc \in visit.pending, NEW y \in Section PROVE lookup'.Invalid[<<svc, y>>] = Nil
        <5>1. <<svc, y>> \in Slot /\ <<svc, y>> # s
          BY <1>3, <1>4, <4>2
        <5> QED BY <1>4, <1>12, <5>1
      <4> QED BY <1>4, <1>12, <4>1, <4>3, <4>4 DEF LoopInv
    <3>2. CASE pass'.pc = "failed"
      BY <3>2, SMT DEF LoopInv, Visiting
    <3> QED BY <1>12, <3>1, <3>2
  <2> QED BY <1>12, <2>1, <2>2, <2>3 DEF OldestPolicyWins
<1>13. CASE visit.exists
  <2> DEFINE ca == policies[p].ca
             c == IF CAValid(ca) THEN visit.confirmed \cup {p} ELSE visit.confirmed
             v == [AfterSection(x) EXCEPT !.confirmed = c]
  <2>1. MarkValidated(p, x)
    BY <1>2, <1>13 DEF p, s
  <2> DEFINE a == AfterSection(x)
  <2>2. /\ a \in VisitType /\ a.pending = visit.pending /\ a.service = visit.service
        /\ a.exists = visit.exists /\ a.losers = visit.losers /\ a.left = visit.left \ {x}
        /\ a.confirmed = visit.confirmed
    BY <1>3, SMT DEF AfterSection, VisitType
  <2>3. /\ updateBackendTLSPolicyStatus(p, Accepted(ca), v)
        /\ lookup' = (IF CAValid(ca) THEN lookup
                      ELSE [Valid      |-> [lookup.Valid EXCEPT ![s] = Nil],
                            Invalid    |-> [lookup.Invalid EXCEPT ![s] = p],
                            Conflicted |-> lookup.Conflicted])
    BY <2>1, <2>2 DEF MarkValidated, s
  <2>4. c \subseteq visit.confirmed \cup {p} /\ c \subseteq Names
    BY <1>3, <1>7
  <2>5. IsStatus(Accepted(ca))
    BY DEF IsStatus, Accepted
  <2>6. ~pass.lagging /\ ~pass.upset => Fits(Accepted(ca), p, t)
    BY <1>7, <1>8, <1>10, <1>13 DEF Fits, Outcome
  <2> HIDE DEF c
  <2>7. /\ v \in VisitType /\ v.pending = visit.pending /\ v.service = visit.service
        /\ v.exists = visit.exists /\ v.losers = visit.losers /\ v.left = visit.left \ {x}
        /\ v.confirmed = c
    <3>1. v = [a EXCEPT !.confirmed = c]
      OBVIOUS
    <3> HIDE DEF v, a
    <3> QED BY <2>2, <2>4, <3>1, SMT DEF VisitType
  <2> HIDE DEF v, ca
  <2>8. /\ StoreInv' /\ BuildInv' /\ CalmInv' /\ PoliciesBlockOnlyMixed'
        /\ pass' \in PassType /\ DOMAIN stored' = DOMAIN stored /\ behind' \subseteq Names /\ ListedType'
        /\ GoOn(v, FALSE) \/ (pass'.pc = "failed" /\ visit' = visit)
    <3>1. \A r \in Slot : \A q \in Targeting(r) : Visited(v, q, r) => Visited(visit, q, r) \/ q = p
      BY <1>11, <2>7
    <3>2. v.left # {} \/ v.losers # {} =>
            (visit.left # {} \/ visit.losers # {}) /\ v.exists = visit.exists /\ v.service = visit.service
      BY <2>7
    <3>3. v.confirmed \subseteq visit.confirmed \cup {p} /\ v \in VisitType
      BY <2>4, <2>7
    <3>4. Wins(p, SlotOf(t))
      BY <1>7, <1>8
    <3> QED BY <1>1, <1>7, <2>3, <2>5, <2>6, <3>1, <3>2, <3>3, <3>4, Marked
  <2>9. /\ lookup' \in LookupType /\ lookup'.Conflicted = lookup.Conflicted
        /\ lookup'.Valid[s] = Nil \/ lookup'.Invalid[s] = Nil
        /\ Holder(lookup', s) = p
        /\ \A r \in Slot : r # s => lookup'.Valid[r] = lookup.Valid[r] /\ lookup'.Invalid[r] = lookup.Invalid[r]
    <3>1. CASE CAValid(ca)
      BY <1>3, <1>5, <1>6, <1>7, <2>3, <3>1 DEF OldestHold, Holder, p
    <3>2. CASE ~CAValid(ca)
      <4>1. /\ lookup'.Valid = [lookup.Valid EXCEPT ![s] = Nil]
            /\ lookup'.Invalid = [lookup.Invalid EXCEPT ![s] = p]
            /\ lookup'.Conflicted = lookup.Conflicted
            /\ lookup' = [Valid |-> lookup'.Valid, Invalid |-> lookup'.Invalid, Conflicted |-> lookup'.Conflicted]
        BY <2>3, <3>2
      <4>2. /\ lookup.Valid \in [Slot -> Names \cup {Nil}] /\ lookup.Invalid \in [Slot -> Names \cup {Nil}]
            /\ lookup.Conflicted \in SUBSET (PolicyService \X Names)
        BY <1>3, SMTT(20) DEF LookupType
      <4>3. /\ lookup'.Valid \in [Slot -> Names \cup {Nil}] /\ lookup'.Invalid \in [Slot -> Names \cup {Nil}]
            /\ lookup'.Valid[s] = Nil /\ lookup'.Invalid[s] = p
            /\ \A r \in Slot : r # s => lookup'.Valid[r] = lookup.Valid[r] /\ lookup'.Invalid[r] = lookup.Invalid[r]
        BY <1>5, <1>7, <4>1, <4>2, SMTT(20)
      <4>4. lookup' \in LookupType
        BY <4>1, <4>2, <4>3, SMT DEF LookupType
      <4> QED BY <4>1, <4>3, <4>4 DEF Holder
    <3> QED BY <3>1, <3>2
  <2> QED BY <1>12, <2>7, <2>8, <2>9
<1>14. CASE ~visit.exists
  <2> DEFINE v == AfterSection(x)
             new == TargetMissing(visit.service)
  <2>1. MarkMissing(p, x) /\ lookup' = lookup
    BY <1>2, <1>14 DEF p, s
  <2>2. /\ v \in VisitType /\ v.pending = visit.pending /\ v.service = visit.service
        /\ v.exists = visit.exists /\ v.losers = visit.losers /\ v.left = visit.left \ {x}
        /\ v.confirmed = visit.confirmed
    BY <1>3, SMT DEF AfterSection, VisitType
  <2>3. IsStatus(new)
    BY DEF IsStatus, TargetMissing
  <2>4. ~pass.lagging /\ ~pass.upset => Fits(new, p, t)
    BY <1>7, <1>8, <1>9, <1>10, <1>14 DEF Fits, Outcome
  <2>5. \/ p \in visit.confirmed /\ GoOn(v, FALSE) /\ Unwritten
        \/ updateBackendTLSPolicyStatus(p, new, v)
    BY <2>1 DEF MarkMissing
  <2> HIDE DEF v, new
  <2>6. \A r \in Slot : \A q \in Targeting(r) : Visited(v, q, r) => Visited(visit, q, r) \/ q = p
    BY <1>11, <2>2
  <2>7. v.left # {} \/ v.losers # {} =>
          (visit.left # {} \/ visit.losers # {}) /\ v.exists = visit.exists /\ v.service = visit.service
    BY <2>2
  <2>8. v.confirmed \subseteq visit.confirmed \cup {p} /\ v \in VisitType
    BY <2>2
  <2>9. Wins(p, SlotOf(t))
    BY <1>7, <1>8
  <2>10. /\ StoreInv' /\ BuildInv' /\ CalmInv' /\ PoliciesBlockOnlyMixed'
         /\ pass' \in PassType /\ DOMAIN stored' = DOMAIN stored /\ behind' \subseteq Names /\ ListedType'
         /\ GoOn(v, FALSE) \/ (pass'.pc = "failed" /\ visit' = visit)
    <3>1. CASE p \in visit.confirmed /\ GoOn(v, FALSE) /\ Unwritten
      BY <1>1, <1>7, <2>6, <2>7, <2>8, <3>1, Passed
    <3>2. CASE updateBackendTLSPolicyStatus(p, new, v)
      BY <1>1, <1>7, <2>3, <2>4, <2>6, <2>7, <2>8, <2>9, <3>2, Marked
    <3> QED BY <2>5, <3>1, <3>2
  <2>11. /\ lookup'.Valid[s] = Nil \/ lookup'.Invalid[s] = Nil
         /\ Holder(lookup', s) = p
    BY <1>5, <1>6, <1>7, <2>1 DEF OldestHold, Holder, p
  <2> QED BY <1>3, <1>12, <2>1, <2>2, <2>10, <2>11
<1> QED BY <1>13, <1>14

\* A conflicted policy gets its status: it is for the section it lost.
LEMMA MarkLoserStep ==
    ASSUME Inv, MarkLoser
    PROVE  Inv'
<1> USE DEF Inv
<1>1. /\ pass.pc = "visit" /\ policies' = policies /\ attached' = attached /\ services' = services
      /\ cached' = cached /\ reading' = reading /\ lookup' = lookup
  BY DEF MarkLoser
<1>2. PICK p \in visit.losers : MarkConflicted(p)
  BY DEF MarkLoser
<1>3. /\ visit \in VisitType /\ Admitted(policies) /\ p \in Names /\ visit.losers \subseteq Names
  BY SMT DEF TypeInv, VisitType
<1>4. /\ \A y \in visit.left : lookup.Valid[<<visit.service, y>>] # Nil
      /\ \A q \in visit.losers : <<visit.service, q>> \in lookup.Conflicted
      /\ visit.service \in PolicyService \ visit.pending
      /\ \A svc \in visit.pending, y \in Section : lookup.Invalid[<<svc, y>>] = Nil
  BY <1>1 DEF LoopInv, Visiting
<1>5. OldestHold /\ OldestHold'
  BY <1>1, KeepMap DEF OldestPolicyWins
<1>6. PICK x \in Section : p \in Targeting(<<visit.service, x>>) /\ ~Wins(p, <<visit.service, x>>)
  BY <1>3, <1>4, <1>5 DEF OldestHold, Names
<1>7. PICK t \in ServiceTargets(p) : SlotOf(t) = <<visit.service, x>>
  BY <1>3, <1>6, TargetSlots
<1> DEFINE v == AfterLoser(p)
           new == [accepted |-> Conflicted, resolved |-> listed.seen[p].resolved]
<1>8. /\ v \in VisitType /\ v.pending = visit.pending /\ v.service = visit.service
      /\ v.exists = visit.exists /\ v.left = visit.left /\ v.losers = visit.losers \ {p}
      /\ v.confirmed = visit.confirmed
  BY <1>3, SMT DEF AfterLoser, VisitType
<1>9. IsStatus(new) /\ Fits(new, p, t)
  BY <1>6, <1>7 DEF IsStatus, Fits
<1>10. \/ p \in visit.confirmed /\ GoOn(v, FALSE) /\ Unwritten
       \/ updateBackendTLSPolicyStatus(p, new, v)
  BY <1>2 DEF MarkConflicted
<1>11. new = [accepted |-> Conflicted, resolved |-> listed.seen[p].resolved]
  OBVIOUS
<1> HIDE DEF v, new
<1>12. \A r \in Slot : \A q \in Targeting(r) : Visited(v, q, r) => Visited(visit, q, r) \/ q = p
  BY <1>8 DEF Visited
<1>13. v.left # {} \/ v.losers # {} =>
         (visit.left # {} \/ visit.losers # {}) /\ v.exists = visit.exists /\ v.service = visit.service
  BY <1>8
<1>14. v.confirmed \subseteq visit.confirmed \cup {p} /\ v \in VisitType
  BY <1>8
<1>15. /\ StoreInv' /\ BuildInv' /\ CalmInv' /\ PoliciesBlockOnlyMixed'
       /\ pass' \in PassType /\ DOMAIN stored' = DOMAIN stored /\ behind' \subseteq Names /\ ListedType'
       /\ GoOn(v, FALSE) \/ (pass'.pc = "failed" /\ visit' = visit)
  <2>1. CASE p \in visit.confirmed /\ GoOn(v, FALSE) /\ Unwritten
    BY <1>1, <1>3, <1>12, <1>13, <1>14, <2>1, Passed
  <2>2. CASE updateBackendTLSPolicyStatus(p, new, v)
    BY <1>1, <1>3, <1>9, <1>11, <1>12, <1>13, <1>14, <2>2, Marked
  <2> QED BY <1>10, <2>1, <2>2
<1>16. TypeInv'
  <2>1. visit' \in VisitType
    BY <1>3, <1>14, <1>15, Going
  <2> QED BY <1>1, <1>15, <2>1, Frame, KeepTypes DEF TypeInv
<1>17. LoopInv'
  <2>1. CASE GoOn(v, FALSE)
    <3>1. /\ visit' = v
          /\ pass'.pc = "done" => v.pending = {} /\ v.left = {} /\ v.losers = {}
      BY <2>1, Going
    <3> QED BY <1>1, <1>4, <1>8, <3>1 DEF LoopInv
  <2>2. CASE pass'.pc = "failed"
    BY <2>2, SMT DEF LoopInv, Visiting
  <2> QED BY <1>15, <2>1, <2>2
<1> QED BY <1>5, <1>15, <1>16, <1>17 DEF OldestPolicyWins

\* Between two reconciles only the stored and cached statuses remain.
LEMMA EndStep ==
    ASSUME Inv, PassEnds
    PROVE  Inv'
<1> USE DEF Inv
<1>1. /\ policies' = policies /\ stored' = stored /\ cached' = cached /\ behind' = behind
      /\ pass' = [NoPass EXCEPT !.n = pass.n]
      /\ reading' = NoReading /\ lookup' = NoLookup /\ visit' = NoVisit /\ listed' = NoListed
  BY DEF PassEnds
<1>2. pass' \in PassType /\ pass'.pc = "idle"
  <2>1. pass.n \in Nat
    BY SMT DEF TypeInv, PassType
  <2>2. NoPass \in PassType /\ NoPass.pc = "idle"
    BY SMT DEF NoPass, PassType
  <2> QED BY <1>1, <2>1, <2>2, SMT DEF PassType
<1>3. /\ lookup' \in LookupType /\ visit' \in VisitType
      /\ reading' \in [todo : SUBSET Names, policy : Names \cup {Nil}, at : Nat \ {0}]
  BY <1>1, SMT DEF NoReading, NoLookup, NoVisit, LookupType, VisitType
<1>4. /\ listed' = [seen |-> listed'.seen, stale |-> listed'.stale]
      /\ DOMAIN listed'.seen = Names /\ listed'.stale = {}
      /\ \A p \in Names : listed'.seen[p] = NoPolicyStatus
  BY <1>1 DEF NoListed, NoStatuses, Names
<1>5. TypeInv'
  <2>1. ListedType'
    BY <1>1, <1>4, Frame DEF ListedType
  <2> QED BY <1>1, <1>2, <1>3, <2>1, Frame, KeepTypes DEF TypeInv
<1>6. StoreInv'
  <2>1. IsStatus(NoPolicyStatus)
    BY DEF IsStatus, NoPolicyStatus
  <2> QED BY <1>1, <1>4, <2>1, Frame DEF StoreInv
<1>7. BuildInv' /\ LoopInv' /\ CalmInv' /\ OldestPolicyWins' /\ PoliciesBlockOnlyMixed'
  BY <1>2, SMT DEF BuildInv, LoopInv, Visiting, CalmInv, OldestPolicyWins, PoliciesBlockOnlyMixed
<1> QED BY <1>5, <1>6, <1>7

\* The cache catches up; a reconcile in progress keeps its list.
LEMMA SyncStep ==
    ASSUME Inv, SyncPolicy
    PROVE  Inv'
<1> USE DEF Inv
<1>1. PICK p \in behind : cached' = [cached EXCEPT ![p] = stored[p]] /\ behind' = behind \ {p}
  BY DEF SyncPolicy
<1>2. /\ policies' = policies /\ attached' = attached /\ services' = services /\ stored' = stored
      /\ pass' = pass /\ reading' = reading /\ lookup' = lookup /\ visit' = visit /\ listed' = listed
  BY DEF SyncPolicy, passVars
<1>3. DOMAIN cached = Names /\ p \in Names /\ behind \subseteq Names
  BY DEF TypeInv
<1>4. /\ DOMAIN cached' = Names /\ cached'[p] = stored[p]
      /\ \A q \in Names \ {p} : cached'[q] = cached[q]
  BY <1>1, <1>3, SMT
<1>5. TypeInv'
  BY <1>1, <1>2, <1>3, <1>4, Frame, KeepTypes DEF TypeInv
<1>6. StoreInv'
  <2>1. \A q \in Names : IsStatus(cached'[q])
    BY <1>4 DEF StoreInv
  <2>2. \A q \in Names \ behind' : cached'[q] = stored[q]
    BY <1>1, <1>4 DEF StoreInv
  <2> QED BY <1>2, <2>1, <2>2, Frame DEF StoreInv
<1>7. BuildInv' /\ OldestPolicyWins' /\ LoopInv'
  BY <1>2, KeepPass
<1>8. CalmInv'
  <2>1. \A q : Fine(q)' <=> Fine(q)
    BY <1>2, After DEF Fine
  <2>2. \A q, s : Visited(visit, q, s)' <=> Visited(visit, q, s)
    BY <1>2, After
  <2> QED BY <1>2, <2>1, <2>2, Frame DEF CalmInv, Visiting
<1>9. PoliciesBlockOnlyMixed'
  BY <1>2, FrameVerdicts DEF PoliciesBlockOnlyMixed
<1> QED BY <1>5, <1>6, <1>7, <1>8, <1>9

\* A changed Service disturbs the reconcile in progress.
LEMMA ChangeStep ==
    ASSUME Inv, ChangeService
    PROVE  Inv'
<1> USE DEF Inv
<1>1. /\ policies' = policies /\ attached' = attached /\ stored' = stored /\ cached' = cached
      /\ behind' = behind /\ reading' = reading /\ lookup' = lookup /\ visit' = visit
      /\ listed' = listed /\ pass' = PassAt(pass.pc, TRUE)
  BY DEF ChangeService
<1>2. /\ pass' \in PassType /\ pass'.pc = pass.pc /\ pass'.lagging = pass.lagging /\ pass'.upset
  <2>1. pass.pc \in {"idle", "build", "visit", "done", "failed"}
    BY SMT DEF TypeInv, PassType
  <2> QED BY <1>1, <2>1, PassFacts
<1>3. TypeInv'
  BY <1>1, <1>2, KeepTypes DEF TypeInv
<1>4. StoreInv'
  BY <1>1, KeepStore
<1>5. BuildInv' /\ OldestPolicyWins' /\ LoopInv'
  BY <1>1, <1>2, KeepPass
<1>6. CalmInv'
  BY <1>1, <1>2, Frame DEF CalmInv
<1>7. PoliciesBlockOnlyMixed'
  BY <1>2 DEF PoliciesBlockOnlyMixed
<1> QED BY <1>3, <1>4, <1>5, <1>6, <1>7

\* Steps of the rest of the system.
LEMMA StutterStep ==
    ASSUME Inv, UNCHANGED policyVars
    PROVE  Inv'
<1> USE DEF Inv
<1>1. /\ policies' = policies /\ attached' = attached /\ services' = services /\ stored' = stored
      /\ cached' = cached /\ behind' = behind
      /\ pass' = pass /\ reading' = reading /\ lookup' = lookup /\ visit' = visit /\ listed' = listed
  BY DEF policyVars, passVars
<1>2. TypeInv'
  BY <1>1, KeepTypes DEF TypeInv
<1>3. StoreInv'
  BY <1>1, KeepStore
<1>4. BuildInv' /\ OldestPolicyWins' /\ LoopInv'
  BY <1>1, KeepPass
<1>5. CalmInv'
  <2>1. \A q : Fine(q)' <=> Fine(q)
    BY <1>1, After DEF Fine
  <2>2. \A q, s : Visited(visit, q, s)' <=> Visited(visit, q, s)
    BY <1>1, After
  <2> QED BY <1>1, <2>1, <2>2, Frame DEF CalmInv, Visiting
<1>6. PoliciesBlockOnlyMixed'
  BY <1>1, FrameVerdicts DEF PoliciesBlockOnlyMixed
<1> QED BY <1>2, <1>3, <1>4, <1>5, <1>6

\* The invariant holds at first.
LEMMA InitInv ==
    ASSUME Admitted(policies), PolicyInit(policies, attached, authz, services)
    PROVE  Inv
<1>1. /\ stored = NoStatuses /\ cached = NoStatuses /\ behind = {} /\ pass = NoPass
      /\ reading = NoReading /\ lookup = NoLookup /\ visit = NoVisit /\ listed = NoListed
  BY DEF PolicyInit
<1>2. pass \in PassType /\ pass.pc = "idle"
  BY <1>1, SMTT(20) DEF NoPass, PassType
<1>3. /\ lookup \in LookupType /\ visit \in VisitType
      /\ reading \in [todo : SUBSET Names, policy : Names \cup {Nil}, at : Nat \ {0}]
  BY <1>1, SMT DEF NoReading, NoLookup, NoVisit, LookupType, VisitType
<1>4. /\ DOMAIN stored = Names /\ DOMAIN cached = Names /\ ListedType
      /\ \A p \in Names : stored[p] = NoPolicyStatus /\ cached[p] = NoPolicyStatus
                          /\ listed.seen[p] = NoPolicyStatus
  BY <1>1 DEF NoListed, NoStatuses, Names, ListedType
<1>5. TypeInv
  BY <1>1, <1>2, <1>3, <1>4 DEF TypeInv
<1>6. StoreInv
  <2>1. IsStatus(NoPolicyStatus)
    BY DEF IsStatus, NoPolicyStatus
  <2> QED BY <1>4, <2>1 DEF StoreInv
<1>7. BuildInv /\ LoopInv /\ CalmInv /\ OldestPolicyWins /\ PoliciesBlockOnlyMixed
  BY <1>2, SMT DEF BuildInv, LoopInv, Visiting, CalmInv, OldestPolicyWins, PoliciesBlockOnlyMixed
<1> QED BY <1>5, <1>6, <1>7 DEF Inv

\* Every step keeps the invariant.
LEMMA NextInv ==
    ASSUME Inv, [PolicyNext]_policyVars
    PROVE  Inv'
<1>1. CASE ListPolicies
  BY <1>1, ListStep
<1>2. CASE BuildBackendTLSPolicyLookup
  BY <1>2, BuildStep
<1>3. CASE VisitService
  BY <1>3, VisitStep
<1>4. CASE VisitFails
  BY <1>4, FailedReadStep DEF VisitFails, BetweenServices
<1>5. CASE MarkSection
  BY <1>5, MarkSectionStep
<1>6. CASE ValidationFails
  BY <1>6, FailedReadStep DEF ValidationFails
<1>7. CASE MarkLoser
  BY <1>7, MarkLoserStep
<1>8. CASE PassEnds
  BY <1>8, EndStep
<1>9. CASE SyncPolicy
  BY <1>9, SyncStep
<1>10. CASE ChangeService
  BY <1>10, ChangeStep
<1>11. CASE UNCHANGED policyVars
  BY <1>11, StutterStep
<1> QED BY <1>1, <1>2, <1>3, <1>4, <1>5, <1>6, <1>7, <1>8, <1>9, <1>10, <1>11
        DEF PolicyNext, SetPolicyStatuses

-----------------------------------------------------------------------------
(* The results *)

\* What is stored at the end of an undisturbed reconcile.
LEMMA StoredAtEnd ==
    ASSUME Inv
    PROVE  PolicyVerdictStored
<1> USE DEF Inv
<1> SUFFICES ASSUME pass.pc = "done", attached, ~pass.upset, ~pass.lagging, NEW p \in Names
             PROVE  IF ServiceTargets(p) = {} THEN stored[p] = NoPolicyStatus
                    ELSE stored[p].accepted \in Verdicts(p)
  BY DEF PolicyVerdictStored, Names
<1>1. CASE ServiceTargets(p) = {}
  BY <1>1 DEF StoreInv
<1>2. CASE ServiceTargets(p) # {}
  <2>1. PICK t \in ServiceTargets(p) : TRUE
    BY <1>2
  <2>2. SlotOf(t) \in Slot /\ p \in Targeting(SlotOf(t))
    BY TargetSlots DEF TypeInv
  <2>3. Visiting /\ pass.pc # "idle"
    BY SMT DEF Visiting
  <2>4. Visited(visit, p, SlotOf(t))
    BY <2>3 DEF LoopInv, Visited
  <2>5. Fine(p) /\ listed.seen[p] = stored[p]
    BY <2>2, <2>3, <2>4 DEF CalmInv
  <2>6. PICK u \in ServiceTargets(p) : Fits(stored[p], p, u)
    BY <2>5 DEF Fine
  <2>7. stored[p].accepted = Verdict(p, u)
    BY <2>6, FitsVerdict
  <2> QED BY <1>2, <2>7 DEF Verdicts
<1> QED BY <1>1, <1>2

\* The inductive invariant holds throughout.
THEOREM PolicyInvariant == PolicySpec => []Inv
<1>1. Admitted(policies) /\ PolicyInit(policies, attached, authz, services) => Inv
  BY InitInv
<1>2. Inv /\ [PolicyNext]_policyVars => Inv'
  BY NextInv
<1> QED BY <1>1, <1>2, PTL DEF PolicySpec

\* In whatever order BuildBackendTLSPolicyLookup reads the policies and their
\* targets, each section name of each Service is held by the oldest policy that
\* gives it, ties broken by name, and exactly the others that give it are
\* conflicted (the empty name is one of its own and conflicts with no other);
\* moving policies that fail their checks to Invalid keeps this.
THEOREM OldestPolicyWinsAlways == PolicySpec => []OldestPolicyWins
<1>1. Inv => OldestPolicyWins
  BY DEF Inv
<1> QED BY <1>1, PolicyInvariant, PTL

\* A reconcile that setBackendTLSPolicyStatuses completes undisturbed leaves
\* every policy with the verdict of one of its Service targets (Invalid under a
\* missing Service), and those that have none without a status, whatever earlier
\* reconciles left.
THEOREM PolicyVerdictStoredAlways == PolicySpec => []PolicyVerdictStored
<1>1. Inv => PolicyVerdictStored
  BY StoredAtEnd
<1> QED BY <1>1, PolicyInvariant, PTL

\* Without a failed read, a change of the cluster or a cache that lags, only a
\* policy whose targets have different verdicts makes the update with the
\* resourceVersion of the list fail.
THEOREM PoliciesBlockOnlyMixedAlways == PolicySpec => []PoliciesBlockOnlyMixed
<1>1. Inv => PoliciesBlockOnlyMixed
  BY DEF Inv
<1> QED BY <1>1, PolicyInvariant, PTL
=============================================================================
