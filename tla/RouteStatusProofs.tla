------------------------- MODULE RouteStatusProofs --------------------------
(* The status of the routes, for every set of routes, Gateways and           *)
(* specifications: the reconcilers' requests are well-formed, entries of     *)
(* other controllers survive every step, and when nothing is left to do every *)
(* watched status is the one computed from the present objects.  They rest on  *)
(* what the operators of RouteStatus return, for every sequence, status and   *)
(* route: filtering keeps the elements of a set in order, merging keeps the   *)
(* entries of other controllers, and a status that is right for the Gateways  *)
(* a route has is right for fewer of them.                                    *)
EXTENDS RouteStatus, FiniteSetTheorems, TLAPS

USE ZenonT(40)
-----------------------------------------------------------------------------
(* Filtering.  Each fact is about the index of the k-th element kept: it     *)
(* exists because ranks grow by at most one from an index to the next, and   *)
(* is unique because they grow at every element kept.                        *)

\* Every non-empty set of naturals has a least element.
LEMMA Least ==
    ASSUME NEW A, A \subseteq Nat, A # {}
    PROVE  \E x \in A : \A y \in A : x <= y
<1>1. PICK x \in A : \A y \in A : ~(<<y, x>> \in OpToRel(<, Nat))
  BY WFMin, NatLessThanWellFounded
<1>2. \A y \in A : ~(y < x)
  BY <1>1 DEF OpToRel
<1>3. x \in Nat /\ \A y \in A : y \in Nat
  OBVIOUS
<1> QED
  BY <1>2, <1>3, SMT

\* Ranks are naturals that start at zero and grow by one exactly at the elements
\* that are kept.
LEMMA RankStep ==
    ASSUME NEW s, NEW S, NEW n \in Nat
    PROVE  /\ Rank(s, S, n) \in Nat
           /\ Rank(s, S, 0) = 0
           /\ s[n + 1] \in S => Rank(s, S, n + 1) = Rank(s, S, n) + 1
           /\ s[n + 1] \notin S => Rank(s, S, n + 1) = Rank(s, S, n)
<1> DEFINE upTo(m) == {j \in 1..m : s[j] \in S}
<1>1. \A m \in Nat : IsFiniteSet(upTo(m))
  <2> TAKE m \in Nat
  <2>1. IsFiniteSet(1..m)
    BY FS_Interval, SMT
  <2> QED
    BY <2>1, FS_Subset
<1>2. Rank(s, S, n) \in Nat
  BY <1>1, FS_CardinalityType DEF Rank
<1>3. Rank(s, S, 0) = 0
  <2>1. upTo(0) = {}
    BY SMT
  <2> QED
    BY <2>1, FS_EmptySet DEF Rank
<1>4. s[n + 1] \in S => Rank(s, S, n + 1) = Rank(s, S, n) + 1
  <2>1. CASE s[n + 1] \in S
    <3>1. upTo(n + 1) = upTo(n) \cup {n + 1} /\ (n + 1) \notin upTo(n)
      BY <2>1, SMT
    <3>2. Cardinality(upTo(n) \cup {n + 1}) = Cardinality(upTo(n)) + 1
      BY <1>1, <3>1, FS_AddElement
    <3> QED
      BY <2>1, <3>1, <3>2 DEF Rank
  <2> QED
    BY <2>1
<1>5. s[n + 1] \notin S => Rank(s, S, n + 1) = Rank(s, S, n)
  <2>1. s[n + 1] \notin S => upTo(n + 1) = upTo(n)
    BY SMT
  <2> QED
    BY <2>1 DEF Rank
<1> QED
  BY <1>2, <1>3, <1>4, <1>5

\* Ranks never fall.
LEMMA RankGrows ==
    ASSUME NEW s, NEW S, NEW m \in Nat, NEW n \in Nat, m <= n
    PROVE  Rank(s, S, m) <= Rank(s, S, n)
<1> DEFINE upTo(i) == {j \in 1..i : s[j] \in S}
<1>1. IsFiniteSet(1..n)
  BY FS_Interval, SMT
<1>2. IsFiniteSet(upTo(n)) /\ upTo(m) \subseteq upTo(n)
  BY <1>1, FS_Subset, SMT
<1> QED
  BY <1>2, FS_Subset DEF Rank

\* The k-th element that is kept is at exactly one index.
LEMMA Nth ==
    ASSUME NEW T, NEW s \in Seq(T), NEW S, NEW k \in 1..Rank(s, S, Len(s))
    PROVE  \E i \in DOMAIN s : s[i] \in S /\ Rank(s, S, i) = k
<1> DEFINE A == {n \in 0..Len(s) : k <= Rank(s, S, n)}
<1>1. Len(s) \in Nat /\ DOMAIN s = 1..Len(s)
  BY SMT
<1>2. Rank(s, S, Len(s)) \in Nat /\ Rank(s, S, 0) = 0
  BY <1>1, RankStep
<1>3. A \subseteq Nat /\ Len(s) \in A
  BY <1>1, <1>2, SMT
<1>4. PICK n \in A : \A y \in A : n <= y
  BY <1>3, Least
<1>5. n # 0
  BY <1>2, <1>4, SMT
<1>6. PICK m \in 0..Len(s) : n = m + 1
  <2>1. n - 1 \in 0..Len(s) /\ n = (n - 1) + 1
    BY <1>1, <1>4, <1>5, SMT
  <2> QED
    BY <2>1
<1>7. m \in Nat /\ m \notin A /\ n \in DOMAIN s
  BY <1>1, <1>4, <1>6, SMT
<1>8. /\ Rank(s, S, m) \in Nat
      /\ s[n] \in S => Rank(s, S, n) = Rank(s, S, m) + 1
      /\ s[n] \notin S => Rank(s, S, n) = Rank(s, S, m)
  BY <1>6, <1>7, RankStep
<1>9. ~(k <= Rank(s, S, m)) /\ k <= Rank(s, S, n) /\ k \in Nat
  BY <1>2, <1>4, <1>7, SMT
<1> QED
  BY <1>6, <1>7, <1>8, <1>9, SMT

LEMMA NthUnique ==
    ASSUME NEW T, NEW s \in Seq(T), NEW S, NEW i \in DOMAIN s, NEW j \in DOMAIN s,
           s[i] \in S, s[j] \in S, Rank(s, S, i) = Rank(s, S, j)
    PROVE  i = j
<1>1. DOMAIN s = 1..Len(s) /\ Len(s) \in Nat
  BY SMT
<1>2. ASSUME NEW a \in DOMAIN s, NEW b \in DOMAIN s, a < b, s[b] \in S
      PROVE  Rank(s, S, a) < Rank(s, S, b)
  <2>1. PICK m \in Nat : b = m + 1
    <3>1. b - 1 \in Nat /\ b = (b - 1) + 1
      BY <1>1, SMT
    <3> QED
      BY <3>1
  <2>2. a \in Nat /\ a <= m
    BY <1>1, <1>2, <2>1, SMT
  <2>3. Rank(s, S, a) <= Rank(s, S, m)
    BY <2>2, RankGrows
  <2>4. Rank(s, S, b) = Rank(s, S, m) + 1 /\ Rank(s, S, m) \in Nat /\ Rank(s, S, a) \in Nat
    BY <1>2, <2>1, <2>2, RankStep
  <2> QED
    BY <2>3, <2>4, SMT
<1>3. Rank(s, S, i) \in Nat
  BY <1>1, RankStep, SMT
<1>4. ~(i < j)
  BY <1>2, <1>3, SMT
<1>5. ~(j < i)
  BY <1>2, <1>3, SMT
<1> QED
  BY <1>1, <1>4, <1>5, SMT

\* The filter returns a sequence of elements of s that are in the set, ...
LEMMA OnlyType ==
    ASSUME NEW T, NEW s \in Seq(T), NEW S
    PROVE  /\ Only(s, S) \in Seq(T)
           /\ RangeOf(Only(s, S)) \subseteq RangeOf(s) \cap S
<1> DEFINE at(k) == CHOOSE i \in DOMAIN s : s[i] \in S /\ Rank(s, S, i) = k
           n == Rank(s, S, Len(s))
<1>1. n \in Nat
  BY RankStep, SMT
<1>2. \A k \in 1..n : at(k) \in DOMAIN s /\ s[at(k)] \in S
  BY Nth
<1>3. \A k \in 1..n : s[at(k)] \in T
  BY <1>2, SMTT(20)
<1>4. Only(s, S) = [k \in 1..n |-> s[at(k)]]
  BY DEF Only
<1> HIDE DEF at, n
<1>5. [k \in 1..n |-> s[at(k)]] \in Seq(T)
  BY <1>1, <1>3, SMT
<1>6. RangeOf([k \in 1..n |-> s[at(k)]]) \subseteq RangeOf(s) \cap S
  BY <1>2 DEF RangeOf
<1> QED
  BY <1>4, <1>5, <1>6

\* ... with every such element, ...
LEMMA OnlyKeeps ==
    ASSUME NEW T, NEW s \in Seq(T), NEW S, NEW e \in RangeOf(s), e \in S
    PROVE  e \in RangeOf(Only(s, S))
<1> DEFINE at(k) == CHOOSE i \in DOMAIN s : s[i] \in S /\ Rank(s, S, i) = k
           n == Rank(s, S, Len(s))
<1>1. PICK i \in DOMAIN s : s[i] = e
  BY DEF RangeOf
<1>2. i \in Nat /\ i # 0 /\ i <= Len(s) /\ Len(s) \in Nat
  BY SMT
<1>3. Rank(s, S, i) \in Nat /\ Rank(s, S, i) <= n /\ n \in Nat
  BY <1>2, RankStep, RankGrows
<1>4. Rank(s, S, i) # 0
  <2>1. i - 1 \in Nat /\ (i - 1) + 1 = i
    BY <1>2, SMT
  <2>2. Rank(s, S, i) = Rank(s, S, i - 1) + 1 /\ Rank(s, S, i - 1) \in Nat
    BY <1>1, <2>1, RankStep, SMT
  <2> QED
    BY <2>2, SMT
<1> DEFINE k == Rank(s, S, i)
<1>5. k \in 1..n
  BY <1>3, <1>4, SMT
<1>6. at(k) \in DOMAIN s /\ s[at(k)] \in S /\ Rank(s, S, at(k)) = k
  BY <1>5, Nth
<1>7. at(k) = i
  BY <1>1, <1>6, NthUnique
<1>8. Only(s, S)[k] = e /\ k \in DOMAIN Only(s, S)
  BY <1>1, <1>5, <1>7 DEF Only
<1> QED
  BY <1>8 DEF RangeOf

\* ... and is s itself when all of them are.
LEMMA OnlyAll ==
    ASSUME NEW T, NEW s \in Seq(T), NEW S, RangeOf(s) \subseteq S
    PROVE  Only(s, S) = s
<1> DEFINE at(k) == CHOOSE i \in DOMAIN s : s[i] \in S /\ Rank(s, S, i) = k
<1>1. Len(s) \in Nat /\ DOMAIN s = 1..Len(s)
  BY SMT
<1>2. \A m \in 1..Len(s) : s[m] \in S
  BY <1>1 DEF RangeOf
<1>3. \A m \in 0..Len(s) : Rank(s, S, m) = m
  <2> TAKE m \in 0..Len(s)
  <2>1. {j \in 1..m : s[j] \in S} = 1..m
    BY <1>1, <1>2, SMT
  <2>2. Cardinality(1..m) = m
    BY <1>1, FS_Interval, SMT
  <2> QED
    BY <2>1, <2>2 DEF Rank
<1>4. \A k \in 1..Len(s) : at(k) = k
  <2> TAKE k \in 1..Len(s)
  <2>1. k \in DOMAIN s /\ s[k] \in S /\ Rank(s, S, k) = k
    BY <1>1, <1>2, <1>3, SMT
  <2>2. at(k) \in DOMAIN s /\ s[at(k)] \in S /\ Rank(s, S, at(k)) = k
    BY <2>1
  <2> QED
    BY <1>1, <1>3, <2>2, SMT
<1>5. Only(s, S) = [k \in 1..Len(s) |-> s[at(k)]]
  BY <1>1, <1>3, SMT DEF Only
<1> HIDE DEF at
<1>6. [k \in 1..Len(s) |-> s[at(k)]] = [k \in 1..Len(s) |-> s[k]]
  BY <1>4
<1>7. [k \in 1..Len(s) |-> s[k]] = s
  BY <1>1, SMT
<1> QED
  BY <1>5, <1>6, <1>7

LEMMA Indexed ==
    ASSUME NEW T, NEW n \in Nat, NEW f \in [1..n -> T]
    PROVE  f \in Seq(T) /\ Len(f) = n
  BY SMT

LEMMA Concatenated ==
    ASSUME NEW T, NEW s \in Seq(T), NEW t \in Seq(T)
    PROVE  s \o t \in Seq(T) /\ Len(s \o t) = Len(s) + Len(t)
  BY SMT
-----------------------------------------------------------------------------
(* Status entries *)

Verdicts == [acc : Reasons, res : Reasons]

\* Setting conditions keeps the reference of an entry and whose it is.
LEMMA MergeEntry ==
    ASSUME NEW e \in Entry, NEW cond \in Verdicts, NEW gen \in Nat
    PROVE  /\ merge(e, cond, gen) \in Entry
           /\ merge(e, cond, gen).ref = e.ref
           /\ merge(e, cond, gen).ctl = e.ctl
<1>1. \A why \in Reasons : <<[reason |-> why, gen |-> gen]>> \in Seq(Conditions)
  BY SMT DEF Conditions
<1>2. cond.acc \in Reasons /\ cond.res \in Reasons
  BY DEF Verdicts
<1> QED
  BY <1>1, <1>2 DEF merge, Entry

\* The references without an entry.
Missing(status, refs) == Only(refs, RangeOf(refs) \ {e.ref : e \in RangeOf(status)})

First(status, i) == \A j \in 1..(i - 1) : status[j].ref # status[i].ref

\* The entry at index i after the merge.
Touched(status, r, refs, conds, i) ==
    IF status[i].ref \in RangeOf(refs) /\ First(status, i)
    THEN merge(status[i], conds[status[i].ref], r.gen)
    ELSE status[i]

\* The entry a reference is given when it has none.
Blank(ref) == [ref |-> ref, ctl |-> "ours", acc |-> <<>>, res |-> <<>>]
Fresh(status, r, refs, conds) ==
    [i \in DOMAIN Missing(status, refs) |->
        merge(Blank(Missing(status, refs)[i]), conds[Missing(status, refs)[i]], r.gen)]

LEMMA MergeShape ==
    ASSUME NEW status, NEW r, NEW refs, NEW conds
    PROVE  mergeStatusConditions(status, r, refs, conds)
           = [i \in DOMAIN status |-> Touched(status, r, refs, conds, i)] \o Fresh(status, r, refs, conds)
  BY DEF mergeStatusConditions, Touched, Fresh, Missing, First, Blank

\* Merging changes conditions of entries and appends entries of this controller
\* for the references that had none.
LEMMA MergeFacts ==
    ASSUME NEW status \in Seq(Entry), NEW r, r.gen \in Nat, NEW refs \in Seq(ParentRefs),
           NEW conds, \A ref \in RangeOf(refs) : conds[ref] \in Verdicts,
           NEW m, m = mergeStatusConditions(status, r, refs, conds)
    PROVE  /\ m \in Seq(Entry)
           /\ Len(m) = Len(status) + Len(Missing(status, refs))
           /\ \A i \in 1..Len(status) : m[i] = Touched(status, r, refs, conds, i)
           /\ \A i \in 1..Len(status) : m[i].ref = status[i].ref /\ m[i].ctl = status[i].ctl
           /\ \A i \in 1..Len(m) : i \notin 1..Len(status) => m[i].ctl = "ours" /\ m[i].ref \in RangeOf(refs)
<1> DEFINE old == [i \in DOMAIN status |-> Touched(status, r, refs, conds, i)]
           new == Fresh(status, r, refs, conds)
           missing == Missing(status, refs)
<1>1. missing \in Seq(ParentRefs) /\ RangeOf(missing) \subseteq RangeOf(refs)
  BY OnlyType, SMT DEF Missing
<1>2. \A i \in DOMAIN status : /\ Touched(status, r, refs, conds, i) \in Entry
                               /\ Touched(status, r, refs, conds, i).ref = status[i].ref
                               /\ Touched(status, r, refs, conds, i).ctl = status[i].ctl
  <2> TAKE i \in DOMAIN status
  <2>1. status[i] \in Entry
    BY SMT
  <2> QED
    BY <2>1, MergeEntry DEF Touched
<1>3. old \in Seq(Entry) /\ Len(old) = Len(status)
  BY <1>2, SMT
<1>4. \A ref \in ParentRefs : Blank(ref) \in Entry /\ Blank(ref).ref = ref /\ Blank(ref).ctl = "ours"
  BY SMT DEF Blank, Entry
<1>5. \A i \in DOMAIN missing : new[i] \in Entry /\ new[i].ctl = "ours" /\ new[i].ref \in RangeOf(refs)
  <2> TAKE i \in DOMAIN missing
  <2>1. missing[i] \in ParentRefs /\ missing[i] \in RangeOf(refs)
    BY <1>1, SMTT(20) DEF RangeOf
  <2>2. new[i] = merge(Blank(missing[i]), conds[missing[i]], r.gen)
    BY DEF Fresh
  <2>3. Blank(missing[i]) \in Entry /\ conds[missing[i]] \in Verdicts
    BY <1>4, <2>1
  <2>4. /\ merge(Blank(missing[i]), conds[missing[i]], r.gen) \in Entry
        /\ merge(Blank(missing[i]), conds[missing[i]], r.gen).ref = Blank(missing[i]).ref
        /\ merge(Blank(missing[i]), conds[missing[i]], r.gen).ctl = Blank(missing[i]).ctl
    <3> HIDE DEF missing
    <3> QED
      BY <2>3, MergeEntry
  <2> QED
    BY <1>4, <2>1, <2>2, <2>4
<1>6. DOMAIN new = DOMAIN missing /\ new = [i \in DOMAIN missing |-> new[i]]
  BY DEF Fresh
<1> HIDE DEF new, missing
<1>7. new \in Seq(Entry) /\ Len(new) = Len(missing)
  <2>1. Len(missing) \in Nat /\ DOMAIN missing = 1..Len(missing)
    BY <1>1, SMT
  <2>2. new \in [1..Len(missing) -> Entry]
    BY <1>5, <1>6, <2>1
  <2> QED
    BY <2>1, <2>2, Indexed
<1>8. m = old \o new
  BY MergeShape DEF new
<1> HIDE DEF old
<1>9. /\ m \in Seq(Entry)
      /\ Len(m) = Len(status) + Len(missing)
      /\ \A i \in 1..Len(status) : m[i] = old[i]
      /\ \A i \in 1..Len(m) : i \notin 1..Len(status) => m[i] = new[i - Len(status)] /\ i - Len(status) \in 1..Len(new)
  <2>1. m \in Seq(Entry) /\ Len(m) = Len(old) + Len(new)
    BY <1>3, <1>7, <1>8, Concatenated
  <2>2. \A i \in 1..Len(old) : m[i] = old[i]
    BY <1>3, <1>7, <1>8, SMT
  <2>3. \A i \in 1..(Len(old) + Len(new)) : i \notin 1..Len(old) => m[i] = new[i - Len(old)]
    BY <1>3, <1>7, <1>8, SMTT(20)
  <2>4. \A i \in 1..(Len(old) + Len(new)) : i \notin 1..Len(old) => i - Len(old) \in 1..Len(new)
    BY <1>3, <1>7, SMT
  <2> QED
    BY <1>3, <1>7, <2>1, <2>2, <2>3, <2>4
<1>10. \A i \in 1..Len(status) : old[i] = Touched(status, r, refs, conds, i) /\ i \in DOMAIN status
  BY SMT DEF old
<1>11. \A k \in 1..Len(new) : k \in DOMAIN missing
  BY <1>1, <1>7, SMT
<1>12. \A i \in 1..Len(m) : i \notin 1..Len(status) => m[i].ctl = "ours" /\ m[i].ref \in RangeOf(refs)
  <2> SUFFICES ASSUME NEW i \in 1..Len(m), i \notin 1..Len(status)
               PROVE  m[i].ctl = "ours" /\ m[i].ref \in RangeOf(refs)
    OBVIOUS
  <2>1. m[i] = new[i - Len(status)] /\ i - Len(status) \in DOMAIN missing
    BY <1>9, <1>11
  <2> QED
    BY <1>5, <2>1
<1>13. Len(m) = Len(status) + Len(Missing(status, refs))
  BY <1>9 DEF missing
<1> QED
  BY <1>2, <1>9, <1>10, <1>12, <1>13

\* The references under which a status has entries of other controllers.
TheirRefs(status) == {e.ref : e \in {d \in RangeOf(status) : d.ctl = "theirs"}}

LEMMA MergeKeepsTheirs ==
    ASSUME NEW status \in Seq(Entry), NEW r, r.gen \in Nat, NEW refs \in Seq(ParentRefs),
           NEW conds, \A ref \in RangeOf(refs) : conds[ref] \in Verdicts
    PROVE  /\ mergeStatusConditions(status, r, refs, conds) \in Seq(Entry)
           /\ TheirRefs(status) \subseteq TheirRefs(mergeStatusConditions(status, r, refs, conds))
<1> DEFINE m == mergeStatusConditions(status, r, refs, conds)
<1>1. /\ m \in Seq(Entry)
      /\ Len(m) = Len(status) + Len(Missing(status, refs))
      /\ \A i \in 1..Len(status) : m[i].ref = status[i].ref /\ m[i].ctl = status[i].ctl
  BY MergeFacts, SMT
<1>2. Len(Missing(status, refs)) \in Nat
  BY OnlyType, SMT DEF Missing
<1> HIDE DEF m
<1>3. ASSUME NEW e \in RangeOf(status), e.ctl = "theirs"
      PROVE  e.ref \in TheirRefs(m)
  <2>1. PICK i \in 1..Len(status) : status[i] = e
    BY SMT DEF RangeOf
  <2>2. i \in DOMAIN m
    BY <1>1, <1>2, SMT
  <2>3. m[i] \in RangeOf(m) /\ m[i].ctl = "theirs" /\ m[i].ref = e.ref
    BY <1>1, <1>3, <2>1, <2>2 DEF RangeOf
  <2> QED
    BY <2>3 DEF TheirRefs
<1>4. TheirRefs(status) \subseteq TheirRefs(m)
  BY <1>3 DEF TheirRefs
<1> QED
  BY <1>1, <1>4 DEF m

\* Pruning drops entries of this controller only, and leaves none whose parent
\* the route no longer names.
LEMMA PruneFacts ==
    ASSUME NEW status \in Seq(Entry), NEW parents,
           NEW p, p = pruneRouteParentStatuses(status, parents)
    PROVE  /\ p \in Seq(Entry)
           /\ TheirRefs(status) \subseteq TheirRefs(p)
           /\ \A e \in RangeOf(p) : e.ctl # "ours" \/ e.ref \in RangeOf(parents)
           /\ (\A e \in RangeOf(status) : e.ctl # "ours" \/ e.ref \in RangeOf(parents)) => p = status
<1> DEFINE S == {e \in RangeOf(status) : e.ctl # "ours" \/ e.ref \in RangeOf(parents)}
<1>1. p = Only(status, S)
  BY DEF pruneRouteParentStatuses
<1>2. p \in Seq(Entry) /\ RangeOf(p) \subseteq S
  BY <1>1, OnlyType, SMT
<1>3. \A e \in RangeOf(status) : e.ctl = "theirs" => e \in RangeOf(p)
  BY <1>1, OnlyKeeps
<1>4. (\A e \in RangeOf(status) : e.ctl # "ours" \/ e.ref \in RangeOf(parents)) => p = status
  BY <1>1, OnlyAll
<1> QED
  BY <1>2, <1>3, <1>4 DEF TheirRefs

LEMMA CommonChecks ==
    ASSUME NEW c, NEW status \in Seq(Entry), NEW r \in RouteValue
    PROVE  /\ runCommonRouteChecks(c, status, r) \in Seq(Entry)
           /\ TheirRefs(status) \subseteq TheirRefs(runCommonRouteChecks(c, status, r))
<1> DEFINE refs == Only(r.spec.parents, {ref \in RangeOf(r.spec.parents) : ParentMatches(c, ref)})
           conds == [ref \in RangeOf(r.spec.parents) |-> setInitialRouteConditions]
<1>1. r.spec.parents \in Seq(ParentRefs) /\ r.gen \in Nat
  BY StartAssumption DEF RouteValue
<1>2. refs \in Seq(ParentRefs) /\ RangeOf(refs) \subseteq RangeOf(r.spec.parents)
  BY <1>1, OnlyType
<1>3. setInitialRouteConditions \in Verdicts
  BY DEF setInitialRouteConditions, Verdicts, Reasons
<1>4. \A ref \in RangeOf(refs) : conds[ref] \in Verdicts
  BY <1>2, <1>3
<1>5. runCommonRouteChecks(c, status, r) = mergeStatusConditions(status, r, refs, conds)
  BY DEF runCommonRouteChecks
<1> HIDE DEF refs, conds
<1> QED
  BY <1>1, <1>2, <1>4, <1>5, MergeKeepsTheirs

LEMMA Validators ==
    ASSUME NEW status \in Seq(Entry), NEW r \in RouteValue
    PROVE  /\ RunValidators(status, r) \in Seq(Entry)
           /\ TheirRefs(status) \subseteq TheirRefs(RunValidators(status, r))
<1> DEFINE refs == [i \in DOMAIN status |-> status[i].ref]
           conds == [ref \in RangeOf(refs) |-> [acc |-> "UnsupportedValue", res |-> ""]]
<1>1. refs \in Seq(ParentRefs)
  <2>1. \A i \in DOMAIN status : status[i] \in Entry
    BY SMT
  <2>2. \A i \in DOMAIN status : status[i].ref \in ParentRefs
    BY <2>1 DEF Entry
  <2> QED
    BY <2>2, SMT
<1>2. \A ref \in RangeOf(refs) : conds[ref] \in Verdicts
  BY DEF Verdicts, Reasons
<1>3. r.gen \in Nat
  BY DEF RouteValue
<1>4. r.spec.invalid => RunValidators(status, r) = mergeStatusConditions(status, r, refs, conds)
  BY DEF RunValidators
<1> HIDE DEF refs, conds
<1>5. /\ mergeStatusConditions(status, r, refs, conds) \in Seq(Entry)
      /\ TheirRefs(status) \subseteq TheirRefs(mergeStatusConditions(status, r, refs, conds))
  BY <1>1, <1>2, <1>3, MergeKeepsTheirs
<1> QED
  BY <1>4, <1>5 DEF RunValidators

LEMMA Reconciled ==
    ASSUME NEW c, NEW r \in RouteValue, NEW resolved \in Reasons
    PROVE  /\ ReconciledStatus(c, r, resolved) \in Seq(Entry)
           /\ TheirRefs(r.status) \subseteq TheirRefs(ReconciledStatus(c, r, resolved))
<1> DEFINE conds == [ref \in RangeOf(r.spec.parents) |-> [acc |-> GatewayVerdict(c, r, ref), res |-> resolved]]
<1>1. r.spec.parents \in Seq(ParentRefs) /\ r.gen \in Nat /\ r.status \in Seq(Entry)
  BY StartAssumption DEF RouteValue
<1>2. \A ref : GatewayVerdict(c, r, ref) \in Reasons
  BY DEF GatewayVerdict, Reasons
<1>3. \A ref \in RangeOf(r.spec.parents) : conds[ref] \in Verdicts
  BY <1>2 DEF Verdicts
<1>4. ReconciledStatus(c, r, resolved) = mergeStatusConditions(r.status, r, r.spec.parents, conds)
  BY DEF ReconciledStatus
<1> HIDE DEF conds
<1> QED
  BY <1>1, <1>3, <1>4, MergeKeepsTheirs

\* Whatever the kind, the computed status keeps the entries of others.
LEMMA ComputedFacts ==
    ASSUME kind \in Kinds, NEW c, NEW r \in RouteValue
    PROVE  /\ Computed(c, r) \in Seq(Entry)
           /\ TheirRefs(r.status) \subseteq TheirRefs(Computed(c, r))
<1> DEFINE p == pruneRouteParentStatuses(r.status, r.spec.parents)
<1>1. kind \in {"HTTPRoute", "TCPRoute", "UDPRoute", "GRPCRoute", "TLSRoute"} /\ r.status \in Seq(Entry)
  BY StartAssumption DEF RouteValue
<1>2. p \in Seq(Entry) /\ TheirRefs(r.status) \subseteq TheirRefs(p)
  BY <1>1, PruneFacts, SMT
<1>3. BackendVerdict(c, r) \in Reasons
  BY DEF BackendVerdict, Reasons
<1> HIDE DEF p
<1>4. /\ runCommonRouteChecks(c, p, r) \in Seq(Entry)
      /\ TheirRefs(r.status) \subseteq TheirRefs(runCommonRouteChecks(c, p, r))
  BY <1>2, CommonChecks
<1>5. /\ RunValidators(runCommonRouteChecks(c, p, r), r) \in Seq(Entry)
      /\ TheirRefs(r.status) \subseteq TheirRefs(RunValidators(runCommonRouteChecks(c, p, r), r))
  BY <1>4, Validators
<1>6. CASE kind = "HTTPRoute"
  BY <1>5, <1>6 DEF Computed, setHTTPRouteStatuses, p
<1>7. CASE kind \in {"TCPRoute", "UDPRoute"}
  BY <1>4, <1>7 DEF Computed, setTCPRouteStatuses, setUDPRouteStatuses, p
<1>8. CASE kind \in {"GRPCRoute", "TLSRoute"}
  BY <1>3, <1>8, Reconciled DEF Computed, ReconcileGRPCRoute, ReconcileTLSRoute
<1> QED
  BY <1>1, <1>6, <1>7, <1>8

\* What another controller writes is a status.
LEMMA OtherStatusType ==
    ASSUME NEW r \in RouteValue
    PROVE  TheirStatus(r) \in Seq(Entry)
<1> DEFINE wanted == Only(r.spec.parents, {ref \in RangeOf(r.spec.parents) : TheirGateway(ref)})
           kept == Only(r.status, {e \in RangeOf(r.status) : e.ctl = "ours" \/ e.ref \in RangeOf(wanted)})
           missing == Only(wanted, {ref \in RangeOf(wanted) :
                                       ~\E e \in RangeOf(kept) : e.ref = ref /\ e.ctl = "theirs"})
           renewed == [i \in DOMAIN kept |-> IF kept[i].ctl = "ours" THEN kept[i] ELSE TheirEntry(r, kept[i].ref)]
           claims == [i \in DOMAIN missing |-> TheirEntry(r, missing[i])]
<1>1. r.spec.parents \in Seq(ParentRefs) /\ r.gen \in Nat /\ r.status \in Seq(Entry)
  BY StartAssumption DEF RouteValue
<1>2. wanted \in Seq(ParentRefs)
  BY <1>1, OnlyType
<1>3. kept \in Seq(Entry)
  BY <1>1, OnlyType
<1>4. TheirStatus(r) = renewed \o claims
  BY DEF TheirStatus
<1> HIDE DEF wanted, kept
<1>5. missing \in Seq(ParentRefs)
  BY <1>2, OnlyType
<1> HIDE DEF missing
<1>6. [reason |-> "Theirs", gen |-> r.gen] \in Conditions
  BY <1>1 DEF Conditions, Reasons
<1>7. \A ref \in ParentRefs : TheirEntry(r, ref) \in Entry
  BY <1>6, SMT DEF Entry, TheirEntry
<1>8. claims \in Seq(Entry)
  BY <1>5, <1>7, SMT
<1>9. renewed \in Seq(Entry)
  <2>1. \A e \in Entry : e.ref \in ParentRefs
    BY DEF Entry
  <2> QED
    BY <1>3, <1>7, <2>1, SMT
<1> HIDE DEF claims, renewed
<1> QED
  BY <1>4, <1>8, <1>9, Concatenated
-----------------------------------------------------------------------------
(* The status of an HTTP route depends on which of its parents belong to     *)
(* Gateways of this controller, and a status that is right for some of them  *)
(* is right for fewer.                                                       *)

Matched(c, r) == {ref \in RangeOf(r.spec.parents) : ParentMatches(c, ref)}
MatchedRefs(c, r) == Only(r.spec.parents, Matched(c, r))
EntryRefs(status) == {e.ref : e \in RangeOf(status)}

LEMMA NoneMissing ==
    ASSUME NEW status, NEW refs \in Seq(ParentRefs)
    PROVE  /\ Len(Missing(status, refs)) \in Nat
           /\ Len(Missing(status, refs)) = 0 <=> RangeOf(refs) \subseteq EntryRefs(status)
<1> DEFINE S == RangeOf(refs) \ EntryRefs(status)
           missing == Missing(status, refs)
<1>1. missing = Only(refs, S)
  BY DEF Missing, EntryRefs
<1>2. missing \in Seq(ParentRefs) /\ RangeOf(missing) \subseteq S
  BY <1>1, OnlyType
<1>3. \A ref \in RangeOf(refs) : ref \in S => ref \in RangeOf(missing)
  BY <1>1, OnlyKeeps
<1> HIDE DEF missing
<1>4. Len(missing) \in Nat /\ DOMAIN missing = 1..Len(missing)
  BY <1>2, SMT
<1>5. ASSUME Len(missing) = 0
      PROVE  RangeOf(refs) \subseteq EntryRefs(status)
  <2>1. RangeOf(missing) = {}
    BY <1>4, <1>5, SMT DEF RangeOf
  <2> QED
    BY <1>3, <2>1
<1>6. ASSUME RangeOf(refs) \subseteq EntryRefs(status)
      PROVE  Len(missing) = 0
  <2>1. RangeOf(missing) = {}
    BY <1>2, <1>6
  <2>2. 1 \notin DOMAIN missing
    BY <2>1 DEF RangeOf
  <2> QED
    BY <1>4, <2>2, SMT
<1> QED
  BY <1>4, <1>5, <1>6 DEF missing

LEMMA MatchedRange ==
    ASSUME NEW c, NEW r \in RouteValue
    PROVE  MatchedRefs(c, r) \in Seq(ParentRefs) /\ RangeOf(MatchedRefs(c, r)) = Matched(c, r)
<1>1. r.spec.parents \in Seq(ParentRefs)
  BY StartAssumption DEF RouteValue
<1>2. MatchedRefs(c, r) \in Seq(ParentRefs) /\ RangeOf(MatchedRefs(c, r)) \subseteq Matched(c, r)
  BY <1>1, OnlyType DEF MatchedRefs
<1>3. \A ref \in Matched(c, r) : ref \in RangeOf(MatchedRefs(c, r))
  BY <1>1, OnlyKeeps DEF MatchedRefs, Matched
<1> QED
  BY <1>2, <1>3

\* What the checks of the parents in M do to an entry, first of its reference or not.
Checked(e, first, M, gen) == IF e.ref \in M /\ first THEN merge(e, setInitialRouteConditions, gen) ELSE e

\* m is what the checks make of a status, entry by entry.
AfterChecks(m, status, c, r) ==
    /\ m \in Seq(Entry)
    /\ Len(m) = Len(status) + Len(Missing(status, MatchedRefs(c, r)))
    /\ \A i \in 1..Len(status) :
          /\ m[i] = Checked(status[i], First(status, i), Matched(c, r), r.gen)
          /\ m[i].ref = status[i].ref
          /\ m[i].ctl = status[i].ctl
    /\ \A i \in 1..Len(m) : i \notin 1..Len(status) => m[i].ref \in RangeOf(r.spec.parents)

LEMMA CommonShape ==
    ASSUME NEW c, NEW status \in Seq(Entry), NEW r \in RouteValue
    PROVE  AfterChecks(runCommonRouteChecks(c, status, r), status, c, r)
<1> DEFINE m == runCommonRouteChecks(c, status, r)
           refs == MatchedRefs(c, r)
           conds == [ref \in RangeOf(r.spec.parents) |-> setInitialRouteConditions]
<1>1. r.gen \in Nat
  BY DEF RouteValue
<1>2. refs \in Seq(ParentRefs) /\ RangeOf(refs) = Matched(c, r) /\ Matched(c, r) \subseteq RangeOf(r.spec.parents)
  BY MatchedRange DEF Matched
<1>3. setInitialRouteConditions \in Verdicts
  BY DEF setInitialRouteConditions, Verdicts, Reasons
<1>4. \A ref \in RangeOf(refs) : conds[ref] \in Verdicts /\ conds[ref] = setInitialRouteConditions
  BY <1>2, <1>3
<1>5. m = mergeStatusConditions(status, r, refs, conds)
  BY DEF runCommonRouteChecks, MatchedRefs, Matched
<1> HIDE DEF refs, conds, m
<1>6. /\ m \in Seq(Entry)
      /\ Len(m) = Len(status) + Len(Missing(status, refs))
      /\ \A i \in 1..Len(status) : m[i] = Touched(status, r, refs, conds, i)
      /\ \A i \in 1..Len(status) : m[i].ref = status[i].ref /\ m[i].ctl = status[i].ctl
      /\ \A i \in 1..Len(m) : i \notin 1..Len(status) => m[i].ctl = "ours" /\ m[i].ref \in RangeOf(refs)
  BY <1>1, <1>2, <1>4, <1>5, MergeFacts, SMT
<1>7. \A i \in 1..Len(status) :
          m[i] = Checked(status[i], First(status, i), Matched(c, r), r.gen)
  BY <1>2, <1>4, <1>6 DEF Touched, Checked
<1>8. \A i \in 1..Len(m) : i \notin 1..Len(status) => m[i].ref \in RangeOf(r.spec.parents)
  BY <1>2, <1>6
<1>9. Len(m) = Len(status) + Len(Missing(status, MatchedRefs(c, r)))
  BY <1>6 DEF refs
<1> QED
  BY <1>6, <1>7, <1>8, <1>9 DEF AfterChecks, m

Unsupported == [acc |-> "UnsupportedValue", res |-> ""]

\* What the validators do to an entry.
Validated(e, first, invalid, gen) == IF invalid /\ first THEN merge(e, Unsupported, gen) ELSE e

LEMMA ValidatorShape ==
    ASSUME NEW status \in Seq(Entry), NEW r \in RouteValue,
           NEW m, m = RunValidators(status, r)
    PROVE  /\ m \in Seq(Entry)
           /\ Len(m) = Len(status)
           /\ \A i \in 1..Len(status) :
                 /\ m[i] = Validated(status[i], First(status, i), r.spec.invalid, r.gen)
                 /\ m[i].ref = status[i].ref
                 /\ m[i].ctl = status[i].ctl
<1> DEFINE refs == [i \in DOMAIN status |-> status[i].ref]
           conds == [ref \in RangeOf(refs) |-> Unsupported]
<1>1. refs \in Seq(ParentRefs)
  <2>1. \A i \in DOMAIN status : status[i] \in Entry
    BY SMT
  <2>2. \A i \in DOMAIN status : status[i].ref \in ParentRefs
    BY <2>1 DEF Entry
  <2> QED
    BY <2>2, SMT
<1>2. \A ref \in RangeOf(refs) : conds[ref] \in Verdicts /\ conds[ref] = Unsupported
  BY DEF Verdicts, Reasons, Unsupported
<1>3. r.gen \in Nat
  BY DEF RouteValue
<1>4. RangeOf(refs) \subseteq EntryRefs(status) /\ \A i \in 1..Len(status) : status[i].ref \in RangeOf(refs)
  BY SMT DEF RangeOf, EntryRefs
<1>5. r.spec.invalid => m = mergeStatusConditions(status, r, refs, conds)
  BY DEF RunValidators, Unsupported
<1>6. ~r.spec.invalid => m = status
  BY DEF RunValidators
<1> HIDE DEF refs, conds
<1>7. CASE r.spec.invalid
  <2>1. /\ m \in Seq(Entry)
        /\ Len(m) = Len(status) + Len(Missing(status, refs))
        /\ \A i \in 1..Len(status) : m[i] = Touched(status, r, refs, conds, i)
        /\ \A i \in 1..Len(status) : m[i].ref = status[i].ref /\ m[i].ctl = status[i].ctl
    BY <1>1, <1>2, <1>3, <1>5, <1>7, MergeFacts, SMTT(20)
  <2>2. Len(m) = Len(status)
    BY <1>1, <1>4, <2>1, NoneMissing, SMTT(20)
  <2>3. \A i \in 1..Len(status) :
            m[i] = Validated(status[i], First(status, i), r.spec.invalid, r.gen)
    BY <1>2, <1>4, <1>7, <2>1 DEF Touched, Validated
  <2> QED
    BY <1>7, <2>1, <2>2, <2>3
<1>8. CASE ~r.spec.invalid
  BY <1>6, <1>8 DEF Validated
<1> QED
  BY <1>7, <1>8

\* A status the checks leave alone has an entry for every parent they look at,
\* and none that pruning drops.
LEMMA UnchangedShape ==
    ASSUME NEW c, NEW r \in RouteValue, setHTTPRouteStatuses(c, r) = r.status
    PROVE  /\ pruneRouteParentStatuses(r.status, r.spec.parents) = r.status
           /\ Matched(c, r) \subseteq EntryRefs(r.status)
<1> DEFINE s == r.status
           p == pruneRouteParentStatuses(r.status, r.spec.parents)
           m == runCommonRouteChecks(c, p, r)
<1>1. s \in Seq(Entry)
  BY DEF RouteValue
<1>2. /\ p \in Seq(Entry)
      /\ \A e \in RangeOf(p) : e.ctl # "ours" \/ e.ref \in RangeOf(r.spec.parents)
      /\ (\A e \in RangeOf(s) : e.ctl # "ours" \/ e.ref \in RangeOf(r.spec.parents)) => p = s
  BY <1>1, PruneFacts, SMT
<1>3. s = RunValidators(m, r)
  BY DEF setHTTPRouteStatuses
<1> HIDE DEF p
<1>4. AfterChecks(m, p, c, r)
  BY <1>2, CommonShape
<1> HIDE DEF m, s
<1>5. Len(s) = Len(m) /\ \A i \in 1..Len(m) : s[i].ref = m[i].ref /\ s[i].ctl = m[i].ctl
  BY <1>3, <1>4, ValidatorShape, SMT DEF AfterChecks
<1>6. \A i \in 1..Len(p) : p[i] \in RangeOf(p)
  BY <1>2, SMT DEF RangeOf
<1>7. \A i \in 1..Len(s) : s[i].ctl # "ours" \/ s[i].ref \in RangeOf(r.spec.parents)
  BY <1>2, <1>4, <1>5, <1>6, SMTT(20) DEF AfterChecks
<1>8. p = s
  BY <1>1, <1>2, <1>7, SMTT(20) DEF RangeOf
<1>9. Len(Missing(p, MatchedRefs(c, r))) = 0
  <2>1. Len(Missing(p, MatchedRefs(c, r))) \in Nat /\ Len(p) \in Nat
    BY <1>2, MatchedRange, NoneMissing, SMT
  <2> QED
    BY <1>4, <1>5, <1>8, <2>1, SMT DEF AfterChecks
<1>10. Matched(c, r) \subseteq EntryRefs(p)
  BY <1>9, MatchedRange, NoneMissing
<1> QED
  BY <1>8, <1>10 DEF p, s

\* The entry at index i after the checks of the parents in M and the validators.
Settle(e, first, invalid, M, gen) ==
    Validated(Checked(e, first, M, gen), first, invalid, gen)

LEMMA SettleFewer ==
    ASSUME NEW e \in Entry, NEW first \in BOOLEAN, NEW invalid, NEW M, NEW N, N \subseteq M, NEW gen \in Nat,
           Settle(e, first, invalid, M, gen) = e
    PROVE  Settle(e, first, invalid, N, gen) = e
<1>1. CASE ~first
  BY <1>1 DEF Settle, Checked, Validated
<1>2. CASE first /\ (e.ref \in N \/ e.ref \notin M)
  BY <1>2 DEF Settle, Checked, Validated
<1>3. CASE first /\ e.ref \in M /\ e.ref \notin N /\ ~invalid
  BY <1>3 DEF Settle, Checked, Validated
<1>4. CASE first /\ e.ref \in M /\ e.ref \notin N /\ invalid
  <2>1. merge(merge(e, setInitialRouteConditions, gen), Unsupported, gen) = e
    BY <1>4 DEF Settle, Checked, Validated
  <2>2. e.acc = <<[reason |-> "UnsupportedValue", gen |-> gen]>>
    BY <2>1 DEF merge, Unsupported, setInitialRouteConditions, Entry
  <2>3. merge(e, Unsupported, gen) = e
    BY <2>2 DEF merge, Unsupported, Entry
  <2> QED
    BY <1>4, <2>3 DEF Settle, Checked, Validated
<1> QED
  BY <1>1, <1>2, <1>3, <1>4

\* The status computed from a pruned status with an entry for every parent the
\* checks look at, entry by entry.
LEMMA SettledEntries ==
    ASSUME NEW c, NEW r \in RouteValue,
           pruneRouteParentStatuses(r.status, r.spec.parents) = r.status,
           Matched(c, r) \subseteq EntryRefs(r.status),
           NEW m, m = setHTTPRouteStatuses(c, r)
    PROVE  /\ m \in Seq(Entry)
           /\ Len(m) = Len(r.status)
           /\ \A i \in 1..Len(r.status) :
                 m[i] = Settle(r.status[i], First(r.status, i), r.spec.invalid, Matched(c, r), r.gen)
<1> DEFINE s == r.status
           a == runCommonRouteChecks(c, s, r)
<1>1. s \in Seq(Entry)
  BY DEF RouteValue
<1>2. m = RunValidators(a, r)
  BY DEF setHTTPRouteStatuses
<1>3. Len(Missing(s, MatchedRefs(c, r))) = 0
  BY MatchedRange, NoneMissing
<1>4. AfterChecks(a, s, c, r)
  BY <1>1, CommonShape
<1> HIDE DEF a, s
<1>5. Len(a) = Len(s) /\ Len(s) \in Nat
  BY <1>1, <1>3, <1>4, SMT DEF AfterChecks
<1>6. /\ m \in Seq(Entry)
      /\ Len(m) = Len(a)
      /\ \A i \in 1..Len(a) : m[i] = Validated(a[i], First(a, i), r.spec.invalid, r.gen)
  BY <1>2, <1>4, ValidatorShape DEF AfterChecks
<1>7. \A i \in 1..Len(s) : First(a, i) = First(s, i)
  <2> TAKE i \in 1..Len(s)
  <2>1. \A j \in 1..(i - 1) : j \in 1..Len(s)
    BY <1>5, SMT
  <2> QED
    BY <1>4, <2>1 DEF First, AfterChecks
<1>8. \A i \in 1..Len(s) : m[i] = Settle(s[i], First(s, i), r.spec.invalid, Matched(c, r), r.gen)
  BY <1>4, <1>5, <1>6, <1>7 DEF Settle, AfterChecks
<1> QED
  BY <1>5, <1>6, <1>8 DEF s

\* A status that is right for the parents matched in one state of the Gateways is
\* right for fewer of them.
LEMMA FewerMatches ==
    ASSUME NEW c, NEW d, NEW r \in RouteValue, Matched(d, r) \subseteq Matched(c, r),
           setHTTPRouteStatuses(c, r) = r.status
    PROVE  setHTTPRouteStatuses(d, r) = r.status
<1> DEFINE m == setHTTPRouteStatuses(d, r)
           s == r.status
<1>1. /\ pruneRouteParentStatuses(s, r.spec.parents) = s
      /\ Matched(c, r) \subseteq EntryRefs(s)
  BY UnchangedShape
<1>2. s \in Seq(Entry) /\ r.gen \in Nat
  BY DEF RouteValue
<1>3. /\ m \in Seq(Entry)
      /\ Len(m) = Len(s)
      /\ \A i \in 1..Len(s) : m[i] = Settle(s[i], First(s, i), r.spec.invalid, Matched(d, r), r.gen)
  BY <1>1, SettledEntries
<1>4. \A i \in 1..Len(s) : s[i] = Settle(s[i], First(s, i), r.spec.invalid, Matched(c, r), r.gen)
  BY <1>1, SettledEntries
<1> HIDE DEF m
<1>5. \A i \in 1..Len(s) : m[i] = s[i]
  <2> TAKE i \in 1..Len(s)
  <2>1. s[i] \in Entry /\ First(s, i) \in BOOLEAN
    BY <1>2, SMT DEF First
  <2>2. Settle(s[i], First(s, i), r.spec.invalid, Matched(d, r), r.gen) = s[i]
    BY <1>2, <1>4, <2>1, SettleFewer, SMTT(20)
  <2> QED
    BY <1>3, <2>2
<1>6. m = s
  BY <1>2, <1>3, <1>5, SMT
<1> QED
  BY <1>6 DEF m

MatchingIn(c) == {g \in Gateways : parentIsMatchingGateway(c, g)}

\* The Gateways as they are when those in G are this controller's.
Serving(G) == [gws |-> [g \in Gateways |-> [live |-> g \in G, class |-> "ours"]]]

LEMMA MoreGateways ==
    ASSUME NEW G, NEW H, G \cap Gateways \subseteq H, NEW r
    PROVE  Matched(Serving(G), r) \subseteq Matched(Serving(H), r)
<1>1. \A g \in Gateways : parentIsMatchingGateway(Serving(G), g) => parentIsMatchingGateway(Serving(H), g)
  BY DEF parentIsMatchingGateway, Serving
<1>2. \A s \in DOMAIN SetParent : SetParent[s] \in Gateways
  BY StartAssumption DEF RangeOf
<1> QED
  BY <1>1, <1>2 DEF Matched, ParentMatches

LEMMA ServingCache ==
    ASSUME NEW c, NEW r
    PROVE  Matched(Serving(MatchingIn(c)), r) = Matched(c, r)
<1>1. \A g \in Gateways : parentIsMatchingGateway(Serving(MatchingIn(c)), g) <=> parentIsMatchingGateway(c, g)
  BY DEF parentIsMatchingGateway, Serving, MatchingIn
<1>2. \A s \in DOMAIN SetParent : SetParent[s] \in Gateways
  BY StartAssumption DEF RangeOf
<1> QED
  BY <1>1, <1>2 DEF Matched, ParentMatches

LEMMA FewerGateways ==
    ASSUME NEW r \in RouteValue, NEW G, NEW H, G \subseteq H,
           setHTTPRouteStatuses(Serving(H), r) = r.status
    PROVE  setHTTPRouteStatuses(Serving(G), r) = r.status
  BY MoreGateways, FewerMatches

LEMMA CacheServing ==
    ASSUME NEW r \in RouteValue, NEW c
    PROVE  setHTTPRouteStatuses(Serving(MatchingIn(c)), r) = r.status <=> setHTTPRouteStatuses(c, r) = r.status
  BY ServingCache, FewerMatches, SMT

-----------------------------------------------------------------------------
(* Types and versions *)

Job == [req : Requests, todo : (SUBSET Routes) \ {{}}, snap : [Routes -> RouteValue], fresh : SUBSET Routes]

StateOK ==
    /\ kind \in Kinds
    /\ api \in World
    /\ seen \in World
    /\ behind \in SUBSET Routes
    /\ queue \in SUBSET Requests
    /\ work = Idle \/ work \in Job
    /\ upsets \in 0..MaxUpsets

\* The cache and the list of the request in progress hold the stored routes,
\* except for those known to have a later version.
Versions ==
    /\ \A x \in Routes \ behind : seen.routes[x] = api.routes[x]
    /\ \A x \in work.fresh : work.snap[x] = api.routes[x]
    /\ ~ByGateway /\ work # Idle => work.todo = {work.req}

Sound == StateOK /\ Versions

LEMMA Working ==
    ASSUME Sound, NEW x \in work.todo
    PROVE  work \in Job /\ x \in Routes /\ work.snap[x] \in RouteValue /\ seen.routes[x] \in RouteValue
<1>1. work # Idle
  BY SMT DEF Idle
<1>2. work \in Job
  BY <1>1 DEF Sound, StateOK
<1> QED
  BY <1>2 DEF Sound, StateOK, Job, World

\* A stored status changes one route, in nothing else.
LEMMA Stored ==
    ASSUME api \in World, NEW x \in Routes, NEW s \in Seq(Entry), Store(x, s)
    PROVE  /\ api' \in World
           /\ api'.routes[x].status = s
           /\ \A y \in Routes : y # x => api'.routes[y] = api.routes[y]
  BY DEF Store, World, RouteValue

\* What a step of the worker about route x does.
WorkerMove(x) ==
    /\ UNCHANGED <<kind, seen>>
    /\ upsets' \in 0..MaxUpsets
    /\ \/ UNCHANGED <<api, behind>>
       \/ /\ x \in work.fresh
          /\ \E s \in Seq(Entry) : TheirRefs(work.snap[x].status) \subseteq TheirRefs(s) /\ Store(x, s)
    /\ \/ FailRequest
       \/ Advance(x) /\ (x \in behind' \/ Computed(seen, work.snap[x]) = work.snap[x].status)

LEMMA WorkerMoves ==
    ASSUME Sound, SetRouteStatus \/ ServiceLookupFails \/ Fault
    PROVE  \E x \in work.todo : WorkerMove(x)
<1>1. \A x \in work.todo : /\ Computed(seen, work.snap[x]) \in Seq(Entry)
                           /\ TheirRefs(work.snap[x].status) \subseteq TheirRefs(Computed(seen, work.snap[x]))
  BY Working, ComputedFacts DEF Sound, StateOK
<1>2. upsets \in 0..MaxUpsets /\ (Upset => upsets' \in 0..MaxUpsets)
  BY StartAssumption, SMT DEF Sound, StateOK, Upset
<1>3. CASE SetRouteStatus
  <2>1. PICK x \in work.todo : updateStatus(x, work.snap[x], Computed(seen, work.snap[x]))
    BY <1>3 DEF SetRouteStatus
  <2>2. UNCHANGED <<kind, seen, upsets>>
    BY <1>3 DEF SetRouteStatus
  <2>3. \A r : Proceed(x, r) => FailRequest \/ Advance(x)
    BY DEF Proceed
  <2>4. \A s : Store(x, s) => x \in behind'
    BY DEF Store
  <2> QED
    BY <1>1, <1>2, <2>1, <2>2, <2>3, <2>4 DEF updateStatus, WorkerMove
<1>4. CASE ServiceLookupFails
  <2>1. PICK x \in work.todo :
            \/ x \in work.fresh /\ Store(x, ReconciledStatus(seen, work.snap[x], "ResolvedRefs"))
            \/ UNCHANGED <<api, behind>>
    BY <1>4 DEF ServiceLookupFails
  <2>2. /\ ReconciledStatus(seen, work.snap[x], "ResolvedRefs") \in Seq(Entry)
        /\ TheirRefs(work.snap[x].status) \subseteq TheirRefs(ReconciledStatus(seen, work.snap[x], "ResolvedRefs"))
    <3>1. "ResolvedRefs" \in Reasons /\ work.snap[x] \in RouteValue
      BY Working DEF Reasons
    <3> QED
      BY <3>1, Reconciled
  <2> QED
    BY <1>2, <1>4, <2>1, <2>2 DEF ServiceLookupFails, WorkerMove
<1>5. CASE Fault
  <2>1. PICK x \in work.todo :
            \/ x \in work.fresh /\ Store(x, Computed(seen, work.snap[x]))
            \/ UNCHANGED <<api, behind>>
    BY <1>5 DEF Fault
  <2> QED
    BY <1>1, <1>2, <1>5, <2>1 DEF Fault, WorkerMove
<1> QED
  BY <1>3, <1>4, <1>5

\* What a step of a user or of another controller about route x does.
OtherMove(x) ==
    /\ UNCHANGED <<kind, seen, queue>>
    /\ upsets' \in 0..MaxUpsets
    /\ api' \in World
    /\ \A y \in Routes : y # x => api'.routes[y] = api.routes[y]
    /\ Supersede(x)

LEMMA OtherMoves ==
    ASSUME Sound, NEW x \in Routes, EditRoute(x) \/ DeleteRoute(x) \/ TheyWrite(x)
    PROVE  OtherMove(x)
<1>1. api \in World /\ upsets \in 0..MaxUpsets /\ (Upset => upsets' \in 0..MaxUpsets)
  BY StartAssumption, SMT DEF Sound, StateOK, Upset
<1>2. CASE EditRoute(x)
  <2>1. PICK spec \in Specs : api' = [api EXCEPT !.routes[x].spec = spec, !.routes[x].gen = @ + 1]
    BY <1>2 DEF EditRoute
  <2> DEFINE mid == [api EXCEPT !.routes[x].spec = spec]
  <2>2. mid \in World /\ \A y \in Routes : y # x => mid.routes[y] = api.routes[y]
    BY <1>1 DEF World, RouteValue
  <2>3. PICK gen \in Nat : api' = [mid EXCEPT !.routes[x].gen = gen]
    <3>1. api' = [mid EXCEPT !.routes[x].gen = mid.routes[x].gen + 1]
      BY <2>1
    <3> HIDE DEF mid
    <3>2. mid.routes[x].gen \in Nat
      BY <2>2 DEF World, RouteValue
    <3>3. mid.routes[x].gen + 1 \in Nat
      BY <3>2, SMT
    <3> QED
      BY <3>1, <3>3
  <2> HIDE DEF mid
  <2>4. api' \in World /\ \A y \in Routes : y # x => api'.routes[y] = api.routes[y]
    <3>1. mid \in World
      BY <2>2
    <3>2. api' \in World
      BY ONLY <3>1, <2>3, gen \in Nat, x \in Routes, Zenon DEF World, RouteValue
    <3>3. \A y \in Routes : y # x => api'.routes[y] = mid.routes[y]
      BY ONLY <3>1, <2>3, x \in Routes DEF World, RouteValue
    <3> QED
      BY <2>2, <3>2, <3>3
  <2> QED
    BY <1>1, <1>2, <2>4 DEF EditRoute, OtherMove
<1>3. CASE DeleteRoute(x)
  <2>1. PICK phase \in {"deleting", "absent"} : api' = [api EXCEPT !.routes[x].phase = phase]
    BY <1>3 DEF DeleteRoute
  <2>2. api' \in World /\ \A y \in Routes : y # x => api'.routes[y] = api.routes[y]
    BY <1>1, <2>1 DEF World, RouteValue
  <2> QED
    BY <1>1, <1>3, <2>2 DEF DeleteRoute, OtherMove
<1>4. CASE TheyWrite(x)
  <2>1. TheirStatus(api.routes[x]) \in Seq(Entry)
    BY <1>1, OtherStatusType DEF World
  <2>2. api' = [api EXCEPT !.routes[x].status = TheirStatus(api.routes[x])]
    BY <1>4 DEF TheyWrite
  <2>3. api' \in World /\ \A y \in Routes : y # x => api'.routes[y] = api.routes[y]
    BY <1>1, <2>1, <2>2 DEF World, RouteValue
  <2> QED
    BY <1>1, <1>4, <2>3 DEF TheyWrite, OtherMove
<1> QED
  BY <1>2, <1>3, <1>4

\* Every event leads to requests of the reconciler's own kind.
LEMMA Requested ==
    ASSUME kind \in Kinds, NEW old, NEW new
    PROVE  /\ \A x \in Routes : RequestsForRoute(old, new, x) \subseteq Requests
           /\ \A g \in Gateways : RequestsForGateway(old, new, g) \subseteq Requests
           /\ RequestsForService(new) \subseteq Requests
           /\ RequestsForGrant(new) \subseteq Requests
           /\ InitialRequests(new) \subseteq Requests
<1>1. kind \in {"HTTPRoute", "TCPRoute", "UDPRoute", "GRPCRoute", "TLSRoute"}
  BY StartAssumption
<1>2. \A c, r : getGatewayReconcileRequestsForRoute(c, r) \subseteq Gateways
  BY DEF getGatewayReconcileRequestsForRoute
<1>3. enqueueRequestForBackendService(new) \subseteq Gateways
  BY <1>2 DEF enqueueRequestForBackendService
<1>4. \A x \in Routes : RequestsForRoute(old, new, x) \subseteq Requests
  BY <1>1, <1>2 DEF RequestsForRoute, EnqueueRequestForOwningHTTPRoute, Requests, ByGateway
<1>5. \A g \in Gateways : RequestsForGateway(old, new, g) \subseteq Requests
  BY DEF RequestsForGateway, Requests, enqueueFromIndex
<1>6. RequestsForService(new) \subseteq Requests
  BY <1>1, <1>3 DEF RequestsForService, Requests, ByGateway
<1>7. RequestsForGrant(new) \subseteq Requests /\ InitialRequests(new) \subseteq Requests
  BY DEF RequestsForGrant, InitialRequests, Requests
<1> QED
  BY <1>4, <1>5, <1>6, <1>7

LEMMA SoundInit ==
    ASSUME Init PROVE Sound
<1>1. PICK spec \in [Routes -> InitSpecs], created \in (SUBSET Routes) \ {{}} :
          /\ api = [routes |-> [x \in Routes |->
                                  [phase |-> IF x \in created THEN "live" ELSE "absent",
                                   gen |-> 1, spec |-> spec[x], status |-> <<>>]],
                    gws |-> InitGateways, svc |-> TRUE, grant |-> FALSE]
          /\ upsets = Cardinality(created)
          /\ upsets <= MaxUpsets
  BY DEF Init
<1>2. upsets \in 0..MaxUpsets
  <2>1. IsFiniteSet(created)
    BY StartAssumption, FS_Subset
  <2> QED
    BY <1>1, <2>1, StartAssumption, FS_CardinalityType, SMTT(20)
<1>3. api \in World
  <2>1. \A x \in Routes : spec[x] \in Specs
    BY StartAssumption
  <2>2. <<>> \in Seq(Entry)
    BY SMT
  <2>3. \A x \in Routes : api.routes[x] \in RouteValue
    BY <1>1, <2>1, <2>2 DEF RouteValue
  <2>4. api.routes = [x \in Routes |-> api.routes[x]]
    BY <1>1
  <2>5. api.routes \in [Routes -> RouteValue]
    BY <2>3, <2>4
  <2> QED
    BY <1>1, <2>5, StartAssumption DEF World
<1>4. kind \in Kinds /\ seen = api /\ behind = {} /\ queue = InitialRequests(api) /\ work = Idle
  BY DEF Init
<1>5. queue \subseteq Requests
  BY <1>4, Requested
<1>6. StateOK
  BY <1>2, <1>3, <1>4, <1>5 DEF StateOK
<1>7. Versions
  BY <1>4 DEF Versions, Idle
<1> QED
  BY <1>6, <1>7 DEF Sound

LEMMA WorkerSound ==
    ASSUME Sound, NEW x \in work.todo, WorkerMove(x)
    PROVE  Sound'
<1>1. work \in Job /\ x \in Routes /\ work # Idle
  BY Working, SMT DEF Idle
<1>2. /\ api' \in World
      /\ behind' \in SUBSET Routes
      /\ behind \subseteq behind'
      /\ \A y \in Routes : api'.routes[y] = api.routes[y] \/ (y = x /\ x \in behind')
  <2>1. CASE UNCHANGED <<api, behind>>
    BY <2>1 DEF Sound, StateOK
  <2>2. CASE \E s \in Seq(Entry) : Store(x, s)
    BY <1>1, <2>2, Stored DEF Sound, StateOK, Store
  <2> QED
    BY <2>1, <2>2 DEF WorkerMove
<1>3. UNCHANGED <<kind, seen>> /\ upsets' \in 0..MaxUpsets /\ UNCHANGED <<Requests, ByGateway>>
  BY DEF WorkerMove, Requests, ByGateway
<1>4. \A y \in Routes \ behind' : seen'.routes[y] = api'.routes[y]
  BY <1>2, <1>3 DEF Sound, Versions
<1>5. /\ queue' \in SUBSET Requests
      /\ work' = Idle \/ (/\ work' \in Job
                          /\ work'.todo = work.todo \ {x}
                          /\ work'.fresh = work.fresh \ {x}
                          /\ work'.snap = work.snap
                          /\ work'.req = work.req)
  <2>1. CASE FailRequest
    BY <1>1, <2>1 DEF FailRequest, Sound, StateOK, Job
  <2>2. CASE Advance(x)
    <3>1. queue' \in SUBSET Requests
      BY <2>2 DEF Advance, Sound, StateOK
    <3>2. CASE work.todo = {x}
      BY <2>2, <3>1, <3>2 DEF Advance
    <3>3. CASE work.todo # {x}
      <4>1. work' = [work EXCEPT !.todo = @ \ {x}, !.fresh = @ \ {x}]
        BY <2>2, <3>3 DEF Advance
      <4>2. work.todo \ {x} # {}
        BY <3>3
      <4> QED
        BY <1>1, <3>1, <4>1, <4>2 DEF Job
    <3> QED
      BY <3>2, <3>3
  <2> QED
    BY <2>1, <2>2 DEF WorkerMove
<1>6. \A y \in work'.fresh : work'.snap[y] = api'.routes[y]
  BY <1>1, <1>2, <1>5, SMT DEF Sound, Versions, Idle, Job
<1>7. ~ByGateway' /\ work' # Idle => work'.todo = {work'.req}
  <2>1. SUFFICES ASSUME ~ByGateway, work' # Idle PROVE FALSE
    BY <1>3
  <2>2. work.todo = {x}
    BY <1>1, <2>1 DEF Sound, Versions
  <2>3. work'.todo = {} /\ work' \in Job
    BY <1>5, <2>1, <2>2
  <2> QED
    BY <2>3 DEF Job
<1>8. StateOK'
  BY <1>2, <1>3, <1>5 DEF Sound, StateOK, Job
<1>9. Versions'
  BY <1>4, <1>6, <1>7 DEF Versions, Idle
<1> QED
  BY <1>8, <1>9 DEF Sound

LEMMA OtherSound ==
    ASSUME Sound, NEW x \in Routes, OtherMove(x)
    PROVE  Sound'
<1>1. /\ work' = Idle \/ work' \in Job
      /\ work'.fresh = work.fresh \ {x}
      /\ work'.todo = work.todo
      /\ work'.snap = work.snap
      /\ work'.req = work.req
      /\ (work' = Idle) <=> (work = Idle)
  <2>1. work' = [work EXCEPT !.fresh = @ \ {x}]
    BY DEF OtherMove, Supersede
  <2>2. CASE work = Idle
    BY <2>1, <2>2 DEF Idle
  <2>3. CASE work \in Job
    <3>1. work.todo # {}
      BY <2>3 DEF Job
    <3> QED
      BY <2>1, <2>3, <3>1, SMT DEF Job, Idle
  <2> QED
    BY <2>2, <2>3 DEF Sound, StateOK
<1>2. UNCHANGED <<kind, seen, queue, Requests, ByGateway>> /\ behind' = behind \cup {x}
  BY DEF OtherMove, Supersede, Requests, ByGateway
<1>3. StateOK'
  BY <1>1, <1>2 DEF Sound, StateOK, OtherMove, Job
<1>4. \A y \in work.fresh : y \in Routes
  BY SMT DEF Sound, StateOK, Job, Idle
<1>5. Versions'
  BY <1>1, <1>2, <1>4 DEF Sound, Versions, OtherMove, Idle
<1> QED
  BY <1>3, <1>5 DEF Sound

LEMMA StartSound ==
    ASSUME Sound, NEW q \in Requests, Start(q)
    PROVE  Sound'
<1>1. UNCHANGED <<kind, api, seen, behind, upsets, Requests, ByGateway>>
  BY DEF Start, Requests, ByGateway
<1>2. queue' \in SUBSET Requests
  BY DEF Start, Sound, StateOK
<1>3. Todo(q) \in SUBSET Routes /\ (~ByGateway /\ Todo(q) # {} => Todo(q) = {q})
  BY DEF Todo, Requests
<1>4. CASE Todo(q) = {}
  BY <1>1, <1>2, <1>4 DEF Start, Sound, StateOK, Versions, Idle, Job
<1>5. CASE Todo(q) # {}
  <2>1. work' = [req |-> q, todo |-> Todo(q), snap |-> seen.routes, fresh |-> Todo(q) \ behind]
    BY <1>5 DEF Start
  <2>2. work' \in Job
    BY <1>3, <1>5, <2>1 DEF Job, Sound, StateOK, World
  <2>3. StateOK'
    BY <1>1, <1>2, <2>2 DEF Sound, StateOK, Job
  <2>4. \A y \in work'.fresh : work'.snap[y] = api'.routes[y]
    BY <1>1, <1>3, <2>1 DEF Sound, Versions
  <2>5. ~ByGateway' => work'.todo = {work'.req}
    BY <1>1, <1>3, <1>5, <2>1
  <2>6. Versions'
    BY <1>1, <2>4, <2>5 DEF Sound, Versions
  <2> QED
    BY <2>3, <2>6 DEF Sound
<1> QED
  BY <1>4, <1>5

LEMMA RestartSound ==
    ASSUME Sound, Restart
    PROVE  Sound'
<1>1. /\ UNCHANGED <<kind, api, Requests, ByGateway>>
      /\ seen' = api /\ behind' = {} /\ work' = Idle /\ queue' = InitialRequests(api)
      /\ upsets' \in 0..MaxUpsets
  BY StartAssumption, SMT DEF Restart, Requests, ByGateway, Upset, Sound, StateOK
<1>2. InitialRequests(api) \subseteq Requests
  BY Requested DEF Sound, StateOK
<1> QED
  BY <1>1, <1>2 DEF Sound, StateOK, Versions, Idle

LEMMA DeliverSound ==
    ASSUME Sound, Deliver
    PROVE  /\ Sound'
           /\ UNCHANGED <<kind, api, work, upsets>>
           /\ queue \subseteq queue'
<1>1. kind \in Kinds /\ api \in World /\ seen \in World /\ queue \in SUBSET Requests
  BY DEF Sound, StateOK
<1>2. /\ UNCHANGED <<kind, api, work, upsets, Requests, ByGateway>>
      /\ queue \subseteq queue'
  BY DEF Deliver, DeliverRoute, DeliverGateway, DeliverService, DeliverGrant, Enqueue, Requests, ByGateway
<1> DEFINE Good == /\ queue' \in SUBSET Requests
                   /\ seen' \in World
                   /\ behind' \in SUBSET behind
                   /\ \A y \in Routes \ behind' : seen'.routes[y] = api.routes[y]
<1>3. Good
  <2>1. ASSUME NEW x \in Routes, DeliverRoute(x)
        PROVE  Good
    <3>1. queue' = queue \cup RequestsForRoute(seen, seen', x)
      BY <2>1 DEF DeliverRoute, Enqueue
    <3>2. queue' \in SUBSET Requests
      BY <1>1, <3>1, Requested
    <3>3. seen' \in World /\ seen'.routes[x] = api.routes[x]
          /\ \A y \in Routes : y # x => seen'.routes[y] = seen.routes[y]
      BY <1>1, <2>1 DEF DeliverRoute, World
    <3> QED
      BY <2>1, <3>2, <3>3 DEF DeliverRoute, Sound, Versions
  <2>2. ASSUME NEW g \in Gateways, DeliverGateway(g)
        PROVE  Good
    <3>1. queue' = queue \cup RequestsForGateway(seen, seen', g) /\ behind' = behind
      BY <2>2 DEF DeliverGateway, Enqueue
    <3>2. queue' \in SUBSET Requests
      BY <1>1, <3>1, Requested
    <3>3. seen' \in World /\ seen'.routes = seen.routes
      BY <1>1, <2>2 DEF DeliverGateway, World
    <3> QED
      BY <3>1, <3>2, <3>3 DEF Sound, Versions
  <2>3. ASSUME DeliverService
        PROVE  Good
    <3>1. queue' = queue \cup RequestsForService(seen') /\ behind' = behind
      BY <2>3 DEF DeliverService, Enqueue
    <3>2. queue' \in SUBSET Requests
      BY <1>1, <3>1, Requested
    <3>3. seen' \in World /\ seen'.routes = seen.routes
      BY <1>1, <2>3 DEF DeliverService, World
    <3> QED
      BY <3>1, <3>2, <3>3 DEF Sound, Versions
  <2>4. ASSUME DeliverGrant
        PROVE  Good
    <3>1. queue' = queue \cup RequestsForGrant(seen') /\ behind' = behind
      BY <2>4 DEF DeliverGrant, Enqueue
    <3>2. queue' \in SUBSET Requests
      BY <1>1, <3>1, Requested
    <3>3. seen' \in World /\ seen'.routes = seen.routes
      BY <1>1, <2>4 DEF DeliverGrant, World
    <3> QED
      BY <3>1, <3>2, <3>3 DEF Sound, Versions
  <2> QED
    BY <2>1, <2>2, <2>3, <2>4 DEF Deliver
<1> QED
  BY <1>2, <1>3 DEF Sound, StateOK, Versions, Job

LEMMA ObjectSound ==
    ASSUME Sound, (\E g \in Gateways : EditGateway(g)) \/ EditBackend
    PROVE  /\ Sound'
           /\ UNCHANGED <<kind, seen, behind, queue, work>>
           /\ api'.routes = api.routes
<1>1. UNCHANGED <<kind, seen, behind, queue, work, Requests, ByGateway>>
  BY DEF EditGateway, EditBackend, Requests, ByGateway
<1>2. upsets' \in 0..MaxUpsets
  BY StartAssumption, SMT DEF EditGateway, EditBackend, Upset, Sound, StateOK
<1>3. api' \in World /\ api'.routes = api.routes
  <2>1. api \in World
    BY DEF Sound, StateOK
  <2>2. ASSUME NEW g \in Gateways, EditGateway(g)
        PROVE  api' \in World /\ api'.routes = api.routes
    <3>1. PICK gw \in GatewayValues : api' = [api EXCEPT !.gws[g] = gw]
      BY <2>2 DEF EditGateway
    <3> QED
      BY <2>1, <3>1 DEF World
  <2>3. ASSUME EditBackend
        PROVE  api' \in World /\ api'.routes = api.routes
    <3>1. PICK svc \in BOOLEAN, grant \in BOOLEAN :
              api' = [api EXCEPT !.svc = svc] \/ api' = [api EXCEPT !.grant = grant]
      BY <2>1, <2>3 DEF EditBackend, World
    <3> QED
      BY <2>1, <3>1 DEF World
  <2> QED
    BY <2>2, <2>3
<1> QED
  BY <1>1, <1>2, <1>3 DEF Sound, StateOK, Versions, Job

LEMMA SoundStep ==
    ASSUME Sound, [Next]_vars
    PROVE  Sound'
<1>1. CASE UNCHANGED vars
  BY <1>1 DEF vars, Sound, StateOK, Versions, Job, Requests, ByGateway
<1>2. CASE \E q \in Requests : Start(q)
  BY <1>2, StartSound
<1>3. CASE SetRouteStatus \/ ServiceLookupFails \/ Fault
  BY <1>3, WorkerMoves, WorkerSound
<1>4. CASE Deliver
  BY <1>4, DeliverSound
<1>5. CASE Restart
  BY <1>5, RestartSound
<1>6. CASE \E x \in Routes : EditRoute(x) \/ DeleteRoute(x) \/ TheyWrite(x)
  BY <1>6, OtherMoves, OtherSound
<1>7. CASE (\E g \in Gateways : EditGateway(g)) \/ EditBackend
  BY <1>7, ObjectSound
<1> QED
  BY <1>1, <1>2, <1>3, <1>4, <1>5, <1>6, <1>7 DEF Next, Work

LEMMA AlwaysSound == Spec => []Sound
  BY SoundInit, SoundStep, PTL DEF Spec

\* Requests name objects of the reconciler's own kind, a request in progress has
\* a route left to do, and every status, stored, cached or listed, is made of
\* entries for parents that a specification names with conditions the API knows,
\* for any routes, Gateways, failures and restarts.
THEOREM RequestsWellFormed == Spec => []TypeOK
<1>1. Sound => TypeOK
  BY DEF Sound, StateOK, TypeOK, Job
<1> QED
  BY <1>1, AlwaysSound, PTL

\* No step of this controller, and none of a user, removes a status entry of
\* another controller: pruning keeps them, merging keeps whose an entry is, and
\* a status computed from a route that has changed since is never stored.
THEOREM OthersKept == Spec => ForeignKept
<1>1. ASSUME Sound, [Next]_vars, NEW x \in Routes
      PROVE  Theirs(api.routes[x]) \subseteq Theirs(api'.routes[x]) \/ TheyWrite(x)
  <2>1. \A r : Theirs(r) = TheirRefs(r.status)
    BY DEF Theirs, TheirRefs
  <2>2. SUFFICES ASSUME api'.routes[x] # api.routes[x], ~TheyWrite(x)
                 PROVE  TheirRefs(api.routes[x].status) \subseteq TheirRefs(api'.routes[x].status)
    BY <2>1
  <2>3. CASE SetRouteStatus \/ ServiceLookupFails \/ Fault
    <3>1. PICK y \in work.todo : WorkerMove(y)
      BY <2>3, <1>1, WorkerMoves
    <3>2. PICK s \in Seq(Entry) : /\ TheirRefs(work.snap[y].status) \subseteq TheirRefs(s)
                                  /\ Store(y, s)
                                  /\ y \in work.fresh
      BY <2>2, <3>1 DEF WorkerMove
    <3>3. x = y /\ api'.routes[x].status = s
      BY <1>1, <2>2, <3>2, Stored, Working DEF Sound, StateOK
    <3>4. work.snap[x] = api.routes[x]
      BY <1>1, <3>2, <3>3 DEF Sound, Versions
    <3> QED
      BY <3>2, <3>3, <3>4
  <2>4. CASE \E y \in Routes : EditRoute(y) \/ DeleteRoute(y) \/ TheyWrite(y)
    <3>1. PICK y \in Routes : EditRoute(y) \/ DeleteRoute(y) \/ TheyWrite(y)
      BY <2>4
    <3>2. x = y
      BY <1>1, <2>2, <3>1, OtherMoves DEF OtherMove
    <3>3. api'.routes[x].status = api.routes[x].status
      <4>1. api \in World
        BY <1>1 DEF Sound, StateOK
      <4>2. CASE EditRoute(x)
        <5>1. PICK spec : api' = [api EXCEPT !.routes[x].spec = spec, !.routes[x].gen = @ + 1]
          BY <4>2 DEF EditRoute
        <5> DEFINE mid == [api EXCEPT !.routes[x].spec = spec]
        <5>2. mid.routes[x].status = api.routes[x].status
          BY <4>1 DEF World, RouteValue
        <5>3. api'.routes[x].status = mid.routes[x].status
          BY <4>1, <5>1, SMT DEF World, RouteValue
        <5> QED
          BY <5>2, <5>3
      <4>3. CASE DeleteRoute(x)
        <5>1. PICK phase : api' = [api EXCEPT !.routes[x].phase = phase]
          BY <4>3 DEF DeleteRoute
        <5> QED
          BY <4>1, <5>1 DEF World, RouteValue
      <4> QED
        BY <2>2, <3>1, <3>2, <4>2, <4>3
    <3> QED
      BY <3>3
  <2>5. CASE Deliver \/ Restart \/ (\E q \in Requests : Start(q)) \/ UNCHANGED vars
    BY <1>1, <2>2, <2>5, DeliverSound DEF Restart, Start, vars
  <2>6. CASE (\E g \in Gateways : EditGateway(g)) \/ EditBackend
    BY <1>1, <2>2, <2>6, ObjectSound
  <2> QED
    BY <1>1, <2>3, <2>4, <2>5, <2>6 DEF Next, Work
<1>2. Sound /\ [Next]_vars
      => [\A x \in Routes : Theirs(api.routes[x]) \subseteq Theirs(api'.routes[x]) \/ TheyWrite(x)]_vars
  BY <1>1
<1> QED
  BY <1>2, AlwaysSound, PTL DEF Spec, ForeignKept
-----------------------------------------------------------------------------
(* Nothing stays stale: a route whose status is not the one computed from the *)
(* cache is behind, or has a request that will reach it                      *)

\* Request q will refresh route x, as the cache has it.
Pending(x, q) ==
    \/ q \in queue
    \/ work.req = q /\ x \in work.todo /\ work.snap[x] = seen.routes[x]

\* The Gateways of this controller that have nothing more to do for route x.
Done(x) == {g \in MatchingIn(seen) : ~Pending(x, g)}

NamedBy(r) ==
    {g \in Gateways : \E ref \in RangeOf(r.spec.parents) : ref.kind = "Gateway" /\ ref.name = g}

\* Once one Gateway the route names is done, its status is right for all that are.
HTTPSettled(x) ==
    LET r == seen.routes[x]
    IN  Live(r) /\ x \notin behind /\ NamedBy(r) \cap Done(x) # {}
        => setHTTPRouteStatuses(Serving(Done(x)), r) = r.status

Followed(r) ==
    /\ r.phase = "live"
    /\ ~\E be \in r.spec.backends : be.mirror
    /\ \A ref \in RangeOf(r.spec.parents) : ref.name \in Gateways => ref.kind = "Gateway"

RouteSettled(x) ==
    LET r == seen.routes[x]
    IN  Followed(r) /\ x \notin behind /\ ~Pending(x, x) => Computed(seen, r) = r.status

Settled ==
    \A x \in Routes : /\ kind = "HTTPRoute" => HTTPSettled(x)
                      /\ ~ByGateway => RouteSettled(x)

\* The kind of the routes is the same before and after a step.
LEMMA SameKind ==
    ASSUME kind' = kind, NEW c, NEW r
    PROVE  /\ setHTTPRouteStatuses(c, r)' = setHTTPRouteStatuses(c, r)
           /\ Computed(c, r)' = Computed(c, r)
<1>1. setHTTPRouteStatuses(c, r)' = setHTTPRouteStatuses(c, r)
  BY DEF setHTTPRouteStatuses, pruneRouteParentStatuses, runCommonRouteChecks, RunValidators, ParentMatches
<1>2. setTCPRouteStatuses(c, r)' = setTCPRouteStatuses(c, r)
  BY DEF setTCPRouteStatuses, pruneRouteParentStatuses, runCommonRouteChecks, ParentMatches
<1>3. setUDPRouteStatuses(c, r)' = setUDPRouteStatuses(c, r)
  BY DEF setUDPRouteStatuses, pruneRouteParentStatuses, runCommonRouteChecks, ParentMatches
<1>4. \A gw : CheckGatewayRouteKindAllowed(gw)' = CheckGatewayRouteKindAllowed(gw)
  BY DEF CheckGatewayRouteKindAllowed
<1>5. \A ref : GatewayVerdict(c, r, ref)' = GatewayVerdict(c, r, ref)
  BY <1>4 DEF GatewayVerdict
<1>6. ReconciledStatus(c, r, BackendVerdict(c, r))' = ReconciledStatus(c, r, BackendVerdict(c, r))
  BY <1>5 DEF ReconciledStatus
<1>7. Computed(c, r)' = Computed(c, r)
  BY <1>1, <1>2, <1>3, <1>6 DEF Computed, ReconcileGRPCRoute, ReconcileTLSRoute
<1> QED
  BY <1>1, <1>7

\* A step that leaves route x and takes no request for it keeps it settled.
LEMMA HTTPKept ==
    ASSUME Sound, kind' = kind, NEW x \in Routes, HTTPSettled(x), x \notin behind' => x \notin behind,
           seen'.routes[x] = seen.routes[x], Live(seen.routes[x]) => Done(x)' \subseteq Done(x)
    PROVE  HTTPSettled(x)'
<1>1. seen.routes[x] \in RouteValue
  BY DEF Sound, StateOK, World
<1>2. ASSUME Live(seen.routes[x]), x \notin behind', NamedBy(seen.routes[x]) \cap Done(x)' # {}
      PROVE  setHTTPRouteStatuses(Serving(Done(x)'), seen.routes[x]) = seen.routes[x].status
  <2>1. setHTTPRouteStatuses(Serving(Done(x)), seen.routes[x]) = seen.routes[x].status
    BY <1>2 DEF HTTPSettled
  <2> QED
    BY <1>1, <1>2, <2>1, FewerGateways
<1>3. setHTTPRouteStatuses(Serving(Done(x)), seen.routes[x])' = setHTTPRouteStatuses(Serving(Done(x)'), seen.routes[x])
  BY SameKind
<1> QED
  BY <1>2, <1>3 DEF HTTPSettled, Live, NamedBy

LEMMA RouteKept ==
    ASSUME kind' = kind, NEW x \in Routes, RouteSettled(x), x \notin behind' => x \notin behind,
           seen'.routes[x] = seen.routes[x], Pending(x, x) => Pending(x, x)',
           Followed(seen.routes[x]) /\ ~Pending(x, x)'
           => Computed(seen', seen.routes[x]) = Computed(seen, seen.routes[x])
    PROVE  RouteSettled(x)'
<1>1. Computed(seen, seen.routes[x])' = Computed(seen', seen.routes[x])
  BY SameKind
<1> QED
  BY <1>1 DEF RouteSettled, Followed

\* What a GRPC or TLS route's status is computed from.
LEMMA SameInputs ==
    ASSUME kind \in Kinds, ~ByGateway, NEW r, NEW c, NEW d,
           \A ref \in RangeOf(r.spec.parents) : GetGateway(c, ref) = GetGateway(d, ref),
           BackendVerdict(c, r) = BackendVerdict(d, r)
    PROVE  Computed(c, r) = Computed(d, r)
<1>1. kind \in {"GRPCRoute", "TLSRoute"}
  BY StartAssumption DEF ByGateway
<1>2. \A ref \in RangeOf(r.spec.parents) : GatewayVerdict(c, r, ref) = GatewayVerdict(d, r, ref)
  BY DEF GatewayVerdict
<1>3. ReconciledStatus(c, r, BackendVerdict(c, r)) = ReconciledStatus(d, r, BackendVerdict(d, r))
  BY <1>2 DEF ReconciledStatus
<1> QED
  BY <1>1, <1>3 DEF Computed, ReconcileGRPCRoute, ReconcileTLSRoute

LEMMA SettledInit ==
    ASSUME Init PROVE Settled
<1>1. seen = api /\ queue = InitialRequests(seen)
  BY DEF Init
<1>2. ASSUME NEW x \in Routes, kind = "HTTPRoute"
      PROVE  HTTPSettled(x)
  <2>1. MatchingIn(seen) \subseteq queue
    BY <1>1, <1>2 DEF InitialRequests, ByGateway, MatchingIn
  <2>2. Done(x) = {}
    BY <2>1 DEF Done, Pending
  <2> QED
    BY <2>2 DEF HTTPSettled
<1>3. ASSUME NEW x \in Routes, ~ByGateway
      PROVE  RouteSettled(x)
  <2>1. Live(seen.routes[x]) => x \in queue
    BY <1>1, <1>3 DEF InitialRequests
  <2> QED
    BY <2>1 DEF RouteSettled, Pending, Followed, Live
<1> QED
  BY <1>2, <1>3 DEF Settled

LEMMA SettledRestart ==
    ASSUME Sound, Restart
    PROVE  Settled'
<1>1. seen' = api /\ queue' = InitialRequests(api) /\ kind' = kind
  BY DEF Restart
<1>2. ASSUME NEW x \in Routes, kind = "HTTPRoute"
      PROVE  HTTPSettled(x)'
  <2>1. MatchingIn(seen') \subseteq queue'
    BY <1>1, <1>2 DEF InitialRequests, ByGateway, MatchingIn
  <2>2. Done(x)' = {}
    BY <2>1 DEF Done, Pending
  <2> QED
    BY <2>2 DEF HTTPSettled
<1>3. ASSUME NEW x \in Routes, ~ByGateway
      PROVE  RouteSettled(x)'
  <2>1. Live(seen'.routes[x]) => x \in queue'
    BY <1>1, <1>3 DEF InitialRequests
  <2> QED
    BY <2>1 DEF RouteSettled, Pending, Followed, Live
<1> QED
  BY <1>1, <1>2, <1>3 DEF Settled, ByGateway

LEMMA SettledStart ==
    ASSUME Sound, Settled, NEW q \in Requests, Start(q)
    PROVE  Settled'
<1>1. UNCHANGED <<kind, seen, behind>> /\ work = Idle /\ queue' = queue \ {q}
  BY DEF Start
<1>2. work' = IF Todo(q) = {} THEN Idle
              ELSE [req |-> q, todo |-> Todo(q), snap |-> seen.routes, fresh |-> Todo(q) \ behind]
  BY DEF Start
<1>3. ASSUME NEW x \in Routes, NEW p, p # q, Pending(x, p)
      PROVE  Pending(x, p)'
  BY <1>1, <1>3 DEF Pending, Idle
<1>4. ASSUME NEW x \in Todo(q)
      PROVE  Pending(x, q)'
  BY <1>1, <1>2 DEF Pending
<1>5. ASSUME NEW x \in Routes, kind = "HTTPRoute"
      PROVE  HTTPSettled(x)'
  <2>1. Live(seen.routes[x]) => Done(x)' \subseteq Done(x)
    <3>1. Live(seen.routes[x]) /\ q \in MatchingIn(seen) => x \in Todo(q)
      BY <1>5 DEF Todo, ByGateway, MatchingIn
    <3> QED
      BY <1>1, <1>3, <1>4, <3>1 DEF Done, MatchingIn, parentIsMatchingGateway
  <2> QED
    BY <1>1, <1>5, <2>1, HTTPKept DEF Settled
<1>6. ASSUME NEW x \in Routes, ~ByGateway
      PROVE  RouteSettled(x)'
  <2>1. CASE x = q
    <3>1. seen.routes[x].phase = "live" => x \in Todo(q)
      BY <1>6, <2>1 DEF Todo
    <3> QED
      BY <1>1, <1>4, <2>1, <3>1 DEF RouteSettled, Followed
  <2>2. CASE x # q
    BY <1>1, <1>3, <1>6, <2>2, RouteKept DEF Settled
  <2> QED
    BY <2>1, <2>2
<1> QED
  BY <1>1, <1>5, <1>6 DEF Settled, ByGateway

LEMMA SettledWorker ==
    ASSUME Sound, Settled, NEW x \in work.todo, WorkerMove(x)
    PROVE  Settled'
<1>1. UNCHANGED <<kind, seen>> /\ behind \subseteq behind'
  BY DEF WorkerMove, Store
<1>2. x \in Routes /\ work \in Job /\ work # Idle
  BY Working, SMT DEF Idle
<1>3. ASSUME NEW y \in Routes, NEW q, Pending(y, q), ~Pending(y, q)'
      PROVE  y = x /\ q = work.req /\ work.snap[x] = seen.routes[x] /\ Advance(x)
  <2>1. CASE FailRequest
    BY <1>1, <1>3, <2>1 DEF FailRequest, Pending
  <2>2. CASE Advance(x)
    <3>1. queue' = queue /\ work.req = q /\ y \in work.todo /\ work.snap[y] = seen.routes[y]
      BY <1>3, <2>2 DEF Advance, Pending
    <3>2. y = x
      <4>1. SUFFICES ASSUME y # x PROVE FALSE
        OBVIOUS
      <4>2. work' = [work EXCEPT !.todo = @ \ {x}, !.fresh = @ \ {x}]
        BY <2>2, <3>1, <4>1 DEF Advance
      <4>3. work'.req = q /\ y \in work'.todo /\ work'.snap[y] = seen.routes[y]
        BY <1>2, <3>1, <4>1, <4>2 DEF Job
      <4> QED
        BY <1>1, <1>3, <4>3 DEF Pending
    <3> QED
      BY <2>2, <3>1, <3>2
  <2> QED
    BY <2>1, <2>2 DEF WorkerMove
<1>4. Advance(x) => x \in behind' \/ FailRequest \/ Computed(seen, work.snap[x]) = work.snap[x].status
  BY DEF WorkerMove
<1>5. FailRequest => \A y \in Routes : \A q : Pending(y, q) => Pending(y, q)'
  BY <1>1 DEF FailRequest, Pending
<1>6. ASSUME NEW y \in Routes, kind = "HTTPRoute"
      PROVE  HTTPSettled(y)'
  <2>1. CASE Done(y)' \subseteq Done(y)
    BY <1>1, <1>6, <2>1, HTTPKept DEF Settled
  <2>2. CASE ~(Done(y)' \subseteq Done(y))
    <3>1. PICK q \in Done(y)' : q \notin Done(y)
      BY <2>2
    <3>2. Pending(y, q) /\ ~Pending(y, q)'
      BY <1>1, <3>1 DEF Done, MatchingIn, parentIsMatchingGateway
    <3>3. y = x /\ work.snap[x] = seen.routes[x] /\ Advance(x) /\ ~FailRequest
      BY <1>3, <1>5, <3>2
    <3>4. CASE x \in behind'
      BY <3>3, <3>4 DEF HTTPSettled
    <3>5. CASE setHTTPRouteStatuses(seen, seen.routes[x]) = seen.routes[x].status
      <4>1. seen.routes[x] \in RouteValue
        BY Working
      <4>2. setHTTPRouteStatuses(Serving(MatchingIn(seen)), seen.routes[x]) = seen.routes[x].status
        BY <3>5, <4>1, CacheServing
      <4>3. Done(x)' \subseteq MatchingIn(seen)
        BY <1>1 DEF Done, MatchingIn, parentIsMatchingGateway
      <4>4. setHTTPRouteStatuses(Serving(Done(x)'), seen.routes[x]) = seen.routes[x].status
        BY <4>1, <4>2, <4>3, FewerGateways
      <4>5. setHTTPRouteStatuses(Serving(Done(x)), seen.routes[x])'
            = setHTTPRouteStatuses(Serving(Done(x)'), seen.routes[x])
        BY <1>1, SameKind
      <4> QED
        BY <1>1, <3>3, <4>4, <4>5 DEF HTTPSettled
    <3>6. Computed(seen, seen.routes[x]) = setHTTPRouteStatuses(seen, seen.routes[x])
      BY <1>6 DEF Computed
    <3> QED
      BY <1>4, <3>3, <3>4, <3>5, <3>6
  <2> QED
    BY <2>1, <2>2
<1>7. ASSUME NEW y \in Routes, ~ByGateway
      PROVE  RouteSettled(y)'
  <2>1. CASE Pending(y, y) => Pending(y, y)'
    BY <1>1, <1>7, <2>1, RouteKept DEF Settled
  <2>2. CASE Pending(y, y) /\ ~Pending(y, y)'
    <3>1. y = x /\ work.snap[x] = seen.routes[x] /\ Advance(x) /\ ~FailRequest
      BY <1>3, <1>5, <2>2
    <3>2. CASE x \in behind'
      BY <3>1, <3>2 DEF RouteSettled
    <3>3. CASE Computed(seen, seen.routes[x]) = seen.routes[x].status
      <4>1. Computed(seen, seen.routes[x])' = Computed(seen, seen.routes[x])
        BY <1>1, SameKind
      <4> QED
        BY <1>1, <3>1, <3>3, <4>1 DEF RouteSettled
    <3> QED
      BY <1>4, <3>1, <3>2, <3>3
  <2> QED
    BY <2>1, <2>2
<1> QED
  BY <1>1, <1>6, <1>7 DEF Settled, ByGateway

\* A step that leaves the cache and the requests alone keeps all routes settled.
LEMMA SettledQuiet ==
    ASSUME Sound, Settled, UNCHANGED <<kind, seen, queue>>, behind \subseteq behind',
           work'.req = work.req, work'.todo = work.todo, work'.snap = work.snap
    PROVE  Settled'
<1>1. \A x \in Routes : \A q : Pending(x, q)' <=> Pending(x, q)
  BY DEF Pending
<1>2. \A x \in Routes : Done(x)' = Done(x)
  BY <1>1 DEF Done, MatchingIn, parentIsMatchingGateway
<1>3. ASSUME NEW x \in Routes, kind = "HTTPRoute"
      PROVE  HTTPSettled(x)'
  BY <1>2, <1>3, HTTPKept DEF Settled
<1>4. ASSUME NEW x \in Routes, ~ByGateway
      PROVE  RouteSettled(x)'
  BY <1>1, <1>4, RouteKept DEF Settled
<1> QED
  BY <1>3, <1>4 DEF Settled, ByGateway

LEMMA SettledOther ==
    ASSUME Sound, Settled, NEW x \in Routes, OtherMove(x)
    PROVE  Settled'
<1>1. work'.req = work.req /\ work'.todo = work.todo /\ work'.snap = work.snap
  <2>1. work' = [work EXCEPT !.fresh = @ \ {x}]
    BY DEF OtherMove, Supersede
  <2>2. CASE work = Idle
    BY <2>1, <2>2 DEF Idle
  <2>3. CASE work \in Job
    BY <2>1, <2>3 DEF Job
  <2> QED
    BY <2>2, <2>3 DEF Sound, StateOK
<1>2. UNCHANGED <<kind, seen, queue>> /\ behind \subseteq behind'
  BY DEF OtherMove, Supersede
<1> QED
  BY <1>1, <1>2, SettledQuiet

\* An event of route x leads to a request of every Gateway it names; the others
\* see only that there are more requests.
LEMMA SettledDeliverRoute ==
    ASSUME Sound, Settled, NEW x \in Routes, DeliverRoute(x)
    PROVE  Settled'
<1>1. /\ UNCHANGED <<kind, work>>
      /\ queue' = queue \cup RequestsForRoute(seen, seen', x)
      /\ behind' = behind \ {x}
      /\ seen' = [seen EXCEPT !.routes[x] = api.routes[x]]
  BY DEF DeliverRoute, Enqueue
<1>2. /\ seen'.gws = seen.gws /\ seen'.svc = seen.svc /\ seen'.grant = seen.grant
      /\ \A y \in Routes : y # x => seen'.routes[y] = seen.routes[y]
  BY <1>1 DEF Sound, StateOK, World
<1>3. MatchingIn(seen') = MatchingIn(seen)
  BY <1>2 DEF MatchingIn, parentIsMatchingGateway
<1>4. \A y \in Routes : y # x => \A q : Pending(y, q) => Pending(y, q)'
  BY <1>1, <1>2 DEF Pending
<1>5. ASSUME NEW y \in Routes, kind = "HTTPRoute"
      PROVE  HTTPSettled(y)'
  <2>1. CASE y # x
    <3>1. Done(y)' \subseteq Done(y)
      BY <1>3, <1>4, <2>1 DEF Done
    <3> QED
      BY <1>1, <1>2, <1>5, <2>1, <3>1, HTTPKept DEF Settled
  <2>2. CASE y = x
    <3>1. NamedBy(seen'.routes[x]) \cap MatchingIn(seen') \subseteq RequestsForRoute(seen, seen', x)
      BY <1>5 DEF RequestsForRoute, EnqueueRequestForOwningHTTPRoute, getGatewayReconcileRequestsForRoute,
                  NamedBy, MatchingIn
    <3>2. NamedBy(seen'.routes[x]) \cap Done(x)' = {}
      BY <1>1, <3>1 DEF Done, Pending
    <3> QED
      BY <2>2, <3>2 DEF HTTPSettled, NamedBy
  <2> QED
    BY <2>1, <2>2
<1>6. ASSUME NEW y \in Routes, ~ByGateway
      PROVE  RouteSettled(y)'
  <2>1. CASE y # x
    <3>1. Computed(seen', seen.routes[y]) = Computed(seen, seen.routes[y])
      <4>1. \A ref : GetGateway(seen', ref) = GetGateway(seen, ref)
        BY <1>2 DEF GetGateway
      <4>2. BackendVerdict(seen', seen.routes[y]) = BackendVerdict(seen, seen.routes[y])
        BY <1>2 DEF BackendVerdict, CheckAgainstCrossNamespaceBackendReferences, CheckBackendIsExistingService
      <4> QED
        BY <1>6, <4>1, <4>2, SameInputs DEF Sound, StateOK
    <3> QED
      BY <1>1, <1>2, <1>4, <1>6, <2>1, <3>1, RouteKept DEF Settled
  <2>2. CASE y = x
    <3>1. x \in queue'
      BY <1>1, <1>6 DEF RequestsForRoute, ByGateway
    <3> QED
      BY <2>2, <3>1 DEF RouteSettled, Pending
  <2> QED
    BY <2>1, <2>2
<1> QED
  BY <1>1, <1>5, <1>6 DEF Settled, ByGateway

\* A Gateway that becomes this controller's gets a request; one that stops being
\* so leaves the statuses right.
LEMMA SettledDeliverGateway ==
    ASSUME Sound, Settled, NEW g \in Gateways, DeliverGateway(g)
    PROVE  Settled'
<1>1. /\ UNCHANGED <<kind, work, behind>>
      /\ queue' = queue \cup RequestsForGateway(seen, seen', g)
      /\ seen' = [seen EXCEPT !.gws[g] = api.gws[g]]
  BY DEF DeliverGateway, Enqueue
<1>2. /\ seen'.routes = seen.routes /\ seen'.svc = seen.svc /\ seen'.grant = seen.grant
      /\ \A h \in Gateways : h # g => seen'.gws[h] = seen.gws[h]
  BY <1>1 DEF Sound, StateOK, World
<1>3. \A y \in Routes : \A q : Pending(y, q) => Pending(y, q)'
  BY <1>1, <1>2 DEF Pending
<1>4. ASSUME NEW y \in Routes, kind = "HTTPRoute"
      PROVE  HTTPSettled(y)'
  <2>1. g \in MatchingIn(seen') => g \in queue'
    BY <1>1, <1>4 DEF RequestsForGateway, ByGateway, MatchingIn, parentIsMatchingGateway
  <2>2. MatchingIn(seen') \subseteq MatchingIn(seen) \cup {g}
    BY <1>2 DEF MatchingIn, parentIsMatchingGateway
  <2>3. Done(y)' \subseteq Done(y)
    BY <1>3, <2>1, <2>2 DEF Done, Pending
  <2> QED
    BY <1>1, <1>2, <1>4, <2>3, HTTPKept DEF Settled
<1>5. ASSUME NEW y \in Routes, ~ByGateway
      PROVE  RouteSettled(y)'
  <2>1. ASSUME Followed(seen.routes[y]), ~Pending(y, y)'
        PROVE  Computed(seen', seen.routes[y]) = Computed(seen, seen.routes[y])
    <3>1. y \notin enqueueFromIndex(seen', g)
      BY <1>1, <1>5, <2>1 DEF RequestsForGateway, Pending
    <3>2. \A ref \in RangeOf(seen.routes[y].spec.parents) : ~(ref.kind = "Gateway" /\ ref.name = g)
      BY <1>2, <2>1, <3>1 DEF enqueueFromIndex, Followed, Live
    <3>3. \A ref \in RangeOf(seen.routes[y].spec.parents) : ref.name # g
      BY <2>1, <3>2 DEF Followed
    <3>4. \A ref \in RangeOf(seen.routes[y].spec.parents) : GetGateway(seen', ref) = GetGateway(seen, ref)
      BY <1>2, <3>3 DEF GetGateway
    <3>5. BackendVerdict(seen', seen.routes[y]) = BackendVerdict(seen, seen.routes[y])
      BY <1>2 DEF BackendVerdict, CheckAgainstCrossNamespaceBackendReferences, CheckBackendIsExistingService
    <3> QED
      BY <1>5, <3>4, <3>5, SameInputs DEF Sound, StateOK
  <2> QED
    BY <1>1, <1>2, <1>3, <1>5, <2>1, RouteKept DEF Settled
<1> QED
  BY <1>1, <1>4, <1>5 DEF Settled, ByGateway

\* A Service matters to the routes its event reaches; a grant reaches them all.
LEMMA SettledDeliverBackend ==
    ASSUME Sound, Settled, DeliverService \/ DeliverGrant
    PROVE  Settled'
<1>1. /\ UNCHANGED <<kind, work, behind>>
      /\ queue \subseteq queue'
  BY DEF DeliverService, DeliverGrant, Enqueue
<1>2. seen'.routes = seen.routes /\ seen'.gws = seen.gws
  BY DEF DeliverService, DeliverGrant, Sound, StateOK, World
<1>3. \A y \in Routes : \A q : Pending(y, q) => Pending(y, q)'
  BY <1>1, <1>2 DEF Pending
<1>4. ASSUME NEW y \in Routes, kind = "HTTPRoute"
      PROVE  HTTPSettled(y)'
  <2>1. Done(y)' \subseteq Done(y)
    BY <1>2, <1>3 DEF Done, MatchingIn, parentIsMatchingGateway
  <2> QED
    BY <1>1, <1>2, <1>4, <2>1, HTTPKept DEF Settled
<1>5. ASSUME NEW y \in Routes, ~ByGateway
      PROVE  RouteSettled(y)'
  <2>1. ASSUME Followed(seen.routes[y]), ~Pending(y, y)'
        PROVE  Computed(seen', seen.routes[y]) = Computed(seen, seen.routes[y])
    <3> DEFINE r == seen.routes[y]
    <3>1. Live(r) /\ y \notin queue'
      BY <2>1 DEF Followed, Live, Pending
    <3>2. CASE DeliverGrant
      <4>1. y \in RequestsForGrant(seen')
        BY <1>1, <1>2, <1>5, <3>1 DEF RequestsForGrant, ByGateway
      <4> QED
        BY <3>1, <3>2, <4>1 DEF DeliverGrant, Enqueue
    <3>3. CASE DeliverService
      <4>1. seen'.grant = seen.grant
        BY <3>3 DEF DeliverService, Sound, StateOK, World
      <4>2. y \notin RequestsForService(seen')
        BY <3>1, <3>3 DEF DeliverService, Enqueue
      <4>3. RequestsForService(seen') = {z \in Routes : Live(seen'.routes[z]) /\ getBackendServiceForGRPCRoute(seen'.routes[z])}
        BY <1>1, <1>5 DEF RequestsForService, ByGateway
      <4>4. \A be \in r.spec.backends : be.ns = "own" => ~be.service
        BY <1>2, <2>1, <3>1, <4>2, <4>3 DEF getBackendServiceForGRPCRoute, Followed
      <4>5. BackendVerdict(seen', r) = BackendVerdict(seen, r)
        BY <4>1, <4>4 DEF BackendVerdict, CheckAgainstCrossNamespaceBackendReferences, CheckBackendIsService,
                         CheckBackendIsExistingService
      <4>6. \A ref : GetGateway(seen', ref) = GetGateway(seen, ref)
        BY <1>2 DEF GetGateway
      <4> QED
        BY <1>5, <4>5, <4>6, SameInputs DEF Sound, StateOK
    <3> QED
      BY <3>2, <3>3
  <2> QED
    BY <1>1, <1>2, <1>3, <1>5, <2>1, RouteKept DEF Settled
<1> QED
  BY <1>1, <1>4, <1>5 DEF Settled, ByGateway

LEMMA SettledStep ==
    ASSUME Sound, Settled, [Next]_vars
    PROVE  Settled'
<1>1. CASE UNCHANGED vars
  BY <1>1, SettledQuiet DEF vars
<1>2. CASE \E q \in Requests : Start(q)
  BY <1>2, SettledStart
<1>3. CASE SetRouteStatus \/ ServiceLookupFails \/ Fault
  BY <1>3, WorkerMoves, SettledWorker
<1>4. CASE Deliver
  BY <1>4, SettledDeliverRoute, SettledDeliverGateway, SettledDeliverBackend DEF Deliver
<1>5. CASE Restart
  BY <1>5, SettledRestart
<1>6. CASE \E x \in Routes : EditRoute(x) \/ DeleteRoute(x) \/ TheyWrite(x)
  BY <1>6, OtherMoves, SettledOther
<1>7. CASE (\E g \in Gateways : EditGateway(g)) \/ EditBackend
  BY <1>7, ObjectSound, SettledQuiet
<1> QED
  BY <1>1, <1>2, <1>3, <1>4, <1>5, <1>6, <1>7 DEF Next, Work

\* When nothing is left to do, the status of every watched route is the one its
\* reconciler computes from the present objects, for any number of routes,
\* Gateways, conflicts, failures and restarts.
THEOREM StatusUpToDate == Spec => []QuiescentStatus
<1>1. ASSUME Sound, Settled, Quiescent, NEW x \in Routes, Watched(api.routes[x])
      PROVE  Computed(api, api.routes[x]) = api.routes[x].status
  <2>1. seen = api /\ x \notin behind
    BY <1>1 DEF Quiescent
  <2>2. \A q : ~Pending(x, q)
    BY <1>1 DEF Quiescent, Pending, Idle
  <2>3. CASE kind = "HTTPRoute"
    <3>1. Live(seen.routes[x]) /\ NamedBy(seen.routes[x]) \cap MatchingIn(seen) # {}
      BY <1>1, <2>1, <2>3 DEF Watched, ParentMatches, NamedBy, MatchingIn
    <3>2. Done(x) = MatchingIn(seen)
      BY <2>2 DEF Done
    <3>3. setHTTPRouteStatuses(Serving(MatchingIn(seen)), seen.routes[x]) = seen.routes[x].status
      BY <1>1, <2>1, <2>3, <3>1, <3>2 DEF Settled, HTTPSettled
    <3>4. seen.routes[x] \in RouteValue
      BY <1>1 DEF Sound, StateOK, World
    <3>5. setHTTPRouteStatuses(seen, seen.routes[x]) = seen.routes[x].status
      BY <3>3, <3>4, CacheServing
    <3> QED
      BY <2>1, <2>3, <3>5 DEF Computed
  <2>4. CASE kind \in {"GRPCRoute", "TLSRoute"}
    <3>1. Followed(seen.routes[x]) /\ ~ByGateway
      BY <1>1, <2>1, <2>4 DEF Watched, Followed, ByGateway
    <3> QED
      BY <1>1, <2>1, <2>2, <3>1 DEF Settled, RouteSettled
  <2> QED
    BY <1>1, <2>3, <2>4 DEF Watched
<1>2. Sound /\ Settled => QuiescentStatus
  BY <1>1 DEF QuiescentStatus
<1>3. Spec => []Settled
  BY SettledInit, SettledStep, AlwaysSound, PTL DEF Spec
<1> QED
  BY <1>2, <1>3, AlwaysSound, PTL
=============================================================================
