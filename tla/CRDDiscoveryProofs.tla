------------------------- MODULE CRDDiscoveryProofs -------------------------
(***************************************************************************)
(* Proofs about CRDDiscovery, for every list of required and optional      *)
(* kinds and every number of faults: the reconcilers are registered only   *)
(* over CRDs that are served, and neither the timeout nor an error that is *)
(* worth a retry disables the Gateway API.                                 *)
(***************************************************************************)
EXTENDS CRDDiscovery, TLAPS

Outcomes == {"ok", "transient", "net", "final", "plain"}
Errors == [failed : BOOLEAN, api : {"none", "transient", "final"}, net : BOOLEAN]

\* Joining an error gives an error.
LEMMA JoinType ==
    ASSUME NEW e \in Errors, NEW c \in Outcomes
    PROVE  Join(e, c) \in Errors
BY DEF Join, Errors

\* A Get spends at most the budget of faults.
LEMMA GetFaults ==
    ASSUME TypeOK, NEW k, NEW S, NEW timed \in BOOLEAN, NEW o, Get(k, S, timed, o)
    PROVE  faults' \in 0 .. MaxFaults
BY FaultsAssumption DEF Get, Fault, TypeOK

\* The position stays within the lists it runs through.
LEMMA Positions ==
    /\ Len(Required) \in Nat /\ Len(Optional) \in Nat
    /\ \A k \in 1 .. Len(Required) : Required[k] \in Kinds
    /\ \A k \in 1 .. Len(Optional) : Optional[k] \in Kinds
    /\ 1 \in 1 .. Len(Required) + Len(Optional) + 1
BY KindsAssumption DEF Kinds, Range

\* Every step keeps the variables in their domains.
LEMMA TypeStep == TypeOK /\ [Next]_vars => TypeOK'
<1> SUFFICES ASSUME TypeOK, [Next]_vars PROVE TypeOK'
  OBVIOUS
<1> USE Positions, FaultsAssumption
<1>s. CASE UNCHANGED vars
  BY <1>s DEF vars, locals, TypeOK
<1>1. CASE NewPreconditions
  BY <1>1 DEF NewPreconditions, TypeOK
<1>2. CASE CheckRequired
  <2>1. PICK o \in Outcomes :
          /\ Get(Required[i], {"other", "v1"}, TRUE, o)
          /\ err' = IF o = "ok" THEN err ELSE Join(err, o)
          /\ missing' = (missing \/ (~expired /\ o # "ok" /\ faults' = faults))
          /\ unknown' = (unknown \/ (~expired /\ o \in {"final", "plain"} /\ faults' # faults))
    BY <1>2 DEF CheckRequired, Outcomes
  <2>2. err' \in Errors
    BY <2>1, JoinType DEF TypeOK, Errors
  <2>3. faults' \in 0 .. MaxFaults
    BY <2>1, GetFaults
  <2>4. missing' \in BOOLEAN /\ unknown' \in BOOLEAN
    BY <1>2, <2>1 DEF CheckRequired
  <2>5. i' \in 1 .. Len(Required) + Len(Optional) + 1
    BY <1>2 DEF CheckRequired, TypeOK
  <2>q. QED
    BY <1>2, <2>2, <2>3, <2>4, <2>5 DEF CheckRequired, TypeOK, Errors
<1>3. CASE RequiredChecked
  BY <1>3 DEF RequiredChecked, TypeOK
<1>4. CASE CheckOptional
  <2>1. PICK o \in Outcomes :
          /\ Get(Optional[i], {"other", "v1"}, TRUE, o)
          /\ present' = IF o = "ok" THEN present \cup {Optional[i]} ELSE present
    BY <1>4 DEF CheckOptional, Outcomes
  <2>2. faults' \in 0 .. MaxFaults
    BY <2>1, GetFaults
  <2>3. present' \subseteq Range(Optional)
    BY <1>4, <2>1 DEF CheckOptional, TypeOK, Range
  <2>4. i' \in 1 .. Len(Required) + Len(Optional) + 1
    BY <1>4 DEF CheckOptional, TypeOK
  <2>q. QED
    BY <1>4, <2>2, <2>3, <2>4 DEF CheckOptional, TypeOK
<1>5. CASE Decide
  BY <1>5 DEF Decide, TypeOK
<1>6. CASE Wait
  BY <1>6 DEF Wait, NoError, TypeOK
<1>7. CASE InitController
  BY <1>7 DEF InitController, NoError, TypeOK
<1>8. CASE CheckRequiredCRDs
  <2>1. PICK o \in Outcomes :
          /\ Get(Required[i], {"v1"}, FALSE, o)
          /\ err' = IF o = "ok" THEN err ELSE Join(err, o)
    BY <1>8 DEF CheckRequiredCRDs, Outcomes
  <2>2. err' \in Errors
    BY <2>1, JoinType DEF TypeOK, Errors
  <2>3. faults' \in 0 .. MaxFaults
    BY <2>1, GetFaults
  <2>4. i' \in 1 .. Len(Required) + Len(Optional) + 1
    BY <1>8 DEF CheckRequiredCRDs, TypeOK
  <2>q. QED
    BY <1>8, <2>2, <2>3, <2>4 DEF CheckRequiredCRDs, TypeOK, Errors
<1>9. CASE Register
  BY <1>9 DEF Register, Fault, TypeOK
<1>10. CASE Restart
  <2>1. NoError \in Errors
    BY DEF NoError, Errors
  <2>q. QED
    BY <1>10, <2>1, Zenon DEF Restart, TypeOK, Errors
<1>11. CASE Timeout
  BY <1>11 DEF Timeout, Fault, TypeOK
<1>12. CASE InstallCRD
  BY <1>12 DEF InstallCRD, locals, CrdState, TypeOK
<1>q. QED
  BY <1>s, <1>1, <1>2, <1>3, <1>4, <1>5, <1>6, <1>7, <1>8, <1>9, <1>10, <1>11, <1>12
     DEF Next, Startup

\* The start-up's variables keep their types.
THEOREM TypeCorrect == Spec => []TypeOK
<1>1. Init => TypeOK
  <2> SUFFICES ASSUME Init PROVE TypeOK
    OBVIOUS
  <2>1. NoError \in Errors
    BY DEF NoError, Errors
  <2>2. crd \in [Kinds -> CrdState] /\ faults \in 0 .. MaxFaults
    BY StateAssumption, FaultsAssumption DEF Init
  <2>q. QED
    BY <2>1, <2>2, Positions, Zenon DEF Init, TypeOK, Errors
<1>q. QED
  BY <1>1, TypeStep, PTL DEF Spec

-----------------------------------------------------------------------------
(* Registration. *)

\* What the second check has established so far, kind by kind.
CheckedInv ==
    /\ pc \in {"start", "init"} => i = 1
    /\ pc = "recheck" => i - 1 <= Len(Required)
    /\ pc = "recheck" /\ ~err.failed => \A k \in 1 .. i - 1 : crd[Required[k]] = "v1"
    /\ RegisteredServed

\* CRDs are only ever upgraded, so what a check found stays true.
LEMMA CheckedStep == TypeOK /\ CheckedInv /\ [Next]_vars => CheckedInv'
<1> SUFFICES ASSUME TypeOK, CheckedInv, [Next]_vars PROVE CheckedInv'
  OBVIOUS
<1> USE Positions
<1>s. CASE UNCHANGED vars
  BY <1>s DEF vars, locals, CheckedInv, RegisteredServed, Served
<1>1. CASE NewPreconditions
  BY <1>1 DEF NewPreconditions, CheckedInv, RegisteredServed, Served
<1>2. CASE CheckRequired
  BY <1>2 DEF CheckRequired, CheckedInv, RegisteredServed, Served
<1>3. CASE RequiredChecked
  BY <1>3 DEF RequiredChecked, CheckedInv, RegisteredServed, Served
<1>4. CASE CheckOptional
  <2>1. PICK o \in Outcomes :
          /\ Get(Optional[i], {"other", "v1"}, TRUE, o)
          /\ present' = IF o = "ok" THEN present \cup {Optional[i]} ELSE present
    BY <1>4 DEF CheckOptional, Outcomes
  <2>2. o = "ok" => Served(Optional[i], crd)
    BY <2>1 DEF Get, Served
  <2>3. UNCHANGED <<crd, pc, control>> /\ pc = "optional"
    BY <1>4 DEF CheckOptional
  <2>q. QED
    BY <2>1, <2>2, <2>3 DEF CheckedInv, RegisteredServed, Served
<1>5. CASE Decide
  BY <1>5 DEF Decide, CheckedInv, RegisteredServed, Served
<1>6. CASE Wait
  BY <1>6 DEF Wait, CheckedInv, RegisteredServed, Served
<1>7. CASE InitController
  BY <1>7 DEF InitController, CheckedInv, RegisteredServed, Served
<1>8. CASE CheckRequiredCRDs
  <2>1. PICK o \in Outcomes :
          /\ Get(Required[i], {"v1"}, FALSE, o)
          /\ err' = IF o = "ok" THEN err ELSE Join(err, o)
    BY <1>8 DEF CheckRequiredCRDs, Outcomes
  <2>2. ~err'.failed => o = "ok" /\ ~err.failed
    BY <2>1 DEF Join
  <2>3. o = "ok" => crd[Required[i]] = "v1"
    BY <2>1 DEF Get
  <2>4. /\ UNCHANGED <<crd, pc, present, control>> /\ pc = "recheck"
        /\ i \in Nat /\ i' = i + 1 /\ i <= Len(Required)
    BY <1>8 DEF CheckRequiredCRDs, TypeOK
  <2>5. ~err'.failed => \A k \in 1 .. i' - 1 : crd[Required[k]] = "v1"
    BY <2>2, <2>3, <2>4 DEF CheckedInv
  <2>q. QED
    BY <2>4, <2>5 DEF CheckedInv, RegisteredServed, Served
<1>9. CASE Register
  <2>1. ~err.failed => \A k \in Range(Required) : crd[k] = "v1"
    BY <1>9 DEF Register, CheckedInv, Range, TypeOK
  <2>q. QED
    BY <1>9, <2>1 DEF Register, CheckedInv, RegisteredServed, Served
<1>10. CASE Restart
  BY <1>10 DEF Restart, CheckedInv, RegisteredServed, Served
<1>11. CASE Timeout
  BY <1>11 DEF Timeout, CheckedInv, RegisteredServed, Served
<1>12. CASE InstallCRD
  <2>1. \A k \in Kinds : crd'[k] = crd[k] \/ crd'[k] = "v1"
    BY <1>12 DEF InstallCRD, TypeOK
  <2>2. Range(Required) \subseteq Kinds /\ Range(Optional) \subseteq Kinds
    BY DEF Kinds
  <2>3. UNCHANGED locals
    BY <1>12 DEF InstallCRD
  <2>5. RegisteredServed'
    BY <2>1, <2>2, <2>3 DEF CheckedInv, RegisteredServed, Served, locals, TypeOK
  <2>q. QED
    <3>1. ASSUME pc = "recheck", NEW k \in 1 .. i - 1 PROVE Required[k] \in Kinds
      BY <3>1 DEF CheckedInv, TypeOK
    <3>q. QED
      BY <2>1, <2>3, <2>5, <3>1 DEF CheckedInv, locals, TypeOK
<1>q. QED
  BY <1>s, <1>1, <1>2, <1>3, <1>4, <1>5, <1>6, <1>7, <1>8, <1>9, <1>10, <1>11, <1>12
     DEF Next, Startup

\* The reconcilers are registered, and optional kinds watched, only over CRDs
\* that are served.
THEOREM OnlyServedRegistered == Spec => []RegisteredServed
<1>1. Init => CheckedInv
  BY DEF Init, CheckedInv, RegisteredServed
<1>2. CheckedInv => RegisteredServed
  BY DEF CheckedInv
<1>q. QED
  BY <1>1, <1>2, CheckedStep, TypeCorrect, PTL DEF Spec

-----------------------------------------------------------------------------
(* Outages. *)

\* Until the context expires, what fails in an attempt that met neither a missing
\* CRD nor an unknown error is transient: the reason why joining errors does not
\* hide an outage behind another one.
OutageInv ==
    /\ pc = "start" => err = NoError
    /\ pc \in {"start", "required", "optional", "wait"} => result = "none"
    /\ pc \in {"required", "optional"} /\ ~expired /\ ~missing /\ ~unknown =>
          err.api # "final" /\ (err.failed => isTransientError(err))
    /\ DisabledOnlyIfMissing

LEMMA OutageStep == TypeOK /\ OutageInv /\ [Next]_vars => OutageInv'
<1> SUFFICES ASSUME TypeOK, OutageInv, [Next]_vars PROVE OutageInv'
  OBVIOUS
<1> USE DEF OutageInv, DisabledOnlyIfMissing, NoError, isTransientError
<1>s. CASE UNCHANGED vars
  BY <1>s DEF vars, locals
<1>1. CASE NewPreconditions
  BY <1>1 DEF NewPreconditions
<1>2. CASE CheckRequired
  <2>1. PICK o \in Outcomes :
          /\ Get(Required[i], {"other", "v1"}, TRUE, o)
          /\ err' = IF o = "ok" THEN err ELSE Join(err, o)
          /\ missing' = (missing \/ (~expired /\ o # "ok" /\ faults' = faults))
          /\ unknown' = (unknown \/ (~expired /\ o \in {"final", "plain"} /\ faults' # faults))
    BY <1>2 DEF CheckRequired, Outcomes
  <2>2. UNCHANGED <<pc, expired, result, enabled>> /\ pc = "required"
    BY <1>2 DEF CheckRequired
  <2>3. ASSUME ~expired, ~missing', ~unknown'
        PROVE  err'.api # "final" /\ (err'.failed => isTransientError(err'))
    <3>1. ~missing /\ ~unknown /\ o \in {"ok", "transient", "net"}
      BY <2>1, <2>3 DEF Outcomes
    <3>2. CASE o = "ok"
      BY <2>1, <2>2, <2>3, <3>1, <3>2
    <3>3. CASE o = "transient"
      BY <2>1, <2>2, <2>3, <3>1, <3>3 DEF Join, TypeOK
    <3>4. CASE o = "net"
      BY <2>1, <2>2, <2>3, <3>1, <3>4 DEF Join, TypeOK
    <3>q. QED
      BY <3>1, <3>2, <3>3, <3>4
  <2>4. (result' = "disabled" /\ enabled') => missing' \/ unknown'
    BY <2>1, <2>2
  <2>q. QED
    BY <2>2, <2>3, <2>4
<1>3. CASE RequiredChecked
  BY <1>3 DEF RequiredChecked
<1>4. CASE CheckOptional
  BY <1>4 DEF CheckOptional
<1>5. CASE Decide
  BY <1>5 DEF Decide
<1>6. CASE Wait
  BY <1>6 DEF Wait
<1>7. CASE InitController
  BY <1>7 DEF InitController
<1>8. CASE CheckRequiredCRDs
  BY <1>8 DEF CheckRequiredCRDs
<1>9. CASE Register
  BY <1>9 DEF Register
<1>10. CASE Restart
  BY <1>10 DEF Restart
<1>11. CASE Timeout
  BY <1>11 DEF Timeout
<1>12. CASE InstallCRD
  BY <1>12 DEF InstallCRD, locals
<1>q. QED
  BY <1>s, <1>1, <1>2, <1>3, <1>4, <1>5, <1>6, <1>7, <1>8, <1>9, <1>10, <1>11, <1>12
     DEF Next, Startup

\* The discovery disables the Gateway API only after it met, in the same attempt,
\* a required CRD that is not served or an error isTransientError does not know:
\* neither the timeout nor a known outage does it.
THEOREM DisablingJustified == Spec => []DisabledOnlyIfMissing
<1>1. Init => OutageInv
  BY DEF Init, OutageInv, DisabledOnlyIfMissing, NoError
<1>2. OutageInv => DisabledOnlyIfMissing
  BY DEF OutageInv
<1>q. QED
  BY <1>1, <1>2, OutageStep, TypeCorrect, PTL DEF Spec
=============================================================================
