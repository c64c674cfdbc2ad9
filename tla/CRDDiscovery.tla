---------------------------- MODULE CRDDiscovery ----------------------------
(***************************************************************************)
(* Start-up of the Gateway API support (pkg/gateway_api/cell.go): the      *)
(* preconditions with their discovery of the CustomResourceDefinitions,    *)
(* retried on transient errors until a timeout, then the second check and  *)
(* the registration of the reconcilers.  One step per Get, so that CRDs    *)
(* are installed, calls fail and the timeout strikes between any two.      *)
(* CRDs are installed and upgraded, never removed.  registerSecretSync     *)
(* has no consumer in the repository and is left out.                      *)
(***************************************************************************)
EXTENDS Naturals, Sequences

CONSTANTS
    Required,    \* RequiredGVKs, in the order they are checked
    Optional,    \* AllOptionalKinds, in the order they are checked
    InitState,   \* the states a CRD may be in at the start
    MaxFaults    \* bound: failed calls and timeouts

CrdState == {"absent", "unserved", "other", "v1"}

ASSUME KindsAssumption == Required \in Seq(STRING) /\ Optional \in Seq(STRING)
ASSUME StateAssumption == InitState \subseteq CrdState
ASSUME FaultsAssumption == MaxFaults \in Nat

Range(s) == {s[i] : i \in 1 .. Len(s)}
Kinds == Range(Required) \cup Range(Optional)
\* "other": a version is served, but not the one of the required GVK.
Served(k, crds) == crds[k] \in {"other", "v1"}

VARIABLES
    crd,      \* the CRDs in the API server
    enabled,  \* EnableGatewayAPI
    pc, i,    \* where the start-up is, and the next kind to check
    err,      \* the joined errors of the required kinds
    present,  \* optional kinds found
    expired,  \* the discovery context has timed out
    result,   \* gatewayAPIPreconditions
    control,  \* what initGatewayAPIController did
    missing,  \* history: this attempt was told that a required CRD is not served
    unknown,  \* history: a required Get of this attempt failed with an error
              \* that isTransientError does not know
    faults    \* spent budget

locals == <<pc, i, err, present, expired, result, control, missing, unknown>>
vars == <<crd, enabled, locals, faults>>

-----------------------------------------------------------------------------
(* Errors.                                                                 *)

\* What isTransientError can tell of joined errors: the first API status among
\* them, and whether one of them is a network errno.
NoError == [failed |-> FALSE, api |-> "none", net |-> FALSE]

\* transient: server timeout, unavailable, too many requests; final: any other
\* API status; net: connection refused, reset, unreachable; plain: the rest.
Join(e, c) ==
    [failed |-> TRUE,
     api |-> IF e.api = "none" /\ c \in {"transient", "final"} THEN c ELSE e.api,
     net |-> e.net \/ c = "net"]

\* Mutant: every error is worth a retry.
isAnyError(e) == e.failed

isTransientError(e) == e.api = "transient" \/ e.net

Fault == faults < MaxFaults /\ faults' = faults + 1

\* Get of kind k, when its CRD counts as present in states S: o is its outcome.
\* A call can fail with any error: one isTransientError knows, another API status
\* (an internal error, a refused permission) or none of them (a broken
\* connection, a failed name lookup or handshake).
Get(k, S, timed, o) ==
    \/ timed /\ expired /\ o = "plain" /\ UNCHANGED faults
    \/ /\ ~(timed /\ expired) /\ UNCHANGED faults
       /\ o = IF crd[k] \in S THEN "ok" ELSE IF crd[k] = "absent" THEN "final" ELSE "plain"
    \/ ~(timed /\ expired) /\ Fault /\ o \in {"transient", "net", "final", "plain"}

-----------------------------------------------------------------------------
(* newGatewayAPIPreconditions.                                             *)

NewPreconditions ==
    /\ pc = "start"
    /\ \/ enabled /\ pc' = "required" /\ UNCHANGED result
       \/ ~enabled /\ pc' = "init" /\ result' = "disabled"
    /\ UNCHANGED <<crd, enabled, i, err, present, expired, control, missing, unknown, faults>>

\* checkCRD of the next required kind: any served version will do.
CheckRequired ==
    /\ pc = "required" /\ i <= Len(Required)
    /\ \E o \in {"ok", "transient", "net", "final", "plain"} :
          /\ Get(Required[i], {"other", "v1"}, TRUE, o)
          /\ err' = IF o = "ok" THEN err ELSE Join(err, o)
          /\ missing' = (missing \/ (~expired /\ o # "ok" /\ faults' = faults))
          /\ unknown' = (unknown \/ (~expired /\ o \in {"final", "plain"} /\ faults' # faults))
    /\ i' = i + 1
    /\ UNCHANGED <<crd, enabled, pc, present, expired, result, control>>

RequiredChecked ==
    /\ pc = "required" /\ i > Len(Required)
    /\ pc' = "optional" /\ i' = 1
    /\ UNCHANGED <<crd, enabled, err, present, expired, result, control, missing, unknown, faults>>

\* An optional kind whose check fails, for whatever reason, is not present.
CheckOptional ==
    /\ pc = "optional" /\ i <= Len(Optional)
    /\ \E o \in {"ok", "transient", "net", "final", "plain"} :
          /\ Get(Optional[i], {"other", "v1"}, TRUE, o)
          /\ present' = IF o = "ok" THEN present \cup {Optional[i]} ELSE present
    /\ i' = i + 1
    /\ UNCHANGED <<crd, enabled, pc, err, expired, result, control, missing, unknown>>

\* Mutant: an expired context is not told apart from missing CRDs.
DecideByErrorOnly ==
    /\ pc = "optional" /\ i > Len(Optional)
    /\ \/ ~err.failed /\ result' = "enabled" /\ pc' = "init"
       \/ err.failed /\ ~isTransientError(err) /\ result' = "disabled" /\ pc' = "init"
       \/ err.failed /\ isTransientError(err) /\ pc' = "wait" /\ UNCHANGED result
    /\ i' = 1
    /\ UNCHANGED <<crd, enabled, err, present, expired, control, missing, unknown, faults>>

\* The rest of the loop of discoverCRDsWithRetry.
Decide ==
    /\ pc = "optional" /\ i > Len(Optional)
    /\ \/ ~err.failed /\ result' = "enabled" /\ pc' = "init"
       \/ err.failed /\ expired /\ pc' = "down" /\ UNCHANGED result
       \/ /\ err.failed /\ ~expired /\ ~isTransientError(err)
          /\ result' = "disabled" /\ pc' = "init"
       \/ err.failed /\ ~expired /\ isTransientError(err) /\ pc' = "wait" /\ UNCHANGED result
    /\ i' = 1
    /\ UNCHANGED <<crd, enabled, err, present, expired, control, missing, unknown, faults>>

\* Back off, then check again; the context's end is an error.
Wait ==
    /\ pc = "wait"
    /\ pc' = IF expired THEN "down" ELSE "required"
    /\ err' = NoError /\ present' = {} /\ missing' = FALSE /\ unknown' = FALSE
    /\ UNCHANGED <<crd, enabled, i, expired, result, control, faults>>

Timeout ==
    /\ pc \in {"required", "optional", "wait"} /\ ~expired /\ Fault
    /\ expired' = TRUE
    /\ UNCHANGED <<crd, enabled, pc, i, err, present, result, control, missing, unknown>>

-----------------------------------------------------------------------------
(* initGatewayAPIController.                                               *)

InitController ==
    /\ pc = "init"
    /\ \/ result = "enabled" /\ pc' = "recheck" /\ UNCHANGED control
       \/ result = "disabled" /\ pc' = "done" /\ control' = "skipped"
    /\ err' = NoError
    /\ UNCHANGED <<crd, enabled, i, present, expired, result, missing, unknown, faults>>

\* Mutant: any served version will do.
RecheckServed ==
    /\ pc = "recheck" /\ i <= Len(Required)
    /\ \E o \in {"ok", "transient", "net", "final", "plain"} :
          /\ Get(Required[i], {"other", "v1"}, FALSE, o)
          /\ err' = IF o = "ok" THEN err ELSE Join(err, o)
    /\ i' = i + 1
    /\ UNCHANGED <<crd, enabled, pc, present, expired, result, control, missing, unknown>>

\* checkRequiredCRDs, kind by kind: the required version must be served.
CheckRequiredCRDs ==
    /\ pc = "recheck" /\ i <= Len(Required)
    /\ \E o \in {"ok", "transient", "net", "final", "plain"} :
          /\ Get(Required[i], {"v1"}, FALSE, o)
          /\ err' = IF o = "ok" THEN err ELSE Join(err, o)
    /\ i' = i + 1
    /\ UNCHANGED <<crd, enabled, pc, present, expired, result, control, missing, unknown>>

\* Any error skips the registration for the life of the process; a failing
\* registration ends the process.
Register ==
    /\ pc = "recheck" /\ i > Len(Required)
    /\ \/ err.failed /\ pc' = "done" /\ control' = "skipped" /\ UNCHANGED faults
       \/ ~err.failed /\ pc' = "done" /\ control' = "registered" /\ UNCHANGED faults
       \/ ~err.failed /\ Fault /\ pc' = "down" /\ UNCHANGED control
    /\ UNCHANGED <<crd, enabled, i, err, present, expired, result, missing, unknown>>

\* A start-up that returned an error ends the process; it is started again.
Restart ==
    /\ pc = "down"
    /\ pc' = "start" /\ i' = 1 /\ err' = NoError /\ present' = {} /\ expired' = FALSE
    /\ result' = "none" /\ control' = "none" /\ missing' = FALSE
    /\ unknown' = FALSE
    /\ UNCHANGED <<crd, enabled, faults>>

InstallCRD ==
    /\ \E k \in Kinds : crd[k] # "v1" /\ crd' = [crd EXCEPT ![k] = "v1"]
    /\ UNCHANGED <<enabled, locals, faults>>

-----------------------------------------------------------------------------
Init ==
    /\ crd \in [Kinds -> InitState]
    /\ enabled \in BOOLEAN
    /\ pc = "start" /\ i = 1 /\ err = NoError /\ present = {} /\ expired = FALSE
    /\ result = "none" /\ control = "none" /\ missing = FALSE /\ unknown = FALSE
    /\ faults = 0

Startup ==
    \/ NewPreconditions \/ CheckRequired \/ RequiredChecked \/ CheckOptional \/ Decide
    \/ Wait \/ InitController \/ CheckRequiredCRDs \/ Register \/ Restart

Next == Startup \/ Timeout \/ InstallCRD

Spec == Init /\ [][Next]_vars

\* The start-up runs on; faults end, timeouts and installations owe nothing.
FairSpec == Spec /\ WF_vars(Startup)

-----------------------------------------------------------------------------
(* Properties.                                                             *)

\* Every variable stays in its domain.
TypeOK ==
    /\ crd \in [Kinds -> CrdState]
    /\ enabled \in BOOLEAN /\ expired \in BOOLEAN /\ missing \in BOOLEAN
    /\ unknown \in BOOLEAN
    /\ pc \in {"start", "required", "optional", "wait", "init", "recheck", "done", "down"}
    /\ i \in 1 .. Len(Required) + Len(Optional) + 1
    /\ err \in [failed : BOOLEAN, api : {"none", "transient", "final"}, net : BOOLEAN]
    /\ present \subseteq Range(Optional)
    /\ result \in {"none", "enabled", "disabled"}
    /\ control \in {"none", "registered", "skipped"}
    /\ faults \in 0 .. MaxFaults

\* The reconcilers are registered, and an optional kind is watched, only when
\* its CRD is served; the required ones at the version that is watched, although
\* the discovery accepts any version and the CRDs change in between.
RegisteredServed ==
    /\ control = "registered" => \A k \in Range(Required) : crd[k] = "v1"
    /\ \A k \in present : Served(k, crd)

\* "disables Gateway API gracefully if CRDs are permanently missing" (cell.go:103):
\* the discovery disables the Gateway API only after an answer of the same attempt
\* that a required CRD is not served.  The exception is a failed call whose error
\* isTransientError does not know, such as an internal error of the API server, a
\* broken connection or a failed name lookup: it passes for a missing CRD.  The
\* timeout and the errors isTransientError knows never do, in whatever order they
\* are joined with others and whatever earlier attempts met.
DisabledOnlyIfMissing == (result = "disabled" /\ enabled) => missing \/ unknown

\* The start-up comes to an end, whatever the order of outages and timeouts.
Settles == <>[](pc = "done")
=============================================================================
