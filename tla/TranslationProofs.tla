-------------------------- MODULE TranslationProofs ---------------------------
(***************************************************************************)
(* The translation pipelines drive the BackendTLSPolicies: whatever the    *)
(* rest of the reconcile does, the policies see a behaviour of PolicySpec, *)
(* so what BackendTLSPolicyProofs shows of it holds of the pipelines.      *)
(***************************************************************************)
EXTENDS Translation, BackendTLSPolicyProofs

USE ZenonT(40)

\* The admitted policies of the input, and none at all, are admitted.
LEMMA InitAdmits == ASSUME Init PROVE Admitted(policies) /\ PolicyInit(policies, attached, authz, services)
<1>1. CASE PolicyInit(<<>>, FALSE, {}, {})
  <2>1. policies = <<>> /\ attached = FALSE /\ authz = {} /\ services = {}
    BY <1>1 DEF PolicyInit
  <2>2. Admitted(policies)
    BY <2>1, NoNames DEF Admitted
  <2> QED BY <1>1, <2>1, <2>2
<1>2. ASSUME NEW i \in PolicyInputs,
             PolicyInit(i.policies, IngestionInput(i.gateway).http # <<>>, i.authz, i.services)
      PROVE  Admitted(policies) /\ PolicyInit(policies, attached, authz, services)
  <2> DEFINE a == IngestionInput(i.gateway).http # <<>>
  <2>1. PolicyInit(i.policies, a, i.authz, i.services)
    BY <1>2
  <2> HIDE DEF a
  <2>2. policies = i.policies /\ attached = a /\ authz = i.authz /\ services = i.services
    BY <2>1 DEF PolicyInit
  <2> QED BY <2>1, <2>2, PolicyInputsAssumption
<1> QED BY <1>1, <1>2 DEF Init

\* A step of the pipelines is a step of the policies or leaves them alone.
LEMMA StepOfPolicies == ASSUME [Next]_vars PROVE [PolicyNext]_policyVars
<1>1. CASE IngestGateway \/ IngestIngress \/ TranslateModel
  BY <1>1 DEF IngestGateway, IngestIngress, TranslateModel
<1>2. CASE SetBackendTLSPolicyStatuses
  BY <1>2 DEF SetBackendTLSPolicyStatuses, PolicyNext
<1>3. CASE ReconcileAgain
  BY <1>3 DEF ReconcileAgain, PolicyNext
<1>4. CASE Cluster
  BY <1>4 DEF Cluster, PolicyNext
<1>5. CASE UNCHANGED vars
  BY <1>5 DEF vars
<1> QED BY <1>1, <1>2, <1>3, <1>4, <1>5 DEF Next

\* The pipelines implement PolicySpec: a reconcile enters the status loop once
\* per ingestion, leaves it before it translates, and nothing else of it
\* changes what the loop depends on.
THEOREM ImplementsPolicies == Spec => PolicySpec
<1>1. Init => Admitted(policies) /\ PolicyInit(policies, attached, authz, services)
  BY InitAdmits
<1>2. [Next]_vars => [PolicyNext]_policyVars
  BY StepOfPolicies
<1> QED BY <1>1, <1>2, PTL DEF Spec, PolicySpec

\* So in every reconcile of the Gateway the oldest policies win, an undisturbed
\* one stores their verdicts, and only policies whose targets disagree block
\* one that nothing disturbed.
THEOREM PoliciesOfReconcile ==
    Spec => [](OldestPolicyWins /\ PolicyVerdictStored /\ PoliciesBlockOnlyMixed)
BY ImplementsPolicies, OldestPolicyWinsAlways, PolicyVerdictStoredAlways,
   PoliciesBlockOnlyMixedAlways, PTL
=============================================================================
