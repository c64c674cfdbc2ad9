------------------------- MODULE IngressPublication --------------------------
(***************************************************************************)
(* What the Ingress controller promises about the proxy configuration it   *)
(* publishes, without queues, caches or steps.  Every Ingress has a        *)
(* history of revisions; "dedicated" and "shared" name the revision that   *)
(* the Ingress's own DolphinEnvoyConfig and the shared one currently hold  *)
(* (0 for none).  A published revision is one that asked for the mode it   *)
(* is published in, a newer one may replace it but an older one never      *)
(* does, and an Ingress's own configuration goes away only when a revision *)
(* at least as new stopped asking for it.                                  *)
(***************************************************************************)
EXTENDS Naturals, Sequences

CONSTANTS Ingresses, Revisions, DefaultDedicated

VARIABLES history, dedicated, shared

vars == <<history, dedicated, shared>>

\* annotation "loadbalancer-mode", or the configured default.
Dedicated(r) == r.lb = "dedicated" \/ (r.lb = "unset" /\ DefaultDedicated)

\* A revision without a class of its own may stop being served at any time: the
\* IngressClass decides.
MayServe(r) == r.phase = "live" /\ r.class \in {"dolphin", "empty"}
MustServe(r) == r.phase = "live" /\ r.class = "dolphin"

Init ==
    /\ history \in [Ingresses -> {<<r>> : r \in Revisions}]
    /\ dedicated = [i \in Ingresses |-> 0]
    /\ shared = [i \in Ingresses |-> 0]

Revise(i) ==
    /\ \E r \in Revisions : history' = [history EXCEPT ![i] = Append(@, r)]
    /\ UNCHANGED <<dedicated, shared>>

PublishDedicated(i) ==
    /\ \E k \in 1..Len(history[i]) :
         /\ k >= dedicated[i]
         /\ MayServe(history[i][k]) /\ Dedicated(history[i][k])
         /\ dedicated' = [dedicated EXCEPT ![i] = k]
    /\ UNCHANGED <<history, shared>>

Retire(i) ==
    /\ dedicated[i] # 0
    /\ \E k \in dedicated[i]..Len(history[i]) :
         ~(MustServe(history[i][k]) /\ Dedicated(history[i][k]))
    /\ dedicated' = [dedicated EXCEPT ![i] = 0]
    /\ UNCHANGED <<history, shared>>

PublishShared ==
    /\ shared' \in [Ingresses -> Nat]
    /\ \A i \in Ingresses : shared'[i] # 0 =>
         /\ shared'[i] \in shared[i]..Len(history[i])
         /\ MayServe(history[i][shared'[i]]) /\ ~Dedicated(history[i][shared'[i]])
    /\ UNCHANGED <<history, dedicated>>

Next ==
    \/ \E i \in Ingresses : Revise(i) \/ PublishDedicated(i) \/ Retire(i)
    \/ PublishShared

Spec == Init /\ [][Next]_vars
=============================================================================
