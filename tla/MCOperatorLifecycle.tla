------------------------ MODULE MCOperatorLifecycle ------------------------
(* Small instances of OperatorLifecycle for TLC. *)
EXTENDS OperatorLifecycle

CONSTANTS o1, o2, l1, l2
=============================================================================
