----------------------------- MODULE MCAlertDedupe -----------------------------
(* Instances of AlertDedupe for TLC.                                         *)
EXTENDS AlertDedupe
=============================================================================
