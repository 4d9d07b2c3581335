--------------------------- MODULE MCAssociationSaga ---------------------------
(* Small instances of AssociationSaga: a task and a decision.              *)
EXTENDS AssociationSaga

CONSTANTS t1, d1
================================================================================
