---------------------------- MODULE MCApiSubmit ----------------------------
(* Instances of ApiSubmit for TLC.                                          *)
EXTENDS ApiSubmit, TLC

Symmetry == Permutations(Requests) \cup Permutations(Refs)
============================================================================
