------------------------------ MODULE MCAccess ------------------------------
(* Small instances of Access for TLC.                                      *)
EXTENDS Access, TLC

Symmetry ==
  Permutations(Users) \cup Permutations(Replicas) \cup Permutations(Requests)
=============================================================================
