-------------------------------- MODULE MCCrm --------------------------------
(* Small instances of Crm for TLC.                                         *)
EXTENDS Crm, TLC

\* Sound: the properties are invariants and action properties.
Symmetry ==
  Permutations(Customers) \cup Permutations(Contacts) \cup Permutations(Requests)
    \cup Permutations(Values)
==============================================================================
