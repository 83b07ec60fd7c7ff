------------------------------ MODULE MCAssets ------------------------------
(* Small instances of Assets for TLC.  No symmetry: liveness is checked.   *)
EXTENDS Assets
=============================================================================
