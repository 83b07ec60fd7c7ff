----------------------------- MODULE MCSettings -----------------------------
(* Small instances of Settings for TLC.  No symmetry: liveness is checked. *)
EXTENDS Settings

\* One asset, of tenant 1: for tenant 2 it is somebody else's.
AssetOfOne == [a \in Assets |-> 1]

\* Texts tell the tenants' bodies apart.  Tenant 2 names the asset of tenant 1.
SomeBodies == [t \in Tenants |-> [text : {t}, logo : Assets]]
=============================================================================
