----------------------------- MODULE MCUserAdmin -----------------------------
(* Small instances of UserAdmin for TLC.                                   *)
EXTENDS UserAdmin, TLC

\* Bodies that demote, deactivate, promote or reactivate.
Demote(u)     == [target |-> u, role |-> "sales", status |-> "keep"]
Deactivate(u) == [target |-> u, role |-> "keep",  status |-> "inactive"]
Promote(u)    == [target |-> u, role |-> "admin", status |-> "keep"]
Activate(u)   == [target |-> u, role |-> "keep",  status |-> "active"]

Demotions == {Demote(u) : u \in Users}
Removals == Demotions \cup {Deactivate(u) : u \in Users}
RemovalOfEach == {Deactivate(1), Demote(2)}
AnyPatch == Removals \cup {Promote(u) : u \in Users} \cup {Activate(u) : u \in Users}
DemoteOrPromote == Demotions \cup {Promote(u) : u \in Users}

Symmetry == Permutations(Requests)
=============================================================================
