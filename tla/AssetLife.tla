------------------------------ MODULE AssetLife ------------------------------
(***************************************************************************)
(* What the file service promises of an asset's row, whatever its requests *)
(* do: it is recorded once, becomes ready and is deleted, in this order,   *)
(* and a deleted one never changes again.                                  *)
(***************************************************************************)
CONSTANT Assets

VARIABLE status

Init == status = [a \in Assets |-> "absent"]

Record(a) ==
  /\ status[a] = "absent"
  /\ status' = [status EXCEPT ![a] = "pending"]

Confirm(a) ==
  /\ status[a] = "pending"
  /\ status' = [status EXCEPT ![a] = "ready"]

Discard(a) ==
  /\ status[a] \in {"pending", "ready"}
  /\ status' = [status EXCEPT ![a] = "deleted"]

Next == \E a \in Assets : Record(a) \/ Confirm(a) \/ Discard(a)

Spec == Init /\ [][Next]_status
==============================================================================
