--------------------------- MODULE MCModelBudget ---------------------------
(* Instances of GatewayModelBudget for TLC. *)
EXTENDS GatewayModelBudget

CONSTANTS p1, p2, o1, o2

TwoOwners == {p1, p2}
TwoOps == {o1, o2}

\* Two operations of one user and project: each waits behind the other.
OneUser == [o \in TwoOps |-> "u"]
OneProject == [o \in TwoOps |-> "x"]
=============================================================================
