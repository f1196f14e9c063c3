--------------------------- MODULE MCTableSlots -----------------------------
(* TableSlots for TLC: f1 in both oracles, f2 in the Rust one only, and in  *)
(* the vendor union an alias of f1.                                         *)
EXTENDS TableSlots, TLC

CONSTANTS f1, f2, a1

Rank == f1 :> 1 @@ a1 :> 2 @@ f2 :> 3

MCRank == [f \in Functions |-> Rank[f]]

MCTarget == [a \in Aliases |-> f1]

=============================================================================
