------------------------------ MODULE MCTxnMan ------------------------------
(***************************************************************************)
(* Instances of TxnMan for TLC.  "a" and "b" have primary keys of their    *)
(* own; "x" collides with "a"; "c" is a key of its own that is too long    *)
(* for the KEY field when MCKeyCut is used.  "v1, long" is too long for    *)
(* the VALUE field.                                                        *)
(***************************************************************************)
EXTENDS TxnManInv, TLC

MCHash == [k \in Key |-> CASE k \in {"a", "x"} -> 1 [] k = "b" -> 2 [] OTHER -> 3]
MCKeyBuf == [k \in Key |-> k]
MCKeyCut == [k \in Key |-> IF k = "c" THEN "c, cut" ELSE k]
MCValBuf == [v \in Value |-> IF v = "v1, long" THEN "v1" ELSE v]
Symmetry == Permutations(Txn)

=============================================================================
