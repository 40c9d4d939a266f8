--------------------------- MODULE MCTransaction ---------------------------
(* Small instances of Transaction for TLC. *)
EXTENDS Transaction, TLC

\* Users, Rows and statements are interchangeable.
Symmetry == Permutations(Users) \cup Permutations(Rows) \cup Permutations(Stmts)
=============================================================================
