---------------------------- MODULE MCStatements ----------------------------
(* Statements for TLC: connections are interchangeable, and so are users. *)
EXTENDS Statements, TLC

Symmetry == Permutations(Users) \cup Permutations(Conns)
=============================================================================
