----------------------------- MODULE MCConnPool -----------------------------
(* Small instances of ConnPool for TLC. *)
EXTENDS ConnPool, TLC

\* Goroutines of one kind, pools and connection identities are interchangeable.
Symmetry == Permutations(Clients) \cup Permutations(Pools)
            \cup Permutations(Conns)
=============================================================================
