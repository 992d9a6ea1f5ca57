-------------------------- MODULE MCBootstrapRole --------------------------
(* Small instances of BootstrapRole for TLC. *)
EXTENDS BootstrapRole, TLC

CONSTANTS s1, s2, t1, t2, t3

(* Two tables in one schema, one in the other. *)
ThreeTables == (t1 :> s1) @@ (t2 :> s1) @@ (t3 :> s2)

RunSymmetry == Permutations(Runs)
=============================================================================
