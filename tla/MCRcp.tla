------------------------------- MODULE MCRcp -------------------------------
(* Rcp on a small heap.                                                    *)
EXTENDS Rcp, TLC

(* Threads, variables and addresses are interchangeable.                   *)
Symmetry == Permutations(Threads) \cup Permutations(Vars) \cup Permutations(Objs)

=============================================================================
