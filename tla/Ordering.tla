------------------------------ MODULE Ordering ------------------------------
(***************************************************************************)
(* Sets of numbers as sequences: the way the code goes through a std::set  *)
(* or through the elements of a vector that have some property.            *)
(***************************************************************************)
EXTENDS Integers, Sequences, FiniteSets

(* The numbers in S up to last, in order: up to the k-th there are k.      *)
Ascending(S, last) ==
  LET T == S \cap 1..last
  IN [k \in 1..Cardinality(T) |-> CHOOSE n \in T : Cardinality(T \cap 1..n) = k]

(* The elements of s at the places in S, in order.                         *)
Selected(s, S) ==
  LET at == Ascending(S, Len(s))
  IN [k \in DOMAIN at |-> s[at[k]]]

=============================================================================
