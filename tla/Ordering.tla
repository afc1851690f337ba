------------------------------ MODULE Ordering ------------------------------
(***************************************************************************)
(* The members of a finite set in an order, and with it what a loop keeps  *)
(* of a sequence and what a sort makes of it; how often a sequence has an  *)
(* element.  SelectSeq and SortSeq say the same, but are nothing the       *)
(* provers know.                                                           *)
(***************************************************************************)
EXTENDS Integers, Sequences, FiniteSets

\* The members of S in the strict order R, a set of pairs: k - 1 come before the k-th.
Ascending(S, R) ==
  [k \in 1 .. Cardinality(S) |->
     CHOOSE x \in S : Cardinality({y \in S : <<y, x>> \in R}) = k - 1]

\* The elements of s at the places in P, by an order of the places.
Arrange(s, P, R) == [k \in 1 .. Cardinality(P) |-> s[Ascending(P, R)[k]]]

\* The elements of s at the places in P, as they come.
Keep(s, P) == Arrange(s, P, {e \in P \X P : e[1] < e[2]})

\* How often s has the element x.
Times(s, x) == Cardinality({k \in DOMAIN s : s[k] = x})
=============================================================================
