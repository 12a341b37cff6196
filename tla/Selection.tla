----------------------------- MODULE Selection -----------------------------
(***************************************************************************)
(* Elements taken out of a sequence in their order, and sets of numbers in *)
(* ascending order: what SelectSeq and SetToSortSeq give, defined so that  *)
(* it can be reasoned about.                                               *)
(***************************************************************************)
EXTENDS Naturals, FiniteSets

(* The numbers of a finite set, the least first.                           *)
Ascending(I) ==
  CHOOSE f \in [1..Cardinality(I) -> I] :
    /\ \A i \in I : \E k \in DOMAIN f : f[k] = i
    /\ \A j, k \in DOMAIN f : j < k => f[j] < f[k]

(* The elements of s at the places I, in their order.                      *)
Pick(s, I) == [k \in 1..Cardinality(I) |-> s[Ascending(I)[k]]]
=============================================================================
