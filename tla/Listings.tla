------------------------------- MODULE Listings -------------------------------
(* The order in which rows are listed.                                       *)
EXTENDS Naturals, FiniteSets

(* Numbers, such as ids and places in another list, in ascending order.      *)
Ordered(S) == CHOOSE s \in [1..Cardinality(S) -> S] : \A i, j \in DOMAIN s : i < j => s[i] < s[j]
=============================================================================
