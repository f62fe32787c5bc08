------------------------------- MODULE Lists --------------------------------
(***************************************************************************)
(* What the functions of the window do with a list: find, the first element *)
(* or a default, and filter.  The filter is written without recursion, by   *)
(* the ranks of the positions that stay, so that it can be proved about.    *)
(***************************************************************************)
EXTENDS Naturals, Sequences, FiniteSets

In(x, order) == \E i \in DOMAIN order : order[i] = x

First(order, default) == IF order = <<>> THEN default ELSE order[1]

Stay(order, keep) == {i \in DOMAIN order : order[i] \in keep}
Rank(at, i) == Cardinality({j \in at : j <= i})

(* The elements of the list at these positions, in their order.             *)
At(order, at) == [n \in 1..Cardinality(at) |-> order[CHOOSE i \in at : Rank(at, i) = n]]

(* The elements of the list that are in `keep', in their order.             *)
Only(order, keep) == At(order, Stay(order, keep))

=============================================================================
