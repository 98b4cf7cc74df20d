-------------------------------- MODULE Lists --------------------------------
(* Numbers in their order, and what stays of a list.                         *)
EXTENDS Naturals, FiniteSets, Sequences

(* A number's place among the numbers of a finite set. *)
Place(numbers, i) == Cardinality({j \in numbers : j <= i})

Ascending(numbers) ==
    [k \in 1 .. Cardinality(numbers) |-> CHOOSE i \in numbers : Place(numbers, i) = k]

(* What stays of a list when only these positions stay: each moves to its    *)
(* place among them.                                                         *)
Kept(list, kept) == [k \in 1 .. Cardinality(kept) |-> list[Ascending(kept)[k]]]
=============================================================================
