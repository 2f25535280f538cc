-------------------------------- MODULE InOrder --------------------------------
(***************************************************************************)
(* Some elements of a sequence, in their order: what the code writes as a  *)
(* comprehension over a list, [x for x in s if ...].  SelectSeq says the   *)
(* same, but nothing can be proved from its recursion; here the k-th       *)
(* element that remains is the one at the k-th of the chosen positions.    *)
(***************************************************************************)
EXTENDS Integers, Sequences, FiniteSets

\* How many of the positions I are not after i.
UpTo(I, i) == Cardinality({j \in I : j <= i})

\* The k-th of the positions I.
Position(I, k) == CHOOSE i \in I : UpTo(I, i) = k

\* The elements of s at the positions I.
AtPositions(s, I) == [k \in 1..Cardinality(I) |-> s[Position(I, k)]]

\* The elements that are in D, and those that are not.
Within(s, D) == AtPositions(s, {i \in 1..Len(s) : s[i] \in D})
Without(s, D) ==
    IF \A i \in 1..Len(s) : s[i] \notin D THEN s
    ELSE AtPositions(s, {i \in 1..Len(s) : s[i] \notin D})
================================================================================
