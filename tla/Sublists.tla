------------------------------ MODULE Sublists ------------------------------
(* Parts of a list, in the order of the list, and the members of a set in a *)
(* given order: Rust's filter, retain and sort, on the sequences of the    *)
(* other modules.                                                          *)
EXTENDS Integers, Sequences, FiniteSets

\* The members of a finite set in the order R, a set of pairs.
Arranged(S, R) ==
    [k \in 1..Cardinality(S) |->
        CHOOSE i \in S : Cardinality({j \in S : <<j, i>> \in R}) = k - 1]

\* The numbers of a finite set in rising order.
Ascending ==
    [S \in SUBSET Nat |->
        [k \in 1..Cardinality(S) |->
            CHOOSE i \in S : Cardinality({j \in S : j < i}) = k - 1]]

\* The list's elements at the given positions.
Sublist(list, at) ==
    LET kept == Ascending[at] IN [k \in DOMAIN kept |-> list[kept[k]]]

\* The list's elements that are members of a set.
Only(list, S) == Sublist(list, {i \in DOMAIN list : list[i] \in S})
=============================================================================
