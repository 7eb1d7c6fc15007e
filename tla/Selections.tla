------------------------------ MODULE Selections ------------------------------
(* Parts of a sequence, in its order: the list comprehensions of the stages. *)
EXTENDS Integers, Sequences, FiniteSets, Functions

\* The numbers of a finite set, the least first.
InOrder(S) == CHOOSE q \in [1..Cardinality(S) -> S] : \A i, j \in DOMAIN q : i < j => q[i] < q[j]
\* What is in keep, or is not in drop, of a sequence.
Only(s, keep) == LET at == InOrder({i \in DOMAIN s : s[i] \in keep})
                 IN [n \in DOMAIN at |-> s[at[n]]]
Without(s, drop) == Only(s, Range(s) \ drop)
===============================================================================
