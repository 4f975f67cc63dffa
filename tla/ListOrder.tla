------------------------------ MODULE ListOrder ------------------------------
(* What the lists of the desktop client share: the order a comparison puts *)
(* a set in, the positions of a choice in a list, and the active groups of *)
(* a list of groups a view has fetched.                                    *)
EXTENDS Integers, Sequences, FiniteSets

CONSTANT NULL

\* "-1 = all" for a filter, "none" for an entry; -2 for an entry not there.
All    == -1
None   == -1
Absent == -2

\* Indices go up: a purged group's index is not given to another.
GroupStates == {"absent", "active", "deleted", "purged"}

\* The elements of a finite set in the order a strict order puts them.
InOrder(S, Before(_, _)) ==
  [r \in 1 .. Cardinality(S) |->
     CHOOSE x \in S : Cardinality({y \in S : Before(y, x)}) = r - 1]

Smaller(a, b) == a < b

\* The groups of a fetched list that are not deleted; none without a list.
ActiveIn(snapshot) ==
  IF snapshot = NULL THEN {}
  ELSE {g \in DOMAIN snapshot : snapshot[g] = "active"}
=============================================================================
