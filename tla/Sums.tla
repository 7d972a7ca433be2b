-------------------------------- MODULE Sums --------------------------------
(***************************************************************************)
(* The sum of a function on 1..n, and of one on any finite set.  They are  *)
(* SumFunction of the community modules, written as a recursion on the     *)
(* index so that LedgerLemmas can prove how an update of one element       *)
(* changes them.                                                           *)
(***************************************************************************)
EXTENDS Integers, FiniteSets, Functions

PartialSums(f, n) ==
  LET s[i \in 0 .. n] == IF i = 0 THEN 0 ELSE s[i - 1] + f[i]
  IN  s

Sum(f, n) == PartialSums(f, n)[n]

\* The members of a finite set, each once.
Listing(S) == CHOOSE list \in Bijection(1 .. Cardinality(S), S) : TRUE

SumAlong(f, list, n) == Sum([i \in 1 .. n |-> f[list[i]]], n)
=============================================================================
