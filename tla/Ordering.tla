------------------------------- MODULE Ordering -------------------------------
(***************************************************************************)
(* Two idioms of the code, in a form that can be reasoned about:           *)
(* sort.Slice, of what an order tells apart (every element stands behind   *)
(* as many others as are before it), and the loop over a slice that        *)
(* appends what it keeps to another.                                       *)
(***************************************************************************)
EXTENDS Integers, FiniteSets, SequencesExt

Sorted(S, Before(_, _)) ==
  [i \in 1..Cardinality(S) |->
     CHOOSE x \in S : Cardinality({y \in S : Before(y, x)}) = i - 1]

Filtered(s, T) == FoldLeft(LAMBDA r, x : IF x \in T THEN Append(r, x) ELSE r, <<>>, s)
=============================================================================
