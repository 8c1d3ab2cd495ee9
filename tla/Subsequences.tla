---------------------------- MODULE Subsequences ----------------------------
(* The part of a list that a comprehension with a condition keeps.  It is  *)
(* the SelectSeq of module Sequences, with the condition as the set of the *)
(* positions that satisfy it, in a form that can be reasoned about.        *)
EXTENDS Integers, Sequences

\* The elements of s at the positions in I, in the order of s.
Pick(s, I) ==
  LET f[n \in 0 .. Len(s)] == IF n = 0 THEN <<>>
                              ELSE IF n \in I THEN Append(f[n - 1], s[n]) ELSE f[n - 1]
  IN  f[Len(s)]

=============================================================================
