------------------------------- MODULE Counting -------------------------------
(***************************************************************************)
(* How often an element, or one of a set, stands in a sequence, how many   *)
(* elements the sets of a family have together, and what numbers add up    *)
(* to.  All are cardinalities and not folds, so that the laws they obey    *)
(* can be proved (CountingProofs).                                         *)
(***************************************************************************)
EXTENDS Integers, Sequences, FiniteSets

\* Where and how often x stands in s.
Places(x, s) == {i \in DOMAIN s : s[i] = x}
Times(x, s) == Cardinality(Places(x, s))

\* How many places of s have an element of S.
Hits(S, s) == Cardinality({i \in DOMAIN s : s[i] \in S})

\* The size of the disjoint union of the sets P[w].
Total(P) == Cardinality(UNION {{w} \X P[w] : w \in DOMAIN P})

\* The sum of the positive ones of the results.
PositiveSum(results) == Total([i \in DOMAIN results |-> 1 .. results[i]])

\* How often x stands in the sequences ss[w] together.
Among(x, ss) == Total([w \in DOMAIN ss |-> Places(x, ss[w])])
=============================================================================
