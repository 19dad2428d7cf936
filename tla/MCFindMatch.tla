----------------------------- MODULE MCFindMatch -----------------------------
(***************************************************************************)
(* Every haystack up to a length over "A", "a" and the rare "z", and every *)
(* one over the common "a" and "e"; patterns for each of the five searches *)
(* and both case mappings.                                                 *)
(***************************************************************************)
EXTENDS FindMatch, SequencesExt

CONSTANTS MaxCase, MaxCommon

A == 65
a == 97
e == 101
z == 122

\* Closed under the two case mappings.
Codes == {A, a, 90, z, 69, e}
SmallHays == BoundedSeq({A, a, z}, MaxCase) \cup BoundedSeq({a, e}, MaxCommon)
SmallPats == {<<a>>, <<z>>, <<A>>,                                  \* one byte
              <<a, z>>, <<z, a>>, <<A, z>>, <<z, z>>, <<a, a, z>>,   \* a rare byte
              <<a, a>>, <<a, e>>, <<e, a, a>>, <<a, a, e>>,          \* common bytes
              <<a, z, A, a>>, <<z, a, a, z>>, <<a, a, e, a>>}        \* BMH
=============================================================================
