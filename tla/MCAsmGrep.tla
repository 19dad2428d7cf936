------------------------------ MODULE MCAsmGrep ------------------------------
(***************************************************************************)
(* A tree whose files print: x has a line longer than the buffer behind a  *)
(* short one, y two that do not fit together, u cannot be read.            *)
(*   r/ --- a/ --- x                                                       *)
(*      `-- b/ --- y                                                       *)
(*             `-- u                                                       *)
(***************************************************************************)
EXTENDS AsmGrep

CONSTANTS r, a, b, x, y, u, short, long, half1, half2

TreeNode == {r, a, b, x, y, u}
TreeEntries == [p \in TreeNode |-> CASE p = r -> <<a, b>>
                                     [] p = a -> <<x>>
                                     [] p = b -> <<y, u>>
                                     [] OTHER -> <<>>]
TreeMode == [p \in TreeNode |-> IF p \in {r, a, b} THEN "DIR" ELSE "REG"]
UnitLen == [p \in TreeNode |-> 1]
FileAndTree == <<y, r>>
FileLines == [p \in TreeNode |-> CASE p = x -> <<short, long>>
                                   [] p = y -> <<half1, half2>>
                                   [] OTHER -> <<>>]
LineSize == [l \in Line |-> CASE l = long -> 9 [] l = short -> 2 [] OTHER -> 3]
=============================================================================
