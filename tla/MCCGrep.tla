------------------------------- MODULE MCCGrep -------------------------------
(***************************************************************************)
(* Arguments and a tree for CGrep: y has two lines that do not fit         *)
(* together, v cannot be mapped, p is a named pipe; in the tree x has a    *)
(* short line and one longer than a buffer, z such a line, the path of s   *)
(* is too long, u cannot be opened, nor can the directory d; k is a link;  *)
(* the file system reports no type of b and x.                             *)
(*   r/ --- a/ --- x, k, u                                                 *)
(*      |-- b/ --- c/ --- s, z                                             *)
(*      `-- d/                                                             *)
(***************************************************************************)
EXTENDS CGrepRefinement

CONSTANTS r, a, b, c, d, x, y, z, k, p, u, v, s,
          short, long, long2, half1, half2, unseen, unseen2

TreeNode == {r, a, b, c, d, x, y, z, k, p, u, v, s}
FilesAndTree == <<y, v, p, r>>
TreeEntries == [n \in TreeNode |-> CASE n = r -> <<a, b, d>>
                                     [] n = a -> <<x, k, u>>
                                     [] n = b -> <<c>>
                                     [] n = c -> <<s, z>>
                                     [] OTHER -> <<>>]
TreeMode == [n \in TreeNode |-> IF n \in {r, a, b, c, d} THEN "DIR"
                                ELSE IF n = p THEN "FIFO" ELSE "REG"]
TreeDType == [n \in TreeNode |-> CASE n = k -> "LNK"
                                   [] n \in {b, x} -> "UNKNOWN"
                                   [] OTHER -> TreeMode[n]]
FileLines == [n \in TreeNode |-> CASE n = x -> <<short, long>>
                                   [] n = y -> <<half1, half2>>
                                   [] n = z -> <<long2>>
                                   [] n = v -> <<unseen>>
                                   [] n = s -> <<unseen2>>
                                   [] OTHER -> <<>>]
NameLen == [n \in TreeNode |-> CASE n = r -> 1 [] n \in {a, b, d} -> 2 [] OTHER -> 3]
LineSize == [l \in Line |-> CASE l \in {long, long2} -> 9
                              [] l = short -> 2
                              [] OTHER -> 3]
=============================================================================
