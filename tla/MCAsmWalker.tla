----------------------------- MODULE MCAsmWalker -----------------------------
(***************************************************************************)
(* Small directory trees for AsmWalker and the properties TLC checks.      *)
(*                                                                         *)
(*   r/ --- a/ --- c/ --- n        (n does not match)                      *)
(*      |      |-- k               (a symlink)                             *)
(*      |      `-- m               (m matches)                             *)
(*      |-- b/ --- e               (e is a directory that cannot be opened)*)
(*      `-- d/  (d_type DT_UNKNOWN) --- n                                  *)
(***************************************************************************)
EXTENDS AsmWalkerRefinement

CONSTANTS r, a, b, c, d, e, k, m, n, gone

TreeNode == {r, a, b, c, d, e, k, m, n, gone}
TreeEntries ==
  [x \in TreeNode |-> CASE x = r -> <<a, b, d>>
                        [] x = a -> <<c, k, m>>
                        [] x = b -> <<e>>
                        [] x = c -> <<n>>
                        [] x = d -> <<n>>
                        [] OTHER -> <<>>]
TreeMode ==
  [x \in TreeNode |-> CASE x \in {r, a, b, c, d, e, k} -> "DIR"
                        [] x \in {m, n} -> "REG"
                        [] OTHER -> "ERROR"]
TreeDType ==
  [x \in TreeNode |-> CASE x = k -> "LNK"
                        [] x \in {d, n} -> "UNKNOWN"
                        [] OTHER -> TreeMode[x]]
UnitLen == [x \in TreeNode |-> 1]
OneRoot == <<r>>
\* A file that the tree holds too, the tree, a missing path.
ManyRoots == <<n, r, gone>>
=============================================================================
