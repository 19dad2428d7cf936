-------------------------- MODULE MCNativePrograms --------------------------
(***************************************************************************)
(* Command lines and a small file system for NativePrograms, and the lists *)
(* and pools of MCFilePool.                                                *)
(*   f, u    files; u cannot be opened                                     *)
(*   d/ --- a, s/ --- b, k (a link to e), x/ (access denied), u            *)
(*   e/ --- g, p (a named pipe), c                                         *)
(*   h/ --- j, y/ (opendir fails), q                                       *)
(*   k/ --- m    a link to e, as an argument and as an entry               *)
(* k and g have no d_type in their directories.                            *)
(***************************************************************************)
EXTENDS NativePrograms, MCFilePool

CONSTANTS nothing, f, u, d, a, s, b, k, x, e, g, p, c, h, j, y, q, m

Nodes == {nothing, f, u, d, a, s, b, k, x, e, g, p, c, h, j, y, q, m}
TreeEntries == [n \in Nodes |-> CASE n = d -> <<a, s, k, x, u>>
                                  [] n = s -> <<b>>
                                  [] n = e -> <<g, p, c>>
                                  [] n = h -> <<j, y, q>>
                                  [] n = k -> <<m>>
                                  [] OTHER -> <<>>]
TreeLevels == [n \in Nodes |-> CASE n = d -> 2 [] n \in {s, e, h, k} -> 1 [] OTHER -> 0]
TreeKind == [n \in Nodes |-> CASE n \in {d, s, x, e, h, y} -> "DIR"
                               [] n = k -> "LNK" [] n = p -> "FIFO"
                               [] n = nothing -> "NONE" [] OTHER -> "REG"]
AllParsers == {asm_parser, c_parser, zig_parser}
TreeMode == [TreeKind EXCEPT ![k] = "DIR"]
Contents == [n \in Nodes |-> CASE n = a -> File(<<1, 3>>, "no")
                               [] n \in {b, q} -> File(<<2>>, "no")
                               [] n \in {f, g, j, m} -> File(<<1>>, "no")
                               [] n = u -> File(<<1>>, "open")
                               [] n = p -> File(<<>>, "blocks")
                               [] OTHER -> File(<<>>, "no")]
Sizes == [n \in Nodes |-> CASE n = u -> -1 [] n = a -> 9 [] n \in {b, q} -> 2 [] n = c -> 0 [] OTHER -> 1]
Paths == {<<"f">>, <<"d">>, <<"e">>, <<"h">>, <<"k">>}
Names == [w \in Paths |-> CASE w = <<"f">> -> f [] w = <<"d">> -> d [] w = <<"e">> -> e
                            [] w = <<"h">> -> h [] w = <<"k">> -> k]

Ri == <<"-", "r", "i">>
R == <<"-", "r">>
Words == {<<>>, <<"-">>, <<"-", "-">>, R, <<"-", "i">>, <<"-", "x">>, <<"n">>}
CommandLines ==
  UNION {[1 .. n -> Words] : n \in 0 .. 3} \cup
  {<<R, <<"n">>, <<"d">>>>, <<R, <<"n">>, <<"e">>>>, <<<<"n">>, <<"h">>, <<"f">>, Ri>>,
   <<<<>>, <<"f">>>>, <<<<"n">>, <<"d">>, <<"f">>>>, <<Ri, <<"n">>, <<"k">>, <<"f">>>>,
   <<<<"-", "-">>, R, <<"-", "-">>, <<"f">>>>}
=============================================================================
