---------------------------- MODULE MCVerifyImpl ----------------------------
(***************************************************************************)
(* One program that passes and the five that answer an empty pattern in a  *)
(* way of their own, with a.txt cut down to two lines.                     *)
(***************************************************************************)
EXTENDS VerifyImpl

Binaries == <<cgrep, zgrep, zgrep_std_mt, gogrep, gogrep_mt, rustgrep>>
a_txt == <<"a.txt">>
empty_txt == <<"empty.txt">>
TextFiles == (a_txt :> <<"h", "i", NL, "l", NL>>) @@ (empty_txt :> <<>>)
RunOne == <<[name |-> "literal single file", args |-> <<<<"h">>, a_txt>>],
            [name |-> "empty pattern all", args |-> <<<<>>, a_txt>>],
            [name |-> "empty pat empty file", args |-> <<<<>>, empty_txt>>]>>
=============================================================================
