----------------------------- MODULE MCAsmOutput -----------------------------
(***************************************************************************)
(* Three files for AsmOutput: short lines behind one that is longer than   *)
(* the buffer, lines that fill the buffer exactly, and an unreadable file. *)
(***************************************************************************)
EXTENDS AsmOutput

CONSTANTS short1, short2, long, half1, half2, f1, f2, f3

FileLines == [f \in File |-> CASE f = f1 -> <<long, short1, short2>>
                               [] f = f2 -> <<half1, half2>>
                               [] OTHER -> <<>>]
LineSize == [l \in Line |-> CASE l = long -> 9
                              [] l \in {half1, half2} -> 3
                              [] OTHER -> 2]
=============================================================================
