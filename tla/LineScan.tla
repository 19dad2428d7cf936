------------------------------ MODULE LineScan ------------------------------
(***************************************************************************)
(* How one thread of an implementation searches the files it is given: it  *)
(* reads a file into a buffer, skips it when it is empty or binary, and    *)
(* prints every line in which an occurrence of the pattern starts.  The    *)
(* search for the next occurrence is what find_match promises (see         *)
(* FindMatch): the first one at or after a position.                       *)
(*                                                                         *)
(* The implementations share this loop and differ in how it ends, in what  *)
(* they do about an empty pattern, and in how much of the buffer they      *)
(* search.  A buffer that is reused still holds the tail of a longer file  *)
(* that was read before.  Case folding and the path prefix are left out:   *)
(* both are one to one with the bytes of the file.                         *)
(*                                                                         *)
(* Positions count from 0; a line is <<start, end>>, its bytes are         *)
(* start .. end - 1.  A newline belongs to the line it ends.               *)
(***************************************************************************)
EXTENDS Integers, Sequences

CONSTANTS
  Byte, NL, NUL,   \* the byte values that occur; newline and NUL are two of them
  SIZE,            \* room in the buffer: no file is longer
  BIN_PEEK,        \* bytes looked at for a NUL
  Jobs,            \* sequences of files
  Searches         \* scan loops, records as below, each with a pattern

Files == {f \in Seq(Byte) : Len(f) <= SIZE}
Loops == [empty : {"own", "find", "none"},  \* what an empty pattern takes
          emptyFile : BOOLEAN,              \* an empty file is searched too
          atEnd : BOOLEAN,                  \* another round when pos = n
          stop : {"no", "newline", "end"},  \* which match at n ends the search
          bounded : BOOLEAN]                \* only the bytes of the file count

ASSUME ByteAssumption == NL \in Byte /\ NUL \in Byte /\ NL # NUL
ASSUME SizeAssumption == SIZE \in Nat /\ BIN_PEEK \in Nat
ASSUME InputAssumption == Jobs \subseteq Seq(Files) /\ Searches \subseteq Loops \X Seq(Byte)

VARIABLES
  scan, pat,       \* the implementation, its pattern
  todo,            \* files not finished; the first one is the current one
  buf, n,          \* the buffer, and how many bytes the current file has
  pos,             \* where the search goes on
  printed,         \* lines printed for the current file
  pc

svars == <<scan, pat, todo, buf, n, pos, printed, pc>>

-----------------------------------------------------------------------------
(* The loops of the implementations.                                       *)

\* while (pos < n); an empty pattern is found like any other.
InFind == [empty |-> "find", emptyFile |-> FALSE, atEnd |-> FALSE, stop |-> "no", bounded |-> TRUE]
c_std_scan == InFind
c_std_mt_scan == InFind
cpp_std_scan == InFind
cpp_scan == InFind
cpp_tuned_scan == InFind
java_std_scan == InFind
java_scan == InFind
java_tuned_scan == InFind
csharp_std_scan == InFind
csharp_scan == InFind
csharp_tuned_scan == InFind
d_std_scan == InFind
d_scan == InFind
d_tuned_scan == InFind
nim_std_scan == InFind
nim_scan == InFind
nim_tuned_scan == InFind
ocaml_std_scan == InFind
ocaml_scan == InFind
ocaml_tuned_scan == InFind
odin_std_scan == InFind
odin_scan == InFind
odin_tuned_scan == InFind
pascal_std_scan == InFind
pascal_scan == InFind
pascal_tuned_scan == InFind
ada_std_scan == InFind
ada_scan == InFind
ada_tuned_scan == InFind
swift_std_scan == InFind
swift_scan == InFind
swift_tuned_scan == InFind
pony_std_scan == InFind
pony_scan == InFind
pony_tuned_scan == InFind
haskell_std_scan == InFind
haskell_scan == InFind
haskell_tuned_scan == InFind
kotlin_std_scan == InFind
kotlin_scan == InFind
kotlin_tuned_scan == InFind
lisp_std_scan == InFind
lisp_scan == InFind
lisp_tuned_scan == InFind
fortran_std_scan == InFind
fortran_scan == InFind
fortran_tuned_scan == InFind
lua_scan == InFind
\* while (pos < n), and a loop of its own for an empty pattern.
OwnLoop == [InFind EXCEPT !.empty = "own"]
asm_scan == OwnLoop
c_scan == OwnLoop
zig_scan == OwnLoop
chapel_std_scan == OwnLoop
chapel_scan == OwnLoop
chapel_tuned_scan == OwnLoop
elixir_std_scan == OwnLoop
elixir_scan == OwnLoop
elixir_tuned_scan == OwnLoop
\* while (pos <= n); a match at n after a final newline ends the search.
StopAfterNewline == [InFind EXCEPT !.atEnd = TRUE, !.stop = "newline"]
python_std_scan == StopAfterNewline
python_scan == StopAfterNewline
python_tuned_scan == StopAfterNewline
perl_scan == StopAfterNewline
ruby_scan == StopAfterNewline
dart_scan == StopAfterNewline
wasm_scan == StopAfterNewline
codon_scan == StopAfterNewline
scala_scan == StopAfterNewline
julia_std_scan == StopAfterNewline
julia_scan == StopAfterNewline
\* while (pos <= n); a match at n ends the search.
StopAtEnd == [InFind EXCEPT !.atEnd = TRUE, !.stop = "end"]
crystal_std_scan == StopAtEnd
crystal_scan == StopAtEnd
crystal_tuned_scan == StopAtEnd
\* Buffer.indexOf of the bytes read for this file: without -i.
js_std_scan == StopAtEnd
js_scan == StopAtEnd
clojure_tuned_scan == [StopAtEnd EXCEPT !.emptyFile = TRUE]
clojure_std_scan == [StopAtEnd EXCEPT !.emptyFile = TRUE]
clojure_scan == [StopAtEnd EXCEPT !.emptyFile = TRUE]
\* Buffer.indexOf of the whole of a reused buffer: rbuf of js/grep_mt_tuned.mjs,
\* and with -i lowerScratch of all three.
WholeBuffer == [StopAtEnd EXCEPT !.bounded = FALSE]
js_tuned_scan == WholeBuffer
js_std_i_scan == WholeBuffer
js_i_scan == WholeBuffer
\* while (pos <= n) and nothing else ends the search.
zig_std_scan == [OwnLoop EXCEPT !.atEnd = TRUE]
zig_std_mt_scan == [InFind EXCEPT !.empty = "none", !.atEnd = TRUE]
go_scan == [InFind EXCEPT !.atEnd = TRUE, !.emptyFile = TRUE]
go_mt_scan == [InFind EXCEPT !.atEnd = TRUE]
rust_scan == [InFind EXCEPT !.atEnd = TRUE, !.emptyFile = TRUE]

-----------------------------------------------------------------------------
SInit ==
  /\ \E s \in Searches : scan = s[1] /\ pat = s[2]
  /\ todo \in Jobs
  /\ buf = [i \in 0 .. SIZE - 1 |-> NUL] /\ n = 0 /\ pos = 0
  /\ printed = <<>> /\ pc = "read"

Binary(f) == \E i \in 1 .. Len(f) : i <= BIN_PEEK /\ f[i] = NUL

\* Read the next file over what the buffer holds, and choose the loop.
ReadFile ==
  /\ pc = "read" /\ todo # <<>>
  /\ LET f == Head(todo) IN
     /\ buf' = [i \in 0 .. SIZE - 1 |-> IF i < Len(f) THEN f[i + 1] ELSE buf[i]]
     /\ n' = Len(f)
     /\ pc' = IF Binary(f) \/ (f = <<>> /\ ~scan.emptyFile) THEN "done"
              ELSE IF pat = <<>> /\ scan.empty = "own" THEN "every"
              ELSE IF pat = <<>> /\ scan.empty = "none" THEN "done"
              ELSE "scan"
  /\ pos' = 0
  /\ UNCHANGED <<scan, pat, todo, printed>>

limit == IF scan.bounded THEN n ELSE SIZE
Occurs(k) == k + Len(pat) <= limit /\ \A i \in 1 .. Len(pat) : buf[k + i - 1] = pat[i]
\* k is what the search for the next occurrence returns.
Found(k) == k >= pos /\ Occurs(k) /\ \A j \in pos .. k - 1 : ~Occurs(j)

\* Mutant of Stopped: the place behind a final newline is taken for a line.
StoppedAtEnd(k) == scan.stop = "end" /\ k >= n

\* The loop's own reasons to end although there is an occurrence at k.
Stopped(k) ==
  \/ scan.stop = "newline" /\ k = n /\ n > 0 /\ buf[n - 1] = NL
  \/ scan.stop = "end" /\ k >= n
AnotherRound == pos < n \/ (scan.atEnd /\ pos = n)

\* From k back to the character after a newline, and on to the next newline.
Starts(ls, k) == (ls # 0 => buf[ls - 1] = NL) /\ \A i \in ls .. k - 1 : buf[i] # NL
Ends(k, le) == (le # n => buf[le] = NL) /\ \A i \in k .. le - 1 : buf[i] # NL

\* Mutant: the search goes on behind the match.
PrintAgain(k) == \E ls \in 0 .. k, le \in k .. n :
  /\ Starts(ls, k) /\ Ends(k, le)
  /\ printed' = Append(printed, <<ls, le>>)
  /\ pos' = k + 1

\* Print the line of position k and go on with the next line.
PrintLineOf(k) == \E ls \in 0 .. k, le \in k .. n :
  /\ Starts(ls, k) /\ Ends(k, le)
  /\ printed' = Append(printed, <<ls, le>>)
  /\ pos' = le + 1

\* A round of the loop for an empty pattern, if there is one of its own.
EveryLine ==
  /\ pc = "every" /\ pos < n
  /\ PrintLineOf(pos)
  /\ UNCHANGED <<scan, pat, todo, buf, n, pc>>

\* A round of the search loop.
NextMatch ==
  /\ pc = "scan" /\ AnotherRound
  /\ \E k \in pos .. limit : Found(k) /\ ~Stopped(k) /\ PrintLineOf(k)
  /\ UNCHANGED <<scan, pat, todo, buf, n, pc>>

\* Mutant: a last line without a newline leaves pos behind the end.
LastLineAtEnd ==
  /\ \/ pc = "every" /\ pos = n
     \/ pc = "scan" /\ ~AnotherRound
     \/ pc = "scan" /\ \A k \in pos .. limit : ~Occurs(k)
     \/ pc = "scan" /\ \E k \in pos .. limit : Found(k) /\ Stopped(k)
  /\ pc' = "done"
  /\ UNCHANGED <<scan, pat, todo, buf, n, pos, printed>>

\* A loop ends: behind the last line, without an occurrence, or at one that
\* stops it.
LastLine ==
  /\ \/ pc = "every" /\ pos >= n
     \/ pc = "scan" /\ ~AnotherRound
     \/ pc = "scan" /\ \A k \in pos .. limit : ~Occurs(k)
     \/ pc = "scan" /\ \E k \in pos .. limit : Found(k) /\ Stopped(k)
  /\ pc' = "done"
  /\ UNCHANGED <<scan, pat, todo, buf, n, pos, printed>>

NextFile ==
  /\ pc = "done"
  /\ todo' = Tail(todo) /\ printed' = <<>> /\ pc' = "read"
  /\ UNCHANGED <<scan, pat, buf, n, pos>>

SNext == ReadFile \/ EveryLine \/ NextMatch \/ LastLine \/ NextFile
SSpec == SInit /\ [][SNext]_svars
SFairSpec == SSpec /\ WF_svars(SNext)

-----------------------------------------------------------------------------
(* Properties                                                              *)

\* The variables keep their types.
STypeOK ==
  /\ <<scan, pat>> \in Searches /\ todo \in Seq(Files)
  /\ buf \in [0 .. SIZE - 1 -> Byte] /\ n \in 0 .. SIZE /\ pos \in 0 .. SIZE + 1
  /\ printed \in Seq((0 .. SIZE) \X (0 .. SIZE))
  /\ pc \in {"read", "every", "scan", "done"}

\* What grep -F prints for the bytes f, said without a loop: the lines of f in
\* which an occurrence starts.
LineOf(f, l) ==
  /\ l[1] < Len(f) /\ l[1] <= l[2] /\ l[2] <= Len(f)
  /\ l[1] = 0 \/ f[l[1]] = NL
  /\ l[2] = Len(f) \/ f[l[2] + 1] = NL
  /\ \A i \in l[1] + 1 .. l[2] : f[i] # NL
OccursIn(f, k) == k + Len(pat) <= Len(f) /\ \A i \in 1 .. Len(pat) : f[k + i] = pat[i]
Matches(f, l) == LineOf(f, l) /\ \E k \in l[1] .. l[2] : k < Len(f) /\ OccursIn(f, k)

\* What a loop must do about an empty pattern: search for it, and not take the
\* place behind the last line for a line.
TakesEmpty(s) ==
  /\ s.empty # "none"
  /\ s.empty = "find" /\ s.atEnd => s.stop = "end" \/ (s.stop = "newline" /\ ~s.emptyFile)
Conforms(s, p) == s.bounded /\ (p = <<>> => TakesEmpty(s))

\* The lines come in the order of the file, none twice.
InOrder == \A i, j \in 1 .. Len(printed) : i < j => printed[i][2] < printed[j][1]

\* When a file is finished, exactly its lines in which an occurrence of the
\* pattern starts have been printed, each once and in order, and none if the
\* file is binary.  No loop goes back into a line it printed, no line is skipped,
\* there is no line behind the last one, and nothing of an earlier file shows
\* (search_file, scan).
LinesPrinted ==
  pc = "done" =>
    LET f == Head(todo) IN
    /\ InOrder
    /\ \A l \in (0 .. Len(f)) \X (0 .. Len(f)) :
         (\E i \in 1 .. Len(printed) : printed[i] = l) <=>
           ~Binary(f) /\ Matches(f, l)

\* Inside the loops: the file is at the front of the buffer, pos starts a line or
\* is behind the file, and of the lines that end before pos exactly the matching
\* ones are printed.
FileInBuffer(f) == n = Len(f) /\ \A i \in 1 .. n : buf[i - 1] = f[i]
AtLineStart == pos = 0 \/ pos = n + 1 \/ (pos <= n /\ buf[pos - 1] = NL)
PrintedSoFar(f) ==
  /\ InOrder
  /\ \A i \in 1 .. Len(printed) : printed[i][2] < pos /\ Matches(f, printed[i])
  /\ \A l \in (0 .. Len(f)) \X (0 .. Len(f)) :
       Matches(f, l) /\ l[2] < pos => \E i \in 1 .. Len(printed) : printed[i] = l
LInv ==
  /\ STypeOK
  /\ pc = "read" => printed = <<>>
  /\ pc = "done" => todo # <<>>
  /\ pc = "every" => pat = <<>> /\ scan.empty = "own"
  /\ pc = "scan" => pat # <<>> \/ scan.empty = "find"
  /\ pc \in {"every", "scan"} =>
       /\ todo # <<>> /\ ~Binary(Head(todo)) /\ (Head(todo) = <<>> => scan.emptyFile)
       /\ FileInBuffer(Head(todo)) /\ AtLineStart /\ PrintedSoFar(Head(todo))
  /\ LinesPrinted

\* No line is printed that does not hold the pattern: "literal (fixed-string)
\* substring search" over the "valid bytes [0,len)" (js/grep_core.mjs:1, 60).
OnlyMatches ==
  pc = "done" => \A i \in 1 .. Len(printed) : Matches(Head(todo), printed[i])

\* The thread gets through its files.
STermination == <>(todo = <<>>)
=============================================================================
