------------------------------ MODULE AsmOutput ------------------------------
(***************************************************************************)
(* How the threads of asm/grep.s print: search_file down to its calls of   *)
(* print_line, print_line, append_raw, flush_out and the out_lock.         *)
(*                                                                         *)
(* A Line is one matching line of one file; only its total length with the *)
(* path prefix and the newline matters.  stdout is the sequence of the     *)
(* write() calls made: a flush (piece 0) carries whole lines, a line longer *)
(* than the buffer goes out in pieces (path, colon, body, newline).        *)
(***************************************************************************)
EXTENDS Integers, Sequences, SequencesExt

CONSTANTS
  Worker,          \* threads
  File, NoFile,    \* files, and no file
  Line,            \* matching lines
  LinesOf,         \* [File -> Seq(Line)]: what find_match finds, in order;
                   \* empty for a binary file or a file without a match
  Unreadable,      \* files whose open, read, fstat or mmap fails
  Size,            \* [Line -> Nat \ {0}]: r14 in print_line
  multi,           \* lines carry a path prefix
  OUTBUF_SZ,       \* capacity of a thread's buffer
  WriteMayFail     \* write() may return an error

\* A line has at least its newline.
ASSUME SizeAssumption == Size \in [Line -> Nat \ {0}] /\ OUTBUF_SZ \in Nat
ASSUME FileAssumption == NoFile \notin File /\ LinesOf \in [File -> Seq(Line)]
ASSUME MultiAssumption == multi \in BOOLEAN

VARIABLES
  outbuf,          \* per thread: the lines in CTX_OUTBUF
  outlen,          \* per thread: CTX_OUTLEN
  out_lock,        \* 0 free, 1 taken
  stdout,          \* the write() calls that succeeded
  file,            \* per thread: the file it searches
  lines,           \* per thread: matching lines of it not printed yet
  opc,             \* per thread: program point
  piece,           \* per thread: next piece of an oversized line
  match_found, had_error,
  searched,        \* history: files some thread has taken
  found,           \* history: per thread, the lines of the files it took
  write_failed     \* history: a write() returned an error

buffers == <<outbuf, outlen>>
history == <<searched, found, write_failed>>
ovars == <<buffers, out_lock, stdout, file, lines, opc, piece, match_found,
           had_error, history>>

\* The pieces of an oversized line; without `multi` path and colon are left out.
FirstPiece == IF multi THEN 1 ELSE 3
LastPiece == 4
Write == [by : Worker, lines : Seq(Line), piece : 0 .. LastPiece]

OPCs == {"idle", "lines", "flush_lock", "flush_write", "flush_unlock", "append",
         "stream", "pieces", "end", "done"}

OTypeOK ==
  /\ outbuf \in [Worker -> Seq(Line)] /\ outlen \in [Worker -> Nat]
  /\ out_lock \in {0, 1}
  /\ stdout \in Seq(Write)
  /\ file \in [Worker -> File \cup {NoFile}]
  /\ lines \in [Worker -> Seq(Line)]
  /\ opc \in [Worker -> OPCs]
  /\ piece \in [Worker -> 1 .. LastPiece]
  /\ match_found \in BOOLEAN /\ had_error \in BOOLEAN /\ write_failed \in BOOLEAN
  /\ searched \subseteq File /\ found \in [Worker -> Seq(Line)]

OInit ==
  /\ outbuf = [w \in Worker |-> <<>>] /\ outlen = [w \in Worker |-> 0]
  /\ out_lock = 0 /\ stdout = <<>>
  /\ file = [w \in Worker |-> NoFile]
  /\ lines = [w \in Worker |-> <<>>]
  /\ opc = [w \in Worker |-> "idle"]
  /\ piece = [w \in Worker |-> FirstPiece]
  /\ match_found = FALSE /\ had_error = FALSE
  /\ searched = {} /\ write_failed = FALSE
  /\ found = [w \in Worker |-> <<>>]

OAt(w, l) == opc[w] = l
OGoto(w, l) == opc' = [opc EXCEPT ![w] = l]

\* The line print_line was called for.
Current(w) == Head(lines[w])
Oversized(l) == Size[l] > OUTBUF_SZ

-----------------------------------------------------------------------------
(* search_file                                                             *)

StartFile(w, f) ==
  /\ OAt(w, "idle")
  /\ file' = [file EXCEPT ![w] = f]
  /\ searched' = searched \cup {f}
  /\ had_error' = (had_error \/ f \in Unreadable)
  /\ LET ls == IF f \in Unreadable THEN <<>> ELSE LinesOf[f] IN
       /\ lines' = [lines EXCEPT ![w] = ls]
       /\ found' = [found EXCEPT ![w] = @ \o ls]
  /\ OGoto(w, "lines")
  /\ UNCHANGED <<buffers, out_lock, stdout, piece, match_found, write_failed>>

EndFile(w) ==
  /\ OAt(w, "lines") /\ lines[w] = <<>>
  /\ file' = [file EXCEPT ![w] = NoFile]
  /\ OGoto(w, "idle")
  /\ UNCHANGED <<buffers, out_lock, stdout, lines, piece, match_found, had_error,
                 history>>

-----------------------------------------------------------------------------
(* print_line                                                              *)

\* Mutants: the room is tested before the line is added; a line longer than the
\* buffer overtakes the lines that wait in it; match_found is set behind the branch
\* to the oversized lines.
PrintLineNoRoom(w) ==
  /\ OAt(w, "lines") /\ lines[w] # <<>>
  /\ match_found' = TRUE
  /\ OGoto(w, IF Oversized(Current(w))
                THEN IF outlen[w] = 0 THEN "stream" ELSE "flush_lock"
                ELSE IF outlen[w] > OUTBUF_SZ THEN "flush_lock" ELSE "append")
  /\ UNCHANGED <<buffers, out_lock, stdout, file, lines, piece, had_error, history>>
PrintLineOvertakes(w) ==
  /\ OAt(w, "lines") /\ lines[w] # <<>>
  /\ match_found' = TRUE
  /\ OGoto(w, IF Oversized(Current(w)) THEN "stream"
              ELSE IF outlen[w] + Size[Current(w)] > OUTBUF_SZ
                     THEN "flush_lock" ELSE "append")
  /\ UNCHANGED <<buffers, out_lock, stdout, file, lines, piece, had_error, history>>

PrintLineReportsLate(w) ==
  /\ OAt(w, "lines") /\ lines[w] # <<>>
  /\ match_found' = (match_found \/ ~ Oversized(Current(w)))
  /\ OGoto(w, IF Oversized(Current(w))
                THEN IF outlen[w] = 0 THEN "stream" ELSE "flush_lock"
                ELSE IF outlen[w] + Size[Current(w)] > OUTBUF_SZ
                       THEN "flush_lock" ELSE "append")
  /\ UNCHANGED <<buffers, out_lock, stdout, file, lines, piece, had_error, history>>

\* flush_out returns at once when the buffer is empty.
PrintLine(w) ==
  /\ OAt(w, "lines") /\ lines[w] # <<>>
  /\ match_found' = TRUE
  /\ OGoto(w, IF Oversized(Current(w))
                THEN IF outlen[w] = 0 THEN "stream" ELSE "flush_lock"
                ELSE IF outlen[w] + Size[Current(w)] > OUTBUF_SZ
                       THEN "flush_lock" ELSE "append")
  /\ UNCHANGED <<buffers, out_lock, stdout, file, lines, piece, had_error,
                 history>>

\* append_raw of path, colon, body and newline.
AppendRaw(w) ==
  /\ OAt(w, "append")
  /\ outbuf' = [outbuf EXCEPT ![w] = Append(@, Current(w))]
  /\ outlen' = [outlen EXCEPT ![w] = @ + Size[Current(w)]]
  /\ lines' = [lines EXCEPT ![w] = Tail(@)]
  /\ OGoto(w, "lines")
  /\ UNCHANGED <<out_lock, stdout, file, piece, match_found, had_error,
                 history>>

\* Mutant: the lock is taken without looking whether it was free.
LockAcquireUntested(w) ==
  /\ out_lock' = 1
  /\ \/ OAt(w, "flush_lock") /\ OGoto(w, "flush_write")
     \/ OAt(w, "stream") /\ OGoto(w, "pieces")
  /\ UNCHANGED <<buffers, stdout, file, lines, piece, match_found, had_error, history>>

\* lock_acquire of flush_out, and that around the pieces of an oversized line.
LockAcquire(w) ==
  /\ out_lock = 0
  /\ out_lock' = 1
  /\ \/ OAt(w, "flush_lock") /\ OGoto(w, "flush_write")
     \/ OAt(w, "stream") /\ OGoto(w, "pieces")
  /\ UNCHANGED <<buffers, stdout, file, lines, piece, match_found, had_error,
                 history>>

\* SYS_write; nothing looks at what it returns.
SysWrite(w, ls, p) ==
  \/ /\ stdout' = Append(stdout, [by |-> w, lines |-> ls, piece |-> p])
     /\ UNCHANGED write_failed
  \/ /\ WriteMayFail
     /\ write_failed' = TRUE
     /\ UNCHANGED stdout

\* Mutant: a failed write skips the rest of flush_out.
FlushWriteBailsOut(w) ==
  /\ OAt(w, "flush_write")
  /\ SysWrite(w, outbuf[w], 0)
  /\ OGoto(w, IF stdout' = stdout THEN "done" ELSE "flush_unlock")
  /\ UNCHANGED <<buffers, out_lock, file, lines, piece, match_found, had_error,
                 searched, found>>

FlushWrite(w) ==
  /\ OAt(w, "flush_write")
  /\ SysWrite(w, outbuf[w], 0)
  /\ OGoto(w, "flush_unlock")
  /\ UNCHANGED <<buffers, out_lock, file, lines, piece, match_found, had_error, searched,
                 found>>

\* lock_release, CTX_OUTLEN = 0, and back to the caller.
FlushUnlock(w) ==
  /\ OAt(w, "flush_unlock")
  /\ out_lock' = 0
  /\ outbuf' = [outbuf EXCEPT ![w] = <<>>]
  /\ outlen' = [outlen EXCEPT ![w] = 0]
  /\ OGoto(w, IF file[w] = NoFile THEN "done"
              ELSE IF Oversized(Current(w)) THEN "stream" ELSE "append")
  /\ UNCHANGED <<stdout, file, lines, piece, match_found, had_error, history>>

\* Mutant: every piece is a locked write of its own.
WritePieceUnlocks(w) ==
  /\ OAt(w, "pieces")
  /\ SysWrite(w, <<Current(w)>>, piece[w])
  /\ IF piece[w] = LastPiece
       THEN /\ OGoto(w, "end") /\ piece' = [piece EXCEPT ![w] = FirstPiece]
            /\ UNCHANGED out_lock
       ELSE /\ OGoto(w, "stream") /\ piece' = [piece EXCEPT ![w] = @ + 1]
            /\ out_lock' = 0
  /\ UNCHANGED <<buffers, file, lines, match_found, had_error, searched, found>>

WritePiece(w) ==
  /\ OAt(w, "pieces")
  /\ SysWrite(w, <<Current(w)>>, piece[w])
  /\ IF piece[w] = LastPiece
       THEN OGoto(w, "end") /\ piece' = [piece EXCEPT ![w] = FirstPiece]
       ELSE UNCHANGED opc /\ piece' = [piece EXCEPT ![w] = @ + 1]
  /\ UNCHANGED <<buffers, out_lock, file, lines, match_found, had_error, searched,
                 found>>

\* Mutant: out_lock stays taken after the pieces.
StreamUnlockForgotten(w) ==
  /\ OAt(w, "end")
  /\ lines' = [lines EXCEPT ![w] = Tail(@)]
  /\ OGoto(w, "lines")
  /\ UNCHANGED <<buffers, out_lock, stdout, file, piece, match_found, had_error, history>>

StreamUnlock(w) ==
  /\ OAt(w, "end")
  /\ out_lock' = 0
  /\ lines' = [lines EXCEPT ![w] = Tail(@)]
  /\ OGoto(w, "lines")
  /\ UNCHANGED <<buffers, stdout, file, piece, match_found, had_error, history>>

\* The flush_out of .Lw_done and .Lrs_flush, when the walk is over.
FinalFlush(w) ==
  /\ OAt(w, "idle")
  /\ OGoto(w, IF outlen[w] = 0 THEN "done" ELSE "flush_lock")
  /\ UNCHANGED <<buffers, out_lock, stdout, file, lines, piece, match_found,
                 had_error, history>>

-----------------------------------------------------------------------------
Printing(w) ==
  \/ PrintLine(w) \/ AppendRaw(w) \/ LockAcquire(w)
  \/ FlushWrite(w) \/ FlushUnlock(w) \/ WritePiece(w) \/ StreamUnlock(w)

\* On its own: any thread searches any file nobody has taken, and a thread
\* goes for its last flush when no file is left.
OStep(w) ==
  \/ \E f \in File \ searched : StartFile(w, f)
  \/ EndFile(w) \/ Printing(w)
  \/ searched = File /\ FinalFlush(w)

Finished == \A w \in Worker : OAt(w, "done")

ONext == \E w \in Worker : OStep(w)

OSpec == OInit /\ [][ONext]_ovars
OFairSpec == OSpec /\ \A w \in Worker : WF_ovars(OStep(w))

-----------------------------------------------------------------------------
(* Properties                                                              *)

Holding(w) == opc[w] \in {"flush_write", "flush_unlock", "pieces", "end"}
OutMutex == \A v, w \in Worker : Holding(v) /\ Holding(w) => v = w

\* append_raw checks nothing: "caller guarantees room".
BufferBound == \A w \in Worker : outlen[w] <= OUTBUF_SZ

\* A write that ends at a line boundary, and one that starts there.
EndsLine(x) == x.piece \in {0, LastPiece}
StartsLine(x) == x.piece \in {0, FirstPiece}

\* The pieces of a line follow one another on stdout with nothing between them,
\* whatever other threads print.
NoneSplit ==
  \A i \in DOMAIN stdout :
     IF StartsLine(stdout[i])
       THEN i = 1 \/ EndsLine(stdout[i - 1])
       ELSE /\ i > 1
            /\ stdout[i] = [stdout[i - 1] EXCEPT !.piece = @ + 1]

\* As long as no write has failed no line is split, however many threads print.
LinesWhole == write_failed \/ NoneSplit

\* The lines of thread w that stand on stdout, and those it still has to write.
Shown(w) ==
  FlattenSeq([i \in DOMAIN stdout |->
     IF stdout[i].by = w /\ EndsLine(stdout[i]) THEN stdout[i].lines ELSE <<>>])
Unwritten(w) ==
  IF OAt(w, "flush_unlock") THEN lines[w]
  ELSE IF OAt(w, "end") THEN Tail(lines[w])
  ELSE outbuf[w] \o lines[w]

\* The lines of all threads that stand on stdout.
Printed ==
  FlattenSeq([i \in DOMAIN stdout |-> IF EndsLine(stdout[i]) THEN stdout[i].lines ELSE <<>>])

\* What a thread has written and what it holds back is, at every moment, exactly
\* what it found, in that order: no flush loses, repeats or overtakes a line that was written.
OwnOrder == write_failed \/ \A w \in Worker : Shown(w) \o Unwritten(w) = found[w]

\* Every thread gets the lock, writes its last buffer and leaves.
OTermination == <>Finished

-----------------------------------------------------------------------------
(* The inductive invariant behind BufferBound, LinesWhole and OwnOrder.    *)

LastWrite == stdout[Len(stdout)]
AtBoundary == stdout = <<>> \/ EndsLine(LastWrite)

\* A thread that prints has a line in hand; one about to append has room for it.
OShapeOf(w) ==
  /\ opc[w] = "idle" => file[w] = NoFile
  /\ opc[w] \in {"append", "stream", "pieces", "end"} => lines[w] # <<>>
  /\ opc[w] \in {"flush_lock", "flush_write", "flush_unlock"} /\ file[w] # NoFile
       => lines[w] # <<>>
  /\ opc[w] = "append" => outlen[w] + Size[Current(w)] <= OUTBUF_SZ
  /\ piece[w] \in FirstPiece .. LastPiece
  /\ piece[w] # FirstPiece => opc[w] = "pieces"
OShape == \A w \in Worker : OShapeOf(w)

\* What OwnOrder rests on: a thread without a file has no lines left to print,
\* one whose OUTLEN is 0, that streams a line or is done holds nothing back.
HeldBackOf(w) ==
  /\ file[w] = NoFile => lines[w] = <<>>
  /\ outlen[w] = 0 => outbuf[w] = <<>>
  /\ opc[w] \in {"stream", "pieces", "end", "done"} => outbuf[w] = <<>>
HeldBack == \A w \in Worker : HeldBackOf(w)

\* match_found is set when a thread has found a line, and before any is on its way.
Reported ==
  /\ match_found => \E w \in Worker : found[w] # <<>>
  /\ ~ match_found =>
       /\ stdout = <<>>
       /\ \A w \in Worker : outlen[w] = 0 /\ opc[w] \in {"idle", "lines", "done"}
  /\ \A w \in Worker : lines[w] # <<>> => found[w] # <<>>

LockHeld == (\E w \in Worker : Holding(w)) => out_lock = 1
OSafe ==
  OTypeOK /\ OShape /\ HeldBack /\ Reported /\ OutMutex /\ LockHeld /\ BufferBound

\* A thread between two pieces wrote the last of them, and only while there is
\* such a thread may stdout end inside a line.
Streaming ==
  \A w \in Worker : piece[w] # FirstPiece =>
     /\ stdout # <<>>
     /\ LastWrite = [by |-> w, lines |-> <<Current(w)>>, piece |-> piece[w] - 1]
Boundary == (\A w \in Worker : piece[w] = FirstPiece) => AtBoundary

OIInv == OSafe /\ (write_failed \/ (Streaming /\ Boundary /\ NoneSplit))
=============================================================================
