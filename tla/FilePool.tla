------------------------------ MODULE FilePool ------------------------------
(***************************************************************************)
(* The thread, process or actor pools of the implementations that collect  *)
(* the list of files first.  A worker claims a file by its index, searches *)
(* it (see LineScan), keeps the lines it found in a buffer of its own and  *)
(* passes them on to the output, which all workers share.  The main thread *)
(* waits for the workers and reports whether there was a match.            *)
(*                                                                         *)
(* The programs differ in who hands out the indices, in when a worker      *)
(* passes its lines on and to whom, and in what a failing file does to a   *)
(* worker.  A main thread that is also a worker makes no difference: it    *)
(* waits for the others all the same.  One flag `matched' stands for the   *)
(* programs' shared flag, flag per worker, message or exit status.         *)
(*                                                                         *)
(* A file has the sizes of the lines it will print, and a fault: a named   *)
(* pipe in the list keeps the open() of whoever claims it waiting.  A line *)
(* is written in pieces <<file, line, part>>: what one write() call may    *)
(* leave for the next one.                                                 *)
(***************************************************************************)
EXTENDS Integers, Sequences

CONSTANTS
  NWorkers,        \* workers that are started
  CAP,             \* room in a worker's buffer, or what makes it pass it on
  MAX_LINE,        \* the longest line of the lists
  Lists,           \* the lists of files
  Pools            \* the programs, records as below

Worker == 1 .. NWorkers
Faults == {"no", "open", "read", "blocks"}
Files == [lines : Seq(1 .. MAX_LINE), fault : Faults]
Programs ==
  [hand : {"counter", "stride", "chunk"},    \* how files are handed out
   keep : {"line", "room", "full", "file", "batch", "all"},  \* how long lines
                                             \* are kept, see MustPass
   to : {"stdout", "stream", "mail", "kept"},  \* where they are passed to
   lock : BOOLEAN,                           \* a lock around the writes
   early : BOOLEAN,                          \* own buffer before a long line
   dies : SUBSET Faults,                     \* faults that end the worker
   wait : {"join", "count", "crash", "stuck"}]  \* what main makes of that

ASSUME PoolAssumption == NWorkers \in Nat \ {0} /\ CAP \in Nat /\ MAX_LINE \in Nat
ASSUME ListAssumption == Lists \subseteq Seq(Files) /\ Pools \subseteq Programs
\* Blocks main keeps by file are whole files; whole files go out under a lock; and
\* where main makes nothing of a dead worker, its files are nobody's and it keeps none
\* of their lines.
ASSUME SoundAssumption == \A p \in Pools :
  /\ p.to = "kept" => p.keep = "file"
  /\ p.keep = "file" => p.lock
  /\ p.dies # {} /\ p.wait = "join" => p.hand = "counter" /\ p.keep = "file"

VARIABLES
  pool, files,     \* the program and its list
  next,            \* the shared counter
  at, line,        \* [Worker -> Nat]: file in hand, its next line
  buf,             \* [Worker -> Seq(piece)]: lines kept
  sending,         \* [Worker -> Seq(piece)]: what a write() loop still has
  pc,
  holder,          \* who holds the output lock, 0 for nobody
  mail, kept,      \* blocks sent to main; blocks kept for main, by file
  stream, stdout,  \* the process's buffer for stdout; stdout
  matched, status  \* status -1: running

input == <<pool, files>>
work == <<next, at, line>>
output == <<mail, kept, stream, stdout>>
pvars == <<input, work, buf, sending, pc, holder, output, matched, status>>

FAILED == 3        \* the runtime's status for an exception nobody handles
SIGSEGV == 139

-----------------------------------------------------------------------------
(* The pools of the programs.                                              *)

\* A file's lines are one block, written under a lock: to a stream that main
\* flushes at the end, or to stdout.
Streamed == [hand |-> "counter", keep |-> "file", to |-> "stream", lock |-> TRUE,
             early |-> TRUE, dies |-> {}, wait |-> "join"]
go_pool == Streamed
java_pool == Streamed
java_tuned_pool == Streamed
csharp_pool == Streamed
csharp_tuned_pool == Streamed
odin_pool == Streamed
odin_tuned_pool == Streamed
ocaml_pool == Streamed
kotlin_pool == Streamed
kotlin_tuned_pool == Streamed
clojure_pool == Streamed
clojure_tuned_pool == Streamed
nim_tuned_pool == Streamed
lisp_pool == Streamed
lisp_tuned_pool == Streamed
fortran_pool == Streamed
fortran_tuned_pool == Streamed
Direct == [Streamed EXCEPT !.to = "stdout"]
d_pool == Direct
d_tuned_pool == Direct
pascal_pool == Direct
pascal_tuned_pool == Direct
swift_pool == Direct
swift_tuned_pool == Direct
\* An exception of the read ends the task; its master waits for it all the same.
ada_pool == [Direct EXCEPT !.dies = {"read"}]
ada_tuned_pool == [Direct EXCEPT !.dies = {"read"}]
\* Domain.join raises it again in main.
ocaml_tuned_pool == [Streamed EXCEPT !.dies = {"read"}, !.wait = "crash"]
\* A dead thread never counts itself; main waits for ever, which the runtime
\* notices when no other thread is left.
haskell_pool == [Streamed EXCEPT !.dies = {"open", "read"}, !.wait = "stuck"]
haskell_tuned_pool == haskell_pool
\* Lines are kept until the next one does not fit.  A line that never fits is
\* written at once; Zig writes it ahead of the lines it still keeps.
c_std_pool == [Direct EXCEPT !.keep = "room"]
zig_std_pool == [c_std_pool EXCEPT !.early = FALSE]
\* Lines are kept until they are many, or for the whole run.
cpp_pool == [Streamed EXCEPT !.keep = "batch"]
cpp_tuned_pool == cpp_pool
crystal_pool == [cpp_pool EXCEPT !.wait = "count"]
crystal_tuned_pool == [crystal_pool EXCEPT !.dies = {"read"}]
nim_pool == [Streamed EXCEPT !.keep = "all"]
\* Processes: every n-th file, one block at the end, a lock file.
lua_pool == [Direct EXCEPT !.hand = "stride", !.keep = "all"]
lua_tuned_pool == lua_pool
\* Every worker writes its buffer when it is full, without a lock.
js_pool == [Direct EXCEPT !.keep = "full", !.lock = FALSE]
js_tuned_pool == [js_pool EXCEPT !.dies = {"read"}, !.wait = "crash"]
\* Main, or an actor, does the printing: as the blocks arrive, or when they are
\* all there, in the order of the list.
elixir_pool == [Streamed EXCEPT !.to = "mail"]
elixir_tuned_pool == elixir_pool
python_pool == elixir_pool
python_tuned_pool == [python_pool EXCEPT !.dies = {"read"}, !.wait = "crash"]
pony_pool == [elixir_pool EXCEPT !.hand = "chunk", !.keep = "line"]
pony_tuned_pool == pony_pool
rust_pool == [Streamed EXCEPT !.to = "kept"]
chapel_pool == rust_pool
chapel_tuned_pool == rust_pool
julia_pool == [rust_pool EXCEPT !.hand = "chunk"]
julia_tuned_pool == julia_pool

-----------------------------------------------------------------------------
(* Claiming files.                                                         *)

N == Len(files)

\* The last file of worker w's slice when the list is cut into NWorkers slices,
\* the first ones longer by one where that does not come out even.
SliceEnd(w) ==
  LET extra == N % NWorkers IN
  w * (N \div NWorkers) + (IF w < extra THEN w ELSE extra)
LastOf(w) == IF pool.hand = "chunk" THEN SliceEnd(w) ELSE N
Claim(w) ==
  CASE pool.hand = "counter" -> next
    [] pool.hand = "stride" -> at[w] + NWorkers
    [] pool.hand = "chunk" -> at[w] + 1
BeforeFirst(w) ==
  CASE pool.hand = "counter" -> 0
    [] pool.hand = "stride" -> w - NWorkers
    [] pool.hand = "chunk" -> SliceEnd(w - 1)

\* Program p with a list of files, its workers all at l.
PStart(p, list, l) ==
  /\ pool = p /\ files = list
  /\ next = 1
  /\ at = [w \in Worker |-> BeforeFirst(w)] /\ line = [w \in Worker |-> 1]
  /\ buf = [w \in Worker |-> <<>>] /\ sending = [w \in Worker |-> <<>>]
  /\ pc = [w \in Worker |-> l] /\ holder = 0
  /\ mail = <<>> /\ kept = [i \in 1 .. N |-> <<>>]
  /\ stream = <<>> /\ stdout = <<>>
  /\ matched = FALSE /\ status = -1
PInit == \E p \in Pools, list \in Lists : PStart(p, list, "take")

At(w, l) == pc[w] = l
Goto(w, l) == pc' = [pc EXCEPT ![w] = l]

\* Mutant: the counter is read and incremented in two steps.
TakeRead(w) ==
  /\ At(w, "take")
  /\ at' = [at EXCEPT ![w] = Claim(w)]
  /\ line' = [line EXCEPT ![w] = 1]
  /\ next' \in {next, next + 1}
  /\ Goto(w, IF Claim(w) > LastOf(w) THEN "end" ELSE "open")
  /\ UNCHANGED <<input, buf, sending, holder, output, matched, status>>

Take(w) ==
  /\ At(w, "take")
  /\ at' = [at EXCEPT ![w] = Claim(w)]
  /\ line' = [line EXCEPT ![w] = 1]
  /\ next' = IF pool.hand = "counter" THEN next + 1 ELSE next
  /\ Goto(w, IF Claim(w) > LastOf(w) THEN "end" ELSE "open")
  /\ UNCHANGED <<input, buf, sending, holder, output, matched, status>>

Open(w) ==
  /\ At(w, "open")
  /\ LET fault == files[at[w]].fault IN
     /\ fault # "blocks"
     /\ Goto(w, IF fault = "no" THEN "search"
               ELSE IF fault \in pool.dies THEN "dead" ELSE "take")
  /\ UNCHANGED <<input, work, buf, sending, holder, output, matched, status>>

-----------------------------------------------------------------------------
(* Searching the file in hand.                                             *)

Lines(w) == files[at[w]].lines
More(w) == At(w, "search") /\ line[w] <= Len(Lines(w))
Pieces(i, l) == [p \in 1 .. files[i].lines[l] |-> <<i, l, p>>]
Size(w) == Lines(w)[line[w]]

\* Mutant: the line that does not fit is noticed one piece too late.
MustPassLate(w) ==
  /\ buf[w] # <<>>
  /\ \/ At(w, "end")
     \/ pool.keep = "full" /\ Len(buf[w]) >= CAP
     \/ pool.keep = "room" /\ More(w) /\ Len(buf[w]) + Size(w) > CAP + 1
     \/ pool.keep = "file" /\ ~More(w)
     \/ pool.keep = "batch" /\ ~More(w) /\ Len(buf[w]) >= CAP
\* Mutant: a file's block is passed on whenever it is large.
MustPassLarge(w) ==
  /\ buf[w] # <<>>
  /\ \/ At(w, "end")
     \/ Len(buf[w]) >= CAP
     \/ pool.keep = "file" /\ ~More(w)

\* The lines kept have to go before worker w does anything else.
MustPass(w) ==
  /\ buf[w] # <<>>
  /\ \/ At(w, "end")
     \/ pool.keep = "full" /\ Len(buf[w]) >= CAP
     \/ pool.keep = "room" /\ More(w) /\ Len(buf[w]) + Size(w) > CAP
          /\ (pool.early \/ Size(w) <= CAP)
     \/ pool.keep = "file" /\ ~More(w)
     \/ pool.keep = "batch" /\ ~More(w) /\ Len(buf[w]) >= CAP

\* Mutant: blocks are kept in the order of their arrival.
PassArrived(w, block) ==
  \/ /\ pool.to \in {"stdout", "stream"}
     /\ sending' = [sending EXCEPT ![w] = block] /\ Goto(w, "lock")
     /\ UNCHANGED <<mail, kept>>
  \/ /\ pool.to \in {"mail", "kept"} /\ mail' = Append(mail, block)
     /\ UNCHANGED <<sending, pc, kept>>

\* Pass a block on: to a write() loop, to main's mailbox, to its place.
Pass(w, block) ==
  \/ /\ pool.to \in {"stdout", "stream"}
     /\ sending' = [sending EXCEPT ![w] = block] /\ Goto(w, "lock")
     /\ UNCHANGED <<mail, kept>>
  \/ /\ pool.to = "mail" /\ mail' = Append(mail, block)
     /\ UNCHANGED <<sending, pc, kept>>
  \/ /\ pool.to = "kept" /\ kept' = [kept EXCEPT ![at[w]] = block]
     /\ UNCHANGED <<sending, pc, mail>>

PassKept(w) ==
  /\ pc[w] \in {"search", "end"} /\ MustPass(w)
  /\ Pass(w, buf[w])
  /\ buf' = [buf EXCEPT ![w] = <<>>]
  /\ UNCHANGED <<input, work, holder, stream, stdout, matched, status>>

\* A line that is never kept, and one that is.
PassLine(w) ==
  /\ At(w, "search") /\ ~MustPass(w) /\ More(w)
  /\ pool.keep = "line" \/ (pool.keep = "room" /\ Size(w) > CAP)
  /\ Pass(w, Pieces(at[w], line[w]))
  /\ line' = [line EXCEPT ![w] = @ + 1] /\ matched' = TRUE
  /\ UNCHANGED <<input, next, at, buf, holder, stream, stdout, status>>
KeepLine(w) ==
  /\ At(w, "search") /\ ~MustPass(w) /\ More(w)
  /\ pool.keep # "line" /\ ~(pool.keep = "room" /\ Size(w) > CAP)
  /\ buf' = [buf EXCEPT ![w] = @ \o Pieces(at[w], line[w])]
  /\ line' = [line EXCEPT ![w] = @ + 1] /\ matched' = TRUE
  /\ UNCHANGED <<input, next, at, sending, pc, holder, output, status>>

EndFile(w) ==
  /\ At(w, "search") /\ ~MustPass(w) /\ ~More(w)
  /\ Goto(w, "take")
  /\ UNCHANGED <<input, work, buf, sending, holder, output, matched, status>>

\* Mutant: a worker that has no more files forgets the lines it keeps.
EndWorkUnflushed(w) ==
  /\ At(w, "end")
  /\ Goto(w, "left")
  /\ UNCHANGED <<input, work, buf, sending, holder, output, matched, status>>

EndWork(w) ==
  /\ At(w, "end") /\ ~MustPass(w)
  /\ Goto(w, "left")
  /\ UNCHANGED <<input, work, buf, sending, holder, output, matched, status>>

-----------------------------------------------------------------------------
(* Writing a block.                                                        *)

\* Mutant: the lock keeps nobody out.
LockOpen(w) ==
  /\ At(w, "lock")
  /\ holder' = IF pool.lock THEN w ELSE holder
  /\ Goto(w, "write")
  /\ UNCHANGED <<input, work, buf, sending, output, matched, status>>

Lock(w) ==
  /\ At(w, "lock")
  /\ pool.lock => holder = 0
  /\ holder' = IF pool.lock THEN w ELSE holder
  /\ Goto(w, "write")
  /\ UNCHANGED <<input, work, buf, sending, output, matched, status>>

\* A stream may pass what it holds on to stdout.
Write(w) ==
  /\ At(w, "write") /\ sending[w] # <<>>
  /\ LET piece == Head(sending[w]) IN
     \/ pool.to = "stdout" /\ stdout' = Append(stdout, piece) /\ UNCHANGED stream
     \/ pool.to = "stream" /\ stream' = Append(stream, piece) /\ UNCHANGED stdout
     \/ /\ pool.to = "stream" /\ stdout' = stdout \o Append(stream, piece)
        /\ stream' = <<>>
  /\ sending' = [sending EXCEPT ![w] = Tail(@)]
  /\ UNCHANGED <<input, work, buf, pc, holder, mail, kept, matched, status>>

\* Mutant: the lock is kept.
UnlockForgotten(w) ==
  /\ At(w, "write") /\ sending[w] = <<>>
  /\ Goto(w, IF at[w] > LastOf(w) THEN "end" ELSE "search")
  /\ UNCHANGED <<input, work, buf, sending, holder, output, matched, status>>

Unlock(w) ==
  /\ At(w, "write") /\ sending[w] = <<>>
  /\ holder' = IF pool.lock THEN 0 ELSE holder
  /\ Goto(w, IF at[w] > LastOf(w) THEN "end" ELSE "search")
  /\ UNCHANGED <<input, work, buf, sending, output, matched, status>>

Step(w) ==
  /\ status = -1
  /\ \/ Take(w) \/ Open(w) \/ PassKept(w) \/ PassLine(w) \/ KeepLine(w)
     \/ EndFile(w) \/ EndWork(w) \/ Lock(w) \/ Write(w) \/ Unlock(w)

-----------------------------------------------------------------------------
(* Main.                                                                   *)

Receive ==
  /\ status = -1 /\ mail # <<>>
  /\ stream' = stream \o Head(mail) /\ mail' = Tail(mail)
  /\ UNCHANGED <<input, work, buf, sending, pc, holder, kept, stdout, matched, status>>

\* A worker that was never started is not waited for.
Gone(w) == At(w, "left") \/ At(w, "none") \/ (At(w, "dead") /\ pool.wait = "join")

\* Mutant: the end is reported ahead of blocks that are still on their way.
CollectedUnread == status = -1 /\ \A w \in Worker : Gone(w)

\* Every worker is accounted for and its blocks have arrived: Pony's Writer has one
\* mailbox, in which finish comes last because a message is in it once it is sent.
Collected == status = -1 /\ mail = <<>> /\ \A w \in Worker : Gone(w)

\* Print the next block that was kept.
PrintKept ==
  /\ Collected /\ pool.to = "kept" /\ kept # <<>>
  /\ stream' = stream \o Head(kept) /\ kept' = Tail(kept)
  /\ UNCHANGED <<input, work, buf, sending, pc, holder, mail, stdout, matched, status>>

\* Flush stdout and end.
Finish ==
  /\ Collected /\ (pool.to = "kept" => kept = <<>>)
  /\ stdout' = stdout \o stream /\ stream' = <<>>
  /\ status' = IF matched THEN 0 ELSE 1
  /\ UNCHANGED <<input, work, buf, sending, pc, holder, mail, kept, matched>>

\* The exception of a dead worker ends the program: at once, or when no worker
\* is left to wake main up.
Crash ==
  /\ status = -1 /\ \E w \in Worker : At(w, "dead")
  /\ \/ pool.wait = "crash"
     \/ pool.wait = "stuck" /\ \A w \in Worker : pc[w] \in {"dead", "left"}
  /\ stdout' = stdout \o stream /\ stream' = <<>>
  /\ status' = FAILED
  /\ UNCHANGED <<input, work, buf, sending, pc, holder, mail, kept, matched>>

PNext == (\E w \in Worker : Step(w)) \/ Receive \/ PrintKept \/ Finish \/ Crash
PSpec == PInit /\ [][PNext]_pvars

\* Every worker and main are scheduled.
PFairSpec ==
  /\ PSpec
  /\ \A w \in Worker : WF_pvars(Step(w))
  /\ WF_pvars(Receive) /\ WF_pvars(PrintKept) /\ WF_pvars(Finish) /\ WF_pvars(Crash)

-----------------------------------------------------------------------------
(* Properties                                                              *)

Piece == Nat \X Nat \X Nat
Where == {"none", "take", "open", "search", "lock", "write", "end", "left", "dead"}

\* The variables keep their types; a buffer with room for CAP never holds more.
PTypeOK ==
  /\ pool \in Programs /\ files \in Seq(Files)
  /\ next \in Nat \ {0}
  /\ at \in [Worker -> Int] /\ line \in [Worker -> Nat]
  /\ buf \in [Worker -> Seq(Piece)] /\ sending \in [Worker -> Seq(Piece)]
  /\ pool.keep = "room" => \A w \in Worker : Len(buf[w]) <= CAP
  /\ pc \in [Worker -> Where] /\ holder \in 0 .. NWorkers
  /\ mail \in Seq(Seq(Piece)) /\ kept \in Seq(Seq(Piece))
  /\ stream \in Seq(Piece) /\ stdout \in Seq(Piece)
  /\ matched \in BOOLEAN /\ status \in {-1, 0, 1, 2, FAILED, SIGSEGV}

\* What is on its way to stdout, in order.
Out == stdout \o stream
SizeOf(p) == files[p[1]].lines[p[2]]
Unfinished(list, p) == p[3] < list[p[1]].lines[p[2]]
\* q may come right after p: the next part of the line, or the start of one.
Follows(list, p, q) ==
  IF Unfinished(list, p) THEN q = <<p[1], p[2], p[3] + 1>> ELSE q[3] = 1

\* Lua's main ran a worker's slice itself, because fork failed.
SliceInMain == \E w \in Worker : At(w, "none") /\ at[w] > LastOf(w)

\* No line has another one's text inside it: with the lock (ob_flush, Output.Put,
\* write_out), and where only main writes.  Lua's main writes without the lock.
LinesWhole ==
  pool.lock /\ ~ SliceInMain =>
    /\ \A i \in 1 .. Len(Out) - 1 : Follows(files, Out[i], Out[i + 1])
    /\ Out # <<>> => Out[1][3] = 1

\* What makes LinesWhole inductive.  A sequence of whole lines:
Whole(list, s) ==
  /\ \A i \in 1 .. Len(s) - 1 : Follows(list, s[i], s[i + 1])
  /\ s # <<>> => s[1][3] = 1 /\ ~ Unfinished(list, s[Len(s)])

\* What a worker has in hand at its pc.
PShapeOf(w) ==
  /\ line[w] >= 1
  /\ at[w] >= (IF pc[w] \in {"open", "search", "lock", "write", "end"} THEN 1
               ELSE IF pool.hand = "stride" THEN 1 - NWorkers ELSE 0)
  /\ pc[w] \in {"open", "search"} => at[w] <= LastOf(w)
  /\ pc[w] \in {"lock", "write"} => pool.to \in {"stdout", "stream"}
  /\ pc[w] \notin {"lock", "write"} => sending[w] = <<>>
PShape ==
  /\ \A w \in Worker : PShapeOf(w)
  /\ pool.to = "stdout" => stream = <<>>
  /\ mail # <<>> => pool.to = "mail"

\* The holder of the lock is the one worker that writes.
OneWriter == pool.lock => \A w \in Worker : At(w, "write") <=> holder = w

\* Whole lines are kept and passed on, and the holder has the rest of one.
BlocksWhole ==
  /\ \A w \in Worker : Whole(files, buf[w]) /\ (At(w, "lock") => Whole(files, sending[w]))
  /\ \A i \in 1 .. Len(mail) : Whole(files, mail[i])
  /\ \A i \in 1 .. Len(kept) : Whole(files, kept[i])
OutWhole ==
  pool.lock /\ ~ SliceInMain =>
    IF holder = 0 THEN Whole(files, Out) ELSE Whole(files, Out \o sending[holder])

PIInv == PTypeOK /\ PShape /\ OneWriter /\ BlocksWhole /\ OutWhole

\* Where a worker passes on whole files, the lines of a file stand together.
FilesWhole ==
  pool.keep = "file" =>
    \A i, k \in 1 .. Len(Out) : Out[i][1] = Out[k][1] =>
      \A j \in i .. k : Out[j][1] = Out[i][1]

\* The lines of one file come out in its order, none twice, however they are
\* buffered.  Only Zig's long lines get ahead of earlier ones (emit).
Before(p, q) == p[2] < q[2] \/ (p[2] = q[2] /\ p[3] < q[3])
OwnOrder ==
  \A i, j \in 1 .. Len(Out) :
    i < j /\ Out[i][1] = Out[j][1] =>
      \/ Before(Out[i], Out[j])
      \/ ~pool.early /\ SizeOf(Out[i]) > CAP /\ Out[i][2] # Out[j][2]

\* Where main keeps the blocks, the files come out in the order of the list.
ListOrder ==
  pool.to = "kept" => \A i, j \in 1 .. Len(Out) : i < j => Out[i][1] <= Out[j][1]

\* A program that ends by itself has printed every line of every file it can read,
\* and its status tells whether it printed any, unless Ada's tasks all died or none of
\* C's threads could be started.  What Lua's main prints itself does not count for its
\* status.
AllPrinted ==
  \A i \in 1 .. N : files[i].fault = "no" =>
    \A l \in 1 .. Len(files[i].lines), p \in 1 .. MAX_LINE :
      p <= files[i].lines[l] => \E k \in 1 .. Len(stdout) : stdout[k] = <<i, l, p>>
Complete ==
  status \in {0, 1} =>
    /\ AllPrinted \/ (~ SliceInMain /\ \A w \in Worker : pc[w] \in {"dead", "none"})
    /\ status = 0 => stdout # <<>>
    /\ stdout # <<>> => status = 0 \/ SliceInMain

\* "flushes with a single writeSync (one write() syscall => never splits a
\* line)" (js/grep_mt.mjs:8).
NeverSplitsALine == \A i \in 1 .. Len(Out) - 1 : Follows(files, Out[i], Out[i + 1])
=============================================================================
