-------------------------------- MODULE CGrep --------------------------------
(***************************************************************************)
(* c/grep.c and zig/grep.zig from the second pass of main over the         *)
(* arguments to its return: the directory queue (q_push, q_pop,            *)
(* g_pending), traverse, worker, search_file down to its calls of emit,    *)
(* emit, flush_ctx, and the threads main starts and joins.  Names are those *)
(* of the C program; the Zig program is a translation of it that differs   *)
(* in three places: its queue and the arena of its path names have a       *)
(* capacity, it stops starting threads at the first failure, and it joins  *)
(* only the threads it started.                                            *)
(*                                                                         *)
(* A step is what one thread does between two points where another thread  *)
(* can notice.  What q_pop and flush_ctx do under their mutex is one step  *)
(* that needs the mutex free; q_push takes two, because g_pending is read  *)
(* without the mutex, and an oversized line takes one step per write().    *)
(*                                                                         *)
(* Path names are members of Node, a Line is one matching line of a file.  *)
(* stdout is the sequence of the write() calls made: piece 0 is a buffer   *)
(* of whole lines, 1 to 4 are path, colon, body and newline of an          *)
(* oversized line.                                                         *)
(***************************************************************************)
EXTENDS Integers, Sequences, SequencesExt, Counting

CONSTANTS
  Node, NoNode,    \* path names, the null pointer
  Paths,           \* Seq(Node): the PATH arguments
  Entries,         \* [Node -> Seq(Node)]: readdir, without "." and ".."
  DType,           \* [Node -> STRING]: d_type
  Mode,            \* [Node -> STRING]: what stat says, links followed
  TooLong,         \* paths that do not fit into child[4096]
  Unreadable,      \* paths whose opendir, or open or first read, fails
  Unmapped,        \* large files whose fstat or mmap fails
  Line,
  LinesOf,         \* [Node -> Seq(Line)]: the lines scan emits for a file
  Size,            \* [Line -> Nat]: `need` in emit
  OUTBUF_SZ,       \* capacity of a thread's obuf
  PathLen,         \* [Node -> Nat]
  MAX_DIRS,        \* Zig: capacity of g_q
  ARENA_SZ,        \* Zig: room for the path names of directories
  g_r, nt,         \* -r; the number of workers, main included
  CreateMayFail,   \* pthread_create may fail
  WriteMayFail     \* write() may fail

Worker == 0 .. nt - 1
Main == 0
Helper == Worker \ {Main}
g_multi == g_r \/ Len(Paths) > 1

ASSUME CThreadAssumption == nt \in Nat \ {0}
ASSUME CNodeAssumption ==
  /\ NoNode \notin Node
  /\ Paths \in Seq(Node)
  /\ Entries \in [Node -> Seq(Node)]
  /\ PathLen \in [Node -> Nat]
ASSUME CLineAssumption ==
  /\ LinesOf \in [Node -> Seq(Line)]
  /\ Size \in [Line -> Nat] /\ OUTBUF_SZ \in Nat
  /\ g_r \in BOOLEAN
\* A directory has no lines, and a line is one place of one file.
ASSUME CPlaceAssumption ==
  /\ \A f \in Node : LinesOf[f] # <<>> => "DIR" \notin {Mode[f], DType[f]}
  /\ \A f, g \in Node : \A i \in DOMAIN LinesOf[f], j \in DOMAIN LinesOf[g] :
        LinesOf[f][i] = LinesOf[g][j] => f = g /\ i = j

VARIABLES
  lang,            \* which of the programs runs, "c" or "zig"
  g_q, g_qlock,    \* the stack of directories; who holds its mutex, or NoOne
  g_pending,
  arena_off,       \* Zig: bytes of the arena asked for
  pc, dir, todo,   \* per thread: program point, directory traversed, and
                   \* entries (or arguments) not finished
  lines, piece,    \* per thread: lines of the file in hand not emitted yet,
                   \* and the next piece of an oversized one
  obuf,            \* per thread: the lines in its output buffer
  g_outlock,       \* who holds the output mutex across steps, or NoOne
  stdout,
  t,               \* main's loop counter over the threads
  g_match, g_err,
  status,          \* exit status, -1 while the process runs
  visited, found,  \* history: visits of each path; lines each thread found
  lost,            \* history: how often a directory found no room
  write_failed     \* history: a write() failed

room == <<lang, arena_off, lost>>
queue == <<g_q, g_qlock, g_pending, room>>
walk == <<pc, dir, todo>>
output == <<obuf, g_outlock, stdout, write_failed>>
flags == <<g_match, g_err>>
cvars == <<queue, walk, lines, piece, output, t, flags, status, visited, found>>

NoOne == -1
SIGSEGV == 139

CInit ==
  /\ lang \in {"c", "zig"} /\ arena_off = 0 /\ lost = [x \in Node |-> 0]
  /\ g_q = <<>> /\ g_qlock = NoOne /\ g_pending = 0
  /\ pc = [w \in Worker |-> IF w = Main THEN "arg" ELSE "none"]
  /\ dir = [w \in Worker |-> NoNode]
  /\ todo = [w \in Worker |-> IF w = Main THEN Paths ELSE <<>>]
  /\ lines = [w \in Worker |-> <<>>] /\ piece = [w \in Worker |-> 1]
  /\ obuf = [w \in Worker |-> <<>>] /\ g_outlock = NoOne /\ stdout = <<>>
  /\ t = 1 /\ g_match = FALSE /\ g_err = FALSE /\ status = -1
  /\ visited = [x \in Node |-> 0] /\ found = [w \in Worker |-> <<>>]
  /\ write_failed = FALSE

At(w, l) == status = -1 /\ pc[w] = l
Goto(w, l) == pc' = [pc EXCEPT ![w] = l]

\* The argument or entry in hand, and the way on to the next.
Child(w) == Head(todo[w])
Advance(w) ==
  /\ Goto(w, IF dir[w] = NoNode THEN "arg" ELSE "entry")
  /\ todo' = [todo EXCEPT ![w] = Tail(@)]

-----------------------------------------------------------------------------
(* Arguments and directory entries.                                        *)

Dispatch(w, kind) ==
  \/ kind = "DIR" /\ g_r /\ Goto(w, IF lang = "zig" THEN "alloc" ELSE "push") /\ UNCHANGED todo
  \/ kind = "REG" /\ Goto(w, "file") /\ UNCHANGED todo
  \/ ~(kind = "DIR" /\ g_r) /\ kind # "REG" /\ Advance(w)

\* stat follows a link; one that fails is an error.
Argument ==
  /\ At(Main, "arg") /\ todo[Main] # <<>>
  /\ Dispatch(Main, Mode[Child(Main)])
  /\ g_err' = (g_err \/ Mode[Child(Main)] = "ERROR")
  /\ UNCHANGED <<queue, dir, lines, piece, output, t, g_match, status, visited, found>>

\* Threads only if a directory was queued.
EndArguments ==
  /\ At(Main, "arg") /\ todo[Main] = <<>>
  /\ IF g_pending > 0 THEN Goto(Main, "spawn") /\ UNCHANGED t
                      ELSE Goto(Main, "flush") /\ t' = nt
  /\ UNCHANGED <<queue, dir, todo, lines, piece, output, flags, status, visited, found>>

\* traverse; a directory that cannot be opened is passed over.
OpenDir(w) ==
  /\ At(w, "open")
  /\ visited' = [visited EXCEPT ![dir[w]] = @ + 1]
  /\ IF dir[w] \in Unreadable
       THEN Goto(w, "done") /\ UNCHANGED todo
       ELSE Goto(w, "entry") /\ todo' = [todo EXCEPT ![w] = Entries[dir[w]]]
  /\ UNCHANGED <<queue, dir, lines, piece, output, t, flags, status, found>>

\* Links are left out, unless the file system does not tell them from others.
EntryKind(x) ==
  IF DType[x] = "LNK" \/ x \in TooLong THEN "SKIP"
  ELSE IF DType[x] = "UNKNOWN" THEN Mode[x] ELSE DType[x]

ReadEntry(w) ==
  /\ At(w, "entry") /\ todo[w] # <<>>
  /\ Dispatch(w, EntryKind(Child(w)))
  /\ UNCHANGED <<queue, dir, lines, piece, output, t, flags, status, visited, found>>

CloseDir(w) ==
  /\ At(w, "entry") /\ todo[w] = <<>>
  /\ Goto(w, "done")
  /\ UNCHANGED <<queue, dir, todo, lines, piece, output, t, flags, status, visited, found>>

-----------------------------------------------------------------------------
(* The queue and its workers.                                              *)

\* A directory for which there is no room is forgotten.
Forget(w) ==
  /\ lost' = [lost EXCEPT ![Child(w)] = @ + 1]
  /\ Advance(w)

\* Zig's copy of the path: its bytes are taken from the arena, fit or not.
Alloc(w) ==
  /\ At(w, "alloc")
  /\ arena_off' = arena_off + PathLen[Child(w)] + 1
  /\ IF arena_off' > ARENA_SZ THEN Forget(w)
     ELSE Goto(w, "push") /\ UNCHANGED <<todo, lost>>
  /\ UNCHANGED <<lang, g_q, g_qlock, g_pending, dir, lines, piece, output, t, flags,
                 status, visited, found>>

\* The C program makes its queue larger instead.
QueueFull == lang = "zig" /\ Len(g_q) >= MAX_DIRS

Refuse(w) ==
  /\ At(w, "push") /\ g_qlock = NoOne /\ QueueFull
  /\ Forget(w)
  /\ UNCHANGED <<lang, arena_off, g_q, g_qlock, g_pending, dir, lines, piece, output, t,
                 flags, status, visited, found>>

\* q_push: the store, and g_pending with the end of the critical section.
Push(w) ==
  /\ At(w, "push") /\ g_qlock = NoOne /\ ~ QueueFull
  /\ g_qlock' = w
  /\ g_q' = Append(g_q, Child(w))
  /\ Goto(w, "count")
  /\ UNCHANGED <<room, g_pending, dir, todo, lines, piece, output, t, flags, status, visited,
                 found>>

Count(w) ==
  /\ At(w, "count")
  /\ g_pending' = g_pending + 1
  /\ g_qlock' = NoOne
  /\ Advance(w)
  /\ UNCHANGED <<room, g_q, dir, lines, piece, output, t, flags, status, visited, found>>

\* Mutant of Pop: a worker that found nothing to do leaves.
PopOrLeave(w) ==
  /\ At(w, "pop") /\ g_qlock = NoOne
  /\ IF g_q = <<>>
       THEN Goto(w, "flush") /\ UNCHANGED <<g_q, dir>>
       ELSE /\ dir' = [dir EXCEPT ![w] = Last(g_q)] /\ g_q' = Front(g_q)
            /\ Goto(w, "open")
  /\ UNCHANGED <<room, g_qlock, g_pending, todo, lines, piece, output, t, flags, status,
                 visited, found>>

Pop(w) ==
  /\ At(w, "pop") /\ g_qlock = NoOne
  /\ IF g_q = <<>>
       THEN Goto(w, "test") /\ UNCHANGED <<g_q, dir>>
       ELSE /\ dir' = [dir EXCEPT ![w] = Last(g_q)] /\ g_q' = Front(g_q)
            /\ Goto(w, "open")
  /\ UNCHANGED <<room, g_qlock, g_pending, todo, lines, piece, output, t, flags, status,
                 visited, found>>

TestPending(w) ==
  /\ At(w, "test")
  /\ Goto(w, IF g_pending = 0 THEN "flush" ELSE "pop")
  /\ UNCHANGED <<queue, dir, todo, lines, piece, output, t, flags, status, visited, found>>

\* Mutant of DirDone: a directory that could not be opened is not counted down.
DirDoneIfOpened(w) ==
  /\ At(w, "done")
  /\ g_pending' = IF dir[w] \in Unreadable THEN g_pending ELSE g_pending - 1
  /\ dir' = [dir EXCEPT ![w] = NoNode]
  /\ Goto(w, "pop")
  /\ UNCHANGED <<room, g_q, g_qlock, todo, lines, piece, output, t, flags, status, visited,
                 found>>

DirDone(w) ==
  /\ At(w, "done")
  /\ g_pending' = g_pending - 1
  /\ dir' = [dir EXCEPT ![w] = NoNode]
  /\ Goto(w, "pop")
  /\ UNCHANGED <<room, g_q, g_qlock, todo, lines, piece, output, t, flags, status, visited,
                 found>>

-----------------------------------------------------------------------------
(* search_file and emit.                                                   *)

\* Only a failing open or read is an error.
StartFile(w) ==
  /\ At(w, "file")
  /\ LET f == Child(w) IN
     /\ visited' = [visited EXCEPT ![f] = @ + 1]
     /\ g_err' = (g_err \/ f \in Unreadable)
     /\ IF f \in Unreadable \cup Unmapped
          THEN Advance(w) /\ UNCHANGED <<lines, found>>
          ELSE /\ lines' = [lines EXCEPT ![w] = LinesOf[f]]
               /\ found' = [found EXCEPT ![w] = @ \o LinesOf[f]]
               /\ Goto(w, "lines") /\ UNCHANGED todo
  /\ UNCHANGED <<queue, dir, piece, output, t, g_match, status>>

EndFile(w) ==
  /\ At(w, "lines") /\ lines[w] = <<>>
  /\ Advance(w)
  /\ UNCHANGED <<queue, dir, lines, piece, output, t, flags, status, visited, found>>

\* write(); nothing looks at what it returns.
SysWrite(w, ls, p) ==
  \/ /\ stdout' = Append(stdout, [by |-> w, lines |-> ls, piece |-> p])
     /\ UNCHANGED write_failed
  \/ WriteMayFail /\ write_failed' = TRUE /\ UNCHANGED stdout

\* Mutant of FlushCtx: what has been written stays in the buffer.
FlushCtxKeeps(w) ==
  /\ UNCHANGED obuf
  /\ IF obuf[w] = <<>> THEN UNCHANGED <<stdout, write_failed>>
     ELSE g_outlock = NoOne /\ SysWrite(w, obuf[w], 0)

\* flush_ctx, which returns at once when there is nothing to write.
FlushCtx(w) ==
  /\ obuf' = [obuf EXCEPT ![w] = <<>>]
  /\ IF obuf[w] = <<>> THEN UNCHANGED <<stdout, write_failed>>
     ELSE g_outlock = NoOne /\ SysWrite(w, obuf[w], 0)

olen(w) == FoldLeft(LAMBDA n, l : n + Size[l], 0, obuf[w])
Current(w) == Head(lines[w])
Oversized(l) == Size[l] > OUTBUF_SZ
Fits(w) == olen(w) + Size[Current(w)] <= OUTBUF_SZ

\* The line in hand: no room for it yet, room for it, or never any room.
MakeRoom(w) ==
  /\ At(w, "lines") /\ lines[w] # <<>>
  /\ ~ Oversized(Current(w)) /\ ~ Fits(w)
  /\ g_match' = TRUE
  /\ FlushCtx(w)
  /\ UNCHANGED <<queue, walk, lines, piece, g_outlock, t, g_err, status, visited, found>>

KeepLine(w) ==
  /\ At(w, "lines") /\ lines[w] # <<>>
  /\ ~ Oversized(Current(w)) /\ Fits(w)
  /\ g_match' = TRUE
  /\ obuf' = [obuf EXCEPT ![w] = Append(@, Current(w))]
  /\ lines' = [lines EXCEPT ![w] = Tail(@)]
  /\ UNCHANGED <<queue, walk, piece, g_outlock, stdout, write_failed, t, g_err, status,
                 visited, found>>

FirstPiece == IF g_multi THEN 1 ELSE 3
LastPiece == 4

\* Mutant of StreamLine: the mutex is not taken.
StreamLineUnlocked(w) ==
  /\ At(w, "lines") /\ lines[w] # <<>> /\ Oversized(Current(w))
  /\ g_match' = TRUE
  /\ piece' = [piece EXCEPT ![w] = FirstPiece]
  /\ Goto(w, "stream")
  /\ UNCHANGED <<queue, dir, todo, lines, output, t, g_err, status, visited, found>>

\* The lines that wait in obuf are not written first.
StreamLine(w) ==
  /\ At(w, "lines") /\ lines[w] # <<>> /\ Oversized(Current(w))
  /\ g_outlock = NoOne
  /\ g_outlock' = w
  /\ g_match' = TRUE
  /\ piece' = [piece EXCEPT ![w] = FirstPiece]
  /\ Goto(w, "stream")
  /\ UNCHANGED <<queue, dir, todo, lines, obuf, stdout, write_failed, t, g_err, status,
                 visited, found>>

WritePiece(w) ==
  /\ At(w, "stream")
  /\ SysWrite(w, <<Current(w)>>, piece[w])
  /\ IF piece[w] = LastPiece
       THEN /\ g_outlock' = NoOne
            /\ lines' = [lines EXCEPT ![w] = Tail(@)]
            /\ Goto(w, "lines") /\ UNCHANGED piece
       ELSE /\ piece' = [piece EXCEPT ![w] = @ + 1]
            /\ UNCHANGED <<g_outlock, lines, pc>>
  /\ UNCHANGED <<queue, dir, todo, obuf, t, flags, status, visited, found>>

-----------------------------------------------------------------------------
(* Threads.                                                                *)

\* Mutant of LastFlush: what a helper still keeps is dropped.
LastFlushOfMain(w) ==
  /\ At(w, "flush")
  /\ IF w = Main THEN FlushCtx(w) ELSE UNCHANGED <<obuf, stdout, write_failed>>
  /\ Goto(w, IF w = Main THEN "join" ELSE "left")
  /\ UNCHANGED <<queue, dir, todo, lines, piece, g_outlock, t, flags, status, visited, found>>

LastFlush(w) ==
  /\ At(w, "flush")
  /\ FlushCtx(w)
  /\ Goto(w, IF w = Main THEN "join" ELSE "left")
  /\ UNCHANGED <<queue, dir, todo, lines, piece, g_outlock, t, flags, status, visited, found>>

\* The C program does not look at the result of pthread_create.
Create ==
  /\ At(Main, "spawn") /\ t < nt
  /\ \/ pc' = [pc EXCEPT ![t] = "pop"]
     \/ CreateMayFail /\ lang = "c" /\ UNCHANGED pc
  /\ t' = t + 1
  /\ UNCHANGED <<queue, dir, todo, lines, piece, output, flags, status, visited, found>>

\* Zig's loop ends at a thread it cannot start.
BecomeWorker ==
  /\ At(Main, "spawn")
  /\ t = nt \/ (CreateMayFail /\ lang = "zig")
  /\ t' = 1
  /\ Goto(Main, "pop")
  /\ UNCHANGED <<queue, dir, todo, lines, piece, output, flags, status, visited, found>>

\* C joins nt - 1 threads, Zig those it started.
Joined == t < nt => lang = "zig" /\ pc[t] = "none"

\* Mutant of Join: main waits for nobody.
JoinNobody ==
  /\ At(Main, "join") /\ ~ Joined
  /\ t' = t + 1
  /\ UNCHANGED <<queue, walk, lines, piece, output, flags, status, visited, found>>

\* In C a thread that was never created leaves th[t] unset: joining it is undefined,
\* and either fails at once or reads through the garbage and faults.
Join ==
  /\ At(Main, "join") /\ ~ Joined
  /\ \/ pc[t] \in {"left", "none"} /\ t' = t + 1 /\ UNCHANGED status
     \/ pc[t] = "none" /\ status' = SIGSEGV /\ UNCHANGED t
  /\ UNCHANGED <<queue, walk, lines, piece, output, flags, visited, found>>

\* Mutant of Return: a match hides an error.
ReturnMatchFirst ==
  /\ At(Main, "join") /\ Joined
  /\ status' = IF g_match THEN 0 ELSE IF g_err THEN 2 ELSE 1
  /\ UNCHANGED <<queue, walk, lines, piece, output, t, flags, visited, found>>

\* main returns, which ends every thread.
Return ==
  /\ At(Main, "join") /\ Joined
  /\ status' = IF g_err THEN 2 ELSE IF g_match THEN 0 ELSE 1
  /\ UNCHANGED <<queue, walk, lines, piece, output, t, flags, visited, found>>

MainStep == Argument \/ EndArguments \/ Create \/ BecomeWorker \/ Join \/ Return

Step(w) ==
  \/ OpenDir(w) \/ ReadEntry(w) \/ CloseDir(w)
  \/ Alloc(w) \/ Refuse(w) \/ Push(w) \/ Count(w) \/ Pop(w) \/ TestPending(w) \/ DirDone(w)
  \/ StartFile(w) \/ EndFile(w) \/ MakeRoom(w) \/ KeepLine(w)
  \/ StreamLine(w) \/ WritePiece(w) \/ LastFlush(w)

CNext == MainStep \/ \E w \in Worker : Step(w)
CSpec == CInit /\ [][CNext]_cvars
\* The kernel schedules every thread that can run.
CFairSpec == CSpec /\ WF_cvars(MainStep) /\ \A w \in Worker : WF_cvars(Step(w))

-----------------------------------------------------------------------------
(* Properties of the walk                                                  *)

InHand == {w \in Worker : dir[w] # NoNode}
MidPush == \E w \in Worker : pc[w] = "count"

\* g_pending counts the queued directories and those being traversed, short by one
\* only between the two writes of q_push: every traverse is counted down once,
\* whichever way it returns.
PendingExact ==
  g_pending = Len(g_q) + Cardinality(InHand) - (IF MidPush THEN 1 ELSE 0)

Calling == {"alloc", "push", "count", "file", "lines", "stream"}
LeftLoop(w) == pc[w] \in {"flush", "join", "left"}
Quiet ==
  /\ g_q = <<>> /\ InHand = {}
  /\ \A w \in Worker : pc[w] \notin Calling \cup {"arg"}

\* Once a worker has seen g_pending = 0 and left its loop, no directory is queued,
\* traversed or about to be queued, and no file is searched, by anybody.
NoEarlyExit == (\E w \in Worker : LeftLoop(w)) => Quiet

\* When main returns, every thread it managed to create has left: nobody is killed
\* in the middle of its last flush_ctx.
HelpersDone == status \in {0, 1, 2} => \A h \in Helper : pc[h] \in {"none", "left"}

-----------------------------------------------------------------------------
(* Properties of the output                                                *)

EndsLine(x) == x.piece \in {0, LastPiece}
StartsLine(x) == x.piece \in {0, FirstPiece}
NoneSplit ==
  \A i \in DOMAIN stdout :
     IF StartsLine(stdout[i])
       THEN i = 1 \/ EndsLine(stdout[i - 1])
       ELSE i > 1 /\ stdout[i] = [stdout[i - 1] EXCEPT !.piece = @ + 1]

\* c/grep.c:155 "emit one whole line atomically": the pieces of an oversized line
\* follow one another with no other thread's text between them.
LinesWhole == write_failed \/ NoneSplit

Shown(w) ==
  FlattenSeq([i \in DOMAIN stdout |->
     IF stdout[i].by = w /\ EndsLine(stdout[i]) THEN stdout[i].lines ELSE <<>>])

\* The lines of s that are in K.
Only(K, s) == FlattenSeq([i \in DOMAIN s |-> IF s[i] \in K THEN <<s[i]>> ELSE <<>>])
Big == {l \in Line : Oversized(l)}

\* What a thread found it has written, keeps in obuf or has still to emit: the lines
\* that fit the buffer exactly once and in the order found, and so the oversized
\* ones; only an oversized line can overtake others.
EachKindInOrder ==
  write_failed \/ \A w \in Worker : \A K \in {Big, Line \ Big} :
    Only(K, Shown(w) \o obuf[w] \o lines[w]) = Only(K, found[w])

\* When main has returned, each line of each file stands on stdout once per visit of
\* the file, files that could not be read excepted.
Printed == FlattenSeq([i \in DOMAIN stdout |->
             IF EndsLine(stdout[i]) THEN stdout[i].lines ELSE <<>>])
OutputComplete ==
  status \in {0, 1, 2} /\ ~ write_failed =>
    \A f \in Node : \A i \in DOMAIN LinesOf[f] :
      Times(LinesOf[f][i], Printed)
        = IF f \in Unreadable \cup Unmapped THEN 0 ELSE visited[f]

\* The process ends; a crash in pthread_join ends it too.
CTermination == <>(status # -1)

-----------------------------------------------------------------------------
(* The inductive invariant.                                                *)

PCs == {"none", "arg", "spawn", "pop", "test", "open", "entry", "alloc", "push", "count",
        "done", "file", "lines", "stream", "flush", "join", "left"}
Write == [by : Worker, lines : Seq(Line), piece : 0 .. LastPiece]

CTypeOK ==
  /\ lang \in {"c", "zig"} /\ arena_off \in Nat
  /\ g_q \in Seq(Node) /\ g_qlock \in Worker \cup {NoOne} /\ g_pending \in Int
  /\ pc \in [Worker -> PCs] /\ dir \in [Worker -> Node \cup {NoNode}]
  /\ todo \in [Worker -> Seq(Node)]
  /\ lines \in [Worker -> Seq(Line)] /\ piece \in [Worker -> 1 .. LastPiece]
  /\ obuf \in [Worker -> Seq(Line)] /\ g_outlock \in Worker \cup {NoOne}
  /\ stdout \in Seq(Write)
  /\ t \in 1 .. nt /\ status \in {-1, 0, 1, 2, SIGSEGV}

\* Where a thread holds a directory, a path in hand, or a mutex.
CShapeOf(w) ==
  /\ pc[w] \in Calling => todo[w] # <<>>
  /\ pc[w] \in {"open", "entry", "done"} => dir[w] # NoNode
  /\ dir[w] # NoNode => pc[w] \in Calling \cup {"open", "entry", "done"}
  /\ pc[w] \in {"arg", "spawn", "join"} => w = Main
  /\ pc[w] \in {"none", "left"} => w # Main
  /\ pc[w] = "count" <=> g_qlock = w
  /\ pc[w] = "stream" <=> g_outlock = w
  /\ pc[w] = "stream" => lines[w] # <<>> /\ piece[w] >= FirstPiece

\* Main handles its arguments before any thread exists, creates the threads in
\* order, and joins them in order.
OnArguments == pc[Main] = "arg" \/ (pc[Main] \in Calling /\ dir[Main] = NoNode)
Phases ==
  /\ \A h \in Helper :
       /\ OnArguments => pc[h] = "none"
       /\ pc[h] \in Calling => dir[h] # NoNode
       /\ pc[Main] = "spawn" /\ h >= t => pc[h] = "none"
       /\ pc[Main] \in {"flush", "join"} /\ h < t => pc[h] \in {"none", "left"}
  /\ pc[Main] \notin {"spawn", "flush", "join"} => t = 1
  /\ status \in {0, 1, 2} => pc[Main] = "join" /\ Joined

\* Zig's helpers are the first ones.
FirstOnes ==
  lang = "zig" =>
    \A h \in Helper : pc[h] = "none" =>
      /\ \A i \in Helper : i > h => pc[i] = "none"
      /\ pc[Main] = "spawn" => h >= t

\* While q_push has stored a directory and not counted it, it is still there.
Stored == MidPush => g_q # <<>>

\* stdout ends inside a line only while the thread that wrote the last piece holds
\* the mutex.
AtBoundary == stdout = <<>> \/ EndsLine(stdout[Len(stdout)])
Streaming ==
  /\ g_outlock = NoOne => AtBoundary
  /\ \A w \in Worker : g_outlock = w =>
       IF piece[w] = FirstPiece THEN AtBoundary
       ELSE /\ stdout # <<>>
            /\ stdout[Len(stdout)] = [by |-> w, lines |-> <<Current(w)>>, piece |-> piece[w] - 1]

CWalkInv ==
  /\ CTypeOK /\ (\A w \in Worker : CShapeOf(w)) /\ Phases /\ FirstOnes /\ Stored
  /\ PendingExact /\ NoEarlyExit
CIInv == CWalkInv /\ (write_failed \/ (Streaming /\ NoneSplit))
=============================================================================
