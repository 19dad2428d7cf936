------------------------------ MODULE AsmWalker ------------------------------
(***************************************************************************)
(* The parallel directory walker of asm/grep.s: handle_root, traverse,     *)
(* enqueue_dir, arena_alloc, dirq_push, dirq_pop, worker and run_search.   *)
(*                                                                         *)
(* A step is one access to memory that another thread can see: taking or   *)
(* releasing dirq_lock, the read or write of dirq_top, of `pending`, the   *)
(* xadd on arena_next.  What one thread does to one file (search_file) is  *)
(* a single step here; AsmOutput refines what it prints.                   *)
(*                                                                         *)
(* Path names are members of Node.  The directory tree does not change     *)
(* during a run: Entries, DType and Mode are what the kernel answers.      *)
(***************************************************************************)
EXTENDS Integers, Sequences, FiniteSets

CONSTANTS
  Node,            \* path names the walk can build
  NoNode,          \* the null pointer
  Roots,           \* the PATH arguments, in order
  Entries,         \* [Node -> Seq(Node)]: getdents64, without "." and ".."
  DType,           \* [Node -> STRING]: d_type of the entry
  Mode,            \* [Node -> STRING]: st_mode that newfstatat reports
  PathLen,         \* [Node -> Nat]: strlen of the path
  Unreadable,      \* paths whose open() (or read, fstat, mmap) fails
  Matching,        \* files with at least one matching line
  opt_r,           \* -r was given
  NThreads,        \* bits of the affinity mask, at most MAX_THREADS
  PAR_SPAWN, MAX_DIRS, ARENA_SZ, PATH_MAX_BUILD

Worker == 0 .. NThreads - 1
Main == 0
Helper == Worker \ {Main}

ASSUME NThreadsAssumption == NThreads \in Nat \ {0}
ASSUME NodeAssumption ==
  /\ NoNode \notin Node
  /\ Roots \in Seq(Node)
  /\ Entries \in [Node -> Seq(Node)]
  /\ PathLen \in [Node -> Nat]
ASSUME LimitAssumption == MAX_DIRS \in Nat /\ ARENA_SZ \in Nat

VARIABLES
  dirq,            \* the LIFO stack of directories; dirq_top is its length
  dirq_lock,       \* 0 free, 1 taken
  pending,         \* directories discovered but not fully processed
  arena_next,      \* bytes taken from the arena
  pc, cur, todo,   \* per thread: program point, directory in hand, and
                   \* entries (or arguments) not finished yet
  solo,            \* main is in the .Lrs_ploop phase
  helper,          \* r13 of the spawn loop
  match_found, had_error,
  status,          \* exit status of the process, -1 while main runs
  visited, lost    \* history: how often a path was traversed or searched,
                   \* and how often a directory was dropped

queue == <<dirq, dirq_lock, pending, arena_next>>
flags == <<match_found, had_error>>
boot  == <<solo, helper, status>>
vars  == <<queue, pc, cur, todo, boot, flags, visited, lost>>

PCs == {"none", "root", "ploop", "spawn", "loop", "pop", "pop_top",
        "pop_unlock", "empty", "open", "entry", "search", "alloc", "push",
        "push_top", "push_pending", "push_unlock", "dec", "flush", "join",
        "exited"}

TypeOK ==
  /\ dirq \in Seq(Node)
  /\ dirq_lock \in {0, 1}
  /\ pending \in Int
  /\ arena_next \in Nat
  /\ pc \in [Worker -> PCs]
  /\ cur \in [Worker -> Node \cup {NoNode}]
  /\ todo \in [Worker -> Seq(Node)]
  /\ solo \in BOOLEAN
  /\ helper \in 1 .. NThreads
  /\ match_found \in BOOLEAN /\ had_error \in BOOLEAN
  /\ status \in {-1, 0, 1, 2}
  /\ visited \in [Node -> Nat]
  /\ lost \in [Node -> Nat]

Init ==
  /\ dirq = <<>> /\ dirq_lock = 0 /\ pending = 0 /\ arena_next = 0
  /\ pc = [w \in Worker |-> IF w = Main THEN "root" ELSE "none"]
  /\ cur = [w \in Worker |-> NoNode]
  /\ todo = [w \in Worker |-> IF w = Main THEN Roots ELSE <<>>]
  /\ solo = TRUE /\ helper = 1
  /\ match_found = FALSE /\ had_error = FALSE /\ status = -1
  /\ visited = [x \in Node |-> 0]
  /\ lost = [x \in Node |-> 0]

At(w, l) == pc[w] = l
Goto(w, l) == pc' = [pc EXCEPT ![w] = l]

\* The entry or argument in hand (rbx in traverse, r13 in _start).
Child(w) == Head(todo[w])
\* Back in the loop over entries or arguments, cursor on the next one.
Advance(w) ==
  /\ Goto(w, IF cur[w] = NoNode THEN "root" ELSE "entry")
  /\ todo' = [todo EXCEPT ![w] = Tail(@)]
\* Where a thread looks for its next directory, and where it goes when the
\* queue turned out empty under the lock (.Lrs_pwait reads what .Lrs_ploop does).
NextDir(w) == IF w = Main /\ solo THEN "ploop" ELSE "loop"
Empty(w) == IF w = Main /\ solo THEN "ploop" ELSE "empty"

-----------------------------------------------------------------------------
(* Reading arguments and directory entries.                                *)

\* What traverse does with entry x of directory d.
EntryKind(d, x) ==
  IF DType[x] = "LNK" \/ PathLen[d] >= PATH_MAX_BUILD THEN "SKIP"
  ELSE IF DType[x] = "UNKNOWN" THEN Mode[x] ELSE DType[x]

\* Enter enqueue_dir or search_file with the path in hand, or pass over it.
Dispatch(w, kind) ==
  \/ kind = "DIR" /\ opt_r /\ Goto(w, "alloc") /\ UNCHANGED todo
  \/ kind = "REG" /\ Goto(w, "search") /\ UNCHANGED todo
  \/ ~(kind = "DIR" /\ opt_r) /\ kind # "REG" /\ Advance(w)

HandleRoot ==
  /\ At(Main, "root") /\ todo[Main] # <<>>
  /\ Dispatch(Main, Mode[Child(Main)])
  /\ had_error' = (had_error \/ Mode[Child(Main)] = "ERROR")
  /\ UNCHANGED <<queue, cur, boot, match_found, visited, lost>>

\* open() of a directory; a failure goes straight to .Lt_done.
Open(w) ==
  /\ At(w, "open")
  /\ visited' = [visited EXCEPT ![cur[w]] = @ + 1]
  /\ IF cur[w] \in Unreadable
       THEN Goto(w, "dec") /\ UNCHANGED todo
       ELSE Goto(w, "entry") /\ todo' = [todo EXCEPT ![w] = Entries[cur[w]]]
  /\ UNCHANGED <<queue, cur, boot, flags, lost>>

ReadEntry(w) ==
  /\ At(w, "entry") /\ todo[w] # <<>>
  /\ Dispatch(w, EntryKind(cur[w], Child(w)))
  /\ UNCHANGED <<queue, cur, boot, flags, visited, lost>>

EndOfDir(w) ==
  /\ At(w, "entry") /\ todo[w] = <<>>
  /\ Goto(w, "dec")
  /\ UNCHANGED <<queue, cur, todo, boot, flags, visited, lost>>

SearchFile(w) ==
  /\ At(w, "search")
  /\ visited' = [visited EXCEPT ![Child(w)] = @ + 1]
  /\ had_error' = (had_error \/ Child(w) \in Unreadable)
  /\ match_found' = (match_found \/ Child(w) \in Matching \ Unreadable)
  /\ Advance(w)
  /\ UNCHANGED <<queue, cur, boot, lost>>

-----------------------------------------------------------------------------
(* enqueue_dir: arena_alloc, then dirq_push.  Either can refuse; the       *)
(* directory is then forgotten.                                            *)

Forget(w) == lost' = [lost EXCEPT ![Child(w)] = @ + 1]

\* Mutant: an exhausted arena ends the directory, not the entry.
ArenaAllocGivesUp(w) ==
  /\ At(w, "alloc")
  /\ arena_next' = arena_next + PathLen[Child(w)] + 1
  /\ IF arena_next' > ARENA_SZ
       THEN Goto(w, "dec") /\ Forget(w) /\ UNCHANGED todo
       ELSE Goto(w, "push") /\ UNCHANGED <<todo, lost>>
  /\ UNCHANGED <<dirq, dirq_lock, pending, cur, boot, flags, visited>>

ArenaAlloc(w) ==
  /\ At(w, "alloc")
  /\ arena_next' = arena_next + PathLen[Child(w)] + 1
  /\ IF arena_next' > ARENA_SZ
       THEN Advance(w) /\ Forget(w)
       ELSE Goto(w, "push") /\ UNCHANGED <<todo, lost>>
  /\ UNCHANGED <<dirq, dirq_lock, pending, cur, boot, flags, visited>>

\* Mutant: a test_and_set whose result is not looked at.
LockDirqUntested(w) ==
  /\ dirq_lock' = 1
  /\ \/ At(w, "push") /\ Goto(w, "push_top")
     \/ At(w, "pop") /\ Goto(w, "pop_top")
  /\ UNCHANGED <<dirq, pending, arena_next, cur, todo, boot, flags, visited, lost>>

\* xchg on dirq_lock read 0: the top of dirq_push and of dirq_pop.
LockDirq(w) ==
  /\ dirq_lock = 0
  /\ dirq_lock' = 1
  /\ \/ At(w, "push") /\ Goto(w, "push_top")
     \/ At(w, "pop") /\ Goto(w, "pop_top")
  /\ UNCHANGED <<dirq, pending, arena_next, cur, todo, boot, flags, visited, lost>>

\* Mutants: the stored directory is not counted; a refused one is.
PushTopUncounted(w) ==
  /\ At(w, "push_top")
  /\ Goto(w, "push_unlock")
  /\ IF Len(dirq) >= MAX_DIRS
       THEN Forget(w) /\ UNCHANGED dirq
       ELSE dirq' = Append(dirq, Child(w)) /\ UNCHANGED lost
  /\ UNCHANGED <<dirq_lock, pending, arena_next, cur, todo, boot, flags, visited>>
PushTopCountsRefused(w) ==
  /\ At(w, "push_top")
  /\ Goto(w, "push_pending")
  /\ IF Len(dirq) >= MAX_DIRS
       THEN Forget(w) /\ UNCHANGED dirq
       ELSE dirq' = Append(dirq, Child(w)) /\ UNCHANGED lost
  /\ UNCHANGED <<dirq_lock, pending, arena_next, cur, todo, boot, flags, visited>>

PushTop(w) ==
  /\ At(w, "push_top")
  /\ IF Len(dirq) >= MAX_DIRS
       THEN Goto(w, "push_unlock") /\ Forget(w) /\ UNCHANGED dirq
       ELSE /\ Goto(w, "push_pending") /\ UNCHANGED lost
            /\ dirq' = Append(dirq, Child(w))
  /\ UNCHANGED <<dirq_lock, pending, arena_next, cur, todo, boot, flags, visited>>

PushPending(w) ==
  /\ At(w, "push_pending")
  /\ pending' = pending + 1
  /\ Goto(w, "push_unlock")
  /\ UNCHANGED <<dirq, dirq_lock, arena_next, cur, todo, boot, flags, visited, lost>>

PopTop(w) ==
  /\ At(w, "pop_top")
  /\ IF dirq = <<>>
       THEN UNCHANGED <<dirq, cur>>
       ELSE /\ cur' = [cur EXCEPT ![w] = dirq[Len(dirq)]]
            /\ dirq' = SubSeq(dirq, 1, Len(dirq) - 1)
  /\ Goto(w, "pop_unlock")
  /\ UNCHANGED <<dirq_lock, pending, arena_next, todo, boot, flags, visited, lost>>

\* Mutant: the early return of an empty pop keeps the lock.
UnlockDirqForgotten(w) ==
  /\ dirq_lock' = IF At(w, "pop_unlock") /\ cur[w] = NoNode THEN 1 ELSE 0
  /\ \/ At(w, "push_unlock") /\ Advance(w)
     \/ At(w, "pop_unlock") /\ cur[w] # NoNode /\ Goto(w, "open") /\ UNCHANGED todo
     \/ At(w, "pop_unlock") /\ cur[w] = NoNode /\ Goto(w, Empty(w)) /\ UNCHANGED todo
  /\ UNCHANGED <<dirq, pending, arena_next, cur, boot, flags, visited, lost>>

UnlockDirq(w) ==
  /\ dirq_lock' = 0
  /\ \/ At(w, "push_unlock") /\ Advance(w)
     \/ At(w, "pop_unlock") /\ cur[w] # NoNode /\ Goto(w, "open") /\ UNCHANGED todo
     \/ At(w, "pop_unlock") /\ cur[w] = NoNode /\ Goto(w, Empty(w)) /\ UNCHANGED todo
  /\ UNCHANGED <<dirq, pending, arena_next, cur, boot, flags, visited, lost>>

-----------------------------------------------------------------------------
(* worker                                                                  *)

\* Mutant: an empty queue is taken for the end of the search.
PeekDecides(w) ==
  /\ At(w, "loop")
  /\ Goto(w, IF dirq = <<>> THEN "flush" ELSE "pop")
  /\ UNCHANGED <<queue, cur, todo, boot, flags, visited, lost>>

\* The unlocked test of dirq_top before dirq_pop.
Peek(w) ==
  /\ At(w, "loop")
  /\ Goto(w, IF dirq = <<>> THEN "empty" ELSE "pop")
  /\ UNCHANGED <<queue, cur, todo, boot, flags, visited, lost>>

\* Mutant: dirq_top tested a second time in the place of `pending`.
TestPendingOfQueue(w) ==
  /\ At(w, "empty")
  /\ Goto(w, IF dirq = <<>> THEN "flush" ELSE "loop")
  /\ UNCHANGED <<queue, cur, todo, boot, flags, visited, lost>>

\* .Lw_empty: done only if no directory is queued or being processed.
TestPending(w) ==
  /\ At(w, "empty")
  /\ Goto(w, IF pending = 0 THEN "flush" ELSE "loop")
  /\ UNCHANGED <<queue, cur, todo, boot, flags, visited, lost>>

\* lock dec pending, after traverse has returned.
DecPending(w) ==
  /\ At(w, "dec")
  /\ pending' = pending - 1
  /\ cur' = [cur EXCEPT ![w] = NoNode]
  /\ Goto(w, NextDir(w))
  /\ UNCHANGED <<dirq, dirq_lock, arena_next, todo, boot, flags, visited, lost>>

\* flush_out, then SYS_exit for a helper; main goes on to the join loop.
Flush(w) ==
  /\ At(w, "flush")
  /\ Goto(w, IF w = Main THEN "join" ELSE "exited")
  /\ UNCHANGED <<queue, cur, todo, boot, flags, visited, lost>>

-----------------------------------------------------------------------------
(* run_search and the end of _start, run by the main thread.               *)

RunSearch ==
  /\ At(Main, "root") /\ todo[Main] = <<>>
  /\ Goto(Main, "ploop")
  /\ UNCHANGED <<queue, cur, todo, boot, flags, visited, lost>>

WalkAlone ==
  /\ At(Main, "ploop")
  /\ pending = 0 \/ NThreads = 1 \/ Len(dirq) < PAR_SPAWN
  /\ Goto(Main, IF pending = 0 THEN "flush" ELSE "pop")
  /\ UNCHANGED <<queue, cur, todo, boot, flags, visited, lost>>

StartSpawning ==
  /\ At(Main, "ploop")
  /\ pending # 0 /\ NThreads > 1 /\ Len(dirq) >= PAR_SPAWN
  /\ Goto(Main, "spawn")
  /\ solo' = FALSE
  /\ UNCHANGED <<queue, cur, todo, helper, status, flags, visited, lost>>

\* mmap of a stack, then clone.  The result of clone is only compared with
\* 0, so a clone that fails counts as a helper all the same.
SpawnHelper ==
  /\ At(Main, "spawn") /\ helper < NThreads
  /\ helper' = helper + 1
  /\ \E cloned \in BOOLEAN :
       pc' = IF cloned THEN [pc EXCEPT ![helper] = "loop"] ELSE pc
  /\ UNCHANGED <<queue, cur, todo, solo, status, flags, visited, lost>>

\* No stack could be mapped, or every helper has been started.
StopSpawning ==
  /\ At(Main, "spawn")
  /\ Goto(Main, "loop")
  /\ UNCHANGED <<queue, cur, todo, boot, flags, visited, lost>>

\* The futex word of helper i.  THREAD_FLAGS has CLONE_CHILD_CLEARTID, which
\* clears the word when the thread ends, and no flag that ever sets it.
tids(i) == 0

ExitStatus == IF had_error THEN 2 ELSE IF match_found THEN 0 ELSE 1

\* .Lrs_join waits while a word is not 0; then _start picks the status.
JoinAndExit ==
  /\ At(Main, "join")
  /\ \A i \in 1 .. helper - 1 : tids(i) = 0
  /\ status' = ExitStatus
  /\ Goto(Main, "exited")
  /\ UNCHANGED <<queue, cur, todo, solo, helper, flags, visited, lost>>

-----------------------------------------------------------------------------
\* The process ends when its last thread does (SYS_exit, not exit_group).
Ended == \A w \in Worker : pc[w] \in {"none", "exited"}
Terminating == Ended /\ UNCHANGED vars

MainStep ==
  \/ HandleRoot \/ RunSearch \/ WalkAlone \/ StartSpawning
  \/ SpawnHelper \/ StopSpawning \/ JoinAndExit

Step(w) ==
  \/ Open(w) \/ ReadEntry(w) \/ EndOfDir(w) \/ SearchFile(w)
  \/ ArenaAlloc(w) \/ LockDirq(w) \/ PushTop(w) \/ PushPending(w)
  \/ PopTop(w) \/ UnlockDirq(w)
  \/ Peek(w) \/ TestPending(w) \/ DecPending(w) \/ Flush(w)

Next == MainStep \/ (\E w \in Worker : Step(w)) \/ Terminating

Spec == Init /\ [][Next]_vars

\* The kernel schedules every thread that can run.
Fairness == WF_vars(MainStep) /\ \A w \in Worker : WF_vars(Step(w))
FairSpec == Spec /\ Fairness

-----------------------------------------------------------------------------
(* Properties                                                              *)

InHand == {w \in Worker : cur[w] # NoNode}
MidPush == \E w \in Worker : At(w, "push_pending")

\* The bodies of dirq_push and dirq_pop exclude each other; this is what lets
\* them be single steps above.
Locked(w) ==
  pc[w] \in {"push_top", "push_pending", "push_unlock", "pop_top", "pop_unlock"}
DirqMutex == \A v, w \in Worker : Locked(v) /\ Locked(w) => v = w

\* `pending` counts the queued directories and those a thread has popped and
\* not finished, short by one only between the two writes of dirq_push.
PendingExact ==
  pending = Len(dirq) + Cardinality(InHand) - (IF MidPush THEN 1 ELSE 0)

\* Program points inside the calls made for the path in hand.
Calling == {"search", "alloc", "push", "push_top", "push_pending", "push_unlock"}

\* No directory is queued, in hand or about to be queued.
Quiet ==
  /\ dirq = <<>> /\ InHand = {}
  /\ \A w \in Worker : pc[w] \notin Calling \cup {"root"}

\* Once any thread has seen pending = 0 and left its loop, there is nothing left
\* to do, for any thread, ever again: no helper gives up too early.
LeftLoop(w) == pc[w] \in {"flush", "join", "exited"}
NoEarlyExit == (\E w \in Worker : LeftLoop(w)) => Quiet

\* The two flags are final when the first thread leaves its loop: main reads
\* them for the exit status without waiting for its helpers.
FlagsFinal == [][(\E w \in Worker : LeftLoop(w)) => UNCHANGED flags]_vars

\* The process ends: no thread spins for ever on the lock or on `pending`.
Termination == <>Ended

-----------------------------------------------------------------------------
(* The inductive invariant behind PendingExact and NoEarlyExit.            *)

\* A thread in such a call has a path in hand; a thread holds a directory
\* exactly while it works on it; calls made without a directory are main's
\* own, for its arguments, and happen before any helper exists.
ShapeOf(w) ==
  /\ pc[w] \in Calling => todo[w] # <<>>
  /\ pc[w] \in {"open", "entry", "dec"} => cur[w] # NoNode
  /\ cur[w] # NoNode => pc[w] \in Calling \cup {"open", "entry", "dec", "pop_unlock"}
  /\ pc[w] \in Calling /\ cur[w] = NoNode => w = Main /\ solo
  /\ pc[w] \in {"root", "ploop"} => w = Main /\ solo
  /\ pc[w] = "spawn" => w = Main /\ ~ solo
  /\ w \in Helper /\ helper <= w => pc[w] = "none"

Shape == (\A w \in Worker : ShapeOf(w)) /\ (solo => helper = 1)

LockTaken == (\E w \in Worker : Locked(w)) => dirq_lock = 1

\* While a push has stored the directory and not counted it, it is still there.
Stored == MidPush => dirq # <<>>

IInv ==
  /\ TypeOK /\ Shape
  /\ DirqMutex /\ LockTaken /\ Stored
  /\ PendingExact /\ NoEarlyExit

-----------------------------------------------------------------------------
(* What the documentation says and the code does otherwise.                *)

\* docs/RESULTS.md:973: the helpers are "joined via CLONE_CHILD_CLEARTID +
\* futex", that is, main leaves only after every helper it started has.
HelpersJoined == At(Main, "exited") => \A w \in Helper : pc[w] \in {"none", "exited"}
=============================================================================
