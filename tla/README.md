# asmgrep in TLA+

The repository holds one program, a recursive literal `grep`, written many times
over: by hand in x86-64 assembly (`asm/grep.s`), by hand in C and Zig, and in
more than thirty further languages, many of them in a plain (`std`),
a parallel (`mt`) and a `tuned` form. This directory models what those programs
do, checks the models with TLC on small instances and proves the main safety
properties with TLAPS for every instance.

- [The system](#the-system): components, their state, operations and hazards
- [Modules](#modules): which module models what, and how it corresponds to the code
- [Runs](#runs): what each configuration checks, its bounds, what it shows
- [Where code and documentation disagree](#where-code-and-documentation-disagree)
- [Fairness](#fairness)
- [Proofs](#proofs)
- [What is not modelled](#what-is-not-modelled)
- [Plan](#plan)

## The system

Every program does the same: read the command line (`grep [-r] [-i] PATTERN PATH...`),
find the files, search each file line by line for a literal pattern, print the matching
lines (behind their path when more than one file may be searched), end with status 0 (a line matched), 1 (none) or 2 (error).

### asm: parallel walker (`asm/grep.s`: `handle_root`, `traverse`, `worker`, `run_search`)

*State, shared by all threads:* a stack of directories (`dirq`, `dirq_top`) under
the spin lock `dirq_lock`; `pending`, how many directories are queued or being
read; `arena_next`, the bump allocator of path names; `match_found`, `had_error`.
*Per thread:* the directory being read and the entries still to handle.

*Operations:* classify an argument, read a directory, search a file, allocate a
path, push and pop a directory, start helpers, become a worker, leave, join,
compute the status.

*Interaction:* main walks alone until the stack holds `PAR_SPAWN` directories,
then clones one helper for every other CPU in its affinity mask, and becomes a
worker itself. Threads share nothing but the variables above; a worker with
nothing to pop spins on `pending`.

*Hard:* the order of "store", "count" and "unlock" in a push against a pop in
another thread; the unlocked reads of `dirq_top` and `pending`; the decrement of
`pending` relative to the pushes of the children; full stack and full arena in the
middle of a directory; main computing the status while helpers still run.

*Correct when:* the lock excludes, `pending` is exact, nobody leaves while work
exists or may appear, the flags are final when main reads them, the process ends,
and every file that is found and not given up for lack of room is searched as
often as it is found.

### asm: output path (`print_line`, `append_raw`, `flush_out`, `search_file`)

*State:* a buffer per thread, `out_lock`, the flags, standard output.
*Operations:* append a line, flush before a line that does not fit, stream a line
longer than the buffer with up to four `write()` calls, flush at the end.
*Hard:* a streamed line must not be cut by another thread's flush, must not
overtake the lines buffered before it, and must release the lock; the room test is
the only bound on `append_raw`.
*Correct when:* whole lines, a file's lines in order, none lost or repeated, the
buffer never overflows, every thread finishes.

### C and Zig by hand (`c/grep.c`, `zig/grep.zig`)

*State, shared:* a stack of directories `g_q` and its mutex, `g_pending`, the output mutex, `g_match`,
`g_err`; in Zig also an arena of path names. *Per thread:* the directory being read, the file
being searched, an output buffer.

*Operations:* the second pass over the arguments, push, pop, traverse, search a file, emit a line
(keep it, make room for it, or stream it), flush, start and join threads.

*Interaction:* main handles every argument and queues directories before any thread exists, starts the threads only
if something was queued, and becomes a worker. A worker with nothing to pop reads `g_pending` without the mutex.

The Zig program is a translation of the C program. It differs in that its queue and its arena are bounded and a directory that finds no
room is dropped without a word; in that it stops starting threads at the first failure; and in that it joins only the threads it
started. The C program does not look at what `pthread_create` returns and joins every handle.

*Hard:* the count next to the store in `q_push`; the unlocked read of `g_pending`; a `traverse` that returns early and must be
counted down all the same; a long line streamed in pieces; which directories are dropped, which depends on the threads' order; a join on a handle that was never set.

*Correct when:* the count is exact, nobody leaves early, main returns after every thread it started, lines are whole,
every line of every visited file is printed, the status is right, and the process ends.

### asm and C: literal search (`prep_pattern`, `verify`, `pivot_find`, `find_match`; `find_a`, `fm_single`, `fm_two`)

*State:* the folded pattern, two rare positions `off_a < off_b` and the bytes to look for
there, the Horspool table, the scan mode; the scan pointer and the lanes left of a
vector. *Hard:* five loops that must agree; a vector loop that may only load where
two vectors fit; a tail that must start where the last vector stopped.
*Correct when:* the first occurrence is found, no load leaves the haystack, every
round advances.

### Line scan (every implementation)

*State:* the read buffer and how much of it is this file, the position, the lines
printed. *Operations:* read a file, find the next occurrence, take the line around
it, go on behind that line. *Hard:* the ends — an empty file, an empty pattern, a
last line without newline, an occurrence in what an earlier file left in a reused
buffer. *Correct when:* exactly the lines in which an occurrence starts are
printed, once and in order.

### File pools (the parallel implementations that collect the files first)

*State:* the list of files, the claim counter (or the fixed slices), a buffer per
worker, the output lock, a main thread that waits, sometimes a mailbox.
*Operations:* claim, open, read, keep or pass on lines, lock, write, unlock, leave or
die, receive, report. *Hard:* output of one worker between the parts of another's;
order of last message and end of worker; a worker that dies on an unreadable file
while main waits for it. *Correct when:* lines are whole, the lines of a file stand in order
(together, where the program promises it), everything readable is printed before
main reports, and main does report.

### Command line of the native programs

*State:* the words, the next one, whether `--` was seen, the options, the pattern, the paths. *Operations:* one word at a
time; the hand-written programs go over the words twice and must find the same pattern both times.
*Correct when:* options, pattern and paths are what the whole line says, and a usage error is reported exactly for a line
that is not well formed.

### C and C++ programs on library walks (`c/grep_std*.c`, `cpp/grep_*.cpp`)

*State:* what the walk has ahead, the list of files, the pool. *Operations:* classify an argument, meet an entry,
search at once or remember, start threads, join. *Hard:* errors in the middle of a walk, entries that are neither file nor directory nor link,
threads that do not start. *Correct when:* every file is found once and no link followed, and everything found is printed before the status.

### io_uring probe (`bench/iouring_probe.c`)

*State:* files, descriptors of a batch, requests not answered, the completion queue. *Operations:* submit a round, reap it, go on.
*Hard:* answers in any order, one queue for all rounds. *Correct when:* it reads the same bytes as open, read and close one after the other.

### The rest

| Component | State and operations | Interaction, hazards |
|---|---|---|
| command line and walk of the other languages | one pass over the arguments, a recursive walk before the search | sequential; symlinks, unreadable directories |
| programs with the common loop and no workers (perl, ruby, dart, wasm, codon, scala-native, every `*_std`) | scan the files one after the other | none but the scan itself |
| programs in array and script languages (awk, bash, dyalog, forth, j, raku, red) | scan by lines, boxes or blocks | none |
| `memchr_b`, lowercase copies | vector code | used by its result |
| tests, benchmarks, build files, launchers, docs | `VerifyImpl` models part of `tests/verify_impl.sh` | `tests/run.sh` and `tests/verify_impl.sh` take `$?` behind a pipe into `sort`, so they compare `sort`'s status, not grep's |

`PROJECT.json` lists the hazards at their lines, with the properties that
watch them.

## Modules

```
TreeSearch  <--implements--  AsmWalker  <--WalkerPart--  AsmGrep  --uses-->  AsmOutput
    ^                                                       :                    :
    |                                          what search_file finds: FindMatch, LineScan
    +-----implements------   CGrep

NativePrograms  =  CommandLine + Collect + FilePool + IouringProbe
                   (what a file yields: LineScan)
VerifyImpl      =  CommandLine + LineScan
```

| Module | Models | Remarks |
|---|---|---|
| `TreeSearch` | the abstract recursive search: how many findings of each path wait; visit one, give one up for lack of room, report when none is left | no threads, queue or locks; safety only |
| `Counting` | how often an element stands in a sequence, and in a family of sequences together; sums | `CountingProofs`: the laws of these numbers, of concatenation and of a list cut into slices, on which the refinements and the proofs about lines rest |
| `AsmWalker` | the asm walker, thread by thread | `AsmWalkerRefinement` maps it to `TreeSearch`; `AsmWalkerProofs` holds the theorems, the refinement among them |
| `AsmOutput` | the asm output path, `write()` by `write()` | `AsmOutputProofs` holds the theorems, the order of a thread's lines among them |
| `AsmGrep` | both together | `WalkerPart`: the composition is still the walker, fairness included; `AsmGrepProofs` holds the theorems, which rest on those of the two parts |
| `CGrep` | `c/grep.c` and `zig/grep.zig` from the second pass over the arguments to the status | `CGrepRefinement` maps it to `TreeSearch`; `CGrepProofs` holds the theorems, the refinement among them |
| `FindMatch` | the literal search of asm and C (Zig's is C's), round by round | `FindMatchProofs` |
| `LineScan` | the scan loop of 82 programs in 30 languages, JavaScript's with and without `-i` | `LineScanProofs` |
| `VerifyImpl` | `tests/verify_impl.sh`: programs, as a parser of `CommandLine` and a loop of `LineScan`, against `grep -F` | composes the two |
| `FilePool` | the pools of 50 parallel programs | `FilePoolInvariant` says where every piece of output is; theorems in `NativeProgramsProofs` |
| `CommandLine` | the parsers of asm, C, Zig and C++ | its invariant `CLInv` is proved in `NativeProgramsProofs` |
| `Collect` | the walks of `nftw`, `recursive_directory_iterator` and the probe | `nftw` and the iterator are libraries: modelled from how the programs use them; `COInv` is proved in `NativeProgramsProofs` |
| `IouringProbe` | the probe's passes and the kernel that answers them | `UIInv` is proved in `NativeProgramsProofs` |
| `NativePrograms` | the C and C++ programs from arguments to status, Lua from its forks on | composes the four above; `NativeProgramsInvariant` says how far main has come and what the parts are like then; theorems in `NativeProgramsProofs` |
| `MC*` | small trees, files, lists, command lines for TLC | |

Definitions whose names add a fault to the name of an action
(`PushTopUncounted`, `LockAcquireUntested`, `TakeRead`, …) are mutated forms of that action. No
specification uses them; they exist to show that each property can be broken.

### AsmWalker

One step of a thread is one access to memory another thread can see: taking or
releasing `dirq_lock`, reading or writing `dirq_top`, `pending` or `arena_next`.
`pc[w]` is where a thread is; `cur[w]` the directory it reads; `todo[w]` what
`getdents64` has still to yield; `solo` is true while main walks alone.

| Action | Code |
|---|---|
| `HandleRoot`, `RunSearch` | `handle_root` on the next argument; the head of `run_search` |
| `Open`, `ReadEntry`, `EndOfDir` | `traverse`: open, the type switch with its `newfstatat` fallback, end and error of `getdents64` |
| `SearchFile` | `search_file` as one step |
| `ArenaAlloc` | `enqueue_dir` and `arena_alloc`: the xadd happens even when the result does not fit |
| `LockDirq`, `PushTop`, `PushPending`, `UnlockDirq` | `dirq_push`: the directory is stored before it is counted, both under the lock |
| `PopTop` | `dirq_pop` |
| `Peek`, `TestPending`, `DecPending` | `worker`: unlocked look at `dirq_top`, unlocked test of `pending`, decrement after the directory has been read |
| `Flush`, `JoinAndExit` | the end of `worker` and of `run_search`, the exit status |
| `WalkAlone`, `StartSpawning`, `SpawnHelper`, `StopSpawning` | main's part of `run_search`; `clone` may fail |

`tids(i) == 0` is what the code computes: the words main waits for are never
set, so the join never waits. The directory tree does not change during a run.

### AsmOutput

A line is its length, a `write()` the sequence of lines it carries (`piece` 0) or one piece of a
streamed line. `PrintLine` is the decision in `print_line`; `AppendRaw` the copy;
`LockAcquire`/`FlushWrite`/`FlushUnlock` are `flush_out`; `WritePiece` and `StreamUnlock` the
streamed line; `StartFile` and `EndFile` the head and tail of `search_file` with its early
returns; `FinalFlush` the flush at the end of a thread. With `WriteMayFail` every `write()`
may return an error, which the code does not look at.

### AsmGrep

`W == INSTANCE AsmWalker`, `O == INSTANCE AsmOutput`. A thread at the walker's `search` runs
the output machine on that file; `EndSearch` is one step of both. `LineAssumption` gives lines an
identity: a line is one place of one file, so that `OutputComplete` can count it. The real flags are the
output machine's; `walk_match` and `walk_error` are history variables, the
walker's view of them. `WalkerPart` says that dropping the output leaves a
behaviour of `AsmWalker`, so what holds of the walker holds of the whole.

### FindMatch

A behaviour runs one of two programs; its first step, `PrepPattern` or `CPrepPattern`, says which.
`PrepPattern` computes what `prep_pattern` of the assembly computes; `ChooseScan` is the dispatch in
`find_match`; `Single`, `Memchr`, `Horspool`, `Vector` with `Lane`, and `ScalarTail` are one round
of each loop. SSE2 and AVX2 differ in `LANES` only. `ChooseFm`, `FmSingle`, `FmTwo`, `FmLane`, `FmTail` are the two searches of the C program: it
chooses between them differently, and `fm_two` passes over a candidate that does not fit where `fm_single` gives up.
Floor 1 stands for a search that goes on behind a line.

`PrepPattern` follows the code where the header comment of `grep.s` and the code part:
scan mode 1 may look for the more common of two bytes (`grep.s:8` against `1127`).

### LineScan

`EveryLine`, `NextMatch` and `LastLine` are the branches of the common loop. A program is a record: what an empty
pattern takes (`empty`), whether an empty file is scanned (`emptyFile`), whether there
is another round at `pos = n` (`atEnd`), which match there stops it (`stop`), and
whether only the file's bytes are searched (`bounded`). All are, but for `Buffer.indexOf` of a reused buffer in JavaScript: in `js/grep_mt_tuned.mjs` always, in
`js/grep_std.mjs` and `js/grep_mt.mjs` with `-i` (`js_std_i_scan`, `js_i_scan`), where they search the whole of `lowerScratch`. What `find` returns is what `FindMatch` is shown to return.

`LinesPrinted` says that a loop prints what `grep -F` prints, without exception. `Conforms` names the loops and patterns of which that can hold: the loop is bounded, and what it does about an empty pattern is to search for it without taking
the place behind the last line for a line (`TakesEmpty`). Four loops do not: both Go programs and Rust print one more, empty, line, the parallel standard Zig program prints nothing.
They are run with patterns that are not empty, and `VerifyImpl` shows what they make of the empty one.

### VerifyImpl

`Run` is the call of a program in `check`; `ReadArgs` its steps through the words, `UsageExit` the early end, `StartSearch`, `Search`, `EndSearch` its files one after the other; `Compare` the comparison, which adds
a line to `report`. Lines count in any order because the script sorts them. `Captured` is what `$(...)` makes of them: newlines are cut off the end, so an output of empty lines only is the same as none. The status compared is that
of `sort`. For both reasons the script does not notice the empty line that Go and Rust print for an empty file, nor a usage error where `grep` prints nothing.

### CGrep

One step is what a thread does between two points where another can notice. What is done under a mutex in one go is one step that
needs the mutex free; `q_push` takes two, because `g_pending` is read without the mutex; a streamed line takes one step per `write()`.
`lang` says which program runs.

| Action | Code (C names) |
|---|---|
| `Argument`, `EndArguments` | the second loop of `main`, after which threads are started only if `g_pending > 0` |
| `OpenDir`, `ReadEntry`, `CloseDir`, `DirDone` | `traverse` and the decrement after it; `Dispatch` is the choice of directory, file or neither, `EntryKind` the `d_type` switch with its `stat` |
| `Alloc`, `Refuse` | Zig's `qPush`: bytes of the arena are taken before it is known that they fit; a full stack |
| `Push`, `Count` | `q_push`: the store, and the count with the unlock |
| `Pop`, `TestPending` | `q_pop` and the loop of `worker` |
| `StartFile`, `EndFile` | `search_file`: only a failing `open` or first `read` is an error, a failing `fstat` or `mmap` is not |
| `MakeRoom`, `KeepLine`, `StreamLine`, `WritePiece` | `emit`; a streamed line overtakes what waits in `obuf` |
| `LastFlush` | `flush_ctx` at the end of a worker, and of main |
| `Create`, `BecomeWorker`, `Join`, `Return` | the end of `main` |

Joining a handle that was never set is undefined in C. The model leaves both outcomes that a build has: `pthread_join` returns an error, or it
reads through the garbage and the process dies.

### FilePool

`Take`, `Open`, `KeepLine`/`PassLine`, `PassKept`, `EndFile`, `EndWork`, `Lock`, `Write`, `Unlock` are a
worker; `Receive`, `PrintKept`, `Finish`, `Crash` the main thread. A program is a record: how files are handed out
(shared counter, stride, slice), how long lines are kept, where they go
(stdout, a buffered stream, a mailbox, a list until the end), whether a lock is
taken, which failure ends the worker, how main waits.

Abstractions: one variable `matched` for flags per worker, messages and shared
flags; a main thread that works too is one of the workers; Julia's buffer per thread and slice is a
block per file kept in list order; `CAP` stands for the capacity of a buffer and
for the threshold of a batch.

Main reports when every worker is gone and the mailbox is empty (`Collected`). For Pony that is the order of messages: the Writer has one mailbox, a message is in it once it is sent, and Main sends `finish` when the last `worker_done` has come,
behind every line. This is a promise of the runtime, which the model takes; it cannot show a `finish` that overtakes a line. What it shows is that `Complete` needs it (`CollectedUnread`).

### CommandLine

A word is the sequence of its characters, a step is one word. `EndsOptions`, `Option`, `BadOption`, `TakePattern`,
`TakePath`, `EndPass` are the pass that classifies; `SkipOption`, `SkipPattern`, `TakeRoot`, `EndRevisit` the second pass of the hand-written programs.
A parser is a record: the number of passes, and how it tells a pattern not seen yet (Zig by its length, the others by a null pointer or a flag).
`ParsedRight` compares the outcome with a reading of the whole line.

### Collect

What a walk still has to meet is one sequence, since all three walks meet a directory's entries right after it. `NextRoot` is the
`stat` of an argument and the start of a walk, `Meet` one call of the callback or one turn of the loop. The walks differ in what they take an entry for (`TypeOf`) and in what they make of a
directory that cannot be opened (`AfterEntering`): access denied is passed over, any other error ends a library walk.
`TreeAssumption` says that paths make a tree: an entry is in one directory, once, and `Levels` fall on the way down (the code's recursion ends because a path has an end). `Below` is what that tree holds under a directory.

### IouringProbe

`SyncPass` is one pass of `sync_pass`; `Submit` and `Reap` one round each of `uring_pass`; `Answer` the kernel, which completes one request, whichever it likes.

### NativePrograms

`phase` is where main is. `ParseWord`, `UsageExit`, `EndParsing` run `CommandLine`; `Find`, `EndFinding` run `Collect`, and a sequential
program searches a file in the step that finds it; `Spawn` starts one thread; `Wait` is `FilePool`'s main; `JoinUnset` the undefined join of `c/grep_std_mt.c`; `Probing`, `Kernel`, `Report` the probe. A thread that does not start is ignored (C),
an exception nobody handles (C++), or, in Lua, a slice that main searches itself: `Spawn` computes what it has to
write, `WriteInline` writes it piece by piece, without the lock file. The hand-written programs are followed to the end
of their parser, the pools of other languages start from a list.

## Runs

| Run | Instance | States | Shows |
|---|---|---|---|
| `asm_walker` | 3 threads; ten nodes: a symlink, an unreadable directory, entries of type DT_UNKNOWN; arguments: a file that the tree holds too, the tree, a missing path; room for 2 queued directories and, in 9 bytes of arena, for 4 paths | 3,902 | the inductive invariant `RInv`, and `DirqMutex`, `PendingExact`, `NoEarlyExit`; `FlagsFinal`, `Termination`, and that the walker implements `TreeSearch` |
| `asm_output` | 2 threads, 3 files, lines of 2, 3 and 9 in a buffer of 5, an oversized one first, every `write()` may fail | 33,838 | lock, bound, whole lines, order, and that every thread finishes |
| `asm_grep` | 3 threads, 3 files, `y` both as argument and in the tree, one unreadable | 40,995 | `OutputComplete`, `StatusFinal`, `WalkerPart` |
| `c_grep` | C and Zig, 3 threads, any start may fail; arguments: a file, one that cannot be mapped, a named pipe, a tree with a link, entries without a type, an unreadable file and directory, a path too long; lines of 2, 3 and 9 in a buffer of 5; Zig: room for 2 queued directories and 12 bytes of names | 119,726 | the count, who leaves when, main waits, lines whole, `EachKindInOrder`, `OutputComplete`, `CTermination`, and that both programs implement `TreeSearch` |
| `find_match` | haystacks to length 5 over `A a z` and 6 over `a e`; 15 patterns; both `-i`; 2 lanes; floors 0 and 1; asm and C | 290,555 | first occurrence, loads in bounds, the inductive invariant, end |
| `line_scan` | files to length 4 over 2 letters, newline, NUL, each behind one of two files of length 5; 6 patterns; 77 loops with all of them, 4 with those that are not empty | 271,912 | exactly the matching lines (`LinesPrinted`), end |
| `file_pool` | 50 pools with 2 workers, 7 lists of up to 5 files, room for 2; Lua with forks that fail; the C and C++ programs from their arguments on and the parsers of the hand-written ones, with all 400 command lines of up to three of seven words and seven more, in a small file system (links, a pipe, denied and broken directories); the probe on two directories, batches of 2 | 134,392 | `ParsedRight`, `FilesFoundOnce`, `SameWork`; whole lines, files together, order, completeness; `Ends` |
| `asm_helpers_not_joined`, `asm_errors_silent`, `js_stale_tail`, `js_torn_lines`, `verify_impl` | the smallest instance that shows it, or that of the passing run | – | see below |

Why the bounds suffice to be interesting:

- `asm_walker`: with room for two directories a third is refused while others
  are pushed and popped; there is room for four of the
  six paths that are enqueued, and which ones depends on who reaches the counter first; three threads are two helpers and main, so a helper can be
  idle, another in the middle of a push, and main at either. `PAR_SPAWN = 2` makes main
  walk alone first.
- `asm_output`, `c_grep`: 3 + 3 does not fit 5, 2 + 2 does, 9 must be streamed; two threads
  suffice for one to be between the pieces of the other.
- `c_grep`: Zig's twelve bytes hold the root and its three directories, or two of them and the one below, depending on the order of the threads; with every
  start allowed to fail, main may be alone, have one helper or two, in C with a gap between them.
- `find_match`: two lanes and patterns to length 4 give every distance between
  the two positions, whole vectors, tails of length 0 and 1, and each of the seven searches.
- `line_scan`: four bytes hold two lines with or without their newlines, empty lines, a NUL inside or outside
  the first `BIN_PEEK` bytes; the older file is longer, so its tail is visible.
- `file_pool`: lines that fit with others, fill the buffer, never fit; unreadable
  files first and last; more workers than files, no file at all. Three words are a pattern, a path and one word in every place before, between and behind
  them; the longer lines add trees and a second `--`. A batch of 2 leaves a rest of one file, and a batch whose files do not all open. Two workers suffice for interleaving; the
  properties of the pools hold with
  three (1.58 million states, too slow for a routine run).

`CHECK_DEADLOCK FALSE` is set where processes end, which TLC would call a deadlock
(`AsmWalker` has a `Terminating` step instead), and in `file_pool` where a program really gets stuck: a Crystal worker that died, a pipe nobody writes. That nobody waits for
ever is what the termination properties say.

## Where code and documentation disagree

Each is a run that TLC ends with a counterexample to what the text says.

| Run | Text | Code |
|---|---|---|
| `asm_helpers_not_joined` | `docs/RESULTS.md:973`: helpers are joined via `CLONE_CHILD_CLEARTID` and futex | the words are never set (no `SETTID` flag), so main does not wait. `StatusFinal` shows how far this goes: the status is right, a helper's last flush may come after it |
| `asm_errors_silent` | `asm/grep.s:12`, `README.md:30`: 2 = error | a directory that cannot be opened in the walk does not set `had_error`, and the results of `write()` are ignored: the status of the run is 0 after both |
| `verify_impl` | `tests/verify_impl.sh:64` gives "ANY grep-clone binary" (line 2) an empty pattern and a file and expects what `grep -F` prints; `README.md:46`: all implementations are byte-for-byte identical to grep | `zig/grep.zig:362` tells "no pattern yet" by its length, so the file becomes the pattern and the program ends with a usage error; `zig/grep_std_mt.zig:83` prints nothing; `go/grep.go:61`, `go/mt/main.go:86` and `rust/src/main.rs:113` find the empty pattern once more behind the last newline and print an empty line. The report at the end of the run has FAIL for these five and ok for `c/grep.c` |
| `js_stale_tail` | `js/grep_core.mjs:61`: scans `data` up to `len` | an occurrence may begin in the file and end in the tail of an earlier one |
| `js_torn_lines` | `js/grep_mt.mjs:8`, `js/grep_mt_tuned.mjs:7`: never splits a line | after a partial write another worker's buffer may come between |

Noticed on the way and part of the models, without a run of their own:

- Entries of type `DT_UNKNOWN` are examined by asm, C and Zig with a `stat` that follows links, so on file systems that do not tell types a link
  is followed, against `README.md:402`. The models say so (`EntryKind`).
- An argument that is a link to a directory is followed by asm, C, Zig and C++, not by the programs on `nftw`.
- `nftw` calls a named pipe a file and the program then waits in `fopen`. `Ends` names this among the ways a program comes to rest (`OnPipe`), as it does a Crystal worker that died and for which main waits for ever: both are stated, neither would be caught.
- If all workers die on files they cannot read (Ada), or none starts (`c/grep_std_mt.c`), files are not searched and the status may be 1; `Complete` makes the exception.
- A directory that a library walk cannot open for another reason than access ends that walk without a message or a status; `FilesFoundOnce` asks
  for completeness only where there is none.
- After a failed `fork` Lua's parent writes its slice without the lock file (`lua/grep_mt.lua:61` says lines are not torn) and drops
  the result, so the status may be 1 although lines were printed. `LinesWhole` and `Complete` make the exception by name (`SliceInMain`).

## Fairness

Every fairness assumption is weak fairness of all steps of one thread, or of main:
the kernel runs every runnable thread again and again. No lock is assumed fair:
a thread at a taken lock has no enabled step. The spin locks of `asm/grep.s` are
taken by one atomic exchange, so between two users a third may starve in general,
but only while the others find work; the runs show that on the bounded work
of a search weak fairness is enough. In `FilePool` the runtime of a language gives
the same guarantee for its threads, processes, fibres or actors; a mailbox is read as long as it is not empty.
In `CGrep` the mutexes (the library's in C, spin locks in Zig) are as unfair as they may be. In `NativePrograms` main, each worker and the kernel are scheduled; the kernel answers every
request that was submitted, which is what `io_uring_submit_and_wait` waits for.
`FindMatch` and `LineScan` are sequential and only assumed to run on. TLC evaluates
`Termination`, `OTermination`, `CTermination`, `FTermination`, `STermination`, `Ends` and the
fairness in `WalkerPart` under these assumptions. `TreeSearch` promises safety only, so `ImplementsTreeSearch` needs none: that a search reports at all is
`Termination` of the asm walker and `CTermination` of the C and the Zig program, except for a C program that dies in `pthread_join`.

## Proofs

All theorems hold for every value of the constants that meets the ASSUMEs of the
module. They were checked by TLC as invariants first.

**AsmWalkerProofs.** `IInv` is inductive: `TypeOK`, `Shape` (which variables a
thread at a given pc has set), `DirqMutex`, `LockTaken` (a thread inside implies a
taken lock), `Stored` (a directory being counted is on the stack), `PendingExact`, `NoEarlyExit`.
`DirqMutex` alone is not inductive: it needs `LockTaken`. `PendingExact` — pending is
the queued directories plus those in hand, less one inside a push — needs `DirqMutex`, as only one
thread can be between store and count, and lemmas on how the set of threads
with a directory in hand grows and shrinks by one. `NoEarlyExit` follows a thread that sees
`pending = 0`: by `PendingExact` and `Stored` nothing is queued or in hand, and what is quiet stays quiet
(`QuietStable`). From this `FlagsAreFinal`, an action property: after a
thread has left its loop nobody writes a flag. Theorems: `Invariance`, `TypeCorrect`,
`QueueMutex`, `PendingCounts`, `NobodyLeavesEarly`, `FlagsAreFinal`.

*The walker implements `TreeSearch`* (`WalkerImplementsTreeSearch`), step by step. The abstract variable `waiting` counts the findings of
a path nobody has acted on; in the walker they are in three places: among the arguments or entries a thread has not dispatched, on the stack, and in the hand of the thread that just popped
(`Waiting`). A push moves one from the first to the second, a pop from the second to the third, and neither changes the sum; `Open` of a directory and `SearchFile` are a `Visit`, a full
stack or arena a `GiveUp`, `JoinAndExit` is `Report`, and everything else a stutter. For this `RInv` adds to `IInv` what the hands hold by program point (`Hands`: a thread at `search` has a file,
one that enqueues has a directory), that only directories are queued, and that the two flags say what the visits so far call for (`FlagsMeanVisits`), so that the status is the abstract one.
That nothing waits when main reports is `NoEarlyExit`. The sums are cardinalities of sets of places, whose laws are in `CountingProofs`: a sum over a set or a sequence written as a fold
could not be reasoned about. The theorem holds for every tree and number of threads; it assumes that `readdir` and `stat` agree on what a path is (`TypesAgree`).

**AsmOutputProofs.** `OIInv` is `OSafe` (types, shape, `OutMutex`, `LockHeld`,
`BufferBound`) with `HeldBack` (a thread without a file has no lines left; one whose `outlen` is 0, that streams a line or is done has an empty buffer) and `Reported` (`match_found` is set before any line is on its way, and only by a thread that found one) and, until a write fails, `Streaming` (the last write is the piece before the
one the lock holder is about to make), `Boundary` (otherwise output ends with a whole line) and `NoneSplit`. The escape is
needed: after a failed piece the rest of the line still comes. `OInv` adds `OwnOrder`: what a thread has written, followed by what it has in its buffer and the lines still to print, is what it found.
A flush must then be known to write all of the buffer, and a streamed line to find it empty, which is `HeldBack`: `print_line` flushes first. The proof takes that a line is at least
its newline (`Size` is positive), so that the buffer is empty just when `outlen` is 0. `Shown` gathers the lines of one thread from the writes; `Merged` is the fact that each line stands on stdout as often as in all the `Shown` together. Theorems: `OSafety`,
`OutputMutex`, `BufferNeverOverflows`, `WholeLines`, `OwnLinesInOrder`.

**AsmGrepProofs.** The two parts are instances of the modules that hold their proofs, `WP` and `OP`, so every theorem about a part can be cited for the whole once each step is shown to be a step or a stutter of the part.
For `WP` this is `StepWalks`, from which follow `ProgramWalks` (the safety part of `WalkerPart`) and `ProgramImplementsTreeSearch`. For `OP` it holds only where the part's caller does what the part's environment
may do: start a file when idle, flush at the end. That is `Links`: a thread is in the output machine exactly while the walker has it in `search` or `flush`, on the file the walker has in hand; the flags of the process are ahead of the walker's, `walk_match` and `walk_error`, by the searches under way and by nothing else;
and a status, once picked, is the walker's. `GIInv` is `IInv` of the walker, `OIInv` and `OwnOrder` of the output, `Links`, and `FoundVisited`: the threads have found each line of a readable file once for every search of it that is over or under way.
`StatusIsFinal` is then the walker's argument carried to the real flags. `LinesAllPrinted` (`OutputComplete`) puts the accounts together: at the end nobody searches, so by `FoundVisited` a line was found once per visit of its file; every buffer is empty, so by `OwnOrder` each thread has shown what it found; by `Merged` that is what stands
on stdout. It assumes of the files that a directory has no lines and that a line has one place (`LineAssumption`), of the tree what the walker assumes (`WalkAssumption`), of lines and buffer what the output does (`PrintAssumption`).
Theorems: `GInvariance`, `ProgramWalks`, `ProgramImplementsTreeSearch`, `StatusIsFinal`, `LinesAllPrinted`.

**FindMatchProofs.** `FIInv` is `PrepOK` (the positions and bytes that `prep_pattern`
chose belong to the pattern, the Horspool table is a lower bound on safe shifts),
`NonePassed` (no start of an occurrence lies behind the scan), `InBounds` and `FirstMatch`. It
holds for every alphabet, `LANES` and `BMH_MIN`, so for SSE2 and AVX2 alike.
Theorems: `FSafety`, `FindsFirstMatch`, `LoadsInBounds`.

**LineScanProofs.** Under `AllConform` (every loop conforms with the pattern it is given, see LineScan above) `LInv`:
the buffer holds the file, the position is at the start of a line or behind the
file, what is printed so far is exactly the matching lines before it. Theorems:
`LSafety`, `LinesExact`, for every file, buffer size and every pair of a record and a pattern that conform.

**CGrepProofs.** `CIInv` has eight parts. `CTypeOK` and `CShapeOf` (which variables a thread has set at a given pc, who holds a mutex where);
`Phases` (before main has handled its arguments no thread exists, it creates them in order and joins them in order); `FirstOnes` (Zig's threads are the
first ones, since it stops at a failure); `Stored`, `PendingExact`, `NoEarlyExit`; and, until a write fails, `Streaming` with `NoneSplit`. `PendingExact` needs
`CShapeOf`, by which only the holder of the queue's mutex is between store and count. `NoEarlyExit` needs `PendingExact` and `Stored` at the thread that reads zero, and `Phases`, by which nobody can be started
once main has left its loop. `HelpersDone` follows from `Phases` for C, and for Zig from `FirstOnes`: joining up to the first thread that was not started misses none. It holds for every number of
threads, tree, list of arguments, capacity and buffer, whichever threads start and whatever `write()` returns.
Theorems: `CSafety`, `CPendingCounts`, `CNobodyLeavesEarly`, `CHelpersAreDone`, `CWholeLines`.

*Both programs implement `TreeSearch`* (`CProgramsImplementTreeSearch`), by the same map as the asm walker with `CRInv` for `RInv`. The visit of a file is `StartFile`, before its lines are emitted; `g_match` may lag behind the
visits, and `FlagsMeanVisits` says that it does so exactly while somebody has found a line and not emitted it. By `HelpersDone` nobody has when main reports. A crash in `pthread_join` maps to a search that never reports.

*Every line comes out, and each kind in order* (`CKindsInOrder`, `CLinesAllPrinted`). `EachKindInOrder` picks the lines of one kind (oversized, or not) from what a thread has written, keeps and has still to emit. It is inductive with `Buffers`: an oversized line never waits in a buffer, so when one passes the buffer it passes no line of
its kind. Picking is gathering `<<l>>` or nothing from each line, and what a concatenation gathers is what its parts gather (`GatheredConcat`). `COInv` adds `FoundVisited` (each line found once per visit of its file, if that could be read and mapped); a visit of a directory finds nothing, because what a
thread traverses is a directory (`Hands`) and directories have no lines (`CPlaceAssumption`). When main has returned, `HelpersDone` puts every thread behind its last flush, where `Buffers` leaves nothing in its buffer; so what each thread has written is what it found, and stdout, which shares its writes out to the threads (`GatheredShared`), has every line
as often as the threads have found it. Theorems: `COutputInvariant`, `CKindsInOrder`, `CLinesAllPrinted`.

**NativeProgramsProofs, the pools.** `PIInv`: `PTypeOK`, `PShape`, `OneWriter` (with a lock, the holder is the one worker that writes), `BlocksWhole` (whatever is kept, sent or waiting
for the lock is a sequence of whole lines) and `OutWhole`: stdout and the stream together are whole lines, once what the holder has still to write is appended. The last is
what makes `LinesWhole` inductive, as the output itself ends in the middle of a line most of the time. It holds for every record of `Programs`, not only the 50 listed.
Theorems: `PSafety`, `PTypeCorrect`, `PLinesWhole`.

`PDelivery` (module `FilePoolInvariant`) is about all lines at once, and the other four properties follow from it. Its parts need one another, so they are one invariant:

- `ClaimsApart`: a file that can still be claimed is in nobody's hand and none of its lines is anywhere, and no two workers have to do with the same file. `Counted` says how a worker's index tells what it may still claim, for the shared
  counter, the stride and the slices; that slices of `N \div NWorkers` and one more cover the list without overlap is `SliceOrder` and `SliceCover`.
- `Buffers`: what a worker may keep and send at its pc; a program that keeps lines by file has none left when it looks for the next one.
- `PiecesOrdered`: what is out, sent, mailed, kept for main and in the buffers is in the order `Precede` in itself, and each stage is ahead of the one behind it; with `LinesAhead` (the line that comes next is behind everything found of its file) every step keeps that.
- `KeptInPlace`, `BlocksApart`: main's blocks stand at their file's place; a block under way is of a file of which nothing is out, and stdout with the rest of the block being written (`Flow`) has each file in one stretch.
- `NothingLost`: a readable file can be claimed, or is in hand with all lines before the current one somewhere, or has all its lines somewhere; and the match flag is set exactly when a line is anywhere.

`FilesWhole`, `OwnOrder` and `ListOrder` are read off the order of what is out. `Complete` is about the step of main that ends the program: everybody is gone, so every buffer, mailbox and place is empty, the counter or the slices are
used up by a worker that left by itself, and `NothingLost` puts every line on stdout. `SoundAssumption` names what this needs of a program: blocks main keeps by file are whole files, whole files go out under a lock, and where main makes
nothing of a dead worker the files are claimed from a counter and kept one by one (a worker that dies with lines of an earlier file in its buffer would lose them). TLC evaluates it for the 50 programs.
Theorems: `PDelivered`, `PFilesWhole`, `POwnOrder`, `PListOrder`, `PComplete`. All are about `PSpec`, where a list is given and every worker starts.

**NativeProgramsProofs, the pools in their programs.** In `NativePrograms` the files are added one by one while main finds them, a sequential program prints while it finds, a worker may never start, and Lua's main searches the slice that no process was forked for. The pool's invariants hold there as well (`NSafety`): `NPInv` is `PIInv`, `PDelivery` and `Complete` with two parts about main.

- `Launched`: how far main has come. Before the pool there is nobody to work (`Unstarted`): what a program has searched while it found it is out or at its file's place, whole and in order, and its counter is past the list; of the others nothing is anywhere. While main starts workers, one whose pc is `none` is
  either still to come (`Awaits`) or could not be started (`Missed`), and then its index claims nothing: it is 0 of a counter, or past the list of a stride. A worker that is missed is thus one that left before its first file, as far as the pool can tell.
- `InlineRight`: what main has still to write of its slice is in order and behind all that is out, is of files nobody else has or can claim, and with what is out it is every line of those files. Until it is written the slice's lines are not lost (`MainHas`).

A step of a worker or of the joining main is one of `PNext` with workers that are not there yet, so the lemmas about the pools serve a second time (`PoolStep`). What is new: a file is recorded, or searched at once, while nobody works (`RecordStep`, `FindStep`); a thread starts, fails, or leaves its slice to main (`ThreadStarts`, `ThreadFails`, `InlineStarts`); main writes a piece of the slice (`WriteInlineStep`). Theorems: `NSafety`, `NTypeCorrect`, `NLinesWhole`, `NFilesWhole`, `NOwnOrder`, `NListOrder`, `NComplete`, for every list of arguments, tree and number of workers, whichever of them start. As `Complete` has it, a status may still come without lines where no worker ever started (`c/grep_std_mt.c`): the hazard stays listed.

**NativeProgramsProofs, the native programs.** Three parts of `NativePrograms` have an invariant each, and a theorem of `NSpec` that reads the property off it. `Begun` links them: what a part finds when its turn comes is a state
in which nothing of it has begun, so that `StartCollecting` and `StartPasses` establish what the steps of the part keep.

- `NParsedRight`: `CLInv` says of the words before the next one what `ParsedRight` says of the line (`ReadRight`): options, pattern and paths so far are those among the first `arg - 1` words, and the second pass has met as many operands as there are. It needs how the number
  of operands grows by one word, and that the n-th operand is one word only. Nothing is claimed of Zig where the pattern is empty (`Misread`; `verify_impl` shows what happens).
- `NFilesFoundOnce`: `WaysKept` counts for every path how often it is listed, how often it will be found among what the walk has ahead, and how often below the arguments that wait; the sum is the number of arguments that lead to it, or less once a directory was found broken.
  A step moves ways from one place to another: meeting a directory replaces it by its entries, which have the same ways to each path because the tree has one entry for a path (`TreeAssumption`). `AheadUnhurt` says that a walk of an unbroken tree never meets a broken directory. `Below`
  is a recursive function, and what is needed of it is its equation, which the intersection of all families closed under it satisfies (`BelowIs`), and that what is below a node is lower, as the levels fall on the way down.
- `NSameWork`: `RingExact` says that while main waits every slot of the round has its request with the kernel or its completion in the queue, one of the two and once, with the result that belongs to the round; `DescriptorsRight` which files of the batch are open; `TotalsRight` that `total` is what
  the batches so far hold. The sum of the completions is in the order the kernel answered, that of the synchronous pass in the order of the files: both are cardinalities of sets of places (`Counting`), and a bijection between the places makes them equal.

`TypeOK`, `LInv`, `GIInv`, `CIInv`, `CRInv`, `COInv` (of `CGrep` and of `Collect`), `CLInv`, `UIInv`, `Begun`, `PDelivery`, `Launched` and `InlineRight` were checked by TLC before they were proved (`GIInv` and `COInv` also with two threads and writes that fail, `PDelivery` also with three workers, and with every record of `Programs` that meets `SoundAssumption`) and are left out of the routine runs, which check the properties that follow from them.

**CountingProofs.** Numbers are cardinalities of sets of places and not folds, so that their laws follow from those of finite sets. What has to be shown along a sequence is shown by induction on its length, over the set of lengths for which it holds:
a set of numbers that has 0 and with each number the next has all of them (`NumberInduction`, from the least number outside it), and so for sets of sequences (`SequenceInduction`). The library's induction theorems take a predicate, which no installed prover can be given; these take a set.
On them rest what `FlattenSeq` is (`FlattenSeqIs`, `FlattenSeqAppend`), what a concatenation gathers, that what is shared out among threads adds up (`GatheredShared`), and that the slices of a list cover it without overlap (`PartsGrow`, `PartsCover`). It is not only about counts of one element: `Hits` counts the places of a set's elements, and `PositiveSum` is a size of a union.

**Only model-checked:** termination and all fairness, that of `WalkerPart` among them (its safety part is `ProgramWalks`). Every safety property that a passing run checks is stated by a theorem.

## What is not modelled

- Command line and walk of the other languages: sequential, and the models of C and C++ show the same two passes; `FilePool` starts from the finished list.
- A `read()` or `write()` of a regular file that is short in the asm program; a failing `write()` in `c_grep` and `asm_grep` (`asm_output` has it, and the proofs about `CGrep` and `AsmGrep` cover it); a tree that changes
  during the walk; signals; running out of memory; patterns of 64 KiB and more, which do not fit the C program's `g_pat_lc`.
- `FilePool`: failing writes, and the
  representation of the match flag. Julia's flags are bits of shared words (`falses(nt)`), so one thread's flag can be lost to
  another's read-modify-write; but every such write leaves a bit set, and main asks for any of them, so one flag that is set for good is what main sees.
- Threads of languages other than C, C++, Zig and Lua that cannot be started.
- Case folding in `LineScan` (one to one on bytes), the vector code of `memchr_b` and of
  lowercasing, the text of messages, the path prefix except for its length, the times the probe measures.
- The seven programs in array and script languages: sequential, with a loop each of their own.
- Tests but for the cases of `verify_impl.sh` with one pattern and one text file, benchmark scripts, build files, docs: they do not run when a search runs.

## Plan

Done, in this order: the asm walker and its abstraction; the output path; both
together; the literal search; the line scan of all implementations; the pools; then the command line, the
C search, the C program and its proofs, the library walks, the native programs end to end, the probe, the proofs about the pools, the Zig program, the refinement of `TreeSearch` by both walkers, what the pools deliver,
the order of a thread's lines, the whole asm program from its parts, that the asm, the C and the Zig program print every line, the command line, the library walks and the probe, and the pools inside the programs whose workers may not start.

What could follow:

1. `FilePool` with writes that fail.

New questions join the existing runs where the instance fits, so that a run stays one question
to the system.
