--------------------------- MODULE NativePrograms ---------------------------
(***************************************************************************)
(* The C and C++ programs from their arguments to their exit status: main  *)
(* parses the command line (CommandLine), finds the files (Collect) and    *)
(* searches them, one after the other while it finds them or with a pool   *)
(* of threads (FilePool); the io_uring probe reads them (IouringProbe).    *)
(* The hand-written programs are followed to the end of their parser; what *)
(* they do next is in CGrep and AsmWalker.  The pools of the other         *)
(* languages start from a given list, Lua's before it forks.               *)
(***************************************************************************)
EXTENDS FilePool, CommandLine, Collect, IouringProbe

CONSTANTS
  Named, Missing,  \* [words -> Node]: the paths that exist; a path that does not
  Content,         \* [Node -> Files]: the lines a search of the path finds
  Bytes,           \* [Node -> Int]: what the probe reads, -1 if it cannot open it
  ProbeDirs        \* arguments of the probe

ASSUME NativeAssumption ==
  /\ Named \in [DOMAIN Named -> Node] /\ Missing \in Node /\ ProbeDirs \subseteq Node
  /\ Content \in [Node -> Files] /\ Bytes \in [Node -> Nat \cup {-1}]

NodeOf(word) == IF word \in DOMAIN Named THEN Named[word] ELSE Missing

VARIABLES
  prog,            \* the program, a record as below
  phase,           \* "parse", "collect", "spawn", "pool", "probe"; "elsewhere" and
                   \* "reported" at the end of what is modelled
  started,         \* threads main has tried to start
  inline           \* what main has to write of a slice it searches itself

progvars == <<prog, phase, started, inline>>
nvars == <<progvars, pvars, clvars, covars, uvars>>

-----------------------------------------------------------------------------
(* The programs: how they find files, what they do with them, and what a   *)
(* thread that cannot be started means to them.                            *)

Unmodelled == [walk |-> "none", then |-> "search", pool |-> Streamed, alone |-> "ignored"]
HandWritten == [Unmodelled EXCEPT !.then = "elsewhere"]
\* Output goes to a stream that may be flushed on the way.
grep_std_c == [walk |-> "nftw", then |-> "search", pool |-> Streamed, alone |-> "ignored"]
\* g_out is printed at the end.
grep_std_cpp == [grep_std_c EXCEPT !.walk = "iterator", !.pool = [Streamed EXCEPT !.to = "kept"]]
grep_std_mt_c == [grep_std_c EXCEPT !.then = "spawn", !.pool = c_std_pool]
\* jthread throws, and main is the last worker itself.
grep_mt_cpp == [grep_std_cpp EXCEPT !.then = "spawn", !.pool = cpp_pool, !.alone = "throws"]
grep_mt_tuned_cpp == [grep_mt_cpp EXCEPT !.pool = cpp_tuned_pool]
\* A process that cannot be forked is replaced by a call.
grep_mt_lua == [Unmodelled EXCEPT !.then = "spawn", !.pool = lua_pool, !.alone = "inline"]
iouring_probe == [Unmodelled EXCEPT !.walk = "readdir", !.then = "probe"]

LibraryPrograms == {grep_std_c, grep_std_cpp, grep_std_mt_c, grep_mt_cpp, grep_mt_tuned_cpp}
Parsing == {<<p, OnePass>> : p \in LibraryPrograms} \cup {<<HandWritten, q>> : q \in Parsers}

-----------------------------------------------------------------------------
(* Starting.                                                               *)

StartParsing ==
  /\ phase = "parse"
  /\ \E pq \in Parsing :
       /\ prog = pq[1] /\ parser = pq[2]
       /\ PStart(pq[1].pool, <<>>, IF pq[1].then = "spawn" THEN "none" ELSE "left")
  /\ argv \in Argvs
  /\ COInit
StartProbe ==
  /\ phase = "collect" /\ prog = iouring_probe
  /\ parser = OnePass /\ argv = <<>> /\ PStart(Streamed, <<>>, "left")
  /\ walk = "readdir" /\ recurse = TRUE /\ ahead = <<>> /\ listed = <<>>
  /\ \E d \in ProbeDirs : roots = <<d>> /\ given = <<d>>
StartWithList ==
  /\ \/ phase = "pool" /\ prog = Unmodelled /\ PInit
     \/ /\ phase = "spawn" /\ prog = grep_mt_lua
        /\ \E list \in Lists : PStart(lua_pool, list, "none")
  /\ parser = OnePass /\ argv = <<>>
  /\ COInit

NInit ==
  /\ StartParsing \/ StartProbe \/ StartWithList
  /\ CLStart /\ UInit /\ started = 0 /\ inline = <<>>

-----------------------------------------------------------------------------
(* Main.                                                                   *)

ParseWord ==
  /\ phase = "parse" /\ status = -1
  /\ Parse
  /\ UNCHANGED <<progvars, pvars, covars, uvars>>

\* usage() and its like: nothing has been started or printed.
UsageExit ==
  /\ phase = "parse" /\ status = -1 /\ parsing = "usage"
  /\ status' = 2
  /\ UNCHANGED <<progvars, input, work, buf, sending, pc, holder, output, matched,
                 clvars, covars, uvars>>

EndParsing ==
  /\ phase = "parse" /\ parsing = "parsed"
  /\ IF prog.then = "elsewhere"
       THEN phase' = "elsewhere" /\ UNCHANGED covars
       ELSE /\ phase' = "collect"
            /\ StartCollecting(prog.walk, opt_r, [k \in DOMAIN paths |-> NodeOf(paths[k])])
  /\ UNCHANGED <<prog, started, inline, pvars, clvars, uvars>>

\* A sequential program searches a file where it finds it, one step here; the others
\* remember it.
Block(i, file) ==
  IF file.fault # "no" THEN <<>>
  ELSE FlattenSeq([l \in DOMAIN file.lines |-> [p \in 1 .. file.lines[l] |-> <<i, l, p>>]])
SearchNow(n) ==
  LET block == Block(N + 1, Content[n]) IN
  /\ Content[n].fault # "blocks"
  /\ matched' = (matched \/ block # <<>>)
  /\ IF pool.to = "kept"
       THEN kept' = Append(kept, block) /\ UNCHANGED <<stream, stdout>>
       ELSE /\ kept' = Append(kept, <<>>)
            /\ \/ stream' = stream \o block /\ UNCHANGED stdout
               \/ block # <<>> /\ stream' = <<>> /\ stdout' = stdout \o stream \o block

Record(n) ==
  /\ files' = Append(files, Content[n])
  /\ IF prog.then = "search" THEN SearchNow(n) /\ next' = next + 1
     ELSE kept' = Append(kept, <<>>) /\ UNCHANGED <<next, stream, stdout, matched>>

Find ==
  /\ phase = "collect"
  /\ NextRoot \/ Meet
  /\ IF listed' # listed /\ prog.then # "probe"
       THEN Record(Last(listed'))
       ELSE UNCHANGED <<files, next, kept, stream, stdout, matched>>
  /\ UNCHANGED <<progvars, pool, at, line, buf, sending, pc, holder, mail, status, clvars, uvars>>

\* io_uring_queue_init may fail, which ends the probe.
EndFinding ==
  /\ phase = "collect" /\ AllCollected
  /\ \/ prog.then = "search" /\ phase' = "pool" /\ UNCHANGED uvars
     \/ prog.then = "spawn" /\ phase' = "spawn" /\ UNCHANGED uvars
     \/ /\ prog.then = "probe" /\ phase' = "probe"
        /\ StartPasses([k \in DOMAIN listed |-> Bytes[listed[k]]])
     \/ prog.then = "probe" /\ phase' = "reported" /\ UNCHANGED uvars
  /\ UNCHANGED <<prog, started, inline, pvars, clvars, covars>>

\* The files of worker w where every NWorkers-th is one worker's.
SliceOf(w) ==
  FlattenSeq([i \in 1 .. N |-> IF (i - w) % NWorkers = 0 THEN Block(i, files[i]) ELSE <<>>])

\* Main starts the next thread, or becomes the last worker.  Of a slice it runs itself
\* nothing is left to claim.
Spawn ==
  /\ phase = "spawn" /\ status = -1 /\ inline = <<>>
  /\ LET w == started + 1
         main == prog.alone = "throws" /\ w = NWorkers IN
     /\ \/ Goto(w, "take") /\ UNCHANGED <<at, status, inline>>
        \/ ~ main /\ prog.alone = "ignored" /\ UNCHANGED <<at, pc, status, inline>>
        \/ ~ main /\ prog.alone = "throws" /\ status' = FAILED /\ UNCHANGED <<at, pc, inline>>
        \/ /\ prog.alone = "inline" /\ inline' = SliceOf(w)
           /\ at' = [at EXCEPT ![w] = w + N * NWorkers] /\ UNCHANGED <<pc, status>>
     /\ started' = w
     /\ phase' = IF w = NWorkers THEN "pool" ELSE "spawn"
  /\ UNCHANGED <<prog, input, next, line, buf, sending, holder, output, matched, clvars,
                 covars, uvars>>

\* write_out in the parent, which has no lock; whether there was a match is dropped.
WriteInline ==
  /\ inline # <<>>
  /\ stdout' = Append(stdout, Head(inline)) /\ inline' = Tail(inline)
  /\ UNCHANGED <<prog, phase, started, input, work, buf, sending, pc, holder, mail, kept,
                 stream, matched, status, clvars, covars, uvars>>

\* pthread_join of a thread that was never created reads an unset handle.
JoinUnset ==
  /\ phase = "pool" /\ status = -1 /\ prog.alone = "ignored"
  /\ \E w \in Worker : At(w, "none") /\ \A v \in 1 .. w - 1 : Gone(v)
  /\ status' = SIGSEGV
  /\ UNCHANGED <<progvars, input, work, buf, sending, pc, holder, output, matched,
                 clvars, covars, uvars>>

WorkerStep(w) == Step(w) /\ UNCHANGED <<progvars, clvars, covars, uvars>>
Wait ==
  /\ phase = "pool" /\ inline = <<>>
  /\ Receive \/ PrintKept \/ Finish \/ Crash
  /\ UNCHANGED <<progvars, clvars, covars, uvars>>

Probing ==
  /\ phase = "probe" /\ ProbeStep
  /\ UNCHANGED <<progvars, pvars, clvars, covars>>
Kernel ==
  /\ phase = "probe" /\ KernelStep
  /\ UNCHANGED <<progvars, pvars, clvars, covars>>
Report ==
  /\ phase = "probe" /\ passes = <<>>
  /\ phase' = "reported"
  /\ UNCHANGED <<prog, started, inline, pvars, clvars, covars, uvars>>

MainStep ==
  \/ ParseWord \/ UsageExit \/ EndParsing \/ Find \/ EndFinding \/ Spawn \/ WriteInline
  \/ JoinUnset \/ Wait \/ Probing \/ Report

NNext == MainStep \/ Kernel \/ \E w \in Worker : WorkerStep(w)
NSpec == NInit /\ [][NNext]_nvars
\* Main, every worker and the kernel are scheduled.
NFairSpec ==
  /\ NSpec
  /\ WF_nvars(MainStep) /\ WF_nvars(Kernel) /\ \A w \in Worker : WF_nvars(WorkerStep(w))

-----------------------------------------------------------------------------
(* Properties                                                              *)

\* open(2) of a named pipe waits for a writer: nftw lists pipes as files.
OnPipe ==
  \/ ahead # <<>> /\ TypeOf(Head(ahead)) = "REG" /\ Content[Head(ahead)].fault = "blocks"
  \/ \E w \in Worker : At(w, "open") /\ files[at[w]].fault = "blocks"

\* Every program ends, unless a Crystal worker died before it counted itself or a
\* program that uses nftw has come upon a named pipe.
Ends ==
  <>(\/ status # -1 \/ phase \in {"elsewhere", "reported"}
     \/ pool.wait = "count" /\ \E w \in Worker : At(w, "dead")
     \/ OnPipe)
=============================================================================
