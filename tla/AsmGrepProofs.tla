---------------------------- MODULE AsmGrepProofs ----------------------------
(***************************************************************************)
(* The whole of asm/grep.s: its walk is a run of AsmWalker, its printing   *)
(* keeps the invariants of AsmOutput, and main's exit status is the one    *)
(* the flags call for, for every number of threads, tree and buffer size.  *)
(* WP and OP are W and O of AsmGrep together with what is proved of them.  *)
(***************************************************************************)
EXTENDS AsmGrep, CountingProofs

WP == INSTANCE AsmWalkerProofs WITH
        Matching <- {f \in Node : LinesOf[f] # <<>>},
        match_found <- walk_match, had_error <- walk_error
OP == INSTANCE AsmOutputProofs WITH
        File <- Node, NoFile <- NoNode

-----------------------------------------------------------------------------
(* The steps of W and WP, and those of O and OP, are the same.             *)

\* The initial states.
LEMMA SameInit == (W!Init <=> WP!Init) /\ (O!OInit <=> OP!OInit)
  BY DEF W!Init, WP!Init, W!Worker, WP!Worker, W!Main, WP!Main,
         O!OInit, OP!OInit, O!FirstPiece, OP!FirstPiece

\* The steps of main.
LEMMA SameMainStep == W!MainStep => WP!MainStep
<1>1. W!HandleRoot => WP!HandleRoot
  BY DEF W!HandleRoot, WP!HandleRoot, W!Dispatch, WP!Dispatch, W!Advance, WP!Advance,
         W!At, WP!At, W!Goto, WP!Goto, W!Child, WP!Child, W!Main, WP!Main,
         W!queue, WP!queue, W!boot, WP!boot
<1>2. W!RunSearch => WP!RunSearch
  BY DEF W!RunSearch, WP!RunSearch, W!At, WP!At, W!Goto, WP!Goto, W!Main, WP!Main,
         W!queue, WP!queue, W!boot, WP!boot, W!flags, WP!flags
<1>3. W!WalkAlone => WP!WalkAlone
  BY DEF W!WalkAlone, WP!WalkAlone, W!At, WP!At, W!Goto, WP!Goto, W!Main, WP!Main,
         W!queue, WP!queue, W!boot, WP!boot, W!flags, WP!flags
<1>4. W!StartSpawning => WP!StartSpawning
  BY DEF W!StartSpawning, WP!StartSpawning, W!At, WP!At, W!Goto, WP!Goto, W!Main, WP!Main,
         W!queue, WP!queue, W!flags, WP!flags
<1>5. W!SpawnHelper => WP!SpawnHelper
  BY DEF W!SpawnHelper, WP!SpawnHelper, W!At, WP!At, W!Main, WP!Main,
         W!queue, WP!queue, W!flags, WP!flags
<1>6. W!StopSpawning => WP!StopSpawning
  BY DEF W!StopSpawning, WP!StopSpawning, W!At, WP!At, W!Goto, WP!Goto, W!Main, WP!Main,
         W!queue, WP!queue, W!boot, WP!boot, W!flags, WP!flags
<1>7. W!JoinAndExit => WP!JoinAndExit
  BY DEF W!JoinAndExit, WP!JoinAndExit, W!At, WP!At, W!Goto, WP!Goto, W!Main, WP!Main,
         W!queue, WP!queue, W!flags, WP!flags, W!tids, WP!tids, W!ExitStatus, WP!ExitStatus
<1> QED
  BY <1>1, <1>2, <1>3, <1>4, <1>5, <1>6, <1>7 DEF W!MainStep, WP!MainStep

\* The steps a thread makes between two searches.
LEMMA SameWalkStep == ASSUME NEW w \in Worker, WalkStep(w) PROVE WP!Step(w)
<1> USE DEF W!At, WP!At, W!Goto, WP!Goto, W!Child, WP!Child, W!queue, WP!queue,
            W!boot, WP!boot, W!flags, WP!flags
<1>1. W!Open(w) => WP!Open(w)
  BY DEF W!Open, WP!Open
<1>2. W!ReadEntry(w) => WP!ReadEntry(w)
  BY DEF W!ReadEntry, WP!ReadEntry, W!Dispatch, WP!Dispatch, W!Advance, WP!Advance,
         W!EntryKind, WP!EntryKind
<1>3. W!EndOfDir(w) => WP!EndOfDir(w)
  BY DEF W!EndOfDir, WP!EndOfDir
<1>4. W!ArenaAlloc(w) => WP!ArenaAlloc(w)
  BY DEF W!ArenaAlloc, WP!ArenaAlloc, W!Advance, WP!Advance, W!Forget, WP!Forget
<1>5. W!LockDirq(w) => WP!LockDirq(w)
  BY DEF W!LockDirq, WP!LockDirq
<1>6. W!PushTop(w) => WP!PushTop(w)
  BY DEF W!PushTop, WP!PushTop, W!Forget, WP!Forget
<1>7. W!PushPending(w) => WP!PushPending(w)
  BY DEF W!PushPending, WP!PushPending
<1>8. W!PopTop(w) => WP!PopTop(w)
  BY DEF W!PopTop, WP!PopTop
<1>9. W!UnlockDirq(w) => WP!UnlockDirq(w)
  BY DEF W!UnlockDirq, WP!UnlockDirq, W!Advance, WP!Advance, W!Empty, WP!Empty, W!Main, WP!Main
<1>10. W!Peek(w) => WP!Peek(w)
  BY DEF W!Peek, WP!Peek
<1>11. W!TestPending(w) => WP!TestPending(w)
  BY DEF W!TestPending, WP!TestPending
<1>12. W!DecPending(w) => WP!DecPending(w)
  BY DEF W!DecPending, WP!DecPending, W!NextDir, WP!NextDir, W!Main, WP!Main
<1> QED
  BY <1>1, <1>2, <1>3, <1>4, <1>5, <1>6, <1>7, <1>8, <1>9, <1>10, <1>11, <1>12
     DEF WalkStep, WP!Step

\* The end of a search, and that of a thread.
LEMMA SameLastSteps ==
  ASSUME NEW w \in Worker
  PROVE  (W!SearchFile(w) => WP!SearchFile(w)) /\ (W!Flush(w) => WP!Flush(w))
<1>1. W!SearchFile(w) => WP!SearchFile(w)
  BY DEF W!SearchFile, WP!SearchFile, W!Advance, WP!Advance, W!At, WP!At, W!Goto, WP!Goto,
         W!Child, WP!Child, W!queue, WP!queue, W!boot, WP!boot
<1>2. W!Flush(w) => WP!Flush(w)
  BY DEF W!Flush, WP!Flush, W!At, WP!At, W!Goto, WP!Goto, W!Main, WP!Main,
         W!queue, WP!queue, W!boot, WP!boot, W!flags, WP!flags
<1> QED
  BY <1>1, <1>2

\* The steps of search_file, print_line and flush_out.
LEMMA SamePrinting ==
  ASSUME NEW w \in Worker
  PROVE  /\ O!Printing(w) => OP!Printing(w)
         /\ O!EndFile(w) => OP!EndFile(w)
         /\ O!FinalFlush(w) => OP!FinalFlush(w)
         /\ \A f \in Node : O!StartFile(w, f) => OP!StartFile(w, f)
<1> USE DEF O!OAt, OP!OAt, O!OGoto, OP!OGoto, O!buffers, OP!buffers, O!history, OP!history,
            O!Current, OP!Current
<1>1. O!PrintLine(w) => OP!PrintLine(w)
  BY DEF O!PrintLine, OP!PrintLine, O!Oversized, OP!Oversized
<1>2. O!AppendRaw(w) => OP!AppendRaw(w)
  BY DEF O!AppendRaw, OP!AppendRaw
<1>3. O!LockAcquire(w) => OP!LockAcquire(w)
  BY DEF O!LockAcquire, OP!LockAcquire
<1>4. O!FlushWrite(w) => OP!FlushWrite(w)
  BY DEF O!FlushWrite, OP!FlushWrite, O!SysWrite, OP!SysWrite
<1>5. O!FlushUnlock(w) => OP!FlushUnlock(w)
  BY DEF O!FlushUnlock, OP!FlushUnlock, O!Oversized, OP!Oversized
<1>6. O!WritePiece(w) => OP!WritePiece(w)
  BY DEF O!WritePiece, OP!WritePiece, O!SysWrite, OP!SysWrite, O!FirstPiece, OP!FirstPiece,
         O!LastPiece, OP!LastPiece
<1>7. O!StreamUnlock(w) => OP!StreamUnlock(w)
  BY DEF O!StreamUnlock, OP!StreamUnlock
<1>8. O!Printing(w) => OP!Printing(w)
  BY <1>1, <1>2, <1>3, <1>4, <1>5, <1>6, <1>7 DEF O!Printing, OP!Printing
<1>9. /\ O!EndFile(w) => OP!EndFile(w)
      /\ O!FinalFlush(w) => OP!FinalFlush(w)
  BY DEF O!EndFile, OP!EndFile, O!FinalFlush, OP!FinalFlush
<1>10. \A f \in Node : O!StartFile(w, f) => OP!StartFile(w, f)
  BY DEF O!StartFile, OP!StartFile
<1> QED
  BY <1>8, <1>9, <1>10

-----------------------------------------------------------------------------
(* The walk.                                                               *)

\* Nothing the walker sees.
LEMMA WalkUnseen == UNCHANGED walking => UNCHANGED W!vars /\ UNCHANGED WP!vars
  BY DEF walking, W!vars, W!queue, W!boot, W!flags, WP!vars, WP!queue, WP!boot, WP!flags

\* Every step of the program is a step of its walk, or none of the walker sees.
LEMMA StepWalks == [GNext]_gvars => [WP!Next]_(WP!vars)
<1> SUFFICES ASSUME [GNext]_gvars PROVE [WP!Next]_(WP!vars)
  OBVIOUS
<1>1. CASE MainStep
  BY <1>1, SameMainStep DEF MainStep, WP!Next
<1>2. ASSUME NEW w \in Worker, ThreadStep(w) PROVE [WP!Next]_(WP!vars)
  <2>1. w \in WP!Worker
    BY DEF Worker, WP!Worker
  <2>2. CASE WalkStep(w)
    BY <2>1, <2>2, SameWalkStep DEF WP!Next
  <2>3. CASE BeginSearch(w) \/ PrintSome(w) \/ BeginFlush(w)
    BY <2>3, WalkUnseen DEF BeginSearch, PrintSome, BeginFlush
  <2>4. CASE EndSearch(w) \/ EndFlush(w)
    <3>1. WP!SearchFile(w) \/ WP!Flush(w)
      BY <2>4, SameLastSteps DEF EndSearch, EndFlush
    <3>2. WP!Step(w)
      BY <3>1 DEF WP!Step
    <3> QED
      BY <2>1, <3>2 DEF WP!Next
  <2> QED
    BY <1>2, <2>2, <2>3, <2>4 DEF ThreadStep
<1>3. CASE UNCHANGED gvars
  BY <1>3, WalkUnseen DEF gvars
<1> QED
  BY <1>1, <1>2, <1>3 DEF GNext

\* The invariant of the walker holds of the whole program.
LEMMA WalkInvariant ==
  /\ GInit => WP!IInv
  /\ WP!IInv /\ [GNext]_gvars => WP!IInv'
<1>1. WP!Init => WP!IInv
  BY WalkAssumption, WP!InitIInv
<1>2. WP!IInv /\ [WP!Next]_(WP!vars) => WP!IInv'
  BY WalkAssumption, WP!NextIInv
<1> QED
  BY <1>1, <1>2, SameInit, StepWalks DEF GInit

\* What the walker steps outside search_file and flush_out leave alone.
LEMMA WalkStepFrame ==
  ASSUME WP!IInv, NEW w \in Worker, WalkStep(w)
  PROVE  /\ pc[w] \notin {"none", "search", "flush", "join", "exited"}
         /\ pc'[w] \notin {"none", "join", "exited"}
         /\ \A v \in Worker \ {w} : pc'[v] = pc[v] /\ todo'[v] = todo[v]
         /\ UNCHANGED <<walk_match, walk_error, status>>
<1>1. WP!TypeOK /\ w \in WP!Worker /\ Worker = WP!Worker
  BY DEF WP!IInv, Worker, WP!Worker
<1>2. \A v \in Worker \ {w} : pc'[v] = pc[v] /\ todo'[v] = todo[v]
  <2>1. WP!Step(w)
    BY SameWalkStep
  <2>2. WP!OthersStay(w)
    BY <1>1, <2>1, WalkAssumption, WP!StepFrame
  <2> QED
    BY <1>1, <2>2 DEF WP!OthersStay
<1>3. pc \in [Worker -> WP!PCs]
  BY <1>1 DEF WP!TypeOK
<1>4. /\ pc[w] \notin {"none", "search", "flush", "join", "exited"}
      /\ pc'[w] \notin {"none", "join", "exited"}
  BY <1>3 DEF WalkStep, W!Open, W!ReadEntry, W!EndOfDir, W!ArenaAlloc, W!LockDirq, W!PushTop,
         W!PushPending, W!PopTop, W!UnlockDirq, W!Peek, W!TestPending, W!DecPending,
         W!At, W!Goto, W!Dispatch, W!Advance, W!Empty, W!NextDir
<1>5. UNCHANGED <<walk_match, walk_error, status>>
  BY DEF WalkStep, W!Open, W!ReadEntry, W!EndOfDir, W!ArenaAlloc, W!LockDirq, W!PushTop,
         W!PushPending, W!PopTop, W!UnlockDirq, W!Peek, W!TestPending, W!DecPending,
         W!boot, W!flags
<1> QED
  BY <1>2, <1>4, <1>5

\* What main's own steps leave alone: the thread they move is not printing.
LEMMA MainStepFrame ==
  ASSUME WP!IInv, MainStep
  PROVE  /\ \A v \in Worker :
              \/ pc'[v] = pc[v] /\ todo'[v] = todo[v]
              \/ /\ pc[v] \notin {"search", "flush", "join", "exited"}
                 /\ pc'[v] \notin {"none", "join", "exited"}
              \/ pc[v] = "join" /\ pc'[v] = "exited"
         /\ walk_match' = walk_match /\ (walk_error => walk_error')
         /\ walk_error' /\ ~ walk_error => MissingRoot
         /\ status' = status \/ (pc'[0] = "exited" /\ status' = W!ExitStatus')
<1>1. /\ WP!TypeOK /\ WP!Shape /\ Worker = WP!Worker /\ 0 \in Worker
      /\ pc \in [Worker -> WP!PCs] /\ todo \in [Worker -> Seq(Node)]
  BY WalkAssumption DEF WP!IInv, Worker, WP!Worker, WP!TypeOK
<1> DEFINE G ==
      /\ \A v \in Worker :
              \/ pc'[v] = pc[v] /\ todo'[v] = todo[v]
              \/ /\ pc[v] \notin {"search", "flush", "join", "exited"}
                 /\ pc'[v] \notin {"none", "join", "exited"}
              \/ pc[v] = "join" /\ pc'[v] = "exited"
      /\ walk_match' = walk_match /\ (walk_error => walk_error')
      /\ walk_error' /\ ~ walk_error => MissingRoot
      /\ status' = status \/ (pc'[0] = "exited" /\ status' = W!ExitStatus')
<1>2. CASE W!HandleRoot
  BY <1>1, <1>2 DEF W!HandleRoot, W!Dispatch, W!Advance, W!At, W!Goto, W!Main, W!boot, MissingRoot
<1>3. CASE W!RunSearch \/ W!WalkAlone \/ W!StartSpawning \/ W!StopSpawning
  BY <1>1, <1>3 DEF W!RunSearch, W!WalkAlone, W!StartSpawning, W!StopSpawning, W!At, W!Goto,
         W!Main, W!boot, W!flags
<1>4. CASE W!SpawnHelper
  <2>1. helper \in Worker /\ helper \in WP!Helper /\ helper <= helper
    BY <1>1, <1>4, WalkAssumption
       DEF W!SpawnHelper, WP!TypeOK, Worker, WP!Worker, WP!Helper, WP!Main
  <2>2. pc[helper] = "none"
    BY <1>1, <2>1 DEF WP!Shape, WP!ShapeOf
  <2> QED
    BY <1>1, <1>4, <2>1, <2>2 DEF W!SpawnHelper, W!flags
<1>5. CASE W!JoinAndExit
  BY <1>1, <1>5 DEF W!JoinAndExit, W!At, W!Goto, W!Main, W!flags, W!ExitStatus
<1> QED
  BY <1>2, <1>3, <1>4, <1>5 DEF MainStep, W!MainStep

-----------------------------------------------------------------------------
(* The printing.                                                           *)

\* A thread in search_file has a path.
LEMMA SearchedPath ==
  ASSUME WP!IInv, NEW w \in Worker, W!At(w, "search")
  PROVE  W!Child(w) \in Node
<1>1. w \in WP!Worker /\ WP!TypeOK /\ WP!ShapeOf(w)
  BY DEF WP!IInv, WP!Shape, Worker, WP!Worker
<1>2. todo[w] # <<>>
  BY <1>1 DEF W!At, WP!ShapeOf, WP!Calling
<1>3. WP!Child(w) \in Node
  BY <1>1, <1>2, WalkAssumption, WP!ChildType
<1> QED
  BY <1>3 DEF W!Child, WP!Child

\* The invariant of the output path holds of the whole program.
LEMMA PrintInvariant ==
  /\ GInit => OP!OInv
  /\ WP!IInv /\ OP!OInv /\ [GNext]_gvars => OP!OInv'
<1>1. OP!OInit => OP!OInv
  BY WalkAssumption, PrintAssumption, OP!OInvInit
<1>2. OP!OInv /\ [OP!OMoves]_(OP!ovars) => OP!OInv'
  BY WalkAssumption, PrintAssumption, OP!OInvStep
<1>3. ASSUME OP!OInv, Unprinted, had_error' \in BOOLEAN PROVE OP!OInv'
  <2>1. UNCHANGED <<OP!buffers, out_lock, stdout, file, lines, opc, piece, match_found, OP!history>>
    BY <1>3 DEF Unprinted, OP!buffers, OP!history
  <2> QED
    BY <1>3, <2>1, WalkAssumption, PrintAssumption, OP!ErrorFrame
<1>4. ASSUME NEW w \in Worker, OP!OMove(w) PROVE OP!OMoves
  BY <1>4 DEF OP!OMoves
<1>5. ASSUME WP!IInv, OP!OInv, [GNext]_gvars PROVE OP!OInv'
  <2>1. CASE MainStep
    <3>1. Unprinted /\ had_error' \in BOOLEAN
      BY <1>5, <2>1 DEF MainStep, OP!OInv, OP!OIInv, OP!OSafe, OP!OTypeOK, MissingRoot, W!At
    <3> QED
      BY <1>3, <1>5, <3>1
  <2>2. ASSUME NEW w \in Worker, ThreadStep(w) PROVE OP!OInv'
    <3>1. CASE WalkStep(w)
      <4>1. Unprinted /\ had_error' \in BOOLEAN
        BY <1>5, <3>1 DEF WalkStep, OP!OInv, OP!OIInv, OP!OSafe, OP!OTypeOK
      <4> QED
        BY <1>3, <1>5, <4>1
    <3>2. CASE BeginSearch(w)
      <4>1. W!Child(w) \in Node
        BY <1>5, <3>2, SearchedPath DEF BeginSearch
      <4>2. OP!StartFile(w, W!Child(w))
        BY <3>2, <4>1, SamePrinting DEF BeginSearch
      <4> QED
        BY <1>2, <1>4, <1>5, <4>1, <4>2 DEF OP!OMove
    <3>3. CASE EndSearch(w) \/ PrintSome(w) \/ BeginFlush(w)
      <4>1. OP!EndFile(w) \/ OP!Printing(w) \/ OP!FinalFlush(w)
        BY <3>3, SamePrinting DEF EndSearch, PrintSome, BeginFlush
      <4> QED
        BY <1>2, <1>4, <1>5, <4>1 DEF OP!OMove
    <3>4. CASE EndFlush(w)
      <4>1. UNCHANGED OP!ovars
        BY <3>4 DEF EndFlush, printing, OP!ovars, OP!buffers, OP!history
      <4> QED
        BY <1>2, <1>5, <4>1
    <3> QED
      BY <2>2, <3>1, <3>2, <3>3, <3>4 DEF ThreadStep
  <2>3. CASE UNCHANGED gvars
    <3>1. UNCHANGED OP!ovars
      BY <2>3 DEF gvars, printing, OP!ovars, OP!buffers, OP!history
    <3> QED
      BY <1>2, <1>5, <3>1
  <2> QED
    BY <1>5, <2>1, <2>2, <2>3 DEF GNext
<1> QED
  BY <1>1, <1>5, SameInit DEF GInit
-----------------------------------------------------------------------------
(* The two together: Links.                                                *)

\* What the invariants of the two parts say of one thread.
LEMMA ThreadFacts ==
  ASSUME WP!IInv, OP!OInv, NEW w \in Worker
  PROVE  /\ pc \in [Worker -> WP!PCs] /\ todo \in [Worker -> Seq(Node)]
         /\ opc \in [Worker -> O!OPCs] /\ file \in [Worker -> Node \cup {NoNode}]
         /\ lines \in [Worker -> Seq(Line)] /\ outlen \in [Worker -> Nat]
         /\ outbuf \in [Worker -> Seq(Line)]
         /\ opc[w] = "idle" => file[w] = NoNode
         /\ file[w] = NoNode => lines[w] = <<>>
         /\ outlen[w] = 0 \/ opc[w] = "done" => outbuf[w] = <<>>
<1>1. WP!TypeOK /\ Worker = WP!Worker
  BY DEF WP!IInv, Worker, WP!Worker
<1>2. OP!OTypeOK /\ OP!OShapeOf(w) /\ OP!HeldBackOf(w)
  BY DEF OP!OInv, OP!OIInv, OP!OSafe, OP!OShape, OP!HeldBack
<1> QED
  BY <1>1, <1>2 DEF WP!TypeOK, OP!OTypeOK, OP!OPCs, O!OPCs, OP!OShapeOf, OP!HeldBackOf

\* A thread the walker has elsewhere prints nothing; once it has left, it has printed all.
LEMMA NotPrinting ==
  ASSUME WP!IInv, OP!OInv, NEW w \in Worker, LinkOf(w), pc[w] \notin {"search", "flush"}
  PROVE  /\ file[w] = NoNode /\ lines[w] = <<>>
         /\ opc[w] = IF pc[w] \in {"join", "exited"} THEN "done" ELSE "idle"
<1>1. file[w] = NoNode
  BY DEF LinkOf, W!At
<1>2. opc[w] \in {"idle", "done"}
  BY <1>1, ThreadFacts DEF LinkOf, O!OPCs, W!At
<1> QED
  BY <1>1, <1>2, ThreadFacts DEF LinkOf

\* A thread that does not move keeps its links.
LEMMA LinkFrame ==
  ASSUME NEW v \in Worker, LinkOf(v), MatchAheadOf(v),
         pc'[v] = pc[v], todo'[v] = todo[v], opc'[v] = opc[v], file'[v] = file[v],
         lines'[v] = lines[v], outlen'[v] = outlen[v], match_found => match_found'
  PROVE  LinkOf(v)' /\ MatchAheadOf(v)'
  BY DEF LinkOf, MatchAheadOf, W!At, W!Child, Prints

\* A thread that moves from one place of the walk to another has nothing to print.
LEMMA LinkElsewhere ==
  ASSUME WP!IInv, OP!OInv, NEW w \in Worker, LinkOf(w),
         \/ /\ pc[w] \notin {"search", "flush", "join", "exited"}
            /\ pc'[w] \notin {"none", "join", "exited"}
         \/ pc[w] = "join" /\ pc'[w] = "exited",
         opc'[w] = opc[w], file'[w] = file[w], lines'[w] = lines[w]
  PROVE  LinkOf(w)' /\ MatchAheadOf(w)'
<1>1. /\ file[w] = NoNode /\ lines[w] = <<>>
      /\ opc[w] = IF pc[w] = "join" THEN "done" ELSE "idle"
  BY NotPrinting
<1> QED
  BY <1>1 DEF LinkOf, MatchAheadOf, W!At

\* The flags stay ahead of the walker's while neither they nor the files move.
LEMMA AheadFrame ==
  ASSUME ErrorAhead, MatchAhead, UNCHANGED <<file, match_found, walk_match, had_error, walk_error>>
  PROVE  ErrorAhead' /\ MatchAhead'
  BY DEF ErrorAhead, MatchAhead, Searching, Prints

\* The parts of Links that change with the searches.
ThreadLinks ==
  /\ \A w \in Worker : LinkOf(w) /\ MatchAheadOf(w)
  /\ ErrorAhead /\ MatchAhead

\* main's own steps.
LEMMA MainLinks ==
  ASSUME WP!IInv, OP!OInv, ThreadLinks, MainStep
  PROVE  ThreadLinks'
<1>1. Unprinted /\ had_error' = (had_error \/ MissingRoot)
  BY DEF MainStep
<1>2. ASSUME NEW v \in Worker PROVE LinkOf(v)' /\ MatchAheadOf(v)'
  <2>1. LinkOf(v) /\ MatchAheadOf(v)
    BY DEF ThreadLinks
  <2>2. /\ opc'[v] = opc[v] /\ file'[v] = file[v] /\ lines'[v] = lines[v]
        /\ outlen'[v] = outlen[v] /\ match_found' = match_found
    BY <1>1 DEF Unprinted
  <2>3. \/ pc'[v] = pc[v] /\ todo'[v] = todo[v]
        \/ /\ pc[v] \notin {"search", "flush", "join", "exited"}
           /\ pc'[v] \notin {"none", "join", "exited"}
        \/ pc[v] = "join" /\ pc'[v] = "exited"
    BY MainStepFrame
  <2> QED
    BY <2>1, <2>2, <2>3, LinkFrame, LinkElsewhere
<1>3. ErrorAhead' /\ MatchAhead'
  <2>1. walk_match' = walk_match /\ (walk_error => walk_error')
    BY MainStepFrame
  <2>2. walk_error' /\ ~ walk_error <=> MissingRoot
    BY MainStepFrame DEF MissingRoot
  <2>3. file' = file /\ match_found' = match_found
    BY <1>1 DEF Unprinted
  <2>4. ErrorAhead /\ MatchAhead
    BY DEF ThreadLinks
  <2> QED
    BY <1>1, <2>1, <2>2, <2>3, <2>4 DEF ErrorAhead, MatchAhead, Searching, Prints
<1> QED
  BY <1>2, <1>3 DEF ThreadLinks

\* The steps of a thread between two searches.
LEMMA WalkLinks ==
  ASSUME WP!IInv, OP!OInv, ThreadLinks, NEW w \in Worker, WalkStep(w)
  PROVE  ThreadLinks'
<1>1. Unprinted /\ had_error' = had_error
  BY DEF WalkStep
<1>2. ASSUME NEW v \in Worker PROVE LinkOf(v)' /\ MatchAheadOf(v)'
  <2>1. LinkOf(v) /\ MatchAheadOf(v)
    BY DEF ThreadLinks
  <2>2. /\ opc'[v] = opc[v] /\ file'[v] = file[v] /\ lines'[v] = lines[v]
        /\ outlen'[v] = outlen[v] /\ match_found' = match_found
    BY <1>1 DEF Unprinted
  <2> QED
    BY <2>1, <2>2, WalkStepFrame, LinkFrame, LinkElsewhere
<1>3. ErrorAhead' /\ MatchAhead'
  <2>1. UNCHANGED <<file, match_found, walk_match, had_error, walk_error>>
    BY <1>1, WalkStepFrame DEF Unprinted
  <2> QED
    BY <2>1, AheadFrame DEF ThreadLinks
<1> QED
  BY <1>2, <1>3 DEF ThreadLinks

\* A search begins: had_error is set before the walker knows.
LEMMA BeginLinks ==
  ASSUME WP!IInv, OP!OInv, ThreadLinks, NEW w \in Worker, BeginSearch(w)
  PROVE  ThreadLinks'
<1> DEFINE f == W!Child(w)
<1>1. /\ f \in Node /\ f # NoNode /\ f' = f
      /\ opc[w] = "idle" /\ file[w] = NoNode /\ pc[w] = "search"
  BY SearchedPath, ThreadFacts, WalkAssumption
     DEF BeginSearch, O!StartFile, O!OAt, W!At, W!Child, walking
<1>2. /\ file' = [file EXCEPT ![w] = f]
      /\ had_error' = (had_error \/ f \in Unreadable)
      /\ lines' = [lines EXCEPT ![w] = IF f \in Unreadable THEN <<>> ELSE LinesOf[f]]
      /\ opc' = [opc EXCEPT ![w] = "lines"]
      /\ UNCHANGED <<outbuf, outlen, match_found>> /\ UNCHANGED walking
  BY DEF BeginSearch, O!StartFile, O!OGoto, O!buffers
<1>3. UNCHANGED <<pc, todo, walk_match, walk_error>>
  BY <1>2 DEF walking
<1>4. /\ file'[w] = f /\ opc'[w] = "lines"
      /\ lines'[w] = IF f \in Unreadable THEN <<>> ELSE LinesOf[f]
      /\ \A v \in Worker \ {w} : /\ file'[v] = file[v] /\ opc'[v] = opc[v] /\ lines'[v] = lines[v]
  <2> HIDE DEF f
  <2> QED
    BY <1>2, ThreadFacts
<1>5. ASSUME NEW v \in Worker \ {w} PROVE LinkOf(v)' /\ MatchAheadOf(v)'
  BY <1>2, <1>3, <1>4, LinkFrame DEF ThreadLinks
<1>6. LinkOf(w)' /\ MatchAheadOf(w)'
  BY <1>1, <1>3, <1>4 DEF LinkOf, MatchAheadOf, W!At, Prints, W!Child
<1>7. \A g \in Node : Searching(g)' <=> Searching(g) \/ g = f
  <2> HIDE DEF f
  <2> QED
    BY <1>1, <1>4, WalkAssumption DEF Searching
<1>8. ErrorAhead' /\ MatchAhead'
  <2> HIDE DEF f
  <2> QED
    BY <1>1, <1>2, <1>3, <1>7 DEF ThreadLinks, ErrorAhead, MatchAhead, Prints
<1> QED
  BY <1>5, <1>6, <1>8 DEF ThreadLinks

\* A search ends: the walker learns what the flags have said for a while.
LEMMA EndLinks ==
  ASSUME WP!IInv, OP!OInv, ThreadLinks, NEW w \in Worker, EndSearch(w)
  PROVE  ThreadLinks'
<1> DEFINE f == file[w]
<1>1. /\ f \in Node /\ f = W!Child(w) /\ f # NoNode
      /\ opc[w] = "lines" /\ lines[w] = <<>> /\ pc[w] = "search"
  BY ThreadFacts DEF EndSearch, O!EndFile, O!OAt, ThreadLinks, LinkOf, W!At
<1>2. /\ file' = [file EXCEPT ![w] = NoNode] /\ opc' = [opc EXCEPT ![w] = "idle"]
      /\ UNCHANGED <<outlen, lines, match_found, had_error>>
      /\ walk_error' = (walk_error \/ f \in Unreadable)
      /\ walk_match' = (walk_match \/ Prints(f))
      /\ pc' = [pc EXCEPT ![w] = IF cur[w] = NoNode THEN "root" ELSE "entry"]
      /\ todo' = [todo EXCEPT ![w] = Tail(@)]
  BY <1>1 DEF EndSearch, O!EndFile, O!OGoto, O!buffers, W!SearchFile, W!Advance, W!Goto, Prints
<1>4. /\ file'[w] = NoNode /\ opc'[w] = "idle" /\ lines'[w] = <<>>
      /\ pc'[w] \in {"root", "entry"}
      /\ \A v \in Worker \ {w} : /\ file'[v] = file[v] /\ opc'[v] = opc[v] /\ lines'[v] = lines[v]
                                 /\ pc'[v] = pc[v] /\ todo'[v] = todo[v]
  BY <1>1, <1>2, ThreadFacts
<1>5. ASSUME NEW v \in Worker \ {w} PROVE LinkOf(v)' /\ MatchAheadOf(v)'
  BY <1>2, <1>4, LinkFrame DEF ThreadLinks
<1>6. LinkOf(w)' /\ MatchAheadOf(w)'
  BY <1>4 DEF LinkOf, MatchAheadOf, W!At
<1>7. \A g \in Node : /\ Searching(g)' => Searching(g)
                      /\ Searching(g) => Searching(g)' \/ g = f
  BY <1>1, <1>4, WalkAssumption DEF Searching
<1>8. Prints(f) => match_found
  BY <1>1 DEF ThreadLinks, MatchAheadOf
<1>9. Searching(f)
  BY DEF Searching
<1>10. ErrorAhead' /\ MatchAhead'
  <2>1. ErrorAhead'
    <3> HIDE DEF f
    <3> QED
      BY <1>1, <1>2, <1>7, <1>9 DEF ThreadLinks, ErrorAhead
  <2>2. \A g \in Node : Prints(g)' <=> Prints(g)
    BY DEF Prints
  <2>3. MatchAhead'
    <3> HIDE DEF f
    <3> QED
      BY <1>1, <1>2, <1>7, <1>8, <2>2 DEF ThreadLinks, MatchAhead
  <2> QED
    BY <2>1, <2>3
<1> QED
  BY <1>5, <1>6, <1>10 DEF ThreadLinks
\* What a step of print_line or flush_out does with the thread's own file.
LEMMA PrintFrame ==
  ASSUME WP!IInv, OP!OInv, NEW w \in Worker, O!Printing(w)
  PROVE  /\ \A v \in Worker \ {w} :
              opc'[v] = opc[v] /\ lines'[v] = lines[v] /\ outlen'[v] = outlen[v]
         /\ UNCHANGED <<file, had_error>> /\ opc[w] \notin {"idle", "done"}
         /\ \/ /\ opc[w] = "lines" /\ lines[w] # <<>> /\ match_found' = TRUE
               /\ UNCHANGED <<lines, outlen>>
               /\ opc'[w] \in {"stream", "flush_lock", "append"}
            \/ /\ opc[w] \in {"append", "end"} /\ match_found' = match_found
               /\ opc'[w] = "lines" /\ lines'[w] = Tail(lines[w])
            \/ /\ opc[w] = "flush_unlock" /\ UNCHANGED <<match_found, lines>>
               /\ outlen'[w] = 0
               /\ \/ file[w] = NoNode /\ opc'[w] = "done"
                  \/ file[w] # NoNode /\ opc'[w] \in {"stream", "append"}
            \/ /\ opc[w] \in {"flush_lock", "flush_write"} /\ UNCHANGED <<match_found, lines, outlen>>
               /\ opc'[w] \in {"flush_write", "flush_unlock"}
            \/ /\ opc[w] \in {"stream", "pieces"} /\ UNCHANGED <<match_found, lines, outlen>>
               /\ opc'[w] \in {"pieces", "end"}
<1>0. /\ opc \in [Worker -> O!OPCs] /\ lines \in [Worker -> Seq(Line)]
      /\ outlen \in [Worker -> Nat]
  BY ThreadFacts
<1> USE <1>0 DEF O!OAt, O!OGoto, O!buffers, O!history
<1>1. CASE O!PrintLine(w)
  BY <1>1 DEF O!PrintLine
<1>2. CASE O!AppendRaw(w)
  BY <1>2 DEF O!AppendRaw
<1>3. CASE O!LockAcquire(w)
  BY <1>3 DEF O!LockAcquire
<1>4. CASE O!FlushWrite(w)
  BY <1>4 DEF O!FlushWrite
<1>5. CASE O!FlushUnlock(w)
  BY <1>5 DEF O!FlushUnlock
<1>6. CASE O!WritePiece(w)
  BY <1>6 DEF O!WritePiece
<1>7. CASE O!StreamUnlock(w)
  BY <1>7 DEF O!StreamUnlock
<1> QED
  BY <1>1, <1>2, <1>3, <1>4, <1>5, <1>6, <1>7 DEF O!Printing

\* A thread prints: match_found is set before the walker knows.
LEMMA PrintLinks ==
  ASSUME WP!IInv, OP!OInv, ThreadLinks, NEW w \in Worker, PrintSome(w)
  PROVE  ThreadLinks'
<1>0. LinkOf(w) /\ MatchAheadOf(w) /\ O!Printing(w)
  BY DEF PrintSome, ThreadLinks
<1>1. UNCHANGED <<pc, todo, walk_match, walk_error>>
  BY DEF PrintSome, walking
<1>2. UNCHANGED <<file, had_error>> /\ opc[w] \notin {"idle", "done"}
  BY <1>0, PrintFrame
<1>3. match_found' = match_found
      \/ (match_found' = TRUE /\ opc[w] = "lines" /\ lines[w] # <<>>)
  BY <1>0, PrintFrame
<1>4. ASSUME NEW v \in Worker \ {w} PROVE LinkOf(v)' /\ MatchAheadOf(v)'
  <2>1. opc'[v] = opc[v] /\ lines'[v] = lines[v] /\ outlen'[v] = outlen[v]
    BY <1>0, PrintFrame
  <2>2. LinkOf(v) /\ MatchAheadOf(v) /\ file'[v] = file[v] /\ pc'[v] = pc[v] /\ todo'[v] = todo[v]
    BY <1>1, <1>2 DEF ThreadLinks
  <2>3. match_found => match_found'
    BY <1>3
  <2> QED
    BY <2>1, <2>2, <2>3, LinkFrame
<1>5. LinkOf(w)'
  <2>1. CASE file[w] # NoNode
    <3>1. pc[w] = "search" /\ file'[w] # NoNode /\ file'[w] = W!Child(w)' /\ pc'[w] = "search"
      BY <1>0, <1>1, <1>2, <2>1 DEF LinkOf, W!At, W!Child
    <3>2. opc'[w] # "done"
      BY <1>0, <2>1, PrintFrame
    <3> QED
      BY <3>1, <3>2 DEF LinkOf, W!At
  <2>2. CASE file[w] = NoNode
    <3>1. opc[w] \in {"flush_lock", "flush_write", "flush_unlock"} /\ pc[w] = "flush"
      BY <1>0, <1>2, <2>2, ThreadFacts DEF LinkOf, O!OPCs, W!At
    <3>2. opc'[w] \in {"flush_lock", "flush_write", "flush_unlock", "done"}
      BY <1>0, <2>2, <3>1, PrintFrame
    <3> QED
      BY <1>1, <1>2, <2>2, <3>1, <3>2 DEF LinkOf, W!At
  <2> QED
    BY <2>1, <2>2
<1>6. MatchAheadOf(w)'
  <2>1. lines'[w] # <<>> => lines[w] # <<>>
    <3>1. lines'[w] = lines[w] \/ lines'[w] = Tail(lines[w])
      BY <1>0, PrintFrame
    <3>2. opc[w] \in {"append", "end"} => lines[w] # <<>>
      BY DEF OP!OInv, OP!OIInv, OP!OSafe, OP!OShape, OP!OShapeOf
    <3> QED
      BY <1>0, <3>1, <3>2, PrintFrame
  <2>2. file[w] # NoNode /\ Prints(file[w]) => match_found'
    BY <1>0, <1>3, PrintFrame DEF MatchAheadOf
  <2> QED
    BY <1>0, <1>2, <2>1, <2>2 DEF MatchAheadOf, Prints
<1>7. ErrorAhead'
  BY <1>1, <1>2 DEF ThreadLinks, ErrorAhead, Searching
<1>8. MatchAhead'
  <2>1. opc[w] = "lines" /\ lines[w] # <<>> =>
          Searching(file[w]) /\ Prints(file[w]) /\ file[w] \in Node
    BY <1>0, ThreadFacts DEF MatchAheadOf, Searching
  <2> QED
    BY <1>1, <1>2, <1>3, <2>1 DEF ThreadLinks, MatchAhead, Searching, Prints
<1> QED
  BY <1>4, <1>5, <1>6, <1>7, <1>8 DEF ThreadLinks

\* The last flush begins and ends.
LEMMA FlushLinks ==
  ASSUME WP!IInv, OP!OInv, ThreadLinks, NEW w \in Worker, BeginFlush(w) \/ EndFlush(w)
  PROVE  ThreadLinks'
<1>1. UNCHANGED <<todo, file, lines, outlen, match_found, walk_match, had_error, walk_error>>
  BY DEF BeginFlush, EndFlush, O!FinalFlush, O!buffers, W!Flush, W!flags, walking, printing
<1>2. LinkOf(w) /\ MatchAheadOf(w) /\ pc[w] = "flush" /\ file[w] = NoNode /\ lines[w] = <<>>
  BY ThreadFacts DEF ThreadLinks, LinkOf, BeginFlush, EndFlush, W!Flush, W!At
<1>3. /\ \A v \in Worker \ {w} : opc'[v] = opc[v] /\ pc'[v] = pc[v]
      /\ \/ pc'[w] = "flush" /\ opc'[w] \in {"done", "flush_lock"}
         \/ pc'[w] \in {"join", "exited"} /\ opc'[w] = "done"
  BY <1>2, ThreadFacts DEF BeginFlush, EndFlush, O!FinalFlush, O!OGoto, O!OAt, W!Flush, W!Goto,
     walking, printing
<1>4. ASSUME NEW v \in Worker \ {w} PROVE LinkOf(v)' /\ MatchAheadOf(v)'
  BY <1>1, <1>3, LinkFrame DEF ThreadLinks
<1>5. LinkOf(w)' /\ MatchAheadOf(w)'
  BY <1>1, <1>2, <1>3 DEF LinkOf, MatchAheadOf, W!At
<1>6. ErrorAhead' /\ MatchAhead'
  BY <1>1, AheadFrame DEF ThreadLinks
<1> QED
  BY <1>4, <1>5, <1>6 DEF ThreadLinks

\* Every step keeps the links of the threads.
LEMMA ThreadLinksStep == WP!IInv /\ OP!OInv /\ ThreadLinks /\ [GNext]_gvars => ThreadLinks'
<1> SUFFICES ASSUME WP!IInv, OP!OInv, ThreadLinks, [GNext]_gvars PROVE ThreadLinks'
  OBVIOUS
<1>1. ASSUME NEW w \in Worker, ThreadStep(w) PROVE ThreadLinks'
  BY <1>1, WalkLinks, BeginLinks, EndLinks, PrintLinks, FlushLinks DEF ThreadStep
<1>2. CASE UNCHANGED gvars
  <2>1. UNCHANGED <<pc, todo, opc, file, lines, outlen, match_found, walk_match, had_error, walk_error>>
    BY <1>2 DEF gvars, walking, printing
  <2>2. \A v \in Worker : LinkOf(v)' /\ MatchAheadOf(v)'
    BY <2>1, LinkFrame DEF ThreadLinks
  <2> QED
    BY <2>1, <2>2, AheadFrame DEF ThreadLinks
<1> QED
  BY <1>1, <1>2, MainLinks DEF GNext

\* When main has picked the status no flag changes, and main does nothing more.
LEMMA StatusLinkStep ==
  WP!IInv /\ OP!OInv /\ ThreadLinks /\ StatusLink /\ [GNext]_gvars => StatusLink'
<1> SUFFICES ASSUME WP!IInv, OP!OInv, ThreadLinks, StatusLink, [GNext]_gvars PROVE StatusLink'
  OBVIOUS
<1>0. 0 \in Worker
  BY WalkAssumption DEF Worker
<1>1. CASE status # -1
  <2>1. pc[0] = "exited" /\ status = W!ExitStatus
    BY <1>1 DEF StatusLink, W!At, W!Main
  <2>2. UNCHANGED <<walk_match, walk_error>>
    <3>1. WP!Quiet
      BY <1>0, <2>1 DEF WP!IInv, WP!NoEarlyExit, WP!LeftLoop, Worker, WP!Worker
    <3>2. WP!Quiet /\ WP!IInv /\ [WP!Next]_(WP!vars) => UNCHANGED WP!flags
      BY WalkAssumption, WP!QuietStable
    <3> QED
      BY <3>1, <3>2, StepWalks DEF WP!flags
  <2>3. ~ MainStep
    BY <2>1 DEF MainStep, W!MainStep, W!HandleRoot, W!RunSearch, W!WalkAlone, W!StartSpawning,
       W!SpawnHelper, W!StopSpawning, W!JoinAndExit, W!At, W!Main
  <2>4. pc'[0] = pc[0] /\ status' = status
    <3>1. ASSUME NEW w \in Worker, WalkStep(w) PROVE pc'[0] = pc[0] /\ status' = status
      BY <1>0, <2>1, <3>1, WalkStepFrame
    <3>2. ASSUME NEW w \in Worker, EndSearch(w) PROVE pc'[0] = pc[0] /\ status' = status
      <4>1. pc[w] = "search" /\ status' = status /\ \E l : pc' = [pc EXCEPT ![w] = l]
        BY <3>2 DEF EndSearch, W!SearchFile, W!Advance, W!Goto, W!At, W!boot
      <4> QED
        BY <1>0, <2>1, <4>1, ThreadFacts
    <3>3. ASSUME NEW w \in Worker, EndFlush(w) PROVE pc'[0] = pc[0] /\ status' = status
      <4>1. pc[w] = "flush" /\ status' = status /\ \E l : pc' = [pc EXCEPT ![w] = l]
        BY <3>3 DEF EndFlush, W!Flush, W!Goto, W!At, W!boot
      <4> QED
        BY <1>0, <2>1, <4>1, ThreadFacts
    <3>4. UNCHANGED walking => pc'[0] = pc[0] /\ status' = status
      BY DEF walking
    <3> QED
      BY <2>3, <3>1, <3>2, <3>3, <3>4
         DEF GNext, ThreadStep, BeginSearch, PrintSome, BeginFlush, gvars
  <2> QED
    BY <2>1, <2>2, <2>4 DEF StatusLink, W!At, W!Main, W!ExitStatus
<1>2. CASE status = -1
  <2>1. CASE MainStep
    <3>1. status' = status \/ (pc'[0] = "exited" /\ status' = W!ExitStatus')
      BY <2>1, MainStepFrame
    <3> QED
      BY <1>2, <3>1 DEF StatusLink, W!At, W!Main
  <2>2. CASE ~ MainStep
    <3>1. ASSUME NEW w \in Worker, ThreadStep(w) PROVE status' = status
      <4>1. WalkStep(w) => status' = status
        BY WalkStepFrame
      <4>2. EndSearch(w) \/ EndFlush(w) => status' = status
        BY DEF EndSearch, EndFlush, W!SearchFile, W!Flush, W!boot
      <4>3. UNCHANGED walking => status' = status
        BY DEF walking
      <4> QED
        BY <3>1, <4>1, <4>2, <4>3 DEF ThreadStep, BeginSearch, PrintSome, BeginFlush
    <3>2. status' = status
      BY <2>2, <3>1 DEF GNext, gvars, walking
    <3> QED
      BY <1>2, <3>2 DEF StatusLink
  <2> QED
    BY <2>1, <2>2
<1> QED
  BY <1>1, <1>2
-----------------------------------------------------------------------------
(* The theorems.                                                           *)

\* At the start nobody searches, and main has picked no status.
LEMMA InitLinks == GInit => Links
<1> SUFFICES ASSUME GInit PROVE Links
  OBVIOUS
<1>1. /\ \A w \in Worker : /\ pc[w] \in {"root", "none"} /\ opc[w] = "idle" /\ file[w] = NoNode
                           /\ lines[w] = <<>> /\ outlen[w] = 0
      /\ ~ walk_match /\ ~ walk_error /\ ~ match_found /\ ~ had_error /\ status = -1
  BY DEF GInit, W!Init, O!OInit, W!Worker, Worker
<1>2. \A w \in Worker : LinkOf(w) /\ MatchAheadOf(w)
  BY <1>1 DEF LinkOf, MatchAheadOf, W!At
<1>3. ErrorAhead /\ MatchAhead /\ StatusLink
  BY <1>1, WalkAssumption DEF ErrorAhead, MatchAhead, StatusLink, Searching
<1> QED
  BY <1>2, <1>3 DEF Links

\* The invariants of the two parts and what links them, under the names they are proved by.
Whole == WP!IInv /\ OP!OInv /\ Links

LEMMA WholeInvariant == GSpec => []Whole
<1>1. GInit => Whole
  BY WalkInvariant, PrintInvariant, InitLinks DEF Whole
<1>2. Whole /\ [GNext]_gvars => Whole'
  BY WalkInvariant, PrintInvariant, ThreadLinksStep, StatusLinkStep DEF Whole, Links, ThreadLinks
<1> QED
  BY <1>1, <1>2, PTL DEF GSpec

-----------------------------------------------------------------------------
(* What is found and what is visited.                                      *)

\* A cardinality grows by one with an element, and a line is there once.
LEMMA OneLonger ==
  ASSUME NEW T, NEW x, IsFiniteSet(T), x \notin T
  PROVE  Cardinality(T \cup {x}) = Cardinality(T) + 1 /\ Cardinality(T) \in Nat
  BY FS_AddElement, FS_CardinalityType

\* The threads that search f are finitely many.
LEMMA InSearchFinite == IsFiniteSet(Worker) /\ \A f : IsFiniteSet(InSearch(f))
<1>1. IsFiniteSet(Worker)
  <2>1. NThreads - 1 \in Int /\ 0 \in Int
    BY WalkAssumption
  <2>2. IsFiniteSet(0 .. NThreads - 1)
    BY <2>1, FS_Interval
  <2> QED
    BY <2>2 DEF Worker
<1>2. \A f : InSearch(f) \subseteq Worker
  BY DEF InSearch
<1> QED
  BY <1>1, <1>2, FS_Subset

\* A place of a file holds a line no other place and no other file has.
LEMMA LineOnce ==
  ASSUME NEW f \in Node, NEW i \in DOMAIN LinesOf[f], NEW g \in Node
  PROVE  Times(LinesOf[f][i], LinesOf[g]) = IF f = g THEN 1 ELSE 0
<1>1. \A j \in DOMAIN LinesOf[g] : LinesOf[g][j] = LinesOf[f][i] <=> f = g /\ i = j
  BY LineAssumption
<1>2. CASE f = g
  <2>1. Places(LinesOf[f][i], LinesOf[g]) = {i}
    BY <1>1, <1>2 DEF Places
  <2> QED
    BY <1>2, <2>1, FS_Singleton DEF Times
<1>3. CASE f # g
  <2>1. Places(LinesOf[f][i], LinesOf[g]) = {}
    BY <1>1, <1>3 DEF Places
  <2> QED
    BY <1>3, <2>1, FS_EmptySet DEF Times
<1> QED
  BY <1>2, <1>3

\* Between two searches only directories are visited, and they have no lines.
LEMMA WalkVisits ==
  ASSUME WP!RInv, MainStep \/ (\E w \in Worker : WalkStep(w)),
         NEW f \in Node, LinesOf[f] # <<>>
  PROVE  visited'[f] = visited[f]
<1>1. CASE MainStep
  BY <1>1 DEF MainStep, W!MainStep, W!HandleRoot, W!RunSearch, W!WalkAlone, W!StartSpawning,
     W!SpawnHelper, W!StopSpawning, W!JoinAndExit
<1>2. ASSUME NEW w \in Worker, WalkStep(w) PROVE visited'[f] = visited[f]
  <2>1. CASE W!Open(w)
    <3>1. visited' = [visited EXCEPT ![cur[w]] = @ + 1]
      BY <2>1 DEF W!Open
    <3>2. visited \in [Node -> Nat] /\ WP!HandOf(w)
      BY DEF WP!RInv, WP!IInv, WP!TypeOK, WP!Hands, Worker, WP!Worker
    <3>3. cur[w] # NoNode => cur[w] # f
      BY <3>2, LineAssumption DEF WP!HandOf, WP!Kind
    <3>4. cur[w] # f
      BY <3>3, WalkAssumption
    <3> QED
      BY <3>1, <3>2, <3>4
  <2>2. CASE ~ W!Open(w)
    BY <1>2, <2>2 DEF WalkStep, W!ReadEntry, W!EndOfDir, W!ArenaAlloc, W!LockDirq, W!PushTop,
       W!PushPending, W!PopTop, W!UnlockDirq, W!Peek, W!TestPending, W!DecPending, W!Forget
  <2> QED
    BY <2>1, <2>2
<1> QED
  BY <1>1, <1>2

\* The account of found lines stands while no search begins or ends.
LEMMA FoundFrame ==
  ASSUME FoundVisited, UNCHANGED <<found, file>>,
         \A f \in Node : LinesOf[f] # <<>> => visited'[f] = visited[f]
  PROVE  FoundVisited'
<1> SUFFICES ASSUME NEW f \in Node, NEW i \in DOMAIN LinesOf[f]
             PROVE  Among(LinesOf[f][i], found')
                      = IF f \in Unreadable THEN 0 ELSE visited'[f] + Cardinality(InSearch(f)')
  BY DEF FoundVisited
<1>1. LinesOf[f] # <<>>
  OBVIOUS
<1>2. InSearch(f)' = InSearch(f) /\ visited'[f] = visited[f]
  BY <1>1 DEF InSearch
<1> QED
  BY <1>2 DEF FoundVisited

\* A search that begins finds the lines of the file, and is one more search of it.
LEMMA BeginFound ==
  ASSUME WP!IInv, OP!OInv, FoundVisited, NEW w \in Worker, BeginSearch(w)
  PROVE  FoundVisited'
<1>1. PICK g \in Node : g = W!Child(w)
  BY SearchedPath DEF BeginSearch
<1>2. opc[w] = "idle" /\ file[w] = NoNode /\ g # NoNode
  BY <1>1, ThreadFacts, WalkAssumption DEF BeginSearch, O!StartFile, O!OAt
<1>3. PICK ls \in Seq(Line) : ls = IF g \in Unreadable THEN <<>> ELSE LinesOf[g]
  <2>1. LinesOf[g] \in Seq(Line) /\ <<>> \in Seq(Line)
    BY PrintAssumption
  <2> QED
    BY <2>1
<1>4. /\ file' = [file EXCEPT ![w] = g] /\ visited' = visited
      /\ found' = [found EXCEPT ![w] = found[w] \o ls]
  BY <1>1, <1>3 DEF BeginSearch, O!StartFile, walking
<1>5. file \in [Worker -> Node \cup {NoNode}] /\ found \in [Worker -> Seq(Line)]
  BY DEF OP!OInv, OP!OIInv, OP!OSafe, OP!OTypeOK
<1> SUFFICES ASSUME NEW f \in Node, NEW i \in DOMAIN LinesOf[f]
             PROVE  Among(LinesOf[f][i], found')
                      = IF f \in Unreadable THEN 0 ELSE visited'[f] + Cardinality(InSearch(f)')
  BY DEF FoundVisited
<1>6. PICK l : l = LinesOf[f][i]
  OBVIOUS
<1>7. PICK uu \in [Worker -> Seq(Line)] :
        uu = found' /\ uu[w] = found[w] \o ls /\ AlikeBut(found, uu, Worker, w)
  <2>1. found[w] \o ls \in Seq(Line)
    BY <1>5, ConcatProperties
  <2> QED
    BY <1>4, <1>5, <2>1 DEF AlikeBut
<1>8. Among(l, uu) + Times(l, found[w]) = Among(l, found) + Times(l, uu[w])
  <2>1. IsFiniteSet(Worker) /\ SeqFamily(uu, Worker, Line)
    BY InSearchFinite DEF SeqFamily
  <2>2. PICK ss : ss = found /\ SeqFamily(ss, Worker, Line) /\ AlikeBut(ss, uu, Worker, w)
    BY <1>5, <1>7 DEF SeqFamily
  <2>3. Among(l, uu) + Times(l, ss[w]) = Among(l, ss) + Times(l, uu[w])
    BY <2>1, <2>2, AmongChange
  <2> QED
    BY <2>2, <2>3
<1>9. Times(l, uu[w]) = Times(l, found[w]) + Times(l, ls)
  BY <1>5, <1>7, TimesConcat
<1>10. /\ Among(l, found) \in Nat /\ Among(l, uu) \in Nat
       /\ Times(l, found[w]) \in Nat /\ Times(l, ls) \in Nat
  <2>1. found[w] \in Seq(Line) /\ IsFiniteSet(Worker)
    BY <1>5, InSearchFinite
  <2> QED
    BY <1>5, <2>1, AmongType, TimesType
<1>11. Among(l, uu) = Among(l, found) + Times(l, ls)
  <2>1. PICK a \in Nat, b \in Nat, c \in Nat, d \in Nat :
           a = Among(l, found) /\ b = Among(l, uu) /\ c = Times(l, found[w]) /\ d = Times(l, ls)
    BY <1>10
  <2>2. b + c = a + (c + d) => b = a + d
    OBVIOUS
  <2> QED
    BY <1>8, <1>9, <2>1, <2>2
<1>12. Times(l, ls) = IF g \in Unreadable \/ f # g THEN 0 ELSE 1
  <2>1. CASE g \in Unreadable
    BY <1>3, <2>1, TimesEmpty, FS_EmptySet DEF Times
  <2>2. CASE g \notin Unreadable
    BY <1>3, <1>6, <2>2, LineOnce
  <2> QED
    BY <2>1, <2>2
<1>13. Among(l, found) = IF f \in Unreadable THEN 0 ELSE visited[f] + Cardinality(InSearch(f))
  BY <1>6 DEF FoundVisited
<1>14. CASE f = g
  <2>1. InSearch(f)' = InSearch(f) \cup {w} /\ w \notin InSearch(f)
    BY <1>2, <1>4, <1>5, <1>14 DEF InSearch
  <2>2. /\ Cardinality(InSearch(f)') = Cardinality(InSearch(f)) + 1
        /\ Cardinality(InSearch(f)) \in Nat
    <3>1. PICK T : T = InSearch(f) /\ IsFiniteSet(T)
      BY InSearchFinite
    <3> QED
      BY <2>1, <3>1, OneLonger
  <2>3. visited[f] \in Nat
    BY DEF WP!IInv, WP!TypeOK
  <2>4. Among(l, uu) = IF f \in Unreadable THEN 0 ELSE visited[f] + Cardinality(InSearch(f)')
    <3>1. CASE f \in Unreadable
      BY <1>11, <1>12, <1>13, <1>14, <3>1
    <3>2. CASE f \notin Unreadable
      <4>1. Times(l, ls) = 1 /\ Among(l, found) = visited[f] + Cardinality(InSearch(f))
        BY <1>12, <1>13, <1>14, <3>2
      <4>2. PICK v \in Nat, c \in Nat : v = visited[f] /\ c = Cardinality(InSearch(f))
        BY <2>2, <2>3
      <4>3. Among(l, uu) = (v + c) + 1 /\ Cardinality(InSearch(f)') = c + 1
        BY <1>11, <2>2, <4>1, <4>2
      <4>4. (v + c) + 1 = v + (c + 1)
        OBVIOUS
      <4> QED
        BY <3>2, <4>2, <4>3, <4>4
    <3> QED
      BY <3>1, <3>2
  <2> QED
    BY <1>4, <1>6, <1>7, <2>4
<1>15. CASE f # g
  <2>1. InSearch(f)' = InSearch(f)
    BY <1>2, <1>4, <1>5, <1>15, WalkAssumption DEF InSearch
  <2>2. Among(l, uu) = Among(l, found)
    BY <1>10, <1>11, <1>12, <1>15
  <2> QED
    BY <1>4, <1>6, <1>7, <1>13, <2>1, <2>2
<1> QED
  BY <1>14, <1>15

\* A search that ends becomes a visit.
LEMMA EndFound ==
  ASSUME WP!IInv, OP!OInv, ThreadLinks, FoundVisited, NEW w \in Worker, EndSearch(w)
  PROVE  FoundVisited'
<1>1. PICK g \in Node : g = W!Child(w) /\ g = file[w] /\ g # NoNode
  BY ThreadFacts, WalkAssumption DEF EndSearch, O!EndFile, O!OAt, ThreadLinks, LinkOf
<1>2. /\ file' = [file EXCEPT ![w] = NoNode] /\ found' = found
      /\ visited' = [visited EXCEPT ![g] = @ + 1]
  BY <1>1 DEF EndSearch, O!EndFile, O!history, W!SearchFile
<1>3. file \in [Worker -> Node \cup {NoNode}] /\ visited \in [Node -> Nat]
  BY DEF OP!OInv, OP!OIInv, OP!OSafe, OP!OTypeOK, WP!IInv, WP!TypeOK
<1> SUFFICES ASSUME NEW f \in Node, NEW i \in DOMAIN LinesOf[f]
             PROVE  Among(LinesOf[f][i], found')
                      = IF f \in Unreadable THEN 0 ELSE visited'[f] + Cardinality(InSearch(f)')
  BY DEF FoundVisited
<1>4. Among(LinesOf[f][i], found)
        = IF f \in Unreadable THEN 0 ELSE visited[f] + Cardinality(InSearch(f))
  BY DEF FoundVisited
<1>5. CASE f = g
  <2>1. InSearch(f) = InSearch(f)' \cup {w} /\ w \notin InSearch(f)'
    BY <1>1, <1>2, <1>3, <1>5 DEF InSearch
  <2>2. PICK T : T = InSearch(f)' /\ IsFiniteSet(T)
    <3>1. InSearch(f)' \subseteq InSearch(f)
      BY <2>1
    <3> QED
      BY <3>1, InSearchFinite, FS_Subset
  <2>3. Cardinality(InSearch(f)) = Cardinality(T) + 1 /\ Cardinality(T) \in Nat
    BY <2>1, <2>2, OneLonger
  <2>4. visited'[f] = visited[f] + 1 /\ visited[f] \in Nat
    BY <1>2, <1>3, <1>5
  <2> QED
    BY <1>2, <1>4, <2>2, <2>3, <2>4
<1>6. CASE f # g
  <2>1. InSearch(f)' = InSearch(f)
    BY <1>1, <1>2, <1>3, <1>6, WalkAssumption DEF InSearch
  <2>2. visited'[f] = visited[f]
    BY <1>2, <1>3, <1>6
  <2> QED
    BY <1>2, <1>4, <2>1, <2>2
<1> QED
  BY <1>5, <1>6

\* Every step keeps the account of found lines.
LEMMA FoundStep ==
  ASSUME WP!RInv, OP!OInv, ThreadLinks, FoundVisited, [GNext]_gvars
  PROVE  FoundVisited'
<1>0. WP!IInv
  BY DEF WP!RInv
<1>1. CASE MainStep
  BY <1>1, WalkVisits, FoundFrame DEF MainStep, Unprinted
<1>2. ASSUME NEW w \in Worker, ThreadStep(w) PROVE FoundVisited'
  <2>1. CASE WalkStep(w)
    <3>1. UNCHANGED <<found, file>>
      BY <2>1 DEF WalkStep, Unprinted
    <3>2. \A f \in Node : LinesOf[f] # <<>> => visited'[f] = visited[f]
      BY <2>1, WalkVisits
    <3> QED
      BY <3>1, <3>2, FoundFrame
  <2>2. CASE BeginSearch(w)
    BY <1>0, <2>2, BeginFound
  <2>3. CASE EndSearch(w)
    BY <1>0, <2>3, EndFound
  <2>4. CASE PrintSome(w)
    <3>1. UNCHANGED <<found, file, visited>>
      BY <2>4 DEF PrintSome, walking, O!Printing, O!PrintLine, O!AppendRaw, O!LockAcquire,
         O!FlushWrite, O!FlushUnlock, O!WritePiece, O!StreamUnlock, O!history
    <3> QED
      BY <3>1, FoundFrame
  <2>5. CASE BeginFlush(w) \/ EndFlush(w)
    <3>1. UNCHANGED <<found, file, visited>>
      BY <2>5 DEF BeginFlush, EndFlush, walking, printing, O!FinalFlush, O!history, W!Flush
    <3> QED
      BY <3>1, FoundFrame
  <2> QED
    BY <1>2, <2>1, <2>2, <2>3, <2>4, <2>5 DEF ThreadStep
<1>3. CASE UNCHANGED gvars
  BY <1>3, FoundFrame DEF gvars, walking, printing
<1> QED
  BY <1>1, <1>2, <1>3 DEF GNext

\* What OutputComplete rests on beside Whole.
Accounts == WP!RInv /\ OP!Merged /\ FoundVisited

LEMMA InitAccounts == GInit => Accounts
<1> SUFFICES ASSUME GInit PROVE Accounts
  OBVIOUS
<1>1. WP!RInv
  BY SameInit, WalkAssumption, WP!InitRInv DEF GInit
<1>2. OP!Merged
  BY SameInit, WalkAssumption, PrintAssumption, OP!MergedInit DEF GInit
<1>3. FoundVisited
  <2> SUFFICES ASSUME NEW f \in Node, NEW i \in DOMAIN LinesOf[f]
               PROVE  Among(LinesOf[f][i], found)
                        = IF f \in Unreadable THEN 0 ELSE visited[f] + Cardinality(InSearch(f))
    BY DEF FoundVisited
  <2>1. \A w \in DOMAIN found : found[w] = <<>>
    BY DEF GInit, O!OInit
  <2>2. Among(LinesOf[f][i], found) = 0
    BY <2>1, AmongEmpty
  <2>3. InSearch(f) = {}
    BY WalkAssumption DEF InSearch, GInit, O!OInit
  <2>4. Cardinality(InSearch(f)) = 0
    BY <2>3, FS_EmptySet
  <2>5. visited[f] = 0
    BY DEF GInit, W!Init
  <2> QED
    BY <2>2, <2>4, <2>5
<1> QED
  BY <1>1, <1>2, <1>3 DEF Accounts

\* Every step keeps the multiset of the lines on stdout that of the lines shown.
LEMMA MergedKept ==
  ASSUME WP!IInv, OP!OInv, OP!Merged, [GNext]_gvars
  PROVE  OP!Merged'
<1>0. OP!IsFiniteSet(Worker) /\ OP!OSafe /\ OP!OTypeOK
  BY InSearchFinite DEF OP!IsFiniteSet, IsFiniteSet, OP!OInv, OP!OIInv, OP!OSafe
<1>1. OP!Grows
  <2>1. CASE stdout' = stdout
    BY <2>1 DEF OP!Grows
  <2>2. CASE stdout' # stdout
    <3>1. PICK w \in Worker : PrintSome(w)
      BY <2>2 DEF GNext, ThreadStep, MainStep, WalkStep, Unprinted, BeginSearch, EndSearch,
         BeginFlush, EndFlush, gvars, printing, O!StartFile, O!EndFile, O!FinalFlush
    <3>2. OP!Printing(w)
      BY <3>1, SamePrinting DEF PrintSome
    <3>3. OP!OMoves
      BY <3>2 DEF OP!OMoves, OP!OMove
    <3> QED
      BY <1>0, <3>3, WalkAssumption, PrintAssumption, OP!MoveGrows
  <2> QED
    BY <2>1, <2>2
<1> QED
  BY <1>0, <1>1, WalkAssumption, PrintAssumption, OP!MergedStep

LEMMA AccountsInvariant == GSpec => [](Whole /\ Accounts)
<1>1. WP!RInv /\ [GNext]_gvars => WP!RInv'
  <2>1. WP!RInv /\ [WP!Next]_(WP!vars) => WP!RInv'
    BY WalkAssumption, WP!NextRInv
  <2> QED
    BY <2>1, StepWalks
<1>2. Whole /\ Accounts /\ [GNext]_gvars => Accounts'
  <2> SUFFICES ASSUME Whole, Accounts, [GNext]_gvars PROVE Accounts'
    OBVIOUS
  <2>1. WP!RInv'
    BY <1>1 DEF Accounts
  <2>2. OP!Merged'
    BY MergedKept DEF Whole, Accounts
  <2>3. FoundVisited'
    BY FoundStep DEF Whole, Accounts, Links, ThreadLinks
  <2> QED
    BY <2>1, <2>2, <2>3 DEF Accounts
<1> QED
  BY <1>2, InitAccounts, WholeInvariant, PTL DEF GSpec

\* The lines a thread has shown are the same in O and OP.
LEMMA SameShown == \A w : OP!Shown(w) = O!Shown(w)
  BY DEF OP!Shown, O!Shown, OP!EndsLine, O!EndsLine, OP!LastPiece, O!LastPiece, OP!FlattenSeq,
     O!FlattenSeq

\* The inductive invariant of the whole program: the walker's, the output path's,
\* and that a thread prints just while the walker has it in a call that prints.
THEOREM GInvariance == GSpec => []GIInv
<1>1. WP!IInv => W!IInv
  <2>1. WP!TypeOK => W!TypeOK
    BY DEF WP!TypeOK, W!TypeOK, WP!PCs, W!PCs, WP!Worker, W!Worker
  <2>2. WP!Shape => W!Shape
    BY DEF WP!Shape, W!Shape, WP!ShapeOf, W!ShapeOf, WP!Worker, W!Worker, WP!Helper, W!Helper,
       WP!Main, W!Main, WP!Calling, W!Calling
  <2>3. /\ WP!DirqMutex /\ WP!LockTaken => W!DirqMutex /\ W!LockTaken
        /\ WP!Stored => W!Stored
    BY DEF WP!DirqMutex, W!DirqMutex, WP!LockTaken, W!LockTaken, WP!Stored, W!Stored, WP!MidPush,
       W!MidPush, WP!Locked, W!Locked, WP!At, W!At, WP!Worker, W!Worker
  <2>4. WP!PendingExact => W!PendingExact
    <3>1. WP!InHand = W!InHand /\ (WP!MidPush <=> W!MidPush)
      BY DEF WP!InHand, W!InHand, WP!MidPush, W!MidPush, WP!At, W!At, WP!Worker, W!Worker
    <3> QED
      BY <3>1 DEF WP!PendingExact, W!PendingExact, WP!Cardinality, W!Cardinality
  <2>5. WP!NoEarlyExit => W!NoEarlyExit
    BY DEF WP!NoEarlyExit, W!NoEarlyExit, WP!LeftLoop, W!LeftLoop, WP!Quiet, W!Quiet, WP!InHand,
       W!InHand, WP!Calling, W!Calling, WP!Worker, W!Worker
  <2> QED
    BY <2>1, <2>2, <2>3, <2>4, <2>5 DEF WP!IInv, W!IInv
<1>2. OP!OInv => O!OIInv
  <2>1. OP!OTypeOK => O!OTypeOK
    BY DEF OP!OTypeOK, O!OTypeOK, OP!Write, O!Write, OP!OPCs, O!OPCs, OP!LastPiece, O!LastPiece
  <2>2. OP!OShape => O!OShape
    BY DEF OP!OShape, O!OShape, OP!OShapeOf, O!OShapeOf, OP!Current, O!Current, OP!FirstPiece,
       O!FirstPiece, OP!LastPiece, O!LastPiece
  <2>3. OP!HeldBack /\ OP!Reported => O!HeldBack /\ O!Reported
    BY DEF OP!HeldBack, O!HeldBack, OP!HeldBackOf, O!HeldBackOf, OP!Reported, O!Reported
  <2>4. OP!OutMutex /\ OP!LockHeld /\ OP!BufferBound => O!OutMutex /\ O!LockHeld /\ O!BufferBound
    BY DEF OP!OutMutex, O!OutMutex, OP!LockHeld, O!LockHeld, OP!Holding, O!Holding,
       OP!BufferBound, O!BufferBound
  <2>5. OP!Streaming /\ OP!Boundary /\ OP!NoneSplit => O!Streaming /\ O!Boundary /\ O!NoneSplit
    BY DEF OP!Streaming, O!Streaming, OP!Boundary, O!Boundary, OP!NoneSplit, O!NoneSplit,
       OP!AtBoundary, O!AtBoundary, OP!LastWrite, O!LastWrite, OP!Current, O!Current,
       OP!StartsLine, O!StartsLine, OP!EndsLine, O!EndsLine, OP!FirstPiece, O!FirstPiece,
       OP!LastPiece, O!LastPiece
  <2> QED
    BY <2>1, <2>2, <2>3, <2>4, <2>5 DEF OP!OInv, OP!OIInv, OP!OSafe, O!OIInv, O!OSafe
<1>3. OP!OInv => O!OwnOrder
  <2>1. \A w \in Worker : OP!Unwritten(w) = O!Unwritten(w)
    BY DEF OP!Unwritten, O!Unwritten, OP!OAt, O!OAt
  <2> QED
    BY <2>1, SameShown DEF OP!OInv, OP!OwnOrder, O!OwnOrder
<1>4. Whole /\ Accounts => GIInv
  BY <1>1, <1>2, <1>3 DEF Whole, Accounts, GIInv
<1> QED
  BY <1>4, AccountsInvariant, PTL

\* The walk of the whole program is a run of the walker: printing in the middle of
\* search_file and flush_out changes nothing for the walk.
THEOREM ProgramWalks == GSpec => W!Spec
<1>1. [GNext]_gvars => [W!Next]_(W!vars)
  <2> SUFFICES ASSUME [GNext]_gvars PROVE [W!Next]_(W!vars)
    OBVIOUS
  <2>1. CASE MainStep
    BY <2>1 DEF MainStep, W!Next
  <2>2. ASSUME NEW w \in Worker, ThreadStep(w) PROVE [W!Next]_(W!vars)
    <3>1. CASE UNCHANGED walking
      BY <3>1, WalkUnseen
    <3>2. CASE ~ UNCHANGED walking
      <4>1. WalkStep(w) \/ EndSearch(w) \/ EndFlush(w)
        BY <2>2, <3>2 DEF ThreadStep, BeginSearch, PrintSome, BeginFlush
      <4>2. W!Step(w)
        BY <4>1 DEF WalkStep, EndSearch, EndFlush, W!Step
      <4> QED
        BY <4>2 DEF W!Next, W!Worker, Worker
    <3> QED
      BY <3>1, <3>2
  <2>3. CASE UNCHANGED gvars
    BY <2>3, WalkUnseen DEF gvars
  <2> QED
    BY <2>1, <2>2, <2>3 DEF GNext
<1>2. GInit => W!Init
  BY DEF GInit
<1> QED
  BY <1>1, <1>2, PTL DEF GSpec, W!Spec

\* So the whole program is a recursive search: it visits every path named or found
\* once per finding or gives it up, and reports when nothing waits.
THEOREM ProgramImplementsTreeSearch == GSpec => WP!ImplementsTreeSearch
<1>1. WP!Spec => WP!ImplementsTreeSearch
  BY WalkAssumption, WP!WalkerImplementsTreeSearch
<1>2. GInit => WP!Init
  BY SameInit DEF GInit
<1>3. GSpec => WP!Spec
  BY <1>2, StepWalks, PTL DEF GSpec, WP!Spec
<1> QED
  BY <1>1, <1>3

\* When main has picked its status, nobody is in search_file any more.
LEMMA StatusThenQuiet ==
  ASSUME Whole, status # -1
  PROVE  \A w \in Worker : file[w] = NoNode
<1> SUFFICES ASSUME NEW w \in Worker PROVE file[w] = NoNode
  OBVIOUS
<1>1. 0 \in Worker /\ pc[0] = "exited"
  BY WalkAssumption DEF Whole, Links, StatusLink, W!At, W!Main, Worker
<1>2. WP!Quiet
  BY <1>1 DEF Whole, WP!IInv, WP!NoEarlyExit, WP!LeftLoop, Worker, WP!Worker
<1>3. pc[w] # "search"
  BY <1>2 DEF WP!Quiet, WP!Calling, Worker, WP!Worker
<1> QED
  BY <1>3 DEF Whole, Links, LinkOf, W!At

\* When the process has ended and no write() failed, a thread's lines are all on stdout.
LEMMA EndedThenShown ==
  ASSUME Whole, W!Ended, ~ write_failed, NEW w \in Worker
  PROVE  O!Shown(w) = found[w]
<1>1. pc[w] \in {"none", "exited"}
  BY DEF W!Ended, W!Worker, Worker
<1>2. LinkOf(w)
  BY DEF Whole, Links
<1>3. lines[w] = <<>> /\ opc[w] \in {"idle", "done"}
  BY <1>1, <1>2, NotPrinting DEF Whole
<1>4. outbuf[w] = <<>>
  <2>1. opc[w] = "done" \/ outlen[w] = 0
    BY <1>1, <1>2 DEF LinkOf, W!At
  <2> QED
    BY <2>1, ThreadFacts DEF Whole
<1>5. OP!Shown(w) \o OP!Unwritten(w) = found[w]
  BY DEF Whole, OP!OInv, OP!OwnOrder
<1>6. OP!Unwritten(w) = <<>> \o <<>>
  BY <1>3, <1>4 DEF OP!Unwritten, OP!OAt
<1>7. OP!Shown(w) \in Seq(Line)
  <2>1. OP!OTypeOK
    BY DEF Whole, OP!OInv, OP!OIInv, OP!OSafe
  <2> QED
    BY <2>1, WalkAssumption, PrintAssumption, OP!ShownAppend
<1>8. OP!Shown(w) = found[w]
  BY <1>5, <1>6, <1>7, ConcatEmptySeq
<1> QED
  BY <1>8, SameShown

\* The lines of thread w on stdout are among those of stdout.
LEMMA ShownIsPrinted ==
  ASSUME Whole, NEW w \in Worker, O!Shown(w) # <<>>
  PROVE  O!Printed # <<>>
<1> DEFINE own == [i \in DOMAIN stdout |->
                    IF stdout[i].by = w /\ O!EndsLine(stdout[i]) THEN stdout[i].lines ELSE <<>>]
           all == [i \in DOMAIN stdout |->
                    IF O!EndsLine(stdout[i]) THEN stdout[i].lines ELSE <<>>]
<1>1. stdout \in Seq(O!Write)
  BY DEF Whole, OP!OInv, OP!OIInv, OP!OSafe, OP!OTypeOK, OP!Write, O!Write, OP!LastPiece, O!LastPiece
<1>2. DOMAIN stdout = 1 .. Len(stdout) /\ Len(stdout) \in Nat
  BY <1>1, LenProperties
<1>3. \A i \in 1 .. Len(stdout) : stdout[i].lines \in Seq(Line)
  <2>1. \A i \in 1 .. Len(stdout) : stdout[i] \in O!Write
    BY <1>1, ElementOfSeq
  <2> QED
    BY <2>1 DEF O!Write
<1>4. own \in Seq(Seq(Line)) /\ all \in Seq(Seq(Line))
  BY <1>2, <1>3
<1>5. /\ FlattenSeq(own) = <<>> <=> \A i \in DOMAIN own : own[i] = <<>>
      /\ FlattenSeq(all) = <<>> <=> \A i \in DOMAIN all : all[i] = <<>>
  <2> HIDE DEF own, all
  <2> QED
    BY <1>4, FlattenSeqEmpty
<1>6. O!Shown(w) = FlattenSeq(own) /\ O!Printed = FlattenSeq(all)
  BY DEF O!Shown, O!Printed, O!FlattenSeq, FlattenSeq
<1> QED
  BY <1>5, <1>6

\* main's exit status is the one the flags call for from the moment it is picked, though
\* main waits for no helper; and when the process has ended, match_found says that
\* something was printed, unless a write() failed.
THEOREM StatusIsFinal == GSpec => []StatusFinal
<1>1. ASSUME Whole, status # -1
      PROVE  status = IF had_error THEN 2 ELSE IF match_found THEN 0 ELSE 1
  <2>1. \A f \in Node : ~ Searching(f)
    BY <1>1, StatusThenQuiet, WalkAssumption DEF Searching
  <2>2. (had_error <=> walk_error) /\ (match_found <=> walk_match)
    BY <1>1, <2>1 DEF Whole, Links, ErrorAhead, MatchAhead
  <2>3. status = W!ExitStatus
    BY <1>1 DEF Whole, Links, StatusLink
  <2> QED
    BY <2>2, <2>3 DEF W!ExitStatus
<1>2. ASSUME Whole, W!Ended, ~ write_failed
      PROVE  match_found <=> O!Printed # <<>>
  <2>1. OP!Reported
    BY <1>2 DEF Whole, OP!OInv, OP!OIInv, OP!OSafe
  <2>2. ASSUME match_found PROVE O!Printed # <<>>
    <3>1. PICK w \in Worker : found[w] # <<>>
      BY <2>1, <2>2 DEF OP!Reported
    <3>2. O!Shown(w) # <<>>
      BY <1>2, <3>1, EndedThenShown
    <3> QED
      BY <1>2, <3>2, ShownIsPrinted
  <2>3. ASSUME ~ match_found PROVE O!Printed = <<>>
    <3>1. stdout = <<>>
      BY <2>1, <2>3 DEF OP!Reported
    <3>2. O!Printed = FlattenSeq(<<>>)
      BY <3>1 DEF O!Printed, O!FlattenSeq, FlattenSeq
    <3>3. <<>> \in Seq(Seq(Line))
      OBVIOUS
    <3> QED
      BY <3>2, <3>3, FlattenSeqType
  <2> QED
    BY <2>2, <2>3
<1>3. Whole => StatusFinal
  BY <1>1, <1>2 DEF StatusFinal
<1> QED
  BY <1>3, WholeInvariant, PTL
\* When the process has ended and no write() has failed, each line of a file is on stdout
\* once for every visit of the file.
THEOREM LinesAllPrinted == GSpec => []OutputComplete
<1>1. ASSUME Whole, Accounts, W!Ended, ~ write_failed,
             NEW f \in Node, NEW i \in DOMAIN LinesOf[f]
      PROVE  Times(LinesOf[f][i], O!Printed) = IF f \in Unreadable THEN 0 ELSE visited[f]
  <2>1. PICK l : l = LinesOf[f][i]
    OBVIOUS
  <2>2. Times(l, O!Printed) = OP!Times(l, OP!Printed)
    BY DEF OP!Times, Times, OP!Places, Places, OP!Cardinality, Cardinality, OP!Printed, O!Printed,
       OP!EndsLine, O!EndsLine, OP!LastPiece, O!LastPiece, OP!FlattenSeq, O!FlattenSeq
  <2>3. OP!Times(l, OP!Printed) = OP!Among(l, OP!AllShown)
    BY <1>1 DEF Accounts, OP!Merged
  <2>4. OP!AllShown = found
    <3>1. \A w \in Worker : OP!Shown(w) = found[w]
      BY <1>1, EndedThenShown, SameShown
    <3>2. found \in [Worker -> Seq(Line)]
      BY <1>1 DEF Whole, OP!OInv, OP!OIInv, OP!OSafe, OP!OTypeOK
    <3>3. found = [w \in Worker |-> found[w]]
      BY <3>2
    <3> QED
      BY <3>1, <3>3 DEF OP!AllShown
  <2>5. OP!Among(l, found) = Among(l, found)
    BY DEF OP!Among, Among, OP!Total, Total, OP!Places, Places, OP!Cardinality, Cardinality
  <2>6. InSearch(f) = {}
    <3>1. \A w \in Worker : file[w] = NoNode
      BY <1>1 DEF Whole, Links, LinkOf, W!Ended, W!At, W!Worker, Worker
    <3> QED
      BY <3>1, WalkAssumption DEF InSearch
  <2>7. visited[f] \in Nat /\ Cardinality(InSearch(f)) = 0
    BY <1>1, <2>6, FS_EmptySet DEF Whole, WP!IInv, WP!TypeOK
  <2>8. Among(l, found) = IF f \in Unreadable THEN 0 ELSE visited[f] + Cardinality(InSearch(f))
    BY <1>1, <2>1 DEF Accounts, FoundVisited
  <2>9. Among(l, found) = IF f \in Unreadable THEN 0 ELSE visited[f]
    BY <2>7, <2>8
  <2> QED
    BY <2>1, <2>2, <2>3, <2>4, <2>5, <2>9
<1>2. Whole /\ Accounts => OutputComplete
  BY <1>1 DEF OutputComplete
<1> QED
  BY <1>2, AccountsInvariant, PTL
=============================================================================
