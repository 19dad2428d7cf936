----------------------------- MODULE CGrepProofs -----------------------------
(***************************************************************************)
(* The inductive invariant CIInv of CGrep holds for every number of        *)
(* threads, every tree, every size of line and buffer, and whatever        *)
(* pthread_create and write() return.  PendingExact, NoEarlyExit,          *)
(* HelpersDone and LinesWhole follow.  With CRInv, which adds what a       *)
(* thread has in hand and what the flags mean, every behaviour of the two  *)
(* programs is one of TreeSearch; with COInv, which adds the buffers and   *)
(* what was found, EachKindInOrder and OutputComplete follow.              *)
(***************************************************************************)
EXTENDS CGrepRefinement, CountingProofs

-----------------------------------------------------------------------------
(* Types.                                                                  *)

Shape == \A w \in Worker : CShapeOf(w)

\* Main is a worker, and no helper.
LEMMA MainIsWorker == Main \in Worker /\ Main \notin Helper /\ Helper \subseteq Worker /\ NoOne \notin Worker
  BY CThreadAssumption DEF Worker, Main, Helper, NoOne

\* The path a call works on is a path.
LEMMA ChildType ==
  ASSUME CTypeOK, NEW w \in Worker, todo[w] # <<>>
  PROVE  Child(w) \in Node
  BY HeadTailProperties DEF CTypeOK, Child

\* The line in hand is a line.
LEMMA CurrentType ==
  ASSUME CTypeOK, NEW w \in Worker, lines[w] # <<>>
  PROVE  Current(w) \in Line /\ Tail(lines[w]) \in Seq(Line)
  BY HeadTailProperties DEF CTypeOK, Current

\* Going on to the next entry or argument keeps the types of pc and todo.
LEMMA AdvanceType ==
  ASSUME CTypeOK, NEW w \in Worker, todo[w] # <<>>, Advance(w)
  PROVE  pc' \in [Worker -> PCs] /\ todo' \in [Worker -> Seq(Node)]
<1>1. Tail(todo[w]) \in Seq(Node)
  BY HeadTailProperties DEF CTypeOK
<1> QED
  BY <1>1 DEF CTypeOK, Advance, Goto, PCs

\* So does sending it to the queue or to search_file.
LEMMA DispatchType ==
  ASSUME CTypeOK, NEW w \in Worker, todo[w] # <<>>, NEW kind, Dispatch(w, kind)
  PROVE  pc' \in [Worker -> PCs] /\ todo' \in [Worker -> Seq(Node)]
  BY AdvanceType DEF Dispatch, Goto, CTypeOK, PCs

\* A write() appends to stdout, or fails.
LEMMA SysWriteType ==
  ASSUME CTypeOK, NEW w \in Worker, NEW ls \in Seq(Line), NEW p \in 0 .. LastPiece,
         SysWrite(w, ls, p)
  PROVE  stdout' \in Seq(Write)
<1>1. [by |-> w, lines |-> ls, piece |-> p] \in Write
  BY DEF Write
<1>2. Append(stdout, [by |-> w, lines |-> ls, piece |-> p]) \in Seq(Write)
  BY <1>1, AppendProperties DEF CTypeOK
<1> QED
  BY <1>2 DEF SysWrite, CTypeOK

\* A flush keeps the types of the buffers and of stdout.
LEMMA FlushType ==
  ASSUME CTypeOK, NEW w \in Worker, FlushCtx(w)
  PROVE  obuf' \in [Worker -> Seq(Line)] /\ stdout' \in Seq(Write)
<1>1. obuf[w] \in Seq(Line) /\ 0 \in 0 .. LastPiece
  BY DEF CTypeOK, LastPiece
<1>2. stdout' \in Seq(Write)
  <2>1. CASE obuf[w] = <<>>
    BY <2>1 DEF FlushCtx, CTypeOK
  <2>2. CASE obuf[w] # <<>>
    BY <1>1, <2>2, SysWriteType DEF FlushCtx
  <2> QED
    BY <2>1, <2>2
<1> QED
  BY <1>2 DEF FlushCtx, CTypeOK

\* What q_pop takes is a directory, and it leaves one less.
LEMMA PopType ==
  ASSUME CTypeOK, g_q # <<>>
  PROVE  /\ Last(g_q) \in Node /\ Front(g_q) \in Seq(Node)
         /\ Len(g_q) \in Nat \ {0} /\ Len(Front(g_q)) = Len(g_q) - 1
<1>1. Len(g_q) \in Nat \ {0}
  BY EmptySeq DEF CTypeOK
<1>2. Last(g_q) \in Node
  BY <1>1, ElementOfSeq DEF Last, CTypeOK
<1>3. SubSeq(g_q, 1, Len(g_q) - 1) \in Seq(Node)
  BY <1>1, SubSeqProperties DEF CTypeOK
<1>4. Len(SubSeq(g_q, 1, Len(g_q) - 1)) = Len(g_q) - 1
  <2>1. \A i \in 1 .. Len(g_q) - 1 : g_q[i] \in Node
    BY <1>1, ElementOfSeq DEF CTypeOK
  <2>2. Len(SubSeq(g_q, 1, Len(g_q) - 1)) =
          IF 1 <= Len(g_q) - 1 THEN (Len(g_q) - 1) - 1 + 1 ELSE 0
    BY <1>1, <2>1, SubSeqProperties
  <2> DEFINE n == Len(g_q)
             k == Len(SubSeq(g_q, 1, Len(g_q) - 1))
  <2>3. n \in Nat \ {0} /\ k = IF 1 <= n - 1 THEN (n - 1) - 1 + 1 ELSE 0
    BY <1>1, <2>2
  <2> HIDE DEF n, k
  <2>4. k = n - 1
    BY <2>3
  <2> QED
    BY <2>4 DEF n, k
<1> QED
  BY <1>1, <1>2, <1>3, <1>4 DEF Front

\* Every step of the program keeps CTypeOK.
LEMMA TypeStep == CWalkInv /\ [CNext]_cvars => CTypeOK'
<1> SUFFICES ASSUME CWalkInv, [CNext]_cvars PROVE CTypeOK'
  OBVIOUS
<1>0. CTypeOK /\ Shape
  BY DEF CWalkInv, Shape
<1> USE <1>0, MainIsWorker
<1> USE DEF queue, room, walk, output, flags
<1>1. CASE Argument
  BY <1>1, DispatchType DEF Argument, CTypeOK
<1>2. CASE EndArguments
  <2>1. pc' \in [Worker -> PCs]
    BY <1>2 DEF EndArguments, Goto, CTypeOK, PCs
  <2>2. t' \in 1 .. nt
    BY <1>2, CThreadAssumption DEF EndArguments, CTypeOK
  <2> QED
    BY <1>2, <2>1, <2>2 DEF EndArguments, CTypeOK
<1>3. CASE Create
  <2>1. pc' \in [Worker -> PCs]
    BY <1>3 DEF Create, CTypeOK, PCs
  <2>2. t' \in 1 .. nt
    BY <1>3, CThreadAssumption DEF Create, CTypeOK
  <2> QED
    BY <1>3, <2>1, <2>2 DEF Create, CTypeOK
<1>4. CASE BecomeWorker
  BY <1>4, CThreadAssumption DEF BecomeWorker, Goto, CTypeOK, PCs
<1>5. CASE Join
  <2>0. t < nt /\ (t' = t \/ t' = t + 1)
    BY <1>5 DEF Join, Joined
  <2>1. t' \in 1 .. nt
    BY <2>0, CThreadAssumption DEF CTypeOK
  <2> QED
    BY <1>5, <2>1 DEF Join, CTypeOK
<1>6. CASE Return
  BY <1>6 DEF Return, CTypeOK
<1>7. ASSUME NEW w \in Worker, OpenDir(w) PROVE CTypeOK'
  <2>1. dir[w] \in Node
    BY <1>7 DEF OpenDir, At, Shape, CShapeOf, CTypeOK
  <2>2. todo' \in [Worker -> Seq(Node)]
    BY <1>7, <2>1, CNodeAssumption DEF OpenDir, CTypeOK
  <2> QED
    BY <1>7, <2>2 DEF OpenDir, Goto, CTypeOK, PCs
<1>8. ASSUME NEW w \in Worker, ReadEntry(w) PROVE CTypeOK'
  BY <1>8, DispatchType DEF ReadEntry, CTypeOK
<1>9. ASSUME NEW w \in Worker, CloseDir(w) PROVE CTypeOK'
  BY <1>9 DEF CloseDir, Goto, CTypeOK, PCs
<1>al. ASSUME NEW w \in Worker, Alloc(w) PROVE CTypeOK'
  <2>1. todo[w] # <<>>
    BY <1>al DEF Alloc, At, Shape, CShapeOf, Calling
  <2>2. arena_off' \in Nat
    <3>1. PathLen[Child(w)] \in Nat
      BY <2>1, ChildType, CNodeAssumption
    <3>2. arena_off' = arena_off + PathLen[Child(w)] + 1
      BY <1>al DEF Alloc
    <3>3. arena_off \in Nat
      BY DEF CTypeOK
    <3> QED
      BY <3>1, <3>2, <3>3
  <2>3. pc' \in [Worker -> PCs] /\ todo' \in [Worker -> Seq(Node)]
    BY <1>al, <2>1, AdvanceType DEF Alloc, Forget, Goto, CTypeOK, PCs
  <2>4. UNCHANGED <<lang, g_q, g_qlock, g_pending, dir, lines, piece, output, t, status>>
    BY <1>al DEF Alloc
  <2> QED
    BY <2>2, <2>3, <2>4 DEF CTypeOK
<1>re. ASSUME NEW w \in Worker, Refuse(w) PROVE CTypeOK'
  <2>1. pc' \in [Worker -> PCs] /\ todo' \in [Worker -> Seq(Node)]
    BY <1>re, AdvanceType DEF Refuse, Forget, At, Shape, CShapeOf, Calling
  <2>2. UNCHANGED <<lang, arena_off, g_q, g_qlock, g_pending, dir, lines, piece, output, t, status>>
    BY <1>re DEF Refuse
  <2> QED
    BY <2>1, <2>2 DEF CTypeOK
<1>10. ASSUME NEW w \in Worker, Push(w) PROVE CTypeOK'
  <2>1. Child(w) \in Node
    BY <1>10, ChildType DEF Push, At, Shape, CShapeOf, Calling
  <2>2. g_q' \in Seq(Node)
    BY <1>10, <2>1, AppendProperties DEF Push, CTypeOK
  <2> QED
    BY <1>10, <2>2 DEF Push, Goto, CTypeOK, PCs
<1>11. ASSUME NEW w \in Worker, Count(w) PROVE CTypeOK'
  <2>1. pc' \in [Worker -> PCs] /\ todo' \in [Worker -> Seq(Node)]
    BY <1>11, AdvanceType DEF Count, At, Shape, CShapeOf, Calling
  <2>2. g_qlock' \in Worker \cup {NoOne} /\ g_pending' \in Int
    BY <1>11 DEF Count, CTypeOK
  <2>3. UNCHANGED <<g_q, dir, lines, piece, output, t, status>>
    BY <1>11 DEF Count
  <2>4. UNCHANGED <<lang, arena_off>>
    BY <1>11 DEF Count
  <2> QED
    BY <2>1, <2>2, <2>3, <2>4 DEF CTypeOK
<1>12. ASSUME NEW w \in Worker, Pop(w) PROVE CTypeOK'
  <2>1. g_q # <<>> => Last(g_q) \in Node /\ Front(g_q) \in Seq(Node)
    BY PopType
  <2>2. g_q' \in Seq(Node) /\ dir' \in [Worker -> Node \cup {NoNode}]
    <3>1. CASE g_q = <<>>
      BY <1>12, <3>1 DEF Pop, CTypeOK
    <3>2. CASE g_q # <<>>
      <4>1. g_q' = Front(g_q) /\ dir' = [dir EXCEPT ![w] = Last(g_q)]
        BY <1>12, <3>2 DEF Pop
      <4> QED
        BY <2>1, <3>2, <4>1 DEF CTypeOK
    <3> QED
      BY <3>1, <3>2
  <2> QED
    BY <1>12, <2>2 DEF Pop, Goto, CTypeOK, PCs
<1>13. ASSUME NEW w \in Worker, TestPending(w) PROVE CTypeOK'
  BY <1>13 DEF TestPending, Goto, CTypeOK, PCs
<1>14. ASSUME NEW w \in Worker, DirDone(w) PROVE CTypeOK'
  BY <1>14 DEF DirDone, Goto, CTypeOK, PCs
<1>15. ASSUME NEW w \in Worker, StartFile(w) PROVE CTypeOK'
  <2>1. todo[w] # <<>>
    BY <1>15 DEF StartFile, At, Shape, CShapeOf, Calling
  <2>2. LinesOf[Child(w)] \in Seq(Line)
    BY <2>1, ChildType, CLineAssumption
  <2>3. pc' \in [Worker -> PCs] /\ todo' \in [Worker -> Seq(Node)]
    BY <1>15, <2>1, AdvanceType DEF StartFile, Goto, CTypeOK, PCs
  <2>4. lines' \in [Worker -> Seq(Line)]
    BY <1>15, <2>2 DEF StartFile, CTypeOK
  <2> QED
    BY <1>15, <2>3, <2>4 DEF StartFile, CTypeOK
<1>16. ASSUME NEW w \in Worker, EndFile(w) PROVE CTypeOK'
  <2>1. pc' \in [Worker -> PCs] /\ todo' \in [Worker -> Seq(Node)]
    BY <1>16, AdvanceType DEF EndFile, At, Shape, CShapeOf, Calling
  <2> QED
    BY <1>16, <2>1 DEF EndFile, CTypeOK
<1>17. ASSUME NEW w \in Worker, MakeRoom(w) PROVE CTypeOK'
  BY <1>17, FlushType DEF MakeRoom, CTypeOK
<1>18. ASSUME NEW w \in Worker, KeepLine(w) PROVE CTypeOK'
  <2>1. Append(obuf[w], Current(w)) \in Seq(Line) /\ Tail(lines[w]) \in Seq(Line)
    BY <1>18, CurrentType, AppendProperties DEF KeepLine, CTypeOK
  <2>2. obuf' \in [Worker -> Seq(Line)] /\ lines' \in [Worker -> Seq(Line)]
    BY <1>18, <2>1 DEF KeepLine, CTypeOK
  <2> QED
    BY <1>18, <2>2 DEF KeepLine, CTypeOK
<1>19. ASSUME NEW w \in Worker, StreamLine(w) PROVE CTypeOK'
  BY <1>19 DEF StreamLine, Goto, CTypeOK, PCs, FirstPiece, LastPiece
<1>20. ASSUME NEW w \in Worker, WritePiece(w) PROVE CTypeOK'
  <2>1. lines[w] # <<>> /\ piece[w] \in 1 .. LastPiece
    BY <1>20 DEF WritePiece, At, Shape, CShapeOf, CTypeOK
  <2>2. <<Current(w)>> \in Seq(Line) /\ piece[w] \in 0 .. LastPiece
    BY <2>1, CurrentType DEF LastPiece
  <2>3. stdout' \in Seq(Write)
    BY <1>20, <2>2, SysWriteType DEF WritePiece
  <2>4. lines' \in [Worker -> Seq(Line)]
    BY <1>20, <2>1, CurrentType DEF WritePiece, CTypeOK
  <2>5. piece' \in [Worker -> 1 .. LastPiece]
    <3>1. CASE piece[w] = LastPiece
      BY <1>20, <3>1 DEF WritePiece, CTypeOK
    <3>2. CASE piece[w] # LastPiece
      <4>1. piece[w] + 1 \in 1 .. LastPiece
        BY <2>1, <3>2 DEF LastPiece
      <4>2. piece' = [piece EXCEPT ![w] = piece[w] + 1]
        BY <1>20, <3>2 DEF WritePiece
      <4> QED
        BY <4>1, <4>2 DEF CTypeOK
    <3> QED
      BY <3>1, <3>2
  <2> QED
    BY <1>20, <2>3, <2>4, <2>5 DEF WritePiece, Goto, CTypeOK, PCs
<1>21. ASSUME NEW w \in Worker, LastFlush(w) PROVE CTypeOK'
  BY <1>21, FlushType DEF LastFlush, Goto, CTypeOK, PCs
<1>22. CASE UNCHANGED cvars
  BY <1>22 DEF CTypeOK, cvars
<1> QED
  BY <1>1, <1>2, <1>3, <1>4, <1>5, <1>6, <1>7, <1>8, <1>9, <1>10, <1>11, <1>12, <1>13,
     <1>14, <1>15, <1>16, <1>17, <1>18, <1>19, <1>20, <1>21, <1>22, <1>al, <1>re
     DEF CNext, MainStep, Step
-----------------------------------------------------------------------------
(* Control.                                                                *)

\* All a thread's part of Shape speaks of, and the mutexes it holds.
SameThread(v) ==
  /\ pc'[v] = pc[v] /\ dir'[v] = dir[v] /\ todo'[v] = todo[v]
  /\ lines'[v] = lines[v] /\ piece'[v] = piece[v]
  /\ g_qlock' = v <=> g_qlock = v
  /\ g_outlock' = v <=> g_outlock = v

\* A step of w that leaves the other threads alone keeps Shape if it keeps w's part.
LEMMA ShapeFrame ==
  ASSUME Shape, NEW w \in Worker, CShapeOf(w)', \A v \in Worker \ {w} : SameThread(v)
  PROVE  Shape'
  BY DEF Shape, CShapeOf, SameThread, FirstPiece, g_multi

\* A step of thread w changes nothing of another thread and does not end the process.
LEMMA StepFrame ==
  ASSUME CTypeOK, Shape, NEW w \in Worker, Step(w)
  PROVE  (\A v \in Worker \ {w} : SameThread(v)) /\ UNCHANGED <<t, status, lang>>
<1> DEFINE G == (\A v \in Worker \ {w} : SameThread(v)) /\ UNCHANGED <<t, status, lang>>
<1> SUFFICES G
  OBVIOUS
<1> USE MainIsWorker
<1>1. CASE OpenDir(w)
  BY <1>1 DEF OpenDir, At, Goto, CTypeOK, Shape, CShapeOf, SameThread, queue, room, walk, output
<1>2. CASE ReadEntry(w)
  BY <1>2 DEF ReadEntry, Dispatch, Advance, Child, At, Goto, CTypeOK, Shape, CShapeOf, SameThread, queue, room, walk, output
<1>3. CASE CloseDir(w)
  BY <1>3 DEF CloseDir, At, Goto, CTypeOK, Shape, CShapeOf, SameThread, queue, room, walk, output
<1>al. CASE Alloc(w)
  BY <1>al DEF Alloc, Forget, Advance, At, Goto, CTypeOK, Shape, CShapeOf, SameThread, queue, room, walk, output
<1>re. CASE Refuse(w)
  BY <1>re DEF Refuse, Forget, Advance, At, Goto, CTypeOK, Shape, CShapeOf, SameThread, queue, room, walk, output
<1>4. CASE Push(w)
  BY <1>4 DEF Push, At, Goto, CTypeOK, Shape, CShapeOf, SameThread, queue, room, walk, output
<1>5. CASE Count(w)
  BY <1>5 DEF Count, Advance, At, Goto, CTypeOK, Shape, CShapeOf, SameThread, queue, room, walk, output
<1>6. CASE Pop(w)
  BY <1>6 DEF Pop, At, Goto, CTypeOK, Shape, CShapeOf, SameThread, queue, room, walk, output
<1>7. CASE TestPending(w)
  BY <1>7 DEF TestPending, At, Goto, CTypeOK, Shape, CShapeOf, SameThread, queue, room, walk, output
<1>8. CASE DirDone(w)
  BY <1>8 DEF DirDone, At, Goto, CTypeOK, Shape, CShapeOf, SameThread, queue, room, walk, output
<1>9. CASE StartFile(w)
  BY <1>9 DEF StartFile, Advance, Child, At, Goto, CTypeOK, Shape, CShapeOf, SameThread, queue, room, walk, output
<1>10. CASE EndFile(w)
  BY <1>10 DEF EndFile, Advance, At, Goto, CTypeOK, Shape, CShapeOf, SameThread, queue, room, walk, output
<1>11. CASE MakeRoom(w)
  BY <1>11 DEF MakeRoom, At, Goto, CTypeOK, Shape, CShapeOf, SameThread, queue, room, walk, output
<1>12. CASE KeepLine(w)
  BY <1>12 DEF KeepLine, At, Goto, CTypeOK, Shape, CShapeOf, SameThread, queue, room, walk, output
<1>13. CASE StreamLine(w)
  BY <1>13 DEF StreamLine, At, Goto, CTypeOK, Shape, CShapeOf, SameThread, queue, room, walk, output
<1>14. CASE WritePiece(w)
  BY <1>14 DEF WritePiece, At, Goto, CTypeOK, Shape, CShapeOf, SameThread, queue, room, walk, output
<1>15. CASE LastFlush(w)
  BY <1>15 DEF LastFlush, At, Goto, CTypeOK, Shape, CShapeOf, SameThread, queue, room, walk, output
<1> QED
  BY <1>1, <1>2, <1>3, <1>4, <1>5, <1>6, <1>7, <1>8, <1>9, <1>10, <1>11, <1>12, <1>13,
     <1>14, <1>15, <1>al, <1>re DEF Step

\* Before any thread exists main's steps leave the helpers alone, and so does its wait.
LEMMA MainFrame ==
  ASSUME CTypeOK, Shape, Argument \/ EndArguments \/ BecomeWorker \/ Join \/ Return
  PROVE  \A v \in Worker \ {Main} : SameThread(v)
<1> USE MainIsWorker
<1>1. CASE Argument
  BY <1>1 DEF Argument, Dispatch, Advance, Child, At, Goto, CTypeOK, SameThread, queue, walk, output
<1>2. CASE EndArguments
  BY <1>2 DEF EndArguments, At, Goto, CTypeOK, SameThread, queue, walk, output
<1>3. CASE BecomeWorker
  BY <1>3 DEF BecomeWorker, At, Goto, CTypeOK, SameThread, queue, walk, output
<1>4. CASE Join
  BY <1>4 DEF Join, At, Goto, CTypeOK, SameThread, queue, walk, output
<1>5. CASE Return
  BY <1>5 DEF Return, At, Goto, CTypeOK, SameThread, queue, walk, output
<1> QED
  BY <1>1, <1>2, <1>3, <1>4, <1>5

\* Every step of the program keeps Shape.
LEMMA ShapeStep == CWalkInv /\ [CNext]_cvars => Shape'
<1> SUFFICES ASSUME CWalkInv, [CNext]_cvars PROVE Shape'
  OBVIOUS
<1>0. CTypeOK /\ Shape /\ Phases
  BY DEF CWalkInv, Shape
<1> USE <1>0, MainIsWorker
<1>1. CASE Argument
  <2>1. CShapeOf(Main)'
    BY <1>1 DEF Argument, Dispatch, Advance, Child, At, Goto, CTypeOK, Shape, CShapeOf, Calling, queue, walk, output
  <2> QED
    BY <1>1, <2>1, MainFrame, ShapeFrame
<1>2. CASE EndArguments
  <2>1. CShapeOf(Main)'
    BY <1>2 DEF EndArguments, At, Goto, CTypeOK, Shape, CShapeOf, Calling, queue, walk, output
  <2> QED
    BY <1>2, <2>1, MainFrame, ShapeFrame
<1>3. CASE Create
  <2>1. t \in Helper /\ pc[Main] = "spawn"
    BY <1>3, CThreadAssumption DEF Create, At, CTypeOK, Worker, Main, Helper
  <2>2. PICK h \in Helper : h = t
    BY <2>1
  <2>3. pc[h] = "none" /\ h # Main
    BY <2>1, <2>2 DEF Phases, CTypeOK
  <2>4. pc'[h] \in {"none", "pop"}
    BY <1>3, <2>2, <2>3 DEF Create, CTypeOK
  <2>5. UNCHANGED <<dir, g_qlock, g_outlock>>
    BY <1>3 DEF Create, queue, output
  <2>6. CShapeOf(h)'
    BY <2>3, <2>4, <2>5 DEF Shape, CShapeOf, Calling
  <2>7. \A v \in Worker \ {h} : SameThread(v)
    BY <1>3, <2>2 DEF Create, SameThread, CTypeOK, queue, output
  <2> QED
    BY <2>6, <2>7, ShapeFrame
<1>4. CASE BecomeWorker
  <2>1. CShapeOf(Main)'
    BY <1>4 DEF BecomeWorker, At, Goto, CTypeOK, Shape, CShapeOf, Calling, queue, walk, output
  <2> QED
    BY <1>4, <2>1, MainFrame, ShapeFrame
<1>5. CASE Join
  <2>1. CShapeOf(Main)'
    BY <1>5 DEF Join, At, Goto, CTypeOK, Shape, CShapeOf, Calling, queue, walk, output
  <2> QED
    BY <1>5, <2>1, MainFrame, ShapeFrame
<1>6. CASE Return
  <2>1. CShapeOf(Main)'
    BY <1>6 DEF Return, At, Goto, CTypeOK, Shape, CShapeOf, Calling, queue, walk, output
  <2> QED
    BY <1>6, <2>1, MainFrame, ShapeFrame
<1>7. ASSUME NEW w \in Worker, OpenDir(w) PROVE Shape'
  <2>1. CShapeOf(w)'
    BY <1>7 DEF OpenDir, At, Goto, CTypeOK, Shape, CShapeOf, Calling, queue, walk, output
  <2> QED
    BY <1>7, <2>1, StepFrame, ShapeFrame DEF Step
<1>8. ASSUME NEW w \in Worker, ReadEntry(w) PROVE Shape'
  <2>1. CShapeOf(w)'
    BY <1>8 DEF ReadEntry, Dispatch, Advance, Child, At, Goto, CTypeOK, Shape, CShapeOf, Calling, queue, walk, output
  <2> QED
    BY <1>8, <2>1, StepFrame, ShapeFrame DEF Step
<1>9. ASSUME NEW w \in Worker, CloseDir(w) PROVE Shape'
  <2>1. CShapeOf(w)'
    BY <1>9 DEF CloseDir, At, Goto, CTypeOK, Shape, CShapeOf, Calling, queue, walk, output
  <2> QED
    BY <1>9, <2>1, StepFrame, ShapeFrame DEF Step
<1>al. ASSUME NEW w \in Worker, Alloc(w) PROVE Shape'
  <2>0. pc[w] \in Calling /\ dir[w] = NoNode => w = Main
    BY DEF Phases, Helper
  <2>1. CShapeOf(w)'
    BY <1>al, <2>0 DEF Alloc, Forget, Advance, At, Goto, CTypeOK, Shape, CShapeOf, Calling, queue, walk, output
  <2> QED
    BY <1>al, <2>1, StepFrame, ShapeFrame DEF Step
<1>re. ASSUME NEW w \in Worker, Refuse(w) PROVE Shape'
  <2>0. pc[w] \in Calling /\ dir[w] = NoNode => w = Main
    BY DEF Phases, Helper
  <2>1. CShapeOf(w)'
    BY <1>re, <2>0 DEF Refuse, Forget, Advance, At, Goto, CTypeOK, Shape, CShapeOf, Calling, queue, walk, output
  <2> QED
    BY <1>re, <2>1, StepFrame, ShapeFrame DEF Step
<1>10. ASSUME NEW w \in Worker, Push(w) PROVE Shape'
  <2>1. CShapeOf(w)'
    BY <1>10 DEF Push, At, Goto, CTypeOK, Shape, CShapeOf, Calling, queue, walk, output
  <2> QED
    BY <1>10, <2>1, StepFrame, ShapeFrame DEF Step
<1>11. ASSUME NEW w \in Worker, Count(w) PROVE Shape'
  <2>0. pc[w] \in Calling /\ dir[w] = NoNode => w = Main
    BY DEF Phases, Helper
  <2>1. CShapeOf(w)'
    BY <1>11, <2>0 DEF Count, Advance, At, Goto, CTypeOK, Shape, CShapeOf, Calling, queue, walk, output
  <2> QED
    BY <1>11, <2>1, StepFrame, ShapeFrame DEF Step
<1>12. ASSUME NEW w \in Worker, Pop(w) PROVE Shape'
  <2>0. g_q # <<>> => Last(g_q) # NoNode
    BY PopType, CNodeAssumption
  <2>1. CShapeOf(w)'
    BY <1>12, <2>0 DEF Pop, At, Goto, CTypeOK, Shape, CShapeOf, Calling, queue, walk, output
  <2> QED
    BY <1>12, <2>1, StepFrame, ShapeFrame DEF Step
<1>13. ASSUME NEW w \in Worker, TestPending(w) PROVE Shape'
  <2>1. CShapeOf(w)'
    BY <1>13 DEF TestPending, At, Goto, CTypeOK, Shape, CShapeOf, Calling, queue, walk, output
  <2> QED
    BY <1>13, <2>1, StepFrame, ShapeFrame DEF Step
<1>14. ASSUME NEW w \in Worker, DirDone(w) PROVE Shape'
  <2>1. CShapeOf(w)'
    BY <1>14 DEF DirDone, At, Goto, CTypeOK, Shape, CShapeOf, Calling, queue, walk, output
  <2> QED
    BY <1>14, <2>1, StepFrame, ShapeFrame DEF Step
<1>15. ASSUME NEW w \in Worker, StartFile(w) PROVE Shape'
  <2>0. pc[w] \in Calling /\ dir[w] = NoNode => w = Main
    BY DEF Phases, Helper
  <2>1. CShapeOf(w)'
    BY <1>15, <2>0 DEF StartFile, Advance, Child, At, Goto, CTypeOK, Shape, CShapeOf, Calling, queue, walk, output
  <2> QED
    BY <1>15, <2>1, StepFrame, ShapeFrame DEF Step
<1>16. ASSUME NEW w \in Worker, EndFile(w) PROVE Shape'
  <2>0. pc[w] \in Calling /\ dir[w] = NoNode => w = Main
    BY DEF Phases, Helper
  <2>1. CShapeOf(w)'
    BY <1>16, <2>0 DEF EndFile, Advance, At, Goto, CTypeOK, Shape, CShapeOf, Calling, queue, walk, output
  <2> QED
    BY <1>16, <2>1, StepFrame, ShapeFrame DEF Step
<1>17. ASSUME NEW w \in Worker, MakeRoom(w) PROVE Shape'
  <2>1. CShapeOf(w)'
    BY <1>17 DEF MakeRoom, At, Goto, CTypeOK, Shape, CShapeOf, Calling, queue, walk, output
  <2> QED
    BY <1>17, <2>1, StepFrame, ShapeFrame DEF Step
<1>18. ASSUME NEW w \in Worker, KeepLine(w) PROVE Shape'
  <2>1. CShapeOf(w)'
    BY <1>18 DEF KeepLine, At, Goto, CTypeOK, Shape, CShapeOf, Calling, queue, walk, output
  <2> QED
    BY <1>18, <2>1, StepFrame, ShapeFrame DEF Step
<1>19. ASSUME NEW w \in Worker, StreamLine(w) PROVE Shape'
  <2>1. CShapeOf(w)'
    BY <1>19 DEF StreamLine, At, Goto, CTypeOK, Shape, CShapeOf, Calling, queue, walk, output, FirstPiece, LastPiece, g_multi
  <2> QED
    BY <1>19, <2>1, StepFrame, ShapeFrame DEF Step
<1>20. ASSUME NEW w \in Worker, WritePiece(w) PROVE Shape'
  <2>1. /\ pc[w] = "stream" /\ g_outlock = w /\ g_qlock # w /\ todo[w] # <<>>
        /\ lines[w] # <<>> /\ piece[w] >= FirstPiece /\ piece[w] \in 1 .. LastPiece
    BY <1>20 DEF WritePiece, At, Shape, CShapeOf, Calling, CTypeOK
  <2>2. UNCHANGED <<dir, todo, g_qlock>>
    BY <1>20 DEF WritePiece, queue
  <2>3. CASE piece[w] = LastPiece
    <3>1. pc'[w] = "lines" /\ g_outlock' = NoOne
      BY <1>20, <2>3 DEF WritePiece, Goto, CTypeOK
    <3>2. CShapeOf(w)'
      BY <2>1, <2>2, <3>1 DEF Shape, CShapeOf, Calling
    <3> QED
      BY <1>20, <3>2, StepFrame, ShapeFrame DEF Step
  <2>4. CASE piece[w] # LastPiece
    <3>1. UNCHANGED <<pc, lines, g_outlock>> /\ piece'[w] = piece[w] + 1
      BY <1>20, <2>4 DEF WritePiece, CTypeOK
    <3>2. piece'[w] >= FirstPiece
      BY <2>1, <3>1 DEF FirstPiece
    <3>3. CShapeOf(w)'
      BY <2>1, <2>2, <3>1, <3>2 DEF Shape, CShapeOf, Calling, FirstPiece, g_multi
    <3> QED
      BY <1>20, <3>3, StepFrame, ShapeFrame DEF Step
  <2> QED
    BY <2>3, <2>4
<1>21. ASSUME NEW w \in Worker, LastFlush(w) PROVE Shape'
  <2>1. CShapeOf(w)'
    BY <1>21 DEF LastFlush, At, Goto, CTypeOK, Shape, CShapeOf, Calling, queue, walk, output
  <2> QED
    BY <1>21, <2>1, StepFrame, ShapeFrame DEF Step
<1>22. CASE UNCHANGED cvars
  BY <1>22 DEF Shape, CShapeOf, cvars, queue, walk, output, FirstPiece, g_multi
<1> QED
  BY <1>1, <1>2, <1>3, <1>4, <1>5, <1>6, <1>7, <1>8, <1>9, <1>10, <1>11, <1>12, <1>13,
     <1>14, <1>15, <1>16, <1>17, <1>18, <1>19, <1>20, <1>21, <1>22, <1>al, <1>re
     DEF CNext, MainStep, Step
-----------------------------------------------------------------------------
(* The phases of main.                                                     *)

\* From where a step of a thread leads where: it calls search_file or q_push without a
\* directory only while it already did, leaves its loop only when it saw
\* g_pending = 0, and does not come back.
LEMMA StepMoves ==
  ASSUME CTypeOK, Shape, NEW w \in Worker, Step(w)
  PROVE  /\ pc[w] \notin {"none", "arg", "spawn", "join", "left"} /\ status = -1
         /\ pc'[w] \notin {"none", "spawn"}
         /\ pc'[w] \in Calling \cup {"arg"} /\ dir'[w] = NoNode =>
              pc[w] \in Calling /\ dir[w] = NoNode
         /\ pc'[w] = "flush" => pc[w] = "test" /\ g_pending = 0
         /\ pc'[w] \in {"join", "left"} => pc[w] = "flush"
         /\ pc[w] = "flush" => pc'[w] \in {"join", "left"}
<1> DEFINE G == /\ pc[w] \notin {"none", "arg", "spawn", "join", "left"} /\ status = -1
                /\ pc'[w] \notin {"none", "spawn"}
                /\ pc'[w] \in Calling \cup {"arg"} /\ dir'[w] = NoNode =>
                     pc[w] \in Calling /\ dir[w] = NoNode
                /\ pc'[w] = "flush" => pc[w] = "test" /\ g_pending = 0
                /\ pc'[w] \in {"join", "left"} => pc[w] = "flush"
                /\ pc[w] = "flush" => pc'[w] \in {"join", "left"}
<1> SUFFICES G
  OBVIOUS
<1>1. CASE OpenDir(w)
  BY <1>1 DEF OpenDir, At, Goto, CTypeOK, Shape, CShapeOf, Calling, walk
<1>2. CASE ReadEntry(w)
  BY <1>2 DEF ReadEntry, Dispatch, Advance, Child, At, Goto, CTypeOK, Shape, CShapeOf, Calling, walk
<1>3. CASE CloseDir(w)
  BY <1>3 DEF CloseDir, At, Goto, CTypeOK, Shape, CShapeOf, Calling, walk
<1>al. CASE Alloc(w)
  BY <1>al DEF Alloc, Forget, Advance, At, Goto, CTypeOK, Shape, CShapeOf, Calling, walk
<1>re. CASE Refuse(w)
  BY <1>re DEF Refuse, Forget, Advance, At, Goto, CTypeOK, Shape, CShapeOf, Calling, walk
<1>4. CASE Push(w)
  BY <1>4 DEF Push, At, Goto, CTypeOK, Shape, CShapeOf, Calling, walk
<1>5. CASE Count(w)
  BY <1>5 DEF Count, Advance, At, Goto, CTypeOK, Shape, CShapeOf, Calling, walk
<1>6. CASE Pop(w)
  BY <1>6 DEF Pop, At, Goto, CTypeOK, Shape, CShapeOf, Calling, walk
<1>7. CASE TestPending(w)
  BY <1>7 DEF TestPending, At, Goto, CTypeOK, Shape, CShapeOf, Calling, walk
<1>8. CASE DirDone(w)
  BY <1>8 DEF DirDone, At, Goto, CTypeOK, Shape, CShapeOf, Calling, walk
<1>9. CASE StartFile(w)
  BY <1>9 DEF StartFile, Advance, Child, At, Goto, CTypeOK, Shape, CShapeOf, Calling, walk
<1>10. CASE EndFile(w)
  BY <1>10 DEF EndFile, Advance, At, Goto, CTypeOK, Shape, CShapeOf, Calling, walk
<1>11. CASE MakeRoom(w)
  BY <1>11 DEF MakeRoom, At, Goto, CTypeOK, Shape, CShapeOf, Calling, walk
<1>12. CASE KeepLine(w)
  BY <1>12 DEF KeepLine, At, Goto, CTypeOK, Shape, CShapeOf, Calling, walk
<1>13. CASE StreamLine(w)
  BY <1>13 DEF StreamLine, At, Goto, CTypeOK, Shape, CShapeOf, Calling, walk
<1>14. CASE WritePiece(w)
  BY <1>14 DEF WritePiece, At, Goto, CTypeOK, Shape, CShapeOf, Calling, walk
<1>15. CASE LastFlush(w)
  BY <1>15 DEF LastFlush, At, Goto, CTypeOK, Shape, CShapeOf, Calling, walk
<1> QED
  BY <1>1, <1>2, <1>3, <1>4, <1>5, <1>6, <1>7, <1>8, <1>9, <1>10, <1>11, <1>12, <1>13,
     <1>14, <1>15, <1>al, <1>re DEF Step

\* Every step of the program keeps Phases.
LEMMA PhasesStep == CWalkInv /\ [CNext]_cvars => Phases'
<1> SUFFICES ASSUME CWalkInv, [CNext]_cvars PROVE Phases'
  OBVIOUS
<1>0. CTypeOK /\ Shape /\ Phases
  BY DEF CWalkInv, Shape
<1>r. \A h \in Helper : h \in Nat \ {0} /\ h < nt
  BY CThreadAssumption DEF Worker, Main, Helper
<1> USE <1>0, <1>r, MainIsWorker
<1>1. CASE Argument
  BY <1>1 DEF Argument, Dispatch, Advance, At, Goto, CTypeOK, Phases, OnArguments, Calling
<1>2. CASE EndArguments
  BY <1>2 DEF EndArguments, At, Goto, CTypeOK, Phases, OnArguments, Calling
<1>3. CASE Create
  <2>1. pc[Main] = "spawn" /\ pc'[Main] = "spawn" /\ t' = t + 1 /\ UNCHANGED <<dir, status>> /\ status = -1
    BY <1>3 DEF Create, At, CTypeOK, Main
  <2>2. \A h \in Helper : pc'[h] = pc[h] \/ (h = t /\ pc'[h] = "pop")
    BY <1>3 DEF Create, CTypeOK
  <2>3. ~ OnArguments'
    BY <2>1 DEF OnArguments, Calling
  <2>4. \A h \in Helper : pc'[h] \in Calling => dir'[h] # NoNode
    BY <2>1, <2>2 DEF Phases, Calling
  <2>5. \A h \in Helper : h >= t' => pc'[h] = "none"
    <3>1. t \in Nat
      BY DEF CTypeOK
    <3>2. \A h \in Helper : h >= t + 1 => h # t /\ h >= t
      BY <3>1
    <3> QED
      BY <2>1, <2>2, <3>2 DEF Phases
  <2> QED
    BY <2>1, <2>3, <2>4, <2>5 DEF Phases
<1>4. CASE BecomeWorker
  BY <1>4 DEF BecomeWorker, At, Goto, CTypeOK, Phases, OnArguments, Calling
<1>5. CASE Join
  <2>1. pc[Main] = "join" /\ UNCHANGED <<pc, dir>> /\ status = -1
    BY <1>5 DEF Join, At, walk
  <2>2. \/ t' = t + 1 /\ status' = status /\ pc[t] \in {"left", "none"}
        \/ t' = t /\ status' = SIGSEGV
    BY <1>5 DEF Join
  <2>3. ~ OnArguments'
    BY <2>1 DEF OnArguments, Calling
  <2>4. \A h \in Helper : h < t' => pc'[h] \in {"none", "left"}
    BY <2>1, <2>2 DEF Phases, CTypeOK
  <2>5. status' \notin {0, 1, 2}
    BY <2>1, <2>2 DEF SIGSEGV
  <2> QED
    BY <2>1, <2>3, <2>4, <2>5 DEF Phases
<1>6. CASE Return
  BY <1>6 DEF Return, At, queue, room, walk, Phases, OnArguments, Calling, Joined
<1>7. ASSUME NEW w \in Worker, Step(w) PROVE Phases'
  <2>1. /\ \A v \in Worker \ {w} : pc'[v] = pc[v] /\ dir'[v] = dir[v]
        /\ UNCHANGED <<t, status>>
    BY <1>7, StepFrame DEF SameThread
  <2>2. /\ pc[w] \notin {"none", "arg", "spawn", "join", "left"} /\ status = -1
        /\ pc'[w] \notin {"none", "spawn"}
        /\ pc'[w] \in Calling \cup {"arg"} /\ dir'[w] = NoNode =>
              pc[w] \in Calling /\ dir[w] = NoNode
        /\ pc'[w] = "flush" => pc[w] = "test"
        /\ pc'[w] \in {"join", "left"} => pc[w] = "flush"
        /\ pc[w] = "flush" => pc'[w] \in {"join", "left"}
    BY <1>7, StepMoves
  <2>3. CASE w = Main
    <3>1. \A h \in Helper : pc'[h] = pc[h] /\ dir'[h] = dir[h]
      BY <2>1, <2>3
    <3>2. pc'[Main] = "arg" => pc[Main] \in Calling /\ dir[Main] = NoNode
      <4>1. CShapeOf(Main)'
        BY <1>7, ShapeStep DEF CNext, Shape
      <4> QED
        BY <4>1, <2>2, <2>3 DEF CShapeOf, Calling
    <3>3. OnArguments' => OnArguments
      BY <2>2, <2>3, <3>2 DEF OnArguments
    <3>4. pc[Main] \in {"flush", "join"} => pc'[Main] \in {"flush", "join"}
      <4>1. CShapeOf(Main)'
        BY <1>7, ShapeStep DEF CNext, Shape
      <4> QED
        BY <4>1, <2>2, <2>3 DEF CShapeOf
    <3>5. pc'[Main] \in {"flush", "join"} => pc[Main] = "flush" \/ t = 1
      BY <2>2, <2>3 DEF Phases
    <3>6. \A h \in Helper : pc'[Main] \in {"flush", "join"} /\ h < t' => pc'[h] \in {"none", "left"}
      BY <2>1, <3>1, <3>5 DEF Phases
    <3>7. pc'[Main] \notin {"spawn", "flush", "join"} => t' = 1
      BY <2>1, <2>2, <2>3, <3>4 DEF Phases
    <3> QED
      BY <2>1, <2>2, <2>3, <3>1, <3>3, <3>6, <3>7 DEF Phases
  <2>4. CASE w # Main
    <3>1. w \in Helper /\ pc'[Main] = pc[Main] /\ dir'[Main] = dir[Main]
      BY <2>1, <2>4 DEF Helper
    <3>2. ~ OnArguments /\ ~ OnArguments'
      BY <2>2, <3>1 DEF Phases, OnArguments
    <3>3. pc'[w] \in Calling => dir'[w] # NoNode
      BY <2>2, <3>1 DEF Phases
    <3>4. status' = -1 /\ t' = t
      BY <2>1, <2>2
    <3>5. \A h \in Helper : h # w => pc'[h] = pc[h] /\ dir'[h] = dir[h]
      BY <2>1
    <3>6. ASSUME NEW h \in Helper
          PROVE  /\ pc'[h] \in Calling => dir'[h] # NoNode
                 /\ pc'[Main] = "spawn" /\ h >= t' => pc'[h] = "none"
                 /\ pc'[Main] \in {"flush", "join"} /\ h < t' => pc'[h] \in {"none", "left"}
      BY <2>2, <3>1, <3>3, <3>4, <3>5 DEF Phases
    <3> QED
      BY <3>1, <3>2, <3>4, <3>6 DEF Phases
  <2> QED
    BY <2>3, <2>4
<1>8. CASE UNCHANGED cvars
  BY <1>8 DEF cvars, queue, room, walk, Phases, OnArguments, Joined
<1> QED
  BY <1>1, <1>2, <1>3, <1>4, <1>5, <1>6, <1>7, <1>8 DEF CNext, MainStep

\* A step that starts no thread.
LEMMA FirstOnesFrame ==
  ASSUME FirstOnes, UNCHANGED lang, \A h \in Helper : pc'[h] = "none" <=> pc[h] = "none",
         pc'[Main] = "spawn" => pc[Main] = "spawn" /\ t' = t
  PROVE  FirstOnes'
  BY DEF FirstOnes

\* Every step of the program keeps FirstOnes.
LEMMA FirstOnesStep == CWalkInv /\ [CNext]_cvars => FirstOnes'
<1> SUFFICES ASSUME CWalkInv, [CNext]_cvars PROVE FirstOnes'
  OBVIOUS
<1>0. CTypeOK /\ Shape /\ Phases /\ FirstOnes
  BY DEF CWalkInv, Shape
<1>r. \A h \in Helper : h \in Nat \ {0} /\ h < nt
  BY CThreadAssumption DEF Worker, Main, Helper
<1> USE <1>0, <1>r, MainIsWorker
<1>1. CASE Argument
  BY <1>1, FirstOnesFrame DEF Argument, Dispatch, Advance, At, Goto, CTypeOK, queue, room
<1>2. CASE EndArguments
  <2>1. \A h \in Helper : pc'[h] = "none"
    BY <1>2 DEF EndArguments, At, Goto, CTypeOK, Phases, OnArguments
  <2>2. pc'[Main] = "spawn" => t' = 1
    BY <1>2 DEF EndArguments, At, Goto, CTypeOK, Phases
  <2> QED
    BY <2>1, <2>2 DEF FirstOnes
<1>3. CASE Create
  <2>1. pc[Main] = "spawn" /\ t' = t + 1 /\ t \in Nat /\ lang' = lang
    BY <1>3 DEF Create, At, CTypeOK, queue, room
  <2> SUFFICES ASSUME lang = "zig", NEW h \in Helper, pc'[h] = "none"
               PROVE  h >= t' /\ \A i \in Helper : i > h => pc'[i] = "none"
    BY <2>1 DEF FirstOnes
  <2>2. pc' = [pc EXCEPT ![t] = "pop"]
    BY <1>3 DEF Create
  <2>3. h # t /\ pc[h] = "none"
    BY <2>2 DEF CTypeOK
  <2>4. h >= t
    BY <2>1, <2>3 DEF FirstOnes
  <2>5. \A i \in Helper : i > h => i # t /\ pc[i] = "none"
    BY <2>1, <2>3, <2>4 DEF FirstOnes
  <2>6. h >= t'
    BY <2>1, <2>3, <2>4
  <2>7. \A i \in Helper : i # t => pc'[i] = pc[i]
    BY <2>2 DEF CTypeOK
  <2> QED
    BY <2>5, <2>6, <2>7
<1>4. CASE BecomeWorker
  BY <1>4, FirstOnesFrame DEF BecomeWorker, At, Goto, CTypeOK, queue, room
<1>5. CASE Join \/ Return \/ UNCHANGED cvars
  BY <1>5, FirstOnesFrame DEF Join, Return, At, cvars, walk, queue, room
<1>6. ASSUME NEW w \in Worker, Step(w) PROVE FirstOnes'
  <2>1. /\ \A v \in Worker \ {w} : pc'[v] = pc[v]
        /\ UNCHANGED <<t, lang>>
    BY <1>6, StepFrame DEF SameThread
  <2>2. pc[w] # "none" /\ pc'[w] \notin {"none", "spawn"}
    BY <1>6, StepMoves
  <2> QED
    BY <2>1, <2>2, FirstOnesFrame
<1> QED
  BY <1>1, <1>2, <1>3, <1>4, <1>5, <1>6 DEF CNext, MainStep

-----------------------------------------------------------------------------
(* The counter.                                                            *)

\* The threads that hold a directory are finitely many.
LEMMA InHandFinite == IsFiniteSet(InHand) /\ Cardinality(InHand) \in Nat
<1>1. IsFiniteSet(Worker)
  BY FS_Interval, CThreadAssumption DEF Worker
<1>2. InHand \in SUBSET Worker
  BY DEF InHand
<1> QED
  BY <1>1, <1>2, FS_Subset, FS_CardinalityType

\* While the mutex of the queue is free nobody is between the store and the count.
LEMMA NobodyMidPush ==
  ASSUME Shape, g_qlock = NoOne
  PROVE  ~ MidPush
  BY MainIsWorker DEF Shape, CShapeOf, MidPush

\* A step that neither touches the queue nor counts.
LEMMA PendingFrame ==
  ASSUME PendingExact, Stored, UNCHANGED <<g_q, g_pending, dir>>,
         \A v \in Worker : pc'[v] = "count" <=> pc[v] = "count"
  PROVE  PendingExact' /\ Stored'
<1>1. InHand' = InHand
  BY DEF InHand
<1>2. MidPush' <=> MidPush
  BY DEF MidPush
<1> QED
  BY <1>1, <1>2 DEF PendingExact, Stored

\* Every step of the program keeps PendingExact and Stored.
LEMMA PendingStep == CWalkInv /\ [CNext]_cvars => PendingExact' /\ Stored'
<1> SUFFICES ASSUME CWalkInv, [CNext]_cvars PROVE PendingExact' /\ Stored'
  OBVIOUS
<1>0. CTypeOK /\ Shape /\ Phases /\ PendingExact /\ Stored
  BY DEF CWalkInv, Shape
<1>s. Len(g_q) \in Nat
  BY LenProperties DEF CTypeOK
<1> USE <1>0, <1>s, MainIsWorker
<1>1. CASE Argument
  BY <1>1, PendingFrame DEF Argument, Dispatch, Advance, Child, At, Goto, CTypeOK, queue, walk
<1>2. CASE EndArguments
  BY <1>2, PendingFrame DEF EndArguments, At, Goto, CTypeOK, queue, walk
<1>3. CASE Create
  <2>1. t \in Worker /\ pc[t] = "none"
    BY <1>3, CThreadAssumption DEF Create, At, CTypeOK, Worker, Main, Helper, Phases
  <2> QED
    BY <1>3, <2>1, PendingFrame DEF Create, CTypeOK, queue
<1>4. CASE BecomeWorker
  BY <1>4, PendingFrame DEF BecomeWorker, At, Goto, CTypeOK, queue, walk
<1>5. CASE Join
  BY <1>5, PendingFrame DEF Join, At, Goto, CTypeOK, queue, walk
<1>6. CASE Return
  BY <1>6, PendingFrame DEF Return, At, Goto, CTypeOK, queue, walk
<1>7. ASSUME NEW w \in Worker, OpenDir(w) PROVE PendingExact' /\ Stored'
  BY <1>7, PendingFrame DEF OpenDir, At, Goto, CTypeOK, queue, walk
<1>8. ASSUME NEW w \in Worker, ReadEntry(w) PROVE PendingExact' /\ Stored'
  BY <1>8, PendingFrame DEF ReadEntry, Dispatch, Advance, Child, At, Goto, CTypeOK, queue, walk
<1>9. ASSUME NEW w \in Worker, CloseDir(w) PROVE PendingExact' /\ Stored'
  BY <1>9, PendingFrame DEF CloseDir, At, Goto, CTypeOK, queue, walk
<1>al. ASSUME NEW w \in Worker, Alloc(w) PROVE PendingExact' /\ Stored'
  BY <1>al, PendingFrame DEF Alloc, Forget, Advance, At, Goto, CTypeOK, queue, walk
<1>re. ASSUME NEW w \in Worker, Refuse(w) PROVE PendingExact' /\ Stored'
  BY <1>re, PendingFrame DEF Refuse, Forget, Advance, At, Goto, CTypeOK, queue, walk
<1>10. ASSUME NEW w \in Worker, Push(w) PROVE PendingExact' /\ Stored'
  <2>1. ~ MidPush /\ InHand' = InHand
    BY <1>10, NobodyMidPush DEF Push, InHand
  <2>2. MidPush'
    BY <1>10 DEF Push, Goto, CTypeOK, MidPush
  <2>3. Child(w) \in Node
    BY <1>10, ChildType DEF Push, At, Shape, CShapeOf, Calling
  <2>4. g_q' = Append(g_q, Child(w)) /\ Len(g_q') = Len(g_q) + 1 /\ g_q' \in Seq(Node)
    BY <1>10, <2>3, AppendProperties DEF Push, CTypeOK
  <2>5. g_q' # <<>>
    BY <2>4, EmptySeq
  <2>6. g_pending' = g_pending
    BY <1>10 DEF Push
  <2>7. PendingExact'
    BY <2>1, <2>2, <2>4, <2>6, InHandFinite DEF PendingExact
  <2> QED
    BY <2>5, <2>7 DEF Stored
<1>11. ASSUME NEW w \in Worker, Count(w) PROVE PendingExact' /\ Stored'
  <2>1. MidPush /\ InHand' = InHand
    BY <1>11 DEF Count, At, MidPush, InHand
  <2>2. ~ MidPush'
    BY <1>11 DEF Count, Advance, At, Goto, CTypeOK, Shape, CShapeOf, MidPush
  <2>3. g_pending' = g_pending + 1 /\ g_q' = g_q
    BY <1>11 DEF Count
  <2> QED
    BY <2>1, <2>2, <2>3, InHandFinite DEF PendingExact, Stored, CTypeOK
<1>12. ASSUME NEW w \in Worker, Pop(w) PROVE PendingExact' /\ Stored'
  <2>1. ~ MidPush /\ ~ MidPush'
    BY <1>12, NobodyMidPush DEF Pop, Goto, CTypeOK, MidPush
  <2>2. CASE g_q = <<>>
    BY <1>12, <2>1, <2>2 DEF Pop, PendingExact, Stored, InHand
  <2>3. CASE g_q # <<>>
    <3>1. w \notin InHand
      BY <1>12 DEF Pop, At, Shape, CShapeOf, Calling, InHand
    <3>2. g_q' = Front(g_q) /\ dir' = [dir EXCEPT ![w] = Last(g_q)] /\ g_pending' = g_pending
      BY <1>12, <2>3 DEF Pop
    <3>3. Last(g_q) \in Node /\ Len(g_q') = Len(g_q) - 1
      BY <2>3, <3>2, PopType
    <3>n. Last(g_q) # NoNode
      BY <3>3, CNodeAssumption
    <3>4. InHand' = InHand \cup {w}
      BY <3>2, <3>n DEF CTypeOK, InHand
    <3>5. Cardinality(InHand') = Cardinality(InHand) + 1
      BY <3>1, <3>4, InHandFinite, FS_AddElement
    <3> QED
      BY <2>1, <3>2, <3>3, <3>5, InHandFinite DEF PendingExact, Stored, CTypeOK
  <2> QED
    BY <2>2, <2>3
<1>13. ASSUME NEW w \in Worker, TestPending(w) PROVE PendingExact' /\ Stored'
  BY <1>13, PendingFrame DEF TestPending, At, Goto, CTypeOK, queue, walk
<1>14. ASSUME NEW w \in Worker, DirDone(w) PROVE PendingExact' /\ Stored'
  <2>1. w \in InHand
    BY <1>14 DEF DirDone, At, Shape, CShapeOf, InHand
  <2>2. InHand' = InHand \ {w}
    BY <1>14 DEF DirDone, CTypeOK, InHand
  <2>3. Cardinality(InHand') = Cardinality(InHand) - 1
    BY <2>1, <2>2, InHandFinite, FS_RemoveElement
  <2>4. MidPush' <=> MidPush
    BY <1>14 DEF DirDone, At, Goto, CTypeOK, MidPush
  <2>5. g_pending' = g_pending - 1 /\ g_q' = g_q
    BY <1>14 DEF DirDone
  <2>6. PendingExact'
    BY <2>3, <2>4, <2>5, InHandFinite DEF PendingExact
  <2> QED
    BY <2>4, <2>5, <2>6 DEF Stored
<1>15. ASSUME NEW w \in Worker, StartFile(w) PROVE PendingExact' /\ Stored'
  BY <1>15, PendingFrame DEF StartFile, Advance, Child, At, Goto, CTypeOK, queue, walk
<1>16. ASSUME NEW w \in Worker, EndFile(w) PROVE PendingExact' /\ Stored'
  BY <1>16, PendingFrame DEF EndFile, Advance, At, Goto, CTypeOK, queue, walk
<1>17. ASSUME NEW w \in Worker, MakeRoom(w) PROVE PendingExact' /\ Stored'
  BY <1>17, PendingFrame DEF MakeRoom, At, Goto, CTypeOK, queue, walk
<1>18. ASSUME NEW w \in Worker, KeepLine(w) PROVE PendingExact' /\ Stored'
  BY <1>18, PendingFrame DEF KeepLine, At, Goto, CTypeOK, queue, walk
<1>19. ASSUME NEW w \in Worker, StreamLine(w) PROVE PendingExact' /\ Stored'
  BY <1>19, PendingFrame DEF StreamLine, At, Goto, CTypeOK, queue, walk
<1>20. ASSUME NEW w \in Worker, WritePiece(w) PROVE PendingExact' /\ Stored'
  BY <1>20, PendingFrame DEF WritePiece, At, Goto, CTypeOK, queue, walk
<1>21. ASSUME NEW w \in Worker, LastFlush(w) PROVE PendingExact' /\ Stored'
  BY <1>21, PendingFrame DEF LastFlush, At, Goto, CTypeOK, queue, walk
<1>22. CASE UNCHANGED cvars
  BY <1>22, PendingFrame DEF cvars, queue, walk
<1> QED
  BY <1>1, <1>2, <1>3, <1>4, <1>5, <1>6, <1>7, <1>8, <1>9, <1>10, <1>11, <1>12, <1>13,
     <1>14, <1>15, <1>16, <1>17, <1>18, <1>19, <1>20, <1>21, <1>22, <1>al, <1>re
     DEF CNext, MainStep, Step

-----------------------------------------------------------------------------
(* Nobody leaves early.                                                    *)

\* When g_pending is 0 and main is not in the middle of an argument, no directory is
\* left: the counter is short by one only while the directory not counted is queued.
LEMMA NothingQueued ==
  ASSUME CWalkInv, g_pending = 0, OnArguments => pc[Main] = "arg"
  PROVE  g_q = <<>> /\ InHand = {}
<1>1. CTypeOK /\ Shape /\ Phases /\ PendingExact /\ Stored
  BY DEF CWalkInv, Shape
<1>2. Len(g_q) \in Nat
  BY <1>1, LenProperties DEF CTypeOK
<1>3. ~ MidPush
  <2> SUFFICES ASSUME NEW w \in Worker, pc[w] = "count" PROVE FALSE
    BY DEF MidPush
  <2>1. dir[w] # NoNode
    BY <1>1 DEF Phases, OnArguments, Helper, Calling
  <2>2. w \in InHand /\ g_q # <<>>
    BY <1>1, <2>1 DEF InHand, Stored, MidPush
  <2>3. Cardinality(InHand) # 0
    BY <2>2, InHandFinite, FS_EmptySet
  <2>4. Len(g_q) # 0
    BY <1>1, <2>2, EmptySeq DEF CTypeOK
  <2>5. g_pending >= Len(g_q) + Cardinality(InHand) - 1
    BY <1>1, <1>2, InHandFinite DEF PendingExact
  <2> QED
    BY <1>2, <2>3, <2>4, <2>5, InHandFinite
<1>4. Len(g_q) = 0 /\ Cardinality(InHand) = 0
  BY <1>1, <1>2, <1>3, InHandFinite DEF PendingExact
<1> QED
  BY <1>1, <1>4, InHandFinite, EmptySeq, FS_EmptySet DEF CTypeOK

\* Once quiet, always quiet.
LEMMA QuietStable == CWalkInv /\ Quiet /\ [CNext]_cvars => Quiet'
<1> SUFFICES ASSUME CWalkInv, Quiet, [CNext]_cvars PROVE Quiet'
  OBVIOUS
<1>0. CTypeOK /\ Shape /\ Phases
  BY DEF CWalkInv, Shape
<1>q. /\ g_q = <<>>
      /\ \A w \in Worker : dir[w] = NoNode /\ pc[w] \notin Calling \cup {"arg", "open", "entry", "done"}
  BY <1>0 DEF Quiet, InHand, Shape, CShapeOf
<1>f. ASSUME UNCHANGED <<g_q, dir>>, \A w \in Worker : pc'[w] \notin Calling \cup {"arg"}
      PROVE  Quiet'
  BY <1>f DEF Quiet, InHand
<1> USE <1>0, <1>q, MainIsWorker
<1>1. CASE Argument
  BY <1>1 DEF Argument, At
<1>2. CASE EndArguments
  BY <1>2 DEF EndArguments, At
<1>3. CASE Create
  BY <1>3, <1>f DEF Create, At, Goto, CTypeOK, Calling, queue, walk
<1>4. CASE BecomeWorker
  BY <1>4, <1>f DEF BecomeWorker, At, Goto, CTypeOK, Calling, queue, walk
<1>5. CASE Join
  BY <1>5, <1>f DEF Join, At, Goto, CTypeOK, Calling, queue, walk
<1>6. CASE Return
  BY <1>6, <1>f DEF Return, At, Goto, CTypeOK, Calling, queue, walk
<1>7. ASSUME NEW w \in Worker, OpenDir(w) PROVE Quiet'
  BY <1>7 DEF OpenDir, At, Calling
<1>8. ASSUME NEW w \in Worker, ReadEntry(w) PROVE Quiet'
  BY <1>8 DEF ReadEntry, At, Calling
<1>9. ASSUME NEW w \in Worker, CloseDir(w) PROVE Quiet'
  BY <1>9 DEF CloseDir, At, Calling
<1>al. ASSUME NEW w \in Worker, Alloc(w) PROVE Quiet'
  BY <1>al DEF Alloc, At, Calling
<1>re. ASSUME NEW w \in Worker, Refuse(w) PROVE Quiet'
  BY <1>re DEF Refuse, At, Calling
<1>10. ASSUME NEW w \in Worker, Push(w) PROVE Quiet'
  BY <1>10 DEF Push, At, Calling
<1>11. ASSUME NEW w \in Worker, Count(w) PROVE Quiet'
  BY <1>11 DEF Count, At, Calling
<1>12. ASSUME NEW w \in Worker, Pop(w) PROVE Quiet'
  BY <1>12, <1>f DEF Pop, At, Goto, CTypeOK, Calling, queue, walk
<1>13. ASSUME NEW w \in Worker, TestPending(w) PROVE Quiet'
  BY <1>13, <1>f DEF TestPending, At, Goto, CTypeOK, Calling, queue, walk
<1>14. ASSUME NEW w \in Worker, DirDone(w) PROVE Quiet'
  BY <1>14 DEF DirDone, At, Calling
<1>15. ASSUME NEW w \in Worker, StartFile(w) PROVE Quiet'
  BY <1>15 DEF StartFile, At, Calling
<1>16. ASSUME NEW w \in Worker, EndFile(w) PROVE Quiet'
  BY <1>16 DEF EndFile, At, Calling
<1>17. ASSUME NEW w \in Worker, MakeRoom(w) PROVE Quiet'
  BY <1>17 DEF MakeRoom, At, Calling
<1>18. ASSUME NEW w \in Worker, KeepLine(w) PROVE Quiet'
  BY <1>18 DEF KeepLine, At, Calling
<1>19. ASSUME NEW w \in Worker, StreamLine(w) PROVE Quiet'
  BY <1>19 DEF StreamLine, At, Calling
<1>20. ASSUME NEW w \in Worker, WritePiece(w) PROVE Quiet'
  BY <1>20 DEF WritePiece, At, Calling
<1>21. ASSUME NEW w \in Worker, LastFlush(w) PROVE Quiet'
  BY <1>21, <1>f DEF LastFlush, At, Goto, CTypeOK, Calling, queue, walk
<1>22. CASE UNCHANGED cvars
  BY <1>22, <1>f DEF cvars, queue, walk, Quiet
<1> QED
  BY <1>1, <1>2, <1>3, <1>4, <1>5, <1>6, <1>7, <1>8, <1>9, <1>10, <1>11, <1>12, <1>13,
     <1>14, <1>15, <1>16, <1>17, <1>18, <1>19, <1>20, <1>21, <1>22, <1>al, <1>re
     DEF CNext, MainStep, Step

\* A step after which some thread has left its loop, and before which none had, found
\* g_pending = 0: in the loop, or at the end of the arguments.
LEMMA FirstLeave ==
  ASSUME CWalkInv, [CNext]_cvars, \A v \in Worker : ~ LeftLoop(v),
         NEW u \in Worker, LeftLoop(u)'
  PROVE  Quiet \/ (EndArguments /\ g_pending = 0)
<1>0. CTypeOK /\ Shape /\ Phases
  BY DEF CWalkInv, Shape
<1>u. pc'[u] \in {"flush", "join", "left"} /\ pc[u] \notin {"flush", "join", "left"}
  BY DEF LeftLoop
<1> USE <1>0, <1>u, MainIsWorker
<1> DEFINE G == Quiet \/ (EndArguments /\ g_pending = 0)
<1> SUFFICES G
  OBVIOUS
<1>1. CASE Argument
  BY <1>1 DEF Argument, Dispatch, Advance, At, Goto, CTypeOK
<1>2. CASE EndArguments
  <2>1. g_pending = 0
    <3>1. ~ MidPush
      BY <1>2 DEF EndArguments, At, MidPush, Phases, OnArguments, Helper
    <3>3. g_pending = Len(g_q) + Cardinality(InHand) /\ Len(g_q) \in Nat
      BY <3>1, LenProperties, InHandFinite DEF CWalkInv, PendingExact, CTypeOK
    <3>2. ~ (g_pending > 0)
      BY <1>2 DEF EndArguments, Goto, At, CTypeOK
    <3> QED
      BY <3>2, <3>3, InHandFinite
  <2> QED
    BY <1>2, <2>1
<1>3. CASE Create
  BY <1>3 DEF Create, CTypeOK
<1>4. CASE BecomeWorker
  BY <1>4 DEF BecomeWorker, Goto, CTypeOK
<1>5. CASE Join \/ Return \/ UNCHANGED cvars
  BY <1>5 DEF Join, Return, cvars, walk
<1>6. ASSUME NEW w \in Worker, Step(w) PROVE G
  <2>1. u = w
    BY <1>6, StepFrame DEF SameThread
  <2>2. pc[w] = "test" /\ g_pending = 0
    BY <1>6, <2>1, StepMoves
  <2>3. ~ OnArguments
    BY <2>2 DEF Phases, OnArguments, Calling, Helper
  <2>4. g_q = <<>> /\ InHand = {}
    BY <2>2, <2>3, NothingQueued
  <2>5. \A v \in Worker : pc[v] \notin Calling \cup {"arg"}
    BY <2>3, <2>4 DEF InHand, Phases, OnArguments, Helper, Shape, CShapeOf
  <2> QED
    BY <2>4, <2>5 DEF Quiet
<1> QED
  BY <1>1, <1>2, <1>3, <1>4, <1>5, <1>6 DEF CNext, MainStep

\* Every step of the program keeps NoEarlyExit.
LEMMA NoEarlyExitStep == CWalkInv /\ [CNext]_cvars => NoEarlyExit'
<1> SUFFICES ASSUME CWalkInv, [CNext]_cvars, NEW u \in Worker, LeftLoop(u)' PROVE Quiet'
  BY DEF NoEarlyExit
<1>0. CTypeOK /\ Shape /\ Phases
  BY DEF CWalkInv, Shape
<1>1. CASE \E w \in Worker : LeftLoop(w)
  BY <1>1, QuietStable DEF CWalkInv, NoEarlyExit
<1>2. CASE \A w \in Worker : ~ LeftLoop(w)
  <2>1. CASE Quiet
    BY <2>1, QuietStable
  <2>2. CASE EndArguments /\ g_pending = 0
    <3>1. pc[Main] = "arg" /\ \A h \in Helper : pc[h] = "none"
      BY <1>0, <2>2 DEF EndArguments, At, Phases, OnArguments
    <3>2. g_q = <<>> /\ InHand = {}
      BY <2>2, <3>1, NothingQueued
    <3>3. UNCHANGED <<g_q, dir>> /\ pc'[Main] = "flush" /\ \A h \in Helper : pc'[h] = "none"
      BY <1>0, <2>2, <3>1, MainIsWorker DEF EndArguments, Goto, CTypeOK, queue
    <3>4. \A v \in Worker : pc'[v] \notin Calling \cup {"arg"}
      BY <3>3 DEF Helper, Calling
    <3> QED
      BY <3>2, <3>3, <3>4 DEF Quiet, InHand
  <2> QED
    BY <1>2, <2>1, <2>2, FirstLeave
<1> QED
  BY <1>1, <1>2

\* Every step of the program keeps the walk's part of the invariant.
LEMMA WalkStep == CWalkInv /\ [CNext]_cvars => CWalkInv'
<1> SUFFICES ASSUME CWalkInv, [CNext]_cvars PROVE CWalkInv'
  OBVIOUS
<1>1. CTypeOK' /\ Shape' /\ Phases' /\ FirstOnes' /\ PendingExact' /\ Stored' /\ NoEarlyExit'
  BY TypeStep, ShapeStep, PhasesStep, FirstOnesStep, PendingStep, NoEarlyExitStep
<1> QED
  BY <1>1 DEF CWalkInv, Shape

-----------------------------------------------------------------------------
(* The output.                                                             *)

\* The pieces of a line are numbered from 1 or from 3 to 4, and stay so.
LEMMA PieceRange == FirstPiece \in {1, 3} /\ LastPiece = 4 /\ FirstPiece' = FirstPiece
  BY DEF FirstPiece, LastPiece, g_multi

\* What appending one write does.
LEMMA AppendedWrite ==
  ASSUME CTypeOK, NEW x \in Write, stdout' = Append(stdout, x)
  PROVE  LET n == Len(stdout) IN
         /\ n \in Nat /\ Len(stdout') = n + 1 /\ stdout' # <<>>
         /\ stdout'[n + 1] = x /\ \A i \in 1 .. n : stdout'[i] = stdout[i]
         /\ DOMAIN stdout = 1 .. n /\ DOMAIN stdout' = 1 .. n + 1
<1>1. stdout \in Seq(Write) /\ stdout' \in Seq(Write)
  BY AppendProperties DEF CTypeOK
<1>2. /\ Len(stdout) \in Nat /\ Len(stdout') = Len(stdout) + 1
      /\ stdout'[Len(stdout) + 1] = x
      /\ \A i \in 1 .. Len(stdout) : stdout'[i] = stdout[i]
  BY <1>1, AppendProperties, LenProperties DEF CTypeOK
<1>3. DOMAIN stdout = 1 .. Len(stdout) /\ DOMAIN stdout' = 1 .. Len(stdout) + 1
  BY <1>1, <1>2, LenProperties
<1>4. stdout' # <<>>
  BY <1>1, <1>2, EmptySeq
<1> QED
  BY <1>2, <1>3, <1>4

\* NoneSplit survives a write that starts a line at a line boundary, or that is the
\* next piece after the last write.
LEMMA NoneSplitAppend ==
  ASSUME CTypeOK, NoneSplit, NEW x \in Write, stdout' = Append(stdout, x),
         \/ StartsLine(x) /\ AtBoundary
         \/ ~ StartsLine(x) /\ stdout # <<>> /\ x = [stdout[Len(stdout)] EXCEPT !.piece = @ + 1]
  PROVE  NoneSplit'
<1> DEFINE n == Len(stdout)
<1>1. /\ n \in Nat /\ stdout'[n + 1] = x /\ \A i \in 1 .. n : stdout'[i] = stdout[i]
      /\ DOMAIN stdout = 1 .. n /\ DOMAIN stdout' = 1 .. n + 1
  BY AppendedWrite
<1>2. stdout = <<>> <=> n = 0
  BY EmptySeq DEF CTypeOK
<1> HIDE DEF n
<1> SUFFICES ASSUME NEW i \in 1 .. n + 1
             PROVE IF StartsLine(stdout'[i])
                     THEN i = 1 \/ EndsLine(stdout'[i - 1])
                     ELSE /\ i > 1
                          /\ stdout'[i] = [stdout'[i - 1] EXCEPT !.piece = @ + 1]
  BY <1>1, PieceRange DEF NoneSplit, StartsLine, EndsLine, LastPiece
<1>3. CASE i <= n
  <2>1. i \in 1 .. n /\ stdout'[i] = stdout[i] /\ (i > 1 => stdout'[i - 1] = stdout[i - 1])
    BY <1>1, <1>3
  <2> QED
    BY <2>1, <1>1 DEF NoneSplit
<1>4. CASE i = n + 1
  <2>1. stdout'[i] = x /\ (n > 0 => stdout'[i - 1] = stdout[n])
    BY <1>1, <1>4
  <2>2. CASE StartsLine(x) /\ AtBoundary
    <3>1. n = 0 \/ EndsLine(stdout[n])
      BY <1>2, <2>2 DEF AtBoundary, n
    <3> QED
      BY <1>1, <1>4, <2>1, <2>2, <3>1
  <2>3. CASE ~ StartsLine(x) /\ stdout # <<>> /\ x = [stdout[Len(stdout)] EXCEPT !.piece = @ + 1]
    <3>1. n > 0 /\ x = [stdout[n] EXCEPT !.piece = @ + 1]
      BY <1>1, <1>2, <2>3 DEF n
    <3> QED
      BY <1>1, <1>4, <2>1, <2>3, <3>1
  <2> QED
    BY <2>2, <2>3
<1> QED
  BY <1>1, <1>3, <1>4

OutputOK == Streaming /\ NoneSplit

\* A step that writes nothing, and of whoever holds the mutex neither moves the piece
\* nor takes the line away.
LEMMA NoWrite ==
  ASSUME OutputOK, UNCHANGED <<stdout, g_outlock>>,
         \A v \in Worker : g_outlock = v => piece'[v] = piece[v] /\ lines'[v] = lines[v]
  PROVE  OutputOK'
  BY DEF OutputOK, Streaming, AtBoundary, NoneSplit, Current, StartsLine, EndsLine, FirstPiece,
         LastPiece, g_multi

\* A whole buffer is written while nobody holds the mutex.
LEMMA FlushStep ==
  ASSUME CTypeOK, OutputOK, NEW w \in Worker, FlushCtx(w), ~ write_failed',
         UNCHANGED <<g_outlock, piece, lines>>
  PROVE  OutputOK'
<1>1. CASE obuf[w] = <<>>
  BY <1>1, NoWrite DEF FlushCtx
<1>2. CASE obuf[w] # <<>>
  <2> DEFINE x == [by |-> w, lines |-> obuf[w], piece |-> 0]
  <2>1. g_outlock = NoOne /\ stdout' = Append(stdout, x)
    BY <1>2 DEF FlushCtx, SysWrite
  <2>2. x \in Write
    BY DEF CTypeOK, Write, LastPiece
  <2>3. StartsLine(x) /\ AtBoundary
    BY <2>1 DEF StartsLine, OutputOK, Streaming
  <2>4. NoneSplit'
    BY <2>1, <2>2, <2>3, NoneSplitAppend DEF OutputOK
  <2>5. AtBoundary'
    BY <2>1, <2>2, AppendedWrite DEF AtBoundary, EndsLine
  <2>6. \A v \in Worker : g_outlock' # v
    BY <2>1, MainIsWorker
  <2> QED
    BY <2>4, <2>5, <2>6 DEF OutputOK, Streaming
<1> QED
  BY <1>1, <1>2

\* The holder of the mutex writes the next piece of its line.
LEMMA PieceStep ==
  ASSUME CTypeOK, Shape, OutputOK, NEW w \in Worker, WritePiece(w), ~ write_failed'
  PROVE  OutputOK'
<1> DEFINE x == [by |-> w, lines |-> <<Current(w)>>, piece |-> piece[w]]
           last == stdout[Len(stdout)]
<1> USE MainIsWorker
<1>1. g_outlock = w /\ lines[w] # <<>> /\ piece[w] >= FirstPiece /\ piece[w] \in 1 .. LastPiece
  BY DEF WritePiece, At, Shape, CShapeOf, CTypeOK
<1>2. stdout' = Append(stdout, x)
  BY DEF WritePiece, SysWrite
<1>3. x \in Write
  <2>1. <<Current(w)>> \in Seq(Line) /\ piece[w] \in 0 .. LastPiece
    BY <1>1, CurrentType, PieceRange
  <2> QED
    BY <2>1 DEF Write
<1>4. stdout' # <<>> /\ stdout'[Len(stdout')] = x
  BY <1>2, <1>3, AppendedWrite
<1>5. NoneSplit'
  <2>1. CASE piece[w] = FirstPiece
    <3>1. StartsLine(x) /\ AtBoundary
      BY <1>1, <2>1 DEF StartsLine, OutputOK, Streaming
    <3> QED
      BY <1>2, <1>3, <3>1, NoneSplitAppend DEF OutputOK
  <2>2. CASE piece[w] # FirstPiece
    <3>1. stdout # <<>> /\ last = [by |-> w, lines |-> <<Current(w)>>, piece |-> piece[w] - 1]
      BY <1>1, <2>2 DEF OutputOK, Streaming
    <3>2. ~ StartsLine(x)
      BY <1>1, <2>2, PieceRange DEF StartsLine
    <3>3. x = [last EXCEPT !.piece = @ + 1]
      BY <1>1, <3>1, PieceRange
    <3> QED
      BY <1>2, <1>3, <3>1, <3>2, <3>3, NoneSplitAppend DEF OutputOK
  <2> QED
    BY <2>1, <2>2
<1>6. CASE piece[w] = LastPiece
  <2>1. g_outlock' = NoOne
    BY <1>6 DEF WritePiece
  <2>2. AtBoundary'
    BY <1>4, <1>6, PieceRange DEF AtBoundary, EndsLine, LastPiece
  <2> QED
    BY <1>5, <2>1, <2>2 DEF OutputOK, Streaming
<1>7. CASE piece[w] # LastPiece
  <2>1. piece'[w] = piece[w] + 1 /\ g_outlock' = w /\ UNCHANGED lines
    BY <1>1, <1>7 DEF WritePiece, CTypeOK
  <2>2. piece'[w] # FirstPiece'
    BY <1>1, <2>1, PieceRange
  <2>3. Current(w)' = Current(w) /\ piece'[w] - 1 = piece[w]
    BY <1>1, <2>1 DEF Current
  <2>4. Streaming'
    BY <1>4, <2>1, <2>2, <2>3 DEF Streaming
  <2> QED
    BY <1>5, <2>4 DEF OutputOK
<1> QED
  BY <1>6, <1>7

\* As long as no write() has failed, every step keeps OutputOK.
LEMMA OutputStep ==
  ASSUME ~ write_failed', CIInv, [CNext]_cvars
  PROVE  OutputOK'
<1>w. ~ write_failed
  BY DEF CNext, MainStep, Step, cvars, output, Argument, EndArguments, Create, BecomeWorker, Join,
         Return, OpenDir, ReadEntry, CloseDir, Alloc, Refuse, Push, Count, Pop, TestPending, DirDone, StartFile,
         EndFile, MakeRoom, KeepLine, StreamLine, WritePiece, LastFlush, FlushCtx, SysWrite
<1>0. CTypeOK /\ Shape /\ OutputOK
  BY <1>w DEF CIInv, CWalkInv, Shape, OutputOK
<1> USE <1>0, MainIsWorker
<1>1. CASE Argument
  BY <1>1, NoWrite DEF Argument, output
<1>2. CASE EndArguments
  BY <1>2, NoWrite DEF EndArguments, output
<1>3. CASE Create
  BY <1>3, NoWrite DEF Create, output
<1>4. CASE BecomeWorker
  BY <1>4, NoWrite DEF BecomeWorker, output
<1>5. CASE Join
  BY <1>5, NoWrite DEF Join, output
<1>6. CASE Return
  BY <1>6, NoWrite DEF Return, output
<1>7. ASSUME NEW w \in Worker, OpenDir(w) PROVE OutputOK'
  BY <1>7, NoWrite DEF OpenDir, output
<1>8. ASSUME NEW w \in Worker, ReadEntry(w) PROVE OutputOK'
  BY <1>8, NoWrite DEF ReadEntry, output
<1>9. ASSUME NEW w \in Worker, CloseDir(w) PROVE OutputOK'
  BY <1>9, NoWrite DEF CloseDir, output
<1>al. ASSUME NEW w \in Worker, Alloc(w) PROVE OutputOK'
  BY <1>al, NoWrite DEF Alloc, output
<1>re. ASSUME NEW w \in Worker, Refuse(w) PROVE OutputOK'
  BY <1>re, NoWrite DEF Refuse, output
<1>10. ASSUME NEW w \in Worker, Push(w) PROVE OutputOK'
  BY <1>10, NoWrite DEF Push, output
<1>11. ASSUME NEW w \in Worker, Count(w) PROVE OutputOK'
  BY <1>11, NoWrite DEF Count, output
<1>12. ASSUME NEW w \in Worker, Pop(w) PROVE OutputOK'
  BY <1>12, NoWrite DEF Pop, output
<1>13. ASSUME NEW w \in Worker, TestPending(w) PROVE OutputOK'
  BY <1>13, NoWrite DEF TestPending, output
<1>14. ASSUME NEW w \in Worker, DirDone(w) PROVE OutputOK'
  BY <1>14, NoWrite DEF DirDone, output
<1>15. ASSUME NEW w \in Worker, StartFile(w) PROVE OutputOK'
  <2>1. g_outlock # w
    BY <1>15 DEF StartFile, At, Shape, CShapeOf
  <2> QED
    BY <1>15, <2>1, NoWrite DEF StartFile, CTypeOK, output
<1>16. ASSUME NEW w \in Worker, EndFile(w) PROVE OutputOK'
  BY <1>16, NoWrite DEF EndFile, output
<1>17. ASSUME NEW w \in Worker, MakeRoom(w) PROVE OutputOK'
  BY <1>17, FlushStep DEF MakeRoom
<1>18. ASSUME NEW w \in Worker, KeepLine(w) PROVE OutputOK'
  <2>1. g_outlock # w
    BY <1>18 DEF KeepLine, At, Shape, CShapeOf
  <2> QED
    BY <1>18, <2>1, NoWrite DEF KeepLine, CTypeOK, output
<1>19. ASSUME NEW w \in Worker, StreamLine(w) PROVE OutputOK'
  <2>1. g_outlock = NoOne /\ g_outlock' = w /\ piece'[w] = FirstPiece /\ UNCHANGED stdout
    BY <1>19 DEF StreamLine, CTypeOK
  <2>2. AtBoundary' /\ NoneSplit'
    BY <2>1 DEF OutputOK, Streaming, AtBoundary, NoneSplit, StartsLine, EndsLine, FirstPiece, LastPiece, g_multi
  <2> QED
    BY <2>1, <2>2, PieceRange DEF OutputOK, Streaming
<1>20. ASSUME NEW w \in Worker, WritePiece(w) PROVE OutputOK'
  BY <1>20, PieceStep
<1>21. ASSUME NEW w \in Worker, LastFlush(w) PROVE OutputOK'
  BY <1>21, FlushStep DEF LastFlush
<1>22. CASE UNCHANGED cvars
  BY <1>22, NoWrite DEF cvars, output
<1> QED
  BY <1>1, <1>2, <1>3, <1>4, <1>5, <1>6, <1>7, <1>8, <1>9, <1>10, <1>11, <1>12, <1>13,
     <1>14, <1>15, <1>16, <1>17, <1>18, <1>19, <1>20, <1>21, <1>22, <1>al, <1>re
     DEF CNext, MainStep, Step

-----------------------------------------------------------------------------
(* The theorems.                                                           *)

\* The invariant holds at the start: main alone, on its first argument.
LEMMA InitCIInv == CInit => CIInv
<1> SUFFICES ASSUME CInit PROVE CIInv
  OBVIOUS
<1> USE MainIsWorker
<1>1. \A w \in Worker : /\ pc[w] = (IF w = Main THEN "arg" ELSE "none") /\ dir[w] = NoNode
                        /\ lines[w] = <<>> /\ piece[w] = 1
  BY DEF CInit
<1>2. CTypeOK
  <2>1. <<>> \in Seq(Node) /\ Paths \in Seq(Node) /\ <<>> \in Seq(Line) /\ <<>> \in Seq(Write)
    BY CNodeAssumption
  <2>2. todo \in [Worker -> Seq(Node)] /\ lines \in [Worker -> Seq(Line)]
    BY <2>1 DEF CInit
  <2>3. obuf \in [Worker -> Seq(Line)] /\ stdout \in Seq(Write) /\ g_q \in Seq(Node)
    BY <2>1 DEF CInit
  <2>4. pc \in [Worker -> PCs] /\ dir \in [Worker -> Node \cup {NoNode}]
    BY DEF CInit, PCs
  <2>5. piece \in [Worker -> 1 .. LastPiece]
    BY DEF CInit, LastPiece
  <2>6. t \in 1 .. nt /\ status \in {-1, 0, 1, 2, SIGSEGV}
    BY CThreadAssumption DEF CInit
  <2>7. g_qlock \in Worker \cup {NoOne} /\ g_outlock \in Worker \cup {NoOne} /\ g_pending \in Int
    BY DEF CInit
  <2>8. lang \in {"c", "zig"} /\ arena_off \in Nat
    BY DEF CInit
  <2> QED
    BY <2>2, <2>3, <2>4, <2>5, <2>6, <2>7, <2>8 DEF CTypeOK
<1>3. \A w \in Worker : CShapeOf(w)
  BY <1>1 DEF CInit, CShapeOf, Calling
<1>4. Phases
  BY <1>1 DEF CInit, Phases, OnArguments, Calling, Helper
<1>f. FirstOnes
  BY <1>1 DEF FirstOnes, Helper
<1>5. ~ MidPush /\ InHand = {} /\ \A w \in Worker : ~ LeftLoop(w)
  BY <1>1 DEF MidPush, InHand, LeftLoop
<1>6. PendingExact /\ Stored /\ NoEarlyExit
  BY <1>5, FS_EmptySet, EmptySeq DEF CInit, PendingExact, Stored, NoEarlyExit
<1>7. Streaming /\ NoneSplit
  <2>1. stdout = <<>> /\ g_outlock = NoOne
    BY DEF CInit
  <2> QED
    BY <2>1 DEF Streaming, AtBoundary, NoneSplit
<1> QED
  BY <1>2, <1>3, <1>4, <1>f, <1>6, <1>7 DEF CIInv, CWalkInv

\* Every step keeps it.
LEMMA NextCIInv == CIInv /\ [CNext]_cvars => CIInv'
<1> SUFFICES ASSUME CIInv, [CNext]_cvars PROVE CIInv'
  OBVIOUS
<1>1. CWalkInv'
  BY WalkStep DEF CIInv
<1>2. ~ write_failed' => Streaming' /\ NoneSplit'
  BY OutputStep DEF OutputOK
<1> QED
  BY <1>1, <1>2 DEF CIInv

\* The inductive invariant of the C program, whatever pthread_create and write() do.
THEOREM CSafety == CSpec => []CIInv
  BY InitCIInv, NextCIInv, PTL DEF CSpec

\* g_pending is exactly the work that is queued or in hand.
THEOREM CPendingCounts == CSpec => []PendingExact
<1>1. CIInv => PendingExact
  BY DEF CIInv, CWalkInv
<1> QED
  BY <1>1, CSafety, PTL

\* A worker that saw g_pending = 0 outside q_pop's mutex saw the end of the search.
THEOREM CNobodyLeavesEarly == CSpec => []NoEarlyExit
<1>1. CIInv => NoEarlyExit
  BY DEF CIInv, CWalkInv
<1> QED
  BY <1>1, CSafety, PTL

\* The threads that main created have left when it returns.
LEMMA HelpersAreDone == CIInv => HelpersDone
<1> SUFFICES ASSUME CIInv, status \in {0, 1, 2}, NEW h \in Helper
             PROVE  pc[h] \in {"none", "left"}
  BY DEF HelpersDone
<1>0. Phases /\ FirstOnes /\ CTypeOK
  BY DEF CIInv, CWalkInv
<1>1. h \in Nat \ {0} /\ h < nt /\ t \in Nat \ {0} /\ t <= nt /\ nt \in Nat
  BY <1>0, CThreadAssumption DEF CTypeOK, Helper, Worker, Main
<1>2. pc[Main] = "join" /\ Joined
  BY <1>0 DEF Phases
<1>3. CASE h < t
  BY <1>0, <1>2, <1>3 DEF Phases
<1>4. CASE h >= t
  <2>1. t \in Helper /\ lang = "zig" /\ pc[t] = "none"
    BY <1>1, <1>2, <1>4 DEF Joined, Helper, Worker, Main
  <2>2. h = t \/ pc[h] = "none"
    BY <1>0, <1>1, <1>4, <2>1 DEF FirstOnes
  <2> QED
    BY <2>1, <2>2
<1> QED
  BY <1>1, <1>3, <1>4

\* main returns after every thread it created, however many those are.
THEOREM CHelpersAreDone == CSpec => []HelpersDone
  BY HelpersAreDone, CSafety, PTL

\* As long as no write() has failed, no line on stdout is split.
THEOREM CWholeLines == CSpec => []LinesWhole
<1>1. CIInv => LinesWhole
  BY DEF CIInv, LinesWhole
<1> QED
  BY <1>1, CSafety, PTL
-----------------------------------------------------------------------------
(* The refinement of TreeSearch: the invariant CRInv.                      *)

\* The threads other than the one that does the step stay where they are.
OthersStay(w) == \A v \in Worker \ {w} : SameThread(v)

\* What an entry or argument that is picked up is: a regular file, or with -r a
\* directory, and then of that kind.
LEMMA KindOfPicked ==
  ASSUME NEW x \in Node, NEW kind \in {Mode[x], EntryKind(x)}, kind \in {"REG", "DIR"}
  PROVE  Kind(x) = kind
  BY TypesAgree DEF Kind, EntryKind

\* A step of w that leaves the other threads alone keeps Hands if it keeps w's part.
LEMMA HandsFrame ==
  ASSUME Hands, NEW w \in Worker, HandOf(w)', OthersStay(w)
  PROVE  Hands'
<1> SUFFICES ASSUME NEW v \in Worker \ {w} PROVE HandOf(v)'
  BY DEF Hands
<1>1. HandOf(v) /\ SameThread(v)
  BY DEF Hands, OthersStay
<1> QED
  BY <1>1 DEF HandOf, PicksUp, Child, SameThread

\* Going on to the next entry is always fine for a thread that has no lines.
LEMMA AdvanceHand ==
  ASSUME CTypeOK, Hands, NEW w \in Worker, Advance(w), UNCHANGED <<dir, lines>>, lines[w] = <<>>
  PROVE  HandOf(w)'
  BY DEF CTypeOK, Hands, Advance, Goto, HandOf, Calling

\* Dispatch leaves a thread with a path of the right kind in hand, or passes it over.
LEMMA DispatchHand ==
  ASSUME CTypeOK, Shape, Hands, NEW w \in Worker, todo[w] # <<>>, UNCHANGED <<dir, lines>>,
         pc[w] = (IF dir[w] = NoNode THEN "arg" ELSE "entry"),
         Dispatch(w, IF dir[w] = NoNode THEN Mode[Child(w)] ELSE EntryKind(Child(w)))
  PROVE  HandOf(w)'
<1> DEFINE kind == IF dir[w] = NoNode THEN Mode[Child(w)] ELSE EntryKind(Child(w))
<1>1. Child(w) \in Node /\ HandOf(w) /\ lines[w] = <<>>
  BY ChildType DEF Hands, HandOf
<1>2. kind \in {"REG", "DIR"} => Kind(Child(w)) = kind
  BY <1>1, KindOfPicked
<1>3. ASSUME UNCHANGED todo,
             \/ kind = "DIR" /\ g_r /\ pc'[w] \in {"alloc", "push"}
             \/ kind = "REG" /\ pc'[w] = "file"
      PROVE  HandOf(w)'
  BY <1>1, <1>2, <1>3 DEF HandOf, PicksUp, Wanted, Calling, Child
<1>4. ASSUME Advance(w) PROVE HandOf(w)'
  BY <1>1, <1>4, AdvanceHand
<1>5. \A l \in PCs : Goto(w, l) => pc'[w] = l
  BY DEF Goto, CTypeOK
<1>6. Dispatch(w, kind)
  OBVIOUS
<1> HIDE DEF kind
<1>7. {"alloc", "push", "file"} \subseteq PCs
  BY DEF PCs
<1>8. CASE kind = "DIR" /\ g_r /\ Goto(w, IF lang = "zig" THEN "alloc" ELSE "push") /\ UNCHANGED todo
  <2>1. pc'[w] \in {"alloc", "push"}
    BY <1>5, <1>7, <1>8
  <2> QED
    BY <1>3, <1>8, <2>1
<1>9. CASE kind = "REG" /\ Goto(w, "file") /\ UNCHANGED todo
  <2>1. pc'[w] = "file"
    BY <1>5, <1>7, <1>9
  <2> QED
    BY <1>3, <1>9, <2>1
<1> QED
  BY <1>4, <1>6, <1>8, <1>9 DEF Dispatch

\* Every step of the program keeps Hands.
LEMMA HandsStep == CWalkInv /\ Hands /\ DirsQueued /\ [CNext]_cvars => Hands'
<1> SUFFICES ASSUME CWalkInv, Hands, DirsQueued, [CNext]_cvars PROVE Hands'
  OBVIOUS
<1>0. CTypeOK /\ Shape /\ Phases
  BY DEF CWalkInv, Shape
<1> USE <1>0, MainIsWorker
<1>f. ASSUME NEW w \in Worker, Step(w), HandOf(w)' PROVE Hands'
  BY <1>f, StepFrame, HandsFrame DEF OthersStay
<1>1. CASE Argument
  <2>1. pc[Main] = "arg" /\ dir[Main] = NoNode
    BY <1>1 DEF Argument, At, Shape, CShapeOf, Calling
  <2>2. HandOf(Main)'
    BY <1>1, <2>1, DispatchHand DEF Argument
  <2> QED
    BY <1>1, <2>2, MainFrame, HandsFrame DEF OthersStay
<1>2. CASE EndArguments \/ BecomeWorker \/ Join \/ Return
  <2>1. HandOf(Main)'
    BY <1>2 DEF EndArguments, BecomeWorker, Join, Return, At, Goto, CTypeOK, Hands, HandOf, PicksUp, Child,
                Calling, walk
  <2> QED
    BY <1>2, <2>1, MainFrame, HandsFrame DEF OthersStay
<1>3. CASE Create
  <2>1. PICK h \in Helper : h = t
    BY <1>3, CThreadAssumption DEF Create, CTypeOK, Worker, Main, Helper
  <2>2. h \in Worker /\ pc[h] = "none"
    BY <1>3, <2>1 DEF Create, At, Phases, CTypeOK
  <2>3. /\ pc'[h] \in {"none", "pop"} /\ UNCHANGED <<dir, todo, lines>> /\ OthersStay(h)
    BY <1>3, <2>1, <2>2 DEF Create, CTypeOK, OthersStay, SameThread, queue, output
  <2>4. HandOf(h)'
    BY <2>2, <2>3 DEF Hands, HandOf, Calling
  <2> QED
    BY <2>2, <2>3, <2>4, HandsFrame
<1>4. ASSUME NEW w \in Worker, OpenDir(w) PROVE Hands'
  <2>1. HandOf(w)'
    BY <1>4 DEF OpenDir, At, Goto, CTypeOK, Hands, HandOf, Calling
  <2> QED
    BY <1>4, <1>f, <2>1 DEF Step
<1>5. ASSUME NEW w \in Worker, ReadEntry(w) PROVE Hands'
  <2>1. dir[w] # NoNode /\ UNCHANGED <<dir, lines>> /\ todo[w] # <<>> /\ pc[w] = "entry"
    BY <1>5 DEF ReadEntry, At, Shape, CShapeOf
  <2>2. HandOf(w)'
    BY <1>5, <2>1, DispatchHand DEF ReadEntry
  <2> QED
    BY <1>5, <1>f, <2>2 DEF Step
<1>6. ASSUME NEW w \in Worker, CloseDir(w) \/ TestPending(w) \/ LastFlush(w) PROVE Hands'
  <2>1. HandOf(w)'
    BY <1>6 DEF CloseDir, TestPending, LastFlush, At, Goto, CTypeOK, Hands, HandOf, Calling
  <2> QED
    BY <1>6, <1>f, <2>1 DEF Step
<1>7. ASSUME NEW w \in Worker, Alloc(w) PROVE Hands'
  <2>0. pc[w] = "alloc" /\ lines[w] = <<>> /\ UNCHANGED <<dir, lines>>
    BY <1>7 DEF Alloc, At, Hands, HandOf
  <2>1. CASE Advance(w)
    BY <1>7, <1>f, <2>0, <2>1, AdvanceHand DEF Step
  <2>2. CASE Goto(w, "push") /\ UNCHANGED todo
    <3>1. HandOf(w)'
      BY <2>0, <2>2 DEF Goto, CTypeOK, Hands, HandOf, PicksUp, Child, Calling
    <3> QED
      BY <1>7, <1>f, <3>1 DEF Step
  <2> QED
    BY <1>7, <2>1, <2>2 DEF Alloc, Forget
<1>8. ASSUME NEW w \in Worker, Refuse(w) \/ Count(w) \/ EndFile(w) PROVE Hands'
  <2>1. Advance(w) /\ lines[w] = <<>> /\ UNCHANGED <<dir, lines>>
    BY <1>8 DEF Refuse, Forget, Count, EndFile, At, Hands, HandOf
  <2> QED
    BY <1>8, <1>f, <2>1, AdvanceHand DEF Step
<1>9. ASSUME NEW w \in Worker, Push(w) PROVE Hands'
  <2>1. HandOf(w)'
    BY <1>9 DEF Push, At, Goto, CTypeOK, Hands, HandOf, PicksUp, Child, Calling
  <2> QED
    BY <1>9, <1>f, <2>1 DEF Step
<1>10. ASSUME NEW w \in Worker, Pop(w) PROVE Hands'
  <2>1. /\ todo'[w] = <<>> /\ pc'[w] \in {"test", "open"} /\ lines'[w] = <<>>
    BY <1>10 DEF Pop, At, Goto, CTypeOK, Hands, HandOf, Calling
  <2>2. dir'[w] = dir[w] \/ Kind(dir'[w]) = "DIR"
    <3>1. g_q # <<>> => Len(g_q) \in DOMAIN g_q
      BY EmptySeq, LenProperties DEF CTypeOK
    <3> QED
      BY <1>10, <3>1 DEF Pop, CTypeOK, DirsQueued, Last
  <2>3. HandOf(w)'
    BY <2>1, <2>2 DEF Hands, HandOf, Calling
  <2> QED
    BY <1>10, <1>f, <2>3 DEF Step
<1>11. ASSUME NEW w \in Worker, DirDone(w) PROVE Hands'
  <2>1. HandOf(w)'
    BY <1>11, CNodeAssumption DEF DirDone, At, Goto, CTypeOK, Hands, HandOf, Calling
  <2> QED
    BY <1>11, <1>f, <2>1 DEF Step
<1>12. ASSUME NEW w \in Worker, StartFile(w) PROVE Hands'
  <2>0. pc[w] = "file" /\ lines[w] = <<>> /\ UNCHANGED dir
    BY <1>12 DEF StartFile, At, Hands, HandOf
  <2>1. CASE Advance(w) /\ UNCHANGED lines
    BY <1>12, <1>f, <2>0, <2>1, AdvanceHand DEF Step
  <2>2. CASE Goto(w, "lines") /\ UNCHANGED todo
    <3>1. HandOf(w)'
      BY <2>0, <2>2 DEF Goto, CTypeOK, Hands, HandOf, PicksUp, Child, Calling
    <3> QED
      BY <1>12, <1>f, <3>1 DEF Step
  <2> QED
    BY <1>12, <2>1, <2>2 DEF StartFile
<1>13. ASSUME NEW w \in Worker, MakeRoom(w) \/ KeepLine(w) \/ StreamLine(w) \/ WritePiece(w) PROVE Hands'
  <2>1. /\ pc[w] \in {"lines", "stream"} /\ pc'[w] \in {"lines", "stream"} /\ UNCHANGED <<dir, todo>>
    BY <1>13 DEF MakeRoom, KeepLine, StreamLine, WritePiece, At, Goto, CTypeOK, walk
  <2>2. HandOf(w)'
    BY <2>1 DEF Hands, HandOf, PicksUp, Child, Calling
  <2> QED
    BY <1>13, <1>f, <2>2 DEF Step
<1>14. CASE UNCHANGED cvars
  BY <1>14 DEF cvars, walk, Hands, HandOf, PicksUp, Child
<1> QED
  BY <1>1, <1>2, <1>3, <1>4, <1>5, <1>6, <1>7, <1>8, <1>9, <1>10, <1>11, <1>12, <1>13, <1>14
     DEF CNext, MainStep, Step

\* Every step of the program keeps DirsQueued: only directories are pushed.
LEMMA DirsQueuedStep == CWalkInv /\ Hands /\ DirsQueued /\ [CNext]_cvars => DirsQueued'
<1> SUFFICES ASSUME CWalkInv, Hands, DirsQueued, [CNext]_cvars PROVE DirsQueued'
  OBVIOUS
<1>0. CTypeOK /\ Shape
  BY DEF CWalkInv, Shape
<1>1. ASSUME UNCHANGED g_q PROVE DirsQueued'
  BY <1>1 DEF DirsQueued
<1>2. ASSUME NEW w \in Worker, Push(w) PROVE DirsQueued'
  <2>1. Child(w) \in Node /\ Kind(Child(w)) = "DIR" /\ g_q' = Append(g_q, Child(w))
    BY <1>0, <1>2, ChildType DEF Push, At, Shape, CShapeOf, Calling, Hands, HandOf
  <2> QED
    BY <1>0, <2>1, AppendProperties, LenProperties DEF CTypeOK, DirsQueued
<1>3. ASSUME NEW w \in Worker, Pop(w), g_q # <<>> PROVE DirsQueued'
  <2>0. g_q' = SubSeq(g_q, 1, Len(g_q) - 1)
    BY <1>3 DEF Pop, Front
  <2>1. Len(g_q) \in Nat \ {0} /\ \A i \in 1 .. Len(g_q) : g_q[i] \in Node
    BY <1>0, <1>3, EmptySeq, ElementOfSeq DEF CTypeOK
  <2>2. DOMAIN g_q' = 1 .. Len(g_q) - 1 /\ \A i \in 1 .. Len(g_q) - 1 : g_q'[i] = g_q[i]
    BY <1>0, <1>3, <2>0, <2>1, FrontOf DEF CTypeOK
  <2>3. DOMAIN g_q = 1 .. Len(g_q)
    BY <1>0, LenProperties DEF CTypeOK
  <2> QED
    BY <2>1, <2>2, <2>3 DEF DirsQueued
<1>4. CASE MainStep \/ UNCHANGED cvars
  BY <1>1, <1>4 DEF MainStep, Argument, EndArguments, Create, BecomeWorker, Join, Return, cvars, queue
<1>5. ASSUME NEW w \in Worker, Step(w) PROVE DirsQueued'
  <2>1. UNCHANGED g_q \/ Push(w) \/ (Pop(w) /\ g_q # <<>>)
    BY <1>5 DEF Step, OpenDir, ReadEntry, CloseDir, Alloc, Refuse, Count, Pop, TestPending, DirDone, StartFile,
                EndFile, MakeRoom, KeepLine, StreamLine, WritePiece, LastFlush, queue
  <2> QED
    BY <1>1, <1>2, <1>3, <1>5, <2>1
<1> QED
  BY <1>4, <1>5 DEF CNext

\* The errors among the arguments: the first one's, and those of the others.
LEMMA HasErrorTail ==
  ASSUME NEW s \in Seq(Node), s # <<>>
  PROVE  HasError(s) <=> Mode[Head(s)] = "ERROR" \/ HasError(Tail(s))
<1>1. /\ Len(s) \in Nat \ {0} /\ DOMAIN s = 1 .. Len(s) /\ Head(s) = s[1]
      /\ DOMAIN Tail(s) = 1 .. Len(s) - 1
      /\ \A i \in 1 .. Len(s) - 1 : Tail(s)[i] = s[i + 1]
  BY EmptySeq, LenProperties, HeadTailProperties
<1>2. ASSUME HasError(s), Mode[Head(s)] # "ERROR" PROVE HasError(Tail(s))
  <2>1. PICK i \in 1 .. Len(s) : Mode[s[i]] = "ERROR"
    BY <1>1, <1>2 DEF HasError
  <2>2. i - 1 \in 1 .. Len(s) - 1 /\ Tail(s)[i - 1] = s[i]
    BY <1>1, <1>2, <2>1
  <2> QED
    BY <1>1, <2>1, <2>2 DEF HasError
<1>3. ASSUME Mode[Head(s)] = "ERROR" PROVE HasError(s)
  BY <1>1, <1>3 DEF HasError
<1>4. ASSUME HasError(Tail(s)) PROVE HasError(s)
  <2>1. PICK i \in 1 .. Len(s) - 1 : Mode[Tail(s)[i]] = "ERROR"
    BY <1>1, <1>4 DEF HasError
  <2>2. i + 1 \in 1 .. Len(s) /\ s[i + 1] = Tail(s)[i]
    BY <1>1, <2>1
  <2> QED
    BY <1>1, <2>1, <2>2 DEF HasError
<1> QED
  BY <1>2, <1>3, <1>4

\* An argument that main goes past without g_err being set was no error.
LEMMA ArgsLeftAdvance ==
  ASSUME CTypeOK, NEW w \in Worker, todo[w] # <<>>, Advance(w), UNCHANGED dir,
         w = Main /\ dir[w] = NoNode => Mode[Child(w)] # "ERROR"
  PROVE  HasError(ArgsLeft)' <=> HasError(ArgsLeft)
<1>1. todo'[w] = Tail(todo[w]) /\ \A v \in Worker \ {w} : todo'[v] = todo[v]
  BY DEF Advance, CTypeOK
<1>2. CASE w = Main /\ dir[w] = NoNode
  <2>1. ArgsLeft = todo[w] /\ ArgsLeft' = Tail(todo[w])
    BY <1>1, <1>2 DEF ArgsLeft
  <2>2. HasError(todo[w]) <=> HasError(Tail(todo[w]))
    BY <1>2, HasErrorTail DEF CTypeOK, Child
  <2> QED
    BY <2>1, <2>2 DEF HasError
<1>3. CASE ~ (w = Main /\ dir[w] = NoNode)
  <2>1. ArgsLeft' = ArgsLeft
    BY MainIsWorker, <1>1, <1>3 DEF ArgsLeft
  <2> QED
    BY <2>1 DEF HasError
<1> QED
  BY <1>2, <1>3

\* A visit of x adds x to the paths visited.
LEMMA VisitedMore ==
  ASSUME Counted, NEW x \in Node, visited' = [visited EXCEPT ![x] = @ + 1]
  PROVE  \A y \in Node : visited'[y] > 0 <=> visited[y] > 0 \/ y = x
  BY DEF Counted

\* Every step of the program keeps Counted.
LEMMA CountedStep == CWalkInv /\ Counted /\ [CNext]_cvars => Counted'
<1> SUFFICES ASSUME CWalkInv, Counted, [CNext]_cvars PROVE Counted'
  OBVIOUS
<1>1. CTypeOK /\ Shape
  BY DEF CWalkInv, Shape
<1>2. ASSUME NEW w \in Worker, OpenDir(w) \/ StartFile(w) PROVE Counted'
  <2>1. OpenDir(w) => dir[w] \in Node
    BY <1>1, <1>2 DEF OpenDir, At, Shape, CShapeOf, CTypeOK
  <2>2. StartFile(w) => Child(w) \in Node
    BY <1>1, <1>2, ChildType DEF StartFile, At, Shape, CShapeOf, Calling
  <2>3. PICK x \in Node : visited' = [visited EXCEPT ![x] = @ + 1]
    BY <1>2, <2>1, <2>2 DEF OpenDir, StartFile
  <2> QED
    BY <2>3 DEF Counted
<1>3. ASSUME NEW w \in Worker, Step(w) PROVE Counted'
  BY <1>2, <1>3 DEF Step, ReadEntry, CloseDir, Alloc, Refuse, Push, Count, Pop, TestPending, DirDone, EndFile,
                    MakeRoom, KeepLine, StreamLine, WritePiece, LastFlush, Counted
<1>4. CASE MainStep \/ UNCHANGED cvars
  BY <1>4 DEF MainStep, Argument, EndArguments, Create, BecomeWorker, Join, Return, cvars, Counted
<1> QED
  BY <1>3, <1>4 DEF CNext

\* Some thread has found lines that it has not emitted yet.
LinesLeft == \E w \in Worker : lines[w] # <<>>

\* Nothing that FlagsMeanVisits is about changes.
LEMMA FlagsFrame ==
  ASSUME FlagsMeanVisits, UNCHANGED <<g_err, visited>>, HasError(ArgsLeft)' <=> HasError(ArgsLeft),
         (g_match \/ LinesLeft)' <=> g_match \/ LinesLeft
  PROVE  FlagsMeanVisits'
<1>1. BadFile' = BadFile /\ Hit' = Hit /\ GivenError' = GivenError
  BY DEF BadFile, Hit, Kind, GivenError, HasError
<1> QED
  BY <1>1 DEF FlagsMeanVisits, LinesLeft

\* Every step of the program keeps StreamMatches.
LEMMA StreamMatchesStep == CWalkInv /\ StreamMatches /\ [CNext]_cvars => StreamMatches'
<1> SUFFICES ASSUME CWalkInv, StreamMatches, [CNext]_cvars PROVE StreamMatches'
  OBVIOUS
<1>0. CTypeOK /\ Shape /\ Main \in Worker
  BY MainIsWorker DEF CWalkInv, Shape
<1>1. CASE MainStep \/ UNCHANGED cvars
  <2>1. g_match' = g_match /\ \A w \in Worker : pc'[w] = "stream" => pc[w] = "stream"
    BY <1>0, <1>1 DEF MainStep, Argument, Dispatch, Advance, EndArguments, Create, BecomeWorker, Join, Return,
                      Goto, CTypeOK, cvars, walk, flags
  <2> QED
    BY <2>1 DEF StreamMatches
<1>2. ASSUME NEW w \in Worker, Step(w) PROVE StreamMatches'
  <2>1. \A v \in Worker \ {w} : pc'[v] = pc[v]
    BY <1>0, <1>2, StepFrame DEF SameThread
  <2>2. g_match' = g_match \/ g_match' = TRUE
    BY <1>2 DEF Step, OpenDir, ReadEntry, CloseDir, Alloc, Refuse, Push, Count, Pop, TestPending, DirDone,
                StartFile, EndFile, MakeRoom, KeepLine, StreamLine, WritePiece, LastFlush, flags
  <2>3. pc'[w] = "stream" => pc[w] = "stream" \/ g_match' = TRUE
    BY <1>0, <1>2 DEF Step, OpenDir, ReadEntry, Dispatch, Advance, CloseDir, Alloc, Refuse, Forget, Push, Count,
                Pop, TestPending, DirDone, StartFile, EndFile, MakeRoom, KeepLine, StreamLine, WritePiece,
                LastFlush, At, Goto, CTypeOK, walk
  <2> QED
    BY <2>1, <2>2, <2>3 DEF StreamMatches
<1> QED
  BY <1>1, <1>2 DEF CNext

\* Every step of the program keeps FlagsMeanVisits.
LEMMA FlagsStep ==
  CWalkInv /\ Counted /\ Hands /\ StreamMatches /\ FlagsMeanVisits /\ [CNext]_cvars => FlagsMeanVisits'
<1> SUFFICES ASSUME CWalkInv, Counted, Hands, StreamMatches, FlagsMeanVisits, [CNext]_cvars
             PROVE  FlagsMeanVisits'
  OBVIOUS
<1>0. CTypeOK /\ Shape
  BY DEF CWalkInv, Shape
<1> USE <1>0, MainIsWorker
<1>f. ASSUME UNCHANGED <<flags, visited, lines>>, ArgsLeft' = ArgsLeft PROVE FlagsMeanVisits'
  BY <1>f, FlagsFrame DEF HasError, LinesLeft, flags
<1>h. ASSUME NEW w \in Worker, pc[w] \in Calling
      PROVE  /\ todo[w] # <<>> /\ Child(w) \in Node
             /\ w = Main /\ dir[w] = NoNode => Mode[Child(w)] # "ERROR"
  BY <1>h, ChildType DEF Shape, CShapeOf, Hands, HandOf, PicksUp, Wanted
<1>a. ASSUME NEW w \in Worker, pc[w] \in Calling, Advance(w), UNCHANGED <<flags, visited, lines, dir>>
      PROVE  FlagsMeanVisits'
  BY <1>a, <1>h, ArgsLeftAdvance, FlagsFrame DEF LinesLeft, flags
<1>1. CASE Argument
  <2>1. dir[Main] = NoNode /\ todo[Main] # <<>> /\ UNCHANGED <<dir, visited, lines, g_match>>
    BY <1>1 DEF Argument, At, Shape, CShapeOf, Calling
  <2>2. ArgsLeft = todo[Main] /\ ArgsLeft' = todo'[Main]
    BY <2>1 DEF ArgsLeft
  <2>3. HasError(todo[Main]) <=> Mode[Child(Main)] = "ERROR" \/ HasError(Tail(todo[Main]))
    BY <2>1, HasErrorTail DEF CTypeOK, Child
  <2>4. g_err' = (g_err \/ Mode[Child(Main)] = "ERROR")
    BY <1>1 DEF Argument
  <2>5. todo' = todo \/ todo'[Main] = Tail(todo[Main])
    BY <1>1 DEF Argument, Dispatch, Advance, CTypeOK
  <2>6. g_err' \/ HasError(todo'[Main]) <=> g_err \/ HasError(todo[Main])
    <3>1. CASE todo' = todo
      BY <2>3, <2>4, <3>1
    <3>2. CASE todo'[Main] = Tail(todo[Main])
      BY <2>3, <2>4, <3>2
    <3> QED
      BY <2>5, <3>1, <3>2
  <2>7. g_err' \/ HasError(ArgsLeft)' <=> g_err \/ HasError(ArgsLeft)
    BY <2>2, <2>6 DEF HasError
  <2> QED
    BY <2>1, <2>7 DEF FlagsMeanVisits, BadFile, Hit
<1>2. CASE EndArguments \/ Create \/ BecomeWorker \/ Join \/ Return
  BY <1>2, <1>f DEF EndArguments, Create, BecomeWorker, Join, Return, walk, ArgsLeft
<1>3. ASSUME NEW w \in Worker, OpenDir(w) PROVE FlagsMeanVisits'
  <2>1. dir[w] \in Node /\ Kind(dir[w]) = "DIR" /\ UNCHANGED <<dir, lines, flags>>
    BY <1>3 DEF OpenDir, At, Shape, CShapeOf, CTypeOK, Hands, HandOf
  <2>2. \A y \in Node : Kind(y) = "REG" => (visited'[y] > 0 <=> visited[y] > 0)
    BY <1>3, <2>1, VisitedMore DEF OpenDir
  <2>3. ArgsLeft' = ArgsLeft
    BY <1>3, <2>1, CNodeAssumption DEF OpenDir, ArgsLeft, CTypeOK
  <2>4. HasError(ArgsLeft)' <=> HasError(ArgsLeft)
    BY <2>3 DEF HasError
  <2> QED
    BY <2>1, <2>2, <2>4 DEF FlagsMeanVisits, flags, BadFile, Hit
<1>4. ASSUME NEW w \in Worker, StartFile(w) PROVE FlagsMeanVisits'
  <2> DEFINE f == Child(w)
  <2>1. /\ pc[w] = "file" /\ f \in Node /\ Kind(f) = "REG" /\ UNCHANGED <<dir, g_match>>
        /\ lines[w] = <<>>
    BY <1>4, <1>h DEF StartFile, At, Calling, Hands, HandOf
  <2>2. HasError(ArgsLeft)' <=> HasError(ArgsLeft)
    <3>1. CASE Advance(w)
      BY <1>h, <2>1, <3>1, ArgsLeftAdvance DEF Calling
    <3>2. CASE UNCHANGED todo
      BY <2>1, <3>2 DEF ArgsLeft, HasError
    <3> QED
      BY <1>4, <3>1, <3>2 DEF StartFile
  <2>3. \A y \in Node : visited'[y] > 0 <=> visited[y] > 0 \/ y = f
    BY <1>4, <2>1, VisitedMore DEF StartFile
  <2>4. g_err' = (g_err \/ f \in BadFile)
    BY <1>4, <2>1 DEF StartFile, BadFile
  <2>5. LinesLeft' <=> LinesLeft \/ f \in Hit
    <3>1. CASE f \in Unreadable \cup Unmapped
      BY <1>4, <2>1, <3>1 DEF StartFile, LinesLeft, Hit
    <3>2. CASE f \notin Unreadable \cup Unmapped
      <4>1. lines' = [lines EXCEPT ![w] = LinesOf[f]]
        BY <1>4, <3>2 DEF StartFile
      <4>2. lines'[w] = LinesOf[f] /\ \A v \in Worker \ {w} : lines'[v] = lines[v]
        BY <4>1 DEF CTypeOK
      <4>3. f \in Hit <=> LinesOf[f] # <<>>
        BY <2>1, <3>2 DEF Hit
      <4> QED
        BY <2>1, <4>2, <4>3 DEF LinesLeft
    <3> QED
      BY <3>1, <3>2
  <2>6. BadFile \subseteq Node /\ Hit \subseteq Node
    BY DEF BadFile, Hit
  <2>7. /\ (\E x \in BadFile : visited'[x] > 0)
             <=> (\E x \in BadFile : visited[x] > 0) \/ f \in BadFile
        /\ (\E x \in Hit : visited'[x] > 0)
             <=> (\E x \in Hit : visited[x] > 0) \/ f \in Hit
    BY <2>3, <2>6
  <2>8. /\ BadFile' = BadFile /\ Hit' = Hit
        /\ GivenError' <=> GivenError
    BY DEF BadFile, Hit, Kind, GivenError, HasError
  <2>9. /\ g_err \/ HasError(ArgsLeft) <=> GivenError \/ \E x \in BadFile : visited[x] > 0
        /\ g_match \/ LinesLeft <=> \E x \in Hit : visited[x] > 0
    BY DEF FlagsMeanVisits, LinesLeft
  <2>10. /\ g_err' \/ HasError(ArgsLeft)' <=> GivenError \/ \E x \in BadFile : visited'[x] > 0
         /\ g_match' \/ LinesLeft' <=> \E x \in Hit : visited'[x] > 0
    <3>1. g_match' = g_match
      BY <2>1
    <3> HIDE DEF BadFile, Hit, LinesLeft, f
    <3> QED
      BY <2>2, <2>4, <2>5, <2>7, <2>9, <3>1
  <2> QED
    BY <2>8, <2>10 DEF FlagsMeanVisits, LinesLeft
<1>5. ASSUME NEW w \in Worker, Alloc(w) \/ Refuse(w) \/ Count(w) \/ EndFile(w), Advance(w)
      PROVE  FlagsMeanVisits'
  <2>1. pc[w] \in Calling
    BY <1>5 DEF Alloc, Refuse, Count, EndFile, At, Calling
  <2>2. UNCHANGED <<flags, visited, dir, lines>>
    BY <1>5 DEF Alloc, Refuse, Count, EndFile
  <2> QED
    BY <1>5, <1>a, <2>1, <2>2
<1>6. ASSUME NEW w \in Worker, ReadEntry(w) PROVE FlagsMeanVisits'
  <2>1. dir[w] # NoNode /\ dir' = dir /\ \A v \in Worker \ {w} : todo'[v] = todo[v]
    BY <1>6, StepFrame DEF ReadEntry, Step, At, Shape, CShapeOf, SameThread
  <2>2. ArgsLeft' = ArgsLeft
    BY <2>1 DEF ArgsLeft
  <2> QED
    BY <1>6, <1>f, <2>2 DEF ReadEntry
<1>7. ASSUME NEW w \in Worker, Pop(w) \/ DirDone(w) PROVE FlagsMeanVisits'
  <2>1. todo[w] = <<>> /\ todo' = todo /\ \A v \in Worker \ {w} : dir'[v] = dir[v]
    BY <1>7 DEF Pop, DirDone, At, Hands, HandOf, Calling, CTypeOK
  <2>2. ArgsLeft' = ArgsLeft
    BY <2>1 DEF ArgsLeft
  <2> QED
    BY <1>7, <1>f, <2>2 DEF Pop, DirDone
<1>8. ASSUME NEW w \in Worker, MakeRoom(w) \/ KeepLine(w) \/ StreamLine(w) PROVE FlagsMeanVisits'
  <2>1. /\ lines[w] # <<>> /\ g_match' = TRUE /\ UNCHANGED <<dir, todo, g_err, visited>>
    BY <1>8 DEF MakeRoom, KeepLine, StreamLine, walk
  <2>2. HasError(ArgsLeft)' <=> HasError(ArgsLeft)
    BY <2>1 DEF HasError, ArgsLeft
  <2> QED
    BY <2>1, <2>2, FlagsFrame DEF LinesLeft
<1>9. ASSUME UNCHANGED <<flags, visited, dir, todo, lines>> PROVE FlagsMeanVisits'
  BY <1>9, <1>f DEF ArgsLeft
<1>10. ASSUME NEW w \in Worker, WritePiece(w) PROVE FlagsMeanVisits'
  <2>1. g_match /\ g_match' = g_match /\ UNCHANGED <<dir, todo, g_err, visited>>
    BY <1>10 DEF WritePiece, At, StreamMatches, flags
  <2>2. HasError(ArgsLeft)' <=> HasError(ArgsLeft)
    BY <2>1 DEF HasError, ArgsLeft
  <2> QED
    BY <2>1, <2>2, FlagsFrame
<1>11. ASSUME NEW w \in Worker, CloseDir(w) \/ Push(w) \/ TestPending(w) \/ LastFlush(w) \/ (Alloc(w) /\ UNCHANGED todo)
       PROVE  FlagsMeanVisits'
  BY <1>9, <1>11 DEF CloseDir, Push, TestPending, LastFlush, Alloc
<1>12. ASSUME NEW w \in Worker, Step(w) PROVE FlagsMeanVisits'
  BY <1>3, <1>4, <1>5, <1>6, <1>7, <1>8, <1>10, <1>11, <1>12
     DEF Step, Alloc, Refuse, Forget, Count, EndFile
<1>13. CASE UNCHANGED cvars
  BY <1>9, <1>13 DEF cvars, walk
<1> QED
  BY <1>1, <1>2, <1>12, <1>13 DEF CNext, MainStep

\* The invariant of the refinement holds at the start.
LEMMA InitCRInv == CInit => CRInv
<1> SUFFICES ASSUME CInit PROVE CRInv
  OBVIOUS
<1>0. CIInv /\ Main \in Worker
  BY InitCIInv, MainIsWorker
<1>1. \A w \in Worker : /\ pc[w] = (IF w = Main THEN "arg" ELSE "none") /\ dir[w] = NoNode
                        /\ todo[w] = (IF w = Main THEN Paths ELSE <<>>) /\ lines[w] = <<>>
  BY DEF CInit
<1>2. Counted /\ \A x \in Node : ~ (visited[x] > 0)
  BY DEF CInit, Counted
<1>3. Hands /\ StreamMatches
  BY <1>1 DEF Hands, HandOf, Calling, StreamMatches
<1>4. DirsQueued
  BY DEF CInit, DirsQueued
<1>5. FlagsMeanVisits
  <2>1. ArgsLeft = Paths
    BY <1>0, <1>1 DEF ArgsLeft
  <2> QED
    BY <1>1, <1>2, <2>1 DEF CInit, FlagsMeanVisits, GivenError, BadFile, Hit
<1> QED
  BY <1>0, <1>2, <1>3, <1>4, <1>5 DEF CRInv

\* Every step of the program keeps CRInv.
LEMMA NextCRInv == CRInv /\ [CNext]_cvars => CRInv'
  BY NextCIInv, CountedStep, HandsStep, DirsQueuedStep, StreamMatchesStep, FlagsStep DEF CRInv, CIInv

\* The flags are what the visits call for, whatever the order of the threads, and
\* a thread has in hand what its program point expects.
THEOREM CRefinementInvariant == CSpec => []CRInv
  BY InitCRInv, NextCRInv, PTL DEF CSpec
-----------------------------------------------------------------------------
(* The refinement of TreeSearch: where the findings wait.                  *)

\* How many findings of x thread w has not dispatched.
Share(w, x) == IF PicksUp(w, x) THEN Times(x, Rest(w)) ELSE 0

\* What is not dispatched is a sequence, and its places are finite sets; every part
\* of Waiting is a number.
CountsAreNumbers ==
  \A x \in Node :
    /\ \A w \in Worker : Rest(w) \in Seq(Node)
    /\ Undispatched(x) \in [Worker -> SUBSET Nat]
    /\ \A w \in Worker : /\ IsFiniteSet(Undispatched(x)[w])
                         /\ Cardinality(Undispatched(x)[w]) = Share(w, x)
                         /\ Share(w, x) \in Nat
    /\ Total(Undispatched(x)) \in Nat /\ Times(x, g_q) \in Nat
    /\ IsFiniteSet(JustPopped(x)) /\ Cardinality(JustPopped(x)) \in Nat

LEMMA CountsType == CTypeOK /\ Shape => CountsAreNumbers
<1> SUFFICES ASSUME CTypeOK, Shape, NEW x \in Node
    PROVE  /\ \A w \in Worker : Rest(w) \in Seq(Node)
           /\ Undispatched(x) \in [Worker -> SUBSET Nat]
           /\ \A w \in Worker : /\ IsFiniteSet(Undispatched(x)[w])
                                /\ Cardinality(Undispatched(x)[w]) = Share(w, x)
                                /\ Share(w, x) \in Nat
           /\ Total(Undispatched(x)) \in Nat /\ Times(x, g_q) \in Nat
           /\ IsFiniteSet(JustPopped(x)) /\ Cardinality(JustPopped(x)) \in Nat
  BY DEF CountsAreNumbers
<1>1. IsFiniteSet(Worker)
  BY CThreadAssumption, FS_Interval DEF Worker
<1>2. ASSUME NEW w \in Worker PROVE Rest(w) \in Seq(Node)
  <2>1. pc[w] \in {"count", "lines", "stream"} => todo[w] # <<>>
    BY DEF Shape, CShapeOf, Calling
  <2>2. todo[w] \in Seq(Node)
    BY DEF CTypeOK
  <2> QED
    BY <2>1, <2>2, HeadTailProperties DEF Rest
<1>3. ASSUME NEW w \in Worker
      PROVE  /\ Places(x, Rest(w)) \in SUBSET Nat /\ IsFiniteSet(Places(x, Rest(w)))
             /\ Times(x, Rest(w)) \in Nat
  <2>1. DOMAIN Rest(w) = 1 .. Len(Rest(w))
    BY <1>2, LenProperties
  <2>2. Places(x, Rest(w)) \in SUBSET Nat
    BY <2>1 DEF Places
  <2> QED
    BY <1>2, <2>2, TimesType
<1>4. ASSUME NEW w \in Worker
      PROVE  /\ Undispatched(x)[w] \in SUBSET Nat /\ IsFiniteSet(Undispatched(x)[w])
             /\ Cardinality(Undispatched(x)[w]) = Share(w, x) /\ Share(w, x) \in Nat
  BY <1>3, FS_EmptySet DEF Undispatched, Share, Times
<1>5. Undispatched(x) \in [Worker -> SUBSET Nat]
  BY <1>4 DEF Undispatched
<1>6. Total(Undispatched(x)) \in Nat
  BY <1>1, <1>4, <1>5, TotalType
<1>7. Times(x, g_q) \in Nat
  BY TimesType DEF CTypeOK
<1>8. IsFiniteSet(JustPopped(x)) /\ Cardinality(JustPopped(x)) \in Nat
  BY <1>1, FS_Subset, FS_CardinalityType DEF JustPopped
<1> QED
  BY <1>2, <1>4, <1>5, <1>6, <1>7, <1>8

\* They still are after a step.
LEMMA CountsTypeNext == (CTypeOK /\ Shape)' => CountsAreNumbers'
  BY CountsType, PTL

\* A step of thread w changes the number of undispatched findings by what it does
\* to the share of w.
LEMMA UndispatchedStep ==
  ASSUME CTypeOK, Shape, CTypeOK', Shape', NEW w \in Worker, NEW x \in Node,
         OthersStay(w)
  PROVE  Total(Undispatched(x))' + Share(w, x) = Total(Undispatched(x)) + Share(w, x)'
<1> DEFINE P == Undispatched(x)
           Q == Undispatched(x)'
<1>0. IsFiniteSet(Worker)
  BY CThreadAssumption, FS_Interval DEF Worker
<1>1. /\ P \in [Worker -> SUBSET Nat] /\ \A v \in Worker : IsFiniteSet(P[v])
      /\ Cardinality(P[w]) = Share(w, x)
  BY CountsType DEF CountsAreNumbers
<1>2. /\ Q \in [Worker -> SUBSET Nat] /\ \A v \in Worker : IsFiniteSet(Q[v])
      /\ Cardinality(Q[w]) = Share(w, x)'
  BY CountsTypeNext DEF CountsAreNumbers
<1>3. \A v \in Worker \ {w} : P[v] = Q[v]
  BY DEF Undispatched, PicksUp, Rest, OthersStay, SameThread
<1>5. Total(Undispatched(x))' = Total(Q)
  BY DEF Total
<1> HIDE DEF P, Q
<1>4. PICK p, q \in [Worker -> SUBSET Nat] : p = P /\ q = Q
  BY <1>1, <1>2
<1>6. /\ \A v \in Worker : IsFiniteSet(p[v])
      /\ \A v \in Worker : IsFiniteSet(q[v])
      /\ \A v \in Worker \ {w} : p[v] = q[v]
  BY <1>1, <1>2, <1>3, <1>4
<1>7. Total(q) + Cardinality(p[w]) = Total(p) + Cardinality(q[w])
  BY <1>0, <1>6, TotalChange
<1> QED
  BY <1>1, <1>2, <1>4, <1>5, <1>7 DEF P

\* A step of thread w changes what waits by what it does to the share of w, to the
\* queue and to what has just been popped.
LEMMA WaitingStep ==
  ASSUME CTypeOK, Shape, CTypeOK', Shape', NEW w \in Worker, NEW x \in Node,
         OthersStay(w)
  PROVE  /\ Waiting[x] \in Nat /\ Waiting'[x] \in Nat
         /\ Share(w, x) \in Nat /\ Share(w, x) <= Waiting[x] /\ Share(w, x)' \in Nat
         /\ Times(x, g_q) \in Nat /\ Times(x, g_q)' \in Nat
         /\ Cardinality(JustPopped(x)) \in Nat /\ Cardinality(JustPopped(x)) <= Waiting[x]
         /\ Cardinality(JustPopped(x))' \in Nat
         /\ Waiting'[x] + Share(w, x) + Times(x, g_q) + Cardinality(JustPopped(x))
            = Waiting[x] + Share(w, x)' + Times(x, g_q)' + Cardinality(JustPopped(x))'
<1>1. Total(Undispatched(x))' + Share(w, x) = Total(Undispatched(x)) + Share(w, x)'
  BY UndispatchedStep
<1>2. /\ Share(w, x) \in Nat /\ Total(Undispatched(x)) \in Nat
      /\ Times(x, g_q) \in Nat /\ Cardinality(JustPopped(x)) \in Nat
  BY CountsType DEF CountsAreNumbers
<1>3. /\ Share(w, x)' \in Nat /\ Total(Undispatched(x))' \in Nat
      /\ Times(x, g_q)' \in Nat /\ Cardinality(JustPopped(x))' \in Nat
  BY CountsTypeNext DEF CountsAreNumbers
<1>4. /\ Waiting[x] = Total(Undispatched(x)) + Times(x, g_q) + Cardinality(JustPopped(x))
      /\ Waiting'[x] = Total(Undispatched(x))' + Times(x, g_q)' + Cardinality(JustPopped(x))'
  BY DEF Waiting
<1>5. Share(w, x) <= Total(Undispatched(x))
  <2>1. PICK P \in [Worker -> SUBSET Nat] : P = Undispatched(x)
    BY CountsType DEF CountsAreNumbers
  <2>2. \A v \in Worker : IsFiniteSet(P[v])
    BY <2>1, CountsType DEF CountsAreNumbers
  <2>3. IsFiniteSet(Worker)
    BY CThreadAssumption, FS_Interval DEF Worker
  <2>4. /\ Total([P EXCEPT ![w] = {}]) \in Nat
        /\ Total(P) = Total([P EXCEPT ![w] = {}]) + Cardinality(P[w])
    BY <2>2, <2>3, TotalSplit
  <2>5. Cardinality(P[w]) = Share(w, x)
    BY <2>1, CountsType DEF CountsAreNumbers
  <2> QED
    BY <1>2, <2>1, <2>4, <2>5
<1> QED
  BY <1>1, <1>2, <1>3, <1>4, <1>5

\* Waiting is a function on paths.
LEMMA WaitingFunction ==
  /\ Waiting = [x \in Node |-> Waiting[x]]
  /\ Waiting' = [x \in Node |-> Waiting'[x]]
  BY DEF Waiting

\* Nothing undispatched, nothing to share.
LEMMA ShareNone ==
  ASSUME NEW w \in Worker, NEW x \in Node, Rest(w) = <<>>
  PROVE  Share(w, x) = 0
  BY TimesEmpty DEF Share

\* Nor after a step.
LEMMA ShareNoneNext ==
  ASSUME NEW w \in Worker, NEW x \in Node, Rest(w)' = <<>>
  PROVE  Share(w, x)' = 0
<1>1. Times(x, Rest(w)') = 0
  BY TimesEmpty
<1> QED
  BY <1>1 DEF Share

\* The same sequence in the same directory is the same share.
LEMMA ShareSame ==
  ASSUME NEW w \in Worker, NEW x \in Node, Rest(w)' = Rest(w), dir'[w] = dir[w]
  PROVE  Share(w, x)' = Share(w, x)
  BY DEF Share, PicksUp, Times, Places

\* The path in hand dispatched, passed over or given up is one less, if wanted.
LEMMA ShareTail ==
  ASSUME CTypeOK, NEW w \in Worker, NEW x \in Node, todo[w] # <<>>,
         Rest(w) = todo[w], Rest(w)' = Tail(todo[w]), dir'[w] = dir[w]
  PROVE  Share(w, x) = Share(w, x)' + (IF x = Child(w) /\ PicksUp(w, x) THEN 1 ELSE 0)
<1>1. Times(x, todo[w]) = Times(x, Tail(todo[w])) + (IF Child(w) = x THEN 1 ELSE 0)
  BY TimesTail DEF CTypeOK, Child
<1>2. Times(x, Tail(todo[w])) \in Nat
  BY HeadTailProperties, TimesType DEF CTypeOK
<1>3. /\ Share(w, x) = IF PicksUp(w, x) THEN Times(x, todo[w]) ELSE 0
      /\ Share(w, x)' = IF PicksUp(w, x) THEN Times(x, Tail(todo[w])) ELSE 0
  BY DEF Share, PicksUp, Times, Places
<1> QED
  BY <1>1, <1>2, <1>3

\* What Advance does to Rest, wherever the thread comes from.
LEMMA RestAdvance ==
  ASSUME CTypeOK, NEW w \in Worker, Advance(w)
  PROVE  Rest(w)' = Tail(todo[w])
  BY DEF CTypeOK, Advance, Goto, Rest

\* A thread that has popped nothing is not among those that just have.
LEMMA PoppedSame ==
  ASSUME NEW w \in Worker, NEW x \in Node,
         OthersStay(w),
         dir[w] # x \/ pc[w] # "open",
         dir'[w] # x \/ pc'[w] # "open"
  PROVE  JustPopped(x)' = JustPopped(x)
  BY DEF JustPopped, OthersStay, SameThread

\* A step that moves no finding is no step of the abstract search.
LEMMA NoMove ==
  ASSUME CTypeOK, Shape, CTypeOK', Shape', NEW w \in Worker,
         OthersStay(w), g_q' = g_q,
         \A x \in Node : Share(w, x)' = Share(w, x) /\ JustPopped(x)' = JustPopped(x)
  PROVE  Waiting' = Waiting
<1>1. ASSUME NEW x \in Node PROVE Waiting'[x] = Waiting[x]
  <2>1. /\ Share(w, x)' = Share(w, x) /\ Times(x, g_q)' = Times(x, g_q)
        /\ Cardinality(JustPopped(x))' = Cardinality(JustPopped(x))
    BY DEF Times, Places
  <2>2. /\ Waiting[x] \in Nat /\ Waiting'[x] \in Nat /\ Share(w, x) \in Nat
        /\ Times(x, g_q) \in Nat /\ Cardinality(JustPopped(x)) \in Nat
        /\ Waiting'[x] + Share(w, x) + Times(x, g_q) + Cardinality(JustPopped(x))
           = Waiting[x] + Share(w, x)' + Times(x, g_q)' + Cardinality(JustPopped(x))'
    BY WaitingStep
  <2> QED
    BY <2>1, <2>2
<1> QED
  BY <1>1, WaitingFunction

\* Passing over a path moves no finding.
LEMMA DispatchMovesNothing ==
  ASSUME CTypeOK, Shape, CTypeOK', Shape', NEW w \in Worker, todo[w] # <<>>, UNCHANGED dir,
         pc[w] = (IF dir[w] = NoNode THEN "arg" ELSE "entry"),
         Dispatch(w, IF dir[w] = NoNode THEN Mode[Child(w)] ELSE EntryKind(Child(w))),
         NEW x \in Node
  PROVE  Share(w, x)' = Share(w, x)
<1> DEFINE kind == IF dir[w] = NoNode THEN Mode[Child(w)] ELSE EntryKind(Child(w))
<1>1. CASE UNCHANGED todo /\ (Goto(w, IF lang = "zig" THEN "alloc" ELSE "push") \/ Goto(w, "file"))
  <2>1. Rest(w)' = Rest(w)
    BY <1>1 DEF Goto, Rest, CTypeOK
  <2> QED
    BY <2>1, ShareSame
<1>2. CASE ~ (kind = "DIR" /\ g_r) /\ kind # "REG" /\ Advance(w)
  <2>1. Rest(w) = todo[w] /\ Rest(w)' = Tail(todo[w])
    BY <1>2, RestAdvance DEF Rest
  <2>2. ~ PicksUp(w, Child(w))
    BY <1>2 DEF PicksUp, Wanted
  <2>3. Share(w, x)' \in Nat
    BY CountsTypeNext DEF CountsAreNumbers
  <2> QED
    BY <2>1, <2>2, <2>3, ShareTail
<1> QED
  BY <1>1, <1>2 DEF Dispatch

\* No step that moves no finding, visits nothing, gives nothing up and reports nothing.
Stutter == UNCHANGED <<Waiting, visited, lost, Reported>>

\* A finding that waits nowhere any more, in the hand of w, is dealt with.
LEMMA Dealt ==
  ASSUME CTypeOK, Shape, CTypeOK', Shape', NEW w \in Worker, NEW y \in Node,
         OthersStay(w),
         g_q' = g_q,
         \A x \in Node :
            /\ JustPopped(x)' = JustPopped(x)
            /\ Share(w, x) = Share(w, x)' + (IF x = y THEN 1 ELSE 0)
  PROVE  Waiting' = [Waiting EXCEPT ![y] = @ - 1] /\ Waiting[y] > 0
<1>1. ASSUME NEW x \in Node
      PROVE  /\ Waiting'[x] = Waiting[x] - (IF x = y THEN 1 ELSE 0)
             /\ x = y => Waiting[x] > 0
  <2>1. /\ Share(w, x) = Share(w, x)' + (IF x = y THEN 1 ELSE 0)
        /\ Times(x, g_q)' = Times(x, g_q)
        /\ Cardinality(JustPopped(x))' = Cardinality(JustPopped(x))
    BY DEF Times, Places
  <2>2. /\ Waiting[x] \in Nat /\ Waiting'[x] \in Nat
        /\ Share(w, x) \in Nat /\ Share(w, x) <= Waiting[x] /\ Share(w, x)' \in Nat
        /\ Times(x, g_q) \in Nat /\ Cardinality(JustPopped(x)) \in Nat
        /\ Waiting'[x] + Share(w, x) + Times(x, g_q) + Cardinality(JustPopped(x))
           = Waiting[x] + Share(w, x)' + Times(x, g_q)' + Cardinality(JustPopped(x))'
    BY WaitingStep
  <2> QED
    BY <2>1, <2>2
<1>2. Waiting'[y] = Waiting[y] - 1 /\ \A x \in Node \ {y} : Waiting'[x] = Waiting[x]
  <2>1. \A x \in Node : Waiting[x] \in Nat /\ Waiting'[x] \in Nat
    BY WaitingStep
  <2> QED
    BY <1>1, <2>1
<1> QED
  BY <1>1, <1>2, WaitingFunction

\* What every step of a thread leaves as it is.
LEMMA StepBasics ==
  ASSUME CRInv, CRInv', NEW w \in Worker, Step(w)
  PROVE  CTypeOK /\ Shape /\ CTypeOK' /\ Shape' /\ Hands /\ OthersStay(w) /\ Reported' = Reported
<1>1. CTypeOK /\ Shape /\ CTypeOK' /\ Shape' /\ Hands
  BY DEF CRInv, CIInv, CWalkInv, Shape
<1> QED
  BY <1>1, StepFrame DEF OthersStay, Reported

\* opendir() of a directory that was popped is a visit that finds its entries.
LEMMA OpenVisits ==
  ASSUME CRInv, CRInv', NEW w \in Worker, OpenDir(w)
  PROVE  TS!Visit(dir[w])
<1>0. CTypeOK /\ Shape /\ CTypeOK' /\ Shape' /\ Hands /\ OthersStay(w) /\ Reported' = Reported
  BY StepBasics DEF Step
<1> DEFINE d == dir[w]
<1>1. /\ pc[w] = "open" /\ d \in Node /\ dir' = dir /\ todo[w] = <<>> /\ Kind(d) = "DIR"
      /\ g_q' = g_q
  <2>1. pc[w] = "open" /\ dir' = dir /\ g_q' = g_q /\ CShapeOf(w) /\ HandOf(w)
    BY <1>0 DEF OpenDir, At, Shape, Hands, queue
  <2>2. d \in Node
    BY <1>0, <2>1 DEF CShapeOf, CTypeOK
  <2>3. todo[w] = <<>> /\ Kind(d) = "DIR"
    BY <2>1, <2>2, CNodeAssumption DEF HandOf, Calling
  <2> QED
    BY <2>1, <2>2, <2>3
<1>2. /\ pc'[w] \in {"done", "entry"}
      /\ todo'[w] = IF d \in Unreadable THEN <<>> ELSE Entries[d]
  BY <1>0, <1>1 DEF OpenDir, Goto, CTypeOK
<1>3. ASSUME NEW x \in Node
      PROVE  Share(w, x) = 0 /\ Share(w, x)' = ChildItems[d][x]
  <2>1. Rest(w) = <<>> /\ Rest(w)' = IF d \in Unreadable THEN <<>> ELSE Entries[d]
    BY <1>1, <1>2 DEF Rest
  <2>2. Share(w, x) = 0
    BY <2>1, ShareNone
  <2>3. CASE d \in Unreadable
    BY <1>1, <2>1, <2>2, <2>3, ShareNoneNext DEF ChildItems
  <2>4. CASE d \notin Unreadable
    <3>1. Share(w, x)' = IF Wanted(EntryKind(x)) THEN Times(x, Entries[d]) ELSE 0
      BY <1>1, <2>1, <2>4, CNodeAssumption DEF Share, PicksUp, Times, Places
    <3> QED
      BY <1>1, <2>2, <2>4, <3>1 DEF ChildItems
  <2> QED
    BY <2>3, <2>4
<1>4. ASSUME NEW x \in Node
      PROVE  /\ x = d => w \in JustPopped(x)
             /\ Cardinality(JustPopped(x))' = Cardinality(JustPopped(x)) - (IF x = d THEN 1 ELSE 0)
  <2>1. IsFiniteSet(JustPopped(x)) /\ Cardinality(JustPopped(x)) \in Nat
    BY <1>0, CountsType DEF CountsAreNumbers
  <2>2. CASE x = d
    <3>1. w \in JustPopped(x) /\ JustPopped(x)' = JustPopped(x) \ {w}
      BY <1>0, <1>1, <1>2, <2>2 DEF JustPopped, OthersStay, SameThread
    <3> QED
      BY <2>1, <2>2, <3>1, FS_RemoveElement
  <2>3. CASE x # d
    <3>1. JustPopped(x)' = JustPopped(x)
      BY <1>0, <1>1, <2>3, PoppedSame DEF OthersStay
    <3> QED
      BY <2>1, <2>3, <3>1
  <2> QED
    BY <2>2, <2>3
<1>5. ASSUME NEW x \in Node
      PROVE  /\ Waiting'[x] = Waiting[x] - (IF x = d THEN 1 ELSE 0) + ChildItems[d][x]
             /\ x = d => Waiting[x] > 0
             /\ Waiting[x] \in Nat
  <2>1. /\ Share(w, x) = 0 /\ Share(w, x)' = ChildItems[d][x]
        /\ Times(x, g_q)' = Times(x, g_q)
        /\ Cardinality(JustPopped(x))' = Cardinality(JustPopped(x)) - (IF x = d THEN 1 ELSE 0)
    BY <1>1, <1>3, <1>4 DEF Times, Places
  <2>2. /\ Waiting[x] \in Nat /\ Waiting'[x] \in Nat
        /\ Share(w, x)' \in Nat /\ Times(x, g_q) \in Nat
        /\ Cardinality(JustPopped(x)) \in Nat /\ Cardinality(JustPopped(x)) <= Waiting[x]
        /\ Cardinality(JustPopped(x))' \in Nat
        /\ Waiting'[x] + Share(w, x) + Times(x, g_q) + Cardinality(JustPopped(x))
           = Waiting[x] + Share(w, x)' + Times(x, g_q)' + Cardinality(JustPopped(x))'
    BY <1>0, WaitingStep
  <2>3. x = d => Cardinality(JustPopped(x)) > 0
    BY <2>1, <2>2
  <2> QED
    BY <2>1, <2>2, <2>3
<1>6. Waiting' = [x \in Node |-> TS!Without(d)[x] + ChildItems[d][x]]
  <2>1. ASSUME NEW x \in Node
        PROVE  TS!Without(d)[x] = Waiting[x] - (IF x = d THEN 1 ELSE 0)
    BY <1>5, WaitingFunction DEF TS!Without
  <2> QED
    BY <1>5, <2>1, WaitingFunction
<1>7. visited' = [visited EXCEPT ![d] = @ + 1] /\ UNCHANGED <<lost, Reported>>
  BY <1>0 DEF OpenDir, queue, room
<1> QED
  BY <1>1, <1>5, <1>6, <1>7 DEF TS!Visit

\* search_file is a visit that finds nothing.
LEMMA SearchVisits ==
  ASSUME CRInv, CRInv', NEW w \in Worker, StartFile(w)
  PROVE  TS!Visit(Child(w)) /\ Child(w) \in Node
<1>0. CTypeOK /\ Shape /\ CTypeOK' /\ Shape' /\ Hands /\ OthersStay(w) /\ Reported' = Reported
  BY StepBasics DEF Step
<1> DEFINE f == Child(w)
<1>1. /\ pc[w] = "file" /\ todo[w] # <<>> /\ dir' = dir /\ g_q' = g_q
      /\ Kind(f) = "REG" /\ PicksUp(w, f)
  BY <1>0 DEF StartFile, At, Shape, CShapeOf, Hands, HandOf, Calling, queue
<1>2. f \in Node
  BY <1>0, <1>1, ChildType
<1>3. Rest(w) = todo[w] /\ Rest(w)' = Tail(todo[w]) /\ pc'[w] \in {"arg", "entry", "lines"}
  <2>1. CASE Advance(w)
    BY <1>0, <1>1, <2>1, RestAdvance DEF Rest, Advance, Goto, CTypeOK
  <2>2. CASE Goto(w, "lines") /\ UNCHANGED todo
    BY <1>0, <1>1, <2>2 DEF Rest, Goto, CTypeOK
  <2> QED
    BY <2>1, <2>2 DEF StartFile
<1>4. \A x \in Node : /\ JustPopped(x)' = JustPopped(x)
                      /\ Share(w, x) = Share(w, x)' + (IF x = f THEN 1 ELSE 0)
  BY <1>0, <1>1, <1>3, PoppedSame, ShareTail
<1>5. Waiting' = [Waiting EXCEPT ![f] = @ - 1] /\ Waiting[f] > 0
  <2> HIDE DEF f
  <2> QED
    BY <1>0, <1>1, <1>2, <1>4, Dealt
<1>6. Waiting' = [x \in Node |-> TS!Without(f)[x] + ChildItems[f][x]]
  <2>1. \A x \in Node : ChildItems[f][x] = 0
    BY <1>1, <1>2 DEF ChildItems
  <2>2. \A x \in Node : TS!Without(f)[x] = Waiting'[x]
    BY <1>5 DEF TS!Without
  <2>3. \A x \in Node : Waiting'[x] \in Nat
    BY <1>0, WaitingStep
  <2>4. \A x \in Node : Waiting'[x] = TS!Without(f)[x] + ChildItems[f][x]
    BY <2>1, <2>2, <2>3
  <2> QED
    BY <2>4, WaitingFunction
<1>7. visited' = [visited EXCEPT ![f] = @ + 1] /\ UNCHANGED <<lost, Reported>>
  BY <1>0 DEF StartFile, queue, room
<1> QED
  BY <1>2, <1>5, <1>6, <1>7 DEF TS!Visit

\* A directory for which there is no room is given up.
LEMMA ForgetGivesUp ==
  ASSUME CRInv, CRInv', NEW w \in Worker, Forget(w), OthersStay(w),
         pc[w] \in {"alloc", "push"}, UNCHANGED <<g_q, dir, visited, Reported>>
  PROVE  TS!GiveUp(Child(w)) /\ Child(w) \in Node
<1>0. CTypeOK /\ Shape /\ CTypeOK' /\ Shape' /\ Hands
  BY DEF CRInv, CIInv, CWalkInv, Shape
<1>1. todo[w] # <<>> /\ PicksUp(w, Child(w)) /\ Rest(w) = todo[w]
  BY <1>0 DEF Shape, CShapeOf, Hands, HandOf, Calling, Rest
<1>2. Rest(w)' = Tail(todo[w]) /\ pc'[w] \in {"arg", "entry"}
  BY <1>0, RestAdvance DEF Forget, Advance, Goto, CTypeOK
<1>3. Child(w) \in Node
  BY <1>0, <1>1, ChildType
<1>4. \A x \in Node : /\ JustPopped(x)' = JustPopped(x)
                      /\ Share(w, x) = Share(w, x)' + (IF x = Child(w) THEN 1 ELSE 0)
  BY <1>0, <1>1, <1>2, PoppedSame, ShareTail
<1>5. Waiting' = [Waiting EXCEPT ![Child(w)] = @ - 1] /\ Waiting[Child(w)] > 0
  BY <1>0, <1>3, <1>4, Dealt
<1> QED
  BY <1>3, <1>5 DEF TS!GiveUp, TS!Without, Forget

\* Zig's arena gives the directory up or leaves it in hand.
LEMMA AllocImplements ==
  ASSUME CRInv, CRInv', NEW w \in Worker, Alloc(w)
  PROVE  (\E x \in Node : TS!GiveUp(x)) \/ Stutter
<1>0. CTypeOK /\ Shape /\ CTypeOK' /\ Shape' /\ Hands /\ OthersStay(w) /\ Reported' = Reported
  BY StepBasics DEF Step
<1>1. pc[w] = "alloc" /\ UNCHANGED <<g_q, dir, visited, Reported>>
  BY <1>0 DEF Alloc, At
<1>2. CASE Forget(w)
  BY <1>0, <1>1, <1>2, ForgetGivesUp
<1>3. CASE Goto(w, "push") /\ UNCHANGED <<todo, lost>>
  <2>1. Rest(w)' = Rest(w) /\ pc'[w] = "push"
    BY <1>0, <1>1, <1>3 DEF Goto, Rest, CTypeOK
  <2>2. \A x \in Node : Share(w, x)' = Share(w, x) /\ JustPopped(x)' = JustPopped(x)
    BY <1>0, <1>1, <2>1, ShareSame, PoppedSame
  <2> QED
    BY <1>0, <1>1, <1>3, <2>2, NoMove DEF Stutter
<1> QED
  BY <1>2, <1>3 DEF Alloc

\* q_push moves a directory from the hand to the queue.
LEMMA PushImplements ==
  ASSUME CRInv, CRInv', NEW w \in Worker, Push(w)
  PROVE  Stutter
<1>0. CTypeOK /\ Shape /\ CTypeOK' /\ Shape' /\ Hands /\ OthersStay(w) /\ Reported' = Reported
  BY StepBasics DEF Step
<1>1. /\ pc[w] = "push" /\ pc'[w] = "count" /\ todo[w] # <<>> /\ PicksUp(w, Child(w))
      /\ UNCHANGED <<todo, dir, visited, lost>> /\ g_q' = Append(g_q, Child(w))
  BY <1>0 DEF Push, At, Goto, CTypeOK, Shape, CShapeOf, Hands, HandOf, Calling, room
<1>2. Rest(w) = todo[w] /\ Rest(w)' = Tail(todo[w])
  BY <1>1 DEF Rest
<1>3. Child(w) \in Node
  BY <1>0, <1>1, ChildType
<1>4. ASSUME NEW x \in Node PROVE Waiting'[x] = Waiting[x]
  <2>1. Share(w, x) = Share(w, x)' + (IF x = Child(w) THEN 1 ELSE 0)
    BY <1>0, <1>1, <1>2, ShareTail
  <2>2. Times(x, g_q)' = Times(x, g_q) + (IF x = Child(w) THEN 1 ELSE 0)
    <3>1. Times(x, Append(g_q, Child(w))) = Times(x, g_q) + (IF Child(w) = x THEN 1 ELSE 0)
      BY <1>0, <1>3, TimesAppend DEF CTypeOK
    <3>2. Times(x, g_q)' = Times(x, g_q')
      BY DEF Times, Places
    <3> QED
      BY <1>1, <3>1, <3>2
  <2>3. JustPopped(x)' = JustPopped(x)
    BY <1>0, <1>1, PoppedSame
  <2>4. Cardinality(JustPopped(x))' = Cardinality(JustPopped(x))
    BY <2>3
  <2>5. /\ Waiting[x] \in Nat /\ Waiting'[x] \in Nat /\ Share(w, x) \in Nat /\ Share(w, x)' \in Nat
        /\ Times(x, g_q) \in Nat /\ Cardinality(JustPopped(x)) \in Nat
        /\ Waiting'[x] + Share(w, x) + Times(x, g_q) + Cardinality(JustPopped(x))
           = Waiting[x] + Share(w, x)' + Times(x, g_q)' + Cardinality(JustPopped(x))'
    BY <1>0, WaitingStep
  <2> QED
    BY <2>1, <2>2, <2>4, <2>5
<1>5. Waiting' = Waiting
  BY <1>4, WaitingFunction
<1> QED
  BY <1>0, <1>1, <1>5 DEF Stutter

\* q_pop moves a directory from the queue to the hand, or nothing.
LEMMA PopImplements ==
  ASSUME CRInv, CRInv', NEW w \in Worker, Pop(w)
  PROVE  Stutter
<1>0. CTypeOK /\ Shape /\ CTypeOK' /\ Shape' /\ Hands /\ OthersStay(w) /\ Reported' = Reported
  BY StepBasics DEF Step
<1>1. /\ pc[w] = "pop" /\ pc'[w] \in {"test", "open"} /\ todo[w] = <<>> /\ todo' = todo
      /\ dir[w] = NoNode /\ UNCHANGED <<visited, lost>>
  <2>1. pc[w] = "pop" /\ UNCHANGED <<todo, visited, lost>> /\ CShapeOf(w) /\ HandOf(w)
    BY <1>0 DEF Pop, At, Shape, Hands, room
  <2>2. todo[w] = <<>> /\ dir[w] = NoNode
    BY <2>1 DEF HandOf, CShapeOf, Calling
  <2>3. pc'[w] \in {"test", "open"}
    BY <1>0 DEF Pop, Goto, CTypeOK
  <2> QED
    BY <2>1, <2>2, <2>3
<1>2. \A x \in Node : Share(w, x) = 0 /\ Share(w, x)' = 0
  BY <1>1, ShareNone, ShareNoneNext DEF Rest
<1>3. CASE g_q = <<>>
  <2>1. UNCHANGED <<g_q, dir>>
    BY <1>3 DEF Pop
  <2>2. \A x \in Node : JustPopped(x)' = JustPopped(x)
    BY <1>0, <1>1, <2>1, CNodeAssumption, PoppedSame
  <2>3. Waiting' = Waiting
    BY <1>0, <1>2, <2>1, <2>2, NoMove
  <2> QED
    BY <1>0, <1>1, <2>3 DEF Stutter
<1>4. CASE g_q # <<>>
  <2> DEFINE d == g_q[Len(g_q)]
  <2>1. d \in Node /\ dir'[w] = d /\ g_q' = SubSeq(g_q, 1, Len(g_q) - 1) /\ pc'[w] = "open"
    <3>1. d \in Node
      BY <1>0, <1>4, PopType DEF Last
    <3> QED
      BY <1>0, <1>4, <3>1 DEF Pop, Goto, CTypeOK, Last, Front
  <2>2. ASSUME NEW x \in Node PROVE Waiting'[x] = Waiting[x]
    <3>1. Times(x, g_q) = Times(x, g_q)' + (IF x = d THEN 1 ELSE 0)
      <4>1. Times(x, g_q) = Times(x, SubSeq(g_q, 1, Len(g_q) - 1)) + (IF d = x THEN 1 ELSE 0)
        BY <1>0, <1>4, TimesFront DEF CTypeOK
      <4>2. Times(x, g_q)' = Times(x, g_q')
        BY DEF Times, Places
      <4> QED
        BY <2>1, <4>1, <4>2
    <3>2. Cardinality(JustPopped(x))' = Cardinality(JustPopped(x)) + (IF x = d THEN 1 ELSE 0)
      <4>1. IsFiniteSet(JustPopped(x)) /\ Cardinality(JustPopped(x)) \in Nat
        BY <1>0, CountsType DEF CountsAreNumbers
      <4>2. CASE x = d
        <5>1. w \notin JustPopped(x) /\ JustPopped(x)' = JustPopped(x) \cup {w}
          BY <1>0, <1>1, <2>1, <4>2 DEF JustPopped, OthersStay, SameThread
        <5> QED
          BY <4>1, <4>2, <5>1, FS_AddElement
      <4>3. CASE x # d
        <5>1. JustPopped(x)' = JustPopped(x)
          BY <1>0, <1>1, <2>1, <4>3, PoppedSame
        <5> QED
          BY <4>1, <4>3, <5>1
      <4> QED
        BY <4>2, <4>3
    <3>3. /\ Waiting[x] \in Nat /\ Waiting'[x] \in Nat
          /\ Times(x, g_q) \in Nat /\ Times(x, g_q)' \in Nat
          /\ Cardinality(JustPopped(x)) \in Nat
          /\ Waiting'[x] + Share(w, x) + Times(x, g_q) + Cardinality(JustPopped(x))
             = Waiting[x] + Share(w, x)' + Times(x, g_q)' + Cardinality(JustPopped(x))'
      BY <1>0, WaitingStep
    <3> QED
      BY <1>2, <3>1, <3>2, <3>3
  <2>3. Waiting' = Waiting
    BY <2>2, WaitingFunction
  <2> QED
    BY <1>0, <1>1, <2>3 DEF Stutter
<1> QED
  BY <1>3, <1>4

\* When main returns nothing waits, and the flags are what the visits call for.
LEMMA ReturnReports ==
  ASSUME CRInv, CRInv', Return
  PROVE  TS!Report
<1>0. /\ CTypeOK /\ Shape /\ CTypeOK' /\ Shape' /\ Hands /\ FlagsMeanVisits
      /\ OthersStay(Main) /\ Main \in Worker
  BY MainFrame, MainIsWorker DEF CRInv, CIInv, CWalkInv, Shape, OthersStay
<1>1. pc[Main] = "join" /\ status = -1 /\ UNCHANGED <<g_q, pc, dir, todo, visited, lost>>
  BY DEF Return, At, queue, room, walk
<1>2. Quiet
  BY <1>0, <1>1 DEF CRInv, CIInv, CWalkInv, NoEarlyExit, LeftLoop
<1>3. \A w \in Worker : dir[w] = NoNode /\ todo[w] = <<>> /\ lines[w] = <<>>
  <2> SUFFICES ASSUME NEW w \in Worker PROVE dir[w] = NoNode /\ todo[w] = <<>> /\ lines[w] = <<>>
    OBVIOUS
  <2>1. dir[w] = NoNode /\ pc[w] \notin Calling \cup {"arg"}
    BY <1>2 DEF Quiet, InHand
  <2>2. pc[w] # "entry"
    BY <1>0, <2>1 DEF Shape, CShapeOf
  <2>3. HandOf(w)
    BY <1>0 DEF Hands
  <2> QED
    BY <2>1, <2>2, <2>3 DEF HandOf, Calling
<1>4. ASSUME NEW x \in Node PROVE Waiting[x] = 0
  <2>1. \A w \in Worker : Undispatched(x)[w] = {}
    <3> SUFFICES ASSUME NEW w \in Worker PROVE Undispatched(x)[w] = {}
      OBVIOUS
    <3>1. Rest(w) = <<>>
      BY <1>2, <1>3 DEF Rest, Quiet, Calling
    <3> QED
      BY <3>1, TimesEmpty DEF Undispatched
  <2>2. Total(Undispatched(x)) = 0
    <3>1. DOMAIN Undispatched(x) = Worker
      BY DEF Undispatched
    <3> QED
      BY <2>1, <3>1, TotalEmpty
  <2>3. Times(x, g_q) = 0
    BY <1>2, TimesEmpty DEF Quiet
  <2>4. JustPopped(x) = {}
    BY <1>3, CNodeAssumption DEF JustPopped
  <2>5. Cardinality(JustPopped(x)) = 0
    BY <2>4, FS_EmptySet
  <2> QED
    BY <2>2, <2>3, <2>5 DEF Waiting
<1>5. Waiting' = Waiting
  <2>1. \A x \in Node : Share(Main, x)' = Share(Main, x) /\ JustPopped(x)' = JustPopped(x)
    <3>1. Rest(Main)' = Rest(Main)
      BY <1>1 DEF Rest
    <3> QED
      BY <1>0, <1>1, <3>1, ShareSame, PoppedSame
  <2> QED
    BY <1>0, <1>1, <2>1, NoMove
<1>6. /\ g_err <=> GivenError \/ \E x \in BadFile : visited[x] > 0
      /\ g_match <=> \E x \in Hit : visited[x] > 0
  <2>1. ~ HasError(ArgsLeft)
    BY <1>0, <1>3 DEF ArgsLeft, HasError
  <2> QED
    BY <1>0, <1>3, <2>1 DEF FlagsMeanVisits
<1>7. /\ status' = IF GivenError \/ (\E x \in BadFile : visited[x] > 0) THEN 2
                   ELSE IF \E x \in Hit : visited[x] > 0 THEN 0 ELSE 1
      /\ status' \in {0, 1, 2}
  BY <1>6 DEF Return
<1>8. Reported = -1 /\ Reported' = status'
  BY <1>1, <1>7 DEF Reported, SIGSEGV
<1> QED
  BY <1>1, <1>4, <1>5, <1>7, <1>8 DEF TS!Report

\* A step that touches neither queue, directories nor entries moves no finding unless
\* it goes to or from the end of a push, the start of a file or a pop.
LEMMA ElsewhereStutter ==
  ASSUME CRInv, CRInv', NEW w \in Worker, OthersStay(w),
         UNCHANGED <<g_q, visited, lost, Reported>>,
         dir'[w] = dir[w], Rest(w)' = Rest(w), pc[w] = "open" <=> pc'[w] = "open"
  PROVE  Stutter
<1>0. CTypeOK /\ Shape /\ CTypeOK' /\ Shape'
  BY DEF CRInv, CIInv, CWalkInv, Shape
<1>1. \A x \in Node : Share(w, x)' = Share(w, x)
  BY ShareSame
<1>2. \A x \in Node : JustPopped(x)' = JustPopped(x)
  BY DEF JustPopped, OthersStay, SameThread
<1>3. Waiting' = Waiting
  BY <1>0, <1>1, <1>2, NoMove
<1> QED
  BY <1>3 DEF Stutter

\* Every step of a thread is a step of the abstract search or none at all.
LEMMA ThreadImplements ==
  ASSUME CRInv, CRInv', NEW w \in Worker, Step(w)
  PROVE  TS!Next \/ Stutter
<1>0. CTypeOK /\ Shape /\ CTypeOK' /\ Shape' /\ Hands /\ OthersStay(w) /\ Reported' = Reported
  BY StepBasics
<1>1. CASE OpenDir(w)
  <2>1. dir[w] \in Node
    BY <1>0, <1>1 DEF OpenDir, At, Shape, CShapeOf, CTypeOK
  <2> QED
    BY <1>1, <2>1, OpenVisits DEF TS!Next
<1>2. CASE ReadEntry(w)
  <2>1. dir[w] # NoNode /\ pc[w] = "entry" /\ todo[w] # <<>> /\ UNCHANGED <<g_q, dir, visited, lost>>
    BY <1>0, <1>2 DEF ReadEntry, At, Shape, CShapeOf, queue, room
  <2>2. Dispatch(w, EntryKind(Child(w)))
    BY <1>2 DEF ReadEntry
  <2>3. pc'[w] \in {"alloc", "push", "file", "arg", "entry"}
    BY <1>0, <2>2 DEF Dispatch, Advance, Goto, CTypeOK
  <2>4. \A x \in Node : Share(w, x)' = Share(w, x) /\ JustPopped(x)' = JustPopped(x)
    BY <1>0, <2>1, <2>2, <2>3, DispatchMovesNothing, PoppedSame
  <2>5. Waiting' = Waiting
    BY <1>0, <2>1, <2>4, NoMove
  <2> QED
    BY <1>0, <2>1, <2>5 DEF Stutter
<1>3. CASE StartFile(w)
  BY <1>3, SearchVisits DEF TS!Next
<1>4. CASE Alloc(w)
  BY <1>4, AllocImplements DEF TS!Next
<1>5. CASE Refuse(w)
  <2>1. pc[w] = "push" /\ Forget(w) /\ UNCHANGED <<g_q, dir, visited>>
    BY <1>5 DEF Refuse, At
  <2> QED
    BY <1>0, <2>1, ForgetGivesUp DEF TS!Next
<1>6. CASE Push(w)
  BY <1>6, PushImplements
<1>7. CASE Pop(w)
  BY <1>7, PopImplements
<1>8. CASE Count(w) \/ EndFile(w)
  <2>1. /\ pc[w] \in {"count", "lines"} /\ Advance(w) /\ UNCHANGED <<g_q, dir, visited, lost>>
    BY <1>8 DEF Count, EndFile, At, queue, room
  <2>2. Rest(w)' = Rest(w) /\ pc'[w] \in {"arg", "entry"}
    BY <1>0, <2>1, RestAdvance DEF Rest, Advance, Goto, CTypeOK
  <2> QED
    BY <1>0, <2>1, <2>2, ElsewhereStutter
<1>9. CASE DirDone(w)
  <2>1. /\ pc[w] = "done" /\ pc'[w] = "pop" /\ todo[w] = <<>>
        /\ UNCHANGED <<g_q, todo, visited, lost>>
    <3>1. pc[w] = "done" /\ HandOf(w) /\ UNCHANGED <<g_q, todo, visited, lost>>
      BY <1>0, <1>9 DEF DirDone, At, Hands, room
    <3>2. pc'[w] = "pop"
      BY <1>0, <1>9 DEF DirDone, Goto, CTypeOK
    <3> QED
      BY <3>1, <3>2 DEF HandOf, Calling
  <2>2. \A x \in Node : Share(w, x) = 0 /\ Share(w, x)' = 0
    BY <2>1, ShareNone, ShareNoneNext DEF Rest
  <2>3. \A x \in Node : JustPopped(x)' = JustPopped(x)
    BY <1>0, <2>1, PoppedSame
  <2>4. Waiting' = Waiting
    BY <1>0, <2>1, <2>2, <2>3, NoMove
  <2> QED
    BY <1>0, <2>1, <2>4 DEF Stutter
<1>10. CASE \/ CloseDir(w) \/ TestPending(w) \/ MakeRoom(w) \/ KeepLine(w) \/ StreamLine(w)
            \/ WritePiece(w) \/ LastFlush(w)
  <2>1. /\ UNCHANGED <<g_q, dir, todo, visited, lost>>
        /\ pc[w] # "open" /\ pc'[w] # "open"
        /\ pc[w] \in {"count", "lines", "stream"} <=> pc'[w] \in {"count", "lines", "stream"}
    BY <1>0, <1>10 DEF CloseDir, TestPending, MakeRoom, KeepLine, StreamLine, WritePiece, LastFlush, At, Goto,
                       CTypeOK, queue, room, walk
  <2>2. Rest(w)' = Rest(w)
    BY <2>1 DEF Rest
  <2> QED
    BY <1>0, <2>1, <2>2, ElsewhereStutter
<1> QED
  BY <1>1, <1>2, <1>3, <1>4, <1>5, <1>6, <1>7, <1>8, <1>9, <1>10 DEF Step

\* So is every other step of the program.
LEMMA StepImplements == CRInv /\ CRInv' /\ [CNext]_cvars => [TS!Next]_(TS!tsvars)
<1> SUFFICES ASSUME CRInv, CRInv', [CNext]_cvars PROVE TS!Next \/ Stutter
  BY DEF Stutter, TS!tsvars
<1>0. /\ CTypeOK /\ Shape /\ CTypeOK' /\ Shape' /\ Hands /\ Phases
      /\ Main \in Worker
  BY MainIsWorker DEF CRInv, CIInv, CWalkInv, Shape
<1>1. CASE Argument
  <2>1. /\ dir[Main] = NoNode /\ pc[Main] = "arg" /\ todo[Main] # <<>> /\ OthersStay(Main)
        /\ UNCHANGED <<g_q, dir, visited, lost, Reported>>
    BY <1>0, <1>1, MainFrame
       DEF Argument, At, Shape, CShapeOf, Calling, OthersStay, queue, room, Reported
  <2>2. Dispatch(Main, Mode[Child(Main)])
    BY <1>1 DEF Argument
  <2>3. pc'[Main] \in {"alloc", "push", "file", "arg", "entry"}
    BY <1>0, <2>2 DEF Dispatch, Advance, Goto, CTypeOK
  <2>4. \A x \in Node : Share(Main, x)' = Share(Main, x) /\ JustPopped(x)' = JustPopped(x)
    BY <1>0, <2>1, <2>2, <2>3, DispatchMovesNothing, PoppedSame
  <2>5. Waiting' = Waiting
    BY <1>0, <2>1, <2>4, NoMove
  <2> QED
    BY <2>1, <2>5 DEF Stutter
<1>2. CASE EndArguments \/ BecomeWorker \/ Join
  <2>1. /\ OthersStay(Main) /\ UNCHANGED <<g_q, visited, lost, dir, todo>>
        /\ pc[Main] \in {"arg", "spawn", "join"} /\ pc'[Main] \in {"spawn", "flush", "pop", "join"}
    BY <1>0, <1>2, MainFrame
       DEF EndArguments, BecomeWorker, Join, At, Goto, CTypeOK, OthersStay, queue, room, walk
  <2>2. Rest(Main)' = Rest(Main)
    BY <2>1 DEF Rest
  <2>3. Reported' = Reported
    BY <1>2 DEF EndArguments, BecomeWorker, Join, At, Reported, SIGSEGV
  <2> QED
    BY <1>0, <2>1, <2>2, <2>3, ElsewhereStutter
<1>3. CASE Create
  <2>1. PICK h \in Helper : h = t
    BY <1>0, <1>3, CThreadAssumption DEF Create, CTypeOK, Worker, Main, Helper
  <2>2. h \in Worker /\ pc[h] = "none"
    BY <1>0, <1>3, <2>1, MainIsWorker DEF Create, At, Phases, CTypeOK
  <2>3. /\ OthersStay(h) /\ UNCHANGED <<g_q, visited, lost, dir, todo, Reported>>
        /\ pc'[h] \in {"none", "pop"}
    BY <1>0, <1>3, <2>1, <2>2 DEF Create, CTypeOK, OthersStay, SameThread, queue, room, output, Reported
  <2>4. Rest(h)' = Rest(h)
    BY <2>2, <2>3 DEF Rest
  <2> QED
    BY <2>2, <2>3, <2>4, ElsewhereStutter
<1>4. CASE Return
  BY <1>4, ReturnReports DEF TS!Next
<1>5. ASSUME NEW w \in Worker, Step(w) PROVE TS!Next \/ Stutter
  BY <1>5, ThreadImplements
<1>6. CASE UNCHANGED cvars
  <2>1. UNCHANGED <<g_q, g_qlock, g_outlock, pc, dir, todo, lines, piece, visited, lost, status>>
    BY <1>6 DEF cvars, queue, room, walk, output
  <2>2. OthersStay(Main) /\ Rest(Main)' = Rest(Main) /\ Reported' = Reported
    BY <2>1 DEF OthersStay, SameThread, Rest, Reported
  <2> QED
    BY <1>0, <2>1, <2>2, ElsewhereStutter
<1> QED
  BY <1>1, <1>2, <1>3, <1>4, <1>5, <1>6 DEF CNext, MainStep

\* At the start the arguments wait, and nothing else.
LEMMA InitImplements == CInit => TS!Init
<1> SUFFICES ASSUME CInit PROVE TS!Init
  OBVIOUS
<1>0. CTypeOK /\ Shape /\ Main \in Worker
  BY InitCIInv, MainIsWorker DEF CIInv, CWalkInv, Shape
<1>1. \A w \in Worker : /\ pc[w] = (IF w = Main THEN "arg" ELSE "none") /\ dir[w] = NoNode
                        /\ todo[w] = IF w = Main THEN Paths ELSE <<>>
  BY DEF CInit
<1>2. ASSUME NEW x \in Node PROVE Waiting[x] = GivenItems[x]
  <2> DEFINE P == Undispatched(x)
             Q == [P EXCEPT ![Main] = {}]
  <2>1. IsFiniteSet(Worker)
    BY CThreadAssumption, FS_Interval DEF Worker
  <2>2. /\ P \in [Worker -> SUBSET Nat] /\ \A w \in Worker : IsFiniteSet(P[w])
        /\ Cardinality(P[Main]) = Share(Main, x) /\ Share(Main, x) \in Nat
    BY <1>0, CountsType DEF CountsAreNumbers
  <2>3. \A w \in Worker : w # Main => P[w] = {}
    <3> SUFFICES ASSUME NEW w \in Worker, w # Main PROVE P[w] = {}
      OBVIOUS
    <3>1. Rest(w) = <<>>
      BY <1>1 DEF Rest
    <3> QED
      BY <3>1, TimesEmpty DEF Undispatched
  <2>4. Q \in [Worker -> SUBSET Nat] /\ \A w \in DOMAIN Q : Q[w] = {}
    BY <2>2, <2>3
  <2>5. Total(Q) = 0
    <3> HIDE DEF Q
    <3> QED
      BY <2>4, TotalEmpty
  <2>6. Total(P) = Total(Q) + Cardinality(P[Main])
    <3> HIDE DEF P
    <3> QED
      BY <1>0, <2>1, <2>2, TotalSplit
  <2>7. Share(Main, x) = GivenItems[x]
    <3>1. Rest(Main) = Paths /\ dir[Main] = NoNode
      BY <1>0, <1>1 DEF Rest
    <3> QED
      BY <3>1 DEF Share, PicksUp, GivenItems
  <2>8. Times(x, g_q) = 0
    BY TimesEmpty DEF CInit
  <2>9. Cardinality(JustPopped(x)) = 0
    <3>1. JustPopped(x) = {}
      BY <1>1 DEF JustPopped
    <3> QED
      BY <3>1, FS_EmptySet
  <2>10. Waiting[x] = Total(P) + Times(x, g_q) + Cardinality(JustPopped(x))
    BY DEF Waiting
  <2> HIDE DEF P, Q
  <2> QED
    BY <2>2, <2>5, <2>6, <2>7, <2>8, <2>9, <2>10
<1>3. Waiting = GivenItems
  BY <1>2, WaitingFunction DEF GivenItems
<1>4. Reported = -1
  BY DEF CInit, Reported, SIGSEGV
<1> QED
  BY <1>3, <1>4 DEF CInit, TS!Init

\* c/grep.c and zig/grep.zig, for any number of threads and any tree, are recursive
\* searches: every path named or found is visited once per finding or, by the Zig
\* program, given up, and main returns when nothing waits, with the status the visits
\* call for.
THEOREM CProgramsImplementTreeSearch == CSpec => ImplementsTreeSearch
<1>1. CInit => TS!Init
  BY InitImplements
<1>2. CRInv /\ CRInv' /\ [CNext]_cvars => [TS!Next]_(TS!tsvars)
  BY StepImplements
<1> QED
  BY <1>1, <1>2, CRefinementInvariant, PTL DEF CSpec, ImplementsTreeSearch, TS!Spec

-----------------------------------------------------------------------------
(* The output: what Shown, Printed and Only gather.                        *)

OfThread == [w \in Worker |->
              [x \in Write |-> IF x.by = w /\ EndsLine(x) THEN x.lines ELSE <<>>]]
OfAll == [x \in Write |-> IF EndsLine(x) THEN x.lines ELSE <<>>]
Picked(K) == [l \in Line |-> IF l \in K THEN <<l>> ELSE <<>>]

LEMMA GatherersType ==
  /\ OfAll \in [Write -> Seq(Line)] /\ \A w \in Worker : OfThread[w] \in [Write -> Seq(Line)]
  /\ \A K : Picked(K) \in [Line -> Seq(Line)]
<1>1. <<>> \in Seq(Line) /\ \A l \in Line : <<l>> \in Seq(Line)
  OBVIOUS
<1>2. \A x \in Write : x.lines \in Seq(Line)
  BY DEF Write
<1> QED
  BY <1>1, <1>2 DEF OfAll, OfThread, Picked

\* The lines that thread w has written, and all of them, are gathered from the writes.
LEMMA ShownGathered ==
  ASSUME stdout \in Seq(Write)
  PROVE  /\ Printed = Gathered(OfAll, stdout)
         /\ \A w \in Worker : Shown(w) = Gathered(OfThread[w], stdout)
<1>1. \A i \in DOMAIN stdout : stdout[i] \in Write
  OBVIOUS
<1>2. Mapped(OfAll, stdout)
        = [i \in DOMAIN stdout |-> IF EndsLine(stdout[i]) THEN stdout[i].lines ELSE <<>>]
  BY <1>1 DEF Mapped, OfAll
<1>3. ASSUME NEW w \in Worker
      PROVE  Mapped(OfThread[w], stdout)
               = [i \in DOMAIN stdout |->
                    IF stdout[i].by = w /\ EndsLine(stdout[i]) THEN stdout[i].lines ELSE <<>>]
  BY <1>1 DEF Mapped, OfThread
<1> QED
  BY <1>2, <1>3 DEF Gathered, Printed, Shown

LEMMA ShownType ==
  ASSUME CTypeOK, NEW w \in Worker
  PROVE  Shown(w) \in Seq(Line)
<1>1. PICK G \in [Write -> Seq(Line)], out \in Seq(Write) : G = OfThread[w] /\ out = stdout
  BY GatherersType DEF CTypeOK
<1>2. Gathered(G, out) \in Seq(Line)
  BY GatheredType
<1> QED
  BY <1>1, <1>2, ShownGathered

LEMMA OnlyGathered ==
  ASSUME NEW K, NEW s \in Seq(Line)
  PROVE  Only(K, s) = Gathered(Picked(K), s)
<1>1. \A i \in DOMAIN s : s[i] \in Line
  OBVIOUS
<1>2. Mapped(Picked(K), s) = [i \in DOMAIN s |-> IF s[i] \in K THEN <<s[i]>> ELSE <<>>]
  BY <1>1 DEF Mapped, Picked
<1> QED
  BY <1>2 DEF Gathered, Only

LEMMA OnlyType ==
  ASSUME NEW K, NEW s \in Seq(Line)
  PROVE  Only(K, s) \in Seq(Line)
<1>1. PICK G \in [Line -> Seq(Line)] : G = Picked(K)
  BY GatherersType
<1>2. Gathered(G, s) \in Seq(Line)
  BY GatheredType
<1> QED
  BY <1>1, <1>2, OnlyGathered

\* The lines of K in a concatenation are those in its parts.
LEMMA OnlyTogether ==
  ASSUME NEW K, NEW s \in Seq(Line), NEW u \in Seq(Line), NEW su, Together(su, s, u)
  PROVE  /\ Together(Only(K, su), Only(K, s), Only(K, u))
         /\ Only(K, s) \in Seq(Line) /\ Only(K, u) \in Seq(Line) /\ su \in Seq(Line)
<1>1. su \in Seq(Line)
  BY ConcatProperties DEF Together
<1>2. PICK G \in [Line -> Seq(Line)] : G = Picked(K)
  BY GatherersType
<1>3. Together(Gathered(G, su), Gathered(G, s), Gathered(G, u))
  BY GatheredConcat
<1>4. Gathered(G, s) \in Seq(Line) /\ Gathered(G, u) \in Seq(Line)
  BY GatheredType
<1> QED
  BY <1>1, <1>2, <1>3, <1>4, OnlyGathered

\* No line of R is in K, then no sequence over R has one of K.
LEMMA OnlyNone ==
  ASSUME NEW K, NEW R \in SUBSET Line, R \cap K = {}
  PROVE  \A s \in Seq(R) : Only(K, s) = <<>>
<1>1. PICK G \in [Line -> Seq(Line)] : G = Picked(K) /\ \A e \in R : G[e] = <<>>
  <2>1. \A e \in R : Picked(K)[e] = <<>>
    BY DEF Picked
  <2> QED
    BY <2>1, GatherersType
<1>2. \A s \in Seq(R) : Gathered(G, s) = <<>>
  BY <1>1, NothingGathered
<1>3. \A s \in Seq(R) : s \in Seq(Line)
  OBVIOUS
<1> QED
  BY <1>1, <1>2, <1>3, OnlyGathered

\* A line of K stands in s as often as in the lines of K.
LEMMA TimesOnly ==
  ASSUME NEW K, NEW x \in K
  PROVE  \A s \in Seq(Line) : Times(x, Only(K, s)) = Times(x, s)
<1> DEFINE P == {s \in Seq(Line) : Times(x, Gathered(Picked(K), s)) = Times(x, s)}
<1>1. <<>> \in P
  BY GatheredEmpty, EmptySeq
<1>2. ASSUME NEW s \in Seq(Line), NEW e \in Line, s \in P PROVE Append(s, e) \in P
  <2>1. PICK long \in Seq(Line) : long = Append(s, e) /\ OneMore(long, s, e)
    BY AppendProperties DEF OneMore
  <2>2. PICK G \in [Line -> Seq(Line)] : G = Picked(K)
    BY GatherersType
  <2>3. /\ Gathered(G, s) \in Seq(Line) /\ G[e] \in Seq(Line)
        /\ Together(Gathered(G, long), Gathered(G, s), G[e])
    BY <2>1, GatheredAppend
  <2>4. Times(x, Gathered(G, long)) = Times(x, Gathered(G, s)) + Times(x, G[e])
    BY <2>3, TimesTogether
  <2>5. Together(long, s, <<e>>) /\ <<e>> \in Seq(Line)
    BY <2>1, AppendIsConcat DEF Together
  <2>6. Times(x, long) = Times(x, s) + Times(x, <<e>>)
    BY <2>5, TimesTogether
  <2>7. Times(x, G[e]) = Times(x, <<e>>)
    <3>1. CASE e \in K
      BY <2>2, <3>1 DEF Picked
    <3>2. CASE e \notin K
      <4>1. Places(x, <<e>>) = {} /\ Places(x, <<>>) = {}
        BY <3>2 DEF Places
      <4> QED
        BY <2>2, <3>2, <4>1 DEF Picked, Times
    <3> QED
      BY <3>1, <3>2
  <2>8. Times(x, Gathered(G, s)) = Times(x, s)
    BY <1>2, <2>2
  <2> QED
    BY <2>1, <2>2, <2>4, <2>6, <2>7, <2>8
<1>3. Inductive(P, Line)
  BY <1>1, <1>2 DEF Inductive
<1> HIDE DEF P
<1>4. \A s \in Seq(Line) : s \in P
  BY <1>3, SequenceInduction
<1>5. \A s \in Seq(Line) : Times(x, Gathered(Picked(K), s)) = Times(x, s)
  BY <1>4 DEF P
<1> QED
  BY <1>5, OnlyGathered

-----------------------------------------------------------------------------
(* The output: the order of a thread's lines.                              *)

\* What a thread has found and not lost.
Held(w) == Shown(w) \o obuf[w] \o lines[w]
OrderOf(w) == \A K \in {Big, Line \ Big} : Only(K, Held(w)) = Only(K, found[w])

\* How a write changes what is shown, of its thread and of the others.
LEMMA ShownAppend ==
  ASSUME CTypeOK, CTypeOK', NEW x \in Write, OneMore(stdout', stdout, x)
  PROVE  /\ \A w \in Worker : /\ Shown(w) \in Seq(Line) /\ Shown(w)' \in Seq(Line)
                              /\ x.by = w /\ EndsLine(x) => Together(Shown(w)', Shown(w), x.lines)
                              /\ ~ (x.by = w /\ EndsLine(x)) => Shown(w)' = Shown(w)
<1> SUFFICES ASSUME NEW w \in Worker
             PROVE  /\ Shown(w) \in Seq(Line) /\ Shown(w)' \in Seq(Line)
                    /\ x.by = w /\ EndsLine(x) => Together(Shown(w)', Shown(w), x.lines)
                    /\ ~ (x.by = w /\ EndsLine(x)) => Shown(w)' = Shown(w)
  OBVIOUS
<1>1. PICK G \in [Write -> Seq(Line)] : G = OfThread[w]
  BY GatherersType
<1>2. PICK out \in Seq(Write), out2 \in Seq(Write) : out = stdout /\ out2 = stdout'
  BY DEF CTypeOK, Write, LastPiece, Worker
<1>3. Shown(w) = Gathered(G, out) /\ Shown(w)' = Gathered(G, out2)
  <2>1. Shown(w) = Gathered(OfThread[w], stdout)
    BY <1>2, ShownGathered
  <2>2. Shown(w)' = Gathered(G, out2)
    <3>1. \A i \in DOMAIN out2 : out2[i] \in Write
      OBVIOUS
    <3>2. Mapped(G, out2)
            = [i \in DOMAIN out2 |->
                 IF out2[i].by = w /\ EndsLine(out2[i]) THEN out2[i].lines ELSE <<>>]
      BY <1>1, <3>1 DEF Mapped, OfThread
    <3>3. Gathered(G, out2) = FlattenSeq([i \in DOMAIN out2 |->
                 IF out2[i].by = w /\ EndsLine(out2[i]) THEN out2[i].lines ELSE <<>>])
      BY <3>2 DEF Gathered
    <3> QED
      BY <1>2, <3>3 DEF Shown, EndsLine, LastPiece
  <2> QED
    BY <1>1, <1>2, <2>1, <2>2
<1>4. /\ Gathered(G, out) \in Seq(Line) /\ Gathered(G, out2) \in Seq(Line)
      /\ Together(Gathered(G, out2), Gathered(G, out), G[x])
  BY <1>2, GatheredAppend
<1>5. G[x] = IF x.by = w /\ EndsLine(x) THEN x.lines ELSE <<>>
  BY <1>1 DEF OfThread
<1>6. ASSUME ~ (x.by = w /\ EndsLine(x)) PROVE Shown(w)' = Shown(w)
  BY <1>3, <1>4, <1>5, <1>6, ConcatEmptySeq DEF Together
<1> QED
  BY <1>3, <1>4, <1>5, <1>6

OrderAll == \A v \in Worker : OrderOf(v)

\* Nothing of thread v changes that its order is about.
LEMMA OrderSame ==
  ASSUME NEW v \in Worker, OrderOf(v), Held(v)' = Held(v), found'[v] = found[v]
  PROVE  OrderOf(v)'
  BY DEF OrderOf, Big, Oversized

LEMMA OrderFrame ==
  ASSUME NEW v \in Worker, OrderOf(v), Shown(v)' = Shown(v), obuf'[v] = obuf[v],
         lines'[v] = lines[v], found'[v] = found[v]
  PROVE  OrderOf(v)'
<1>1. Held(v)' = Held(v)
  BY DEF Held
<1> QED
  BY <1>1, OrderSame

LEMMA ShownSame ==
  ASSUME stdout' = stdout
  PROVE  \A v \in Worker : Shown(v)' = Shown(v)
  BY DEF Shown, EndsLine, LastPiece

\* The line in hand moves from the lines to emit to the end of the buffer.
Chain(a, b, c) == a \o b \o c

LEMMA MovedOver ==
  ASSUME NEW S, NEW a \in Seq(S), NEW b \in Seq(S), NEW c \in Seq(S), c # <<>>,
         NEW b2, OneMore(b2, b, Head(c))
  PROVE  Chain(a, b2, Tail(c)) = Chain(a, b, c)
<1>1. PICK o \in Seq(S), u \in Seq(S) : o = <<Head(c)>> /\ u = Tail(c) /\ Together(c, o, u)
  <2>1. Head(c) \in S /\ Tail(c) \in Seq(S)
    BY HeadTailProperties
  <2>2. <<Head(c)>> \in Seq(S)
    BY <2>1
  <2>3. c = <<Head(c)>> \o Tail(c)
    BY <2>1, SMT
  <2> QED
    BY <2>1, <2>2, <2>3 DEF Together
<1>2. Together(b2, b, o)
  BY <1>1, HeadTailProperties, AppendIsConcat DEF OneMore, Together
<1>3. PICK ab \in Seq(S) : Together(ab, a, b)
  BY ConcatProperties DEF Together
<1>4. PICK abo \in Seq(S) : Together(abo, ab, o)
  BY ConcatProperties DEF Together
<1>5. Together(abo, a, b2)
  BY <1>2, <1>3, <1>4, Regrouped
<1>6. PICK all : Together(all, abo, u)
  BY DEF Together
<1>7. Together(all, ab, c)
  <2>1. Together(c, o, u)
    BY <1>1
  <2> QED
    BY <1>4, <1>6, <2>1, Regrouped
<1>8. Chain(a, b2, u) = all
  BY <1>5, <1>6 DEF Chain, Together
<1>9. Chain(a, b, c) = all
  BY <1>3, <1>7 DEF Chain, Together
<1> QED
  BY <1>1, <1>8, <1>9

\* flush_ctx moves the buffer to stdout.
LEMMA FlushOrder ==
  ASSUME CTypeOK, CTypeOK', OrderAll, NEW w \in Worker, FlushCtx(w), ~ write_failed',
         UNCHANGED <<lines, found>>
  PROVE  OrderAll'
<1>0. \A v \in Worker : obuf[v] \in Seq(Line) /\ lines[v] \in Seq(Line) /\ OrderOf(v)
  BY DEF CTypeOK, OrderAll
<1> SUFFICES ASSUME NEW v \in Worker PROVE OrderOf(v)'
  BY DEF OrderAll
<1>1. CASE obuf[w] = <<>>
  <2>1. stdout' = stdout /\ obuf'[v] = obuf[v]
    BY <1>1 DEF FlushCtx, CTypeOK
  <2> QED
    BY <1>0, <2>1, ShownSame, OrderFrame
<1>2. CASE obuf[w] # <<>>
  <2>1. PICK x : x = [by |-> w, lines |-> obuf[w], piece |-> 0]
    OBVIOUS
  <2>2. x \in Write /\ x.by = w /\ EndsLine(x) /\ x.lines = obuf[w]
    BY <2>1 DEF Write, CTypeOK, LastPiece, EndsLine
  <2>3. OneMore(stdout', stdout, x)
    BY <1>2, <2>1 DEF FlushCtx, SysWrite, OneMore
  <2>4. /\ Shown(v) \in Seq(Line) /\ Shown(v)' \in Seq(Line)
        /\ v = w => Together(Shown(v)', Shown(v), obuf[v])
        /\ v # w => Shown(v)' = Shown(v)
    BY <2>2, <2>3, ShownAppend
  <2>5. CASE v = w
    <3>1. PICK a \in Seq(Line), a2 \in Seq(Line), b \in Seq(Line), c \in Seq(Line) :
             a = Shown(v) /\ a2 = Shown(v)' /\ b = obuf[v] /\ c = lines[v]
      BY <1>0, <2>4
    <3>2. a2 = a \o b /\ a2 \o <<>> = a2
      BY <2>4, <2>5, <3>1, ConcatEmptySeq DEF Together
    <3>3. obuf'[v] = <<>>
      BY <2>5 DEF FlushCtx, CTypeOK
    <3>4. Held(v)' = a2 \o <<>> \o c /\ Held(v) = a \o b \o c
      BY <3>1, <3>3 DEF Held
    <3>5. Held(v)' = Held(v)
      BY <3>2, <3>4
    <3> QED
      BY <1>0, <3>5, OrderSame
  <2>6. CASE v # w
    <3>1. obuf'[v] = obuf[v]
      BY <2>6 DEF FlushCtx, CTypeOK
    <3> QED
      BY <1>0, <2>4, <2>6, <3>1, OrderFrame
  <2> QED
    BY <2>5, <2>6
<1> QED
  BY <1>1, <1>2

\* A line that fits goes to the end of the buffer.
LEMMA KeepOrder ==
  ASSUME CTypeOK, OrderAll, NEW w \in Worker, KeepLine(w)
  PROVE  OrderAll'
<1>0. \A v \in Worker : obuf[v] \in Seq(Line) /\ lines[v] \in Seq(Line) /\ OrderOf(v)
  BY DEF CTypeOK, OrderAll
<1> SUFFICES ASSUME NEW v \in Worker PROVE OrderOf(v)'
  BY DEF OrderAll
<1>1. Shown(v)' = Shown(v) /\ found'[v] = found[v] /\ lines[w] # <<>>
  BY ShownSame DEF KeepLine
<1>2. CASE v = w
  <2>1. obuf'[v] = Append(obuf[v], Head(lines[v])) /\ lines'[v] = Tail(lines[v])
    BY <1>2 DEF KeepLine, Current, CTypeOK
  <2>2. PICK a \in Seq(Line), b \in Seq(Line), c \in Seq(Line) :
           a = Shown(v) /\ b = obuf[v] /\ c = lines[v] /\ c # <<>>
    BY <1>0, <1>1, <1>2, ShownType
  <2>3. PICK b2 : b2 = obuf'[v] /\ OneMore(b2, b, Head(c))
    BY <2>1, <2>2 DEF OneMore
  <2>4. Chain(a, b2, Tail(c)) = Chain(a, b, c)
    BY <2>2, <2>3, MovedOver
  <2>5. Held(v)' = Chain(a, b2, Tail(c)) /\ Held(v) = Chain(a, b, c)
    BY <1>1, <2>1, <2>2, <2>3 DEF Held, Chain
  <2> QED
    BY <1>0, <1>1, <2>4, <2>5, OrderSame
<1>3. CASE v # w
  <2>1. obuf'[v] = obuf[v] /\ lines'[v] = lines[v]
    BY <1>3 DEF KeepLine, CTypeOK
  <2> QED
    BY <1>0, <1>1, <2>1, OrderFrame
<1> QED
  BY <1>2, <1>3

\* The lines of a file that is opened are found and to be emitted.
LEMMA StartOrder ==
  ASSUME CTypeOK, Shape, Hands, found \in [Worker -> Seq(Line)], OrderAll, NEW w \in Worker,
         StartFile(w)
  PROVE  OrderAll'
<1>0. \A v \in Worker : obuf[v] \in Seq(Line) /\ lines[v] \in Seq(Line) /\ OrderOf(v)
  BY DEF CTypeOK, OrderAll
<1> SUFFICES ASSUME NEW v \in Worker PROVE OrderOf(v)'
  BY DEF OrderAll
<1>1. Shown(v)' = Shown(v) /\ obuf'[v] = obuf[v]
  BY ShownSame DEF StartFile, output
<1>2. PICK f \in Node : f = Child(w)
  BY ChildType DEF StartFile, At, Shape, CShapeOf, Calling
<1>3. CASE v # w \/ f \in Unreadable \cup Unmapped
  <2>1. lines'[v] = lines[v] /\ found'[v] = found[v]
    BY <1>2, <1>3 DEF StartFile, CTypeOK
  <2> QED
    BY <1>0, <1>1, <2>1, OrderFrame
<1>4. CASE v = w /\ f \notin Unreadable \cup Unmapped
  <2>1. PICK n \in Seq(Line) : n = LinesOf[f]
    BY CLineAssumption
  <2>2. lines'[v] = n /\ found'[v] = found[v] \o n
    BY <1>2, <1>4, <2>1 DEF StartFile, CTypeOK
  <2>3. lines[v] = <<>>
    BY <1>4 DEF Hands, HandOf, StartFile, At
  <2>4. PICK a \in Seq(Line), b \in Seq(Line), g \in Seq(Line) :
           a = Shown(v) /\ b = obuf[v] /\ g = found[v]
    BY <1>0, ShownType
  <2>5. PICK ab \in Seq(Line), abn \in Seq(Line), gn \in Seq(Line) :
           ab = a \o b /\ Together(abn, ab, n) /\ Together(gn, g, n)
    <3>1. PICK ab \in Seq(Line) : ab = a \o b
      BY ConcatProperties
    <3>2. ab \o n \in Seq(Line) /\ g \o n \in Seq(Line)
      BY ConcatProperties
    <3> QED
      BY <3>1, <3>2 DEF Together
  <2>6. Held(v) = ab
    <3>1. Held(v) = ab \o <<>>
      BY <2>3, <2>4, <2>5 DEF Held
    <3> QED
      BY <3>1, ConcatEmptySeq
  <2>7. Held(v)' = abn /\ found'[v] = gn
    BY <1>1, <2>2, <2>4, <2>5 DEF Held, Together
  <2>8. ASSUME NEW K \in {Big, Line \ Big} PROVE Only(K, abn) = Only(K, gn)
    <3>1. /\ Together(Only(K, abn), Only(K, ab), Only(K, n))
          /\ Together(Only(K, gn), Only(K, g), Only(K, n))
      BY <2>5, OnlyTogether
    <3>2. Only(K, ab) = Only(K, g)
      BY <1>0, <2>4, <2>6 DEF OrderOf
    <3> QED
      BY <3>1, <3>2 DEF Together
  <2> QED
    BY <2>7, <2>8 DEF OrderOf, Big, Oversized
<1> QED
  BY <1>3, <1>4

\* A line of one kind may pass a buffer in which there is none of that kind.
LEMMA Overtakes ==
  ASSUME NEW S, NEW a \in Seq(S), NEW b \in Seq(S), NEW c \in Seq(S), NEW o \in Seq(S),
         NEW ao, NEW oc, Together(ao, a, o), Together(oc, o, c), b = <<>> \/ o = <<>>
  PROVE  Chain(ao, b, c) = Chain(a, b, oc)
<1>1. CASE b = <<>>
  <2>1. (a \o o) \o c = a \o (o \o c)
    BY ConcatAssociative
  <2>2. ao \in Seq(S)
    BY ConcatProperties DEF Together
  <2>3. ao \o b = ao /\ a \o b = a
    BY <1>1, <2>2, ConcatEmptySeq
  <2> QED
    BY <2>1, <2>3 DEF Chain, Together
<1>2. CASE o = <<>>
  <2>1. ao = a /\ oc = c
    BY <1>2, ConcatEmptySeq DEF Together
  <2> QED
    BY <2>1 DEF Chain
<1> QED
  BY <1>1, <1>2

\* The lines of K in what a thread holds.
LEMMA OnlyChain ==
  ASSUME NEW K, NEW a \in Seq(Line), NEW b \in Seq(Line), NEW c \in Seq(Line)
  PROVE  Only(K, Chain(a, b, c)) = Chain(Only(K, a), Only(K, b), Only(K, c))
<1>1. PICK ab \in Seq(Line) : Together(ab, a, b)
  BY ConcatProperties DEF Together
<1>2. PICK abc \in Seq(Line) : Together(abc, ab, c)
  BY ConcatProperties DEF Together
<1>3. /\ Together(Only(K, ab), Only(K, a), Only(K, b))
      /\ Together(Only(K, abc), Only(K, ab), Only(K, c))
  BY <1>1, <1>2, OnlyTogether
<1>4. Chain(a, b, c) = abc
  BY <1>1, <1>2 DEF Chain, Together
<1>5. Chain(Only(K, a), Only(K, b), Only(K, c)) = Only(K, abc)
  BY <1>3 DEF Chain, Together
<1> QED
  BY <1>4, <1>5

\* An oversized line goes to stdout past the lines in the buffer, which are not oversized.
LEMMA StreamOrder ==
  ASSUME CTypeOK, CTypeOK', Shape, Buffers, OrderAll, NEW w \in Worker,
         Current(w) \in Big, WritePiece(w), ~ write_failed'
  PROVE  OrderAll'
<1>0. \A v \in Worker : obuf[v] \in Seq(Line) /\ lines[v] \in Seq(Line) /\ OrderOf(v)
  BY DEF CTypeOK, OrderAll
<1> SUFFICES ASSUME NEW v \in Worker PROVE OrderOf(v)'
  BY DEF OrderAll
<1>1. obuf'[v] = obuf[v] /\ found'[v] = found[v] /\ lines[w] # <<>>
  BY DEF WritePiece, At, Shape, CShapeOf
<1>2. PICK o \in Seq(Line) : o = <<Current(w)>>
  <2>1. Current(w) \in Line
    BY <1>1, CurrentType
  <2>2. <<Current(w)>> \in Seq(Line)
    BY <2>1
  <2> QED
    BY <2>2
<1>3. PICK x : x = [by |-> w, lines |-> o, piece |-> piece[w]]
  OBVIOUS
<1>4. x \in Write /\ x.by = w /\ x.lines = o /\ (EndsLine(x) <=> piece[w] = LastPiece)
  <2>1. piece[w] \in 1 .. LastPiece
    BY DEF CTypeOK
  <2> QED
    BY <1>3, <2>1 DEF Write, LastPiece, EndsLine
<1>5. OneMore(stdout', stdout, x)
  BY <1>2, <1>3 DEF WritePiece, SysWrite, OneMore
<1>6. /\ Shown(v) \in Seq(Line) /\ Shown(v)' \in Seq(Line)
      /\ v = w /\ piece[w] = LastPiece => Together(Shown(v)', Shown(v), o)
      /\ ~ (v = w /\ piece[w] = LastPiece) => Shown(v)' = Shown(v)
  BY <1>4, <1>5, ShownAppend
<1>7. CASE ~ (v = w /\ piece[w] = LastPiece)
  <2>1. lines'[v] = lines[v]
    BY <1>7 DEF WritePiece, CTypeOK
  <2> QED
    BY <1>0, <1>1, <1>6, <1>7, <2>1, OrderFrame
<1>8. CASE v = w /\ piece[w] = LastPiece
  <2>1. PICK a \in Seq(Line), a2 \in Seq(Line), b \in Seq(Line), oc \in Seq(Line), c \in Seq(Line) :
           a = Shown(v) /\ a2 = Shown(v)' /\ b = obuf[v] /\ oc = lines[v] /\ c = Tail(lines[v])
    BY <1>0, <1>1, <1>6, <1>8, HeadTailProperties
  <2>2. Together(oc, o, c)
    <3>1. Head(lines[v]) \in Line
      BY <1>0, <1>1, <1>8, HeadTailProperties
    <3>2. lines[v] = <<Head(lines[v])>> \o Tail(lines[v])
      BY <1>0, <1>1, <1>8, <3>1, SMT
    <3> QED
      BY <1>2, <1>8, <2>1, <3>2 DEF Current, Together
  <2>3. Together(a2, a, o)
    BY <1>6, <1>8, <2>1
  <2>4. lines'[v] = c
    BY <1>8, <2>1 DEF WritePiece, CTypeOK
  <2>5. Held(v)' = Chain(a2, b, c) /\ Held(v) = Chain(a, b, oc)
    BY <1>1, <2>1, <2>4 DEF Held, Chain
  <2>6. ASSUME NEW K \in {Big, Line \ Big}
        PROVE  Only(K, Chain(a2, b, c)) = Only(K, Chain(a, b, oc))
    <3>1. /\ Only(K, a) \in Seq(Line) /\ Only(K, o) \in Seq(Line) /\ Only(K, c) \in Seq(Line)
          /\ Together(Only(K, a2), Only(K, a), Only(K, o))
          /\ Together(Only(K, oc), Only(K, o), Only(K, c))
      BY <2>2, <2>3, OnlyTogether
    <3>2. Only(K, b) = <<>> \/ Only(K, o) = <<>>
      <4>1. CASE K = Big
        <5>1. b \in Seq(Line \ Big)
          BY <2>1 DEF Buffers, BufferOf
        <5>2. (Line \ Big) \in SUBSET Line /\ (Line \ Big) \cap K = {}
          BY <4>1
        <5> QED
          BY <5>1, <5>2, OnlyNone
      <4>2. CASE K = Line \ Big
        <5>1. o \in Seq(Big)
          BY <1>2
        <5>2. Big \in SUBSET Line /\ Big \cap K = {}
          BY <4>2 DEF Big
        <5> QED
          BY <5>1, <5>2, OnlyNone
      <4> QED
        BY <4>1, <4>2
    <3>3. Only(K, b) \in Seq(Line)
      BY OnlyType
    <3>4. Chain(Only(K, a2), Only(K, b), Only(K, c)) = Chain(Only(K, a), Only(K, b), Only(K, oc))
      BY <3>1, <3>2, <3>3, Overtakes
    <3> QED
      BY <3>4, OnlyChain
  <2> QED
    BY <1>0, <1>1, <2>5, <2>6 DEF OrderOf, Big, Oversized
<1> QED
  BY <1>7, <1>8

\* As long as no write() has failed, every step keeps the order of every thread's lines.
LEMMA OrderStep ==
  ASSUME CRInv, CRInv', Buffers, EachKindInOrder, found \in [Worker -> Seq(Line)], [CNext]_cvars
  PROVE  EachKindInOrder'
<1> SUFFICES ASSUME ~ write_failed' PROVE OrderAll'
  BY DEF EachKindInOrder, OrderAll, OrderOf, Held, Big, Oversized
<1>0. CTypeOK /\ CTypeOK' /\ Shape /\ Hands
  BY DEF CRInv, CIInv, CWalkInv, Shape
<1>1. ~ write_failed
  BY DEF CNext, MainStep, Step, cvars, output, Argument, EndArguments, Create, BecomeWorker, Join,
         Return, OpenDir, ReadEntry, CloseDir, Alloc, Refuse, Push, Count, Pop, TestPending, DirDone,
         StartFile, EndFile, MakeRoom, KeepLine, StreamLine, WritePiece, LastFlush, FlushCtx, SysWrite
<1>2. OrderAll
  BY <1>1 DEF EachKindInOrder, OrderAll, OrderOf, Held
<1>3. ASSUME UNCHANGED <<stdout, obuf, lines, found>> PROVE OrderAll'
  BY <1>2, <1>3, ShownSame, OrderFrame DEF OrderAll
<1>4. CASE MainStep \/ UNCHANGED cvars
  BY <1>3, <1>4 DEF MainStep, Argument, EndArguments, Create, BecomeWorker, Join, Return, cvars,
         output
<1>5. ASSUME NEW w \in Worker, Step(w) PROVE OrderAll'
  <2>1. CASE StartFile(w)
    BY <1>0, <1>2, <2>1, StartOrder
  <2>2. CASE MakeRoom(w) \/ LastFlush(w)
    <3>1. FlushCtx(w) /\ UNCHANGED <<lines, found>>
      BY <2>2 DEF MakeRoom, LastFlush
    <3> QED
      BY <1>0, <1>2, <3>1, FlushOrder
  <2>3. CASE KeepLine(w)
    BY <1>0, <1>2, <2>3, KeepOrder
  <2>4. CASE WritePiece(w)
    <3>1. Current(w) \in Big
      BY <2>4 DEF WritePiece, At, Buffers, BufferOf
    <3> QED
      BY <1>0, <1>2, <2>4, <3>1, StreamOrder
  <2>5. CASE ~ (StartFile(w) \/ MakeRoom(w) \/ LastFlush(w) \/ KeepLine(w) \/ WritePiece(w))
    <3>1. UNCHANGED <<stdout, obuf, lines, found>>
      BY <1>5, <2>5 DEF Step, OpenDir, ReadEntry, CloseDir, Alloc, Refuse, Push, Count, Pop,
         TestPending, DirDone, EndFile, StreamLine, output
    <3> QED
      BY <1>3, <3>1
  <2> QED
    BY <2>1, <2>2, <2>3, <2>4, <2>5
<1> QED
  BY <1>4, <1>5 DEF CNext

-----------------------------------------------------------------------------
(* The output: the buffers.                                                *)

\* A thread whose place, buffer and lines stay keeps its part.
LEMMA BufferFrame ==
  ASSUME NEW v \in Worker, BufferOf(v), pc'[v] = pc[v], obuf'[v] = obuf[v], lines'[v] = lines[v]
  PROVE  BufferOf(v)'
  BY DEF BufferOf, Current, Big, Oversized

\* So does one that goes anywhere but to where it would have to show something for it.
LEMMA BufferMoved ==
  ASSUME NEW v \in Worker, BufferOf(v), pc'[v] \notin {"none", "left", "join", "stream"},
         obuf'[v] = obuf[v]
  PROVE  BufferOf(v)'
  BY DEF BufferOf, Big, Oversized

LEMMA BuffersStep ==
  ASSUME CRInv, Buffers, [CNext]_cvars
  PROVE  Buffers'
<1>0. CTypeOK /\ Shape /\ Main \in Worker /\ \A v \in Worker : BufferOf(v)
  BY MainIsWorker DEF CRInv, CIInv, CWalkInv, Shape, Buffers
<1> SUFFICES ASSUME NEW v \in Worker PROVE BufferOf(v)'
  BY DEF Buffers
<1>1. CASE UNCHANGED cvars
  BY <1>0, <1>1, BufferFrame DEF cvars, walk, output
<1>2. CASE MainStep
  <2>1. UNCHANGED <<obuf, lines>>
    BY <1>2 DEF MainStep, Argument, EndArguments, Create, BecomeWorker, Join, Return, output
  <2>2. pc'[v] = pc[v] \/ pc'[v] \notin {"none", "left", "join", "stream"}
    BY <1>0, <1>2 DEF MainStep, Argument, EndArguments, Create, BecomeWorker, Join, Return, walk,
       Dispatch, Advance, Goto, CTypeOK
  <2> QED
    BY <1>0, <2>1, <2>2, BufferFrame, BufferMoved
<1>3. ASSUME NEW w \in Worker, Step(w) PROVE BufferOf(v)'
  <2>1. CASE v # w
    <3>1. pc'[v] = pc[v] /\ lines'[v] = lines[v]
      BY <1>0, <1>3, <2>1, StepFrame DEF SameThread
    <3>2. obuf'[v] = obuf[v]
      BY <1>0, <1>3, <2>1 DEF Step, OpenDir, ReadEntry, CloseDir, Alloc, Refuse, Push, Count, Pop,
         TestPending, DirDone, StartFile, EndFile, MakeRoom, KeepLine, StreamLine, WritePiece,
         LastFlush, FlushCtx, output, CTypeOK
    <3> QED
      BY <1>0, <3>1, <3>2, BufferFrame
  <2>2. CASE v = w
    <3>1. CASE MakeRoom(w) \/ LastFlush(w)
      <4>1. obuf'[w] = <<>> /\ pc'[w] # "stream"
        BY <1>0, <3>1 DEF MakeRoom, LastFlush, FlushCtx, CTypeOK, walk, At, Goto, Main
      <4> QED
        BY <2>2, <4>1 DEF BufferOf
    <3>2. CASE KeepLine(w)
      <4>1. Current(w) \in Line \ Big
        BY <1>0, <3>2, CurrentType DEF KeepLine, Big
      <4>2. Append(obuf[w], Current(w)) \in Seq(Line \ Big)
        BY <1>0, <4>1, AppendProperties DEF BufferOf
      <4>3. obuf'[w] = Append(obuf[w], Current(w)) /\ pc'[w] = "lines"
        BY <1>0, <3>2 DEF KeepLine, CTypeOK, walk, At
      <4> QED
        BY <2>2, <4>2, <4>3 DEF BufferOf, Big, Oversized
    <3>3. CASE StreamLine(w)
      <4>1. Current(w) \in Big /\ pc'[w] = "stream" /\ UNCHANGED <<obuf, lines>>
        BY <1>0, <3>3, CurrentType DEF StreamLine, Goto, CTypeOK, Big
      <4> QED
        BY <1>0, <2>2, <4>1 DEF BufferOf, Current, Big, Oversized
    <3>4. CASE WritePiece(w)
      <4>1. obuf'[w] = obuf[w]
        BY <3>4 DEF WritePiece
      <4>2. CASE piece[w] = LastPiece
        <5>1. pc'[w] = "lines"
          BY <1>0, <3>4, <4>2 DEF WritePiece, Goto, CTypeOK
        <5> QED
          BY <1>0, <2>2, <4>1, <5>1, BufferMoved
      <4>3. CASE piece[w] # LastPiece
        <5>1. UNCHANGED <<pc, lines>>
          BY <3>4, <4>3 DEF WritePiece
        <5> QED
          BY <1>0, <2>2, <4>1, <5>1, BufferFrame
      <4> QED
        BY <4>2, <4>3
    <3>5. CASE ~ (MakeRoom(w) \/ LastFlush(w) \/ KeepLine(w) \/ StreamLine(w) \/ WritePiece(w))
      <4>1. obuf'[w] = obuf[w]
        BY <1>3, <3>5 DEF Step, OpenDir, ReadEntry, CloseDir, Alloc, Refuse, Push, Count, Pop,
           TestPending, DirDone, StartFile, EndFile, output
      <4>2. pc'[w] \notin {"none", "left", "join", "stream"}
        BY <1>0, <1>3, <3>5 DEF Step, OpenDir, ReadEntry, CloseDir, Alloc, Refuse, Push, Count, Pop,
           TestPending, DirDone, StartFile, EndFile, Dispatch, Advance, Forget, Goto, At, CTypeOK
      <4> QED
        BY <1>0, <2>2, <4>1, <4>2, BufferMoved
    <3> QED
      BY <3>1, <3>2, <3>3, <3>4, <3>5
  <2> QED
    BY <2>1, <2>2
<1> QED
  BY <1>1, <1>2, <1>3 DEF CNext

-----------------------------------------------------------------------------
(* The output: what the threads have found.                                *)

LEMMA WorkersFinite == IsFiniteSet(Worker)
<1>1. nt - 1 \in Int /\ 0 \in Int
  BY CThreadAssumption
<1>2. IsFiniteSet(0 .. nt - 1)
  BY <1>1, FS_Interval
<1> QED
  BY <1>2 DEF Worker

\* A place of a file holds a line no other place and no other file has.
LEMMA LineOnce ==
  ASSUME NEW f \in Node, NEW i \in DOMAIN LinesOf[f], NEW g \in Node
  PROVE  Times(LinesOf[f][i], LinesOf[g]) = IF f = g THEN 1 ELSE 0
<1>1. \A j \in DOMAIN LinesOf[g] : LinesOf[g][j] = LinesOf[f][i] <=> f = g /\ i = j
  BY CPlaceAssumption
<1>2. CASE f = g
  <2>1. Places(LinesOf[f][i], LinesOf[g]) = {i}
    BY <1>1, <1>2 DEF Places
  <2> QED
    BY <1>2, <2>1, FS_Singleton DEF Times
<1>3. CASE f # g
  <2>1. Places(LinesOf[f][i], LinesOf[g]) = {}
    BY <1>1, <1>3 DEF Places
  <2> QED
    BY <1>3, <2>1, FS_EmptySet DEF Times
<1> QED
  BY <1>2, <1>3

\* No line is found, and no visit is made of a file with lines or of one that can be read.
LEMMA FoundFrame ==
  ASSUME FoundVisited, found' = found,
         \A f \in Node : LinesOf[f] # <<>> /\ f \notin Unreadable \cup Unmapped
                           => visited'[f] = visited[f]
  PROVE  FoundVisited'
<1> SUFFICES ASSUME NEW f \in Node, NEW i \in DOMAIN LinesOf[f]
             PROVE  Among(LinesOf[f][i], found')
                      = IF f \in Unreadable \cup Unmapped THEN 0 ELSE visited'[f]
  BY DEF FoundVisited
<1>1. LinesOf[f] # <<>>
  OBVIOUS
<1> QED
  BY <1>1 DEF FoundVisited

\* A file that is opened yields each of its lines once.
LEMMA StartFound ==
  ASSUME CTypeOK, Shape, Counted, FoundVisited, NEW w \in Worker, StartFile(w),
         Child(w) \notin Unreadable \cup Unmapped
  PROVE  FoundVisited'
<1>1. PICK g \in Node : g = Child(w)
  BY ChildType DEF StartFile, At, Shape, CShapeOf, Calling
<1>2. PICK ls \in Seq(Line) : ls = LinesOf[g]
  BY CLineAssumption
<1>3. visited' = [visited EXCEPT ![g] = @ + 1] /\ found' = [found EXCEPT ![w] = found[w] \o ls]
  BY <1>1, <1>2 DEF StartFile
<1>4. found \in [Worker -> Seq(Line)] /\ visited \in [Node -> Nat]
  BY DEF FoundVisited, Counted
<1>5. PICK uu \in [Worker -> Seq(Line)] :
        uu = found' /\ uu[w] = found[w] \o ls /\ AlikeBut(found, uu, Worker, w)
  <2>1. found[w] \o ls \in Seq(Line)
    BY <1>4, ConcatProperties
  <2> QED
    BY <1>3, <1>4, <2>1 DEF AlikeBut
<1>6. found' \in [Worker -> Seq(Line)]
  BY <1>5
<1> SUFFICES ASSUME NEW f \in Node, NEW i \in DOMAIN LinesOf[f]
             PROVE  Among(LinesOf[f][i], found')
                      = IF f \in Unreadable \cup Unmapped THEN 0 ELSE visited'[f]
  BY <1>6 DEF FoundVisited
<1>7. PICK l : l = LinesOf[f][i]
  OBVIOUS
<1>8. Among(l, uu) + Times(l, found[w]) = Among(l, found) + Times(l, uu[w])
  <2>1. SeqFamily(uu, Worker, Line)
    BY DEF SeqFamily
  <2>2. PICK ss : ss = found /\ SeqFamily(ss, Worker, Line) /\ AlikeBut(ss, uu, Worker, w)
    BY <1>4, <1>5 DEF SeqFamily
  <2>3. Among(l, uu) + Times(l, ss[w]) = Among(l, ss) + Times(l, uu[w])
    BY <2>1, <2>2, WorkersFinite, AmongChange
  <2> QED
    BY <2>2, <2>3
<1>9. Times(l, uu[w]) = Times(l, found[w]) + Times(l, ls)
  BY <1>4, <1>5, TimesConcat
<1>10. /\ Among(l, found) \in Nat /\ Among(l, uu) \in Nat
       /\ Times(l, found[w]) \in Nat /\ Times(l, ls) \in Nat
  <2>1. found[w] \in Seq(Line)
    BY <1>4
  <2> QED
    BY <1>4, <2>1, WorkersFinite, AmongType, TimesType
<1>11. Among(l, uu) = Among(l, found) + Times(l, ls)
  <2>1. PICK a \in Nat, b \in Nat, c \in Nat, d \in Nat :
           a = Among(l, found) /\ b = Among(l, uu) /\ c = Times(l, found[w]) /\ d = Times(l, ls)
    BY <1>10
  <2>2. b + c = a + (c + d) => b = a + d
    OBVIOUS
  <2> QED
    BY <1>8, <1>9, <2>1, <2>2
<1>12. Times(l, ls) = IF f = g THEN 1 ELSE 0
  BY <1>2, <1>7, LineOnce
<1>13. Among(l, found) = IF f \in Unreadable \cup Unmapped THEN 0 ELSE visited[f]
  BY <1>7 DEF FoundVisited
<1>14. visited'[f] = IF f = g THEN visited[f] + 1 ELSE visited[f]
  BY <1>3, <1>4
<1>15. f = g => f \notin Unreadable \cup Unmapped
  BY <1>1
<1> QED
  BY <1>4, <1>5, <1>7, <1>10, <1>11, <1>12, <1>13, <1>14, <1>15

\* Every step keeps the account of found lines: a directory has no lines.
LEMMA FoundStep ==
  ASSUME CRInv, FoundVisited, [CNext]_cvars
  PROVE  FoundVisited'
<1>0. CTypeOK /\ Shape /\ Counted /\ Hands
  BY DEF CRInv, CIInv, CWalkInv, Shape
<1>1. CASE UNCHANGED <<found, visited>>
  BY <1>1, FoundFrame
<1>2. ASSUME NEW w \in Worker, OpenDir(w) PROVE FoundVisited'
  <2>1. dir[w] # NoNode
    BY <1>0, <1>2 DEF OpenDir, At, Shape, CShapeOf
  <2>2. Kind(dir[w]) = "DIR" /\ dir[w] \in Node
    BY <1>0, <2>1 DEF Hands, HandOf, CTypeOK
  <2>3. LinesOf[dir[w]] = <<>>
    BY <2>2, CPlaceAssumption DEF Kind
  <2>4. found' = found /\ visited' = [visited EXCEPT ![dir[w]] = @ + 1]
    BY <1>2 DEF OpenDir
  <2> QED
    BY <1>0, <2>3, <2>4, FoundFrame DEF Counted
<1>3. ASSUME NEW w \in Worker, StartFile(w) PROVE FoundVisited'
  <2>1. CASE Child(w) \in Unreadable \cup Unmapped
    <3>1. found' = found /\ visited' = [visited EXCEPT ![Child(w)] = @ + 1]
      BY <1>3, <2>1 DEF StartFile
    <3> QED
      BY <1>0, <2>1, <3>1, FoundFrame DEF Counted
  <2>2. CASE Child(w) \notin Unreadable \cup Unmapped
    BY <1>0, <1>3, <2>2, StartFound
  <2> QED
    BY <2>1, <2>2
<1>4. CASE MainStep \/ UNCHANGED cvars
  BY <1>1, <1>4 DEF MainStep, Argument, EndArguments, Create, BecomeWorker, Join, Return, cvars
<1>5. ASSUME NEW w \in Worker, Step(w) PROVE FoundVisited'
  BY <1>1, <1>2, <1>3, <1>5 DEF Step, ReadEntry, CloseDir, Alloc, Refuse, Push, Count, Pop,
     TestPending, DirDone, EndFile, MakeRoom, KeepLine, StreamLine, WritePiece, LastFlush
<1> QED
  BY <1>4, <1>5 DEF CNext

-----------------------------------------------------------------------------
(* The output: the theorems.                                               *)

LEMMA InitCOInv == CInit => COInv
<1> SUFFICES ASSUME CInit PROVE COInv
  OBVIOUS
<1>0. <<>> \in Seq(Line) /\ <<>> \in Seq(Line \ Big)
  OBVIOUS
<1>1. \A w \in Worker : obuf[w] = <<>> /\ lines[w] = <<>> /\ found[w] = <<>> /\ pc[w] # "stream"
  BY DEF CInit
<1>2. Buffers
  BY <1>0, <1>1 DEF Buffers, BufferOf
<1>3. EachKindInOrder
  <2> SUFFICES ASSUME NEW w \in Worker, NEW K
               PROVE  Only(K, Shown(w) \o obuf[w] \o lines[w]) = Only(K, found[w])
    BY DEF EachKindInOrder
  <2>1. Shown(w) = <<>>
    <3>1. PICK G : G = OfThread[w]
      OBVIOUS
    <3>2. stdout = <<>> /\ stdout \in Seq(Write)
      BY DEF CInit
    <3> QED
      BY <3>1, <3>2, ShownGathered, GatheredEmpty
  <2> QED
    BY <1>0, <1>1, <2>1, ConcatEmptySeq
<1>4. FoundVisited
  <2>1. found \in [Worker -> Seq(Line)]
    BY <1>0 DEF CInit
  <2>2. ASSUME NEW f \in Node, NEW i \in DOMAIN LinesOf[f]
        PROVE  Among(LinesOf[f][i], found) = 0
    BY <1>1, <2>1, AmongEmpty
  <2>3. \A f \in Node : visited[f] = 0
    BY DEF CInit
  <2> QED
    BY <2>1, <2>2, <2>3 DEF FoundVisited
<1> QED
  BY <1>2, <1>3, <1>4, InitCRInv DEF COInv

\* The invariant of the whole program: the walk, the flags, the buffers, the order of
\* each thread's lines, and what has been found.
THEOREM COutputInvariant == CSpec => []COInv
<1>1. COInv /\ [CNext]_cvars => COInv'
  <2> SUFFICES ASSUME COInv, [CNext]_cvars PROVE COInv'
    OBVIOUS
  <2>1. CRInv'
    BY NextCRInv DEF COInv
  <2>2. Buffers'
    BY BuffersStep DEF COInv
  <2>3. EachKindInOrder'
    BY <2>1, OrderStep DEF COInv, FoundVisited
  <2>4. FoundVisited'
    BY FoundStep DEF COInv
  <2> QED
    BY <2>1, <2>2, <2>3, <2>4 DEF COInv
<1> QED
  BY <1>1, InitCOInv, PTL DEF CSpec

\* For any number of threads and any sizes of lines and buffer, a thread keeps the
\* lines that fit in the order in which it found them, and so the oversized ones.
THEOREM CKindsInOrder == CSpec => []EachKindInOrder
<1>1. COInv => EachKindInOrder
  BY DEF COInv
<1> QED
  BY <1>1, COutputInvariant, PTL

\* When main has returned and no write() failed, what each thread has written is what
\* it found, line by line.
LEMMA AllOnStdout ==
  ASSUME COInv, status \in {0, 1, 2}, ~ write_failed, NEW w \in Worker, NEW x \in Line
  PROVE  Times(x, Shown(w)) = Times(x, found[w])
<1>0. CTypeOK /\ CIInv /\ Hands
  BY DEF COInv, CRInv, CIInv, CWalkInv
<1>1. pc[w] \in {"none", "left", "join"}
  <2>1. pc[Main] = "join"
    BY <1>0 DEF CIInv, CWalkInv, Phases
  <2>2. \A h \in Helper : pc[h] \in {"none", "left"}
    BY <1>0, HelpersAreDone DEF HelpersDone
  <2> QED
    BY <2>1, <2>2 DEF Helper
<1>2. obuf[w] = <<>> /\ lines[w] = <<>>
  BY <1>0, <1>1 DEF COInv, Buffers, BufferOf, Hands, HandOf
<1>3. PICK K \in {Big, Line \ Big} : x \in K
  OBVIOUS
<1>4. Shown(w) \in Seq(Line) /\ found[w] \in Seq(Line)
  BY <1>0, ShownType DEF COInv, FoundVisited
<1>5. Shown(w) \o <<>> \o <<>> = Shown(w)
  BY <1>4, ConcatEmptySeq
<1>6. Only(K, Shown(w)) = Only(K, found[w])
  <2>1. Only(K, Shown(w) \o obuf[w] \o lines[w]) = Only(K, found[w])
    BY DEF COInv, EachKindInOrder
  <2> QED
    BY <1>2, <1>5, <2>1
<1> QED
  BY <1>3, <1>4, <1>6, TimesOnly

\* Every line of every file that could be read stands on stdout once per visit of it
\* when main has returned, and a line of another file does not, unless a write() failed.
THEOREM CLinesAllPrinted == CSpec => []OutputComplete
<1>1. ASSUME COInv, status \in {0, 1, 2}, ~ write_failed,
             NEW f \in Node, NEW i \in DOMAIN LinesOf[f]
      PROVE  Times(LinesOf[f][i], Printed)
               = IF f \in Unreadable \cup Unmapped THEN 0 ELSE visited[f]
  <2>1. PICK x \in Line : x = LinesOf[f][i]
    BY CLineAssumption
  <2>2. PICK out \in Seq(Write) : out = stdout
    BY <1>1 DEF COInv, CRInv, CIInv, CWalkInv, CTypeOK
  <2>3. PICK G, H : G = OfAll /\ H = OfThread /\ Shares(H, G, Worker, Write, Line)
    <3>1. OfThread \in [Worker -> [Write -> Seq(Line)]]
      BY GatherersType DEF OfThread
    <3>2. ASSUME NEW e \in Write
          PROVE  \E w \in Worker : /\ OfThread[w][e] = OfAll[e]
                                   /\ \A v \in Worker \ {w} : OfThread[v][e] = <<>>
      <4>1. e.by \in Worker
        BY DEF Write
      <4>2. OfThread[e.by][e] = OfAll[e] /\ \A v \in Worker \ {e.by} : OfThread[v][e] = <<>>
        BY <4>1 DEF OfThread, OfAll
      <4> QED
        BY <4>1, <4>2
    <3>3. Shares(OfThread, OfAll, Worker, Write, Line)
      BY <3>1, <3>2, GatherersType DEF Shares
    <3> QED
      BY <3>3
  <2>4. Times(x, Gathered(G, out)) = Among(x, Portions(H, out))
    BY <2>3, WorkersFinite, GatheredShared
  <2>5. Printed = Gathered(G, out) /\ \A w \in Worker : Shown(w) = Gathered(H[w], out)
    BY <2>2, <2>3, ShownGathered
  <2>6. Portions(H, out) = [w \in Worker |-> Shown(w)]
    BY <2>3, <2>5 DEF Portions, OfThread
  <2>7. Among(x, Portions(H, out)) = Among(x, found)
    <3>1. PICK ss : ss = Portions(H, out)
      OBVIOUS
    <3>2. ASSUME NEW w \in Worker
          PROVE  ss[w] \in Seq(Line) /\ Times(x, ss[w]) = Times(x, found[w])
      <4>1. ss[w] = Shown(w)
        BY <2>6, <3>1
      <4>2. CTypeOK
        BY <1>1 DEF COInv, CRInv, CIInv, CWalkInv
      <4> QED
        BY <1>1, <4>1, <4>2, ShownType, AllOnStdout
    <3>3. SeqFamily(ss, Worker, Line) /\ SeqFamily(found, Worker, Line)
      BY <1>1, <2>6, <3>1, <3>2 DEF SeqFamily, COInv, FoundVisited
    <3>4. Among(x, ss) = Among(x, found)
      BY <3>2, <3>3, WorkersFinite, SameAmong
    <3> QED
      BY <3>1, <3>4
  <2>8. Among(x, found) = IF f \in Unreadable \cup Unmapped THEN 0 ELSE visited[f]
    BY <1>1, <2>1 DEF COInv, FoundVisited
  <2> QED
    BY <2>1, <2>4, <2>5, <2>7, <2>8
<1>2. COInv => OutputComplete
  BY <1>1 DEF OutputComplete
<1> QED
  BY <1>2, COutputInvariant, PTL
=============================================================================
