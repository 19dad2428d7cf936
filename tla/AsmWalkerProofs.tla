--------------------------- MODULE AsmWalkerProofs ---------------------------
(***************************************************************************)
(* The inductive invariant IInv of AsmWalker holds for every number of     *)
(* threads, every tree and every limit; PendingExact, NoEarlyExit and      *)
(* FlagsFinal follow.  With RInv, which ties what the threads have in hand *)
(* and the flags to the visits made, every step of the walker is one of    *)
(* TreeSearch or changes nothing there.                                    *)
(***************************************************************************)
EXTENDS AsmWalkerRefinement, CountingProofs

-----------------------------------------------------------------------------
(* Types.                                                                  *)

\* The path a call works on is a path.
LEMMA ChildType ==
  ASSUME TypeOK, NEW w \in Worker, todo[w] # <<>>
  PROVE  Child(w) \in Node
  BY HeadTailProperties DEF TypeOK, Child

\* Going back to the loop over entries keeps the types of pc and todo.
LEMMA AdvanceType ==
  ASSUME TypeOK, NEW w \in Worker, todo[w] # <<>>, Advance(w)
  PROVE  /\ pc' \in [Worker -> PCs]
         /\ todo' \in [Worker -> Seq(Node)]
<1>1. Tail(todo[w]) \in Seq(Node)
  BY HeadTailProperties DEF TypeOK
<1> QED
  BY <1>1 DEF TypeOK, Advance, Goto, PCs

\* A history counter that goes up by one keeps its type.
LEMMA CountType ==
  ASSUME NEW f \in [Node -> Nat], NEW x \in Node
  PROVE  [f EXCEPT ![x] = @ + 1] \in [Node -> Nat]
  OBVIOUS

\* Every step of the walker keeps TypeOK.
LEMMA TypeStep == IInv /\ [Next]_vars => TypeOK'
<1> SUFFICES ASSUME IInv, [Next]_vars PROVE TypeOK'
  OBVIOUS
<1>0. TypeOK /\ Shape
  BY DEF IInv
<1> USE <1>0
<1>1. CASE HandleRoot
  <2>1. Main \in Worker /\ todo[Main] # <<>>
    BY <1>1, NThreadsAssumption DEF HandleRoot, Worker, Main
  <2>2. /\ pc' \in [Worker -> PCs]
        /\ todo' \in [Worker -> Seq(Node)]
    BY <1>1, <2>1, AdvanceType DEF HandleRoot, Dispatch, Goto, TypeOK, PCs
  <2> QED
    BY <1>1, <2>2 DEF HandleRoot, TypeOK, queue, boot
<1>2. CASE RunSearch
  BY <1>2 DEF RunSearch, Goto, TypeOK, PCs, queue, boot, flags
<1>3. CASE WalkAlone
  BY <1>3 DEF WalkAlone, Goto, TypeOK, PCs, queue, boot, flags
<1>4. CASE StartSpawning
  BY <1>4 DEF StartSpawning, Goto, TypeOK, PCs, queue, flags
<1>5. CASE SpawnHelper
  <2>1. pc' \in [Worker -> PCs]
    BY <1>5 DEF SpawnHelper, TypeOK, PCs
  <2>2. helper' \in 1 .. NThreads
    BY <1>5, NThreadsAssumption DEF SpawnHelper, TypeOK
  <2> QED
    BY <1>5, <2>1, <2>2 DEF SpawnHelper, TypeOK, queue, flags
<1>6. CASE StopSpawning
  BY <1>6 DEF StopSpawning, Goto, TypeOK, PCs, queue, boot, flags
<1>7. CASE JoinAndExit
  BY <1>7 DEF JoinAndExit, ExitStatus, Goto, TypeOK, PCs, queue, flags
<1>8. ASSUME NEW w \in Worker, Open(w) PROVE TypeOK'
  <2>1. cur[w] \in Node
    BY <1>8 DEF Open, At, Shape, ShapeOf, TypeOK
  <2>2. visited' \in [Node -> Nat]
    BY <1>8, <2>1, CountType DEF Open, TypeOK
  <2>3. todo' \in [Worker -> Seq(Node)]
    BY <1>8, <2>1, NodeAssumption DEF Open, TypeOK
  <2>4. pc' \in [Worker -> PCs]
    BY <1>8 DEF Open, Goto, TypeOK, PCs
  <2> QED
    BY <1>8, <2>2, <2>3, <2>4 DEF Open, TypeOK, queue, boot, flags
<1>9. ASSUME NEW w \in Worker, ReadEntry(w) PROVE TypeOK'
  <2>1. /\ pc' \in [Worker -> PCs]
        /\ todo' \in [Worker -> Seq(Node)]
    BY <1>9, AdvanceType DEF ReadEntry, Dispatch, Goto, TypeOK, PCs
  <2> QED
    BY <1>9, <2>1 DEF ReadEntry, TypeOK, queue, boot, flags
<1>10. ASSUME NEW w \in Worker, EndOfDir(w) PROVE TypeOK'
  BY <1>10 DEF EndOfDir, Goto, TypeOK, PCs, queue, boot, flags
<1>11. ASSUME NEW w \in Worker, SearchFile(w) PROVE TypeOK'
  <2>1. todo[w] # <<>>
    BY <1>11 DEF SearchFile, At, Shape, ShapeOf, Calling
  <2>2. /\ pc' \in [Worker -> PCs]
        /\ todo' \in [Worker -> Seq(Node)]
    BY <1>11, <2>1, AdvanceType DEF SearchFile
  <2>3. visited' \in [Node -> Nat]
    BY <1>11, <2>1, ChildType, CountType DEF SearchFile, TypeOK
  <2> QED
    BY <1>11, <2>2, <2>3 DEF SearchFile, TypeOK, queue, boot
<1>12. ASSUME NEW w \in Worker, ArenaAlloc(w) PROVE TypeOK'
  <2>1. todo[w] # <<>>
    BY <1>12 DEF ArenaAlloc, At, Shape, ShapeOf, Calling
  <2>2. Child(w) \in Node
    BY <2>1, ChildType
  <2>3. arena_next' \in Nat
    BY <1>12, <2>2, NodeAssumption DEF ArenaAlloc, TypeOK
  <2>4. lost' \in [Node -> Nat]
    <3>1. UNCHANGED lost \/ Forget(w)
      BY <1>12 DEF ArenaAlloc
    <3>2. CASE UNCHANGED lost
      BY <3>2 DEF TypeOK
    <3>3. CASE Forget(w)
      BY <3>3, <2>2, CountType DEF Forget, TypeOK
    <3> QED
      BY <3>1, <3>2, <3>3
  <2>5. /\ pc' \in [Worker -> PCs]
        /\ todo' \in [Worker -> Seq(Node)]
    BY <1>12, <2>1, AdvanceType DEF ArenaAlloc, Goto, TypeOK, PCs
  <2> QED
    BY <1>12, <2>3, <2>4, <2>5 DEF ArenaAlloc, TypeOK, boot, flags
<1>13. ASSUME NEW w \in Worker, LockDirq(w) PROVE TypeOK'
  BY <1>13 DEF LockDirq, Goto, TypeOK, PCs, boot, flags
<1>14. ASSUME NEW w \in Worker, PushTop(w) PROVE TypeOK'
  <2>1. Child(w) \in Node
    BY <1>14, ChildType DEF PushTop, At, Shape, ShapeOf, Calling
  <2>2. dirq' \in Seq(Node)
    <3>1. dirq' = dirq \/ dirq' = Append(dirq, Child(w))
      BY <1>14 DEF PushTop
    <3>2. Append(dirq, Child(w)) \in Seq(Node)
      BY <2>1, AppendProperties DEF TypeOK
    <3> QED
      BY <3>1, <3>2 DEF TypeOK
  <2>3. lost' \in [Node -> Nat]
    <3>1. UNCHANGED lost \/ Forget(w)
      BY <1>14 DEF PushTop
    <3>2. CASE UNCHANGED lost
      BY <3>2 DEF TypeOK
    <3>3. CASE Forget(w)
      BY <3>3, <2>1, CountType DEF Forget, TypeOK
    <3> QED
      BY <3>1, <3>2, <3>3
  <2>4. pc' \in [Worker -> PCs]
    BY <1>14 DEF PushTop, Goto, TypeOK, PCs
  <2> QED
    BY <1>14, <2>2, <2>3, <2>4 DEF PushTop, TypeOK, boot, flags
<1>15. ASSUME NEW w \in Worker, PushPending(w) PROVE TypeOK'
  <2>1. pc' \in [Worker -> PCs] /\ pending' \in Int
    BY <1>15 DEF PushPending, Goto, TypeOK, PCs
  <2> QED
    BY <1>15, <2>1 DEF PushPending, TypeOK, boot, flags
<1>16. ASSUME NEW w \in Worker, PopTop(w) PROVE TypeOK'
  <2>1. dirq' \in Seq(Node) /\ cur' \in [Worker -> Node \cup {NoNode}]
    <3>1. CASE dirq = <<>>
      BY <1>16, <3>1 DEF PopTop, TypeOK
    <3>2. CASE dirq # <<>>
      <4>1. Len(dirq) \in Nat \ {0}
        BY <3>2, EmptySeq DEF TypeOK
      <4>2. dirq[Len(dirq)] \in Node
        BY <4>1, ElementOfSeq DEF TypeOK
      <4>3. SubSeq(dirq, 1, Len(dirq) - 1) \in Seq(Node)
        BY <4>1, SubSeqProperties DEF TypeOK
      <4> QED
        BY <1>16, <3>2, <4>2, <4>3 DEF PopTop, TypeOK
    <3> QED
      BY <3>1, <3>2
  <2>2. pc' \in [Worker -> PCs]
    BY <1>16 DEF PopTop, Goto, TypeOK, PCs
  <2> QED
    BY <1>16, <2>1, <2>2 DEF PopTop, TypeOK, boot, flags
<1>17. ASSUME NEW w \in Worker, UnlockDirq(w) PROVE TypeOK'
  <2>1. At(w, "push_unlock") => todo[w] # <<>>
    BY DEF At, Shape, ShapeOf, Calling
  <2>2. /\ pc' \in [Worker -> PCs]
        /\ todo' \in [Worker -> Seq(Node)]
    BY <1>17, <2>1, AdvanceType DEF UnlockDirq, Goto, Empty, TypeOK, PCs
  <2> QED
    BY <1>17, <2>2 DEF UnlockDirq, TypeOK, boot, flags
<1>18. ASSUME NEW w \in Worker, Peek(w) PROVE TypeOK'
  BY <1>18 DEF Peek, Goto, TypeOK, PCs, queue, boot, flags
<1>19. ASSUME NEW w \in Worker, TestPending(w) PROVE TypeOK'
  BY <1>19 DEF TestPending, Goto, TypeOK, PCs, queue, boot, flags
<1>20. ASSUME NEW w \in Worker, DecPending(w) PROVE TypeOK'
  BY <1>20 DEF DecPending, NextDir, Goto, TypeOK, PCs, boot, flags
<1>21. ASSUME NEW w \in Worker, Flush(w) PROVE TypeOK'
  BY <1>21 DEF Flush, Goto, TypeOK, PCs, queue, boot, flags
<1>22. CASE UNCHANGED vars
  BY <1>22 DEF TypeOK, vars, queue, boot, flags
<1> QED
  BY <1>1, <1>2, <1>3, <1>4, <1>5, <1>6, <1>7, <1>8, <1>9, <1>10, <1>11,
     <1>12, <1>13, <1>14, <1>15, <1>16, <1>17, <1>18, <1>19, <1>20, <1>21,
     <1>22 DEF Next, MainStep, Step, Terminating
-----------------------------------------------------------------------------
(* Control.                                                                *)

\* A step of w leaves the other threads' part of Shape alone.
LEMMA ShapeFrame ==
  ASSUME Shape, NEW w \in Worker, UNCHANGED <<solo, helper>>, ShapeOf(w)',
         \A v \in Worker \ {w} :
            pc'[v] = pc[v] /\ cur'[v] = cur[v] /\ todo'[v] = todo[v]
  PROVE  Shape'
  BY DEF Shape, ShapeOf

\* Every step of the walker keeps Shape.
LEMMA ShapeStep == IInv /\ [Next]_vars => Shape'
<1> SUFFICES ASSUME IInv, [Next]_vars PROVE Shape'
  OBVIOUS
<1>0. TypeOK /\ Shape
  BY DEF IInv
<1> USE <1>0
<1>1. CASE HandleRoot
  BY <1>1, NThreadsAssumption
     DEF HandleRoot, Dispatch, Advance, Child, At, Goto, TypeOK, Shape, ShapeOf, Calling, Worker, Main, Helper, queue, boot
<1>2. CASE RunSearch
  BY <1>2, NThreadsAssumption
     DEF RunSearch, At, Goto, TypeOK, Shape, ShapeOf, Calling, Worker, Main, Helper, queue, boot
<1>3. CASE WalkAlone
  BY <1>3, NThreadsAssumption
     DEF WalkAlone, At, Goto, TypeOK, Shape, ShapeOf, Calling, Worker, Main, Helper, queue, boot
<1>4. CASE StartSpawning
  BY <1>4, NThreadsAssumption
     DEF StartSpawning, At, Goto, TypeOK, Shape, ShapeOf, Calling, Worker, Main, Helper, queue, boot
<1>5. CASE SpawnHelper
  BY <1>5, NThreadsAssumption
     DEF SpawnHelper, At, Goto, TypeOK, Shape, ShapeOf, Calling, Worker, Main, Helper, queue, boot
<1>6. CASE StopSpawning
  BY <1>6, NThreadsAssumption
     DEF StopSpawning, At, Goto, TypeOK, Shape, ShapeOf, Calling, Worker, Main, Helper, queue, boot
<1>7. CASE JoinAndExit
  BY <1>7, NThreadsAssumption
     DEF JoinAndExit, ExitStatus, At, Goto, TypeOK, Shape, ShapeOf, Calling, Worker, Main, Helper, queue, boot
<1>8. ASSUME NEW w \in Worker, Open(w) PROVE Shape'
  <2>1. ShapeOf(w)'
    BY <1>8 DEF Open, At, Goto, TypeOK, Shape, ShapeOf, Calling, queue, boot
  <2>2. /\ UNCHANGED <<solo, helper>>
        /\ \A v \in Worker \ {w} :
             pc'[v] = pc[v] /\ cur'[v] = cur[v] /\ todo'[v] = todo[v]
    BY <1>8 DEF Open, Goto, TypeOK, queue, boot
  <2> QED
    BY <2>1, <2>2, ShapeFrame
<1>9. ASSUME NEW w \in Worker, ReadEntry(w) PROVE Shape'
  <2>1. ShapeOf(w)'
    BY <1>9 DEF ReadEntry, Dispatch, Advance, Child, At, Goto, TypeOK, Shape, ShapeOf, Calling, queue, boot
  <2>2. /\ UNCHANGED <<solo, helper>>
        /\ \A v \in Worker \ {w} :
             pc'[v] = pc[v] /\ cur'[v] = cur[v] /\ todo'[v] = todo[v]
    BY <1>9 DEF ReadEntry, Dispatch, Advance, Child, Goto, TypeOK, queue, boot
  <2> QED
    BY <2>1, <2>2, ShapeFrame
<1>10. ASSUME NEW w \in Worker, EndOfDir(w) PROVE Shape'
  <2>1. ShapeOf(w)'
    BY <1>10 DEF EndOfDir, At, Goto, TypeOK, Shape, ShapeOf, Calling, queue, boot
  <2>2. /\ UNCHANGED <<solo, helper>>
        /\ \A v \in Worker \ {w} :
             pc'[v] = pc[v] /\ cur'[v] = cur[v] /\ todo'[v] = todo[v]
    BY <1>10 DEF EndOfDir, Goto, TypeOK, queue, boot
  <2> QED
    BY <2>1, <2>2, ShapeFrame
<1>11. ASSUME NEW w \in Worker, SearchFile(w) PROVE Shape'
  <2>1. ShapeOf(w)'
    BY <1>11 DEF SearchFile, Advance, Child, At, Goto, TypeOK, Shape, ShapeOf, Calling, queue, boot
  <2>2. /\ UNCHANGED <<solo, helper>>
        /\ \A v \in Worker \ {w} :
             pc'[v] = pc[v] /\ cur'[v] = cur[v] /\ todo'[v] = todo[v]
    BY <1>11 DEF SearchFile, Advance, Child, Goto, TypeOK, queue, boot
  <2> QED
    BY <2>1, <2>2, ShapeFrame
<1>12. ASSUME NEW w \in Worker, ArenaAlloc(w) PROVE Shape'
  <2>1. ShapeOf(w)'
    BY <1>12 DEF ArenaAlloc, Advance, Child, Forget, At, Goto, TypeOK, Shape, ShapeOf, Calling, queue, boot
  <2>2. /\ UNCHANGED <<solo, helper>>
        /\ \A v \in Worker \ {w} :
             pc'[v] = pc[v] /\ cur'[v] = cur[v] /\ todo'[v] = todo[v]
    BY <1>12 DEF ArenaAlloc, Advance, Child, Forget, Goto, TypeOK, queue, boot
  <2> QED
    BY <2>1, <2>2, ShapeFrame
<1>13. ASSUME NEW w \in Worker, LockDirq(w) PROVE Shape'
  <2>1. ShapeOf(w)'
    BY <1>13 DEF LockDirq, At, Goto, TypeOK, Shape, ShapeOf, Calling, queue, boot
  <2>2. /\ UNCHANGED <<solo, helper>>
        /\ \A v \in Worker \ {w} :
             pc'[v] = pc[v] /\ cur'[v] = cur[v] /\ todo'[v] = todo[v]
    BY <1>13 DEF LockDirq, Goto, TypeOK, queue, boot
  <2> QED
    BY <2>1, <2>2, ShapeFrame
<1>14. ASSUME NEW w \in Worker, PushTop(w) PROVE Shape'
  <2>1. ShapeOf(w)'
    BY <1>14 DEF PushTop, Child, Forget, At, Goto, TypeOK, Shape, ShapeOf, Calling, queue, boot
  <2>2. /\ UNCHANGED <<solo, helper>>
        /\ \A v \in Worker \ {w} :
             pc'[v] = pc[v] /\ cur'[v] = cur[v] /\ todo'[v] = todo[v]
    BY <1>14 DEF PushTop, Child, Forget, Goto, TypeOK, queue, boot
  <2> QED
    BY <2>1, <2>2, ShapeFrame
<1>15. ASSUME NEW w \in Worker, PushPending(w) PROVE Shape'
  <2>1. ShapeOf(w)'
    BY <1>15 DEF PushPending, At, Goto, TypeOK, Shape, ShapeOf, Calling, queue, boot
  <2>2. /\ UNCHANGED <<solo, helper>>
        /\ \A v \in Worker \ {w} :
             pc'[v] = pc[v] /\ cur'[v] = cur[v] /\ todo'[v] = todo[v]
    BY <1>15 DEF PushPending, Goto, TypeOK, queue, boot
  <2> QED
    BY <2>1, <2>2, ShapeFrame
<1>16. ASSUME NEW w \in Worker, PopTop(w) PROVE Shape'
  <2>1. ShapeOf(w)'
    BY <1>16 DEF PopTop, At, Goto, TypeOK, Shape, ShapeOf, Calling, queue, boot
  <2>2. /\ UNCHANGED <<solo, helper>>
        /\ \A v \in Worker \ {w} :
             pc'[v] = pc[v] /\ cur'[v] = cur[v] /\ todo'[v] = todo[v]
    BY <1>16 DEF PopTop, Goto, TypeOK, queue, boot
  <2> QED
    BY <2>1, <2>2, ShapeFrame
<1>17. ASSUME NEW w \in Worker, UnlockDirq(w) PROVE Shape'
  <2>1. ShapeOf(w)'
    BY <1>17 DEF UnlockDirq, Advance, Empty, At, Goto, TypeOK, Shape, ShapeOf, Calling, queue, boot
  <2>2. /\ UNCHANGED <<solo, helper>>
        /\ \A v \in Worker \ {w} :
             pc'[v] = pc[v] /\ cur'[v] = cur[v] /\ todo'[v] = todo[v]
    BY <1>17 DEF UnlockDirq, Advance, Empty, Goto, TypeOK, queue, boot
  <2> QED
    BY <2>1, <2>2, ShapeFrame
<1>18. ASSUME NEW w \in Worker, Peek(w) PROVE Shape'
  <2>1. ShapeOf(w)'
    BY <1>18 DEF Peek, At, Goto, TypeOK, Shape, ShapeOf, Calling, queue, boot
  <2>2. /\ UNCHANGED <<solo, helper>>
        /\ \A v \in Worker \ {w} :
             pc'[v] = pc[v] /\ cur'[v] = cur[v] /\ todo'[v] = todo[v]
    BY <1>18 DEF Peek, Goto, TypeOK, queue, boot
  <2> QED
    BY <2>1, <2>2, ShapeFrame
<1>19. ASSUME NEW w \in Worker, TestPending(w) PROVE Shape'
  <2>1. ShapeOf(w)'
    BY <1>19 DEF TestPending, At, Goto, TypeOK, Shape, ShapeOf, Calling, queue, boot
  <2>2. /\ UNCHANGED <<solo, helper>>
        /\ \A v \in Worker \ {w} :
             pc'[v] = pc[v] /\ cur'[v] = cur[v] /\ todo'[v] = todo[v]
    BY <1>19 DEF TestPending, Goto, TypeOK, queue, boot
  <2> QED
    BY <2>1, <2>2, ShapeFrame
<1>20. ASSUME NEW w \in Worker, DecPending(w) PROVE Shape'
  <2>1. ShapeOf(w)'
    BY <1>20 DEF DecPending, NextDir, At, Goto, TypeOK, Shape, ShapeOf, Calling, queue, boot
  <2>2. /\ UNCHANGED <<solo, helper>>
        /\ \A v \in Worker \ {w} :
             pc'[v] = pc[v] /\ cur'[v] = cur[v] /\ todo'[v] = todo[v]
    BY <1>20 DEF DecPending, NextDir, Goto, TypeOK, queue, boot
  <2> QED
    BY <2>1, <2>2, ShapeFrame
<1>21. ASSUME NEW w \in Worker, Flush(w) PROVE Shape'
  <2>1. ShapeOf(w)'
    BY <1>21 DEF Flush, At, Goto, TypeOK, Shape, ShapeOf, Calling, queue, boot
  <2>2. /\ UNCHANGED <<solo, helper>>
        /\ \A v \in Worker \ {w} :
             pc'[v] = pc[v] /\ cur'[v] = cur[v] /\ todo'[v] = todo[v]
    BY <1>21 DEF Flush, Goto, TypeOK, queue, boot
  <2> QED
    BY <2>1, <2>2, ShapeFrame
<1>22. CASE UNCHANGED vars
  BY <1>22 DEF Shape, ShapeOf, vars, boot
<1> QED
  BY <1>1, <1>2, <1>3, <1>4, <1>5, <1>6, <1>7, <1>8, <1>9, <1>10, <1>11, <1>12, <1>13, <1>14, <1>15, <1>16, <1>17, <1>18, <1>19, <1>20, <1>21, <1>22
     DEF Next, MainStep, Step, Terminating
-----------------------------------------------------------------------------
(* The lock.                                                               *)

LockInv == DirqMutex /\ LockTaken /\ Stored

\* A step that neither enters nor leaves a critical section.
LEMMA LockFrame ==
  ASSUME LockInv, UNCHANGED <<dirq, dirq_lock>>,
         \A v \in Worker : /\ Locked(v)' <=> Locked(v)
                           /\ At(v, "push_pending")' <=> At(v, "push_pending")
  PROVE  LockInv'
  BY DEF LockInv, DirqMutex, LockTaken, Stored, MidPush

\* Every step of the walker keeps LockInv.
LEMMA LockStep == IInv /\ [Next]_vars => LockInv'
<1> SUFFICES ASSUME IInv, [Next]_vars PROVE LockInv'
  OBVIOUS
<1>0. TypeOK /\ Shape /\ LockInv
  BY DEF IInv, LockInv
<1> USE <1>0
<1>1. CASE HandleRoot
  BY <1>1, LockFrame DEF HandleRoot, Dispatch, Advance, Child, At, Goto, TypeOK, Shape, ShapeOf, Worker, Main, Helper, Locked, queue
<1>2. CASE RunSearch
  BY <1>2, LockFrame DEF RunSearch, At, Goto, TypeOK, Shape, ShapeOf, Worker, Main, Helper, Locked, queue
<1>3. CASE WalkAlone
  BY <1>3, LockFrame DEF WalkAlone, At, Goto, TypeOK, Shape, ShapeOf, Worker, Main, Helper, Locked, queue
<1>4. CASE StartSpawning
  BY <1>4, LockFrame DEF StartSpawning, At, Goto, TypeOK, Shape, ShapeOf, Worker, Main, Helper, Locked, queue
<1>5. CASE SpawnHelper
  BY <1>5, LockFrame DEF SpawnHelper, At, Goto, TypeOK, Shape, ShapeOf, Worker, Main, Helper, Locked, queue
<1>6. CASE StopSpawning
  BY <1>6, LockFrame DEF StopSpawning, At, Goto, TypeOK, Shape, ShapeOf, Worker, Main, Helper, Locked, queue
<1>7. CASE JoinAndExit
  BY <1>7, LockFrame DEF JoinAndExit, ExitStatus, At, Goto, TypeOK, Shape, ShapeOf, Worker, Main, Helper, Locked, queue
<1>8. ASSUME NEW w \in Worker, Open(w) PROVE LockInv'
  BY <1>8, LockFrame DEF Open, At, Goto, TypeOK, Shape, ShapeOf, Locked, queue
<1>9. ASSUME NEW w \in Worker, ReadEntry(w) PROVE LockInv'
  BY <1>9, LockFrame DEF ReadEntry, Dispatch, Advance, Child, At, Goto, TypeOK, Shape, ShapeOf, Locked, queue
<1>10. ASSUME NEW w \in Worker, EndOfDir(w) PROVE LockInv'
  BY <1>10, LockFrame DEF EndOfDir, At, Goto, TypeOK, Shape, ShapeOf, Locked, queue
<1>11. ASSUME NEW w \in Worker, SearchFile(w) PROVE LockInv'
  BY <1>11, LockFrame DEF SearchFile, Advance, Child, At, Goto, TypeOK, Shape, ShapeOf, Locked, queue
<1>12. ASSUME NEW w \in Worker, ArenaAlloc(w) PROVE LockInv'
  BY <1>12, LockFrame DEF ArenaAlloc, Advance, Child, Forget, At, Goto, TypeOK, Shape, ShapeOf, Locked, queue
<1>13. ASSUME NEW w \in Worker, LockDirq(w) PROVE LockInv'
  BY <1>13 DEF LockDirq, At, Goto, TypeOK, LockInv, DirqMutex, LockTaken, Stored, Locked, MidPush
<1>14. ASSUME NEW w \in Worker, PushTop(w) PROVE LockInv'
  <2>1. (DirqMutex /\ LockTaken)'
    BY <1>14 DEF PushTop, At, Goto, TypeOK, LockInv, DirqMutex, LockTaken, Locked
  <2>2. Append(dirq, Child(w)) # <<>>
    <3>1. Child(w) \in Node
      BY <1>14, ChildType DEF PushTop, At, Shape, ShapeOf, Calling
    <3>2. Len(Append(dirq, Child(w))) = Len(dirq) + 1 /\ Len(dirq) \in Nat
      BY <3>1, AppendProperties, LenProperties DEF TypeOK
    <3> QED
      BY <3>2, EmptySeq
  <2>3. CASE Len(dirq) >= MAX_DIRS
    <3>1. ~ MidPush'
      BY <1>14, <2>3 DEF PushTop, At, Goto, TypeOK, LockInv, DirqMutex, Locked, MidPush
    <3> QED
      BY <2>1, <3>1 DEF LockInv, Stored
  <2>4. CASE ~ (Len(dirq) >= MAX_DIRS)
    BY <1>14, <2>1, <2>2, <2>4 DEF PushTop, LockInv, Stored
  <2> QED
    BY <2>3, <2>4
<1>15. ASSUME NEW w \in Worker, PushPending(w) PROVE LockInv'
  BY <1>15 DEF PushPending, At, Goto, TypeOK, LockInv, DirqMutex, LockTaken, Stored, Locked, MidPush
<1>16. ASSUME NEW w \in Worker, PopTop(w) PROVE LockInv'
  BY <1>16 DEF PopTop, At, Goto, TypeOK, LockInv, DirqMutex, LockTaken, Stored, Locked, MidPush
<1>17. ASSUME NEW w \in Worker, UnlockDirq(w) PROVE LockInv'
  BY <1>17 DEF UnlockDirq, Advance, Empty, At, Goto, TypeOK, LockInv, DirqMutex, LockTaken, Stored, Locked, MidPush
<1>18. ASSUME NEW w \in Worker, Peek(w) PROVE LockInv'
  BY <1>18, LockFrame DEF Peek, At, Goto, TypeOK, Shape, ShapeOf, Locked, queue
<1>19. ASSUME NEW w \in Worker, TestPending(w) PROVE LockInv'
  BY <1>19, LockFrame DEF TestPending, At, Goto, TypeOK, Shape, ShapeOf, Locked, queue
<1>20. ASSUME NEW w \in Worker, DecPending(w) PROVE LockInv'
  BY <1>20, LockFrame DEF DecPending, NextDir, At, Goto, TypeOK, Shape, ShapeOf, Locked, queue
<1>21. ASSUME NEW w \in Worker, Flush(w) PROVE LockInv'
  BY <1>21, LockFrame DEF Flush, At, Goto, TypeOK, Shape, ShapeOf, Locked, queue
<1>22. CASE UNCHANGED vars
  BY <1>22, LockFrame DEF Locked, At, vars, queue
<1> QED
  BY <1>1, <1>2, <1>3, <1>4, <1>5, <1>6, <1>7, <1>8, <1>9, <1>10, <1>11, <1>12, <1>13, <1>14, <1>15, <1>16, <1>17, <1>18, <1>19, <1>20, <1>21, <1>22
     DEF Next, MainStep, Step, Terminating
-----------------------------------------------------------------------------
(* The counter.                                                            *)

\* The threads that hold a directory are finitely many.
LEMMA InHandFinite == IsFiniteSet(InHand) /\ Cardinality(InHand) \in Nat
<1>1. IsFiniteSet(Worker)
  BY FS_Interval, NThreadsAssumption DEF Worker
<1>2. InHand \in SUBSET Worker
  BY DEF InHand
<1> QED
  BY <1>1, <1>2, FS_Subset, FS_CardinalityType

\* A step that neither touches the queue nor counts.
LEMMA PendingFrame ==
  ASSUME PendingExact, UNCHANGED <<dirq, pending, cur>>,
         \A v \in Worker : At(v, "push_pending")' <=> At(v, "push_pending")
  PROVE  PendingExact'
<1>1. InHand' = InHand
  BY DEF InHand
<1>2. MidPush' <=> MidPush
  BY DEF MidPush
<1> QED
  BY <1>1, <1>2 DEF PendingExact

\* Every step of the walker keeps PendingExact.
LEMMA PendingStep == IInv /\ [Next]_vars => PendingExact'
<1> SUFFICES ASSUME IInv, [Next]_vars PROVE PendingExact'
  OBVIOUS
<1>0. TypeOK /\ Shape /\ DirqMutex /\ PendingExact
  BY DEF IInv
<1> USE <1>0
<1>1. CASE HandleRoot
  BY <1>1, PendingFrame DEF HandleRoot, Dispatch, Advance, Child, At, Goto, TypeOK, Shape, ShapeOf, Worker, Main, Helper, queue
<1>2. CASE RunSearch
  BY <1>2, PendingFrame DEF RunSearch, At, Goto, TypeOK, Shape, ShapeOf, Worker, Main, Helper, queue
<1>3. CASE WalkAlone
  BY <1>3, PendingFrame DEF WalkAlone, At, Goto, TypeOK, Shape, ShapeOf, Worker, Main, Helper, queue
<1>4. CASE StartSpawning
  BY <1>4, PendingFrame DEF StartSpawning, At, Goto, TypeOK, Shape, ShapeOf, Worker, Main, Helper, queue
<1>5. CASE SpawnHelper
  BY <1>5, PendingFrame DEF SpawnHelper, At, Goto, TypeOK, Shape, ShapeOf, Worker, Main, Helper, queue
<1>6. CASE StopSpawning
  BY <1>6, PendingFrame DEF StopSpawning, At, Goto, TypeOK, Shape, ShapeOf, Worker, Main, Helper, queue
<1>7. CASE JoinAndExit
  BY <1>7, PendingFrame DEF JoinAndExit, ExitStatus, At, Goto, TypeOK, Shape, ShapeOf, Worker, Main, Helper, queue
<1>8. ASSUME NEW w \in Worker, Open(w) PROVE PendingExact'
  BY <1>8, PendingFrame DEF Open, At, Goto, TypeOK, Shape, ShapeOf, queue
<1>9. ASSUME NEW w \in Worker, ReadEntry(w) PROVE PendingExact'
  BY <1>9, PendingFrame DEF ReadEntry, Dispatch, Advance, Child, At, Goto, TypeOK, Shape, ShapeOf, queue
<1>10. ASSUME NEW w \in Worker, EndOfDir(w) PROVE PendingExact'
  BY <1>10, PendingFrame DEF EndOfDir, At, Goto, TypeOK, Shape, ShapeOf, queue
<1>11. ASSUME NEW w \in Worker, SearchFile(w) PROVE PendingExact'
  BY <1>11, PendingFrame DEF SearchFile, Advance, Child, At, Goto, TypeOK, Shape, ShapeOf, queue
<1>12. ASSUME NEW w \in Worker, ArenaAlloc(w) PROVE PendingExact'
  BY <1>12, PendingFrame DEF ArenaAlloc, Advance, Child, Forget, At, Goto, TypeOK, Shape, ShapeOf, queue
<1>13. ASSUME NEW w \in Worker, LockDirq(w) PROVE PendingExact'
  BY <1>13, PendingFrame DEF LockDirq, At, Goto, TypeOK, Shape, ShapeOf, queue
<1>14. ASSUME NEW w \in Worker, PushTop(w) PROVE PendingExact'
  <2>1. ~ MidPush /\ InHand' = InHand
    BY <1>14 DEF PushTop, At, DirqMutex, Locked, MidPush, InHand
  <2>2. CASE Len(dirq) >= MAX_DIRS
    <3>1. ~ MidPush'
      BY <1>14, <2>1, <2>2 DEF PushTop, At, Goto, TypeOK, MidPush
    <3> QED
      BY <1>14, <2>1, <2>2, <3>1 DEF PushTop, PendingExact
  <2>3. CASE ~ (Len(dirq) >= MAX_DIRS)
    <3>1. MidPush'
      BY <1>14, <2>3 DEF PushTop, At, Goto, TypeOK, MidPush
    <3>2. Child(w) \in Node
      BY <1>14, ChildType DEF PushTop, At, Shape, ShapeOf, Calling
    <3>3. Len(dirq') = Len(dirq) + 1 /\ Len(dirq) \in Nat
      BY <1>14, <2>3, <3>2, AppendProperties, LenProperties DEF PushTop, TypeOK
    <3>4. pending' = pending
      BY <1>14 DEF PushTop
    <3> QED
      BY <2>1, <3>1, <3>3, <3>4, InHandFinite DEF PendingExact
  <2> QED
    BY <2>2, <2>3
<1>15. ASSUME NEW w \in Worker, PushPending(w) PROVE PendingExact'
  <2>1. MidPush /\ InHand' = InHand
    BY <1>15 DEF PushPending, MidPush, InHand
  <2>2. ~ MidPush'
    BY <1>15 DEF PushPending, At, Goto, TypeOK, DirqMutex, Locked, MidPush
  <2>3. pending' = pending + 1 /\ dirq' = dirq
    BY <1>15 DEF PushPending
  <2>4. Len(dirq) \in Nat
    BY LenProperties DEF TypeOK
  <2> QED
    BY <2>1, <2>2, <2>3, <2>4, InHandFinite DEF PendingExact
<1>16. ASSUME NEW w \in Worker, PopTop(w) PROVE PendingExact'
  <2>1. ~ MidPush /\ ~ MidPush'
    BY <1>16 DEF PopTop, At, Goto, TypeOK, DirqMutex, Locked, MidPush
  <2>2. CASE dirq = <<>>
    <3>1. InHand' = InHand
      BY <1>16, <2>2 DEF PopTop, InHand
    <3> QED
      BY <1>16, <2>1, <2>2, <3>1 DEF PopTop, PendingExact
  <2>3. CASE dirq # <<>>
    <3>1. Len(dirq) \in Nat \ {0} /\ dirq[Len(dirq)] \in Node
      BY <2>3, EmptySeq, ElementOfSeq DEF TypeOK
    <3>2. Len(dirq') = Len(dirq) - 1
      BY <1>16, <2>3, <3>1, SubSeqProperties DEF PopTop, TypeOK
    <3>3. w \notin InHand
      BY <1>16 DEF PopTop, At, Shape, ShapeOf, Calling, InHand
    <3>4. InHand' = InHand \cup {w}
      BY <1>16, <2>3, <3>1, NodeAssumption DEF PopTop, TypeOK, InHand
    <3>5. Cardinality(InHand') = Cardinality(InHand) + 1
      BY <3>3, <3>4, InHandFinite, FS_AddElement
    <3>6. pending' = pending
      BY <1>16 DEF PopTop
    <3> QED
      BY <2>1, <3>1, <3>2, <3>5, <3>6, InHandFinite DEF PendingExact
  <2> QED
    BY <2>2, <2>3
<1>17. ASSUME NEW w \in Worker, UnlockDirq(w) PROVE PendingExact'
  BY <1>17, PendingFrame DEF UnlockDirq, Advance, Empty, At, Goto, TypeOK, Shape, ShapeOf, queue
<1>18. ASSUME NEW w \in Worker, Peek(w) PROVE PendingExact'
  BY <1>18, PendingFrame DEF Peek, At, Goto, TypeOK, Shape, ShapeOf, queue
<1>19. ASSUME NEW w \in Worker, TestPending(w) PROVE PendingExact'
  BY <1>19, PendingFrame DEF TestPending, At, Goto, TypeOK, Shape, ShapeOf, queue
<1>20. ASSUME NEW w \in Worker, DecPending(w) PROVE PendingExact'
  <2>1. w \in InHand
    BY <1>20 DEF DecPending, At, Shape, ShapeOf, InHand
  <2>2. InHand' = InHand \ {w}
    BY <1>20 DEF DecPending, TypeOK, InHand
  <2>3. Cardinality(InHand') = Cardinality(InHand) - 1
    BY <2>1, <2>2, InHandFinite, FS_RemoveElement
  <2>4. MidPush' <=> MidPush
    BY <1>20 DEF DecPending, NextDir, At, Goto, TypeOK, MidPush
  <2>5. pending' = pending - 1 /\ dirq' = dirq
    BY <1>20 DEF DecPending
  <2>6. Len(dirq) \in Nat
    BY LenProperties DEF TypeOK
  <2> QED
    BY <2>3, <2>4, <2>5, <2>6, InHandFinite DEF PendingExact
<1>21. ASSUME NEW w \in Worker, Flush(w) PROVE PendingExact'
  BY <1>21, PendingFrame DEF Flush, At, Goto, TypeOK, Shape, ShapeOf, queue
<1>22. CASE UNCHANGED vars
  BY <1>22, PendingFrame DEF At, vars, queue
<1> QED
  BY <1>1, <1>2, <1>3, <1>4, <1>5, <1>6, <1>7, <1>8, <1>9, <1>10, <1>11, <1>12, <1>13, <1>14, <1>15, <1>16, <1>17, <1>18, <1>19, <1>20, <1>21, <1>22
     DEF Next, MainStep, Step, Terminating
-----------------------------------------------------------------------------
(* Nobody leaves early.                                                    *)

\* When `pending` is 0 and main is past its arguments, nothing is left: the
\* counter is short by one only while the uncounted directory is queued.
LEMMA NothingLeft ==
  ASSUME IInv, pending = 0, ~ solo \/ At(Main, "ploop") \/ At(Main, "empty")
  PROVE  Quiet
<1>1. TypeOK /\ Shape /\ DirqMutex /\ Stored /\ PendingExact
  BY DEF IInv
<1>2. Main \in Worker /\ Len(dirq) \in Nat
  BY <1>1, NThreadsAssumption, LenProperties DEF TypeOK, Worker, Main
<1>3. \A w \in Worker : pc[w] \in Calling => w \in InHand
  BY <1>1, <1>2 DEF Shape, ShapeOf, InHand, At, Calling
<1>4. ~ MidPush
  <2> SUFFICES ASSUME NEW w \in Worker, At(w, "push_pending") PROVE FALSE
    BY DEF MidPush
  <2>1. w \in InHand /\ dirq # <<>>
    BY <1>1, <1>3 DEF At, Calling, Stored, MidPush
  <2>2. Cardinality(InHand) # 0
    BY <2>1, InHandFinite, FS_EmptySet
  <2>3. Len(dirq) # 0
    BY <1>1, <2>1, EmptySeq DEF TypeOK
  <2>4. pending >= Len(dirq) + Cardinality(InHand) - 1
    BY <1>1, <1>2, InHandFinite DEF PendingExact
  <2> QED
    BY <1>2, <2>2, <2>3, <2>4, InHandFinite
<1>5. Len(dirq) = 0 /\ Cardinality(InHand) = 0
  BY <1>1, <1>2, <1>4, InHandFinite DEF PendingExact
<1>6. dirq = <<>> /\ InHand = {}
  BY <1>1, <1>5, InHandFinite, EmptySeq, FS_EmptySet DEF TypeOK
<1>7. \A w \in Worker : pc[w] \notin Calling
  BY <1>3, <1>6
<1>8. \A w \in Worker : pc[w] # "root"
  BY <1>1, <1>2 DEF Shape, ShapeOf, At
<1> QED
  BY <1>6, <1>7, <1>8 DEF Quiet

\* Once quiet, always quiet, and the flags no longer change.
LEMMA QuietStable == IInv /\ Quiet /\ [Next]_vars => Quiet' /\ UNCHANGED flags
<1> SUFFICES ASSUME IInv, Quiet, [Next]_vars PROVE Quiet' /\ UNCHANGED flags
  OBVIOUS
<1>0. TypeOK /\ Shape
  BY DEF IInv
<1>m. Main \in Worker
  BY NThreadsAssumption DEF Worker, Main
<1>q. /\ dirq = <<>>
      /\ \A w \in Worker : cur[w] = NoNode
      /\ \A w \in Worker : pc[w] \notin {"root", "open", "entry", "dec"} \cup Calling
  BY <1>0 DEF Quiet, InHand, Shape, ShapeOf
<1>f. ASSUME UNCHANGED <<dirq, cur, flags>>,
             \A w \in Worker : pc'[w] \notin Calling \cup {"root"}
      PROVE  Quiet' /\ UNCHANGED flags
  BY <1>f DEF Quiet, InHand
<1> USE <1>0, <1>m, <1>q
<1>1. CASE HandleRoot
  BY <1>1 DEF HandleRoot, At, Calling
<1>2. CASE RunSearch
  BY <1>2 DEF RunSearch, At, Calling
<1>3. CASE WalkAlone
  BY <1>3, <1>f DEF WalkAlone, At, Goto, TypeOK, Calling, queue, boot, flags
<1>4. CASE StartSpawning
  BY <1>4, <1>f DEF StartSpawning, At, Goto, TypeOK, Calling, queue, boot, flags
<1>5. CASE SpawnHelper
  BY <1>5, <1>f DEF SpawnHelper, At, Goto, TypeOK, Calling, queue, boot, flags
<1>6. CASE StopSpawning
  BY <1>6, <1>f DEF StopSpawning, At, Goto, TypeOK, Calling, queue, boot, flags
<1>7. CASE JoinAndExit
  BY <1>7, <1>f DEF JoinAndExit, ExitStatus, At, Goto, TypeOK, Calling, queue, boot, flags
<1>8. ASSUME NEW w \in Worker, Open(w) PROVE Quiet' /\ UNCHANGED flags
  BY <1>8 DEF Open, At, Calling
<1>9. ASSUME NEW w \in Worker, ReadEntry(w) PROVE Quiet' /\ UNCHANGED flags
  BY <1>9 DEF ReadEntry, At, Calling
<1>10. ASSUME NEW w \in Worker, EndOfDir(w) PROVE Quiet' /\ UNCHANGED flags
  BY <1>10 DEF EndOfDir, At, Calling
<1>11. ASSUME NEW w \in Worker, SearchFile(w) PROVE Quiet' /\ UNCHANGED flags
  BY <1>11 DEF SearchFile, At, Calling
<1>12. ASSUME NEW w \in Worker, ArenaAlloc(w) PROVE Quiet' /\ UNCHANGED flags
  BY <1>12 DEF ArenaAlloc, At, Calling
<1>13. ASSUME NEW w \in Worker, LockDirq(w) PROVE Quiet' /\ UNCHANGED flags
  BY <1>13, <1>f DEF LockDirq, At, Goto, TypeOK, Calling, queue, boot, flags
<1>14. ASSUME NEW w \in Worker, PushTop(w) PROVE Quiet' /\ UNCHANGED flags
  BY <1>14 DEF PushTop, At, Calling
<1>15. ASSUME NEW w \in Worker, PushPending(w) PROVE Quiet' /\ UNCHANGED flags
  BY <1>15 DEF PushPending, At, Calling
<1>16. ASSUME NEW w \in Worker, PopTop(w) PROVE Quiet' /\ UNCHANGED flags
  BY <1>16, <1>f DEF PopTop, At, Goto, TypeOK, Calling, queue, boot, flags
<1>17. ASSUME NEW w \in Worker, UnlockDirq(w) PROVE Quiet' /\ UNCHANGED flags
  BY <1>17, <1>f DEF UnlockDirq, Empty, At, Goto, TypeOK, Calling, queue, boot, flags
<1>18. ASSUME NEW w \in Worker, Peek(w) PROVE Quiet' /\ UNCHANGED flags
  BY <1>18, <1>f DEF Peek, At, Goto, TypeOK, Calling, queue, boot, flags
<1>19. ASSUME NEW w \in Worker, TestPending(w) PROVE Quiet' /\ UNCHANGED flags
  BY <1>19, <1>f DEF TestPending, At, Goto, TypeOK, Calling, queue, boot, flags
<1>20. ASSUME NEW w \in Worker, DecPending(w) PROVE Quiet' /\ UNCHANGED flags
  BY <1>20 DEF DecPending, At, Calling
<1>21. ASSUME NEW w \in Worker, Flush(w) PROVE Quiet' /\ UNCHANGED flags
  BY <1>21, <1>f DEF Flush, At, Goto, TypeOK, Calling, queue, boot, flags
<1>22. CASE UNCHANGED vars
  BY <1>22, <1>f DEF vars, queue, flags
<1> QED
  BY <1>1, <1>2, <1>3, <1>4, <1>5, <1>6, <1>7, <1>8, <1>9, <1>10, <1>11, <1>12, <1>13, <1>14, <1>15, <1>16, <1>17, <1>18, <1>19, <1>20, <1>21, <1>22
     DEF Next, MainStep, Step, Terminating

\* A step after which some thread has left its loop, and before which none had,
\* is a test that found pending = 0.
LEMMA FirstLeave ==
  ASSUME IInv, [Next]_vars,
         \A v \in Worker : ~ LeftLoop(v),
         NEW u \in Worker, LeftLoop(u)'
  PROVE  pending = 0 /\ (~ solo \/ At(Main, "ploop") \/ At(Main, "empty"))
<1>0. TypeOK /\ Shape
  BY DEF IInv
<1>m. Main \in Worker
  BY NThreadsAssumption DEF Worker, Main
<1>u. pc'[u] \in {"flush", "join", "exited"} /\ pc[u] \notin {"flush", "join", "exited"}
  BY DEF LeftLoop
<1> USE <1>0, <1>m, <1>u
<1> DEFINE G == pending = 0 /\ (~ solo \/ At(Main, "ploop") \/ At(Main, "empty"))
<1> SUFFICES G
  OBVIOUS
<1>1. CASE HandleRoot
  BY <1>1 DEF HandleRoot, Dispatch, Advance, At, Goto, TypeOK
<1>2. CASE RunSearch
  BY <1>2 DEF RunSearch, At, Goto, TypeOK
<1>3. CASE WalkAlone
  BY <1>3 DEF WalkAlone, At, Goto, TypeOK
<1>4. CASE StartSpawning
  BY <1>4 DEF StartSpawning, At, Goto, TypeOK
<1>5. CASE SpawnHelper
  BY <1>5 DEF SpawnHelper, At, TypeOK
<1>6. CASE StopSpawning
  BY <1>6 DEF StopSpawning, At, Goto, TypeOK
<1>7. CASE JoinAndExit
  BY <1>7 DEF JoinAndExit, At, LeftLoop
<1>8. ASSUME NEW w \in Worker, Open(w) PROVE G
  BY <1>8 DEF Open, At, Goto, TypeOK
<1>9. ASSUME NEW w \in Worker, ReadEntry(w) PROVE G
  BY <1>9 DEF ReadEntry, Dispatch, Advance, At, Goto, TypeOK
<1>10. ASSUME NEW w \in Worker, EndOfDir(w) PROVE G
  BY <1>10 DEF EndOfDir, At, Goto, TypeOK
<1>11. ASSUME NEW w \in Worker, SearchFile(w) PROVE G
  BY <1>11 DEF SearchFile, Advance, At, Goto, TypeOK
<1>12. ASSUME NEW w \in Worker, ArenaAlloc(w) PROVE G
  BY <1>12 DEF ArenaAlloc, Advance, At, Goto, TypeOK
<1>13. ASSUME NEW w \in Worker, LockDirq(w) PROVE G
  BY <1>13 DEF LockDirq, At, Goto, TypeOK
<1>14. ASSUME NEW w \in Worker, PushTop(w) PROVE G
  BY <1>14 DEF PushTop, At, Goto, TypeOK
<1>15. ASSUME NEW w \in Worker, PushPending(w) PROVE G
  BY <1>15 DEF PushPending, At, Goto, TypeOK
<1>16. ASSUME NEW w \in Worker, PopTop(w) PROVE G
  BY <1>16 DEF PopTop, At, Goto, TypeOK
<1>17. ASSUME NEW w \in Worker, UnlockDirq(w) PROVE G
  BY <1>17 DEF UnlockDirq, Advance, Empty, At, Goto, TypeOK
<1>18. ASSUME NEW w \in Worker, Peek(w) PROVE G
  BY <1>18 DEF Peek, At, Goto, TypeOK
<1>19. ASSUME NEW w \in Worker, TestPending(w) PROVE G
  <2>1. w = u /\ pending = 0 /\ pc[w] = "empty"
    BY <1>19 DEF TestPending, At, Goto, TypeOK
  <2>2. w = Main \/ ~ solo
    <3>1. w \in Helper => w >= 1
      BY NThreadsAssumption DEF Helper, Worker, Main
    <3> QED
      BY <2>1, <3>1 DEF Shape, ShapeOf, Helper
  <2> QED
    BY <2>1, <2>2 DEF At
<1>20. ASSUME NEW w \in Worker, DecPending(w) PROVE G
  BY <1>20 DEF DecPending, NextDir, At, Goto, TypeOK
<1>21. ASSUME NEW w \in Worker, Flush(w) PROVE G
  BY <1>21 DEF Flush, At, LeftLoop
<1>22. CASE UNCHANGED vars
  BY <1>22 DEF vars
<1> QED
  BY <1>1, <1>2, <1>3, <1>4, <1>5, <1>6, <1>7, <1>8, <1>9, <1>10, <1>11, <1>12, <1>13, <1>14, <1>15, <1>16, <1>17, <1>18, <1>19, <1>20, <1>21, <1>22
     DEF Next, MainStep, Step, Terminating

\* Every step of the walker keeps NoEarlyExit.
LEMMA NoEarlyExitStep == IInv /\ [Next]_vars => NoEarlyExit'
<1> SUFFICES ASSUME IInv, [Next]_vars, NEW u \in Worker, LeftLoop(u)' PROVE Quiet'
  BY DEF NoEarlyExit
<1>1. CASE \E w \in Worker : LeftLoop(w)
  BY <1>1, QuietStable DEF IInv, NoEarlyExit
<1>2. CASE \A w \in Worker : ~ LeftLoop(w)
  <2>1. Quiet
    BY <1>2, FirstLeave, NothingLeft
  <2> QED
    BY <2>1, QuietStable
<1> QED
  BY <1>1, <1>2

-----------------------------------------------------------------------------
(* The theorems.                                                           *)

\* The invariant holds at the start: one thread, nothing discovered.
LEMMA InitIInv == Init => IInv
<1> SUFFICES ASSUME Init PROVE IInv
  OBVIOUS
<1>1. Main \in Worker /\ \A w \in Helper : w # Main
  BY NThreadsAssumption DEF Worker, Main, Helper
<1>2. TypeOK
  <2>1. todo \in [Worker -> Seq(Node)]
    <3>1. <<>> \in Seq(Node) /\ Roots \in Seq(Node)
      BY NodeAssumption
    <3> QED
      BY <3>1 DEF Init
  <2>2. pc \in [Worker -> PCs] /\ cur \in [Worker -> Node \cup {NoNode}]
    BY DEF Init, PCs
  <2>3. helper \in 1 .. NThreads
    BY NThreadsAssumption DEF Init
  <2>4. dirq \in Seq(Node) /\ visited \in [Node -> Nat] /\ lost \in [Node -> Nat]
    BY DEF Init
  <2>5. dirq_lock \in {0, 1} /\ pending \in Int /\ arena_next \in Nat
    BY DEF Init
  <2>6. solo \in BOOLEAN /\ match_found \in BOOLEAN /\ had_error \in BOOLEAN
    BY DEF Init
  <2>7. status \in {-1, 0, 1, 2}
    BY DEF Init
  <2> QED
    BY <2>1, <2>2, <2>3, <2>4, <2>5, <2>6, <2>7 DEF TypeOK
<1>3. \A w \in Worker : pc[w] \in {"root", "none"} /\ cur[w] = NoNode
  BY DEF Init
<1>4. Shape
  BY <1>1, <1>3 DEF Init, Shape, ShapeOf, Calling
<1>5. DirqMutex /\ LockTaken /\ ~ MidPush
  BY <1>3 DEF DirqMutex, LockTaken, Locked, MidPush, At
<1>6. NoEarlyExit
  BY <1>3 DEF NoEarlyExit, LeftLoop
<1>7. InHand = {}
  BY <1>3 DEF InHand
<1>8. PendingExact
  BY <1>5, <1>7, FS_EmptySet, EmptySeq DEF Init, PendingExact
<1> QED
  BY <1>2, <1>4, <1>5, <1>6, <1>8 DEF IInv, Stored

\* Every step of the walker keeps IInv.
LEMMA NextIInv == IInv /\ [Next]_vars => IInv'
  BY TypeStep, ShapeStep, LockStep, PendingStep, NoEarlyExitStep DEF IInv, LockInv

\* The inductive invariant holds in every reachable state of every run.
THEOREM Invariance == Spec => []IInv
  BY InitIInv, NextIInv, PTL DEF Spec

\* Every variable keeps its type.
THEOREM TypeCorrect == Spec => []TypeOK
<1>1. IInv => TypeOK
  BY DEF IInv
<1> QED
  BY <1>1, Invariance, PTL

\* dirq_push and dirq_pop exclude each other, for any number of threads.
THEOREM QueueMutex == Spec => []DirqMutex
<1>1. IInv => DirqMutex
  BY DEF IInv
<1> QED
  BY <1>1, Invariance, PTL

\* `pending` is exactly the work that is queued or in hand.
THEOREM PendingCounts == Spec => []PendingExact
<1>1. IInv => PendingExact
  BY DEF IInv
<1> QED
  BY <1>1, Invariance, PTL

\* A thread that saw pending = 0 saw the end of the search.
THEOREM NobodyLeavesEarly == Spec => []NoEarlyExit
<1>1. IInv => NoEarlyExit
  BY DEF IInv
<1> QED
  BY <1>1, Invariance, PTL

\* match_found and had_error have their final values when the first thread
\* leaves its loop, hence when main computes the exit status.
THEOREM FlagsAreFinal == Spec => FlagsFinal
<1>1. IInv /\ [Next]_vars => [(\E w \in Worker : LeftLoop(w)) => UNCHANGED flags]_vars
  BY QuietStable DEF IInv, NoEarlyExit
<1> QED
  BY <1>1, Invariance, PTL DEF Spec, FlagsFinal
-----------------------------------------------------------------------------
(* The refinement of TreeSearch: the invariant RInv.                       *)

\* The threads other than the one that does the step stay where they are.
OthersStay(w) ==
  \A v \in Worker \ {w} : pc'[v] = pc[v] /\ cur'[v] = cur[v] /\ todo'[v] = todo[v]

\* A step of w changes no other thread's program point, directory or entries.
LEMMA StepFrame ==
  ASSUME TypeOK, NEW w \in Worker, Step(w)
  PROVE  OthersStay(w)
<1> USE DEF OthersStay
<1>1. ASSUME Advance(w), cur' = cur PROVE OthersStay(w)
  BY <1>1 DEF Advance, Goto, TypeOK
<1>2. CASE Open(w) \/ EndOfDir(w) \/ LockDirq(w) \/ PushTop(w) \/ PushPending(w)
  BY <1>2 DEF Open, EndOfDir, LockDirq, PushTop, PushPending, Goto, TypeOK, queue
<1>3. CASE ReadEntry(w)
  BY <1>3, <1>1 DEF ReadEntry, Dispatch, Goto, TypeOK, queue
<1>4. CASE SearchFile(w)
  BY <1>4, <1>1 DEF SearchFile
<1>5. CASE ArenaAlloc(w)
  BY <1>5, <1>1 DEF ArenaAlloc, Goto, TypeOK
<1>6. CASE PopTop(w) \/ DecPending(w)
  BY <1>6 DEF PopTop, DecPending, Goto, TypeOK
<1>7. CASE UnlockDirq(w)
  BY <1>7, <1>1 DEF UnlockDirq, Goto, TypeOK
<1>8. CASE Peek(w) \/ TestPending(w) \/ Flush(w)
  BY <1>8 DEF Peek, TestPending, Flush, Goto, TypeOK, queue
<1> QED
  BY <1>2, <1>3, <1>4, <1>5, <1>6, <1>7, <1>8 DEF Step

\* What an entry or argument that is picked up is: a regular file, or with -r a
\* directory, and then of that kind.
LEMMA KindOfPicked ==
  ASSUME NEW x \in Node, NEW kind \in {Mode[x]} \cup {EntryKind(d, x) : d \in Node},
         kind \in {"REG", "DIR"}
  PROVE  Kind(x) = kind
  BY TypesAgree DEF Kind, EntryKind

\* A thread whose program point, directory and entries stay keeps HandOf.
LEMMA HandsFrame ==
  ASSUME Hands, NEW w \in Worker, HandOf(w)',
         OthersStay(w)
  PROVE  Hands'
<1> SUFFICES ASSUME NEW v \in Worker \ {w} PROVE HandOf(v)'
  BY DEF Hands
<1>1. HandOf(v) /\ pc'[v] = pc[v] /\ cur'[v] = cur[v] /\ todo'[v] = todo[v]
  BY DEF Hands, OthersStay
<1> QED
  BY <1>1 DEF HandOf, PicksUp, Child

\* Dispatch leaves a thread with a path of the right kind in hand, or passes it over.
LEMMA DispatchHand ==
  ASSUME TypeOK, Shape, Hands, NEW w \in Worker, todo[w] # <<>>, UNCHANGED cur,
         pc[w] = (IF cur[w] = NoNode THEN "root" ELSE "entry"),
         Dispatch(w, IF cur[w] = NoNode THEN Mode[Child(w)] ELSE EntryKind(cur[w], Child(w)))
  PROVE  HandOf(w)'
<1> DEFINE kind == IF cur[w] = NoNode THEN Mode[Child(w)] ELSE EntryKind(cur[w], Child(w))
<1>1. Child(w) \in Node /\ cur[w] \in Node \cup {NoNode} /\ HandOf(w)
  BY ChildType DEF TypeOK, Hands
<1>2. kind \in {"REG", "DIR"} => Kind(Child(w)) = kind
  BY <1>1, KindOfPicked
<1>3. ASSUME UNCHANGED todo,
             \/ kind = "DIR" /\ opt_r /\ pc'[w] = "alloc"
             \/ kind = "REG" /\ pc'[w] = "search"
      PROVE  HandOf(w)'
  BY <1>1, <1>2, <1>3 DEF HandOf, PicksUp, Wanted, Calling, Child
<1>4. ASSUME Advance(w) PROVE HandOf(w)'
  BY <1>1, <1>4 DEF Advance, Goto, TypeOK, HandOf, Calling
<1>5. \A l \in PCs : Goto(w, l) => pc'[w] = l
  BY DEF Goto, TypeOK
<1>6. Dispatch(w, kind)
  OBVIOUS
<1> HIDE DEF kind
<1> QED
  BY <1>3, <1>4, <1>5, <1>6 DEF Dispatch, PCs

\* Going on to the next entry is always fine.
LEMMA AdvanceHand ==
  ASSUME TypeOK, Hands, NEW w \in Worker, Advance(w), UNCHANGED cur
  PROVE  HandOf(w)'
  BY DEF TypeOK, Hands, Advance, Goto, HandOf, Calling

\* Every step of the walker keeps Hands.
LEMMA HandsStep == IInv /\ Hands /\ DirsQueued /\ [Next]_vars => Hands'
<1> SUFFICES ASSUME IInv, Hands, DirsQueued, [Next]_vars PROVE Hands'
  OBVIOUS
<1>0. TypeOK /\ Shape
  BY DEF IInv
<1>m. Main \in Worker
  BY NThreadsAssumption DEF Worker, Main
<1> USE <1>0, <1>m
<1>f. ASSUME NEW w \in Worker, Step(w), HandOf(w)' PROVE Hands'
  BY <1>f, StepFrame, HandsFrame
<1>g. ASSUME \A w \in Worker : HandOf(w)' PROVE Hands'
  BY <1>g DEF Hands
<1>1. CASE HandleRoot
  <2>1. At(Main, "root") /\ cur[Main] = NoNode
    BY <1>1 DEF HandleRoot, Shape, ShapeOf, At, Calling
  <2>2. HandOf(Main)'
    BY <1>1, <2>1, DispatchHand DEF HandleRoot, At
  <2>3. OthersStay(Main)
    BY <1>1 DEF HandleRoot, Dispatch, Advance, Goto, TypeOK, OthersStay
  <2> QED
    BY <2>2, <2>3, HandsFrame
<1>2. CASE RunSearch
  BY <1>2 DEF RunSearch, At, Goto, TypeOK, Hands, HandOf, PicksUp, Child, Calling
<1>3. CASE WalkAlone
  BY <1>3 DEF WalkAlone, At, Goto, TypeOK, Hands, HandOf, PicksUp, Child, Calling
<1>4. CASE StartSpawning
  BY <1>4 DEF StartSpawning, At, Goto, TypeOK, Hands, HandOf, PicksUp, Child, Calling
<1>5. CASE SpawnHelper
  <2>1. PICK h \in Helper : h = helper
    BY <1>5, NThreadsAssumption DEF SpawnHelper, TypeOK, Helper, Worker, Main
  <2>2. pc[h] = "none" /\ todo[h] = <<>> /\ cur[h] = NoNode
    BY <2>1 DEF Hands, HandOf, Shape, ShapeOf, Calling, Helper, Worker
  <2>3. /\ \A w \in Worker \ {h} : pc'[w] = pc[w]
        /\ pc'[h] \in {"none", "loop"} /\ cur' = cur /\ todo' = todo
    BY <1>5, <2>1, <2>2 DEF SpawnHelper, TypeOK, Helper
  <2>4. HandOf(h)'
    BY <2>2, <2>3 DEF HandOf, Calling
  <2> QED
    BY <2>3, <2>4, HandsFrame DEF Helper, OthersStay
<1>6. CASE StopSpawning
  BY <1>6 DEF StopSpawning, At, Goto, TypeOK, Hands, HandOf, PicksUp, Child, Calling
<1>7. CASE JoinAndExit
  BY <1>7 DEF JoinAndExit, At, Goto, TypeOK, Hands, HandOf, PicksUp, Child, Calling
<1>8. ASSUME NEW w \in Worker, Open(w) PROVE Hands'
  <2>1. HandOf(w)'
    BY <1>8 DEF Open, At, Goto, TypeOK, Hands, HandOf, Calling
  <2> QED
    BY <1>8, <1>f, <2>1 DEF Step
<1>9. ASSUME NEW w \in Worker, ReadEntry(w) PROVE Hands'
  <2>1. cur[w] # NoNode /\ cur' = cur /\ todo[w] # <<>> /\ pc[w] = "entry"
    BY <1>9 DEF ReadEntry, At, Shape, ShapeOf
  <2>2. HandOf(w)'
    BY <1>9, <2>1, DispatchHand DEF ReadEntry
  <2> QED
    BY <1>9, <1>f, <2>2 DEF Step
<1>10. ASSUME NEW w \in Worker, EndOfDir(w) PROVE Hands'
  <2>1. HandOf(w)'
    BY <1>10 DEF EndOfDir, At, Goto, TypeOK, Hands, HandOf, Calling
  <2> QED
    BY <1>10, <1>f, <2>1 DEF Step
<1>11. ASSUME NEW w \in Worker, SearchFile(w) PROVE Hands'
  <2>1. HandOf(w)'
    BY <1>11, AdvanceHand DEF SearchFile
  <2> QED
    BY <1>11, <1>f, <2>1 DEF Step
<1>12. ASSUME NEW w \in Worker, ArenaAlloc(w) PROVE Hands'
  <2>1. CASE Advance(w)
    BY <1>12, <2>1, <1>f, AdvanceHand DEF ArenaAlloc, Step
  <2>2. CASE Goto(w, "push") /\ UNCHANGED todo
    <3>1. HandOf(w)'
      BY <1>12, <2>2 DEF ArenaAlloc, At, Goto, TypeOK, Hands, HandOf, PicksUp, Child, Calling
    <3> QED
      BY <1>12, <1>f, <3>1 DEF Step
  <2> QED
    BY <1>12, <2>1, <2>2 DEF ArenaAlloc
<1>13. ASSUME NEW w \in Worker, LockDirq(w) PROVE Hands'
  <2>1. HandOf(w)'
    BY <1>13 DEF LockDirq, At, Goto, TypeOK, Hands, HandOf, PicksUp, Child, Calling
  <2> QED
    BY <1>13, <1>f, <2>1 DEF Step
<1>14. ASSUME NEW w \in Worker, PushTop(w) PROVE Hands'
  <2>1. HandOf(w)'
    BY <1>14 DEF PushTop, At, Goto, TypeOK, Hands, HandOf, PicksUp, Child, Calling
  <2> QED
    BY <1>14, <1>f, <2>1 DEF Step
<1>15. ASSUME NEW w \in Worker, PushPending(w) PROVE Hands'
  <2>1. HandOf(w)'
    BY <1>15 DEF PushPending, At, Goto, TypeOK, Hands, HandOf, PicksUp, Child, Calling
  <2> QED
    BY <1>15, <1>f, <2>1 DEF Step
<1>16. ASSUME NEW w \in Worker, PopTop(w) PROVE Hands'
  <2>1. todo'[w] = <<>> /\ pc'[w] = "pop_unlock"
    BY <1>16 DEF PopTop, At, Goto, TypeOK, Hands, HandOf, Calling
  <2>2. cur'[w] = cur[w] \/ Kind(cur'[w]) = "DIR"
    <3>1. dirq # <<>> => Len(dirq) \in DOMAIN dirq
      BY EmptySeq, LenProperties DEF TypeOK
    <3> QED
      BY <1>16, <3>1 DEF PopTop, TypeOK, DirsQueued
  <2>3. HandOf(w)'
    BY <2>1, <2>2 DEF Hands, HandOf, Calling
  <2> QED
    BY <1>16, <1>f, <2>3 DEF Step
<1>17. ASSUME NEW w \in Worker, UnlockDirq(w) PROVE Hands'
  <2>1. CASE Advance(w)
    BY <1>17, <2>1, <1>f, AdvanceHand DEF UnlockDirq, Step
  <2>2. CASE ~ Advance(w)
    <3>1. HandOf(w)'
      BY <1>17, <2>2 DEF UnlockDirq, Empty, At, Goto, TypeOK, Hands, HandOf, Calling
    <3> QED
      BY <1>17, <1>f, <3>1 DEF Step
  <2> QED
    BY <2>1, <2>2
<1>18. ASSUME NEW w \in Worker, Peek(w) \/ TestPending(w) PROVE Hands'
  <2>1. HandOf(w)'
    BY <1>18 DEF Peek, TestPending, At, Goto, TypeOK, Hands, HandOf, Calling
  <2> QED
    BY <1>18, <1>f, <2>1 DEF Step
<1>20. ASSUME NEW w \in Worker, DecPending(w) PROVE Hands'
  <2>1. HandOf(w)'
    BY <1>20, NodeAssumption DEF DecPending, NextDir, At, Goto, TypeOK, Hands, HandOf, Calling
  <2> QED
    BY <1>20, <1>f, <2>1 DEF Step
<1>21. ASSUME NEW w \in Worker, Flush(w) PROVE Hands'
  <2>1. HandOf(w)'
    BY <1>21 DEF Flush, At, Goto, TypeOK, Hands, HandOf, Calling
  <2> QED
    BY <1>21, <1>f, <2>1 DEF Step
<1>22. CASE UNCHANGED vars
  BY <1>22 DEF vars, Hands, HandOf, PicksUp, Child
<1> QED
  BY <1>1, <1>2, <1>3, <1>4, <1>5, <1>6, <1>7, <1>8, <1>9, <1>10, <1>11, <1>12, <1>13, <1>14, <1>15, <1>16, <1>17, <1>18, <1>20, <1>21, <1>22
     DEF Next, MainStep, Step, Terminating

\* Every step of the walker keeps DirsQueued: only directories are pushed.
LEMMA DirsQueuedStep == IInv /\ Hands /\ DirsQueued /\ [Next]_vars => DirsQueued'
<1> SUFFICES ASSUME IInv, Hands, DirsQueued, [Next]_vars PROVE DirsQueued'
  OBVIOUS
<1>0. TypeOK /\ Shape
  BY DEF IInv
<1>1. ASSUME UNCHANGED dirq PROVE DirsQueued'
  BY <1>1 DEF DirsQueued
<1>2. ASSUME NEW w \in Worker, PushTop(w), dirq' = Append(dirq, Child(w)) PROVE DirsQueued'
  <2>1. Child(w) \in Node /\ Kind(Child(w)) = "DIR"
    BY <1>0, <1>2, ChildType DEF PushTop, At, Shape, ShapeOf, Calling, Hands, HandOf
  <2> QED
    BY <1>0, <1>2, <2>1, AppendProperties, LenProperties DEF TypeOK, DirsQueued
<1>3. ASSUME NEW w \in Worker, PopTop(w), dirq # <<>>, dirq' = SubSeq(dirq, 1, Len(dirq) - 1)
      PROVE  DirsQueued'
  <2>1. Len(dirq) \in Nat \ {0} /\ \A i \in 1 .. Len(dirq) : dirq[i] \in Node
    BY <1>0, <1>3, EmptySeq, ElementOfSeq DEF TypeOK
  <2>2. DOMAIN dirq' = 1 .. Len(dirq) - 1 /\ \A i \in 1 .. Len(dirq) - 1 : dirq'[i] = dirq[i]
    BY <1>3, <2>1, FrontOf
  <2>3. DOMAIN dirq = 1 .. Len(dirq)
    BY <1>0, LenProperties DEF TypeOK
  <2> QED
    BY <2>1, <2>2, <2>3 DEF DirsQueued
<1>4. CASE MainStep \/ Terminating \/ UNCHANGED vars
  BY <1>1, <1>4 DEF MainStep, Terminating, HandleRoot, RunSearch, WalkAlone, StartSpawning, SpawnHelper,
                    StopSpawning, JoinAndExit, vars, queue
<1>5. ASSUME NEW w \in Worker, Step(w) PROVE DirsQueued'
  <2>1. UNCHANGED dirq \/ PushTop(w) \/ PopTop(w)
    BY <1>5 DEF Step, Open, ReadEntry, EndOfDir, SearchFile, ArenaAlloc, LockDirq, PushPending,
                UnlockDirq, Peek, TestPending, DecPending, Flush, queue
  <2>2. CASE PushTop(w)
    BY <2>2, <1>1, <1>2 DEF PushTop
  <2>3. CASE PopTop(w)
    BY <2>3, <1>1, <1>3 DEF PopTop
  <2> QED
    BY <1>1, <2>1, <2>2, <2>3
<1> QED
  BY <1>4, <1>5 DEF Next

\* The errors among the arguments: the first one's, and those of the others.
LEMMA HasErrorTail ==
  ASSUME NEW s \in Seq(Node), s # <<>>
  PROVE  HasError(s) <=> Mode[Head(s)] = "ERROR" \/ HasError(Tail(s))
<1>1. /\ Len(s) \in Nat \ {0} /\ DOMAIN s = 1 .. Len(s) /\ Head(s) = s[1]
      /\ DOMAIN Tail(s) = 1 .. Len(s) - 1
      /\ \A i \in 1 .. Len(s) - 1 : Tail(s)[i] = s[i + 1]
  BY EmptySeq, LenProperties, HeadTailProperties
<1>2. ASSUME HasError(s), Mode[Head(s)] # "ERROR" PROVE HasError(Tail(s))
  <2>1. PICK i \in 1 .. Len(s) : Mode[s[i]] = "ERROR"
    BY <1>1, <1>2 DEF HasError
  <2>2. i - 1 \in 1 .. Len(s) - 1 /\ Tail(s)[i - 1] = s[i]
    BY <1>1, <1>2, <2>1
  <2> QED
    BY <1>1, <2>1, <2>2 DEF HasError
<1>3. ASSUME Mode[Head(s)] = "ERROR" PROVE HasError(s)
  BY <1>1, <1>3 DEF HasError
<1>4. ASSUME HasError(Tail(s)) PROVE HasError(s)
  <2>1. PICK i \in 1 .. Len(s) - 1 : Mode[Tail(s)[i]] = "ERROR"
    BY <1>1, <1>4 DEF HasError
  <2>2. i + 1 \in 1 .. Len(s) /\ s[i + 1] = Tail(s)[i]
    BY <1>1, <2>1
  <2> QED
    BY <1>1, <2>1, <2>2 DEF HasError
<1> QED
  BY <1>2, <1>3, <1>4

\* An argument that main goes past without had_error being set was no error.
LEMMA ArgsLeftAdvance ==
  ASSUME TypeOK, NEW w \in Worker, todo[w] # <<>>, Advance(w), UNCHANGED cur,
         w = Main /\ cur[w] = NoNode => Mode[Child(w)] # "ERROR"
  PROVE  HasError(ArgsLeft)' <=> HasError(ArgsLeft)
<1>1. Main \in Worker
  BY NThreadsAssumption DEF Worker, Main
<1>2. todo'[w] = Tail(todo[w]) /\ \A v \in Worker \ {w} : todo'[v] = todo[v]
  BY DEF Advance, TypeOK
<1>3. CASE w = Main /\ cur[w] = NoNode
  <2>1. ArgsLeft = todo[w] /\ ArgsLeft' = Tail(todo[w])
    BY <1>2, <1>3 DEF ArgsLeft
  <2>2. HasError(todo[w]) <=> HasError(Tail(todo[w]))
    BY <1>3, HasErrorTail DEF TypeOK, Child
  <2> QED
    BY <2>1, <2>2 DEF HasError
<1>4. CASE ~ (w = Main /\ cur[w] = NoNode)
  <2>1. ArgsLeft' = ArgsLeft
    BY <1>1, <1>2, <1>4 DEF ArgsLeft
  <2> QED
    BY <2>1 DEF HasError
<1> QED
  BY <1>3, <1>4

\* A visit of x adds x to the paths visited.
LEMMA VisitedMore ==
  ASSUME TypeOK, NEW x \in Node, visited' = [visited EXCEPT ![x] = @ + 1]
  PROVE  \A y \in Node : visited'[y] > 0 <=> visited[y] > 0 \/ y = x
  BY DEF TypeOK

\* Nothing that FlagsMeanVisits is about changes.
LEMMA FlagsFrame ==
  ASSUME FlagsMeanVisits, UNCHANGED <<flags, visited>>, HasError(ArgsLeft)' <=> HasError(ArgsLeft)
  PROVE  FlagsMeanVisits'
  BY DEF FlagsMeanVisits, flags, BadFile, Hit

\* Every step of the walker keeps FlagsMeanVisits.
LEMMA FlagsStep == IInv /\ Hands /\ FlagsMeanVisits /\ [Next]_vars => FlagsMeanVisits'
<1> SUFFICES ASSUME IInv, Hands, FlagsMeanVisits, [Next]_vars PROVE FlagsMeanVisits'
  OBVIOUS
<1>0. TypeOK /\ Shape
  BY DEF IInv
<1>m. Main \in Worker
  BY NThreadsAssumption DEF Worker, Main
<1> USE <1>0, <1>m
<1>f. ASSUME UNCHANGED <<flags, visited>>, ArgsLeft' = ArgsLeft PROVE FlagsMeanVisits'
  BY <1>f, FlagsFrame DEF HasError
<1>h. ASSUME NEW w \in Worker, pc[w] \in Calling
      PROVE  /\ todo[w] # <<>> /\ Child(w) \in Node
             /\ w = Main /\ cur[w] = NoNode => Mode[Child(w)] # "ERROR"
  BY <1>h, ChildType DEF Shape, ShapeOf, Hands, HandOf, PicksUp, Wanted
<1>a. ASSUME NEW w \in Worker, pc[w] \in Calling, Advance(w), UNCHANGED <<flags, visited, cur>>
      PROVE  FlagsMeanVisits'
  BY <1>a, <1>h, ArgsLeftAdvance, FlagsFrame
<1>1. CASE HandleRoot
  <2>1. cur[Main] = NoNode /\ todo[Main] # <<>> /\ cur' = cur /\ visited' = visited
    BY <1>1 DEF HandleRoot, At, Shape, ShapeOf, Calling
  <2>2. ArgsLeft = todo[Main] /\ ArgsLeft' = todo'[Main]
    BY <2>1 DEF ArgsLeft
  <2>3. HasError(todo[Main]) <=> Mode[Child(Main)] = "ERROR" \/ HasError(Tail(todo[Main]))
    BY <2>1, HasErrorTail DEF TypeOK, Child
  <2>4. had_error' = (had_error \/ Mode[Child(Main)] = "ERROR") /\ match_found' = match_found
    BY <1>1 DEF HandleRoot
  <2>5. todo' = todo \/ todo'[Main] = Tail(todo[Main])
    BY <1>1 DEF HandleRoot, Dispatch, Advance, TypeOK
  <2>6. had_error' \/ HasError(todo'[Main]) <=> had_error \/ HasError(todo[Main])
    <3>1. CASE todo' = todo
      BY <2>3, <2>4, <3>1
    <3>2. CASE todo'[Main] = Tail(todo[Main])
      BY <2>3, <2>4, <3>2
    <3> QED
      BY <2>5, <3>1, <3>2
  <2>7. had_error' \/ HasError(ArgsLeft)' <=> had_error \/ HasError(ArgsLeft)
    BY <2>2, <2>6 DEF HasError
  <2> QED
    BY <2>1, <2>4, <2>7 DEF FlagsMeanVisits, BadFile, Hit
<1>2. CASE MainStep /\ ~ HandleRoot
  BY <1>2, <1>f DEF MainStep, RunSearch, WalkAlone, StartSpawning, SpawnHelper, StopSpawning,
                    JoinAndExit, ArgsLeft
<1>3. ASSUME NEW w \in Worker, Open(w) PROVE FlagsMeanVisits'
  <2>1. cur[w] \in Node /\ Kind(cur[w]) = "DIR" /\ cur' = cur /\ pc[w] = "open"
    BY <1>3 DEF Open, At, Shape, ShapeOf, TypeOK, Hands, HandOf
  <2>2. \A y \in Node : Kind(y) = "REG" => (visited'[y] > 0 <=> visited[y] > 0)
    BY <1>3, <2>1, VisitedMore DEF Open
  <2>3. ArgsLeft' = ArgsLeft
    BY <1>3, <2>1, NodeAssumption DEF Open, ArgsLeft, TypeOK
  <2>4. HasError(ArgsLeft)' <=> HasError(ArgsLeft)
    BY <2>3 DEF HasError
  <2>5. UNCHANGED flags
    BY <1>3 DEF Open
  <2> QED
    BY <2>2, <2>4, <2>5 DEF FlagsMeanVisits, flags, BadFile, Hit
<1>4. ASSUME NEW w \in Worker, SearchFile(w) PROVE FlagsMeanVisits'
  <2>1. pc[w] = "search" /\ Child(w) \in Node /\ Kind(Child(w)) = "REG" /\ cur' = cur
    BY <1>4, <1>h DEF SearchFile, At, Calling, Hands, HandOf
  <2>2. HasError(ArgsLeft)' <=> HasError(ArgsLeft)
    BY <1>4, <1>h, <2>1, ArgsLeftAdvance DEF SearchFile, Calling
  <2>3. \A y \in Node : visited'[y] > 0 <=> visited[y] > 0 \/ y = Child(w)
    BY <1>4, <2>1, VisitedMore DEF SearchFile
  <2>4. /\ had_error' = (had_error \/ Child(w) \in BadFile)
        /\ match_found' = (match_found \/ Child(w) \in Hit)
    BY <1>4, <2>1 DEF SearchFile, BadFile, Hit
  <2>5. BadFile \subseteq Node /\ Hit \subseteq Node
    BY DEF BadFile, Hit
  <2>6. /\ (\E x \in BadFile : visited'[x] > 0)
             <=> (\E x \in BadFile : visited[x] > 0) \/ Child(w) \in BadFile
        /\ (\E x \in Hit : visited'[x] > 0)
             <=> (\E x \in Hit : visited[x] > 0) \/ Child(w) \in Hit
    BY <2>3, <2>5
  <2>7. /\ BadFile' = BadFile /\ Hit' = Hit
        /\ GivenError' <=> GivenError
    BY DEF BadFile, Hit, Kind, GivenError, HasError
  <2>8. /\ had_error \/ HasError(ArgsLeft) <=> GivenError \/ \E x \in BadFile : visited[x] > 0
        /\ match_found <=> \E x \in Hit : visited[x] > 0
    BY DEF FlagsMeanVisits
  <2>9. /\ had_error' \/ HasError(ArgsLeft)' <=> GivenError \/ \E x \in BadFile : visited'[x] > 0
        /\ match_found' <=> \E x \in Hit : visited'[x] > 0
    <3> HIDE DEF BadFile, Hit
    <3> QED
      BY <2>2, <2>4, <2>6, <2>8
  <2> QED
    BY <2>7, <2>9 DEF FlagsMeanVisits
<1>5. ASSUME NEW w \in Worker, ArenaAlloc(w) \/ UnlockDirq(w), Advance(w) PROVE FlagsMeanVisits'
  <2>1. pc[w] \in Calling
    BY <1>5 DEF ArenaAlloc, UnlockDirq, Advance, Empty, Goto, TypeOK, At, Calling
  <2>2. UNCHANGED <<flags, visited, cur>>
    BY <1>5 DEF ArenaAlloc, UnlockDirq
  <2> QED
    BY <1>5, <1>a, <2>1, <2>2
<1>6. ASSUME NEW w \in Worker, ReadEntry(w) PROVE FlagsMeanVisits'
  <2>1. cur[w] # NoNode /\ cur' = cur /\ \A v \in Worker \ {w} : todo'[v] = todo[v]
    BY <1>6, StepFrame DEF ReadEntry, Step, At, Shape, ShapeOf, OthersStay
  <2>2. ArgsLeft' = ArgsLeft
    BY <2>1 DEF ArgsLeft
  <2> QED
    BY <1>6, <1>f, <2>2 DEF ReadEntry
<1>7. ASSUME NEW w \in Worker, PopTop(w) \/ DecPending(w) PROVE FlagsMeanVisits'
  <2>1. todo[w] = <<>> /\ todo' = todo /\ \A v \in Worker \ {w} : cur'[v] = cur[v]
    BY <1>7 DEF PopTop, DecPending, At, Hands, HandOf, Calling, TypeOK
  <2>2. ArgsLeft' = ArgsLeft
    BY <2>1 DEF ArgsLeft
  <2> QED
    BY <1>7, <1>f, <2>2 DEF PopTop, DecPending
<1>8. ASSUME NEW w \in Worker, UNCHANGED <<flags, visited, cur, todo>> PROVE FlagsMeanVisits'
  BY <1>8, <1>f DEF ArgsLeft
<1>9. ASSUME NEW w \in Worker, Step(w) PROVE FlagsMeanVisits'
  BY <1>9, <1>3, <1>4, <1>5, <1>6, <1>7, <1>8
     DEF Step, EndOfDir, ArenaAlloc, LockDirq, PushTop, PushPending, UnlockDirq, Peek, TestPending, Flush
<1>10. CASE Terminating \/ UNCHANGED vars
  BY <1>10, <1>f DEF Terminating, vars, ArgsLeft
<1> QED
  BY <1>1, <1>2, <1>9, <1>10 DEF Next

\* The status is set by the step that ends main.
LEMMA StatusStep == IInv /\ StatusByMain /\ [Next]_vars => StatusByMain'
<1> SUFFICES ASSUME IInv, StatusByMain, [Next]_vars PROVE StatusByMain'
  OBVIOUS
<1>0. TypeOK /\ Main \in Worker
  BY NThreadsAssumption DEF IInv, Worker, Main
<1>1. CASE JoinAndExit
  BY <1>0, <1>1 DEF JoinAndExit, Goto, TypeOK, StatusByMain
<1>2. CASE MainStep /\ ~ JoinAndExit
  <2>1. pc'[Main] = pc[Main] \/ pc[Main] # "exited"
    BY <1>0, <1>2, NThreadsAssumption
       DEF MainStep, HandleRoot, RunSearch, WalkAlone, StartSpawning, SpawnHelper, StopSpawning, At, TypeOK, Main
  <2>2. status' = status
    BY <1>2 DEF MainStep, HandleRoot, RunSearch, WalkAlone, StartSpawning, SpawnHelper, StopSpawning, boot
  <2> QED
    BY <2>1, <2>2 DEF StatusByMain
<1>3. ASSUME NEW w \in Worker, Step(w) PROVE StatusByMain'
  <2>1. status' = status /\ pc[w] # "exited"
    BY <1>3 DEF Step, Open, ReadEntry, EndOfDir, SearchFile, ArenaAlloc, LockDirq, PushTop, PushPending,
                PopTop, UnlockDirq, Peek, TestPending, DecPending, Flush, At, boot
  <2>2. pc[Main] = "exited" => pc'[Main] = pc[Main]
    BY <1>0, <1>3, <2>1, StepFrame DEF OthersStay
  <2> QED
    BY <2>1, <2>2 DEF StatusByMain
<1>4. CASE Terminating \/ UNCHANGED vars
  BY <1>4 DEF Terminating, vars, boot, StatusByMain
<1> QED
  BY <1>1, <1>2, <1>3, <1>4 DEF Next

\* The invariant of the refinement holds at the start.
LEMMA InitRInv == Init => RInv
<1> SUFFICES ASSUME Init PROVE RInv
  OBVIOUS
<1>0. IInv /\ Main \in Worker
  BY InitIInv, NThreadsAssumption DEF Worker, Main
<1>1. \A w \in Worker : /\ pc[w] = (IF w = Main THEN "root" ELSE "none") /\ cur[w] = NoNode
                        /\ todo[w] = IF w = Main THEN Roots ELSE <<>>
  BY DEF Init
<1>2. Hands
  BY <1>1 DEF Hands, HandOf, Calling
<1>3. DirsQueued
  BY DEF Init, DirsQueued
<1>4. FlagsMeanVisits
  <2>1. ArgsLeft = Roots
    BY <1>0, <1>1 DEF ArgsLeft
  <2>2. \A x \in Node : ~ (visited[x] > 0)
    BY DEF Init
  <2> QED
    BY <2>1, <2>2 DEF Init, FlagsMeanVisits, GivenError, BadFile, Hit
<1>5. StatusByMain
  BY DEF Init, StatusByMain
<1> QED
  BY <1>0, <1>2, <1>3, <1>4, <1>5 DEF RInv

\* Every step of the walker keeps RInv.
LEMMA NextRInv == RInv /\ [Next]_vars => RInv'
  BY NextIInv, HandsStep, DirsQueuedStep, FlagsStep, StatusStep DEF RInv

\* The flags are what the visits call for, whatever the order of the threads, and
\* a thread has in hand what its program point expects.
THEOREM RefinementInvariant == Spec => []RInv
  BY InitRInv, NextRInv, PTL DEF Spec
-----------------------------------------------------------------------------
(* The refinement of TreeSearch: where the findings wait.                  *)

\* How many findings of x thread w has not dispatched.
Share(w, x) == IF PicksUp(w, x) THEN Times(x, Rest(w)) ELSE 0

\* What is not dispatched is a sequence, and its places are finite sets; every part
\* of Waiting is a number.
CountsAreNumbers ==
  \A x \in Node :
    /\ \A w \in Worker : Rest(w) \in Seq(Node)
    /\ Undispatched(x) \in [Worker -> SUBSET Nat]
    /\ \A w \in Worker : /\ IsFiniteSet(Undispatched(x)[w])
                         /\ Cardinality(Undispatched(x)[w]) = Share(w, x)
                         /\ Share(w, x) \in Nat
    /\ Total(Undispatched(x)) \in Nat /\ Times(x, dirq) \in Nat
    /\ IsFiniteSet(JustPopped(x)) /\ Cardinality(JustPopped(x)) \in Nat

LEMMA CountsType == TypeOK /\ Shape => CountsAreNumbers
<1> SUFFICES ASSUME TypeOK, Shape, NEW x \in Node
    PROVE  /\ \A w \in Worker : Rest(w) \in Seq(Node)
           /\ Undispatched(x) \in [Worker -> SUBSET Nat]
           /\ \A w \in Worker : /\ IsFiniteSet(Undispatched(x)[w])
                                /\ Cardinality(Undispatched(x)[w]) = Share(w, x)
                                /\ Share(w, x) \in Nat
           /\ Total(Undispatched(x)) \in Nat /\ Times(x, dirq) \in Nat
           /\ IsFiniteSet(JustPopped(x)) /\ Cardinality(JustPopped(x)) \in Nat
  BY DEF CountsAreNumbers
<1>1. IsFiniteSet(Worker)
  BY NThreadsAssumption, FS_Interval DEF Worker
<1>2. ASSUME NEW w \in Worker PROVE Rest(w) \in Seq(Node)
  <2>1. pc[w] \in {"push_pending", "push_unlock"} => todo[w] # <<>>
    BY DEF Shape, ShapeOf, Calling
  <2>2. todo[w] \in Seq(Node)
    BY DEF TypeOK
  <2> QED
    BY <2>1, <2>2, HeadTailProperties DEF Rest
<1>3. ASSUME NEW w \in Worker
      PROVE  /\ Places(x, Rest(w)) \in SUBSET Nat /\ IsFiniteSet(Places(x, Rest(w)))
             /\ Times(x, Rest(w)) \in Nat
  <2>1. DOMAIN Rest(w) = 1 .. Len(Rest(w))
    BY <1>2, LenProperties
  <2>2. Places(x, Rest(w)) \in SUBSET Nat
    BY <2>1 DEF Places
  <2> QED
    BY <1>2, <2>2, TimesType
<1>4. ASSUME NEW w \in Worker
      PROVE  /\ Undispatched(x)[w] \in SUBSET Nat /\ IsFiniteSet(Undispatched(x)[w])
             /\ Cardinality(Undispatched(x)[w]) = Share(w, x) /\ Share(w, x) \in Nat
  BY <1>3, FS_EmptySet DEF Undispatched, Share, Times
<1>5. Undispatched(x) \in [Worker -> SUBSET Nat]
  BY <1>4 DEF Undispatched
<1>6. Total(Undispatched(x)) \in Nat
  BY <1>1, <1>4, <1>5, TotalType
<1>7. Times(x, dirq) \in Nat
  BY TimesType DEF TypeOK
<1>8. IsFiniteSet(JustPopped(x)) /\ Cardinality(JustPopped(x)) \in Nat
  BY <1>1, FS_Subset, FS_CardinalityType DEF JustPopped
<1> QED
  BY <1>2, <1>4, <1>5, <1>6, <1>7, <1>8

\* They still are after a step.
LEMMA CountsTypeNext == (TypeOK /\ Shape)' => CountsAreNumbers'
  BY CountsType, PTL

\* A step of thread w changes the number of undispatched findings by what it does
\* to the share of w.
LEMMA UndispatchedStep ==
  ASSUME TypeOK, Shape, TypeOK', Shape', NEW w \in Worker, NEW x \in Node,
         OthersStay(w)
  PROVE  Total(Undispatched(x))' + Share(w, x) = Total(Undispatched(x)) + Share(w, x)'
<1> DEFINE P == Undispatched(x)
           Q == Undispatched(x)'
<1>0. IsFiniteSet(Worker)
  BY NThreadsAssumption, FS_Interval DEF Worker
<1>1. /\ P \in [Worker -> SUBSET Nat] /\ \A v \in Worker : IsFiniteSet(P[v])
      /\ Cardinality(P[w]) = Share(w, x)
  BY CountsType DEF CountsAreNumbers
<1>2. /\ Q \in [Worker -> SUBSET Nat] /\ \A v \in Worker : IsFiniteSet(Q[v])
      /\ Cardinality(Q[w]) = Share(w, x)'
  BY CountsTypeNext DEF CountsAreNumbers
<1>3. \A v \in Worker \ {w} : P[v] = Q[v]
  BY DEF Undispatched, PicksUp, Rest, OthersStay
<1>5. Total(Undispatched(x))' = Total(Q)
  BY DEF Total
<1> HIDE DEF P, Q
<1>4. PICK p, q \in [Worker -> SUBSET Nat] : p = P /\ q = Q
  BY <1>1, <1>2
<1>6. /\ \A v \in Worker : IsFiniteSet(p[v])
      /\ \A v \in Worker : IsFiniteSet(q[v])
      /\ \A v \in Worker \ {w} : p[v] = q[v]
  BY <1>1, <1>2, <1>3, <1>4
<1>7. Total(q) + Cardinality(p[w]) = Total(p) + Cardinality(q[w])
  BY <1>0, <1>6, TotalChange
<1> QED
  BY <1>1, <1>2, <1>4, <1>5, <1>7 DEF P

\* A step of thread w changes what waits by what it does to the share of w, to the
\* queue and to what has just been popped.
LEMMA WaitingStep ==
  ASSUME TypeOK, Shape, TypeOK', Shape', NEW w \in Worker, NEW x \in Node,
         OthersStay(w)
  PROVE  /\ Waiting[x] \in Nat /\ Waiting'[x] \in Nat
         /\ Share(w, x) \in Nat /\ Share(w, x) <= Waiting[x] /\ Share(w, x)' \in Nat
         /\ Times(x, dirq) \in Nat /\ Times(x, dirq)' \in Nat
         /\ Cardinality(JustPopped(x)) \in Nat /\ Cardinality(JustPopped(x)) <= Waiting[x]
         /\ Cardinality(JustPopped(x))' \in Nat
         /\ Waiting'[x] + Share(w, x) + Times(x, dirq) + Cardinality(JustPopped(x))
            = Waiting[x] + Share(w, x)' + Times(x, dirq)' + Cardinality(JustPopped(x))'
<1>1. Total(Undispatched(x))' + Share(w, x) = Total(Undispatched(x)) + Share(w, x)'
  BY UndispatchedStep
<1>2. /\ Share(w, x) \in Nat /\ Total(Undispatched(x)) \in Nat
      /\ Times(x, dirq) \in Nat /\ Cardinality(JustPopped(x)) \in Nat
  BY CountsType DEF CountsAreNumbers
<1>3. /\ Share(w, x)' \in Nat /\ Total(Undispatched(x))' \in Nat
      /\ Times(x, dirq)' \in Nat /\ Cardinality(JustPopped(x))' \in Nat
  BY CountsTypeNext DEF CountsAreNumbers
<1>4. /\ Waiting[x] = Total(Undispatched(x)) + Times(x, dirq) + Cardinality(JustPopped(x))
      /\ Waiting'[x] = Total(Undispatched(x))' + Times(x, dirq)' + Cardinality(JustPopped(x))'
  BY DEF Waiting
<1>5. Share(w, x) <= Total(Undispatched(x))
  <2>1. PICK P \in [Worker -> SUBSET Nat] : P = Undispatched(x)
    BY CountsType DEF CountsAreNumbers
  <2>2. \A v \in Worker : IsFiniteSet(P[v])
    BY <2>1, CountsType DEF CountsAreNumbers
  <2>3. IsFiniteSet(Worker)
    BY NThreadsAssumption, FS_Interval DEF Worker
  <2>4. /\ Total([P EXCEPT ![w] = {}]) \in Nat
        /\ Total(P) = Total([P EXCEPT ![w] = {}]) + Cardinality(P[w])
    BY <2>2, <2>3, TotalSplit
  <2>5. Cardinality(P[w]) = Share(w, x)
    BY <2>1, CountsType DEF CountsAreNumbers
  <2> QED
    BY <1>2, <2>1, <2>4, <2>5
<1> QED
  BY <1>1, <1>2, <1>3, <1>4, <1>5

\* Waiting is a function on paths.
LEMMA WaitingFunction ==
  /\ Waiting = [x \in Node |-> Waiting[x]]
  /\ Waiting' = [x \in Node |-> Waiting'[x]]
  BY DEF Waiting

\* Nothing undispatched, nothing to share.
LEMMA ShareNone ==
  ASSUME NEW w \in Worker, NEW x \in Node, Rest(w) = <<>>
  PROVE  Share(w, x) = 0
  BY TimesEmpty DEF Share

\* Nor after a step.
LEMMA ShareNoneNext ==
  ASSUME NEW w \in Worker, NEW x \in Node, Rest(w)' = <<>>
  PROVE  Share(w, x)' = 0
<1>1. Times(x, Rest(w)') = 0
  BY TimesEmpty
<1> QED
  BY <1>1 DEF Share

\* The same sequence in the same directory is the same share.
LEMMA ShareSame ==
  ASSUME NEW w \in Worker, NEW x \in Node, Rest(w)' = Rest(w), cur'[w] = cur[w]
  PROVE  Share(w, x)' = Share(w, x)
  BY DEF Share, PicksUp, Times, Places

\* The path in hand dispatched, passed over or given up is one less, if wanted.
LEMMA ShareTail ==
  ASSUME TypeOK, NEW w \in Worker, NEW x \in Node, todo[w] # <<>>,
         Rest(w) = todo[w], Rest(w)' = Tail(todo[w]), cur'[w] = cur[w]
  PROVE  Share(w, x) = Share(w, x)' + (IF x = Child(w) /\ PicksUp(w, x) THEN 1 ELSE 0)
<1>1. Times(x, todo[w]) = Times(x, Tail(todo[w])) + (IF Child(w) = x THEN 1 ELSE 0)
  BY TimesTail DEF TypeOK, Child
<1>2. Times(x, Tail(todo[w])) \in Nat
  BY HeadTailProperties, TimesType DEF TypeOK
<1>3. /\ Share(w, x) = IF PicksUp(w, x) THEN Times(x, todo[w]) ELSE 0
      /\ Share(w, x)' = IF PicksUp(w, x) THEN Times(x, Tail(todo[w])) ELSE 0
  BY DEF Share, PicksUp, Times, Places
<1> QED
  BY <1>1, <1>2, <1>3

\* What Advance does to Rest, wherever the thread comes from.
LEMMA RestAdvance ==
  ASSUME TypeOK, NEW w \in Worker, Advance(w)
  PROVE  Rest(w)' = Tail(todo[w])
  BY DEF TypeOK, Advance, Goto, Rest

\* A thread that has popped nothing is not among those that just have.
LEMMA PoppedSame ==
  ASSUME NEW w \in Worker, NEW x \in Node,
         OthersStay(w),
         cur[w] # x \/ pc[w] \notin {"pop_unlock", "open"},
         cur'[w] # x \/ pc'[w] \notin {"pop_unlock", "open"}
  PROVE  JustPopped(x)' = JustPopped(x)
  BY DEF JustPopped, OthersStay

\* A step that moves no finding is no step of the abstract search.
LEMMA NoMove ==
  ASSUME TypeOK, Shape, TypeOK', Shape', NEW w \in Worker,
         OthersStay(w), dirq' = dirq,
         \A x \in Node : Share(w, x)' = Share(w, x) /\ JustPopped(x)' = JustPopped(x)
  PROVE  Waiting' = Waiting
<1>1. ASSUME NEW x \in Node PROVE Waiting'[x] = Waiting[x]
  <2>1. /\ Share(w, x)' = Share(w, x) /\ Times(x, dirq)' = Times(x, dirq)
        /\ Cardinality(JustPopped(x))' = Cardinality(JustPopped(x))
    BY DEF Times, Places
  <2>2. /\ Waiting[x] \in Nat /\ Waiting'[x] \in Nat /\ Share(w, x) \in Nat
        /\ Times(x, dirq) \in Nat /\ Cardinality(JustPopped(x)) \in Nat
        /\ Waiting'[x] + Share(w, x) + Times(x, dirq) + Cardinality(JustPopped(x))
           = Waiting[x] + Share(w, x)' + Times(x, dirq)' + Cardinality(JustPopped(x))'
    BY WaitingStep
  <2> QED
    BY <2>1, <2>2
<1> QED
  BY <1>1, WaitingFunction

\* Passing over a path moves no finding.
LEMMA DispatchMovesNothing ==
  ASSUME TypeOK, Shape, TypeOK', Shape', NEW w \in Worker, todo[w] # <<>>, UNCHANGED cur,
         pc[w] = (IF cur[w] = NoNode THEN "root" ELSE "entry"),
         Dispatch(w, IF cur[w] = NoNode THEN Mode[Child(w)] ELSE EntryKind(cur[w], Child(w))),
         NEW x \in Node
  PROVE  Share(w, x)' = Share(w, x)
<1> DEFINE kind == IF cur[w] = NoNode THEN Mode[Child(w)] ELSE EntryKind(cur[w], Child(w))
<1>1. CASE UNCHANGED todo /\ (Goto(w, "alloc") \/ Goto(w, "search"))
  <2>1. Rest(w)' = Rest(w)
    BY <1>1 DEF Goto, Rest, TypeOK
  <2> QED
    BY <2>1, ShareSame
<1>2. CASE ~ (kind = "DIR" /\ opt_r) /\ kind # "REG" /\ Advance(w)
  <2>1. Rest(w) = todo[w] /\ Rest(w)' = Tail(todo[w])
    BY <1>2, RestAdvance DEF Rest
  <2>2. ~ PicksUp(w, Child(w))
    BY <1>2 DEF PicksUp, Wanted
  <2>3. Share(w, x)' \in Nat
    BY CountsTypeNext DEF CountsAreNumbers
  <2> QED
    BY <2>1, <2>2, <2>3, ShareTail
<1> QED
  BY <1>1, <1>2 DEF Dispatch

\* No step that moves no finding, visits nothing, gives nothing up and reports nothing.
Stutter == UNCHANGED <<Waiting, visited, lost, status>>

\* A finding that waits nowhere any more, in the hand of w, is dealt with.
LEMMA Dealt ==
  ASSUME TypeOK, Shape, TypeOK', Shape', NEW w \in Worker, NEW y \in Node,
         OthersStay(w),
         dirq' = dirq,
         \A x \in Node :
            /\ JustPopped(x)' = JustPopped(x)
            /\ Share(w, x) = Share(w, x)' + (IF x = y THEN 1 ELSE 0)
  PROVE  Waiting' = [Waiting EXCEPT ![y] = @ - 1] /\ Waiting[y] > 0
<1>1. ASSUME NEW x \in Node
      PROVE  /\ Waiting'[x] = Waiting[x] - (IF x = y THEN 1 ELSE 0)
             /\ x = y => Waiting[x] > 0
  <2>1. /\ Share(w, x) = Share(w, x)' + (IF x = y THEN 1 ELSE 0)
        /\ Times(x, dirq)' = Times(x, dirq)
        /\ Cardinality(JustPopped(x))' = Cardinality(JustPopped(x))
    BY DEF Times, Places
  <2>2. /\ Waiting[x] \in Nat /\ Waiting'[x] \in Nat
        /\ Share(w, x) \in Nat /\ Share(w, x) <= Waiting[x] /\ Share(w, x)' \in Nat
        /\ Times(x, dirq) \in Nat /\ Cardinality(JustPopped(x)) \in Nat
        /\ Waiting'[x] + Share(w, x) + Times(x, dirq) + Cardinality(JustPopped(x))
           = Waiting[x] + Share(w, x)' + Times(x, dirq)' + Cardinality(JustPopped(x))'
    BY WaitingStep
  <2> QED
    BY <2>1, <2>2
<1>2. Waiting'[y] = Waiting[y] - 1 /\ \A x \in Node \ {y} : Waiting'[x] = Waiting[x]
  <2>1. \A x \in Node : Waiting[x] \in Nat /\ Waiting'[x] \in Nat
    BY WaitingStep
  <2> QED
    BY <1>1, <2>1
<1> QED
  BY <1>1, <1>2, WaitingFunction

\* open() of a directory that was popped is a visit that finds its entries.
LEMMA OpenVisits ==
  ASSUME RInv, RInv', NEW w \in Worker, Open(w)
  PROVE  TS!Visit(cur[w])
<1>0. TypeOK /\ Shape /\ TypeOK' /\ Shape' /\ Hands /\ OthersStay(w)
  BY StepFrame DEF RInv, IInv, Step
<1> DEFINE d == cur[w]
<1>1. /\ pc[w] = "open" /\ d \in Node /\ cur' = cur /\ todo[w] = <<>> /\ Kind(d) = "DIR"
      /\ dirq' = dirq
  BY <1>0 DEF Open, At, Shape, ShapeOf, TypeOK, Hands, HandOf, Calling, queue
<1>2. /\ pc'[w] \in {"dec", "entry"}
      /\ todo'[w] = IF d \in Unreadable THEN <<>> ELSE Entries[d]
  BY <1>0, <1>1 DEF Open, Goto, TypeOK
<1>3. ASSUME NEW x \in Node
      PROVE  Share(w, x) = 0 /\ Share(w, x)' = ChildItems[d][x]
  <2>1. Rest(w) = <<>> /\ Rest(w)' = IF d \in Unreadable THEN <<>> ELSE Entries[d]
    BY <1>1, <1>2 DEF Rest
  <2>2. Share(w, x) = 0
    BY <2>1, ShareNone
  <2>3. CASE d \in Unreadable
    BY <1>1, <2>1, <2>2, <2>3, ShareNoneNext DEF ChildItems
  <2>4. CASE d \notin Unreadable
    <3>1. Share(w, x)' = IF Wanted(EntryKind(d, x)) THEN Times(x, Entries[d]) ELSE 0
      BY <1>1, <2>1, <2>4, NodeAssumption DEF Share, PicksUp, Times, Places
    <3> QED
      BY <1>1, <2>2, <2>4, <3>1 DEF ChildItems
  <2> QED
    BY <2>3, <2>4
<1>4. ASSUME NEW x \in Node
      PROVE  /\ x = d => w \in JustPopped(x)
             /\ Cardinality(JustPopped(x))' = Cardinality(JustPopped(x)) - (IF x = d THEN 1 ELSE 0)
  <2>1. IsFiniteSet(JustPopped(x)) /\ Cardinality(JustPopped(x)) \in Nat
    BY <1>0, CountsType DEF CountsAreNumbers
  <2>2. CASE x = d
    <3>1. w \in JustPopped(x) /\ JustPopped(x)' = JustPopped(x) \ {w}
      BY <1>0, <1>1, <1>2, <2>2 DEF JustPopped, OthersStay
    <3> QED
      BY <2>1, <2>2, <3>1, FS_RemoveElement
  <2>3. CASE x # d
    <3>1. JustPopped(x)' = JustPopped(x)
      BY <1>0, <1>1, <2>3, PoppedSame DEF OthersStay
    <3> QED
      BY <2>1, <2>3, <3>1
  <2> QED
    BY <2>2, <2>3
<1>5. ASSUME NEW x \in Node
      PROVE  /\ Waiting'[x] = Waiting[x] - (IF x = d THEN 1 ELSE 0) + ChildItems[d][x]
             /\ x = d => Waiting[x] > 0
             /\ Waiting[x] \in Nat
  <2>1. /\ Share(w, x) = 0 /\ Share(w, x)' = ChildItems[d][x]
        /\ Times(x, dirq)' = Times(x, dirq)
        /\ Cardinality(JustPopped(x))' = Cardinality(JustPopped(x)) - (IF x = d THEN 1 ELSE 0)
    BY <1>1, <1>3, <1>4 DEF Times, Places
  <2>2. /\ Waiting[x] \in Nat /\ Waiting'[x] \in Nat
        /\ Share(w, x)' \in Nat /\ Times(x, dirq) \in Nat
        /\ Cardinality(JustPopped(x)) \in Nat /\ Cardinality(JustPopped(x)) <= Waiting[x]
        /\ Cardinality(JustPopped(x))' \in Nat
        /\ Waiting'[x] + Share(w, x) + Times(x, dirq) + Cardinality(JustPopped(x))
           = Waiting[x] + Share(w, x)' + Times(x, dirq)' + Cardinality(JustPopped(x))'
    BY <1>0, WaitingStep
  <2>3. x = d => Cardinality(JustPopped(x)) > 0
    BY <2>1, <2>2
  <2> QED
    BY <2>1, <2>2, <2>3
<1>6. Waiting' = [x \in Node |-> TS!Without(d)[x] + ChildItems[d][x]]
  <2>1. ASSUME NEW x \in Node
        PROVE  TS!Without(d)[x] = Waiting[x] - (IF x = d THEN 1 ELSE 0)
    BY <1>5, WaitingFunction DEF TS!Without
  <2> QED
    BY <1>5, <2>1, WaitingFunction
<1>7. visited' = [visited EXCEPT ![d] = @ + 1] /\ UNCHANGED <<lost, status>>
  BY DEF Open, boot
<1> QED
  BY <1>1, <1>5, <1>6, <1>7 DEF TS!Visit

\* search_file is a visit that finds nothing.
LEMMA SearchVisits ==
  ASSUME RInv, RInv', NEW w \in Worker, SearchFile(w)
  PROVE  TS!Visit(Child(w)) /\ Child(w) \in Node
<1>0. TypeOK /\ Shape /\ TypeOK' /\ Shape' /\ Hands /\ OthersStay(w)
  BY StepFrame DEF RInv, IInv, Step
<1> DEFINE f == Child(w)
<1>1. /\ pc[w] = "search" /\ todo[w] # <<>> /\ cur' = cur /\ dirq' = dirq
      /\ Advance(w) /\ Kind(f) = "REG" /\ PicksUp(w, f)
  BY <1>0 DEF SearchFile, At, Shape, ShapeOf, Hands, HandOf, Calling, queue
<1>2. f \in Node
  BY <1>0, <1>1, ChildType
<1>3. Rest(w) = todo[w] /\ Rest(w)' = Tail(todo[w]) /\ pc'[w] \in {"root", "entry"}
  BY <1>0, <1>1, RestAdvance DEF Rest, Advance, Goto, TypeOK
<1>4. \A x \in Node : /\ JustPopped(x)' = JustPopped(x)
                      /\ Share(w, x) = Share(w, x)' + (IF x = f THEN 1 ELSE 0)
  BY <1>0, <1>1, <1>3, PoppedSame, ShareTail
<1>5. Waiting' = [Waiting EXCEPT ![f] = @ - 1] /\ Waiting[f] > 0
  <2> HIDE DEF f
  <2> QED
    BY <1>0, <1>1, <1>2, <1>4, Dealt
<1>6. Waiting' = [x \in Node |-> TS!Without(f)[x] + ChildItems[f][x]]
  <2>1. \A x \in Node : ChildItems[f][x] = 0
    BY <1>1, <1>2 DEF ChildItems
  <2>2. \A x \in Node : TS!Without(f)[x] = Waiting'[x]
    BY <1>5 DEF TS!Without
  <2>3. \A x \in Node : Waiting'[x] \in Nat
    BY <1>0, WaitingStep
  <2>4. \A x \in Node : Waiting'[x] = TS!Without(f)[x] + ChildItems[f][x]
    BY <2>1, <2>2, <2>3
  <2> QED
    BY <2>4, WaitingFunction
<1>7. visited' = [visited EXCEPT ![f] = @ + 1] /\ UNCHANGED <<lost, status>>
  BY DEF SearchFile, boot
<1> QED
  BY <1>2, <1>5, <1>6, <1>7 DEF TS!Visit

\* A directory that enqueue_dir drops is given up.
LEMMA DropGivesUp ==
  ASSUME RInv, RInv', NEW w \in Worker, Forget(w), OthersStay(w),
         todo[w] # <<>>, PicksUp(w, Child(w)), Rest(w) = todo[w], Rest(w)' = Tail(todo[w]),
         pc[w] \notin {"pop_unlock", "open"}, pc'[w] \notin {"pop_unlock", "open"},
         UNCHANGED <<dirq, cur, visited, status>>
  PROVE  TS!GiveUp(Child(w)) /\ Child(w) \in Node
<1>0. TypeOK /\ Shape /\ TypeOK' /\ Shape'
  BY DEF RInv, IInv
<1>1. Child(w) \in Node
  BY <1>0, ChildType
<1>2. \A x \in Node : /\ JustPopped(x)' = JustPopped(x)
                      /\ Share(w, x) = Share(w, x)' + (IF x = Child(w) THEN 1 ELSE 0)
  BY <1>0, PoppedSame, ShareTail
<1>3. Waiting' = [Waiting EXCEPT ![Child(w)] = @ - 1] /\ Waiting[Child(w)] > 0
  BY <1>0, <1>1, <1>2, Dealt
<1> QED
  BY <1>1, <1>3 DEF TS!GiveUp, TS!Without, Forget

\* arena_alloc gives the directory up or leaves it in hand.
LEMMA AllocImplements ==
  ASSUME RInv, RInv', NEW w \in Worker, ArenaAlloc(w)
  PROVE  (\E x \in Node : TS!GiveUp(x)) \/ Stutter
<1>0. TypeOK /\ Shape /\ TypeOK' /\ Shape' /\ Hands /\ OthersStay(w)
  BY StepFrame DEF RInv, IInv, Step
<1>1. /\ pc[w] = "alloc" /\ todo[w] # <<>> /\ PicksUp(w, Child(w)) /\ Rest(w) = todo[w]
      /\ UNCHANGED <<dirq, cur, visited, status>>
  BY <1>0 DEF ArenaAlloc, At, Shape, ShapeOf, Hands, HandOf, Calling, Rest, boot
<1>2. CASE Advance(w) /\ Forget(w)
  <2>1. Rest(w)' = Tail(todo[w]) /\ pc'[w] \in {"root", "entry"}
    BY <1>0, <1>2, RestAdvance DEF Advance, Goto, TypeOK
  <2> QED
    BY <1>0, <1>1, <1>2, <2>1, DropGivesUp
<1>3. CASE Goto(w, "push") /\ UNCHANGED <<todo, lost>>
  <2>1. Rest(w)' = Rest(w) /\ pc'[w] = "push"
    BY <1>0, <1>1, <1>3 DEF Goto, Rest, TypeOK
  <2>2. \A x \in Node : Share(w, x)' = Share(w, x) /\ JustPopped(x)' = JustPopped(x)
    BY <1>0, <1>1, <2>1, ShareSame, PoppedSame
  <2> QED
    BY <1>0, <1>1, <1>3, <2>2, NoMove DEF Stutter
<1> QED
  BY <1>2, <1>3 DEF ArenaAlloc

\* dirq_push gives the directory up or moves it from the hand to the queue.
LEMMA PushImplements ==
  ASSUME RInv, RInv', NEW w \in Worker, PushTop(w)
  PROVE  (\E x \in Node : TS!GiveUp(x)) \/ Stutter
<1>0. TypeOK /\ Shape /\ TypeOK' /\ Shape' /\ Hands /\ OthersStay(w)
  BY StepFrame DEF RInv, IInv, Step
<1>1. /\ pc[w] = "push_top" /\ todo[w] # <<>> /\ PicksUp(w, Child(w)) /\ Rest(w) = todo[w]
      /\ UNCHANGED <<todo, cur, visited, status>>
  BY <1>0 DEF PushTop, At, Shape, ShapeOf, Hands, HandOf, Calling, Rest, boot
<1>2. pc'[w] \in {"push_unlock", "push_pending"} /\ Rest(w)' = Tail(todo[w])
  BY <1>0, <1>1 DEF PushTop, Goto, TypeOK, Rest
<1>3. CASE Forget(w) /\ UNCHANGED dirq
  BY <1>0, <1>1, <1>2, <1>3, DropGivesUp
<1>4. CASE UNCHANGED lost /\ dirq' = Append(dirq, Child(w))
  <2>1. Child(w) \in Node
    BY <1>0, <1>1, ChildType
  <2>2. ASSUME NEW x \in Node PROVE Waiting'[x] = Waiting[x]
    <3>1. Share(w, x) = Share(w, x)' + (IF x = Child(w) THEN 1 ELSE 0)
      BY <1>0, <1>1, <1>2, ShareTail
    <3>2. Times(x, dirq)' = Times(x, dirq) + (IF x = Child(w) THEN 1 ELSE 0)
      <4>1. Times(x, Append(dirq, Child(w))) = Times(x, dirq) + (IF Child(w) = x THEN 1 ELSE 0)
        BY <1>0, <2>1, TimesAppend DEF TypeOK
      <4>2. Times(x, dirq)' = Times(x, dirq')
        BY DEF Times, Places
      <4> QED
        BY <1>4, <4>1, <4>2
    <3>3. JustPopped(x)' = JustPopped(x)
      BY <1>0, <1>1, <1>2, PoppedSame
    <3>4. Cardinality(JustPopped(x))' = Cardinality(JustPopped(x))
      BY <3>3
    <3>5. /\ Waiting[x] \in Nat /\ Waiting'[x] \in Nat /\ Share(w, x) \in Nat /\ Share(w, x)' \in Nat
          /\ Times(x, dirq) \in Nat /\ Cardinality(JustPopped(x)) \in Nat
          /\ Waiting'[x] + Share(w, x) + Times(x, dirq) + Cardinality(JustPopped(x))
             = Waiting[x] + Share(w, x)' + Times(x, dirq)' + Cardinality(JustPopped(x))'
      BY <1>0, WaitingStep
    <3> QED
      BY <3>1, <3>2, <3>4, <3>5
  <2>3. Waiting' = Waiting
    BY <2>2, WaitingFunction
  <2> QED
    BY <1>1, <1>4, <2>3 DEF Stutter
<1> QED
  BY <1>3, <1>4 DEF PushTop

\* dirq_pop moves a directory from the queue to the hand, or nothing.
LEMMA PopImplements ==
  ASSUME RInv, RInv', NEW w \in Worker, PopTop(w)
  PROVE  Stutter
<1>0. TypeOK /\ Shape /\ TypeOK' /\ Shape' /\ Hands /\ OthersStay(w)
  BY StepFrame DEF RInv, IInv, Step
<1>1. /\ pc[w] = "pop_top" /\ pc'[w] = "pop_unlock" /\ todo[w] = <<>> /\ todo' = todo
      /\ cur[w] = NoNode /\ UNCHANGED <<visited, lost, status>>
  BY <1>0 DEF PopTop, At, Goto, TypeOK, Shape, ShapeOf, Hands, HandOf, Calling, boot
<1>2. \A x \in Node : Share(w, x) = 0 /\ Share(w, x)' = 0
  BY <1>1, ShareNone, ShareNoneNext DEF Rest
<1>3. CASE UNCHANGED <<dirq, cur>>
  <2>1. \A x \in Node : JustPopped(x)' = JustPopped(x)
    BY <1>0, <1>1, <1>3, NodeAssumption, PoppedSame
  <2>2. Waiting' = Waiting
    BY <1>0, <1>2, <1>3, <2>1, NoMove
  <2> QED
    BY <1>1, <2>2 DEF Stutter
<1>4. CASE dirq # <<>>
  <2> DEFINE d == dirq[Len(dirq)]
  <2>1. /\ d \in Node /\ cur'[w] = d /\ dirq' = SubSeq(dirq, 1, Len(dirq) - 1)
    <3>1. Len(dirq) \in Nat \ {0}
      BY <1>0, <1>4, EmptySeq, LenProperties DEF TypeOK
    <3>2. d \in Node
      BY <1>0, <3>1, ElementOfSeq DEF TypeOK
    <3> QED
      BY <1>0, <1>4, <3>2 DEF PopTop, TypeOK
  <2>2. ASSUME NEW x \in Node PROVE Waiting'[x] = Waiting[x]
    <3>1. Times(x, dirq) = Times(x, dirq)' + (IF x = d THEN 1 ELSE 0)
      <4>1. Times(x, dirq) = Times(x, SubSeq(dirq, 1, Len(dirq) - 1)) + (IF d = x THEN 1 ELSE 0)
        BY <1>0, <1>4, TimesFront DEF TypeOK
      <4>2. Times(x, dirq)' = Times(x, dirq')
        BY DEF Times, Places
      <4> QED
        BY <2>1, <4>1, <4>2
    <3>2. Cardinality(JustPopped(x))' = Cardinality(JustPopped(x)) + (IF x = d THEN 1 ELSE 0)
      <4>1. IsFiniteSet(JustPopped(x)) /\ Cardinality(JustPopped(x)) \in Nat
        BY <1>0, CountsType DEF CountsAreNumbers
      <4>2. CASE x = d
        <5>1. w \notin JustPopped(x) /\ JustPopped(x)' = JustPopped(x) \cup {w}
          BY <1>0, <1>1, <2>1, <4>2 DEF JustPopped, OthersStay
        <5> QED
          BY <4>1, <4>2, <5>1, FS_AddElement
      <4>3. CASE x # d
        <5>1. JustPopped(x)' = JustPopped(x)
          BY <1>0, <1>1, <2>1, <4>3, PoppedSame
        <5> QED
          BY <4>1, <4>3, <5>1
      <4> QED
        BY <4>2, <4>3
    <3>3. /\ Waiting[x] \in Nat /\ Waiting'[x] \in Nat
          /\ Times(x, dirq) \in Nat /\ Times(x, dirq)' \in Nat
          /\ Cardinality(JustPopped(x)) \in Nat
          /\ Waiting'[x] + Share(w, x) + Times(x, dirq) + Cardinality(JustPopped(x))
             = Waiting[x] + Share(w, x)' + Times(x, dirq)' + Cardinality(JustPopped(x))'
      BY <1>0, WaitingStep
    <3> QED
      BY <1>2, <3>1, <3>2, <3>3
  <2>3. Waiting' = Waiting
    BY <2>2, WaitingFunction
  <2> QED
    BY <1>1, <2>3 DEF Stutter
<1> QED
  BY <1>3, <1>4 DEF PopTop

\* When main fixes the status nothing waits, and the flags are what the visits call for.
LEMMA JoinReports ==
  ASSUME RInv, RInv', JoinAndExit
  PROVE  TS!Report
<1>m. Main \in Worker
  BY NThreadsAssumption DEF Worker, Main
<1>0. TypeOK /\ Shape /\ TypeOK' /\ Shape' /\ Hands /\ FlagsMeanVisits /\ OthersStay(Main)
  BY DEF RInv, IInv, OthersStay, JoinAndExit, Goto, TypeOK
<1>1. pc[Main] = "join" /\ pc'[Main] = "exited" /\ UNCHANGED <<dirq, cur, todo, visited, lost>>
  BY <1>0, <1>m DEF JoinAndExit, At, Goto, TypeOK, queue
<1>2. Quiet
  BY <1>m, <1>1 DEF RInv, IInv, NoEarlyExit, LeftLoop
<1>3. \A w \in Worker : cur[w] = NoNode /\ todo[w] = <<>>
  <2> SUFFICES ASSUME NEW w \in Worker PROVE cur[w] = NoNode /\ todo[w] = <<>>
    OBVIOUS
  <2>1. cur[w] = NoNode /\ pc[w] \notin Calling \cup {"root"}
    BY <1>2 DEF Quiet, InHand
  <2>2. pc[w] # "entry"
    BY <1>0, <2>1 DEF Shape, ShapeOf
  <2> QED
    BY <1>0, <2>1, <2>2 DEF Hands, HandOf
<1>4. ASSUME NEW x \in Node PROVE Waiting[x] = 0
  <2>1. \A w \in Worker : Undispatched(x)[w] = {}
    <3> SUFFICES ASSUME NEW w \in Worker PROVE Undispatched(x)[w] = {}
      OBVIOUS
    <3>1. Rest(w) = <<>>
      BY <1>2, <1>3 DEF Rest, Quiet, Calling
    <3> QED
      BY <3>1, TimesEmpty DEF Undispatched
  <2>2. Total(Undispatched(x)) = 0
    <3>1. DOMAIN Undispatched(x) = Worker
      BY DEF Undispatched
    <3> QED
      BY <2>1, <3>1, TotalEmpty
  <2>3. Times(x, dirq) = 0
    BY <1>2, TimesEmpty DEF Quiet
  <2>4. JustPopped(x) = {}
    BY <1>3, NodeAssumption DEF JustPopped
  <2>5. Cardinality(JustPopped(x)) = 0
    BY <2>4, FS_EmptySet
  <2> QED
    BY <2>2, <2>3, <2>5 DEF Waiting
<1>5. Waiting' = Waiting
  <2>1. \A x \in Node : Share(Main, x)' = Share(Main, x) /\ JustPopped(x)' = JustPopped(x)
    <3>1. Rest(Main)' = Rest(Main)
      BY <1>1 DEF Rest
    <3> QED
      BY <1>m, <1>0, <1>1, <3>1, ShareSame, PoppedSame
  <2> QED
    BY <1>m, <1>0, <1>1, <2>1, NoMove
<1>6. status = -1
  BY <1>1 DEF RInv, StatusByMain
<1>7. /\ had_error <=> GivenError \/ \E x \in BadFile : visited[x] > 0
      /\ match_found <=> \E x \in Hit : visited[x] > 0
  <2>1. ~ HasError(ArgsLeft)
    BY <1>m, <1>3 DEF ArgsLeft, HasError
  <2> QED
    BY <1>0, <2>1 DEF FlagsMeanVisits
<1>8. status' = IF GivenError \/ (\E x \in BadFile : visited[x] > 0) THEN 2
                ELSE IF \E x \in Hit : visited[x] > 0 THEN 0 ELSE 1
  BY <1>7 DEF JoinAndExit, ExitStatus
<1> QED
  BY <1>1, <1>4, <1>5, <1>6, <1>8 DEF TS!Report

\* A step that touches neither queue, directories nor entries moves no finding unless
\* it goes to or from the end of a push or a pop.
LEMMA ElsewhereStutter ==
  ASSUME RInv, RInv', NEW w \in Worker, OthersStay(w),
         UNCHANGED <<dirq, visited, lost, status>>,
         cur'[w] = cur[w], Rest(w)' = Rest(w),
         pc[w] \in {"pop_unlock", "open"} /\ cur[w] # NoNode
           <=> pc'[w] \in {"pop_unlock", "open"} /\ cur[w] # NoNode
  PROVE  Stutter
<1>0. TypeOK /\ Shape /\ TypeOK' /\ Shape'
  BY DEF RInv, IInv
<1>1. \A x \in Node : Share(w, x)' = Share(w, x)
  BY ShareSame
<1>2. \A x \in Node : JustPopped(x)' = JustPopped(x)
  BY NodeAssumption DEF JustPopped, OthersStay
<1>3. Waiting' = Waiting
  BY <1>0, <1>1, <1>2, NoMove
<1> QED
  BY <1>3 DEF Stutter

\* Every step of the walker is a step of the abstract search or none at all.
LEMMA StepImplements == RInv /\ RInv' /\ [Next]_vars => [TS!Next]_(TS!tsvars)
<1> SUFFICES ASSUME RInv, RInv', [Next]_vars PROVE TS!Next \/ Stutter
  BY DEF Stutter, TS!tsvars
<1>0. TypeOK /\ Shape /\ TypeOK' /\ Shape' /\ Hands
  BY DEF RInv, IInv
<1>m. Main \in Worker
  BY NThreadsAssumption DEF Worker, Main
<1> USE <1>0, <1>m
<1>p. ASSUME NEW w \in Worker, OthersStay(w), cur' = cur, todo[w] # <<>>,
             pc[w] = (IF cur[w] = NoNode THEN "root" ELSE "entry"),
             Dispatch(w, IF cur[w] = NoNode THEN Mode[Child(w)] ELSE EntryKind(cur[w], Child(w))),
             UNCHANGED <<dirq, visited, lost, status>>
      PROVE  Stutter
  <2>1. pc'[w] \in {"alloc", "search", "root", "entry"}
    BY <1>p DEF Dispatch, Advance, Goto, TypeOK
  <2>2. \A x \in Node : Share(w, x)' = Share(w, x) /\ JustPopped(x)' = JustPopped(x)
    BY <1>p, <2>1, DispatchMovesNothing, PoppedSame
  <2>3. Waiting' = Waiting
    BY <1>p, <2>2, NoMove
  <2> QED
    BY <1>p, <2>3 DEF Stutter
<1>1. CASE HandleRoot
  <2>1. cur[Main] = NoNode /\ OthersStay(Main)
    BY <1>1 DEF HandleRoot, Dispatch, Advance, Goto, TypeOK, OthersStay, At, Shape, ShapeOf, Calling
  <2> QED
    BY <1>1, <1>p, <2>1 DEF HandleRoot, At, queue, boot
<1>2. CASE RunSearch \/ WalkAlone \/ StartSpawning \/ StopSpawning
  <2>1. /\ OthersStay(Main) /\ UNCHANGED <<dirq, visited, lost, status, cur, todo>>
        /\ pc[Main] \in {"root", "ploop", "spawn"}
        /\ pc'[Main] \in {"ploop", "flush", "pop", "spawn", "loop"}
    BY <1>2 DEF RunSearch, WalkAlone, StartSpawning, StopSpawning, At, Goto, TypeOK, OthersStay, queue, boot
  <2>2. Rest(Main)' = Rest(Main)
    BY <2>1 DEF Rest
  <2> QED
    BY <2>1, <2>2, ElsewhereStutter
<1>3. CASE SpawnHelper
  <2>1. PICK h \in Worker : h = helper
    BY <1>3, NThreadsAssumption DEF SpawnHelper, TypeOK, Worker
  <2>2. pc[h] = "none"
    BY <1>3, <2>1, NThreadsAssumption DEF SpawnHelper, TypeOK, Shape, ShapeOf, Helper, Worker, Main
  <2>3. /\ OthersStay(h) /\ UNCHANGED <<dirq, visited, lost, status, cur, todo>>
        /\ pc'[h] \in {"none", "loop"}
    BY <1>3, <2>1, <2>2 DEF SpawnHelper, TypeOK, OthersStay, queue, boot
  <2>4. Rest(h)' = Rest(h)
    BY <2>2, <2>3 DEF Rest
  <2> QED
    BY <2>2, <2>3, <2>4, ElsewhereStutter
<1>4. CASE JoinAndExit
  BY <1>4, JoinReports DEF TS!Next
<1>5. ASSUME NEW w \in Worker, Step(w) PROVE TS!Next \/ Stutter
  <2>0. OthersStay(w)
    BY <1>5, StepFrame
  <2>1. CASE Open(w)
    <3>1. cur[w] \in Node
      BY <2>1 DEF Open, At, Shape, ShapeOf, TypeOK
    <3> QED
      BY <2>1, <3>1, OpenVisits DEF TS!Next
  <2>2. CASE ReadEntry(w)
    <3>1. cur[w] # NoNode /\ pc[w] = "entry"
      BY <2>2 DEF ReadEntry, At, Shape, ShapeOf
    <3> QED
      BY <1>p, <2>0, <2>2, <3>1 DEF ReadEntry, queue, boot
  <2>3. CASE SearchFile(w)
    BY <2>3, SearchVisits DEF TS!Next
  <2>4. CASE ArenaAlloc(w)
    BY <2>4, AllocImplements DEF TS!Next
  <2>5. CASE PushTop(w)
    BY <2>5, PushImplements DEF TS!Next
  <2>6. CASE PopTop(w)
    BY <2>6, PopImplements
  <2>7. CASE EndOfDir(w) \/ LockDirq(w) \/ PushPending(w) \/ Peek(w) \/ TestPending(w) \/ Flush(w)
    <3>1. /\ UNCHANGED <<dirq, visited, lost, status, cur, todo>>
          /\ pc[w] \notin {"pop_unlock", "open"} /\ pc'[w] \notin {"pop_unlock", "open"}
          /\ pc[w] \in {"push_pending", "push_unlock"} <=> pc'[w] \in {"push_pending", "push_unlock"}
      BY <2>7 DEF EndOfDir, LockDirq, PushPending, Peek, TestPending, Flush, At, Goto, TypeOK, queue, boot
    <3>2. Rest(w)' = Rest(w)
      BY <3>1 DEF Rest
    <3> QED
      BY <2>0, <3>1, <3>2, ElsewhereStutter
  <2>8. CASE UnlockDirq(w)
    <3>1. UNCHANGED <<dirq, visited, lost, status, cur>>
      BY <2>8 DEF UnlockDirq, boot
    <3>2. CASE At(w, "push_unlock") /\ Advance(w)
      <4>1. Rest(w)' = Rest(w) /\ pc[w] = "push_unlock" /\ pc'[w] \in {"root", "entry"}
        BY <3>2, RestAdvance DEF At, Rest, Advance, Goto, TypeOK
      <4> QED
        BY <2>0, <3>1, <4>1, ElsewhereStutter
    <3>3. CASE At(w, "pop_unlock") /\ UNCHANGED todo
      <4>1. pc[w] = "pop_unlock" /\ pc'[w] = IF cur[w] # NoNode THEN "open" ELSE Empty(w)
        BY <2>8, <3>3 DEF UnlockDirq, At, Goto, TypeOK
      <4>2. Rest(w)' = Rest(w)
        BY <3>3, <4>1 DEF Rest, Empty
      <4> QED
        BY <2>0, <3>1, <4>1, <4>2, ElsewhereStutter
    <3> QED
      BY <2>8, <3>2, <3>3 DEF UnlockDirq
  <2>9. CASE DecPending(w)
    <3>1. /\ UNCHANGED <<dirq, visited, lost, status, todo>> /\ todo[w] = <<>>
          /\ pc[w] = "dec" /\ pc'[w] \in {"ploop", "loop"}
      BY <2>9 DEF DecPending, NextDir, At, Goto, TypeOK, Hands, HandOf, Calling, boot
    <3>2. \A x \in Node : Share(w, x) = 0 /\ Share(w, x)' = 0
      BY <3>1, ShareNone, ShareNoneNext DEF Rest
    <3>3. \A x \in Node : JustPopped(x)' = JustPopped(x)
      BY <2>0, <3>1, PoppedSame
    <3>4. Waiting' = Waiting
      BY <2>0, <3>1, <3>2, <3>3, NoMove
    <3> QED
      BY <3>1, <3>4 DEF Stutter
  <2> QED
    BY <1>5, <2>1, <2>2, <2>3, <2>4, <2>5, <2>6, <2>7, <2>8, <2>9 DEF Step
<1>6. CASE Terminating \/ UNCHANGED vars
  <2>1. UNCHANGED <<dirq, pc, cur, todo, visited, lost, status>>
    BY <1>6 DEF Terminating, vars, queue, boot
  <2>2. OthersStay(Main) /\ Rest(Main)' = Rest(Main)
    BY <2>1 DEF OthersStay, Rest
  <2> QED
    BY <2>1, <2>2, ElsewhereStutter
<1> QED
  BY <1>1, <1>2, <1>3, <1>4, <1>5, <1>6 DEF Next, MainStep

\* At the start the arguments wait, and nothing else.
LEMMA InitImplements == Init => TS!Init
<1> SUFFICES ASSUME Init PROVE TS!Init
  OBVIOUS
<1>0. TypeOK /\ Shape /\ Main \in Worker
  BY InitIInv, NThreadsAssumption DEF IInv, Worker, Main
<1>1. \A w \in Worker : /\ pc[w] = (IF w = Main THEN "root" ELSE "none") /\ cur[w] = NoNode
                        /\ todo[w] = IF w = Main THEN Roots ELSE <<>>
  BY DEF Init
<1>2. ASSUME NEW x \in Node PROVE Waiting[x] = GivenItems[x]
  <2> DEFINE P == Undispatched(x)
             Q == [P EXCEPT ![Main] = {}]
  <2>1. IsFiniteSet(Worker)
    BY NThreadsAssumption, FS_Interval DEF Worker
  <2>2. /\ P \in [Worker -> SUBSET Nat] /\ \A w \in Worker : IsFiniteSet(P[w])
        /\ Cardinality(P[Main]) = Share(Main, x) /\ Share(Main, x) \in Nat
    BY <1>0, CountsType DEF CountsAreNumbers
  <2>3. \A w \in Worker : w # Main => P[w] = {}
    <3> SUFFICES ASSUME NEW w \in Worker, w # Main PROVE P[w] = {}
      OBVIOUS
    <3>1. Rest(w) = <<>>
      BY <1>1 DEF Rest
    <3> QED
      BY <3>1, TimesEmpty DEF Undispatched
  <2>4. Q \in [Worker -> SUBSET Nat] /\ \A w \in DOMAIN Q : Q[w] = {}
    BY <2>2, <2>3
  <2>5. Total(Q) = 0
    <3> HIDE DEF Q
    <3> QED
      BY <2>4, TotalEmpty
  <2>6. Total(P) = Total(Q) + Cardinality(P[Main])
    <3> HIDE DEF P
    <3> QED
      BY <1>0, <2>1, <2>2, TotalSplit
  <2>7. Share(Main, x) = GivenItems[x]
    <3>1. Rest(Main) = Roots /\ cur[Main] = NoNode
      BY <1>0, <1>1 DEF Rest
    <3> QED
      BY <3>1 DEF Share, PicksUp, GivenItems
  <2>8. Times(x, dirq) = 0
    BY TimesEmpty DEF Init
  <2>9. Cardinality(JustPopped(x)) = 0
    <3>1. JustPopped(x) = {}
      BY <1>1 DEF JustPopped
    <3> QED
      BY <3>1, FS_EmptySet
  <2>10. Waiting[x] = Total(P) + Times(x, dirq) + Cardinality(JustPopped(x))
    BY DEF Waiting
  <2> HIDE DEF P, Q
  <2> QED
    BY <2>2, <2>5, <2>6, <2>7, <2>8, <2>9, <2>10
<1>3. Waiting = GivenItems
  BY <1>2, WaitingFunction DEF GivenItems
<1> QED
  BY <1>3 DEF Init, TS!Init

\* asm/grep.s, for any number of threads and any tree, is a recursive search: every
\* path named or found is visited once per finding or given up by enqueue_dir, and
\* the status is reported when nothing waits and is the one the visits call for.
THEOREM WalkerImplementsTreeSearch == Spec => ImplementsTreeSearch
<1>1. Init => TS!Init
  BY InitImplements
<1>2. RInv /\ RInv' /\ [Next]_vars => [TS!Next]_(TS!tsvars)
  BY StepImplements
<1> QED
  BY <1>1, <1>2, RefinementInvariant, PTL DEF Spec, ImplementsTreeSearch, TS!Spec
=============================================================================
