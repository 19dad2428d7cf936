--------------------------- MODULE AsmOutputProofs ---------------------------
(***************************************************************************)
(* The output lock, the bound of the buffers, the wholeness of lines and   *)
(* their order, for every number of threads, every buffer size and every   *)
(* set of lines.                                                           *)
(***************************************************************************)
EXTENDS AsmOutput, CountingProofs

-----------------------------------------------------------------------------
(* Types.                                                                  *)

\* What a thread may do, whoever chooses its files and says when they end.
OMove(w) ==
  (\E f \in File : StartFile(w, f)) \/ EndFile(w) \/ Printing(w) \/ FinalFlush(w)
OMoves == \E w \in Worker : OMove(w)

\* On its own AsmOutput makes no other moves.
LEMMA OwnMoves == [ONext]_ovars => [OMoves]_ovars
  BY DEF ONext, OStep, OMoves, OMove

\* The pieces of a line are numbered from 1 or from 3 to 4.
LEMMA PieceRange == FirstPiece \in {1, 3} /\ LastPiece = 4
  BY MultiAssumption DEF FirstPiece, LastPiece

\* The line in hand is a line.
LEMMA CurrentType ==
  ASSUME OTypeOK, NEW w \in Worker, lines[w] # <<>>
  PROVE  /\ Current(w) \in Line /\ Size[Current(w)] \in Nat
         /\ Tail(lines[w]) \in Seq(Line)
  BY HeadTailProperties, SizeAssumption DEF OTypeOK, Current

\* A write() record is well typed.
LEMMA SysWriteType ==
  ASSUME OTypeOK, NEW w \in Worker, NEW ls \in Seq(Line), NEW p \in 0 .. LastPiece,
         SysWrite(w, ls, p)
  PROVE  stdout' \in Seq(Write) /\ write_failed' \in BOOLEAN
<1>1. [by |-> w, lines |-> ls, piece |-> p] \in Write
  BY DEF Write
<1>2. Append(stdout, [by |-> w, lines |-> ls, piece |-> p]) \in Seq(Write)
  BY <1>1, AppendProperties DEF OTypeOK
<1>3. stdout \in Seq(Write) /\ write_failed \in BOOLEAN
  BY DEF OTypeOK
<1> QED
  BY <1>2, <1>3 DEF SysWrite

\* Every step keeps OTypeOK.
LEMMA OTypeStep == OSafe /\ [OMoves]_ovars => OTypeOK'
<1> SUFFICES ASSUME OSafe, [OMoves]_ovars PROVE OTypeOK'
  OBVIOUS
<1>0. OTypeOK /\ OShape
  BY DEF OSafe
<1> USE <1>0
<1>1. ASSUME NEW w \in Worker, NEW f \in File, StartFile(w, f) PROVE OTypeOK'
  <2> DEFINE ls == IF f \in Unreadable THEN <<>> ELSE LinesOf[f]
  <2>1. ls \in Seq(Line)
    BY FileAssumption
  <2>2. found[w] \o ls \in Seq(Line)
    BY <2>1, ConcatProperties DEF OTypeOK
  <2>3. found' = [found EXCEPT ![w] = found[w] \o ls] /\ lines' = [lines EXCEPT ![w] = ls]
    BY <1>1 DEF StartFile
  <2>4. found' \in [Worker -> Seq(Line)] /\ lines' \in [Worker -> Seq(Line)]
    BY <2>1, <2>2, <2>3 DEF OTypeOK
  <2>5. /\ opc' \in [Worker -> OPCs] /\ file' \in [Worker -> File \cup {NoFile}]
        /\ searched' \subseteq File
    BY <1>1 DEF StartFile, OTypeOK, OGoto, OPCs
  <2> QED
    BY <1>1, <2>4, <2>5 DEF StartFile, OTypeOK, buffers
<1>2. ASSUME NEW w \in Worker, EndFile(w) PROVE OTypeOK'
  BY <1>2 DEF EndFile, OTypeOK, OGoto, OPCs, buffers, history
<1>3. ASSUME NEW w \in Worker, PrintLine(w) PROVE OTypeOK'
  BY <1>3 DEF PrintLine, OTypeOK, OGoto, OPCs, buffers, history
<1>4. ASSUME NEW w \in Worker, AppendRaw(w) PROVE OTypeOK'
  <2>1. /\ Current(w) \in Line /\ Size[Current(w)] \in Nat
        /\ Tail(lines[w]) \in Seq(Line)
    BY <1>4, CurrentType DEF AppendRaw, OAt, OShape, OShapeOf
  <2>2. Append(outbuf[w], Current(w)) \in Seq(Line)
    BY <2>1, AppendProperties DEF OTypeOK
  <2>3. outbuf' \in [Worker -> Seq(Line)] /\ outlen' \in [Worker -> Nat]
    BY <1>4, <2>1, <2>2 DEF AppendRaw, OTypeOK
  <2>4. lines' \in [Worker -> Seq(Line)] /\ opc' \in [Worker -> OPCs]
    BY <1>4, <2>1 DEF AppendRaw, OGoto, OTypeOK, OPCs
  <2> QED
    BY <1>4, <2>3, <2>4 DEF AppendRaw, OTypeOK, history
<1>5. ASSUME NEW w \in Worker, LockAcquire(w) PROVE OTypeOK'
  BY <1>5 DEF LockAcquire, OTypeOK, OGoto, OPCs, buffers, history
<1>6. ASSUME NEW w \in Worker, FlushWrite(w) PROVE OTypeOK'
  <2>1. stdout' \in Seq(Write) /\ write_failed' \in BOOLEAN
    BY <1>6, SysWriteType, PieceRange DEF FlushWrite, OTypeOK
  <2> QED
    BY <1>6, <2>1 DEF FlushWrite, OTypeOK, OGoto, OPCs, buffers
<1>7. ASSUME NEW w \in Worker, FlushUnlock(w) PROVE OTypeOK'
  <2>1. outbuf' \in [Worker -> Seq(Line)] /\ outlen' \in [Worker -> Nat]
    BY <1>7 DEF FlushUnlock, OTypeOK
  <2> QED
    BY <1>7, <2>1 DEF FlushUnlock, OTypeOK, OGoto, OPCs, history
<1>8. ASSUME NEW w \in Worker, WritePiece(w) PROVE OTypeOK'
  <2>1. Current(w) \in Line
    BY <1>8, CurrentType DEF WritePiece, OAt, OShape, OShapeOf
  <2>2. <<Current(w)>> \in Seq(Line)
    BY <2>1
  <2>3. piece[w] \in 0 .. LastPiece
    BY PieceRange DEF OTypeOK
  <2>4. stdout' \in Seq(Write) /\ write_failed' \in BOOLEAN
    BY <1>8, <2>2, <2>3, SysWriteType DEF WritePiece
  <2>5. piece' \in [Worker -> 1 .. LastPiece] /\ opc' \in [Worker -> OPCs]
    <3>1. CASE piece[w] = LastPiece
      <4>1. piece' = [piece EXCEPT ![w] = FirstPiece] /\ OGoto(w, "end")
        BY <1>8, <3>1 DEF WritePiece
      <4>2. FirstPiece \in 1 .. LastPiece
        BY PieceRange
      <4> QED
        BY <4>1, <4>2 DEF OGoto, OTypeOK, OPCs
    <3>2. CASE piece[w] # LastPiece
      <4>1. piece[w] + 1 \in 1 .. LastPiece
        <5>1. piece[w] \in 1 .. 4 /\ piece[w] # 4
          BY <3>2, PieceRange DEF OTypeOK
        <5> QED
          BY <5>1, PieceRange
      <4> QED
        BY <1>8, <3>2, <4>1 DEF WritePiece, OTypeOK
    <3> QED
      BY <3>1, <3>2
  <2> QED
    BY <1>8, <2>4, <2>5 DEF WritePiece, OTypeOK, buffers
<1>9. ASSUME NEW w \in Worker, StreamUnlock(w) PROVE OTypeOK'
  <2>1. Tail(lines[w]) \in Seq(Line)
    BY <1>9, CurrentType DEF StreamUnlock, OAt, OShape, OShapeOf
  <2> QED
    BY <1>9, <2>1 DEF StreamUnlock, OTypeOK, OGoto, OPCs, buffers, history
<1>10. ASSUME NEW w \in Worker, FinalFlush(w) PROVE OTypeOK'
  BY <1>10 DEF FinalFlush, OTypeOK, OGoto, OPCs, buffers, history
<1>11. CASE UNCHANGED ovars
  BY <1>11 DEF ovars, OTypeOK, buffers, history
<1> QED
  BY <1>1, <1>2, <1>3, <1>4, <1>5, <1>6, <1>7, <1>8, <1>9, <1>10, <1>11
     DEF OMoves, OMove, Printing

-----------------------------------------------------------------------------
(* Room and lock.                                                          *)

\* Every step keeps OShape and BufferBound.
LEMMA OShapeStep == OSafe /\ [OMoves]_ovars => OShape' /\ BufferBound'
<1> SUFFICES ASSUME OSafe, [OMoves]_ovars PROVE OShape' /\ BufferBound'
  OBVIOUS
<1>0. OTypeOK /\ OShape /\ BufferBound
  BY DEF OSafe
<1> USE <1>0, PieceRange, FileAssumption, SizeAssumption
<1>f. ASSUME NEW w \in Worker, OShapeOf(w)', outlen'[w] <= OUTBUF_SZ,
             \A v \in Worker \ {w} :
                /\ opc'[v] = opc[v] /\ lines'[v] = lines[v] /\ file'[v] = file[v]
                /\ outlen'[v] = outlen[v] /\ piece'[v] = piece[v]
      PROVE  OShape' /\ BufferBound'
  BY <1>f DEF OShape, OShapeOf, BufferBound, Current
<1>1. ASSUME NEW w \in Worker, NEW f \in File, StartFile(w, f) PROVE OShape' /\ BufferBound'
  <2>1. OShapeOf(w)' /\ outlen'[w] <= OUTBUF_SZ
    BY <1>1 DEF StartFile, OAt, OGoto, OTypeOK, OShape, OShapeOf, BufferBound, Current, buffers
  <2> QED
    BY <1>1, <1>f, <2>1 DEF StartFile, OGoto, OTypeOK, buffers
<1>2. ASSUME NEW w \in Worker, EndFile(w) PROVE OShape' /\ BufferBound'
  <2>1. OShapeOf(w)' /\ outlen'[w] <= OUTBUF_SZ
    BY <1>2 DEF EndFile, OAt, OGoto, OTypeOK, OShape, OShapeOf, BufferBound, Current, buffers
  <2> QED
    BY <1>2, <1>f, <2>1 DEF EndFile, OGoto, OTypeOK, buffers
<1>3. ASSUME NEW w \in Worker, PrintLine(w) PROVE OShape' /\ BufferBound'
  <2>1. OShapeOf(w)' /\ outlen'[w] <= OUTBUF_SZ
    BY <1>3, CurrentType DEF PrintLine, OAt, OGoto, OTypeOK, OShape, OShapeOf, BufferBound, Current, Oversized, buffers
  <2> QED
    BY <1>3, <1>f, <2>1 DEF PrintLine, OGoto, OTypeOK, buffers
<1>4. ASSUME NEW w \in Worker, AppendRaw(w) PROVE OShape' /\ BufferBound'
  <2>1. OShapeOf(w)' /\ outlen'[w] <= OUTBUF_SZ
    BY <1>4, CurrentType DEF AppendRaw, OAt, OGoto, OTypeOK, OShape, OShapeOf, BufferBound, Current, buffers
  <2> QED
    BY <1>4, <1>f, <2>1 DEF AppendRaw, OGoto, OTypeOK, buffers
<1>5. ASSUME NEW w \in Worker, LockAcquire(w) PROVE OShape' /\ BufferBound'
  <2>1. OShapeOf(w)' /\ outlen'[w] <= OUTBUF_SZ
    BY <1>5 DEF LockAcquire, OAt, OGoto, OTypeOK, OShape, OShapeOf, BufferBound, Current, buffers
  <2> QED
    BY <1>5, <1>f, <2>1 DEF LockAcquire, OGoto, OTypeOK, buffers
<1>6. ASSUME NEW w \in Worker, FlushWrite(w) PROVE OShape' /\ BufferBound'
  <2>1. OShapeOf(w)' /\ outlen'[w] <= OUTBUF_SZ
    BY <1>6 DEF FlushWrite, OAt, OGoto, OTypeOK, OShape, OShapeOf, BufferBound, Current, buffers
  <2> QED
    BY <1>6, <1>f, <2>1 DEF FlushWrite, OGoto, OTypeOK, buffers
<1>7. ASSUME NEW w \in Worker, FlushUnlock(w) PROVE OShape' /\ BufferBound'
  <2>1. OShapeOf(w)' /\ outlen'[w] <= OUTBUF_SZ
    BY <1>7, CurrentType DEF FlushUnlock, OAt, OGoto, OTypeOK, OShape, OShapeOf, BufferBound, Current, Oversized, buffers
  <2> QED
    BY <1>7, <1>f, <2>1 DEF FlushUnlock, OGoto, OTypeOK, buffers
<1>8. ASSUME NEW w \in Worker, WritePiece(w) PROVE OShape' /\ BufferBound'
  <2>1. OShapeOf(w)' /\ outlen'[w] <= OUTBUF_SZ
    BY <1>8 DEF WritePiece, OAt, OGoto, OTypeOK, OShape, OShapeOf, BufferBound, Current, buffers
  <2> QED
    BY <1>8, <1>f, <2>1 DEF WritePiece, OGoto, OTypeOK, buffers
<1>9. ASSUME NEW w \in Worker, StreamUnlock(w) PROVE OShape' /\ BufferBound'
  <2>1. OShapeOf(w)' /\ outlen'[w] <= OUTBUF_SZ
    BY <1>9 DEF StreamUnlock, OAt, OGoto, OTypeOK, OShape, OShapeOf, BufferBound, Current, buffers
  <2> QED
    BY <1>9, <1>f, <2>1 DEF StreamUnlock, OGoto, OTypeOK, buffers
<1>10. ASSUME NEW w \in Worker, FinalFlush(w) PROVE OShape' /\ BufferBound'
  <2>1. OShapeOf(w)' /\ outlen'[w] <= OUTBUF_SZ
    BY <1>10 DEF FinalFlush, OAt, OGoto, OTypeOK, OShape, OShapeOf, BufferBound, Current, buffers
  <2> QED
    BY <1>10, <1>f, <2>1 DEF FinalFlush, OGoto, OTypeOK, buffers
<1>11. CASE UNCHANGED ovars
  BY <1>11 DEF ovars, OShape, OShapeOf, BufferBound, Current, buffers
<1> QED
  BY <1>1, <1>2, <1>3, <1>4, <1>5, <1>6, <1>7, <1>8, <1>9, <1>10, <1>11 DEF OMoves, OMove, Printing

\* Every step keeps OutMutex and LockHeld.
LEMMA OLockStep == OSafe /\ [OMoves]_ovars => OutMutex' /\ LockHeld'
<1> SUFFICES ASSUME OSafe, [OMoves]_ovars PROVE OutMutex' /\ LockHeld'
  OBVIOUS
<1>0. OTypeOK /\ OutMutex /\ LockHeld
  BY DEF OSafe
<1> USE <1>0
<1>f. ASSUME UNCHANGED out_lock, \A v \in Worker : Holding(v)' => Holding(v)
      PROVE  OutMutex' /\ LockHeld'
  BY <1>f DEF OutMutex, LockHeld
<1>1. ASSUME NEW w \in Worker, NEW f \in File, StartFile(w, f) PROVE OutMutex' /\ LockHeld'
  BY <1>1, <1>f DEF StartFile, OAt, OGoto, OTypeOK, Holding
<1>2. ASSUME NEW w \in Worker, EndFile(w) PROVE OutMutex' /\ LockHeld'
  BY <1>2, <1>f DEF EndFile, OAt, OGoto, OTypeOK, Holding
<1>3. ASSUME NEW w \in Worker, PrintLine(w) PROVE OutMutex' /\ LockHeld'
  BY <1>3, <1>f DEF PrintLine, OAt, OGoto, OTypeOK, Holding
<1>4. ASSUME NEW w \in Worker, AppendRaw(w) PROVE OutMutex' /\ LockHeld'
  BY <1>4, <1>f DEF AppendRaw, OAt, OGoto, OTypeOK, Holding
<1>5. ASSUME NEW w \in Worker, LockAcquire(w) PROVE OutMutex' /\ LockHeld'
  BY <1>5 DEF LockAcquire, OAt, OGoto, OTypeOK, Holding, OutMutex, LockHeld
<1>6. ASSUME NEW w \in Worker, FlushWrite(w) PROVE OutMutex' /\ LockHeld'
  BY <1>6, <1>f DEF FlushWrite, OAt, OGoto, OTypeOK, Holding
<1>7. ASSUME NEW w \in Worker, FlushUnlock(w) PROVE OutMutex' /\ LockHeld'
  BY <1>7 DEF FlushUnlock, OAt, OGoto, OTypeOK, Holding, OutMutex, LockHeld
<1>8. ASSUME NEW w \in Worker, WritePiece(w) PROVE OutMutex' /\ LockHeld'
  BY <1>8, <1>f DEF WritePiece, OAt, OGoto, OTypeOK, Holding
<1>9. ASSUME NEW w \in Worker, StreamUnlock(w) PROVE OutMutex' /\ LockHeld'
  BY <1>9 DEF StreamUnlock, OAt, OGoto, OTypeOK, Holding, OutMutex, LockHeld
<1>10. ASSUME NEW w \in Worker, FinalFlush(w) PROVE OutMutex' /\ LockHeld'
  BY <1>10, <1>f DEF FinalFlush, OAt, OGoto, OTypeOK, Holding
<1>11. CASE UNCHANGED ovars
  BY <1>11, <1>f DEF ovars, Holding
<1> QED
  BY <1>1, <1>2, <1>3, <1>4, <1>5, <1>6, <1>7, <1>8, <1>9, <1>10, <1>11 DEF OMoves, OMove, Printing

\* Every step keeps HeldBack.
LEMMA OHeldStep == OSafe /\ [OMoves]_ovars => HeldBack'
<1> SUFFICES ASSUME OSafe, [OMoves]_ovars PROVE HeldBack'
  OBVIOUS
<1>0. OTypeOK /\ OShape /\ HeldBack
  BY DEF OSafe
<1> USE <1>0
<1>f. ASSUME NEW w \in Worker, HeldBackOf(w)',
             \A v \in Worker \ {w} :
                /\ opc'[v] = opc[v] /\ lines'[v] = lines[v] /\ file'[v] = file[v]
                /\ outlen'[v] = outlen[v] /\ outbuf'[v] = outbuf[v]
      PROVE  HeldBack'
  BY <1>f DEF HeldBack, HeldBackOf
<1>1. ASSUME NEW w \in Worker, NEW f \in File, StartFile(w, f) PROVE HeldBack'
  <2>1. HeldBackOf(w)'
    BY <1>1, FileAssumption
       DEF StartFile, OAt, OGoto, OTypeOK, HeldBack, HeldBackOf, buffers
  <2> QED
    BY <1>1, <1>f, <2>1 DEF StartFile, OGoto, OTypeOK, buffers
<1>2. ASSUME NEW w \in Worker, EndFile(w) PROVE HeldBack'
  <2>1. HeldBackOf(w)'
    BY <1>2 DEF EndFile, OAt, OGoto, OTypeOK, HeldBack, HeldBackOf, buffers
  <2> QED
    BY <1>2, <1>f, <2>1 DEF EndFile, OGoto, OTypeOK, buffers
<1>3. ASSUME NEW w \in Worker, PrintLine(w) PROVE HeldBack'
  <2>1. HeldBackOf(w)'
    BY <1>3 DEF PrintLine, OAt, OGoto, OTypeOK, HeldBack, HeldBackOf, buffers
  <2> QED
    BY <1>3, <1>f, <2>1 DEF PrintLine, OGoto, OTypeOK, buffers
<1>4. ASSUME NEW w \in Worker, AppendRaw(w) PROVE HeldBack'
  <2>1. lines[w] # <<>> /\ opc[w] = "append"
    BY <1>4 DEF AppendRaw, OAt, OShape, OShapeOf
  <2>2. file[w] # NoFile
    BY <2>1 DEF HeldBack, HeldBackOf
  <2>3. Size[Current(w)] \in Nat \ {0}
    BY <2>1, CurrentType, SizeAssumption
  <2>4. outlen'[w] # 0
    BY <1>4, <2>3 DEF AppendRaw, OTypeOK
  <2>5. HeldBackOf(w)'
    BY <1>4, <2>2, <2>4 DEF AppendRaw, OGoto, OTypeOK, HeldBackOf
  <2> QED
    BY <1>4, <1>f, <2>5 DEF AppendRaw, OGoto, OTypeOK
<1>5. ASSUME NEW w \in Worker, LockAcquire(w) PROVE HeldBack'
  <2>1. HeldBackOf(w)'
    BY <1>5 DEF LockAcquire, OAt, OGoto, OTypeOK, HeldBack, HeldBackOf, buffers
  <2> QED
    BY <1>5, <1>f, <2>1 DEF LockAcquire, OGoto, OTypeOK, buffers
<1>6. ASSUME NEW w \in Worker, FlushWrite(w) PROVE HeldBack'
  <2>1. HeldBackOf(w)'
    BY <1>6 DEF FlushWrite, OAt, OGoto, OTypeOK, HeldBack, HeldBackOf, buffers
  <2> QED
    BY <1>6, <1>f, <2>1 DEF FlushWrite, OGoto, OTypeOK, buffers
<1>7. ASSUME NEW w \in Worker, FlushUnlock(w) PROVE HeldBack'
  <2>1. HeldBackOf(w)'
    BY <1>7 DEF FlushUnlock, OAt, OGoto, OTypeOK, HeldBack, HeldBackOf
  <2> QED
    BY <1>7, <1>f, <2>1 DEF FlushUnlock, OGoto, OTypeOK
<1>8. ASSUME NEW w \in Worker, WritePiece(w) PROVE HeldBack'
  <2>1. HeldBackOf(w)'
    BY <1>8 DEF WritePiece, OAt, OGoto, OTypeOK, HeldBack, HeldBackOf, buffers
  <2> QED
    BY <1>8, <1>f, <2>1 DEF WritePiece, OGoto, OTypeOK, buffers
<1>9. ASSUME NEW w \in Worker, StreamUnlock(w) PROVE HeldBack'
  <2>1. lines[w] # <<>> /\ opc[w] = "end"
    BY <1>9 DEF StreamUnlock, OAt, OShape, OShapeOf
  <2>2. file[w] # NoFile
    BY <2>1 DEF HeldBack, HeldBackOf
  <2>3. HeldBackOf(w)'
    BY <1>9, <2>2 DEF StreamUnlock, OGoto, OTypeOK, HeldBack, HeldBackOf, buffers
  <2> QED
    BY <1>9, <1>f, <2>3 DEF StreamUnlock, OGoto, OTypeOK, buffers
<1>10. ASSUME NEW w \in Worker, FinalFlush(w) PROVE HeldBack'
  <2>1. HeldBackOf(w)'
    BY <1>10 DEF FinalFlush, OAt, OGoto, OTypeOK, HeldBack, HeldBackOf, buffers
  <2> QED
    BY <1>10, <1>f, <2>1 DEF FinalFlush, OGoto, OTypeOK, buffers
<1>11. CASE UNCHANGED ovars
  BY <1>11 DEF ovars, HeldBack, HeldBackOf, buffers
<1> QED
  BY <1>1, <1>2, <1>3, <1>4, <1>5, <1>6, <1>7, <1>8, <1>9, <1>10, <1>11 DEF OMoves, OMove, Printing

\* Every step keeps Reported.
LEMMA OReportedStep == OSafe /\ [OMoves]_ovars => Reported'
<1> SUFFICES ASSUME OSafe, [OMoves]_ovars PROVE Reported'
  OBVIOUS
<1>0. OTypeOK /\ OShape /\ HeldBack /\ Reported
  BY DEF OSafe
<1> USE <1>0
<1>f. ASSUME NEW w \in Worker, match_found' = match_found, found' = found,
             match_found \/ stdout' = stdout,
             match_found \/ (outlen'[w] = 0 /\ opc'[w] \in {"idle", "lines", "done"}),
             lines'[w] # <<>> => lines[w] # <<>>,
             \A v \in Worker \ {w} :
                opc'[v] = opc[v] /\ lines'[v] = lines[v] /\ outlen'[v] = outlen[v]
      PROVE  Reported'
  BY <1>f DEF Reported
<1>1. ASSUME NEW w \in Worker, NEW f \in File, StartFile(w, f) PROVE Reported'
  <2> DEFINE ls == IF f \in Unreadable THEN <<>> ELSE LinesOf[f]
  <2>1. ls \in Seq(Line) /\ found[w] \in Seq(Line)
    BY FileAssumption DEF OTypeOK
  <2>2. /\ lines' = [lines EXCEPT ![w] = ls] /\ found' = [found EXCEPT ![w] = found[w] \o ls]
        /\ opc' = [opc EXCEPT ![w] = "lines"]
        /\ UNCHANGED <<match_found, stdout, outlen>>
    BY <1>1 DEF StartFile, OGoto, buffers
  <2> HIDE DEF ls
  <2>3. found[w] # <<>> \/ ls # <<>> => found[w] \o ls # <<>>
    BY <2>1, ConcatEqualIffEmpty
  <2>4. \A v \in Worker : found[v] # <<>> => found'[v] # <<>>
    BY <2>2, <2>3 DEF OTypeOK
  <2>5. match_found' => \E v \in Worker : found'[v] # <<>>
    BY <2>2, <2>4 DEF Reported
  <2>6. ~ match_found' =>
          /\ stdout' = <<>>
          /\ \A v \in Worker : outlen'[v] = 0 /\ opc'[v] \in {"idle", "lines", "done"}
    BY <2>2 DEF Reported, OTypeOK
  <2>7. \A v \in Worker : lines'[v] # <<>> => found'[v] # <<>>
    BY <2>2, <2>3, <2>4 DEF Reported, OTypeOK
  <2> QED
    BY <2>5, <2>6, <2>7 DEF Reported
<1>2. ASSUME NEW w \in Worker, EndFile(w) PROVE Reported'
  BY <1>2, <1>f DEF EndFile, OAt, OGoto, OTypeOK, Reported, buffers, history
<1>3. ASSUME NEW w \in Worker, PrintLine(w) PROVE Reported'
  BY <1>3 DEF PrintLine, OTypeOK, Reported, buffers, history
<1>4. ASSUME NEW w \in Worker, AppendRaw(w) PROVE Reported'
  BY <1>4, <1>f DEF AppendRaw, OAt, OShape, OShapeOf, OGoto, OTypeOK, Reported, history
<1>5. ASSUME NEW w \in Worker, LockAcquire(w) PROVE Reported'
  BY <1>5, <1>f DEF LockAcquire, OAt, OGoto, OTypeOK, Reported, buffers, history
<1>6. ASSUME NEW w \in Worker, FlushWrite(w) PROVE Reported'
  BY <1>6, <1>f DEF FlushWrite, OAt, OGoto, OTypeOK, Reported, buffers
<1>7. ASSUME NEW w \in Worker, FlushUnlock(w) PROVE Reported'
  BY <1>7, <1>f DEF FlushUnlock, OAt, OGoto, OTypeOK, Reported, history
<1>8. ASSUME NEW w \in Worker, WritePiece(w) PROVE Reported'
  <2>1. match_found /\ match_found' = match_found /\ found' = found /\ lines' = lines
    BY <1>8 DEF WritePiece, OAt, Reported
  <2> QED
    BY <2>1 DEF Reported
<1>9. ASSUME NEW w \in Worker, StreamUnlock(w) PROVE Reported'
  BY <1>9, <1>f DEF StreamUnlock, OAt, OShape, OShapeOf, OGoto, OTypeOK, Reported, buffers, history
<1>10. ASSUME NEW w \in Worker, FinalFlush(w) PROVE Reported'
  BY <1>10, <1>f DEF FinalFlush, OAt, OGoto, OTypeOK, Reported, buffers, history
<1>11. CASE UNCHANGED ovars
  BY <1>11 DEF ovars, Reported, buffers, history
<1> QED
  BY <1>1, <1>2, <1>3, <1>4, <1>5, <1>6, <1>7, <1>8, <1>9, <1>10, <1>11 DEF OMoves, OMove, Printing

-----------------------------------------------------------------------------
(* Whole lines.                                                            *)

\* A write that is appended leaves the earlier ones as they were.
LEMMA AppendedWrite ==
  ASSUME OTypeOK, NEW x \in Write, stdout' = Append(stdout, x)
  PROVE  /\ stdout' # <<>> /\ LastWrite' = x
         /\ Len(stdout') = Len(stdout) + 1 /\ Len(stdout) \in Nat
         /\ \A i \in 1 .. Len(stdout) : stdout'[i] = stdout[i]
<1>1. stdout \in Seq(Write)
  BY DEF OTypeOK
<1>2. stdout' \in Seq(Write) /\ Len(stdout') = Len(stdout) + 1
  BY <1>1, AppendProperties
<1>3. Len(stdout) \in Nat /\ stdout'[Len(stdout) + 1] = x
  BY <1>1, AppendProperties, LenProperties
<1>4. \A i \in 1 .. Len(stdout) : stdout'[i] = stdout[i]
  BY <1>1, AppendProperties
<1>5. stdout' # <<>>
  BY <1>2, <1>3, EmptySeq
<1> QED
  BY <1>2, <1>3, <1>4, <1>5 DEF LastWrite

\* NoneSplit survives a write that starts a line at a line boundary, or that is
\* the next piece after the last write.
LEMMA NoneSplitAppend ==
  ASSUME OTypeOK, NoneSplit, NEW x \in Write, stdout' = Append(stdout, x),
         \/ StartsLine(x) /\ AtBoundary
         \/ ~ StartsLine(x) /\ stdout # <<>> /\ x = [LastWrite EXCEPT !.piece = @ + 1]
  PROVE  NoneSplit'
<1> DEFINE n == Len(stdout)
<1>1. /\ LastWrite' = x /\ Len(stdout') = n + 1 /\ n \in Nat
      /\ \A i \in 1 .. n : stdout'[i] = stdout[i]
  BY AppendedWrite
<1>2. stdout' \in Seq(Write) /\ stdout \in Seq(Write)
  BY AppendProperties DEF OTypeOK
<1>3. DOMAIN stdout' = 1 .. n + 1 /\ DOMAIN stdout = 1 .. n
  BY <1>1, <1>2, LenProperties
<1>4. stdout'[n + 1] = x
  BY <1>1 DEF LastWrite
<1>5. stdout = <<>> <=> n = 0
  BY <1>2, EmptySeq
<1> SUFFICES ASSUME NEW i \in 1 .. n + 1
             PROVE IF StartsLine(stdout'[i])
                     THEN i = 1 \/ EndsLine(stdout'[i - 1])
                     ELSE /\ i > 1
                          /\ stdout'[i] = [stdout'[i - 1] EXCEPT !.piece = @ + 1]
  BY <1>3 DEF NoneSplit, StartsLine, EndsLine, FirstPiece, LastPiece
<1>6. CASE i <= n
  <2>1. i \in 1 .. n /\ stdout'[i] = stdout[i] /\ (i > 1 => stdout'[i - 1] = stdout[i - 1])
    BY <1>1, <1>6
  <2> QED
    BY <2>1, <1>1, <1>3 DEF NoneSplit
<1>7. CASE i = n + 1
  <2>1. n > 0 => stdout'[n] = stdout[n] /\ LastWrite = stdout[n]
    BY <1>1 DEF LastWrite
  <2>2. n > 0 => stdout'[i - 1] = LastWrite
    BY <2>1, <1>1, <1>7
  <2>3. CASE StartsLine(x) /\ AtBoundary
    BY <2>2, <2>3, <1>1, <1>4, <1>5, <1>7 DEF AtBoundary
  <2>4. CASE ~ StartsLine(x) /\ stdout # <<>> /\ x = [LastWrite EXCEPT !.piece = @ + 1]
    BY <2>2, <2>4, <1>1, <1>4, <1>5, <1>7
  <2> QED
    BY <2>3, <2>4
<1> QED
  BY <1>1, <1>6, <1>7

\* A step that writes nothing and moves no one between pieces.
LEMMA NoWrite ==
  ASSUME OIInv, ~ write_failed, UNCHANGED <<stdout, piece>>,
         \A v \in Worker : piece[v] # FirstPiece => lines'[v] = lines[v]
  PROVE  Streaming' /\ Boundary' /\ NoneSplit'
  BY DEF OIInv, Streaming, Boundary, AtBoundary, NoneSplit, LastWrite, Current,
         StartsLine, EndsLine, FirstPiece, LastPiece

\* While a thread holds the lock to flush or to start streaming, stdout ends at a
\* line boundary.
LEMMA HolderAtBoundary ==
  ASSUME OIInv, ~ write_failed, NEW w \in Worker, Holding(w), piece[w] = FirstPiece
  PROVE  AtBoundary /\ \A v \in Worker : piece[v] = FirstPiece
<1>1. \A v \in Worker : piece[v] # FirstPiece => Holding(v)
  BY DEF OIInv, OSafe, OShape, OShapeOf, Holding
<1>2. \A v \in Worker : piece[v] = FirstPiece
  BY <1>1 DEF OIInv, OSafe, OutMutex
<1> QED
  BY <1>2 DEF OIInv, Boundary

\* That a write has failed is never forgotten.
LEMMA FailureStays ==
  ASSUME OSafe, [OMoves]_ovars, ~ write_failed'
  PROVE  ~ write_failed
  BY DEF OMoves, OMove, Printing, ovars, history, OSafe, OTypeOK, StartFile, EndFile,
         PrintLine, AppendRaw, LockAcquire, FlushWrite, FlushUnlock, WritePiece,
         StreamUnlock, FinalFlush, SysWrite

\* As long as no write has failed, every step keeps Streaming, Boundary and NoneSplit.
LEMMA WholeStep ==
  ASSUME ~ write_failed', OIInv, [OMoves]_ovars
  PROVE  Streaming' /\ Boundary' /\ NoneSplit'
<1>0. OTypeOK /\ OShape
  BY DEF OIInv, OSafe
<1>w. ~ write_failed
  BY FailureStays DEF OIInv
<1> USE <1>0, <1>w
<1> DEFINE G == Streaming' /\ Boundary' /\ NoneSplit'
<1> SUFFICES G
  OBVIOUS
<1>1. ASSUME NEW w \in Worker, NEW f \in File, StartFile(w, f) PROVE G
  BY <1>1, NoWrite DEF StartFile, OAt, OShape, OShapeOf, OTypeOK
<1>2. ASSUME NEW w \in Worker, EndFile(w) PROVE G
  BY <1>2, NoWrite DEF EndFile, OAt, OShape, OShapeOf, OTypeOK
<1>3. ASSUME NEW w \in Worker, PrintLine(w) PROVE G
  BY <1>3, NoWrite DEF PrintLine, OAt, OShape, OShapeOf, OTypeOK
<1>4. ASSUME NEW w \in Worker, AppendRaw(w) PROVE G
  BY <1>4, NoWrite DEF AppendRaw, OAt, OShape, OShapeOf, OTypeOK
<1>5. ASSUME NEW w \in Worker, LockAcquire(w) PROVE G
  BY <1>5, NoWrite DEF LockAcquire, OAt, OShape, OShapeOf, OTypeOK
<1>6. ASSUME NEW w \in Worker, FlushUnlock(w) PROVE G
  BY <1>6, NoWrite DEF FlushUnlock, OAt, OShape, OShapeOf, OTypeOK
<1>7. ASSUME NEW w \in Worker, StreamUnlock(w) PROVE G
  BY <1>7, NoWrite DEF StreamUnlock, OAt, OShape, OShapeOf, OTypeOK
<1>8. ASSUME NEW w \in Worker, FinalFlush(w) PROVE G
  BY <1>8, NoWrite DEF FinalFlush, OAt, OShape, OShapeOf, OTypeOK
<1>9. ASSUME NEW w \in Worker, FlushWrite(w) PROVE G
  <2> DEFINE x == [by |-> w, lines |-> outbuf[w], piece |-> 0]
  <2>1. piece[w] = FirstPiece /\ Holding(w)
    BY <1>9 DEF FlushWrite, OAt, OShape, OShapeOf, Holding
  <2>2. AtBoundary /\ \A v \in Worker : piece[v] = FirstPiece
    BY <2>1, HolderAtBoundary
  <2>3. x \in Write
    BY PieceRange DEF OTypeOK, Write
  <2>4. stdout' = Append(stdout, x) /\ piece' = piece
    BY <1>9 DEF FlushWrite, SysWrite
  <2>5. NoneSplit'
    BY <2>2, <2>3, <2>4, NoneSplitAppend DEF OIInv, StartsLine
  <2>6. stdout' # <<>> /\ LastWrite' = x
    BY <2>3, <2>4, AppendedWrite
  <2>7. AtBoundary'
    BY <2>6 DEF AtBoundary, EndsLine
  <2>8. FirstPiece' = FirstPiece
    BY DEF FirstPiece
  <2> QED
    BY <2>2, <2>4, <2>5, <2>7, <2>8 DEF Streaming, Boundary
<1>10. ASSUME NEW w \in Worker, WritePiece(w) PROVE G
  <2> DEFINE x == [by |-> w, lines |-> <<Current(w)>>, piece |-> piece[w]]
  <2>1. Holding(w) /\ lines[w] # <<>> /\ piece[w] \in FirstPiece .. LastPiece
    BY <1>10 DEF WritePiece, OAt, OShape, OShapeOf, Holding
  <2>2. x \in Write
    <3>1. <<Current(w)>> \in Seq(Line)
      BY <2>1, CurrentType
    <3>2. piece[w] \in 0 .. LastPiece
      BY PieceRange DEF OTypeOK
    <3> QED
      BY <3>1, <3>2 DEF Write
  <2>3. stdout' = Append(stdout, x) /\ lines' = lines
    BY <1>10 DEF WritePiece, SysWrite
  <2>4. stdout' # <<>> /\ LastWrite' = x
    BY <2>2, <2>3, AppendedWrite
  <2>5. \A v \in Worker \ {w} : piece[v] = FirstPiece /\ piece'[v] = piece[v]
    BY <1>10, <2>1 DEF WritePiece, OIInv, OSafe, OutMutex, OShape, OShapeOf, Holding, OTypeOK
  <2>6. NoneSplit'
    <3>1. CASE piece[w] = FirstPiece
      BY <3>1, <2>1, <2>2, <2>3, HolderAtBoundary, NoneSplitAppend DEF OIInv, StartsLine
    <3>2. CASE piece[w] # FirstPiece
      <4>1. ~ StartsLine(x)
        BY <3>2, <2>1, PieceRange DEF StartsLine
      <4>2. stdout # <<>>
        BY <3>2 DEF OIInv, Streaming
      <4>3. LastWrite = [by |-> w, lines |-> <<Current(w)>>, piece |-> piece[w] - 1]
        BY <3>2 DEF OIInv, Streaming
      <4>4. x = [LastWrite EXCEPT !.piece = @ + 1]
        BY <4>3, <2>1, PieceRange
      <4> QED
        BY <4>1, <4>2, <4>4, <2>2, <2>3, NoneSplitAppend DEF OIInv
    <3> QED
      BY <3>1, <3>2
  <2>7. CASE piece[w] = LastPiece
    <3>1. \A v \in Worker : piece'[v] = FirstPiece
      <4>1. piece' = [piece EXCEPT ![w] = FirstPiece]
        BY <1>10, <2>7 DEF WritePiece
      <4>2. piece'[w] = FirstPiece
        BY <4>1 DEF OTypeOK
      <4> QED
        BY <2>5, <4>2
    <3>2. AtBoundary'
      BY <2>4, <2>7 DEF AtBoundary, EndsLine
    <3> QED
      BY <2>6, <3>1, <3>2 DEF Streaming, Boundary, FirstPiece
  <2>8. CASE piece[w] # LastPiece
    <3>1. piece'[w] = piece[w] + 1 /\ piece'[w] # FirstPiece
      BY <1>10, <2>1, <2>8, PieceRange DEF WritePiece, OTypeOK
    <3>2. LastWrite' = [by |-> w, lines |-> <<Current(w)>>, piece |-> piece'[w] - 1]
      BY <3>1, <2>1, <2>4, PieceRange
    <3>3. Current(w)' = Current(w)
      BY <2>3 DEF Current
    <3>4. FirstPiece' = FirstPiece
      BY DEF FirstPiece
    <3>5. Streaming'
      BY <2>4, <2>5, <3>2, <3>3, <3>4 DEF Streaming
    <3>6. Boundary'
      BY <3>1, <3>4 DEF Boundary
    <3> QED
      BY <2>6, <3>5, <3>6
  <2> QED
    BY <2>7, <2>8
<1>11. CASE UNCHANGED ovars
  BY <1>11, NoWrite DEF ovars
<1> QED
  BY <1>1, <1>2, <1>3, <1>4, <1>5, <1>6, <1>7, <1>8, <1>9, <1>10, <1>11 DEF OMoves, OMove, Printing

-----------------------------------------------------------------------------
(* The order of the lines of a thread.                                     *)

\* What the write() call x adds to the lines of thread w.
Adds(w, x) == IF x.by = w /\ EndsLine(x) THEN x.lines ELSE <<>>
\* What each call added.
Added(w, out) == [i \in DOMAIN out |-> Adds(w, out[i])]

\* Each call adds lines, and the last one its own.
LEMMA AddedAppend ==
  ASSUME NEW w \in Worker, NEW out \in Seq(Write), NEW x \in Write
  PROVE  /\ Adds(w, x) \in Seq(Line) /\ Added(w, out) \in Seq(Seq(Line))
         /\ Added(w, Append(out, x)) = Append(Added(w, out), Adds(w, x))
<1> DEFINE F == [y \in Write |-> Adds(w, y)]
<1>1. F \in [Write -> Seq(Line)] /\ F[x] = Adds(w, x)
  BY DEF Adds, Write
<1>2. Append(out, x) \in Seq(Write)
  BY AppendProperties
<1>3. \A o \in Seq(Write) : Mapped(F, o) = Added(w, o)
  BY ElementOfSeq, LenProperties DEF Mapped, Added
<1> HIDE DEF F
<1>4. PICK T : T = Seq(Line)
  OBVIOUS
<1>5. PICK G \in [Write -> T] : G = F
  BY <1>1, <1>4
<1>6. PICK long : long = Append(out, x) /\ OneMore(long, out, x)
  BY DEF OneMore
<1>7. Mapped(G, out) \in Seq(T) /\ OneMore(Mapped(G, long), Mapped(G, out), G[x])
  BY <1>6, MapAppend
<1>8. G[x] = Adds(w, x) /\ Mapped(G, out) = Added(w, out)
  BY <1>1, <1>3, <1>5
<1>9. Mapped(G, long) = Added(w, long)
  <2>1. long \in Seq(Write)
    BY <1>2, <1>6
  <2>2. Mapped(F, long) = Added(w, long)
    BY <1>3, <2>1
  <2> QED
    BY <1>5, <2>2
<1>10. Added(w, Append(out, x)) = Append(Added(w, out), Adds(w, x))
  BY <1>6, <1>7, <1>8, <1>9 DEF OneMore
<1>11. Adds(w, x) \in Seq(Line) /\ Added(w, out) \in Seq(Seq(Line))
  BY <1>1, <1>4, <1>7, <1>8
<1> QED
  BY <1>10, <1>11

\* A write() adds its own lines to those its thread has shown.
LEMMA ShownAppend ==
  ASSUME OTypeOK, NEW w \in Worker
  PROVE  /\ Shown(w) \in Seq(Line)
         /\ \A x \in Write : stdout' = Append(stdout, x) => Shown(w)' = Shown(w) \o Adds(w, x)
<1>1. Shown(w) = FlattenSeq(Added(w, stdout)) /\ Shown(w)' = FlattenSeq(Added(w, stdout'))
  BY DEF Shown, Added, Adds, EndsLine, LastPiece
<1>2. stdout \in Seq(Write)
  BY DEF OTypeOK
<1>3. Write # {}
  <2>1. [by |-> w, lines |-> <<>>, piece |-> 0] \in Write
    BY PieceRange DEF Write
  <2> QED
    BY <2>1
<1>4. Added(w, stdout) \in Seq(Seq(Line))
  BY <1>2, <1>3, AddedAppend
<1>5. Shown(w) \in Seq(Line)
  BY <1>1, <1>4, FlattenSeqType
<1>6. ASSUME NEW x \in Write, stdout' = Append(stdout, x)
      PROVE  Shown(w)' = Shown(w) \o Adds(w, x)
  <2>1. Added(w, stdout') = Append(Added(w, stdout), Adds(w, x)) /\ Adds(w, x) \in Seq(Line)
    BY <1>2, <1>6, AddedAppend
  <2>2. FlattenSeq(Append(Added(w, stdout), Adds(w, x))) = FlattenSeq(Added(w, stdout)) \o Adds(w, x)
    BY <1>4, <2>1, FlattenSeqAppend
  <2> QED
    BY <1>1, <2>1, <2>2
<1> QED
  BY <1>5, <1>6

\* The lines shown stay as they are without a write, or with one that adds none.
LEMMA ShownSame ==
  ASSUME OTypeOK, NEW w \in Worker,
         \/ stdout' = stdout
         \/ \E x \in Write : stdout' = Append(stdout, x) /\ Adds(w, x) = <<>>
  PROVE  Shown(w)' = Shown(w)
<1>1. CASE stdout' = stdout
  BY <1>1 DEF Shown, EndsLine, LastPiece
<1>2. ASSUME NEW x \in Write, stdout' = Append(stdout, x), Adds(w, x) = <<>>
      PROVE  Shown(w)' = Shown(w)
  <2>1. Shown(w)' = Shown(w) \o <<>> /\ Shown(w) \in Seq(Line)
    BY <1>2, ShownAppend
  <2> QED
    BY <2>1, ConcatEmptySeq
<1> QED
  BY <1>1, <1>2

\* What thread w has printed, and still has to print, is what it found.
InOrder(w) == Shown(w) \o Unwritten(w) = found[w]

\* A thread's account stays in order when another one takes the step.
LEMMA OthersInOrder ==
  ASSUME OTypeOK, NEW v \in Worker, InOrder(v),
         opc'[v] = opc[v], lines'[v] = lines[v], outbuf'[v] = outbuf[v], found'[v] = found[v],
         stdout' = stdout \/ \E x \in Write : stdout' = Append(stdout, x) /\ x.by # v
  PROVE  InOrder(v)'
<1>1. Shown(v)' = Shown(v)
  BY ShownSame DEF Adds
<1>2. Unwritten(v)' = Unwritten(v)
  BY DEF Unwritten, OAt
<1> QED
  BY <1>1, <1>2 DEF InOrder

\* So it does when its own step writes nothing and moves no line.
LEMMA StaysInOrder ==
  ASSUME OTypeOK, NEW w \in Worker, InOrder(w), UNCHANGED <<stdout, found>>,
         Unwritten(w)' = Unwritten(w)
  PROVE  InOrder(w)'
<1>1. Shown(w)' = Shown(w)
  BY ShownSame
<1> QED
  BY <1>1 DEF InOrder

\* Lines printed, then held back, then still to come.
LEMMA Regroup ==
  \A s \in Seq(Line), t \in Seq(Line), u \in Seq(Line) : (s \o t) \o u = s \o (t \o u)
  BY ConcatAssociative

\* As long as no write has failed, every step keeps each thread's account in order.
LEMMA OrderStep ==
  ASSUME OSafe, \A v \in Worker : InOrder(v), [OMoves]_ovars, ~ write_failed'
  PROVE  \A v \in Worker : InOrder(v)'
<1>0. OTypeOK /\ OShape /\ HeldBack
  BY DEF OSafe
<1> USE <1>0
<1> DEFINE G == \A v \in Worker : InOrder(v)'
<1> SUFFICES G
  OBVIOUS
<1>t. \A v \in Worker : /\ outbuf[v] \in Seq(Line) /\ lines[v] \in Seq(Line)
                        /\ found[v] \in Seq(Line) /\ Shown(v) \in Seq(Line)
  BY ShownAppend DEF OTypeOK
<1>f. ASSUME NEW w \in Worker, InOrder(w)',
             \A v \in Worker \ {w} :
                /\ opc'[v] = opc[v] /\ lines'[v] = lines[v]
                /\ outbuf'[v] = outbuf[v] /\ found'[v] = found[v],
             stdout' = stdout \/ \E x \in Write : stdout' = Append(stdout, x) /\ x.by = w
      PROVE  G
  <2> SUFFICES ASSUME NEW v \in Worker PROVE InOrder(v)'
    OBVIOUS
  <2>1. CASE v = w
    BY <1>f, <2>1
  <2>2. CASE v # w
    BY <1>f, <2>2, OthersInOrder
  <2> QED
    BY <2>1, <2>2
<1>1. ASSUME NEW w \in Worker, NEW f \in File, StartFile(w, f) PROVE G
  <2> DEFINE ls == IF f \in Unreadable THEN <<>> ELSE LinesOf[f]
  <2>1. ls \in Seq(Line)
    BY FileAssumption
  <2>2. opc[w] = "idle" /\ opc' = [opc EXCEPT ![w] = "lines"] /\ lines' = [lines EXCEPT ![w] = ls]
        /\ found' = [found EXCEPT ![w] = found[w] \o ls] /\ outbuf' = outbuf /\ stdout' = stdout
    BY <1>1 DEF StartFile, OAt, OGoto, buffers
  <2> HIDE DEF ls
  <2>3. lines[w] = <<>>
    BY <2>2 DEF OShape, OShapeOf, HeldBack, HeldBackOf
  <2>4. Unwritten(w) = outbuf[w]
    BY <1>t, <2>2, <2>3, ConcatEmptySeq DEF Unwritten, OAt
  <2>5. Unwritten(w)' = outbuf[w] \o ls
    BY <2>2 DEF Unwritten, OAt, OTypeOK
  <2>6. Shown(w)' = Shown(w)
    BY <2>2, ShownSame
  <2>7. found'[w] = (Shown(w) \o outbuf[w]) \o ls
    BY <2>2, <2>4 DEF InOrder, OTypeOK
  <2>8. (Shown(w) \o outbuf[w]) \o ls = Shown(w) \o (outbuf[w] \o ls)
    BY <1>t, <2>1, Regroup
  <2>9. InOrder(w)'
    BY <2>5, <2>6, <2>7, <2>8 DEF InOrder
  <2> QED
    BY <1>f, <2>2, <2>9 DEF OTypeOK
<1>2. ASSUME NEW w \in Worker, EndFile(w) PROVE G
  <2>1. Unwritten(w)' = Unwritten(w)
    BY <1>2 DEF EndFile, OAt, OGoto, OTypeOK, Unwritten, buffers
  <2>2. InOrder(w)'
    BY <1>2, <2>1, StaysInOrder DEF EndFile, history
  <2> QED
    BY <1>2, <1>f, <2>2 DEF EndFile, OGoto, OTypeOK, buffers, history
<1>3. ASSUME NEW w \in Worker, PrintLine(w) PROVE G
  <2>1. Unwritten(w)' = Unwritten(w)
    BY <1>3 DEF PrintLine, OAt, OGoto, OTypeOK, Unwritten, buffers
  <2>2. InOrder(w)'
    BY <1>3, <2>1, StaysInOrder DEF PrintLine, history
  <2> QED
    BY <1>3, <1>f, <2>2 DEF PrintLine, OGoto, OTypeOK, buffers, history
<1>4. ASSUME NEW w \in Worker, AppendRaw(w) PROVE G
  <2>1. lines[w] # <<>> /\ opc[w] = "append"
    BY <1>4 DEF AppendRaw, OAt, OShape, OShapeOf
  <2>2. PICK l \in Line : l = Current(w) /\ Tail(lines[w]) \in Seq(Line)
    BY <2>1, CurrentType
  <2>3. /\ outbuf'[w] = Append(outbuf[w], l) /\ lines'[w] = Tail(lines[w]) /\ opc'[w] = "lines"
        /\ stdout' = stdout /\ found' = found
    BY <1>4, <2>2 DEF AppendRaw, OGoto, OTypeOK, history
  <2>4. lines[w] = <<l>> \o Tail(lines[w])
    BY <1>t, <2>1, <2>2 DEF Current
  <2>5. Append(outbuf[w], l) = outbuf[w] \o <<l>> /\ <<l>> \in Seq(Line)
    BY <1>t, <2>2, AppendIsConcat
  <2>6. Append(outbuf[w], l) \o Tail(lines[w]) = outbuf[w] \o lines[w]
    <3>1. PICK t \in Seq(Line) : t = Tail(lines[w])
      BY <2>2
    <3>2. PICK u \in Seq(Line) : u = <<l>>
      BY <2>5
    <3>3. PICK b \in Seq(Line) : b = outbuf[w]
      BY <1>t
    <3>4. (b \o u) \o t = b \o (u \o t)
      BY Regroup
    <3> QED
      BY <2>4, <2>5, <3>1, <3>2, <3>3, <3>4
  <2>7. Unwritten(w)' = Unwritten(w)
    BY <2>1, <2>3, <2>6 DEF Unwritten, OAt
  <2>8. InOrder(w)'
    BY <2>3, <2>7, StaysInOrder
  <2> QED
    BY <1>4, <1>f, <2>8 DEF AppendRaw, OGoto, OTypeOK, history
<1>5. ASSUME NEW w \in Worker, LockAcquire(w) PROVE G
  <2>1. Unwritten(w)' = Unwritten(w)
    BY <1>5 DEF LockAcquire, OAt, OGoto, OTypeOK, Unwritten, buffers
  <2>2. InOrder(w)'
    BY <1>5, <2>1, StaysInOrder DEF LockAcquire, history
  <2> QED
    BY <1>5, <1>f, <2>2 DEF LockAcquire, OGoto, OTypeOK, buffers, history
<1>6. ASSUME NEW w \in Worker, FlushWrite(w) PROVE G
  <2> DEFINE x == [by |-> w, lines |-> outbuf[w], piece |-> 0]
  <2>1. x \in Write /\ Adds(w, x) = outbuf[w] /\ x.by = w
    BY PieceRange DEF OTypeOK, Write, Adds, EndsLine
  <2>2. stdout' = Append(stdout, x)
    BY <1>6 DEF FlushWrite, SysWrite
  <2>3. /\ opc[w] = "flush_write" /\ opc' = [opc EXCEPT ![w] = "flush_unlock"]
        /\ outbuf' = outbuf /\ lines' = lines /\ found' = found
    BY <1>6 DEF FlushWrite, OAt, OGoto, buffers
  <2> HIDE DEF x
  <2>4. Shown(w)' = Shown(w) \o outbuf[w]
    BY <2>1, <2>2, ShownAppend
  <2>5. Unwritten(w) = outbuf[w] \o lines[w] /\ Unwritten(w)' = lines[w]
    BY <2>3 DEF Unwritten, OAt, OTypeOK
  <2>6. (Shown(w) \o outbuf[w]) \o lines[w] = Shown(w) \o (outbuf[w] \o lines[w])
    BY <1>t, Regroup
  <2>7. InOrder(w)'
    BY <2>3, <2>4, <2>5, <2>6 DEF InOrder
  <2> QED
    BY <1>f, <2>1, <2>2, <2>3, <2>7 DEF OTypeOK
<1>7. ASSUME NEW w \in Worker, FlushUnlock(w) PROVE G
  <2>1. /\ opc[w] = "flush_unlock" /\ opc'[w] \in {"done", "stream", "append"}
        /\ outbuf'[w] = <<>> /\ lines' = lines /\ stdout' = stdout /\ found' = found
    BY <1>7 DEF FlushUnlock, OAt, OGoto, OTypeOK, history
  <2>2. Unwritten(w) = lines[w] /\ Unwritten(w)' = <<>> \o lines[w]
    BY <2>1 DEF Unwritten, OAt
  <2>3. InOrder(w)'
    BY <1>t, <2>1, <2>2, ConcatEmptySeq, StaysInOrder
  <2> QED
    BY <1>7, <1>f, <2>3 DEF FlushUnlock, OGoto, OTypeOK, history
<1>8. ASSUME NEW w \in Worker, WritePiece(w) PROVE G
  <2> DEFINE x == [by |-> w, lines |-> <<Current(w)>>, piece |-> piece[w]]
  <2>1. lines[w] # <<>> /\ opc[w] = "pieces" /\ outbuf[w] = <<>>
    BY <1>8 DEF WritePiece, OAt, OShape, OShapeOf, HeldBack, HeldBackOf
  <2>2. /\ Current(w) \in Line /\ Tail(lines[w]) \in Seq(Line) /\ <<Current(w)>> \in Seq(Line)
        /\ lines[w] = <<Current(w)>> \o Tail(lines[w])
    <3>1. Current(w) \in Line /\ Tail(lines[w]) \in Seq(Line)
      BY <2>1, CurrentType
    <3> QED
      BY <1>t, <2>1, <3>1 DEF Current
  <2>3. x \in Write /\ x.by = w
    BY <2>2, PieceRange DEF Write, OTypeOK
  <2>4. Adds(w, x) = IF piece[w] = LastPiece THEN <<Current(w)>> ELSE <<>>
    <3>1. piece[w] \in 1 .. 4
      BY PieceRange DEF OTypeOK
    <3>2. piece[w] # 0
      BY <3>1
    <3> QED
      BY <3>2 DEF Adds, EndsLine
  <2>5. stdout' = Append(stdout, x) /\ outbuf' = outbuf /\ lines' = lines /\ found' = found
    BY <1>8 DEF WritePiece, SysWrite, buffers
  <2>6. Unwritten(w) = lines[w]
    BY <1>t, <2>1, ConcatEmptySeq DEF Unwritten, OAt
  <2> HIDE DEF x
  <2>7. Shown(w)' = Shown(w) \o Adds(w, x)
    BY <2>3, <2>5, ShownAppend
  <2>8. CASE piece[w] = LastPiece
    <3>1. opc' = [opc EXCEPT ![w] = "end"]
      BY <1>8, <2>8 DEF WritePiece, OGoto
    <3>2. Unwritten(w)' = Tail(lines[w])
      BY <2>5, <3>1 DEF Unwritten, OAt, OTypeOK
    <3>3. Shown(w)' = Shown(w) \o <<Current(w)>>
      BY <2>4, <2>7, <2>8
    <3>4. (Shown(w) \o <<Current(w)>>) \o Tail(lines[w])
            = Shown(w) \o (<<Current(w)>> \o Tail(lines[w]))
      BY <1>t, <2>2, Regroup
    <3>5. InOrder(w)'
      BY <2>2, <2>5, <2>6, <3>2, <3>3, <3>4 DEF InOrder
    <3> QED
      BY <1>f, <2>3, <2>5, <3>1, <3>5 DEF OTypeOK
  <2>9. CASE piece[w] # LastPiece
    <3>1. opc' = opc
      BY <1>8, <2>9 DEF WritePiece
    <3>2. Unwritten(w)' = Unwritten(w)
      BY <2>5, <3>1 DEF Unwritten, OAt
    <3>3. Shown(w)' = Shown(w)
      BY <1>t, <2>4, <2>7, <2>9, ConcatEmptySeq
    <3>4. InOrder(w)'
      BY <2>5, <3>2, <3>3 DEF InOrder
    <3> QED
      BY <1>f, <2>3, <2>5, <3>1, <3>4
  <2> QED
    BY <2>8, <2>9
<1>9. ASSUME NEW w \in Worker, StreamUnlock(w) PROVE G
  <2>1. opc[w] = "end" /\ lines[w] # <<>> /\ outbuf[w] = <<>>
    BY <1>9 DEF StreamUnlock, OAt, OShape, OShapeOf, HeldBack, HeldBackOf
  <2>2. /\ opc'[w] = "lines" /\ lines'[w] = Tail(lines[w]) /\ outbuf' = outbuf
        /\ stdout' = stdout /\ found' = found
    BY <1>9 DEF StreamUnlock, OAt, OGoto, OTypeOK, buffers, history
  <2>3. Tail(lines[w]) \in Seq(Line)
    BY <2>1, CurrentType
  <2>4. Unwritten(w) = Tail(lines[w]) /\ Unwritten(w)' = <<>> \o Tail(lines[w])
    BY <2>1, <2>2 DEF Unwritten, OAt
  <2>5. InOrder(w)'
    BY <2>2, <2>3, <2>4, ConcatEmptySeq, StaysInOrder
  <2> QED
    BY <1>9, <1>f, <2>5 DEF StreamUnlock, OGoto, OTypeOK, buffers, history
<1>10. ASSUME NEW w \in Worker, FinalFlush(w) PROVE G
  <2>1. Unwritten(w)' = Unwritten(w)
    BY <1>10 DEF FinalFlush, OAt, OGoto, OTypeOK, Unwritten, buffers
  <2>2. InOrder(w)'
    BY <1>10, <2>1, StaysInOrder DEF FinalFlush, history
  <2> QED
    BY <1>10, <1>f, <2>2 DEF FinalFlush, OGoto, OTypeOK, buffers, history
<1>11. CASE UNCHANGED ovars
  BY <1>11, OthersInOrder DEF ovars, buffers, history
<1> QED
  BY <1>1, <1>2, <1>3, <1>4, <1>5, <1>6, <1>7, <1>8, <1>9, <1>10, <1>11 DEF OMoves, OMove, Printing

-----------------------------------------------------------------------------
(* The lines of all threads together.                                      *)

\* What the write() call x adds to the lines on stdout, and what each call added.
Shows(x) == IF EndsLine(x) THEN x.lines ELSE <<>>
AllAdded(out) == [i \in DOMAIN out |-> Shows(out[i])]

\* Each call adds lines, and the last one its own.
LEMMA AllAddedAppend ==
  ASSUME NEW out \in Seq(Write), NEW x \in Write
  PROVE  /\ Shows(x) \in Seq(Line) /\ AllAdded(out) \in Seq(Seq(Line))
         /\ AllAdded(Append(out, x)) = Append(AllAdded(out), Shows(x))
<1> DEFINE F == [y \in Write |-> Shows(y)]
<1>1. F \in [Write -> Seq(Line)] /\ F[x] = Shows(x)
  BY DEF Shows, Write
<1>2. Append(out, x) \in Seq(Write)
  BY AppendProperties
<1>3. \A o \in Seq(Write) : Mapped(F, o) = AllAdded(o)
  BY ElementOfSeq, LenProperties DEF Mapped, AllAdded
<1> HIDE DEF F
<1>4. PICK T : T = Seq(Line)
  OBVIOUS
<1>5. PICK G \in [Write -> T] : G = F
  BY <1>1, <1>4
<1>6. PICK long : long = Append(out, x) /\ OneMore(long, out, x)
  BY DEF OneMore
<1>7. Mapped(G, out) \in Seq(T) /\ OneMore(Mapped(G, long), Mapped(G, out), G[x])
  BY <1>6, MapAppend
<1>8. G[x] = Shows(x) /\ Mapped(G, out) = AllAdded(out)
  BY <1>1, <1>3, <1>5
<1>9. Mapped(G, long) = AllAdded(long)
  <2>1. long \in Seq(Write)
    BY <1>2, <1>6
  <2>2. Mapped(F, long) = AllAdded(long)
    BY <1>3, <2>1
  <2> QED
    BY <1>5, <2>2
<1>10. AllAdded(Append(out, x)) = Append(AllAdded(out), Shows(x))
  BY <1>6, <1>7, <1>8, <1>9 DEF OneMore
<1>11. Shows(x) \in Seq(Line) /\ AllAdded(out) \in Seq(Seq(Line))
  BY <1>1, <1>4, <1>7, <1>8
<1> QED
  BY <1>10, <1>11

\* A write() adds its lines to those on stdout.
LEMMA PrintedAppend ==
  ASSUME OTypeOK, NEW x \in Write
  PROVE  /\ Printed \in Seq(Line)
         /\ stdout' = Append(stdout, x) => Printed' = Printed \o Shows(x)
<1>1. Printed = FlattenSeq(AllAdded(stdout)) /\ Printed' = FlattenSeq(AllAdded(stdout'))
  BY DEF Printed, AllAdded, Shows, EndsLine, LastPiece
<1>2. stdout \in Seq(Write)
  BY DEF OTypeOK
<1>3. Shows(x) \in Seq(Line) /\ AllAdded(stdout) \in Seq(Seq(Line))
  BY <1>2, AllAddedAppend
<1>4. Printed \in Seq(Line)
  BY <1>1, <1>3, FlattenSeqType
<1>5. ASSUME stdout' = Append(stdout, x)
      PROVE  Printed' = Printed \o Shows(x)
  <2>1. AllAdded(stdout') = Append(AllAdded(stdout), Shows(x))
    BY <1>2, <1>5, AllAddedAppend
  <2>2. FlattenSeq(Append(AllAdded(stdout), Shows(x))) = FlattenSeq(AllAdded(stdout)) \o Shows(x)
    BY <1>3, FlattenSeqAppend
  <2> QED
    BY <1>1, <2>1, <2>2
<1> QED
  BY <1>4, <1>5

\* The lines each thread has shown.
AllShown == [w \in Worker |-> Shown(w)]

\* stdout holds the lines the threads have shown, each as often as they have shown it.
Merged == \A l : Times(l, Printed) = Among(l, AllShown)

\* At most one write() call.
Grows == stdout' = stdout \/ \E x \in Write : stdout' = Append(stdout, x)

LEMMA MergedInit == OInit => Merged
<1> SUFFICES ASSUME OInit PROVE Merged
  OBVIOUS
<1>1. stdout = <<>>
  BY DEF OInit
<1>2. FlattenSeq(<<>>) = <<>>
  <2>1. <<>> \in Seq(Seq(Line)) 
    OBVIOUS
  <2> QED
    BY <2>1, FlattenSeqType
<1>3. Printed = <<>> /\ \A w \in Worker : Shown(w) = <<>>
  BY <1>1, <1>2 DEF Printed, Shown
<1>4. \A w \in DOMAIN AllShown : AllShown[w] = <<>>
  BY <1>3 DEF AllShown
<1> QED
  BY <1>3, <1>4, TimesEmpty, AmongEmpty DEF Merged, Times

LEMMA MergedStep ==
  ASSUME IsFiniteSet(Worker), OTypeOK, Merged, Grows
  PROVE  Merged'
<1>1. CASE stdout' = stdout
  BY <1>1 DEF Merged, Printed, AllShown, Shown, EndsLine, LastPiece
<1>2. ASSUME NEW x \in Write, stdout' = Append(stdout, x)
      PROVE  Merged'
  <2> SUFFICES ASSUME NEW l PROVE Times(l, Printed') = Among(l, AllShown')
    BY DEF Merged
  <2>1. x.by \in Worker /\ Adds(x.by, x) = Shows(x) /\ Shows(x) \in Seq(Line)
    BY AllAddedAppend DEF Write, Adds, Shows
  <2>2. PICK w \in Worker : w = x.by
    BY <2>1
  <2>3. PICK ss \in [Worker -> Seq(Line)] : ss = AllShown
    BY ShownAppend DEF AllShown
  <2>4. PICK uu \in [Worker -> Seq(Line)] :
           uu = AllShown' /\ uu[w] = ss[w] \o Shows(x) /\ AlikeBut(ss, uu, Worker, w)
    <3>1. \A v \in Worker \ {w} : Shown(v)' = Shown(v)
      BY <1>2, <2>2, ShownSame DEF Adds
    <3>2. Shown(w) \in Seq(Line) /\ Shown(w)' = Shown(w) \o Shows(x)
      BY <1>2, <2>1, <2>2, ShownAppend
    <3>3. Shown(w) \o Shows(x) \in Seq(Line)
      BY <2>1, <3>2, ConcatProperties
    <3>4. AllShown' = [v \in Worker |-> Shown(v)'] /\ \A v \in Worker : ss[v] = Shown(v)
      BY <2>3 DEF AllShown
    <3>5. AllShown' \in [Worker -> Seq(Line)]
      BY <3>1, <3>2, <3>3, <3>4, ShownAppend
    <3> QED
      BY <3>1, <3>2, <3>4, <3>5 DEF AlikeBut
  <2>5. Among(l, uu) + Times(l, ss[w]) = Among(l, ss) + Times(l, uu[w])
    <3>1. /\ AlikeBut(ss, uu, Worker, w)
          /\ SeqFamily(ss, Worker, Line) /\ SeqFamily(uu, Worker, Line)
      BY <2>4 DEF SeqFamily
    <3> QED
      BY <3>1, AmongChange
  <2>6. Times(l, uu[w]) = Times(l, ss[w]) + Times(l, Shows(x))
    BY <2>1, <2>4, TimesConcat
  <2>7. Times(l, Printed') = Times(l, Printed) + Times(l, Shows(x))
    <3>1. Printed \in Seq(Line) /\ Printed' = Printed \o Shows(x)
      BY <1>2, PrintedAppend
    <3> QED
      BY <2>1, <3>1, TimesConcat
  <2>8. Times(l, Printed) = Among(l, ss)
    BY <2>3 DEF Merged
  <2>9. /\ Among(l, ss) \in Nat /\ Among(l, uu) \in Nat
        /\ Times(l, ss[w]) \in Nat /\ Times(l, Shows(x)) \in Nat
    <3>1. ss[w] \in Seq(Line)
      OBVIOUS
    <3> QED
      BY <2>1, <3>1, AmongType, TimesType
  <2>10. PICK a \in Nat, b \in Nat, c \in Nat, d \in Nat :
           a = Among(l, ss) /\ b = Among(l, uu) /\ c = Times(l, ss[w]) /\ d = Times(l, Shows(x))
    BY <2>9
  <2>11. b + c = a + (c + d) => b = a + d
    OBVIOUS
  <2>12. Times(l, Printed') = Among(l, uu)
    BY <2>5, <2>6, <2>7, <2>8, <2>10, <2>11
  <2> QED
    BY <2>4, <2>12
<1> QED
  BY <1>1, <1>2 DEF Grows

\* Every move of a thread makes at most one write() call.
LEMMA MoveGrows == OSafe /\ [OMoves]_ovars => Grows
<1> SUFFICES ASSUME OSafe, [OMoves]_ovars PROVE Grows
  OBVIOUS
<1>0. OTypeOK /\ OShape
  BY DEF OSafe
<1>1. ASSUME NEW w \in Worker, FlushWrite(w) PROVE Grows
  <2>1. [by |-> w, lines |-> outbuf[w], piece |-> 0] \in Write
    BY <1>0, PieceRange DEF OTypeOK, Write
  <2> QED
    BY <1>1, <2>1 DEF FlushWrite, SysWrite, Grows
<1>2. ASSUME NEW w \in Worker, WritePiece(w) PROVE Grows
  <2>1. lines[w] # <<>>
    BY <1>0, <1>2 DEF WritePiece, OAt, OShape, OShapeOf
  <2>2. <<Current(w)>> \in Seq(Line)
    BY <1>0, <2>1, CurrentType
  <2>3. [by |-> w, lines |-> <<Current(w)>>, piece |-> piece[w]] \in Write
    BY <1>0, <2>2, PieceRange DEF OTypeOK, Write
  <2> QED
    BY <1>2, <2>3 DEF WritePiece, SysWrite, Grows
<1>3. ASSUME NEW w \in Worker, OMove(w), ~ FlushWrite(w), ~ WritePiece(w) PROVE Grows
  BY <1>3 DEF OMove, Printing, StartFile, EndFile, PrintLine, AppendRaw, LockAcquire, FlushUnlock,
     StreamUnlock, FinalFlush, Grows
<1>4. CASE UNCHANGED ovars
  BY <1>4 DEF ovars, Grows
<1> QED
  BY <1>1, <1>2, <1>3, <1>4 DEF OMoves

-----------------------------------------------------------------------------
(* The theorems.                                                           *)

\* At the start nothing is buffered and nothing is written.
LEMMA OInitSafe == OInit => OIInv
<1> SUFFICES ASSUME OInit PROVE OIInv
  OBVIOUS
<1>1. \A w \in Worker : /\ opc[w] = "idle" /\ outlen[w] = 0 /\ file[w] = NoFile
                        /\ piece[w] = FirstPiece
  BY DEF OInit
<1>2. OTypeOK
  <2>1. outbuf \in [Worker -> Seq(Line)] /\ lines \in [Worker -> Seq(Line)]
    BY DEF OInit
  <2>2. found \in [Worker -> Seq(Line)] /\ stdout \in Seq(Write) /\ out_lock \in {0, 1}
    BY DEF OInit
  <2>3. file \in [Worker -> File \cup {NoFile}] /\ opc \in [Worker -> OPCs]
    BY DEF OInit, OPCs
  <2>4. piece \in [Worker -> 1 .. LastPiece] /\ outlen \in [Worker -> Nat]
    BY PieceRange DEF OInit
  <2>5. /\ match_found \in BOOLEAN /\ had_error \in BOOLEAN /\ write_failed \in BOOLEAN
        /\ searched \subseteq File
    BY DEF OInit
  <2> QED
    BY <2>1, <2>2, <2>3, <2>4, <2>5 DEF OTypeOK
<1>h. HeldBack /\ Reported
  BY DEF OInit, HeldBack, HeldBackOf, Reported
<1>3. OSafe
  BY <1>1, <1>2, <1>h, PieceRange, SizeAssumption
     DEF OSafe, OShape, OShapeOf, OutMutex, LockHeld, Holding, BufferBound
<1>4. Streaming /\ Boundary /\ NoneSplit
  <2>1. stdout = <<>>
    BY DEF OInit
  <2> QED
    BY <1>1, <2>1 DEF Streaming, Boundary, AtBoundary, NoneSplit
<1> QED
  BY <1>3, <1>4 DEF OIInv

\* Every step keeps OSafe, failing writes included.
LEMMA OSafeStep == OSafe /\ [OMoves]_ovars => OSafe'
  BY OTypeStep, OShapeStep, OHeldStep, OReportedStep, OLockStep DEF OSafe

\* At the start every thread's account is in order.
LEMMA OInitOrder == OInit => OwnOrder
<1> SUFFICES ASSUME OInit, NEW w \in Worker PROVE InOrder(w)
  BY DEF OwnOrder, InOrder
<1>1. stdout = <<>> /\ outbuf[w] = <<>> /\ lines[w] = <<>> /\ found[w] = <<>> /\ opc[w] = "idle"
  BY DEF OInit
<1>2. Shown(w) = <<>>
  <2>1. Shown(w) = FlattenSeq(<<>>)
    BY <1>1 DEF Shown
  <2>2. <<>> \in Seq(Seq(Line))
    OBVIOUS
  <2> QED
    BY <2>1, <2>2, FlattenSeqType
<1>3. Unwritten(w) = <<>> \o <<>>
  BY <1>1 DEF Unwritten, OAt
<1> QED
  BY <1>1, <1>2, <1>3, ConcatEmptySeq DEF InOrder

\* The inductive invariant with the order of the lines.
OInv == OIInv /\ OwnOrder

\* It holds at the start, and every move of a thread keeps it.
LEMMA OInvInit == OInit => OInv
  BY OInitSafe, OInitOrder DEF OInv

LEMMA OInvStep == OInv /\ [OMoves]_ovars => OInv'
<1> SUFFICES ASSUME OInv, [OMoves]_ovars PROVE OInv'
  OBVIOUS
<1>1. OSafe /\ OSafe'
  BY OSafeStep DEF OInv, OIInv
<1>2. CASE write_failed'
  BY <1>1, <1>2 DEF OInv, OIInv, OwnOrder
<1>3. CASE ~ write_failed'
  <2>1. ~ write_failed
    BY <1>1, <1>3, FailureStays
  <2>2. Streaming' /\ Boundary' /\ NoneSplit'
    BY <1>3, WholeStep DEF OInv
  <2>3. \A v \in Worker : InOrder(v)'
    BY <1>1, <1>3, <2>1, OrderStep DEF OInv, OwnOrder, InOrder
  <2> QED
    BY <1>1, <2>2, <2>3 DEF OInv, OIInv, OwnOrder, InOrder
<1> QED
  BY <1>2, <1>3

\* had_error may also be set from outside the output path.
LEMMA ErrorFrame ==
  ASSUME OInv, had_error' \in BOOLEAN,
         UNCHANGED <<buffers, out_lock, stdout, file, lines, opc, piece, match_found, history>>
  PROVE  OInv'
<1>1. OTypeOK'
  BY DEF OInv, OIInv, OSafe, OTypeOK, buffers, history
<1>2. OShape' /\ HeldBack' /\ Reported'
  BY DEF OInv, OIInv, OSafe, OShape, OShapeOf, HeldBack, HeldBackOf, Reported, Current, buffers,
         history
<1>3. OutMutex' /\ LockHeld' /\ BufferBound'
  BY DEF OInv, OIInv, OSafe, OutMutex, LockHeld, BufferBound, Holding, buffers
<1>4. (Streaming => Streaming') /\ (Boundary => Boundary') /\ (NoneSplit => NoneSplit')
  BY DEF Streaming, Boundary, NoneSplit, AtBoundary, LastWrite, Current, StartsLine, EndsLine
<1>5. OwnOrder'
  BY DEF OInv, OwnOrder, Shown, Unwritten, OAt, EndsLine, buffers, history
<1> QED
  BY <1>1, <1>2, <1>3, <1>4, <1>5 DEF OInv, OIInv, OSafe, history

\* The inductive invariant of the output path, failing writes included, and with it
\* the order of each thread's lines.
THEOREM OInvariance == OSpec => []OInv
<1>1. OInv /\ [ONext]_ovars => OInv'
  BY OInvStep, OwnMoves
<1> QED
  BY OInvInit, <1>1, PTL DEF OSpec

\* No write, failed or not, breaks the inductive invariant of the output path.
THEOREM OSafety == OSpec => []OIInv
<1>1. OInv => OIInv
  BY DEF OInv
<1> QED
  BY <1>1, OInvariance, PTL

\* Only one thread at a time is between lock_acquire and lock_release.
THEOREM OutputMutex == OSpec => []OutMutex
<1>1. OIInv => OutMutex
  BY DEF OIInv, OSafe
<1> QED
  BY <1>1, OSafety, PTL

\* append_raw always has the room its caller guarantees.
THEOREM BufferNeverOverflows == OSpec => []BufferBound
<1>1. OIInv => BufferBound
  BY DEF OIInv, OSafe
<1> QED
  BY <1>1, OSafety, PTL

\* As long as no write() has failed, no line on stdout is split.
THEOREM WholeLines == OSpec => []LinesWhole
<1>1. OIInv => LinesWhole
  BY DEF OIInv, LinesWhole
<1> QED
  BY <1>1, OSafety, PTL

\* What a thread has printed and what it still holds back is, at every moment until
\* a write() fails, exactly what it found, in that order.
THEOREM OwnLinesInOrder == OSpec => []OwnOrder
<1>1. OInv => OwnOrder
  BY DEF OInv
<1> QED
  BY <1>1, OInvariance, PTL
=============================================================================
