------------------------ MODULE NativeProgramsProofs ------------------------
(***************************************************************************)
(* What the file pools promise, for every pool, every number of workers,   *)
(* every list of files and every buffer size: lines stay whole, no line is *)
(* lost or printed twice, and they come out in their order.                *)
(*                                                                         *)
(* PSafety is about single blocks and who writes them.  PDelivered is      *)
(* about all of them: FilePoolInvariant says which worker may have pieces  *)
(* of which file, where the pieces are and what comes out before what.     *)
(* Every part of it has a lemma that a step keeps it, and the theorems     *)
(* read off what comes out.                                                *)
(*                                                                         *)
(* Then the other parts of NativePrograms, the command line, the finding   *)
(* of files and the probe, each with an invariant of its own, and what all *)
(* of them promise together.                                               *)
(***************************************************************************)
EXTENDS NativeProgramsInvariant, CountingProofs

-----------------------------------------------------------------------------
(* Sequences of whole lines.                                               *)

\* No pieces are whole.
LEMMA WholeEmpty == ASSUME NEW list PROVE Whole(list, <<>>)
  BY EmptySeq DEF Whole

\* Sequences of pieces, one behind the other.
LEMMA ConcatPieces ==
  ASSUME NEW s \in Seq(Piece), NEW t \in Seq(Piece)
  PROVE  s \o t \in Seq(Piece) /\ Len(s \o t) = Len(s) + Len(t)
  BY ConcatProperties

\* Whole lines behind whole lines are whole lines.
LEMMA WholeConcat ==
  ASSUME NEW list, NEW s \in Seq(Piece), NEW t \in Seq(Piece), Whole(list, s), Whole(list, t)
  PROVE  s \o t \in Seq(Piece) /\ Whole(list, s \o t)
<1>1. /\ s \o t \in Seq(Piece) /\ Len(s) \in Nat /\ Len(t) \in Nat
      /\ Len(s \o t) = Len(s) + Len(t)
      /\ \A i \in 1 .. Len(s) + Len(t) :
           (s \o t)[i] = IF i <= Len(s) THEN s[i] ELSE t[i - Len(s)]
  BY ConcatProperties, LenProperties
<1>2. CASE s = <<>>
  <2>1. s \o t = t
    BY <1>2, ConcatEmptySeq
  <2> QED
    BY <2>1
<1>3. CASE t = <<>>
  <2>1. s \o t = s
    BY <1>3, ConcatEmptySeq
  <2> QED
    BY <2>1
<1>4. CASE s # <<>> /\ t # <<>>
  <2>1. Len(s) >= 1 /\ Len(t) >= 1
    BY <1>4, EmptySeq, <1>1
  <2>2. ASSUME NEW i \in 1 .. Len(s \o t) - 1
        PROVE  Follows(list, (s \o t)[i], (s \o t)[i + 1])
    <3>1. CASE i < Len(s)
      <4>1. (s \o t)[i] = s[i] /\ (s \o t)[i + 1] = s[i + 1] /\ i \in 1 .. Len(s) - 1
        BY <1>1, <3>1
      <4> QED
        BY <4>1 DEF Whole
    <3>2. CASE i = Len(s)
      <4>1. (s \o t)[i] = s[Len(s)] /\ (s \o t)[i + 1] = t[1]
        BY <1>1, <2>1, <3>2
      <4> QED
        BY <4>1, <1>4 DEF Whole, Follows
    <3>3. CASE i > Len(s)
      <4>1. i - Len(s) \in 1 .. Len(t) - 1 /\ i \in Int
        BY <1>1, <3>3
      <4>2. (s \o t)[i] = t[i - Len(s)] /\ (s \o t)[i + 1] = t[(i - Len(s)) + 1]
        <5>1. (i + 1) - Len(s) = (i - Len(s)) + 1
          BY <1>1, <4>1
        <5>2. i + 1 \in 1 .. Len(s) + Len(t) /\ ~ i + 1 <= Len(s) /\ ~ i <= Len(s)
          BY <1>1, <3>3
        <5> QED
          BY <1>1, <5>1, <5>2
      <4> QED
        BY <4>1, <4>2 DEF Whole
    <3> QED
      BY <3>1, <3>2, <3>3, <1>1
  <2>3. (s \o t)[1] = s[1] /\ (s \o t)[Len(s \o t)] = t[Len(t)]
    <3>1. (Len(s) + Len(t)) - Len(s) = Len(t) /\ ~ Len(s) + Len(t) <= Len(s)
      BY <1>1, <2>1
    <3> QED
      BY <1>1, <2>1, <3>1
  <2> QED
    BY <1>1, <1>4, <2>2, <2>3 DEF Whole
<1> QED
  BY <1>1, <1>2, <1>3, <1>4

\* Whatever the lines before the last piece are cut at, they are lines so far.
LEMMA WholePrefix ==
  ASSUME NEW list, NEW s \in Seq(Piece), NEW t \in Seq(Piece), Whole(list, s \o t)
  PROVE  /\ \A i \in 1 .. Len(s) - 1 : Follows(list, s[i], s[i + 1])
         /\ s # <<>> => s[1][3] = 1
<1>1. /\ s \o t \in Seq(Piece) /\ Len(s) \in Nat /\ Len(t) \in Nat
      /\ Len(s \o t) = Len(s) + Len(t)
      /\ \A i \in 1 .. Len(s) + Len(t) :
           (s \o t)[i] = IF i <= Len(s) THEN s[i] ELSE t[i - Len(s)]
  BY ConcatProperties, LenProperties
<1>2. ASSUME NEW i \in 1 .. Len(s) - 1 PROVE Follows(list, s[i], s[i + 1])
  <2>1. (s \o t)[i] = s[i] /\ (s \o t)[i + 1] = s[i + 1] /\ i \in 1 .. Len(s \o t) - 1
    BY <1>1
  <2> QED
    BY <2>1 DEF Whole
<1>3. ASSUME s # <<>> PROVE s[1][3] = 1
  <2>1. Len(s) >= 1
    BY <1>3, EmptySeq, <1>1
  <2>2. (s \o t)[1] = s[1] /\ s \o t # <<>>
    BY <1>1, <2>1, EmptySeq
  <2> QED
    BY <2>2 DEF Whole
<1> QED
  BY <1>2, <1>3

\* The pieces of a line are whole.
LEMMA WholePieces ==
  ASSUME NEW i \in Nat, NEW l \in Nat, files[i].lines[l] \in 1 .. MAX_LINE
  PROVE  Pieces(i, l) \in Seq(Piece) /\ Whole(files, Pieces(i, l))
<1> DEFINE n == files[i].lines[l]
           s == [p \in 1 .. n |-> <<i, l, p>>]
<1>1. n \in Nat \ {0}
  BY PoolAssumption
<1> HIDE DEF n
<1>2. s \in Seq(Piece) /\ Len(s) = n /\ \A p \in 1 .. n : s[p] = <<i, l, p>>
  <2>1. \A p \in 1 .. n : <<i, l, p>> \in Piece
    BY <1>1 DEF Piece
  <2>2. s \in [1 .. n -> Piece]
    BY <2>1
  <2>3. s \in Seq(Piece)
    BY <1>1, <2>2, SeqDef
  <2>4. Len(s) \in Nat /\ 1 .. Len(s) = 1 .. n
    BY <2>3, LenProperties
  <2> QED
    BY <1>1, <2>3, <2>4
<1>3. ASSUME NEW p \in 1 .. n PROVE Unfinished(files, <<i, l, p>>) <=> p < n
  BY DEF Unfinished, n
<1>4. ASSUME NEW p \in 1 .. n - 1 PROVE Follows(files, s[p], s[p + 1])
  <2>1. p \in 1 .. n /\ p + 1 \in 1 .. n /\ p < n
    BY <1>1
  <2>2. s[p] = <<i, l, p>> /\ s[p + 1] = <<i, l, p + 1>>
    BY <1>2, <2>1
  <2> QED
    BY <1>3, <2>1, <2>2 DEF Follows
<1>5. s[1][3] = 1 /\ ~ Unfinished(files, s[n])
  BY <1>1, <1>2, <1>3
<1>6. Whole(files, s)
  BY <1>2, <1>4, <1>5 DEF Whole
<1>7. Pieces(i, l) = s
  BY DEF Pieces, n
<1> QED
  BY <1>2, <1>6, <1>7

\* A piece that goes from the rest to the end of what is out changes nothing of both.
LEMMA Moved ==
  ASSUME NEW a \in Seq(Piece), NEW s \in Seq(Piece), s # <<>>
  PROVE  /\ Append(a, Head(s)) \in Seq(Piece) /\ Tail(s) \in Seq(Piece)
         /\ Append(a, Head(s)) \o Tail(s) = a \o s
<1>1. /\ Head(s) \in Piece /\ Head(s) = s[1] /\ Tail(s) \in Seq(Piece)
      /\ Len(Tail(s)) = Len(s) - 1
      /\ \A i \in 1 .. Len(Tail(s)) : Tail(s)[i] = s[i + 1]
  BY HeadTailProperties
<1>2. Len(a) \in Nat /\ Len(s) \in Nat \ {0}
  BY LenProperties, EmptySeq
<1> DEFINE b == Append(a, Head(s))
<1>3. /\ b \in Seq(Piece) /\ Len(b) = Len(a) + 1
      /\ \A i \in 1 .. Len(a) : b[i] = a[i]
      /\ b[Len(a) + 1] = s[1]
  BY <1>1, AppendProperties
<1> HIDE DEF b
<1>4. /\ b \o Tail(s) \in Seq(Piece) /\ Len(b \o Tail(s)) = Len(a) + Len(s)
      /\ \A i \in 1 .. Len(a) + Len(s) :
           (b \o Tail(s))[i] = IF i <= Len(a) + 1 THEN b[i] ELSE Tail(s)[i - (Len(a) + 1)]
  <2>1. Len(b) + Len(Tail(s)) = Len(a) + Len(s)
    BY <1>1, <1>2, <1>3
  <2>2. /\ b \o Tail(s) \in Seq(Piece) /\ Len(b \o Tail(s)) = Len(b) + Len(Tail(s))
        /\ \A i \in 1 .. Len(b) + Len(Tail(s)) :
             (b \o Tail(s))[i] = IF i <= Len(b) THEN b[i] ELSE Tail(s)[i - Len(b)]
    BY <1>1, <1>3, ConcatProperties
  <2> QED
    BY <1>3, <2>1, <2>2
<1>5. /\ a \o s \in Seq(Piece) /\ Len(a \o s) = Len(a) + Len(s)
      /\ \A i \in 1 .. Len(a) + Len(s) :
           (a \o s)[i] = IF i <= Len(a) THEN a[i] ELSE s[i - Len(a)]
  BY ConcatProperties
<1>6. ASSUME NEW i \in 1 .. Len(a) + Len(s) PROVE (b \o Tail(s))[i] = (a \o s)[i]
  <2>1. CASE i <= Len(a)
    BY <1>2, <1>3, <1>4, <1>5, <2>1
  <2>2. CASE i = Len(a) + 1
    BY <1>2, <1>3, <1>4, <1>5, <2>2
  <2>3. CASE i > Len(a) + 1
    <3>1. i - (Len(a) + 1) \in 1 .. Len(Tail(s)) /\ (i - (Len(a) + 1)) + 1 = i - Len(a)
      BY <1>1, <1>2, <2>3
    <3> QED
      BY <1>1, <1>2, <1>4, <1>5, <2>3, <3>1
  <2>4. i <= Len(a) \/ i = Len(a) + 1 \/ i > Len(a) + 1
    BY <1>2
  <2> QED
    BY <2>1, <2>2, <2>3, <2>4
<1>7. b \o Tail(s) = a \o s
  BY <1>2, <1>4, <1>5, <1>6, SeqEqual
<1> QED
  BY <1>1, <1>3, <1>7 DEF b

\* One piece more behind two sequences.
LEMMA AppendConcat ==
  ASSUME NEW a \in Seq(Piece), NEW b \in Seq(Piece), NEW e \in Piece
  PROVE  a \o Append(b, e) = Append(a \o b, e)
<1>1. <<e>> \in Seq(Piece) /\ a \o b \in Seq(Piece)
  BY ConcatProperties
<1>2. Append(b, e) = b \o <<e>> /\ Append(a \o b, e) = (a \o b) \o <<e>>
  BY <1>1, AppendIsConcat
<1> QED
  BY <1>1, <1>2, ConcatAssociative

-----------------------------------------------------------------------------
(* Files.                                                                  *)

\* A slice ends within the list.
LEMMA SliceInList ==
  ASSUME PTypeOK, NEW w \in 0 .. NWorkers
  PROVE  SliceEnd(w) \in 0 .. N
<1> DEFINE q == N \div NWorkers
           r == N % NWorkers
<1>1. N \in Nat /\ NWorkers \in Nat \ {0}
  BY PoolAssumption, LenProperties DEF PTypeOK, N
<1>2. q \in Nat /\ r \in 0 .. NWorkers - 1 /\ N = NWorkers * q + r
  BY <1>1
<1> DEFINE k == IF w < r THEN w ELSE r
<1>3. SliceEnd(w) = w * q + k
  BY DEF SliceEnd
<1> HIDE DEF q, r
<1>4. k \in 0 .. r
  BY <1>1, <1>2
<1>5. NWorkers * q = w * q + (NWorkers - w) * q /\ (NWorkers - w) * q \in Nat /\ w * q \in Nat
  BY <1>1, <1>2
<1> HIDE DEF k
<1> QED
  BY <1>1, <1>2, <1>3, <1>4, <1>5

\* The file a worker has open is one of the list.
LEMMA FileInHand ==
  ASSUME PTypeOK, PShape, NEW w \in Worker, pc[w] \in {"open", "search"}
  PROVE  at[w] \in 1 .. N /\ files[at[w]] \in Files
<1>1. at[w] \in Int /\ at[w] >= 1 /\ at[w] <= LastOf(w) /\ N \in Nat
  BY LenProperties DEF PTypeOK, PShape, PShapeOf, N
<1>2. LastOf(w) \in 0 .. N
  <2>1. w \in 0 .. NWorkers /\ N \in 0 .. N
    BY <1>1, PoolAssumption DEF Worker
  <2> QED
    BY <2>1, SliceInList DEF LastOf
<1>3. at[w] \in 1 .. N
  BY <1>1, <1>2
<1>4. files[at[w]] \in Files
  BY <1>3, ElementOfSeq DEF PTypeOK, N
<1> QED
  BY <1>3, <1>4

\* The next line of the file in hand: its pieces are whole.
LEMMA LineInHand ==
  ASSUME PTypeOK, PShape, NEW w \in Worker, More(w)
  PROVE  /\ at[w] \in Nat /\ line[w] \in Nat /\ Size(w) \in Nat \ {0}
         /\ Pieces(at[w], line[w]) \in Seq(Piece) /\ Whole(files, Pieces(at[w], line[w]))
         /\ Len(Pieces(at[w], line[w])) = Size(w)
<1>1. at[w] \in 1 .. N /\ files[at[w]] \in Files /\ N \in Nat
  BY FileInHand, LenProperties DEF More, At, N, PTypeOK
<1>2. files[at[w]].lines \in Seq(1 .. MAX_LINE)
  BY <1>1 DEF Files
<1>3. line[w] \in 1 .. Len(files[at[w]].lines)
  <2>1. Len(files[at[w]].lines) \in Nat
    BY <1>2, LenProperties
  <2>2. line[w] \in Nat /\ line[w] >= 1 /\ line[w] <= Len(files[at[w]].lines)
    BY DEF PTypeOK, PShape, PShapeOf, More, Lines
  <2> QED
    BY <2>1, <2>2
<1>4. files[at[w]].lines[line[w]] \in 1 .. MAX_LINE
  BY <1>2, <1>3, ElementOfSeq
<1>5. at[w] \in Nat /\ line[w] \in Nat
  BY <1>1 DEF PTypeOK
<1>6. Pieces(at[w], line[w]) \in Seq(Piece) /\ Whole(files, Pieces(at[w], line[w]))
  BY <1>4, <1>5, WholePieces
<1>7. Size(w) = files[at[w]].lines[line[w]] /\ Size(w) \in Nat \ {0}
  BY <1>4, PoolAssumption DEF Size, Lines
<1>8. Len(Pieces(at[w], line[w])) = Size(w)
  <2>1. DOMAIN Pieces(at[w], line[w]) = 1 .. Size(w)
    BY <1>7 DEF Pieces
  <2>2. 1 .. Len(Pieces(at[w], line[w])) = 1 .. Size(w) /\ Len(Pieces(at[w], line[w])) \in Nat
    BY <1>6, <2>1, LenProperties
  <2> QED
    BY <1>7, <2>2
<1> QED
  BY <1>5, <1>6, <1>7, <1>8

\* A block that is passed on goes to one of three places, as it is.
LEMMA PassStep ==
  ASSUME PTypeOK, BlocksWhole, NEW w \in Worker, NEW block \in Seq(Piece),
         Whole(files, block), Pass(w, block)
  PROVE  /\ mail' \in Seq(Seq(Piece)) /\ \A i \in 1 .. Len(mail') : Whole(files, mail'[i])
         /\ kept' \in Seq(Seq(Piece)) /\ \A i \in 1 .. Len(kept') : Whole(files, kept'[i])
         /\ \/ /\ sending' = [sending EXCEPT ![w] = block] /\ pc' = [pc EXCEPT ![w] = "lock"]
               /\ pool.to \in {"stdout", "stream"} /\ UNCHANGED mail
            \/ /\ UNCHANGED <<sending, pc>> /\ (mail' # mail => pool.to = "mail")
               /\ pool.to \notin {"stdout", "stream"}
<1>1. CASE pool.to \in {"stdout", "stream"}
  <2>1. /\ sending' = [sending EXCEPT ![w] = block] /\ pc' = [pc EXCEPT ![w] = "lock"]
        /\ UNCHANGED <<mail, kept>>
    BY <1>1 DEF Pass, Goto
  <2> QED
    BY <1>1, <2>1 DEF PTypeOK, BlocksWhole
<1>2. CASE pool.to = "mail"
  <2>1. mail' = Append(mail, block) /\ UNCHANGED <<sending, pc, kept>>
    BY <1>2 DEF Pass
  <2>2. /\ Append(mail, block) \in Seq(Seq(Piece)) /\ Len(Append(mail, block)) = Len(mail) + 1
        /\ \A i \in 1 .. Len(mail) : Append(mail, block)[i] = mail[i]
        /\ Append(mail, block)[Len(mail) + 1] = block
    BY AppendProperties DEF PTypeOK
  <2>3. ASSUME NEW i \in 1 .. Len(mail') PROVE Whole(files, mail'[i])
    <3>1. Len(mail) \in Nat
      BY LenProperties DEF PTypeOK
    <3>2. i \in 1 .. Len(mail) \/ i = Len(mail) + 1
      BY <2>1, <2>2, <3>1
    <3> QED
      BY <2>1, <2>2, <3>2 DEF BlocksWhole
  <2> QED
    BY <1>2, <2>1, <2>2, <2>3 DEF PTypeOK, BlocksWhole
<1>3. CASE pool.to = "kept"
  <2>1. kept' = [kept EXCEPT ![at[w]] = block] /\ UNCHANGED <<sending, pc, mail>>
    BY <1>3 DEF Pass
  <2>2. CASE at[w] \in 1 .. Len(kept)
    <3>1. /\ kept' \in Seq(Seq(Piece)) /\ Len(kept') = Len(kept)
          /\ \A i \in 1 .. Len(kept) : kept'[i] = IF i = at[w] THEN block ELSE kept[i]
      <4>1. kept \in Seq(Seq(Piece))
        BY DEF PTypeOK
      <4> QED
        BY <2>1, <2>2, <4>1, ExceptSeq
    <3> QED
      BY <1>3, <2>1, <3>1 DEF PTypeOK, BlocksWhole
  <2>3. CASE at[w] \notin 1 .. Len(kept)
    <3>1. kept \in [1 .. Len(kept) -> Seq(Piece)]
      BY LenProperties DEF PTypeOK
    <3>2. kept' = kept
      BY <2>1, <2>3, <3>1
    <3> QED
      BY <1>3, <2>1, <3>2 DEF PTypeOK, BlocksWhole
  <2> QED
    BY <2>2, <2>3
<1> QED
  BY <1>1, <1>2, <1>3 DEF Pass

\* Head and rest of what main still has.
LEMMA Received ==
  ASSUME NEW blocks \in Seq(Seq(Piece)), blocks # <<>>,
         \A i \in 1 .. Len(blocks) : Whole(files, blocks[i])
  PROVE  /\ Head(blocks) \in Seq(Piece) /\ Whole(files, Head(blocks))
         /\ Tail(blocks) \in Seq(Seq(Piece))
         /\ \A i \in 1 .. Len(Tail(blocks)) : Whole(files, Tail(blocks)[i])
<1>1. /\ Head(blocks) \in Seq(Piece) /\ Head(blocks) = blocks[1]
      /\ Tail(blocks) \in Seq(Seq(Piece)) /\ Len(Tail(blocks)) = Len(blocks) - 1
      /\ \A i \in 1 .. Len(Tail(blocks)) : Tail(blocks)[i] = blocks[i + 1]
  BY HeadTailProperties
<1>2. Len(blocks) \in Nat \ {0}
  BY LenProperties, EmptySeq
<1>3. \A i \in 1 .. Len(Tail(blocks)) : i + 1 \in 1 .. Len(blocks)
  BY <1>1, <1>2
<1> QED
  BY <1>1, <1>2, <1>3

-----------------------------------------------------------------------------
(* Types.                                                                  *)

LEMMA HandKinds == PTypeOK => pool.hand \in {"counter", "stride", "chunk"}
BY DEF PTypeOK, Programs

\* A worker's step keeps PTypeOK.
LEMMA StepType ==
  ASSUME PTypeOK, PShape, BlocksWhole, NEW w \in Worker, Step(w)
  PROVE  PTypeOK'
<1>1. CASE Take(w)
  <2>1. Claim(w) \in Int
    <3>1. w \in Int /\ NWorkers \in Int /\ w - 1 \in 0 .. NWorkers
      BY PoolAssumption DEF Worker
    <3> QED
      BY <3>1, HandKinds DEF Claim, PTypeOK
  <2>2. pc' \in [Worker -> Where]
    BY <1>1 DEF Take, Goto, PTypeOK, Where
  <2>3. at' \in [Worker -> Int] /\ line' \in [Worker -> Nat] /\ next' \in Nat \ {0}
    BY <1>1, <2>1 DEF Take, PTypeOK
  <2> QED
    BY <1>1, <2>2, <2>3 DEF Take, PTypeOK, input, output, N
<1>2. CASE Open(w)
  <2>1. pc' \in [Worker -> Where]
    BY <1>2 DEF Open, Goto, PTypeOK, Where
  <2> QED
    BY <1>2, <2>1 DEF Open, PTypeOK, input, work, output
<1>3. CASE PassKept(w)
  <2>1. buf[w] \in Seq(Piece) /\ Whole(files, buf[w]) /\ Pass(w, buf[w])
    BY <1>3 DEF PassKept, PTypeOK, BlocksWhole
  <2>2. /\ mail' \in Seq(Seq(Piece)) /\ kept' \in Seq(Seq(Piece))
        /\ \/ sending' = [sending EXCEPT ![w] = buf[w]] /\ pc' = [pc EXCEPT ![w] = "lock"]
           \/ UNCHANGED <<sending, pc>>
    BY <2>1, PassStep
  <2>3. sending' \in [Worker -> Seq(Piece)] /\ pc' \in [Worker -> Where]
    BY <2>1, <2>2 DEF PTypeOK, Where
  <2>4. <<>> \in Seq(Piece) /\ Len(<<>>) = 0 /\ CAP \in Nat
    BY EmptySeq, PoolAssumption
  <2>5. buf' = [buf EXCEPT ![w] = <<>>]
    BY <1>3 DEF PassKept
  <2>6. /\ buf' \in [Worker -> Seq(Piece)]
        /\ pool.keep = "room" => \A v \in Worker : Len(buf'[v]) <= CAP
    BY <2>4, <2>5 DEF PTypeOK
  <2> QED
    BY <1>3, <2>2, <2>3, <2>6 DEF PassKept, PTypeOK, input, work
<1>4. CASE PassLine(w)
  <2> DEFINE block == Pieces(at[w], line[w])
  <2>1. block \in Seq(Piece) /\ Whole(files, block) /\ Pass(w, block)
    BY <1>4, LineInHand DEF PassLine
  <2> HIDE DEF block
  <2>2. /\ mail' \in Seq(Seq(Piece)) /\ kept' \in Seq(Seq(Piece))
        /\ \/ sending' = [sending EXCEPT ![w] = block] /\ pc' = [pc EXCEPT ![w] = "lock"]
           \/ UNCHANGED <<sending, pc>>
    BY <2>1, PassStep
  <2>3. sending' \in [Worker -> Seq(Piece)] /\ pc' \in [Worker -> Where]
    BY <2>1, <2>2 DEF PTypeOK, Where
  <2>4. line' \in [Worker -> Nat] /\ matched' \in BOOLEAN
    BY <1>4 DEF PassLine, PTypeOK
  <2> QED
    BY <1>4, <2>2, <2>3, <2>4 DEF PassLine, PTypeOK, input
<1>5. CASE KeepLine(w)
  <2> DEFINE block == Pieces(at[w], line[w])
  <2>1. block \in Seq(Piece) /\ Len(block) = Size(w) /\ Size(w) \in Nat
    BY <1>5, LineInHand DEF KeepLine
  <2> HIDE DEF block
  <2>2. buf[w] \o block \in Seq(Piece) /\ Len(buf[w] \o block) = Len(buf[w]) + Size(w)
    <3>1. buf[w] \in Seq(Piece)
      BY DEF PTypeOK
    <3>2. buf[w] \o block \in Seq(Piece) /\ Len(buf[w] \o block) = Len(buf[w]) + Len(block)
      BY <2>1, <3>1, ConcatPieces
    <3> QED
      BY <2>1, <3>2
  <2>3. buf' = [buf EXCEPT ![w] = buf[w] \o block]
    BY <1>5 DEF KeepLine, block
  <2>4. buf' \in [Worker -> Seq(Piece)]
    BY <2>2, <2>3 DEF PTypeOK
  <2>5. ASSUME pool.keep = "room", NEW v \in Worker PROVE Len(buf'[v]) <= CAP
    <3>1. Size(w) <= CAP /\ CAP \in Nat
      BY <1>5, <2>1, <2>5, PoolAssumption DEF KeepLine
    <3>2. Len(buf[w]) + Size(w) <= CAP
      <4>1. CASE buf[w] = <<>>
        BY <3>1, <2>1, <4>1, EmptySeq
      <4>2. CASE buf[w] # <<>>
        <5>1. ~ (Len(buf[w]) + Size(w) > CAP)
          BY <1>5, <2>5, <3>1, <4>2 DEF KeepLine, MustPass
        <5> QED
          BY <5>1, <2>1, <3>1, LenProperties DEF PTypeOK
      <4> QED
        BY <4>1, <4>2
    <3> QED
      BY <2>2, <2>3, <2>5, <3>2 DEF PTypeOK
  <2>6. line' \in [Worker -> Nat] /\ matched' \in BOOLEAN
    BY <1>5 DEF KeepLine, PTypeOK
  <2> QED
    BY <1>5, <2>4, <2>5, <2>6 DEF KeepLine, PTypeOK, input, output
<1>6. CASE EndFile(w)
  <2>1. pc' \in [Worker -> Where]
    BY <1>6 DEF EndFile, Goto, PTypeOK, Where
  <2> QED
    BY <1>6, <2>1 DEF EndFile, PTypeOK, input, work, output
<1>7. CASE EndWork(w)
  <2>1. pc' \in [Worker -> Where]
    BY <1>7 DEF EndWork, Goto, PTypeOK, Where
  <2> QED
    BY <1>7, <2>1 DEF EndWork, PTypeOK, input, work, output
<1>8. CASE Lock(w)
  <2>1. pc' \in [Worker -> Where] /\ holder' \in 0 .. NWorkers
    BY <1>8, PoolAssumption DEF Lock, Goto, PTypeOK, Where, Worker
  <2> QED
    BY <1>8, <2>1 DEF Lock, PTypeOK, input, work, output
<1>9. CASE Write(w)
  <2>1. sending[w] \in Seq(Piece) /\ sending[w] # <<>> /\ stream \in Seq(Piece) /\ stdout \in Seq(Piece)
    BY <1>9 DEF Write, PTypeOK
  <2>2. /\ Tail(sending[w]) \in Seq(Piece)
        /\ Append(stdout, Head(sending[w])) \in Seq(Piece)
        /\ Append(stream, Head(sending[w])) \in Seq(Piece)
    BY <2>1, Moved
  <2>3. stdout \o Append(stream, Head(sending[w])) \in Seq(Piece) /\ <<>> \in Seq(Piece)
    BY <2>1, <2>2, ConcatProperties, EmptySeq
  <2>4. stdout' \in Seq(Piece) /\ stream' \in Seq(Piece)
    BY <1>9, <2>1, <2>2, <2>3 DEF Write
  <2>5. sending' \in [Worker -> Seq(Piece)]
    BY <1>9, <2>2 DEF Write, PTypeOK
  <2> QED
    BY <1>9, <2>4, <2>5 DEF Write, PTypeOK, input, work
<1>10. CASE Unlock(w)
  <2>1. pc' \in [Worker -> Where] /\ holder' \in 0 .. NWorkers
    BY <1>10, PoolAssumption DEF Unlock, Goto, PTypeOK, Where
  <2> QED
    BY <1>10, <2>1 DEF Unlock, PTypeOK, input, work, output
<1> QED
  BY <1>1, <1>2, <1>3, <1>4, <1>5, <1>6, <1>7, <1>8, <1>9, <1>10 DEF Step

\* So does main's.
LEMMA PTypeStep ==
  ASSUME PTypeOK, PShape, BlocksWhole, [PNext]_pvars
  PROVE  PTypeOK'
<1>0. stdout \o stream \in Seq(Piece) /\ <<>> \in Seq(Piece)
  BY ConcatProperties, EmptySeq DEF PTypeOK
<1>1. ASSUME NEW w \in Worker, Step(w) PROVE PTypeOK'
  BY <1>1, StepType
<1>2. CASE Receive
  <2>1. Head(mail) \in Seq(Piece) /\ Tail(mail) \in Seq(Seq(Piece))
    BY <1>2, HeadTailProperties DEF Receive, PTypeOK
  <2>2. stream \o Head(mail) \in Seq(Piece)
    BY <2>1, ConcatProperties DEF PTypeOK
  <2> QED
    BY <1>2, <2>1, <2>2 DEF Receive, PTypeOK, input, work
<1>3. CASE PrintKept
  <2>1. Head(kept) \in Seq(Piece) /\ Tail(kept) \in Seq(Seq(Piece))
    BY <1>3, HeadTailProperties DEF PrintKept, PTypeOK
  <2>2. stream \o Head(kept) \in Seq(Piece)
    BY <2>1, ConcatProperties DEF PTypeOK
  <2> QED
    BY <1>3, <2>1, <2>2 DEF PrintKept, PTypeOK, input, work
<1>4. CASE Finish
  BY <1>0, <1>4 DEF Finish, PTypeOK, input, work
<1>5. CASE Crash
  BY <1>0, <1>5 DEF Crash, PTypeOK, input, work
<1>6. CASE UNCHANGED pvars
  BY <1>6 DEF pvars, PTypeOK, input, work, output
<1> QED
  BY <1>1, <1>2, <1>3, <1>4, <1>5, <1>6 DEF PNext

-----------------------------------------------------------------------------
(* What a worker has in hand.                                              *)

\* The last file of a worker's share does not move.
LEMMA LastOfFrame ==
  ASSUME PTypeOK, UNCHANGED input, NEW w \in Worker
  PROVE  LastOf(w)' = LastOf(w) /\ LastOf(w) \in Int
<1>1. w \in 0 .. NWorkers /\ N \in Nat
  BY PoolAssumption, LenProperties DEF Worker, PTypeOK, N
<1>2. LastOf(w) \in Int
  BY <1>1, SliceInList DEF LastOf
<1>3. LastOf(w)' = LastOf(w)
  BY DEF input, LastOf, SliceEnd, N
<1> QED
  BY <1>2, <1>3

\* A step of w leaves what the others have alone.
LEMMA PShapeFrame ==
  ASSUME PTypeOK, PShape, UNCHANGED input, NEW w \in Worker, PShapeOf(w)',
         \A v \in Worker \ {w} :
           line'[v] = line[v] /\ at'[v] = at[v] /\ pc'[v] = pc[v] /\ sending'[v] = sending[v]
  PROVE  \A v \in Worker : PShapeOf(v)'
<1> SUFFICES ASSUME NEW v \in Worker, v # w PROVE PShapeOf(v)'
  OBVIOUS
<1>1. PShapeOf(v) /\ LastOf(v)' = LastOf(v) /\ pool' = pool
  BY LastOfFrame DEF PShape, input
<1> QED
  BY <1>1 DEF PShapeOf

\* Every step keeps PShape.
LEMMA PShapeStep ==
  ASSUME PTypeOK, PShape, BlocksWhole, [PNext]_pvars
  PROVE  PShape'
<1>1. ASSUME NEW w \in Worker, Step(w) PROVE PShape'
  <2>0. PShapeOf(w) /\ at[w] \in Int /\ line[w] \in Nat /\ NWorkers \in Nat \ {0}
    BY PoolAssumption DEF PTypeOK, PShape
  <2>1. CASE Take(w)
    <3>1. Claim(w) \in Int /\ Claim(w) >= 1
      BY <2>0, <2>1, HandKinds DEF Take, At, Claim, PShapeOf, PTypeOK
    <3>2. UNCHANGED <<pool, files, sending, stream, mail>> /\ at' = [at EXCEPT ![w] = Claim(w)]
          /\ line' = [line EXCEPT ![w] = 1]
          /\ pc' = [pc EXCEPT ![w] = IF Claim(w) > LastOf(w) THEN "end" ELSE "open"]
          /\ pc[w] = "take"
      BY <2>1 DEF Take, Goto, At, input, output
    <3>3. LastOf(w)' = LastOf(w) /\ LastOf(w) \in Int
      BY <3>2, LastOfFrame DEF input
    <3>4. /\ at'[w] = Claim(w) /\ line'[w] = 1 /\ sending'[w] = <<>>
          /\ pc'[w] = IF Claim(w) > LastOf(w) THEN "end" ELSE "open"
      BY <2>0, <3>2 DEF PTypeOK, PShapeOf
    <3>5. PShapeOf(w)'
      BY <3>1, <3>3, <3>4 DEF PShapeOf
    <3>6. \A v \in Worker : PShapeOf(v)'
      BY <3>2, <3>5, PShapeFrame DEF PTypeOK, input
    <3> QED
      BY <3>2, <3>6 DEF PShape
  <2>2. CASE Open(w) \/ EndFile(w) \/ EndWork(w)
    <3>1. /\ UNCHANGED <<pool, files, at, line, sending, stream, mail>>
          /\ pc' = [pc EXCEPT ![w] = pc'[w]] /\ pc[w] \in {"open", "search", "end"}
          /\ pc'[w] \in {"search", "dead", "take", "left"}
          /\ pc'[w] = "search" => pc[w] = "open"
      BY <2>2 DEF Open, EndFile, EndWork, Goto, At, input, work, output, PTypeOK
    <3>2. LastOf(w)' = LastOf(w)
      BY <3>1, LastOfFrame DEF input
    <3>3. PShapeOf(w)'
      BY <2>0, <3>1, <3>2 DEF PShapeOf
    <3>4. \A v \in Worker \ {w} : pc'[v] = pc[v]
      BY <3>1 DEF PTypeOK
    <3>5. \A v \in Worker : PShapeOf(v)'
      BY <3>1, <3>3, <3>4, PShapeFrame DEF PTypeOK, input
    <3> QED
      BY <3>1, <3>5 DEF PShape
  <2>3. CASE PassKept(w) \/ PassLine(w)
    <3>1. PICK block \in Seq(Piece) : Whole(files, block) /\ Pass(w, block)
      <4>1. CASE PassKept(w)
        BY <4>1 DEF PassKept, PTypeOK, BlocksWhole
      <4>2. CASE PassLine(w)
        BY <4>2, LineInHand DEF PassLine
      <4> QED
        BY <2>3, <4>1, <4>2
    <3>2. \/ /\ sending' = [sending EXCEPT ![w] = block] /\ pc' = [pc EXCEPT ![w] = "lock"]
             /\ pool.to \in {"stdout", "stream"} /\ UNCHANGED mail
          \/ UNCHANGED <<sending, pc>> /\ (mail' # mail => pool.to = "mail")
      BY <3>1, PassStep
    <3>3. /\ UNCHANGED <<pool, files, at, stream>>
          /\ line' = [line EXCEPT ![w] = line'[w]] /\ line'[w] >= 1
          /\ pc[w] \in {"search", "end"}
      <4>1. CASE PassKept(w)
        BY <2>0, <4>1 DEF PassKept, PShapeOf, PTypeOK, input, work
      <4>2. CASE PassLine(w)
        BY <2>0, <4>2 DEF PassLine, PTypeOK, input, At
      <4> QED
        BY <2>3, <4>1, <4>2
    <3>4. LastOf(w)' = LastOf(w)
      BY <3>3, LastOfFrame DEF input
    <3>5. PShapeOf(w)'
      BY <2>0, <3>2, <3>3, <3>4 DEF PShapeOf, PTypeOK
    <3>6. \A v \in Worker \ {w} :
            line'[v] = line[v] /\ at'[v] = at[v] /\ pc'[v] = pc[v] /\ sending'[v] = sending[v]
      BY <3>2, <3>3 DEF PTypeOK
    <3>7. \A v \in Worker : PShapeOf(v)'
      BY <3>3, <3>5, <3>6, PShapeFrame DEF input
    <3> QED
      BY <3>2, <3>3, <3>7 DEF PShape
  <2>4. CASE KeepLine(w)
    <3>1. /\ UNCHANGED <<pool, files, at, sending, pc, stream, mail>>
          /\ line' = [line EXCEPT ![w] = line[w] + 1]
      BY <2>4 DEF KeepLine, input, output
    <3>2. LastOf(w)' = LastOf(w)
      BY <3>1, LastOfFrame DEF input
    <3>3. PShapeOf(w)'
      BY <2>0, <3>1, <3>2 DEF PShapeOf, PTypeOK
    <3>4. \A v \in Worker : PShapeOf(v)'
      BY <3>1, <3>3, PShapeFrame DEF PTypeOK, input
    <3> QED
      BY <3>1, <3>4 DEF PShape
  <2>5. CASE Lock(w)
    <3>1. /\ UNCHANGED <<pool, files, at, line, sending, stream, mail>>
          /\ pc' = [pc EXCEPT ![w] = "write"] /\ pc[w] = "lock"
      BY <2>5 DEF Lock, Goto, At, input, work, output
    <3>2. LastOf(w)' = LastOf(w)
      BY <3>1, LastOfFrame DEF input
    <3>3. PShapeOf(w)'
      BY <2>0, <3>1, <3>2 DEF PShapeOf, PTypeOK
    <3>4. \A v \in Worker : PShapeOf(v)'
      BY <3>1, <3>3, PShapeFrame DEF PTypeOK, input
    <3> QED
      BY <3>1, <3>4 DEF PShape
  <2>6. CASE Write(w)
    <3>1. /\ UNCHANGED <<pool, files, at, line, pc, mail>>
          /\ sending' = [sending EXCEPT ![w] = Tail(sending[w])] /\ pc[w] = "write"
          /\ pool.to = "stdout" => stream' = stream
      BY <2>6 DEF Write, At, input, work
    <3>2. LastOf(w)' = LastOf(w)
      BY <3>1, LastOfFrame DEF input
    <3>3. PShapeOf(w)'
      BY <2>0, <3>1, <3>2 DEF PShapeOf, PTypeOK
    <3>4. \A v \in Worker : PShapeOf(v)'
      BY <3>1, <3>3, PShapeFrame DEF PTypeOK, input
    <3> QED
      BY <3>1, <3>4 DEF PShape
  <2>7. CASE Unlock(w)
    <3>1. /\ UNCHANGED <<pool, files, at, line, sending, stream, mail>>
          /\ pc' = [pc EXCEPT ![w] = IF at[w] > LastOf(w) THEN "end" ELSE "search"]
          /\ pc[w] = "write" /\ sending[w] = <<>>
      BY <2>7 DEF Unlock, Goto, At, input, work, output
    <3>2. LastOf(w)' = LastOf(w) /\ LastOf(w) \in Int
      BY <3>1, LastOfFrame DEF input
    <3>3. PShapeOf(w)'
      BY <2>0, <3>1, <3>2 DEF PShapeOf, PTypeOK
    <3>4. \A v \in Worker : PShapeOf(v)'
      BY <3>1, <3>3, PShapeFrame DEF PTypeOK, input
    <3> QED
      BY <3>1, <3>4 DEF PShape
  <2> QED
    BY <1>1, <2>1, <2>2, <2>3, <2>4, <2>5, <2>6, <2>7 DEF Step
<1>2. CASE Receive \/ PrintKept \/ Finish \/ Crash \/ UNCHANGED pvars
  <2>1. UNCHANGED <<pool, files, at, line, pc, sending>>
    BY <1>2 DEF Receive, PrintKept, Finish, Crash, pvars, input, work
  <2>2. ASSUME NEW v \in Worker PROVE PShapeOf(v)'
    <3>1. LastOf(v)' = LastOf(v) /\ PShapeOf(v)
      BY <2>1, LastOfFrame DEF input, PShape
    <3> QED
      BY <2>1, <3>1 DEF PShapeOf
  <2>3. pool.to = "stdout" => stream' = <<>>
    <3>1. CASE Receive
      BY <3>1 DEF Receive, PShape
    <3>2. CASE PrintKept
      BY <3>2 DEF PrintKept
    <3>3. CASE Finish \/ Crash \/ UNCHANGED pvars
      BY <3>3 DEF Finish, Crash, pvars, output, PShape
    <3> QED
      BY <1>2, <3>1, <3>2, <3>3
  <2>4. mail' # <<>> => pool.to = "mail"
    <3>1. CASE Receive
      BY <3>1 DEF Receive, PShape
    <3>2. CASE PrintKept \/ Finish \/ Crash \/ UNCHANGED pvars
      BY <3>2 DEF PrintKept, Finish, Crash, pvars, output, PShape
    <3> QED
      BY <1>2, <3>1, <3>2
  <2> QED
    BY <2>1, <2>2, <2>3, <2>4 DEF PShape
<1> QED
  BY <1>1, <1>2 DEF PNext

-----------------------------------------------------------------------------
(* The lock.                                                               *)

\* Of a worker's steps only three are about the lock; the others leave the output, the
\* lock and the blocks on their way alone.
LEMMA OffLock ==
  ASSUME PTypeOK, PShape, BlocksWhole, NEW w \in Worker, Step(w),
         ~ Lock(w), ~ Write(w), ~ Unlock(w)
  PROVE  /\ UNCHANGED <<pool, files, holder, stream, stdout>>
         /\ pc[w] # "write" /\ pc'[w] # "write"
         /\ \A v \in Worker \ {w} : pc'[v] = pc[v] /\ sending'[v] = sending[v]
<1>1. CASE Take(w) \/ Open(w) \/ EndFile(w) \/ EndWork(w)
  <2>1. /\ UNCHANGED <<pool, files, holder, stream, stdout, sending>>
        /\ pc[w] # "write" /\ pc' = [pc EXCEPT ![w] = pc'[w]] /\ pc'[w] # "write"
    BY <1>1 DEF Take, Open, EndFile, EndWork, Goto, At, input, output, PTypeOK
  <2> QED
    BY <2>1 DEF PTypeOK
<1>2. CASE KeepLine(w)
  <2>1. UNCHANGED <<pool, files, holder, stream, stdout, sending, pc>> /\ pc[w] = "search"
    BY <1>2 DEF KeepLine, At, input, output
  <2> QED
    BY <2>1
<1>3. CASE PassKept(w) \/ PassLine(w)
  <2>1. PICK block \in Seq(Piece) : Whole(files, block) /\ Pass(w, block)
    <3>1. CASE PassKept(w)
      BY <3>1 DEF PassKept, PTypeOK, BlocksWhole
    <3>2. CASE PassLine(w)
      BY <3>2, LineInHand DEF PassLine
    <3> QED
      BY <1>3, <3>1, <3>2
  <2>2. \/ sending' = [sending EXCEPT ![w] = block] /\ pc' = [pc EXCEPT ![w] = "lock"]
        \/ UNCHANGED <<sending, pc>>
    BY <2>1, PassStep
  <2>3. UNCHANGED <<pool, files, holder, stream, stdout>> /\ pc[w] \in {"search", "end"}
    BY <1>3 DEF PassKept, PassLine, At, input
  <2> QED
    BY <2>2, <2>3 DEF PTypeOK
<1> QED
  BY <1>1, <1>2, <1>3 DEF Step

\* Main leaves the workers and the lock alone.
LEMMA MainFrame ==
  ASSUME Receive \/ PrintKept \/ Finish \/ Crash \/ UNCHANGED pvars
  PROVE  UNCHANGED <<pool, files, pc, holder, buf, sending>>
  BY DEF Receive, PrintKept, Finish, Crash, pvars, input, work

\* Every step keeps OneWriter.
LEMMA OneWriterStep ==
  ASSUME PTypeOK, PShape, BlocksWhole, OneWriter, [PNext]_pvars
  PROVE  OneWriter'
<1>1. ASSUME NEW w \in Worker, Step(w) PROVE OneWriter'
  <2>0. \A v \in Worker : v # 0
    BY PoolAssumption DEF Worker
  <2>1. CASE Lock(w)
    <3>1. /\ pool' = pool /\ pc' = [pc EXCEPT ![w] = "write"]
          /\ pool.lock => holder = 0 /\ holder' = w
      BY <2>1 DEF Lock, Goto, input
    <3> QED
      BY <2>0, <3>1 DEF OneWriter, At, PTypeOK
  <2>2. CASE Write(w)
    BY <2>2 DEF Write, OneWriter, At, input
  <2>3. CASE Unlock(w)
    <3>1. /\ pool' = pool /\ pc[w] = "write" /\ (pool.lock => holder' = 0)
          /\ pc' = [pc EXCEPT ![w] = IF at[w] > LastOf(w) THEN "end" ELSE "search"]
      BY <2>3 DEF Unlock, Goto, At, input
    <3> QED
      BY <2>0, <3>1 DEF OneWriter, At, PTypeOK
  <2>4. CASE ~ Lock(w) /\ ~ Write(w) /\ ~ Unlock(w)
    <3>1. /\ UNCHANGED <<pool, holder>> /\ pc[w] # "write" /\ pc'[w] # "write"
          /\ \A v \in Worker \ {w} : pc'[v] = pc[v]
      BY <1>1, <2>4, OffLock
    <3> QED
      BY <3>1 DEF OneWriter, At
  <2> QED
    BY <2>1, <2>2, <2>3, <2>4
<1>2. CASE Receive \/ PrintKept \/ Finish \/ Crash \/ UNCHANGED pvars
  <2>1. UNCHANGED <<pool, pc, holder>>
    BY <1>2, MainFrame
  <2> QED
    BY <2>1 DEF OneWriter, At
<1> QED
  BY <1>1, <1>2 DEF PNext

-----------------------------------------------------------------------------
(* The blocks.                                                             *)

\* Every step keeps BlocksWhole.
LEMMA BlocksStep ==
  ASSUME PTypeOK, PShape, BlocksWhole, [PNext]_pvars
  PROVE  BlocksWhole'
<1>1. ASSUME NEW w \in Worker, Step(w) PROVE BlocksWhole'
  <2>1. CASE Take(w) \/ Open(w) \/ EndFile(w) \/ EndWork(w)
    <3>1. /\ UNCHANGED <<files, buf, sending, mail, kept>>
          /\ pc' = [pc EXCEPT ![w] = pc'[w]] /\ pc'[w] # "lock"
      BY <2>1 DEF Take, Open, EndFile, EndWork, Goto, At, input, output, PTypeOK
    <3>2. \A v \in Worker : pc'[v] = "lock" => pc[v] = "lock"
      BY <3>1 DEF PTypeOK
    <3> QED
      BY <3>1, <3>2 DEF BlocksWhole, At
  <2>2. CASE PassKept(w) \/ PassLine(w)
    <3>1. PICK block \in Seq(Piece) : Whole(files, block) /\ Pass(w, block)
      <4>1. CASE PassKept(w)
        BY <4>1 DEF PassKept, PTypeOK, BlocksWhole
      <4>2. CASE PassLine(w)
        BY <4>2, LineInHand DEF PassLine
      <4> QED
        BY <2>2, <4>1, <4>2
    <3>2. /\ \A i \in 1 .. Len(mail') : Whole(files, mail'[i])
          /\ \A i \in 1 .. Len(kept') : Whole(files, kept'[i])
          /\ \/ sending' = [sending EXCEPT ![w] = block] /\ pc' = [pc EXCEPT ![w] = "lock"]
             \/ UNCHANGED <<sending, pc>>
      BY <3>1, PassStep
    <3>3. files' = files /\ \A v \in Worker : buf'[v] = buf[v] \/ buf'[v] = <<>>
      BY <2>2 DEF PassKept, PassLine, input, PTypeOK
    <3>4. \A v \in Worker : Whole(files, buf'[v])
      BY <3>3, WholeEmpty DEF BlocksWhole
    <3>5. \A v \in Worker : pc'[v] = "lock" => Whole(files, sending'[v])
      BY <3>1, <3>2 DEF BlocksWhole, At, PTypeOK
    <3> QED
      BY <3>2, <3>3, <3>4, <3>5 DEF BlocksWhole, At
  <2>3. CASE KeepLine(w)
    <3> DEFINE block == Pieces(at[w], line[w])
    <3>1. block \in Seq(Piece) /\ Whole(files, block)
      BY <2>3, LineInHand DEF KeepLine
    <3>2. UNCHANGED <<files, sending, pc, mail, kept>> /\ buf' = [buf EXCEPT ![w] = buf[w] \o block]
      BY <2>3 DEF KeepLine, input, output
    <3> HIDE DEF block
    <3>3. buf[w] \in Seq(Piece) /\ Whole(files, buf[w])
      BY DEF PTypeOK, BlocksWhole
    <3>4. Whole(files, buf[w] \o block)
      BY <3>1, <3>3, WholeConcat
    <3>5. \A v \in Worker : Whole(files, buf'[v])
      BY <3>2, <3>4 DEF BlocksWhole, PTypeOK
    <3> QED
      BY <3>2, <3>5 DEF BlocksWhole, At
  <2>4. CASE Lock(w) \/ Write(w) \/ Unlock(w)
    <3>1. /\ UNCHANGED <<files, buf, mail, kept>>
          /\ \A v \in Worker : pc'[v] = "lock" => pc[v] = "lock" /\ sending'[v] = sending[v]
      BY <2>4 DEF Lock, Write, Unlock, Goto, At, input, output, PTypeOK
    <3> QED
      BY <3>1 DEF BlocksWhole, At
  <2> QED
    BY <1>1, <2>1, <2>2, <2>3, <2>4 DEF Step
<1>2. CASE Receive \/ PrintKept \/ Finish \/ Crash \/ UNCHANGED pvars
  <2>1. UNCHANGED <<files, pc, buf, sending>>
    BY <1>2, MainFrame
  <2>2. \A i \in 1 .. Len(mail') : Whole(files, mail'[i])
    <3>1. CASE Receive
      BY <3>1, Received DEF Receive, PTypeOK, BlocksWhole
    <3>2. CASE PrintKept \/ Finish \/ Crash \/ UNCHANGED pvars
      BY <3>2 DEF PrintKept, Finish, Crash, pvars, output, BlocksWhole
    <3> QED
      BY <1>2, <3>1, <3>2
  <2>3. \A i \in 1 .. Len(kept') : Whole(files, kept'[i])
    <3>1. CASE PrintKept
      BY <3>1, Received DEF PrintKept, PTypeOK, BlocksWhole
    <3>2. CASE Receive \/ Finish \/ Crash \/ UNCHANGED pvars
      BY <3>2 DEF Receive, Finish, Crash, pvars, output, BlocksWhole
    <3> QED
      BY <1>2, <3>1, <3>2
  <2> QED
    BY <2>1, <2>2, <2>3 DEF BlocksWhole, At
<1> QED
  BY <1>1, <1>2 DEF PNext

-----------------------------------------------------------------------------
(* The output.                                                             *)

\* A worker's step concerns nobody else.
LEMMA OthersStay ==
  ASSUME PTypeOK, NEW w \in Worker, Step(w)
  PROVE  /\ UNCHANGED <<pool, files, status>> /\ status = -1
         /\ \A v \in Worker : v # w =>
              /\ at'[v] = at[v] /\ line'[v] = line[v] /\ pc'[v] = pc[v]
              /\ buf'[v] = buf[v] /\ sending'[v] = sending[v]
<1>1. CASE Take(w) \/ Open(w) \/ EndFile(w) \/ EndWork(w) \/ Lock(w) \/ Write(w) \/ Unlock(w)
  BY <1>1 DEF Step, Take, Open, EndFile, EndWork, Lock, Write, Unlock, Goto, input, work, PTypeOK
<1>2. CASE PassKept(w) \/ PassLine(w) \/ KeepLine(w)
  BY <1>2 DEF Step, PassKept, PassLine, KeepLine, Pass, Goto, input, work, PTypeOK
<1> QED
  BY <1>1, <1>2 DEF Step

\* What depends on the program and the list alone stays.
LEMMA InputStays ==
  ASSUME UNCHANGED <<pool, files>>
  PROVE  /\ Precede' = Precede /\ N' = N /\ PoolSound' = PoolSound
         /\ \A w \in Worker : SliceEnd(w)' = SliceEnd(w) /\ LastOf(w)' = LastOf(w)
                              /\ SliceEnd(w - 1)' = SliceEnd(w - 1)
<1>1. N' = N
  BY DEF N
<1>2. \A w : SliceEnd(w)' = SliceEnd(w)
  BY <1>1 DEF SliceEnd
<1>3. \A w \in Worker : LastOf(w)' = LastOf(w)
  BY <1>1, <1>2 DEF LastOf
<1>4. \A p, q : MayPrecede(p, q)' = MayPrecede(p, q)
  BY DEF MayPrecede, SizeOf
<1>5. Precede' = Precede
  BY <1>4 DEF Precede
<1> QED
  BY <1>1, <1>2, <1>3, <1>5 DEF PoolSound

\* A worker that steps is neither gone nor dead, and has started.
LEMMA StepperAlive ==
  ASSUME NEW w \in Worker, Step(w)
  PROVE  pc[w] \notin {"left", "dead", "none"}
BY DEF Step, Take, Open, PassKept, PassLine, KeepLine, EndFile, EndWork, Lock, Write, Unlock, At

\* Nobody starts or is forgotten in the steps of the pool: who has not started stays so.
LEMMA NoneStay ==
  ASSUME PTypeOK, [PNext]_pvars
  PROVE  /\ UNCHANGED <<pool, files>> /\ N' = N
         /\ \A w \in Worker : LastOf(w)' = LastOf(w)
         /\ \A w \in Worker : pc'[w] = "none" <=> pc[w] = "none"
         /\ \A w \in Worker : pc[w] = "none" => at'[w] = at[w]
         /\ SliceInMain' <=> SliceInMain
         /\ \A i : MainHas(i)' <=> MainHas(i)
<1>1. /\ UNCHANGED <<pool, files>>
      /\ \A w \in Worker : pc'[w] = "none" <=> pc[w] = "none"
      /\ \A w \in Worker : pc[w] = "none" => at'[w] = at[w]
  <2>1. ASSUME NEW w \in Worker, Step(w)
        PROVE  /\ UNCHANGED <<pool, files>> /\ pc[w] # "none" /\ pc'[w] # "none"
               /\ \A v \in Worker : v # w => at'[v] = at[v] /\ pc'[v] = pc[v]
    <3>1. pc'[w] # "none"
      <4>1. CASE PassKept(w) \/ PassLine(w) \/ KeepLine(w)
        BY <4>1 DEF PassKept, PassLine, KeepLine, Pass, Goto, At, PTypeOK
      <4>2. CASE Take(w) \/ Open(w) \/ EndFile(w) \/ EndWork(w) \/ Lock(w) \/ Write(w) \/ Unlock(w)
        BY <4>2 DEF Take, Open, EndFile, EndWork, Lock, Write, Unlock, Goto, At, PTypeOK
      <4> QED
        BY <2>1, <4>1, <4>2 DEF Step
    <3> QED
      BY <2>1, <3>1, OthersStay, StepperAlive
  <2>2. CASE Receive \/ PrintKept \/ Finish \/ Crash \/ UNCHANGED pvars
    BY <2>2 DEF Receive, PrintKept, Finish, Crash, pvars, input, work
  <2> QED
    BY <2>1, <2>2 DEF PNext
<1>2. N' = N /\ \A w \in Worker : LastOf(w)' = LastOf(w)
  BY <1>1, InputStays
<1>3. SliceInMain' <=> SliceInMain
  BY <1>1, <1>2 DEF SliceInMain, At
<1>4. ASSUME NEW i PROVE MainHas(i)' <=> MainHas(i)
  BY <1>1, <1>2 DEF MainHas, At
<1> QED
  BY <1>1, <1>2, <1>3, <1>4

\* Every step keeps OutWhole: while somebody writes, the output and the rest of the
\* writer's block are whole lines together.
LEMMA OutStep ==
  ASSUME PTypeOK, PShape, OneWriter, BlocksWhole, OutWhole, [PNext]_pvars
  PROVE  OutWhole'
<1> SUFFICES ASSUME pool.lock', ~ SliceInMain
             PROVE  IF holder' = 0 THEN Whole(files', Out') ELSE Whole(files', Out' \o sending'[holder'])
  BY NoneStay DEF OutWhole
<1>0. /\ stdout \in Seq(Piece) /\ stream \in Seq(Piece) /\ Out \in Seq(Piece)
      /\ \A v \in Worker : v # 0 /\ sending[v] \in Seq(Piece)
      /\ holder \in Worker \cup {0}
  BY ConcatProperties, PoolAssumption DEF PTypeOK, Out, Worker
<1>1. ASSUME NEW w \in Worker, Step(w)
      PROVE  IF holder' = 0 THEN Whole(files', Out') ELSE Whole(files', Out' \o sending'[holder'])
  <2>1. CASE Lock(w)
    <3>1. /\ UNCHANGED <<pool, files, stream, stdout, sending>> /\ pc[w] = "lock"
          /\ holder = 0 /\ holder' = w
      BY <2>1 DEF Lock, At, input, output
    <3>2. Whole(files, Out) /\ Whole(files, sending[w])
      BY <3>1 DEF OutWhole, BlocksWhole, At
    <3>3. Whole(files, Out \o sending[w])
      BY <1>0, <3>2, WholeConcat
    <3> QED
      BY <1>0, <3>1, <3>3 DEF Out
  <2>2. CASE Write(w)
    <3> DEFINE s == sending[w]
    <3>1. /\ UNCHANGED <<pool, files, holder>> /\ pc[w] = "write" /\ s # <<>>
          /\ sending' = [sending EXCEPT ![w] = Tail(s)]
      BY <2>2 DEF Write, At, input
    <3>2. holder = w /\ Whole(files, Out \o s) /\ s \in Seq(Piece)
      BY <1>0, <3>1 DEF OneWriter, OutWhole, At
    <3> HIDE DEF s
    <3>3. /\ Append(Out, Head(s)) \o Tail(s) = Out \o s
      BY <1>0, <3>1, <3>2, Moved
    <3>4. Out' = Append(Out, Head(s))
      <4>1. CASE pool.to = "stdout" /\ stdout' = Append(stdout, Head(s)) /\ UNCHANGED stream
        <5>1. stream = <<>> /\ stream' = <<>>
          BY <4>1 DEF PShape
        <5>2. Append(stdout, Head(s)) \in Seq(Piece)
          BY <1>0, <3>1, <3>2, Moved
        <5> QED
          BY <1>0, <4>1, <5>1, <5>2, ConcatEmptySeq DEF Out
      <4>2. CASE stream' = Append(stream, Head(s)) /\ UNCHANGED stdout
        <5>1. Head(s) \in Piece
          BY <3>1, <3>2, HeadTailProperties
        <5>2. stdout \o Append(stream, Head(s)) = Append(stdout \o stream, Head(s))
          BY <1>0, <5>1, AppendConcat
        <5> QED
          BY <4>2, <5>2 DEF Out
      <4>3. CASE stdout' = stdout \o Append(stream, Head(s)) /\ stream' = <<>>
        <5>1. Head(s) \in Piece /\ Append(stream, Head(s)) \in Seq(Piece)
          BY <1>0, <3>1, <3>2, HeadTailProperties, Moved
        <5>2. stdout \o Append(stream, Head(s)) = Append(stdout \o stream, Head(s))
          BY <1>0, <5>1, AppendConcat
        <5>3. stdout \o Append(stream, Head(s)) \in Seq(Piece)
          BY <1>0, <5>1, ConcatProperties
        <5> QED
          BY <4>3, <5>2, <5>3, ConcatEmptySeq DEF Out
      <4> QED
        BY <2>2, <4>1, <4>2, <4>3 DEF Write, s
    <3>5. sending'[w] = Tail(s)
      BY <3>1 DEF PTypeOK
    <3> QED
      BY <1>0, <3>1, <3>2, <3>3, <3>4, <3>5
  <2>3. CASE Unlock(w)
    <3>1. /\ UNCHANGED <<pool, files, stream, stdout, sending>> /\ pc[w] = "write"
          /\ sending[w] = <<>> /\ holder' = 0
      BY <2>3 DEF Unlock, At, input, output
    <3>2. holder = w /\ Whole(files, Out \o <<>>)
      BY <1>0, <3>1 DEF OneWriter, OutWhole, At
    <3>3. Out \o <<>> = Out
      BY <1>0, ConcatEmptySeq
    <3> QED
      BY <3>1, <3>2, <3>3 DEF Out
  <2>4. CASE ~ Lock(w) /\ ~ Write(w) /\ ~ Unlock(w)
    <3>1. /\ UNCHANGED <<pool, files, holder, stream, stdout>> /\ pc[w] # "write"
          /\ \A v \in Worker \ {w} : sending'[v] = sending[v]
      BY <1>1, <2>4, OffLock
    <3>2. holder # 0 => holder \in Worker \ {w}
      BY <1>0, <3>1 DEF OneWriter, At
    <3> QED
      BY <3>1, <3>2 DEF OutWhole, Out
  <2> QED
    BY <2>1, <2>2, <2>3, <2>4
<1>2. CASE Receive \/ PrintKept
  <2>1. UNCHANGED <<pool, files, holder, stdout>>
    BY <1>2 DEF Receive, PrintKept, input
  <2>2. holder = 0
    <3>1. pool.to \notin {"stdout", "stream"}
      BY <1>2 DEF Receive, PrintKept, PShape
    <3>2. \A v \in Worker : pc[v] # "write"
      BY <3>1 DEF PShape, PShapeOf
    <3> QED
      BY <1>0, <2>1, <3>2 DEF OneWriter, At
  <2>3. PICK block \in Seq(Piece) : Whole(files, block) /\ stream' = stream \o block
    <3>1. CASE Receive
      BY <3>1, Received DEF Receive, PTypeOK, BlocksWhole
    <3>2. CASE PrintKept
      BY <3>2, Received DEF PrintKept, PTypeOK, BlocksWhole
    <3> QED
      BY <1>2, <3>1, <3>2
  <2>4. Out' = Out \o block
    BY <1>0, <2>1, <2>3, ConcatAssociative DEF Out
  <2>5. Whole(files, Out \o block)
    BY <1>0, <2>1, <2>2, <2>3, WholeConcat DEF OutWhole
  <2> QED
    BY <2>1, <2>2, <2>4, <2>5
<1>3. CASE Finish \/ Crash \/ UNCHANGED pvars
  <2>1. UNCHANGED <<pool, files, holder, sending>>
    BY <1>3 DEF Finish, Crash, pvars, input, work
  <2>2. Out' = Out
    <3>1. CASE stdout' = stdout \o stream /\ stream' = <<>>
      <4>1. Out \o <<>> = Out
        BY <1>0, ConcatEmptySeq
      <4> QED
        BY <3>1, <4>1 DEF Out
    <3>2. CASE UNCHANGED pvars
      BY <3>2 DEF pvars, output, Out
    <3> QED
      BY <1>3, <3>1, <3>2 DEF Finish, Crash
  <2> QED
    BY <2>1, <2>2 DEF OutWhole
<1> QED
  BY <1>1, <1>2, <1>3 DEF PNext

-----------------------------------------------------------------------------
(* The theorems.                                                           *)

\* The invariant holds when a program starts.
LEMMA PStartInv ==
  ASSUME NEW p \in Programs, NEW list \in Seq(Files), NEW l \in {"none", "take", "left"},
         PStart(p, list, l)
  PROVE  PIInv
<1>1. p \in Programs /\ list \in Seq(Files) /\ pool = p /\ files = list
  BY DEF PStart
<1>2. N \in Nat /\ NWorkers \in Nat \ {0} /\ <<>> \in Seq(Piece) /\ <<>> \in Seq(Seq(Piece))
      /\ Len(<<>>) = 0
  BY <1>1, PoolAssumption, LenProperties, EmptySeq DEF N
<1>3. kept \in Seq(Seq(Piece)) /\ Len(kept) \in Nat /\ \A i \in 1 .. Len(kept) : kept[i] = <<>>
  <2>1. kept = [i \in 1 .. N |-> <<>>]
    BY DEF PStart
  <2>2. kept \in [1 .. N -> Seq(Piece)] /\ DOMAIN kept = 1 .. N
    BY <1>2, <2>1
  <2>3. kept \in Seq(Seq(Piece))
    BY <1>2, <2>2, SeqDef
  <2>4. Len(kept) \in Nat /\ 1 .. Len(kept) = 1 .. N
    BY <2>2, <2>3, LenProperties
  <2> QED
    BY <2>1, <2>3, <2>4
<1>4. PTypeOK
  <2>1. \A w \in Worker : BeforeFirst(w) \in Int
    <3>1. ASSUME NEW w \in Worker PROVE w \in Int /\ w - 1 \in 0 .. NWorkers
      BY <1>2 DEF Worker
    <3>2. ASSUME NEW w \in Worker PROVE SliceEnd(w - 1) \in Int
      <4>1. N \div NWorkers \in Int /\ N % NWorkers \in Int
        BY <1>2
      <4> QED
        BY <3>1, <4>1 DEF SliceEnd
    <3> QED
      BY <1>1, <1>2, <3>1, <3>2 DEF BeforeFirst, Programs
  <2>2. pc \in [Worker -> Where] /\ at \in [Worker -> Int] /\ line \in [Worker -> Nat]
    BY <2>1 DEF PStart, Where
  <2>3. /\ buf \in [Worker -> Seq(Piece)] /\ sending \in [Worker -> Seq(Piece)]
        /\ \A w \in Worker : Len(buf[w]) <= CAP
    BY <1>2, PoolAssumption DEF PStart
  <2>4. /\ next = 1 /\ holder = 0 /\ mail = <<>> /\ stream = <<>> /\ stdout = <<>>
        /\ status = -1
    BY DEF PStart
  <2>5. matched \in BOOLEAN
    BY DEF PStart
  <2> QED
    BY <1>1, <1>2, <1>3, <2>2, <2>3, <2>4, <2>5 DEF PTypeOK
<1>5. PShape
  <2>1. ASSUME NEW w \in Worker PROVE PShapeOf(w)
    <3>1. w \in 1 .. NWorkers /\ w - 1 \in 0 .. NWorkers
      BY <1>2 DEF Worker
    <3>2. SliceEnd(w - 1) >= 0
      BY <1>2, <1>4, <3>1, SliceInList
    <3>3. at[w] = BeforeFirst(w) /\ pc[w] = l /\ line[w] = 1 /\ sending[w] = <<>>
      BY DEF PStart
    <3>4. BeforeFirst(w) >= IF pool.hand = "stride" THEN 1 - NWorkers ELSE 0
      BY <1>1, <1>2, <3>1, <3>2 DEF BeforeFirst, Programs
    <3> QED
      BY <3>3, <3>4 DEF PShapeOf
  <2> QED
    BY <2>1 DEF PStart, PShape
<1>6. OneWriter
  BY <1>2 DEF OneWriter, PStart, At, Worker
<1>7. BlocksWhole
  <2>1. \A w \in Worker : buf[w] = <<>> /\ pc[w] = l
    BY DEF PStart
  <2>2. mail = <<>> /\ 1 .. Len(mail) = {}
    BY <1>2 DEF PStart
  <2>3. Whole(files, <<>>)
    BY WholeEmpty
  <2> QED
    BY <1>3, <2>1, <2>2, <2>3 DEF BlocksWhole, At
<1>8. OutWhole
  <2>1. Out = <<>>
    BY <1>2, ConcatEmptySeq DEF Out, PStart
  <2> QED
    BY <2>1, WholeEmpty DEF OutWhole, PStart
<1> QED
  BY <1>4, <1>5, <1>6, <1>7, <1>8 DEF PIInv

LEMMA PInitInv == PInit => PIInv
BY ListAssumption, PStartInv DEF PInit

\* The inductive invariant of the pools: types, what a worker has in hand, the lock,
\* whole blocks, and whole output.
THEOREM PSafety == PSpec => []PIInv
<1>1. PIInv /\ [PNext]_pvars => PIInv'
  BY PTypeStep, PShapeStep, OneWriterStep, BlocksStep, OutStep DEF PIInv
<1> QED
  BY PInitInv, <1>1, PTL DEF PSpec

\* The variables keep their types, and where lines are kept as long as there is room a
\* buffer never holds more than CAP (ob_line).
THEOREM PTypeCorrect == PSpec => []PTypeOK
<1>1. PIInv => PTypeOK
  BY DEF PIInv
<1> QED
  BY PSafety, <1>1, PTL

\* Who holds the lock, whole blocks and whole output make whole lines.
LEMMA LinesRight == PIInv => LinesWhole
<1> SUFFICES ASSUME PIInv, pool.lock, ~ SliceInMain
             PROVE  /\ \A i \in 1 .. Len(Out) - 1 : Follows(files, Out[i], Out[i + 1])
                    /\ Out # <<>> => Out[1][3] = 1
  BY DEF LinesWhole
<1>1. Out \in Seq(Piece) /\ holder \in Worker \cup {0}
  BY ConcatProperties, PoolAssumption DEF PIInv, PTypeOK, Out, Worker
<1>2. CASE holder = 0
  BY <1>2 DEF PIInv, OutWhole, Whole
<1>3. CASE holder # 0
  <2>1. sending[holder] \in Seq(Piece) /\ Whole(files, Out \o sending[holder])
    BY <1>1, <1>3 DEF PIInv, PTypeOK, OutWhole
  <2> QED
    BY <1>1, <2>1, WholePrefix
<1> QED
  BY <1>2, <1>3

\* No line has another one's text inside it where a lock or one writer is in charge of
\* the output (ob_flush, Output.Put, write_out, main's own printing).
THEOREM PLinesWhole == PSpec => []LinesWhole
BY PSafety, LinesRight, PTL

-----------------------------------------------------------------------------
(* The pieces of sequences.                                                *)

\* Pieces are pieces, and a sequence without any is empty.
LEMMA PiecesType ==
  ASSUME NEW s \in Seq(Piece)
  PROVE  PiecesOf(s) \subseteq Piece /\ (s = <<>> <=> PiecesOf(s) = {})
<1>1. Len(s) \in Nat /\ \A k \in 1 .. Len(s) : s[k] \in Piece
  BY LenProperties, ElementOfSeq
<1>2. ASSUME s # <<>> PROVE s[1] \in PiecesOf(s)
  BY <1>1, <1>2, EmptySeq DEF PiecesOf
<1>3. PiecesOf(<<>>) = {}
  BY EmptySeq DEF PiecesOf
<1> QED
  BY <1>1, <1>2, <1>3 DEF PiecesOf

\* No pieces.
LEMMA PiecesEmpty == PiecesOf(<<>>) = {} /\ FilesOf(<<>>) = {} /\ PiecesIn(<<>>) = {}
  BY EmptySeq DEF PiecesOf, FilesOf, PiecesIn

\* One sequence behind the other.
LEMMA PiecesConcat ==
  ASSUME NEW s \in Seq(Piece), NEW t \in Seq(Piece)
  PROVE  /\ s \o t \in Seq(Piece)
         /\ PiecesOf(s \o t) = PiecesOf(s) \cup PiecesOf(t)
         /\ FilesOf(s \o t) = FilesOf(s) \cup FilesOf(t)
<1>1. /\ s \o t \in Seq(Piece) /\ Len(s) \in Nat /\ Len(t) \in Nat
      /\ Len(s \o t) = Len(s) + Len(t)
      /\ \A i \in 1 .. Len(s) + Len(t) :
           (s \o t)[i] = IF i <= Len(s) THEN s[i] ELSE t[i - Len(s)]
  BY ConcatProperties, LenProperties
<1>2. ASSUME NEW i \in 1 .. Len(s \o t) PROVE (s \o t)[i] \in PiecesOf(s) \cup PiecesOf(t)
  <2>1. CASE i <= Len(s)
    BY <1>1, <2>1 DEF PiecesOf
  <2>2. CASE ~ i <= Len(s)
    <3>1. i - Len(s) \in 1 .. Len(t)
      BY <1>1, <2>2
    <3> QED
      BY <1>1, <2>2, <3>1 DEF PiecesOf
  <2> QED
    BY <2>1, <2>2
<1>3. ASSUME NEW i \in 1 .. Len(s) PROVE s[i] \in PiecesOf(s \o t)
  <2>1. i \in 1 .. Len(s \o t) /\ (s \o t)[i] = s[i]
    BY <1>1
  <2> QED
    BY <2>1 DEF PiecesOf
<1>4. ASSUME NEW i \in 1 .. Len(t) PROVE t[i] \in PiecesOf(s \o t)
  <2>1. i + Len(s) \in 1 .. Len(s \o t) /\ ~ i + Len(s) <= Len(s) /\ (i + Len(s)) - Len(s) = i
    BY <1>1
  <2>2. (s \o t)[i + Len(s)] = t[i]
    BY <1>1, <2>1
  <2> QED
    BY <2>1, <2>2 DEF PiecesOf
<1>5. PiecesOf(s \o t) = PiecesOf(s) \cup PiecesOf(t)
  BY <1>2, <1>3, <1>4 DEF PiecesOf
<1> QED
  BY <1>1, <1>5 DEF FilesOf

\* One piece behind a sequence.
LEMMA PiecesAppend ==
  ASSUME NEW s \in Seq(Piece), NEW e \in Piece
  PROVE  /\ Append(s, e) \in Seq(Piece)
         /\ PiecesOf(Append(s, e)) = PiecesOf(s) \cup {e}
<1>1. /\ Append(s, e) \in Seq(Piece) /\ Len(Append(s, e)) = Len(s) + 1
      /\ \A i \in 1 .. Len(s) : Append(s, e)[i] = s[i]
      /\ Append(s, e)[Len(s) + 1] = e
  BY AppendProperties
<1>2. Len(s) \in Nat
  BY LenProperties
<1>3. 1 .. Len(s) + 1 = (1 .. Len(s)) \cup {Len(s) + 1}
  BY <1>2
<1> QED
  BY <1>1, <1>3 DEF PiecesOf

\* The first piece and the others.
LEMMA PiecesSplit ==
  ASSUME NEW s \in Seq(Piece), s # <<>>
  PROVE  /\ Head(s) \in Piece /\ Tail(s) \in Seq(Piece)
         /\ PiecesOf(s) = {Head(s)} \cup PiecesOf(Tail(s))
<1>1. /\ Head(s) \in Piece /\ Head(s) = s[1] /\ Tail(s) \in Seq(Piece)
      /\ Len(Tail(s)) = Len(s) - 1
      /\ \A i \in 1 .. Len(Tail(s)) : Tail(s)[i] = s[i + 1]
  BY HeadTailProperties
<1>2. Len(s) \in Nat \ {0}
  BY LenProperties, EmptySeq
<1>3. ASSUME NEW i \in 1 .. Len(s) PROVE s[i] \in {Head(s)} \cup PiecesOf(Tail(s))
  <2>1. CASE i = 1
    BY <1>1, <2>1
  <2>2. CASE i # 1
    <3>1. i - 1 \in 1 .. Len(Tail(s)) /\ (i - 1) + 1 = i
      BY <1>1, <1>2, <2>2
    <3> QED
      BY <1>1, <3>1 DEF PiecesOf
  <2> QED
    BY <2>1, <2>2
<1>4. ASSUME NEW i \in 1 .. Len(Tail(s)) PROVE Tail(s)[i] \in PiecesOf(s)
  <2>1. i + 1 \in 1 .. Len(s)
    BY <1>1, <1>2
  <2> QED
    BY <1>1, <2>1 DEF PiecesOf
<1>5. Head(s) \in PiecesOf(s)
  BY <1>1, <1>2 DEF PiecesOf
<1> QED
  BY <1>1, <1>3, <1>4, <1>5 DEF PiecesOf

\* Blocks of pieces: one more, the first and the others, one in an empty place.
LEMMA BlocksAppend ==
  ASSUME NEW bs \in Seq(Seq(Piece)), NEW b \in Seq(Piece)
  PROVE  PiecesIn(Append(bs, b)) = PiecesIn(bs) \cup PiecesOf(b)
<1>1. /\ Len(Append(bs, b)) = Len(bs) + 1
      /\ \A i \in 1 .. Len(bs) : Append(bs, b)[i] = bs[i]
      /\ Append(bs, b)[Len(bs) + 1] = b
  BY AppendProperties
<1>2. Len(bs) \in Nat
  BY LenProperties
<1>3. 1 .. Len(bs) + 1 = (1 .. Len(bs)) \cup {Len(bs) + 1}
  BY <1>2
<1> QED
  BY <1>1, <1>3 DEF PiecesIn

LEMMA BlocksSplit ==
  ASSUME NEW bs \in Seq(Seq(Piece)), bs # <<>>
  PROVE  /\ Head(bs) \in Seq(Piece) /\ Tail(bs) \in Seq(Seq(Piece)) /\ Len(bs) \in Nat \ {0}
         /\ Head(bs) = bs[1] /\ Len(Tail(bs)) = Len(bs) - 1
         /\ \A i \in 1 .. Len(Tail(bs)) : i + 1 \in 1 .. Len(bs) /\ Tail(bs)[i] = bs[i + 1]
         /\ PiecesIn(bs) = PiecesOf(Head(bs)) \cup PiecesIn(Tail(bs))
<1>1. /\ Head(bs) \in Seq(Piece) /\ Head(bs) = bs[1] /\ Tail(bs) \in Seq(Seq(Piece))
      /\ Len(Tail(bs)) = Len(bs) - 1
      /\ \A i \in 1 .. Len(Tail(bs)) : Tail(bs)[i] = bs[i + 1]
  BY HeadTailProperties
<1>2. Len(bs) \in Nat \ {0}
  BY LenProperties, EmptySeq
<1>3. ASSUME NEW i \in 1 .. Len(bs)
      PROVE  PiecesOf(bs[i]) \subseteq PiecesOf(Head(bs)) \cup PiecesIn(Tail(bs))
  <2>1. CASE i = 1
    BY <1>1, <2>1
  <2>2. CASE i # 1
    <3>1. i - 1 \in 1 .. Len(Tail(bs)) /\ (i - 1) + 1 = i
      BY <1>1, <1>2, <2>2
    <3> QED
      BY <1>1, <3>1 DEF PiecesIn
  <2> QED
    BY <2>1, <2>2
<1>4. \A i \in 1 .. Len(Tail(bs)) : i + 1 \in 1 .. Len(bs)
  BY <1>1, <1>2
<1>5. PiecesIn(bs) \subseteq PiecesOf(Head(bs)) \cup PiecesIn(Tail(bs))
  BY <1>3 DEF PiecesIn
<1>6. PiecesIn(Tail(bs)) \subseteq PiecesIn(bs)
  BY <1>1, <1>4 DEF PiecesIn
<1>7. PiecesOf(Head(bs)) \subseteq PiecesIn(bs)
  BY <1>1, <1>2 DEF PiecesIn
<1> QED
  BY <1>1, <1>2, <1>4, <1>5, <1>6, <1>7

LEMMA BlocksPlace ==
  ASSUME NEW bs \in Seq(Seq(Piece)), NEW b \in Seq(Piece), NEW i \in 1 .. Len(bs), bs[i] = <<>>
  PROVE  PiecesIn([bs EXCEPT ![i] = b]) = PiecesIn(bs) \cup PiecesOf(b)
<1>1. /\ Len([bs EXCEPT ![i] = b]) = Len(bs)
      /\ \A k \in 1 .. Len(bs) : [bs EXCEPT ![i] = b][k] = IF k = i THEN b ELSE bs[k]
  BY ExceptSeq
<1>2. PiecesOf(bs[i]) = {}
  BY PiecesEmpty
<1> DEFINE cs == [bs EXCEPT ![i] = b]
<1> HIDE DEF cs
<1>3. Len(cs) = Len(bs) /\ \A k \in 1 .. Len(bs) : cs[k] = IF k = i THEN b ELSE bs[k]
  BY <1>1 DEF cs
<1>4. PiecesIn(cs) \subseteq PiecesIn(bs) \cup PiecesOf(b)
  BY <1>3 DEF PiecesIn
<1>5. PiecesIn(bs) \cup PiecesOf(b) \subseteq PiecesIn(cs)
  BY <1>2, <1>3 DEF PiecesIn
<1> QED
  BY <1>4, <1>5 DEF cs

-----------------------------------------------------------------------------
(* Orders of pieces.                                                       *)

\* Nothing is in every order.
LEMMA OrderEmpty == ASSUME NEW rel PROVE InOrder(rel, <<>>)
  BY EmptySeq DEF InOrder

LEMMA OrderConcat ==
  ASSUME NEW rel, NEW s \in Seq(Piece), NEW t \in Seq(Piece),
         InOrder(rel, s), InOrder(rel, t), Ahead(rel, s, t)
  PROVE  InOrder(rel, s \o t)
<1>1. /\ Len(s) \in Nat /\ Len(t) \in Nat
      /\ Len(s \o t) = Len(s) + Len(t)
      /\ \A i \in 1 .. Len(s) + Len(t) :
           (s \o t)[i] = IF i <= Len(s) THEN s[i] ELSE t[i - Len(s)]
  BY ConcatProperties, LenProperties
<1> SUFFICES ASSUME NEW i \in 1 .. Len(s \o t), NEW j \in 1 .. Len(s \o t), i < j
             PROVE  <<(s \o t)[i], (s \o t)[j]>> \in rel
  BY DEF InOrder
<1>2. CASE j <= Len(s)
  BY <1>1, <1>2 DEF InOrder
<1>3. CASE i <= Len(s) /\ ~ j <= Len(s)
  <2>1. i \in 1 .. Len(s) /\ j - Len(s) \in 1 .. Len(t)
    BY <1>1, <1>3
  <2>2. s[i] \in PiecesOf(s) /\ t[j - Len(s)] \in PiecesOf(t)
    BY <2>1 DEF PiecesOf
  <2> QED
    BY <1>1, <1>3, <2>2 DEF Ahead
<1>4. CASE ~ i <= Len(s)
  <2>1. i - Len(s) \in 1 .. Len(t) /\ j - Len(s) \in 1 .. Len(t) /\ i - Len(s) < j - Len(s)
        /\ ~ j <= Len(s)
    BY <1>1, <1>4
  <2>2. (s \o t)[i] = t[i - Len(s)] /\ (s \o t)[j] = t[j - Len(s)]
    BY <1>1, <1>4, <2>1
  <2> QED
    BY <2>1, <2>2 DEF InOrder
<1> QED
  BY <1>2, <1>3, <1>4

LEMMA OrderAppend ==
  ASSUME NEW rel, NEW s \in Seq(Piece), NEW e \in Piece,
         InOrder(rel, s), \A p \in PiecesOf(s) : <<p, e>> \in rel
  PROVE  InOrder(rel, Append(s, e))
<1>1. /\ Len(Append(s, e)) = Len(s) + 1
      /\ \A i \in 1 .. Len(s) : Append(s, e)[i] = s[i]
      /\ Append(s, e)[Len(s) + 1] = e
  BY AppendProperties
<1>2. Len(s) \in Nat
  BY LenProperties
<1> SUFFICES ASSUME NEW i \in 1 .. Len(s) + 1, NEW j \in 1 .. Len(s) + 1, i < j
             PROVE  <<Append(s, e)[i], Append(s, e)[j]>> \in rel
  BY <1>1 DEF InOrder
<1>3. i \in 1 .. Len(s)
  BY <1>2
<1>4. CASE j \in 1 .. Len(s)
  BY <1>1, <1>3, <1>4 DEF InOrder
<1>5. CASE j = Len(s) + 1
  BY <1>1, <1>3, <1>5 DEF PiecesOf
<1> QED
  BY <1>2, <1>4, <1>5

LEMMA OrderSplit ==
  ASSUME NEW rel, NEW s \in Seq(Piece), s # <<>>, InOrder(rel, s)
  PROVE  InOrder(rel, Tail(s)) /\ \A p \in PiecesOf(Tail(s)) : <<Head(s), p>> \in rel
<1>1. /\ Head(s) = s[1] /\ Len(Tail(s)) = Len(s) - 1
      /\ \A i \in 1 .. Len(Tail(s)) : Tail(s)[i] = s[i + 1]
  BY HeadTailProperties
<1>2. Len(s) \in Nat \ {0}
  BY LenProperties, EmptySeq
<1>3. ASSUME NEW i \in 1 .. Len(Tail(s)) PROVE i + 1 \in 1 .. Len(s) /\ 1 \in 1 .. Len(s) /\ 1 < i + 1
  BY <1>1, <1>2
<1>4. ASSUME NEW i \in 1 .. Len(Tail(s)), NEW j \in 1 .. Len(Tail(s)), i < j
      PROVE  <<Tail(s)[i], Tail(s)[j]>> \in rel
  <2>1. i + 1 < j + 1
    BY <1>4
  <2> QED
    BY <1>1, <1>3, <2>1 DEF InOrder
<1>5. ASSUME NEW i \in 1 .. Len(Tail(s)) PROVE <<Head(s), Tail(s)[i]>> \in rel
  BY <1>1, <1>3 DEF InOrder
<1> QED
  BY <1>4, <1>5 DEF InOrder, PiecesOf

-----------------------------------------------------------------------------
(* Files that stand together.                                              *)

\* Two sequences that have no file in common.
LEMMA TogetherConcat ==
  ASSUME NEW s \in Seq(Piece), NEW t \in Seq(Piece), InOneStretch(s), InOneStretch(t),
         FilesOf(s) \cap FilesOf(t) = {}
  PROVE  InOneStretch(s \o t)
<1>1. /\ Len(s) \in Nat /\ Len(t) \in Nat
      /\ Len(s \o t) = Len(s) + Len(t)
      /\ \A i \in 1 .. Len(s) + Len(t) :
           (s \o t)[i] = IF i <= Len(s) THEN s[i] ELSE t[i - Len(s)]
  BY ConcatProperties, LenProperties
<1>0. /\ \A i \in 1 .. Len(s) : s[i][1] \in FilesOf(s)
      /\ \A i \in 1 .. Len(t) : t[i][1] \in FilesOf(t)
  BY DEF FilesOf, PiecesOf
<1> SUFFICES ASSUME NEW i \in 1 .. Len(s \o t), NEW k \in 1 .. Len(s \o t),
                    (s \o t)[i][1] = (s \o t)[k][1], NEW j \in i .. k
             PROVE  (s \o t)[j][1] = (s \o t)[i][1]
  BY DEF InOneStretch
<1>2. CASE k <= Len(s)
  <2>1. i \in 1 .. Len(s) /\ k \in 1 .. Len(s) /\ j \in 1 .. Len(s) + Len(t) /\ j <= Len(s) /\ i <= Len(s)
    BY <1>1, <1>2
  <2> QED
    BY <1>1, <1>2, <2>1 DEF InOneStretch
<1>3. CASE i <= Len(s) /\ ~ k <= Len(s)
  <2>1. i \in 1 .. Len(s) /\ k - Len(s) \in 1 .. Len(t)
    BY <1>1, <1>3
  <2>2. s[i][1] \in FilesOf(s) /\ t[k - Len(s)][1] \in FilesOf(t)
    BY <1>0, <2>1
  <2> QED
    BY <1>1, <1>3, <2>2
<1>4. CASE ~ i <= Len(s)
  <2>1. /\ i - Len(s) \in 1 .. Len(t) /\ k - Len(s) \in 1 .. Len(t) /\ ~ k <= Len(s)
        /\ j - Len(s) \in (i - Len(s)) .. (k - Len(s)) /\ ~ j <= Len(s)
        /\ j \in 1 .. Len(s) + Len(t)
    BY <1>1, <1>4
  <2>2. /\ (s \o t)[i] = t[i - Len(s)] /\ (s \o t)[k] = t[k - Len(s)]
        /\ (s \o t)[j] = t[j - Len(s)]
    BY <1>1, <1>4, <2>1
  <2> QED
    BY <2>1, <2>2 DEF InOneStretch
<1>5. ~ i <= Len(s) \/ k <= Len(s) \/ (i <= Len(s) /\ ~ k <= Len(s))
  BY <1>1
<1> QED
  BY <1>2, <1>3, <1>4, <1>5

LEMMA TogetherPrefix ==
  ASSUME NEW s \in Seq(Piece), NEW t \in Seq(Piece), InOneStretch(s \o t)
  PROVE  InOneStretch(s)
<1>1. /\ Len(s) \in Nat /\ Len(t) \in Nat
      /\ Len(s \o t) = Len(s) + Len(t)
      /\ \A i \in 1 .. Len(s) + Len(t) :
           (s \o t)[i] = IF i <= Len(s) THEN s[i] ELSE t[i - Len(s)]
  BY ConcatProperties, LenProperties
<1> SUFFICES ASSUME NEW i \in 1 .. Len(s), NEW k \in 1 .. Len(s), s[i][1] = s[k][1], NEW j \in i .. k
             PROVE  s[j][1] = s[i][1]
  BY DEF InOneStretch
<1>2. /\ i \in 1 .. Len(s \o t) /\ k \in 1 .. Len(s \o t) /\ j \in 1 .. Len(s)
      /\ (s \o t)[i] = s[i] /\ (s \o t)[k] = s[k] /\ (s \o t)[j] = s[j]
  BY <1>1
<1> QED
  BY <1>2 DEF InOneStretch

\* Pieces of one file.
LEMMA TogetherOne ==
  ASSUME NEW s \in Seq(Piece), \A p, q \in PiecesOf(s) : p[1] = q[1]
  PROVE  InOneStretch(s)
<1>1. Len(s) \in Nat
  BY LenProperties
<1> SUFFICES ASSUME NEW i \in 1 .. Len(s), NEW k \in 1 .. Len(s), NEW j \in i .. k
             PROVE  s[j][1] = s[i][1]
  BY DEF InOneStretch
<1>2. j \in 1 .. Len(s)
  BY <1>1
<1> QED
  BY <1>2 DEF PiecesOf

-----------------------------------------------------------------------------
(* Claims.                                                                 *)

\* The slices follow one another and cover the list.
LEMMA SliceOrder ==
  ASSUME PTypeOK, NEW v \in 0 .. NWorkers, NEW w \in 0 .. NWorkers, v <= w
  PROVE  SliceEnd(v) \in Nat /\ SliceEnd(w) \in Nat /\ SliceEnd(v) <= SliceEnd(w)
<1>1. PICK q \in Nat, r \in Nat : q = N \div NWorkers /\ r = N % NWorkers
  <2>1. N \in Nat /\ NWorkers \in Nat \ {0}
    BY PoolAssumption, LenProperties DEF PTypeOK, N
  <2> QED
    BY <2>1
<1>2. v \in Nat /\ w \in Nat
  BY PoolAssumption
<1> QED
  BY <1>1, <1>2, PartsGrow DEF SliceEnd, PartEnd

LEMMA SliceCover ==
  ASSUME PTypeOK, NEW i \in 1 .. N
  PROVE  \E w \in Worker : SliceEnd(w - 1) < i /\ i <= SliceEnd(w)
<1>1. N \in Nat /\ NWorkers \in Nat \ {0}
  BY PoolAssumption, LenProperties DEF PTypeOK, N
<1>2. PICK q \in Nat, r \in 0 .. NWorkers - 1 :
        q = N \div NWorkers /\ r = N % NWorkers /\ N = NWorkers * q + r
  BY <1>1
<1>3. \E w \in 1 .. NWorkers : PartEnd(w - 1, q, r) < i /\ i <= PartEnd(w, q, r)
  BY <1>1, <1>2, PartsCover
<1> QED
  BY <1>2, <1>3 DEF SliceEnd, PartEnd, Worker

\* Where the files are handed out in advance, no two workers may claim the same.
LEMMA ClaimOnce ==
  ASSUME PTypeOK, NEW w \in Worker, NEW v \in Worker, w # v, Counted(w), Counted(v),
         pool.hand # "counter", NEW i \in Nat, CanClaim(w, i)
  PROVE  ~ CanClaim(v, i)
<1>1. NWorkers \in Nat \ {0} /\ w \in Int /\ v \in Int /\ w - v \in (1 - NWorkers) .. (NWorkers - 1)
  BY PoolAssumption DEF Worker
<1>2. CASE pool.hand = "stride"
  <2> SUFFICES ASSUME CanClaim(v, i) PROVE FALSE
    OBVIOUS
  <2>0. at[w] \in Int /\ at[v] \in Int
    BY DEF PTypeOK
  <2>1. PICK k1 \in 0 .. at[w] + NWorkers : at[w] = (w - NWorkers) + k1 * NWorkers
    BY <1>2 DEF Counted
  <2>2. PICK m1 \in 1 .. i - at[w] : i = at[w] + m1 * NWorkers
    BY <1>2 DEF CanClaim
  <2>3. PICK k2 \in 0 .. at[v] + NWorkers : at[v] = (v - NWorkers) + k2 * NWorkers
    BY <1>2 DEF Counted
  <2>4. PICK m2 \in 1 .. i - at[v] : i = at[v] + m2 * NWorkers
    BY <1>2 DEF CanClaim
  <2> DEFINE c == (k2 + m2) - (k1 + m1)
  <2>5. k1 \in Int /\ k2 \in Int /\ m1 \in Int /\ m2 \in Int /\ c \in Int
    BY <1>1, <2>0, <2>1, <2>2, <2>3, <2>4
  <2>6. c * NWorkers = (k2 * NWorkers + m2 * NWorkers) - (k1 * NWorkers + m1 * NWorkers)
    BY <1>1, <2>5
  <2>7. k1 * NWorkers \in Int /\ k2 * NWorkers \in Int /\ m1 * NWorkers \in Int /\ m2 * NWorkers \in Int
    BY <1>1, <2>5
  <2> HIDE DEF c
  <2>8. w - v = c * NWorkers
    BY <1>1, <2>0, <2>1, <2>2, <2>3, <2>4, <2>6, <2>7
  <2>9. c = 0
    <3>1. CASE c >= 1
      <4>1. c * NWorkers = NWorkers + (c - 1) * NWorkers /\ (c - 1) * NWorkers \in Nat
        BY <1>1, <2>5, <3>1
      <4> QED
        BY <1>1, <2>8, <4>1
    <3>2. CASE c <= -1
      <4>1. c * NWorkers = -NWorkers - (-1 - c) * NWorkers /\ (-1 - c) * NWorkers \in Nat
        BY <1>1, <2>5, <3>2
      <4> QED
        BY <1>1, <2>8, <4>1
    <3> QED
      BY <2>5, <3>1, <3>2
  <2>10. 0 * NWorkers = 0
    BY <1>1
  <2> QED
    BY <1>1, <2>8, <2>9, <2>10
<1>3. CASE pool.hand = "chunk"
  <2>0. at[w] \in Int /\ at[v] \in Int
    BY DEF PTypeOK
  <2>1. at[w] >= SliceEnd(w - 1) /\ at[v] >= SliceEnd(v - 1) /\ at[w] < i /\ i <= SliceEnd(w)
    BY <1>3 DEF Counted, CanClaim
  <2>2. w \in 0 .. NWorkers /\ v \in 0 .. NWorkers /\ w - 1 \in 0 .. NWorkers /\ v - 1 \in 0 .. NWorkers
    BY <1>1 DEF Worker
  <2>3. CASE w < v
    <3>1. w <= v - 1
      BY <1>1, <2>3
    <3>2. SliceEnd(w) \in Nat /\ SliceEnd(v - 1) \in Nat /\ SliceEnd(w) <= SliceEnd(v - 1)
      BY <2>2, <3>1, SliceOrder
    <3>3. ~ at[v] < i
      BY <2>0, <2>1, <3>2
    <3> QED
      BY <1>3, <3>3 DEF CanClaim
  <2>4. CASE v < w
    <3>1. v <= w - 1
      BY <1>1, <2>4
    <3>2. SliceEnd(v) \in Nat /\ SliceEnd(w - 1) \in Nat /\ SliceEnd(v) <= SliceEnd(w - 1)
      BY <2>2, <3>1, SliceOrder
    <3>3. ~ i <= SliceEnd(v)
      BY <2>0, <2>1, <3>2
    <3> QED
      BY <1>3, <3>3 DEF CanClaim
  <2> QED
    BY <1>1, <2>3, <2>4
<1>4. pool.hand \in {"counter", "stride", "chunk"}
  BY DEF PTypeOK, Programs
<1> QED
  BY <1>2, <1>3, <1>4

\* What a worker claims, it may claim, and then no longer.
LEMMA ClaimNext ==
  ASSUME PTypeOK, PShape, NEW w \in Worker, At(w, "take"), Counted(w), Claim(w) <= LastOf(w)
  PROVE  Claim(w) \in 1 .. N /\ CanClaim(w, Claim(w))
<1>1. NWorkers \in Nat \ {0} /\ w \in 1 .. NWorkers /\ at[w] \in Int /\ next \in Nat \ {0} /\ N \in Nat
  BY PoolAssumption, LenProperties DEF Worker, PTypeOK, N
<1>2. LastOf(w) \in 0 .. N
  <2>1. w \in 0 .. NWorkers /\ N \in 0 .. N
    BY <1>1
  <2> QED
    BY <2>1, SliceInList DEF LastOf
<1>3. at[w] >= IF pool.hand = "stride" THEN 1 - NWorkers ELSE 0
  BY DEF PShape, PShapeOf, At
<1>4. CASE pool.hand = "counter"
  BY <1>1, <1>2, <1>4 DEF Claim, CanClaim
<1>5. CASE pool.hand = "stride"
  <2>1. Claim(w) = at[w] + NWorkers /\ Claim(w) \in 1 .. N
    BY <1>1, <1>2, <1>3, <1>5 DEF Claim
  <2>2. 1 \in 1 .. Claim(w) - at[w] /\ 1 * NWorkers = NWorkers
    BY <1>1, <2>1
  <2> QED
    BY <1>5, <2>1, <2>2 DEF CanClaim
<1>6. CASE pool.hand = "chunk"
  <2>1. Claim(w) = at[w] + 1 /\ Claim(w) \in 1 .. N /\ Claim(w) <= SliceEnd(w)
    BY <1>1, <1>2, <1>3, <1>6 DEF Claim, LastOf
  <2> QED
    BY <1>1, <1>6, <2>1 DEF CanClaim
<1>7. pool.hand \in {"counter", "stride", "chunk"}
  BY DEF PTypeOK, Programs
<1> QED
  BY <1>4, <1>5, <1>6, <1>7

\* After a claim it and what is before it cannot be claimed again, and nothing new can.
LEMMA ClaimGone ==
  ASSUME PTypeOK, PShape, NEW w \in Worker, Take(w), \A v \in Worker : Counted(v)
  PROVE  /\ \A v \in Worker : Counted(v)'
         /\ \A v \in Worker, i \in 1 .. N : CanClaim(v, i)' =>
              CanClaim(v, i) /\ (Claim(w) <= LastOf(w) => i # Claim(w))
         /\ \A v \in Worker, i \in 1 .. N : CanClaim(v, i) =>
              (\E u \in Worker : CanClaim(u, i)') \/ (i = Claim(w) /\ Claim(w) <= LastOf(w))
<1>1. /\ NWorkers \in Nat \ {0} /\ w \in 1 .. NWorkers /\ at \in [Worker -> Int] /\ next \in Nat \ {0}
      /\ N \in Nat /\ Worker = 1 .. NWorkers
  BY PoolAssumption, LenProperties DEF Worker, PTypeOK, N
<1>2. /\ UNCHANGED <<pool, files>> /\ at' = [at EXCEPT ![w] = Claim(w)]
      /\ next' = IF pool.hand = "counter" THEN next + 1 ELSE next
      /\ At(w, "take")
  BY DEF Take, input
<1>3. Claim(w) \in Int /\ Claim(w) > at[w] /\ at'[w] = Claim(w)
      /\ \A v \in Worker : v # w => at'[v] = at[v]
  <2>1. CASE pool.hand = "counter"
    BY <1>1, <1>2, <2>1 DEF Claim, Counted
  <2>2. CASE pool.hand # "counter"
    BY <1>1, <1>2, <2>2, HandKinds DEF Claim, PTypeOK
  <2> QED
    BY <2>1, <2>2
<1>4. CASE pool.hand = "counter"
  <2>1. Claim(w) = next /\ next' = next + 1
    BY <1>2, <1>4 DEF Claim
  <2>2. ASSUME NEW v \in Worker PROVE Counted(v)'
    <3>1. at[v] < next /\ at[v] \in Int
      BY <1>1, <1>4 DEF Counted
    <3> QED
      BY <1>1, <1>2, <1>3, <1>4, <2>1, <3>1 DEF Counted
  <2>3. \A v \in Worker, i \in 1 .. N : (CanClaim(v, i) <=> i >= next) /\ (CanClaim(v, i)' <=> i >= next + 1)
    BY <1>2, <1>4, <2>1 DEF CanClaim
  <2>4. \A i \in 1 .. N : i >= next => i >= next + 1 \/ i = next
    BY <1>1
  <2>5. \A i \in 1 .. N : i >= next => next <= N
    BY <1>1
  <2>6. LastOf(w) = N
    BY <1>4 DEF LastOf
  <2>7. \A i \in 1 .. N : i >= next + 1 => i >= next /\ i # next
    BY <1>1
  <2> QED
    BY <2>1, <2>2, <2>3, <2>4, <2>5, <2>6, <2>7
<1>5. CASE pool.hand = "stride"
  <2>1. Claim(w) = at[w] + NWorkers /\ at[w] \in Int
    BY <1>1, <1>5 DEF Claim
  <2>2. ASSUME NEW v \in Worker PROVE Counted(v)'
    <3>1. CASE v = w
      <4>1. PICK k \in 0 .. at[w] + NWorkers : at[w] = (w - NWorkers) + k * NWorkers
        BY <1>5 DEF Counted
      <4>2. k + 1 \in 0 .. Claim(w) + NWorkers /\ (k + 1) * NWorkers = k * NWorkers + NWorkers
        BY <1>1, <2>1, <4>1
      <4>3. k * NWorkers \in Int
        BY <1>1, <4>1
      <4>4. Claim(w) = (w - NWorkers) + (k + 1) * NWorkers
        BY <1>1, <2>1, <4>1, <4>2, <4>3
      <4> QED
        BY <1>2, <1>3, <1>5, <3>1, <4>2, <4>4 DEF Counted
    <3>2. CASE v # w
      <4>1. at'[v] = at[v]
        BY <1>3, <3>2
      <4>2. Counted(v)
        OBVIOUS
      <4> QED
        BY <1>2, <1>5, <4>1, <4>2 DEF Counted
    <3> QED
      BY <3>1, <3>2
  <2>3. \A v \in Worker, i \in 1 .. N : v # w => (CanClaim(v, i)' <=> CanClaim(v, i))
    BY <1>2, <1>3, <1>5 DEF CanClaim
  <2>4. ASSUME NEW i \in 1 .. N, CanClaim(w, i)' PROVE CanClaim(w, i) /\ i # Claim(w)
    <3>1. PICK m \in 1 .. i - Claim(w) : i = Claim(w) + m * NWorkers
      BY <1>2, <1>3, <1>5, <2>4 DEF CanClaim
    <3>2. m \in Int /\ (m + 1) * NWorkers = m * NWorkers + NWorkers /\ m * NWorkers \in Int
      BY <1>1, <1>3, <3>1
    <3>3. m + 1 \in 1 .. i - at[w] /\ i = at[w] + (m + 1) * NWorkers /\ i # Claim(w)
      <4>1. m >= 1 /\ m <= i - Claim(w) /\ i \in Int
        BY <1>1, <1>3, <3>1
      <4>2. m + 1 <= i - at[w] /\ i # Claim(w)
        BY <1>1, <1>3, <2>1, <3>2, <4>1
      <4>3. i = at[w] + (m + 1) * NWorkers
        BY <1>1, <1>3, <2>1, <3>1, <3>2, <4>1
      <4> QED
        BY <1>1, <2>1, <3>2, <4>1, <4>2, <4>3
    <3> QED
      BY <1>5, <3>3 DEF CanClaim
  <2>5. ASSUME NEW i \in 1 .. N, CanClaim(w, i) PROVE CanClaim(w, i)' \/ (i = Claim(w) /\ Claim(w) <= LastOf(w))
    <3>1. PICK m \in 1 .. i - at[w] : i = at[w] + m * NWorkers
      BY <1>5, <2>5 DEF CanClaim
    <3>2. m \in Int /\ m >= 1 /\ (m - 1) * NWorkers = m * NWorkers - NWorkers /\ m * NWorkers \in Int
      BY <1>1, <2>1, <3>1
    <3>3. i = Claim(w) + (m - 1) * NWorkers
      BY <1>1, <2>1, <3>1, <3>2
    <3>4. CASE m = 1
      <4>1. i = Claim(w)
        BY <1>1, <2>1, <3>1, <3>4
      <4> QED
        BY <1>1, <1>5, <4>1 DEF LastOf
    <3>5. CASE m > 1
      <4>1. (m - 1) * NWorkers >= m - 1
        <5>1. (m - 1) * NWorkers = (m - 1) + (m - 1) * (NWorkers - 1) /\ (m - 1) * (NWorkers - 1) \in Nat
          BY <1>1, <3>2, <3>5
        <5> QED
          BY <3>2, <5>1
      <4>2. m - 1 \in 1 .. i - Claim(w)
        BY <1>1, <1>3, <3>2, <3>3, <3>5, <4>1
      <4> QED
        BY <1>2, <1>3, <1>5, <3>3, <4>2 DEF CanClaim
    <3> QED
      BY <3>2, <3>4, <3>5
  <2>6. \A v \in Worker, i \in 1 .. N : v # w /\ CanClaim(v, i) /\ Claim(w) <= LastOf(w) => i # Claim(w)
    <3>1. ASSUME NEW v \in Worker, v # w, CanClaim(v, Claim(w)), Claim(w) <= LastOf(w) PROVE FALSE
      <4>1. CanClaim(w, Claim(w)) /\ Claim(w) \in Nat
        BY <1>2, <3>1, ClaimNext
      <4> QED
        BY <1>5, <3>1, <4>1, ClaimOnce
    <3> QED
      BY <3>1
  <2> QED
    BY <2>2, <2>3, <2>4, <2>5, <2>6
<1>6. CASE pool.hand = "chunk"
  <2>1. Claim(w) = at[w] + 1 /\ at[w] \in Int /\ \A u : SliceEnd(u)' = SliceEnd(u)
    BY <1>1, <1>2, <1>6 DEF Claim, SliceEnd, N
  <2>2. ASSUME NEW v \in Worker PROVE Counted(v)'
    <3>1. at[v] >= SliceEnd(v - 1) /\ at[v] \in Int
      BY <1>1, <1>6 DEF Counted
    <3>2. SliceEnd(v - 1) \in 0 .. N
      <4>1. v - 1 \in 0 .. NWorkers
        BY <1>1
      <4> QED
        BY <4>1, SliceInList
    <3>3. at'[v] >= SliceEnd(v - 1)
      BY <1>3, <2>1, <3>1, <3>2
    <3> QED
      BY <1>2, <1>6, <2>1, <3>3 DEF Counted
  <2>3. \A v \in Worker, i \in 1 .. N : v # w => (CanClaim(v, i)' <=> CanClaim(v, i))
    BY <1>2, <1>3, <1>6, <2>1 DEF CanClaim
  <2>4. ASSUME NEW i \in 1 .. N
        PROVE  /\ CanClaim(w, i)' => CanClaim(w, i) /\ i # Claim(w)
               /\ CanClaim(w, i) => CanClaim(w, i)' \/ (i = Claim(w) /\ Claim(w) <= LastOf(w))
    <3>1. CanClaim(w, i) <=> at[w] < i /\ i <= SliceEnd(w)
      BY <1>6 DEF CanClaim
    <3>2. CanClaim(w, i)' <=> at[w] + 1 < i /\ i <= SliceEnd(w)
      BY <1>2, <1>3, <1>6, <2>1 DEF CanClaim
    <3>3. LastOf(w) = SliceEnd(w)
      BY <1>6 DEF LastOf
    <3> QED
      BY <1>1, <2>1, <3>1, <3>2, <3>3
  <2>6. \A v \in Worker, i \in 1 .. N : v # w /\ CanClaim(v, i) /\ Claim(w) <= LastOf(w) => i # Claim(w)
    <3>1. ASSUME NEW v \in Worker, v # w, CanClaim(v, Claim(w)), Claim(w) <= LastOf(w) PROVE FALSE
      <4>1. CanClaim(w, Claim(w)) /\ Claim(w) \in Nat
        BY <1>2, <3>1, ClaimNext
      <4> QED
        BY <1>6, <3>1, <4>1, ClaimOnce
    <3> QED
      BY <3>1
  <2> QED
    BY <2>2, <2>3, <2>4, <2>6
<1>7. pool.hand \in {"counter", "stride", "chunk"}
  BY DEF PTypeOK, Programs
<1> QED
  BY <1>4, <1>5, <1>6, <1>7

-----------------------------------------------------------------------------
(* What the steps move.                                                    *)

\* These steps move no piece.
LEMMA QuietStep ==
  ASSUME PTypeOK, NEW w \in Worker,
         Take(w) \/ Open(w) \/ EndFile(w) \/ EndWork(w) \/ Lock(w) \/ Unlock(w)
  PROVE  UNCHANGED <<buf, sending, mail, kept, stream, stdout, matched, Out>>
BY DEF Take, Open, EndFile, EndWork, Lock, Unlock, output, Out

\* A piece is written: it comes to the end of what is out.
LEMMA PieceOut ==
  ASSUME PTypeOK, PShape, NEW w \in Worker, Write(w)
  PROVE  /\ sending[w] \in Seq(Piece) /\ sending[w] # <<>> /\ Out \in Seq(Piece)
         /\ Out' = Append(Out, Head(sending[w])) /\ sending' = [sending EXCEPT ![w] = Tail(sending[w])]
         /\ UNCHANGED <<pool, files, next, at, line, buf, pc, holder, mail, kept, matched>>
<1>0. stdout \in Seq(Piece) /\ stream \in Seq(Piece) /\ sending[w] \in Seq(Piece) /\ sending[w] # <<>>
      /\ Out \in Seq(Piece)
  BY ConcatProperties DEF PTypeOK, Write, Out
<1>1. Head(sending[w]) \in Piece
  BY <1>0, HeadTailProperties
<1>2. Append(stream, Head(sending[w])) \in Seq(Piece) /\ Append(stdout, Head(sending[w])) \in Seq(Piece)
  BY <1>0, <1>1, AppendProperties
<1>3. stdout \o Append(stream, Head(sending[w])) = Append(Out, Head(sending[w]))
  BY <1>0, <1>1, AppendConcat DEF Out
<1>4. CASE pool.to = "stdout" /\ stdout' = Append(stdout, Head(sending[w])) /\ UNCHANGED stream
  <2>1. stream = <<>> /\ stream' = <<>>
    BY <1>4 DEF PShape
  <2> QED
    BY <1>0, <1>2, <1>4, <2>1, ConcatEmptySeq DEF Out, Write, input, work
<1>5. CASE stream' = Append(stream, Head(sending[w])) /\ UNCHANGED stdout
  BY <1>0, <1>3, <1>5 DEF Out, Write, input, work
<1>6. CASE stdout' = stdout \o Append(stream, Head(sending[w])) /\ stream' = <<>>
  <2>1. stdout \o Append(stream, Head(sending[w])) \in Seq(Piece)
    BY <1>0, <1>2, ConcatProperties
  <2>2. Out' = stdout \o Append(stream, Head(sending[w]))
    BY <1>6, <2>1, ConcatEmptySeq DEF Out
  <2> QED
    BY <1>0, <1>3, <2>2 DEF Write, input, work
<1> QED
  BY <1>4, <1>5, <1>6 DEF Write

\* Main prints a block that came or that it kept.
LEMMA BlockOut ==
  ASSUME PTypeOK, Receive \/ PrintKept
  PROVE  /\ UNCHANGED <<pool, files, next, at, line, buf, sending, pc, holder, matched>>
         /\ Out \in Seq(Piece)
         /\ Receive => mail # <<>> /\ Out' = Out \o Head(mail) /\ mail' = Tail(mail) /\ kept' = kept
         /\ PrintKept => /\ kept # <<>> /\ Out' = Out \o Head(kept) /\ kept' = Tail(kept)
                         /\ mail' = mail /\ mail = <<>> /\ pool.to = "kept" /\ Collected
<1>0. stdout \in Seq(Piece) /\ stream \in Seq(Piece) /\ Out \in Seq(Piece)
  BY ConcatProperties DEF PTypeOK, Out
<1>1. CASE Receive
  <2>1. Head(mail) \in Seq(Piece)
    BY <1>1, HeadTailProperties DEF Receive, PTypeOK
  <2>2. stdout \o (stream \o Head(mail)) = Out \o Head(mail)
    <3>1. PICK h \in Seq(Piece) : h = Head(mail)
      BY <2>1
    <3>2. stdout \o (stream \o h) = (stdout \o stream) \o h
      BY <1>0, ConcatAssociative
    <3> QED
      BY <3>1, <3>2 DEF Out
  <2> QED
    BY <1>0, <1>1, <2>2 DEF Receive, PrintKept, Collected, Out, input, work
<1>2. CASE PrintKept
  <2>1. Head(kept) \in Seq(Piece)
    BY <1>2, HeadTailProperties DEF PrintKept, PTypeOK
  <2>2. stdout \o (stream \o Head(kept)) = Out \o Head(kept)
    <3>1. PICK h \in Seq(Piece) : h = Head(kept)
      BY <2>1
    <3>2. stdout \o (stream \o h) = (stdout \o stream) \o h
      BY <1>0, ConcatAssociative
    <3> QED
      BY <3>1, <3>2 DEF Out
  <2> QED
    BY <1>0, <1>2, <2>2 DEF Receive, PrintKept, Collected, Out, input, work
<1> QED
  BY <1>1, <1>2

\* The end changes nothing of the output, nor does a stuttering step.
LEMMA NothingOut ==
  ASSUME PTypeOK, Finish \/ Crash \/ UNCHANGED pvars
  PROVE  UNCHANGED <<pool, files, next, at, line, buf, sending, pc, holder, mail, kept, matched, Out>>
<1>0. stdout \in Seq(Piece) /\ stream \in Seq(Piece) /\ Out \in Seq(Piece)
  BY ConcatProperties DEF PTypeOK, Out
<1>1. CASE stdout' = stdout \o stream /\ stream' = <<>>
  <2>1. Out' = Out
    BY <1>0, <1>1, ConcatEmptySeq DEF Out
  <2> QED
    BY <2>1 DEF Finish, Crash, pvars, input, work, output
<1>2. CASE UNCHANGED pvars
  BY <1>2 DEF pvars, input, work, output, Out
<1> QED
  BY <1>1, <1>2 DEF Finish, Crash

\* The places a block may be passed to, all empty before.
LEMMA BlockPassed ==
  ASSUME PTypeOK, PShape, Buffers, KeptInPlace, BlocksApart, NEW w \in Worker, PassKept(w) \/ PassLine(w)
  PROVE  \E block \in Seq(Piece) :
           /\ UNCHANGED <<pool, files, next, at, holder, stream, stdout, Out>>
           /\ \/ /\ PassKept(w) /\ block = buf[w] /\ buf' = [buf EXCEPT ![w] = <<>>]
                 /\ UNCHANGED <<line, matched>> /\ pc[w] \in {"search", "end"}
              \/ /\ PassLine(w) /\ block = Pieces(at[w], line[w]) /\ buf' = buf
                 /\ line' = [line EXCEPT ![w] = line[w] + 1] /\ matched' = TRUE
                 /\ pc[w] = "search" /\ pool.keep # "file"
           /\ sending[w] = <<>>
           /\ \/ /\ pool.to \in {"stdout", "stream"} /\ UNCHANGED <<mail, kept>>
                 /\ sending' = [sending EXCEPT ![w] = block] /\ pc' = [pc EXCEPT ![w] = "lock"]
              \/ /\ pool.to = "mail" /\ mail' = Append(mail, block) /\ UNCHANGED <<sending, pc, kept>>
              \/ /\ pool.to = "kept" /\ UNCHANGED <<sending, pc, mail>>
                 /\ kept' = [kept EXCEPT ![at[w]] = block]
                 /\ PassKept(w) /\ pc[w] = "search" /\ Unpassed(w) /\ block # <<>>
                 /\ Len(kept) = N /\ at[w] \in 1 .. Len(kept) /\ kept[at[w]] = <<>>
<1>1. PICK block \in Seq(Piece) :
         /\ Pass(w, block)
         /\ PassKept(w) => block = buf[w] /\ buf[w] # <<>>
         /\ PassLine(w) => block = Pieces(at[w], line[w])
         /\ PassKept(w) \/ PassLine(w)
  <2>1. CASE PassKept(w)
    <3>1. buf[w] \in Seq(Piece) /\ Pass(w, buf[w]) /\ ~ PassLine(w) /\ buf[w] # <<>>
      BY <2>1 DEF PassKept, PassLine, PTypeOK, MustPass
    <3> QED
      BY <2>1, <3>1
  <2>2. CASE PassLine(w)
    <3>1. Pieces(at[w], line[w]) \in Seq(Piece) /\ Pass(w, Pieces(at[w], line[w])) /\ ~ PassKept(w)
      BY <2>2, LineInHand DEF PassKept, PassLine
    <3> QED
      BY <2>2, <3>1
  <2> QED
    BY <2>1, <2>2
<1>2. /\ UNCHANGED <<pool, files, next, at, holder, stream, stdout, Out>>
      /\ \/ /\ PassKept(w) /\ block = buf[w] /\ buf' = [buf EXCEPT ![w] = <<>>]
            /\ UNCHANGED <<line, matched>> /\ pc[w] \in {"search", "end"}
         \/ /\ PassLine(w) /\ block = Pieces(at[w], line[w]) /\ buf' = buf
            /\ line' = [line EXCEPT ![w] = line[w] + 1] /\ matched' = TRUE
            /\ pc[w] = "search" /\ pool.keep # "file"
  <2>1. CASE PassKept(w)
    BY <1>1, <2>1 DEF PassKept, input, work, Out
  <2>2. CASE PassLine(w)
    BY <1>1, <2>2 DEF PassLine, input, Out, At
  <2> QED
    BY <1>1, <2>1, <2>2
<1>3. sending[w] = <<>>
  BY <1>2 DEF PShape, PShapeOf
<1>4. \/ /\ pool.to \in {"stdout", "stream"} /\ UNCHANGED <<mail, kept>>
         /\ sending' = [sending EXCEPT ![w] = block] /\ pc' = [pc EXCEPT ![w] = "lock"]
      \/ /\ pool.to = "mail" /\ mail' = Append(mail, block) /\ UNCHANGED <<sending, pc, kept>>
      \/ /\ pool.to = "kept" /\ kept' = [kept EXCEPT ![at[w]] = block] /\ UNCHANGED <<sending, pc, mail>>
  BY <1>1 DEF Pass, Goto
<1>5. ASSUME pool.to = "kept"
      PROVE  /\ PassKept(w) /\ pc[w] = "search" /\ Unpassed(w) /\ block # <<>>
             /\ Len(kept) = N /\ at[w] \in 1 .. Len(kept) /\ kept[at[w]] = <<>>
  <2>1. pool.keep = "file"
    BY <1>5 DEF Buffers, PoolSound
  <2>2. PassKept(w) /\ buf[w] # <<>> /\ block = buf[w]
    BY <1>1, <1>2, <2>1
  <2>3. pc[w] = "search"
    BY <2>1, <2>2 DEF Buffers, BufferOf
  <2>4. Unpassed(w)
    BY <2>1, <2>2, <2>3 DEF BlocksApart
  <2>5. Len(kept) = N /\ N \in Nat
    <3>1. Len(kept) \in Nat /\ N \in Nat
      BY LenProperties DEF PTypeOK, N
    <3> QED
      BY <2>3, <3>1 DEF Buffers, KeptShape
  <2>6. at[w] \in 1 .. N
    BY <2>3, FileInHand
  <2>7. kept[at[w]] = <<>>
    <3>1. kept[at[w]] \in Seq(Piece)
      BY <2>5, <2>6, ElementOfSeq DEF PTypeOK
    <3>2. FilesOf(kept[at[w]]) \subseteq {at[w] + (N - N)} /\ at[w] + (N - N) = at[w]
      BY <1>5, <2>5, <2>6 DEF KeptInPlace
    <3>3. PiecesOf(kept[at[w]]) \subseteq Passed
      BY <2>5, <2>6 DEF Passed, PiecesIn
    <3>4. PiecesOf(kept[at[w]]) = {}
      BY <2>4, <3>2, <3>3 DEF Unpassed, FilesOf
    <3> QED
      BY <3>1, <3>4, PiecesType
  <2> QED
    BY <2>2, <2>3, <2>4, <2>5, <2>6, <2>7
<1> QED
  BY <1>2, <1>3, <1>4, <1>5

\* What a worker's step makes of the pieces that are there.
LEMMA PiecesMove ==
  ASSUME PTypeOK, PShape, Buffers, KeptInPlace, BlocksApart, NEW w \in Worker, Step(w)
  PROVE  /\ Everywhere' = Everywhere \cup
              (IF PassLine(w) \/ KeepLine(w) THEN PiecesOf(Pieces(at[w], line[w])) ELSE {})
         /\ Passed' \subseteq Passed \cup HeldBy(w) \cup
              (IF PassLine(w) THEN PiecesOf(Pieces(at[w], line[w])) ELSE {})
<1> DEFINE New == IF PassLine(w) \/ KeepLine(w) THEN PiecesOf(Pieces(at[w], line[w])) ELSE {}
           Straight == IF PassLine(w) THEN PiecesOf(Pieces(at[w], line[w])) ELSE {}
<1>1. SUFFICES /\ Passed' \cup HeldBy(w)' = Passed \cup HeldBy(w) \cup New
               /\ Passed' \subseteq Passed \cup HeldBy(w) \cup Straight
  <2>1. \A v \in Worker : v # w => HeldBy(v)' = HeldBy(v)
    BY OthersStay DEF HeldBy
  <2> HIDE DEF New, Straight
  <2>2. ASSUME Passed' \cup HeldBy(w)' = Passed \cup HeldBy(w) \cup New
        PROVE  Everywhere' = Everywhere \cup New
    <3>1. Everywhere' \subseteq Everywhere \cup New
      <4> SUFFICES ASSUME NEW p \in Everywhere' PROVE p \in Everywhere \cup New
        OBVIOUS
      <4>1. p \in Passed' \/ \E v \in Worker : p \in HeldBy(v)'
        BY DEF Everywhere
      <4> QED
        BY <2>1, <2>2, <4>1 DEF Everywhere
    <3>2. Everywhere \cup New \subseteq Everywhere'
      <4> SUFFICES ASSUME NEW p \in Everywhere \cup New PROVE p \in Everywhere'
        OBVIOUS
      <4>1. p \in New \/ p \in Passed \/ \E v \in Worker : p \in HeldBy(v)
        BY DEF Everywhere
      <4> QED
        BY <2>1, <2>2, <4>1 DEF Everywhere
    <3> QED
      BY <3>1, <3>2
  <2> QED
    BY <2>2 DEF New, Straight
<1>2. CASE Take(w) \/ Open(w) \/ EndFile(w) \/ EndWork(w) \/ Lock(w) \/ Unlock(w)
  <2>1. ~ (PassLine(w) \/ KeepLine(w))
    <3>1. CASE PassLine(w) \/ KeepLine(w)
      <4>1. line' = [line EXCEPT ![w] = @ + 1] /\ pc[w] = "search" /\ More(w)
        BY <3>1 DEF PassLine, KeepLine, At
      <4>2. line'[w] = line[w] + 1 /\ line[w] \in Nat
        BY <4>1 DEF PTypeOK
      <4> QED
        BY <1>2, <4>1, <4>2 DEF Take, Open, EndFile, EndWork, Lock, Unlock, At, work
    <3> QED
      BY <3>1
  <2>2. UNCHANGED <<buf, sending, mail, kept, Out>>
    BY <1>2, QuietStep
  <2>3. Passed' = Passed /\ HeldBy(w)' = HeldBy(w)
    BY <2>2 DEF Passed, HeldBy
  <2> QED
    BY <2>1, <2>3
<1>3. CASE KeepLine(w)
  <2>1. /\ UNCHANGED <<sending, mail, kept, Out>> /\ More(w) /\ pool.keep # "line"
        /\ buf' = [buf EXCEPT ![w] = buf[w] \o Pieces(at[w], line[w])]
    BY <1>3 DEF KeepLine, output, Out
  <2>2. Pieces(at[w], line[w]) \in Seq(Piece) /\ buf[w] \in Seq(Piece)
    BY <2>1, LineInHand DEF PTypeOK
  <2>3. buf'[w] = buf[w] \o Pieces(at[w], line[w])
    BY <2>1 DEF PTypeOK
  <2>4. PiecesOf(buf'[w]) = PiecesOf(buf[w]) \cup PiecesOf(Pieces(at[w], line[w]))
    BY <2>2, <2>3, PiecesConcat
  <2>5. Passed' = Passed /\ HeldBy(w)' = HeldBy(w) \cup PiecesOf(Pieces(at[w], line[w]))
    BY <2>1, <2>4 DEF Passed, HeldBy
  <2> QED
    BY <1>3, <2>5
<1>4. CASE Write(w)
  <2>1. /\ sending[w] \in Seq(Piece) /\ sending[w] # <<>> /\ Out \in Seq(Piece)
        /\ Out' = Append(Out, Head(sending[w])) /\ sending' = [sending EXCEPT ![w] = Tail(sending[w])]
        /\ UNCHANGED <<line, buf, mail, kept>>
    BY <1>4, PieceOut
  <2>2. ~ (PassLine(w) \/ KeepLine(w))
    BY <1>4 DEF Write, PassLine, KeepLine, At
  <2>3. /\ PiecesOf(sending[w]) = {Head(sending[w])} \cup PiecesOf(Tail(sending[w]))
        /\ Head(sending[w]) \in Piece
    BY <2>1, PiecesSplit
  <2>4. PiecesOf(Out') = PiecesOf(Out) \cup {Head(sending[w])}
    BY <2>1, <2>3, PiecesAppend
  <2>5. sending'[w] = Tail(sending[w])
    BY <2>1 DEF PTypeOK
  <2>6. Passed' = Passed \cup {Head(sending[w])} /\ HeldBy(w)' = PiecesOf(buf[w]) \cup PiecesOf(Tail(sending[w]))
    BY <2>1, <2>4, <2>5 DEF Passed, HeldBy
  <2> QED
    BY <2>2, <2>3, <2>6 DEF HeldBy
<1>5. CASE PassKept(w) \/ PassLine(w)
  <2>1. PICK block \in Seq(Piece) :
           /\ UNCHANGED Out
           /\ \/ PassKept(w) /\ block = buf[w] /\ buf' = [buf EXCEPT ![w] = <<>>]
                 /\ UNCHANGED line
              \/ PassLine(w) /\ block = Pieces(at[w], line[w]) /\ buf' = buf
           /\ sending[w] = <<>>
           /\ \/ /\ UNCHANGED <<mail, kept>> /\ sending' = [sending EXCEPT ![w] = block]
              \/ mail' = Append(mail, block) /\ UNCHANGED <<sending, kept>>
              \/ /\ UNCHANGED <<sending, mail>> /\ kept' = [kept EXCEPT ![at[w]] = block]
                 /\ at[w] \in 1 .. Len(kept) /\ kept[at[w]] = <<>>
    BY <1>5, BlockPassed, ZenonT(30)
  <2>2. ~ KeepLine(w) /\ ~ (PassKept(w) /\ PassLine(w))
    BY <1>5 DEF PassKept, PassLine, KeepLine
  <2>3. Passed' \cup PiecesOf(sending'[w]) = Passed \cup PiecesOf(block) /\ PiecesOf(sending[w]) = {}
        /\ Passed' \subseteq Passed \cup PiecesOf(block)
    <3>1. CASE UNCHANGED <<mail, kept>> /\ sending' = [sending EXCEPT ![w] = block]
      <4>1. sending'[w] = block /\ Passed' = Passed
        BY <2>1, <3>1 DEF PTypeOK, Passed
      <4> QED
        BY <2>1, <4>1, PiecesEmpty
    <3>2. CASE mail' = Append(mail, block) /\ UNCHANGED <<sending, kept>>
      <4>1. PiecesIn(mail') = PiecesIn(mail) \cup PiecesOf(block)
        BY <3>2, BlocksAppend DEF PTypeOK
      <4> QED
        BY <2>1, <3>2, <4>1, PiecesEmpty DEF Passed
    <3>3. CASE /\ UNCHANGED <<sending, mail>> /\ kept' = [kept EXCEPT ![at[w]] = block]
               /\ at[w] \in 1 .. Len(kept) /\ kept[at[w]] = <<>>
      <4>1. PiecesIn(kept') = PiecesIn(kept) \cup PiecesOf(block)
        BY <3>3, BlocksPlace DEF PTypeOK
      <4> QED
        BY <2>1, <3>3, <4>1, PiecesEmpty DEF Passed
    <3> QED
      BY <2>1, <3>1, <3>2, <3>3
  <2>4. CASE PassKept(w) /\ block = buf[w] /\ buf' = [buf EXCEPT ![w] = <<>>]
    <3>1. PiecesOf(buf'[w]) = {}
      BY <2>4, PiecesEmpty DEF PTypeOK
    <3> QED
      BY <2>2, <2>3, <2>4, <3>1 DEF HeldBy
  <2>5. CASE PassLine(w) /\ block = Pieces(at[w], line[w]) /\ buf' = buf
    BY <2>3, <2>5 DEF HeldBy
  <2> QED
    BY <2>1, <2>4, <2>5
<1> QED
  BY <1>2, <1>3, <1>4, <1>5 DEF Step

\* What main does moves pieces only within what was passed on.
LEMMA PiecesStay ==
  ASSUME PTypeOK, Receive \/ PrintKept \/ Finish \/ Crash \/ UNCHANGED pvars
  PROVE  Passed' = Passed /\ Everywhere' = Everywhere
<1>1. Passed' = Passed
  <2>1. CASE Receive \/ PrintKept
    <3>1. /\ Out \in Seq(Piece)
          /\ Receive => mail # <<>> /\ Out' = Out \o Head(mail) /\ mail' = Tail(mail) /\ kept' = kept
          /\ PrintKept => /\ kept # <<>> /\ Out' = Out \o Head(kept) /\ kept' = Tail(kept) /\ mail' = mail
      BY <2>1, BlockOut
    <3>2. CASE Receive
      <4>1. Head(mail) \in Seq(Piece) /\ PiecesIn(mail) = PiecesOf(Head(mail)) \cup PiecesIn(Tail(mail))
        BY <3>1, <3>2, BlocksSplit DEF PTypeOK
      <4>2. PiecesOf(Out \o Head(mail)) = PiecesOf(Out) \cup PiecesOf(Head(mail))
        BY <3>1, <4>1, PiecesConcat
      <4> QED
        BY <3>1, <3>2, <4>1, <4>2 DEF Passed
    <3>3. CASE PrintKept
      <4>1. Head(kept) \in Seq(Piece) /\ PiecesIn(kept) = PiecesOf(Head(kept)) \cup PiecesIn(Tail(kept))
        BY <3>1, <3>3, BlocksSplit DEF PTypeOK
      <4>2. PiecesOf(Out \o Head(kept)) = PiecesOf(Out) \cup PiecesOf(Head(kept))
        BY <3>1, <4>1, PiecesConcat
      <4> QED
        BY <3>1, <3>3, <4>1, <4>2 DEF Passed
    <3> QED
      BY <2>1, <3>2, <3>3
  <2>2. CASE Finish \/ Crash \/ UNCHANGED pvars
    BY <2>2, NothingOut DEF Passed
  <2> QED
    BY <2>1, <2>2
<1>2. UNCHANGED <<buf, sending>>
  BY BlockOut, NothingOut
<1> QED
  BY <1>1, <1>2 DEF Everywhere, HeldBy

-----------------------------------------------------------------------------
(* Claims and hands.                                                       *)

\* The pieces of the next line are of the file in hand and of that line.
LEMMA LinePieces ==
  ASSUME PTypeOK, PShape, NEW w \in Worker, More(w)
  PROVE  /\ InHand(w) /\ at[w] \in 1 .. N /\ line[w] \in Nat
         /\ Pieces(at[w], line[w]) \in Seq(Piece) /\ Pieces(at[w], line[w]) # <<>>
         /\ PiecesOf(Pieces(at[w], line[w])) =
              {<<at[w], line[w], k>> : k \in 1 .. files[at[w]].lines[line[w]]}
         /\ \A p \in PiecesOf(Pieces(at[w], line[w])) : p[1] = at[w] /\ p[2] = line[w]
<1>1. /\ at[w] \in Nat /\ line[w] \in Nat /\ Size(w) \in Nat \ {0}
      /\ Pieces(at[w], line[w]) \in Seq(Piece) /\ Len(Pieces(at[w], line[w])) = Size(w)
  BY LineInHand
<1>2. pc[w] = "search" /\ at[w] <= LastOf(w)
  BY DEF More, At, PShape, PShapeOf
<1>3. at[w] \in 1 .. N
  BY <1>2, FileInHand
<1>4. Pieces(at[w], line[w]) = [k \in 1 .. Size(w) |-> <<at[w], line[w], k>>]
  BY DEF Pieces, Size, Lines
<1>5. PiecesOf(Pieces(at[w], line[w])) = {<<at[w], line[w], k>> : k \in 1 .. Size(w)}
  BY <1>1, <1>4 DEF PiecesOf
<1>6. Pieces(at[w], line[w]) # <<>>
  <2>1. 1 \in 1 .. Size(w)
    BY <1>1
  <2>2. PiecesOf(Pieces(at[w], line[w])) # {}
    BY <1>5, <2>1
  <2> QED
    BY <1>1, <2>2, PiecesType
<1> QED
  BY <1>1, <1>2, <1>3, <1>5, <1>6 DEF InHand, Size, Lines

\* A worker gets a file into its hands only by claiming it.
LEMMA HandStep ==
  ASSUME PTypeOK, PShape, Buffers, NEW w \in Worker, Step(w)
  PROVE  InHand(w)' => \/ InHand(w) /\ at'[w] = at[w] /\ ~ Take(w)
                       \/ Take(w) /\ at'[w] = Claim(w) /\ Claim(w) <= LastOf(w) /\ line'[w] = 1
<1> SUFFICES ASSUME InHand(w)'
             PROVE  \/ InHand(w) /\ at'[w] = at[w] /\ ~ Take(w)
                    \/ Take(w) /\ at'[w] = Claim(w) /\ Claim(w) <= LastOf(w) /\ line'[w] = 1
  OBVIOUS
<1>0. LastOf(w)' = LastOf(w)
  BY OthersStay, InputStays
<1>1. CASE Take(w)
  <2>1. /\ at' = [at EXCEPT ![w] = Claim(w)] /\ line' = [line EXCEPT ![w] = 1]
        /\ pc' = [pc EXCEPT ![w] = IF Claim(w) > LastOf(w) THEN "end" ELSE "open"]
    BY <1>1 DEF Take, Goto
  <2>2. at'[w] = Claim(w) /\ line'[w] = 1
    BY <2>1 DEF PTypeOK
  <2> QED
    BY <1>0, <1>1, <2>2 DEF InHand
<1>2. CASE ~ Take(w)
  <2>1. at' = at
    BY <1>2, BlockPassed DEF Step, Open, PassKept, PassLine, KeepLine, EndFile, EndWork, Lock,
       Write, Unlock, work
  <2>2. pc[w] \in {"open", "search", "lock", "write", "end"}
    BY <1>2 DEF Step, Open, PassKept, PassLine, KeepLine, EndFile, EndWork, Lock, Write, Unlock, At
  <2>3. CASE pc[w] = "end"
    <3>1. at[w] > LastOf(w) /\ at[w] <= LastOf(w)
      BY <1>0, <2>1, <2>3 DEF Buffers, BufferOf, InHand
    <3>2. at[w] \in Int /\ LastOf(w) \in Int
      <4>1. w \in 0 .. NWorkers /\ N \in Nat
        BY PoolAssumption, LenProperties DEF Worker, PTypeOK, N
      <4> QED
        BY <4>1, SliceInList DEF LastOf, PTypeOK
    <3> QED
      BY <3>1, <3>2
  <2>4. CASE pc[w] # "end"
    BY <1>0, <1>2, <2>1, <2>2, <2>4 DEF InHand
  <2> QED
    BY <2>3, <2>4
<1> QED
  BY <1>1, <1>2

\* The files a worker has to do with are those it had, and the one it claims.
LEMMA MineStep ==
  ASSUME PTypeOK, PShape, Buffers, KeptInPlace, BlocksApart, NEW w \in Worker, Step(w)
  PROVE  /\ Mine(w)' \subseteq Mine(w) \cup
              (IF Take(w) /\ Claim(w) <= LastOf(w) THEN {Claim(w)} ELSE {})
         /\ \A v \in Worker : v # w => Mine(v)' = Mine(v) /\ (InHand(v)' <=> InHand(v))
<1>1. ASSUME NEW v \in Worker, v # w PROVE Mine(v)' = Mine(v) /\ (InHand(v)' <=> InHand(v))
  <2>1. LastOf(v)' = LastOf(v)
    BY OthersStay, InputStays
  <2>2. InHand(v)' <=> InHand(v)
    BY <1>1, <2>1, OthersStay DEF InHand
  <2> QED
    BY <1>1, <2>2, OthersStay DEF Mine
<1>2. (IF InHand(w)' THEN {at'[w]} ELSE {}) \subseteq Mine(w) \cup
              (IF Take(w) /\ Claim(w) <= LastOf(w) THEN {Claim(w)} ELSE {})
  BY HandStep DEF Mine
<1>3. FilesOf(buf'[w]) \cup FilesOf(sending'[w]) \subseteq Mine(w)
  <2>1. CASE Take(w) \/ Open(w) \/ EndFile(w) \/ EndWork(w) \/ Lock(w) \/ Unlock(w)
    BY <2>1, QuietStep DEF Mine
  <2>2. CASE KeepLine(w)
    <3>1. /\ UNCHANGED sending /\ More(w) /\ buf' = [buf EXCEPT ![w] = buf[w] \o Pieces(at[w], line[w])]
      BY <2>2 DEF KeepLine
    <3>2. buf'[w] = buf[w] \o Pieces(at[w], line[w]) /\ buf[w] \in Seq(Piece)
      BY <3>1 DEF PTypeOK
    <3>3. FilesOf(Pieces(at[w], line[w])) \subseteq {at[w]} /\ InHand(w) /\ Pieces(at[w], line[w]) \in Seq(Piece)
      BY <3>1, LinePieces DEF FilesOf
    <3>4. FilesOf(buf'[w]) = FilesOf(buf[w]) \cup FilesOf(Pieces(at[w], line[w]))
      BY <3>2, <3>3, PiecesConcat
    <3> QED
      BY <3>1, <3>3, <3>4 DEF Mine
  <2>3. CASE Write(w)
    <3>1. UNCHANGED buf /\ sending' = [sending EXCEPT ![w] = Tail(sending[w])] /\ sending[w] \in Seq(Piece)
          /\ sending[w] # <<>>
      BY <2>3, PieceOut
    <3>2. sending'[w] = Tail(sending[w])
      BY <3>1 DEF PTypeOK
    <3>3. PiecesOf(Tail(sending[w])) \subseteq PiecesOf(sending[w])
      BY <3>1, PiecesSplit
    <3>4. FilesOf(sending'[w]) \subseteq FilesOf(sending[w])
      BY <3>2, <3>3 DEF FilesOf
    <3> QED
      BY <3>1, <3>4 DEF Mine
  <2>4. CASE PassKept(w) \/ PassLine(w)
    <3>1. PICK block \in Seq(Piece) :
             /\ \/ PassKept(w) /\ block = buf[w] /\ buf' = [buf EXCEPT ![w] = <<>>]
                \/ PassLine(w) /\ block = Pieces(at[w], line[w]) /\ buf' = buf
             /\ sending' = [sending EXCEPT ![w] = block] \/ sending' = sending
      BY <2>4, BlockPassed
    <3>2. FilesOf(block) \subseteq Mine(w)
      <4>1. CASE block = buf[w]
        BY <4>1 DEF Mine
      <4>2. CASE PassLine(w) /\ block = Pieces(at[w], line[w])
        <5>1. More(w)
          BY <4>2 DEF PassLine
        <5> QED
          BY <4>2, <5>1, LinePieces DEF FilesOf, Mine
      <4> QED
        BY <3>1, <4>1, <4>2
    <3>3. FilesOf(sending'[w]) \subseteq Mine(w)
      <4>1. sending'[w] = block \/ sending'[w] = sending[w]
        BY <3>1 DEF PTypeOK
      <4> QED
        BY <3>2, <4>1 DEF Mine
    <3>4. FilesOf(buf'[w]) \subseteq Mine(w)
      <4>1. buf'[w] = <<>> \/ buf'[w] = buf[w]
        BY <3>1 DEF PTypeOK
      <4> QED
        BY <4>1, PiecesEmpty DEF Mine
    <3> QED
      BY <3>3, <3>4
  <2> QED
    BY <2>1, <2>2, <2>3, <2>4 DEF Step
<1> QED
  BY <1>1, <1>2, <1>3 DEF Mine

\* Every step keeps ClaimsApart.
LEMMA ClaimsStep ==
  ASSUME PTypeOK, PShape, ClaimsApart, Buffers, KeptInPlace, BlocksApart, [PNext]_pvars
  PROVE  ClaimsApart'
<1>1. ASSUME NEW w \in Worker, Step(w) PROVE ClaimsApart'
  <2>0. UNCHANGED <<pool, files>> /\ N' = N
    BY <1>1, OthersStay, InputStays
  <2>1. CASE Take(w)
    <3>1. /\ \A v \in Worker : Counted(v)'
          /\ \A v \in Worker, i \in 1 .. N : CanClaim(v, i)' =>
               CanClaim(v, i) /\ (Claim(w) <= LastOf(w) => i # Claim(w))
      BY <2>1, ClaimGone DEF ClaimsApart
    <3>2. Everywhere' = Everywhere
      <4>1. ~ (PassLine(w) \/ KeepLine(w))
        BY <2>1 DEF Take, PassLine, KeepLine, At
      <4> QED
        BY <1>1, <4>1, PiecesMove
    <3>3. Claim(w) <= LastOf(w) =>
            /\ \A v \in Worker : InHand(v) => at[v] # Claim(w)
            /\ \A p \in Everywhere : p[1] # Claim(w)
      <4>1. Claim(w) <= LastOf(w) => Claim(w) \in 1 .. N /\ CanClaim(w, Claim(w))
        BY <2>1, ClaimNext DEF ClaimsApart, Take
      <4> QED
        BY <4>1 DEF ClaimsApart
    <3>4. ASSUME NEW v \in Worker, v # w PROVE Mine(w)' \cap Mine(v)' = {}
      <4>1. Claim(w) <= LastOf(w) => Claim(w) \notin Mine(v)
        <5>1. FilesOf(buf[v]) \cup FilesOf(sending[v]) \subseteq {p[1] : p \in Everywhere}
          BY DEF FilesOf, Everywhere, HeldBy
        <5> QED
          BY <3>3, <5>1 DEF Mine
      <4>2. Mine(w)' \subseteq Mine(w) \cup (IF Claim(w) <= LastOf(w) THEN {Claim(w)} ELSE {})
            /\ Mine(v)' = Mine(v)
        BY <1>1, <3>4, MineStep
      <4>3. Mine(w) \cap Mine(v) = {}
        BY <3>4 DEF ClaimsApart
      <4> QED
        BY <4>1, <4>2, <4>3
    <3>5. ASSUME NEW v \in Worker, NEW u \in Worker, v # u PROVE Mine(v)' \cap Mine(u)' = {}
      <4>1. CASE v = w
        BY <3>4, <3>5, <4>1
      <4>2. CASE u = w
        BY <3>4, <3>5, <4>2
      <4>3. CASE v # w /\ u # w
        <5>1. Mine(v)' = Mine(v) /\ Mine(u)' = Mine(u)
          BY <1>1, <4>3, MineStep
        <5> QED
          BY <3>5, <5>1 DEF ClaimsApart
      <4> QED
        BY <4>1, <4>2, <4>3
    <3>6. ASSUME NEW v \in Worker, NEW i \in 1 .. N, CanClaim(v, i)', NEW u \in Worker, InHand(u)'
          PROVE  at'[u] # i
      <4>1. CanClaim(v, i) /\ (Claim(w) <= LastOf(w) => i # Claim(w))
        BY <3>1, <3>6
      <4>2. CASE u = w
        BY <1>1, <2>1, <3>6, <4>1, <4>2, HandStep
      <4>3. CASE u # w
        <5>1. at'[u] = at[u] /\ InHand(u)
          BY <1>1, <3>6, <4>3, MineStep, OthersStay
        <5> QED
          BY <4>1, <5>1 DEF ClaimsApart
      <4> QED
        BY <4>2, <4>3
    <3>7. ASSUME NEW v \in Worker, NEW i \in 1 .. N, CanClaim(v, i)', NEW p \in Everywhere'
          PROVE  p[1] # i
      BY <3>1, <3>2, <3>7 DEF ClaimsApart
    <3> QED
      BY <2>0, <3>1, <3>5, <3>6, <3>7 DEF ClaimsApart
  <2>2. CASE ~ Take(w)
    <3>1. at' = at /\ next' = next
      BY <1>1, <2>2, BlockPassed DEF Step, Open, PassKept, PassLine, KeepLine, EndFile, EndWork,
         Lock, Write, Unlock, work
    <3>2. \A v \in Worker : Counted(v)' /\ \A i \in 1 .. N : CanClaim(v, i)' => CanClaim(v, i)
      <4>1. \A v \in Worker : SliceEnd(v)' = SliceEnd(v) /\ SliceEnd(v - 1)' = SliceEnd(v - 1)
        BY <2>0, InputStays
      <4> QED
        BY <2>0, <3>1, <4>1 DEF ClaimsApart, Counted, CanClaim
    <3>3. /\ Mine(w)' \subseteq Mine(w)
          /\ \A v \in Worker : v # w => Mine(v)' = Mine(v) /\ (InHand(v)' <=> InHand(v))
          /\ InHand(w)' => InHand(w)
      BY <1>1, <2>2, MineStep, HandStep
    <3>4. \A v, u \in Worker : v # u => Mine(v)' \cap Mine(u)' = {}
      BY <3>3 DEF ClaimsApart
    <3>5. \A p \in Everywhere' : p \in Everywhere \/ (InHand(w) /\ p[1] = at[w])
      <4>1. CASE PassLine(w) \/ KeepLine(w)
        <5>1. More(w)
          BY <4>1 DEF PassLine, KeepLine
        <5> QED
          BY <1>1, <4>1, <5>1, PiecesMove, LinePieces
      <4>2. CASE ~ (PassLine(w) \/ KeepLine(w))
        BY <1>1, <4>2, PiecesMove
      <4> QED
        BY <4>1, <4>2
    <3>6. ASSUME NEW v \in Worker, NEW i \in 1 .. N, CanClaim(v, i)'
          PROVE  /\ \A u \in Worker : InHand(u)' => at'[u] # i
                 /\ \A p \in Everywhere' : p[1] # i
      <4>1. /\ \A u \in Worker : InHand(u) => at[u] # i
            /\ \A p \in Everywhere : p[1] # i
        BY <3>2, <3>6 DEF ClaimsApart
      <4>2. \A u \in Worker : InHand(u)' => InHand(u)
        BY <3>3
      <4> QED
        BY <3>1, <3>5, <4>1, <4>2
    <3> QED
      BY <2>0, <3>2, <3>4, <3>6 DEF ClaimsApart
  <2> QED
    BY <2>1, <2>2
<1>2. CASE Receive \/ PrintKept \/ Finish \/ Crash \/ UNCHANGED pvars
  <2>1. UNCHANGED <<pool, files, next, at, line, buf, sending, pc>> /\ Everywhere' = Everywhere
    BY <1>2, BlockOut, NothingOut, PiecesStay
  <2>2. /\ N' = N /\ \A v \in Worker : SliceEnd(v)' = SliceEnd(v) /\ SliceEnd(v - 1)' = SliceEnd(v - 1)
                                       /\ LastOf(v)' = LastOf(v)
    BY <2>1, InputStays
  <2>3. \A v \in Worker : /\ Counted(v)' <=> Counted(v)
                          /\ InHand(v)' <=> InHand(v)
                          /\ \A i \in 1 .. N : CanClaim(v, i)' <=> CanClaim(v, i)
    BY <2>1, <2>2 DEF Counted, InHand, CanClaim
  <2>4. \A v \in Worker : Mine(v)' = Mine(v)
    BY <2>1, <2>3 DEF Mine
  <2> QED
    BY <2>1, <2>2, <2>3, <2>4 DEF ClaimsApart
<1> QED
  BY <1>1, <1>2 DEF PNext

-----------------------------------------------------------------------------
(* Buffers.                                                                *)

\* A worker's step keeps what its buffer should be.
LEMMA BufferStep ==
  ASSUME PTypeOK, PShape, ClaimsApart, Buffers, KeptInPlace, BlocksApart, NEW w \in Worker, Step(w)
  PROVE  BufferOf(w)'
<1>0. /\ pool' = pool /\ files' = files /\ LastOf(w)' = LastOf(w)
      /\ at[w] \in Int /\ LastOf(w) \in Int /\ buf[w] \in Seq(Piece)
  <2>1. w \in 0 .. NWorkers /\ N \in Nat
    BY PoolAssumption, LenProperties DEF Worker, PTypeOK, N
  <2>2. LastOf(w) \in Int
    BY <2>1, SliceInList DEF LastOf
  <2>3. UNCHANGED <<pool, files>>
    BY OthersStay
  <2>4. LastOf(w)' = LastOf(w)
    BY <2>3, InputStays
  <2> QED
    BY <2>2, <2>3, <2>4 DEF PTypeOK
<1>1. BufferOf(w)
  BY DEF Buffers
<1>2. CASE Take(w)
  <2>1. /\ buf' = buf /\ pc[w] = "take" /\ at' = [at EXCEPT ![w] = Claim(w)]
        /\ pc' = [pc EXCEPT ![w] = IF Claim(w) > LastOf(w) THEN "end" ELSE "open"]
    BY <1>2 DEF Take, Goto, At
  <2>2. at'[w] = Claim(w) /\ pc'[w] = IF Claim(w) > LastOf(w) THEN "end" ELSE "open"
    BY <2>1 DEF PTypeOK
  <2>3. pool.keep = "file" => buf[w] = <<>>
    BY <1>1, <2>1 DEF BufferOf
  <2> QED
    BY <1>0, <1>1, <2>1, <2>2, <2>3, PiecesEmpty DEF BufferOf
<1>3. CASE Open(w)
  <2>1. /\ buf' = buf /\ at' = at /\ pc[w] = "open"
        /\ pc'[w] \in {"search", "take"} \/ (pc'[w] = "dead" /\ pool.dies # {})
    BY <1>3 DEF Open, Goto, At, work, PTypeOK
  <2> QED
    BY <1>0, <1>1, <2>1 DEF BufferOf
<1>4. CASE EndFile(w)
  <2>1. /\ buf' = buf /\ at' = at /\ pc[w] = "search" /\ pc'[w] = "take"
        /\ ~ MustPass(w) /\ ~ More(w)
    BY <1>4 DEF EndFile, Goto, At, work, PTypeOK
  <2>2. pool.keep = "file" => buf[w] = <<>>
    BY <2>1 DEF MustPass
  <2> QED
    BY <1>0, <1>1, <2>1, <2>2 DEF BufferOf
<1>5. CASE EndWork(w)
  <2>1. /\ buf' = buf /\ at' = at /\ pc[w] = "end" /\ pc'[w] = "left" /\ ~ MustPass(w)
    BY <1>5 DEF EndWork, Goto, At, work, PTypeOK
  <2>2. buf[w] = <<>>
    BY <2>1 DEF MustPass, At
  <2>3. at[w] > LastOf(w) /\ next' = next /\ N' = N /\ N \in Nat /\ next \in Nat
    BY <1>0, <1>1, <1>5, <2>1, InputStays, LenProperties DEF BufferOf, EndWork, work, PTypeOK, N
  <2>4. pool.hand = "counter" => next > N
    BY <1>0, <2>3 DEF ClaimsApart, Counted, LastOf
  <2>5. Exhausted(w)'
    BY <1>0, <2>1, <2>3, <2>4 DEF Exhausted
  <2> QED
    BY <1>0, <1>1, <2>1, <2>2, <2>5 DEF BufferOf
<1>6. CASE Lock(w) \/ Write(w) \/ Unlock(w)
  <2>1. /\ buf' = buf /\ at' = at /\ line' = line /\ pc[w] \in {"lock", "write"}
        /\ pc'[w] = "write" \/ (pc'[w] = IF at[w] > LastOf(w) THEN "end" ELSE "search")
    BY <1>6, PieceOut DEF Lock, Unlock, Write, Goto, At, work, PTypeOK
  <2>2. FilesOf(sending'[w]) \subseteq FilesOf(sending[w])
    <3>1. CASE Lock(w) \/ Unlock(w)
      BY <3>1, QuietStep
    <3>2. CASE Write(w)
      <4>1. sending' = [sending EXCEPT ![w] = Tail(sending[w])] /\ sending[w] \in Seq(Piece)
            /\ sending[w] # <<>>
        BY <3>2, PieceOut
      <4>2. sending'[w] = Tail(sending[w])
        BY <4>1 DEF PTypeOK
      <4>3. PiecesOf(Tail(sending[w])) \subseteq PiecesOf(sending[w])
        BY <4>1, PiecesSplit
      <4> QED
        BY <4>2, <4>3 DEF FilesOf
    <3> QED
      BY <1>6, <3>1, <3>2
  <2>3. pool.keep = "file" =>
          buf[w] = <<>> /\ at[w] <= LastOf(w) /\ line[w] > Len(Lines(w)) /\ FilesOf(sending[w]) \subseteq {at[w]}
    BY <1>1, <2>1 DEF BufferOf, InHand
  <2>4. Len(Lines(w))' = Len(Lines(w))
    BY <1>0, <2>1 DEF Lines
  <2>5. pc'[w] = "write" => (pool.keep = "file" => InHand(w)')
    BY <1>0, <2>1, <2>3 DEF InHand
  <2>6. pool.keep = "line" => buf[w] = <<>>
    BY <1>1 DEF BufferOf
  <2>7. pc'[w] \in {"write", "end", "search"} /\ (pc'[w] = "end" => at[w] > LastOf(w))
    BY <2>1
  <2>8. /\ pool'.keep = "file" =>
             /\ buf'[w] # <<>> => pc'[w] = "search"
             /\ FilesOf(buf'[w]) \subseteq {at'[w]}
             /\ pc'[w] \in {"lock", "write"} =>
                  InHand(w)' /\ line'[w] > Len(Lines(w))' /\ FilesOf(sending'[w]) \subseteq {at'[w]}
    BY <1>0, <2>1, <2>2, <2>3, <2>4, <2>5, <2>7, PiecesEmpty
  <2> QED
    BY <1>0, <2>1, <2>6, <2>7, <2>8 DEF BufferOf
<1>7. CASE KeepLine(w)
  <2>1. /\ at' = at /\ pc' = pc /\ pc[w] = "search" /\ More(w) /\ pool.keep # "line"
        /\ buf' = [buf EXCEPT ![w] = buf[w] \o Pieces(at[w], line[w])]
    BY <1>7 DEF KeepLine, At
  <2>2. /\ buf'[w] = buf[w] \o Pieces(at[w], line[w])
        /\ Pieces(at[w], line[w]) \in Seq(Piece) /\ FilesOf(Pieces(at[w], line[w])) \subseteq {at[w]}
    BY <2>1, LinePieces DEF PTypeOK, FilesOf
  <2>3. FilesOf(buf'[w]) = FilesOf(buf[w]) \cup FilesOf(Pieces(at[w], line[w]))
    BY <1>0, <2>2, PiecesConcat
  <2> QED
    BY <1>0, <1>1, <2>1, <2>2, <2>3 DEF BufferOf
<1>8. CASE PassKept(w) \/ PassLine(w)
  <2>1. PICK block \in Seq(Piece) :
           /\ UNCHANGED at
           /\ \/ /\ PassKept(w) /\ block = buf[w] /\ buf' = [buf EXCEPT ![w] = <<>>]
                 /\ UNCHANGED line /\ pc[w] \in {"search", "end"}
              \/ /\ PassLine(w) /\ buf' = buf
                 /\ pc[w] = "search" /\ pool.keep # "file"
           /\ \/ sending' = [sending EXCEPT ![w] = block] /\ pc' = [pc EXCEPT ![w] = "lock"]
              \/ pc' = pc
    BY <1>8, BlockPassed
  <2>2. pc'[w] = "lock" \/ pc'[w] = pc[w]
    BY <2>1 DEF PTypeOK
  <2>3. CASE pool.keep = "file"
    <3>1. /\ PassKept(w) /\ block = buf[w] /\ buf' = [buf EXCEPT ![w] = <<>>] /\ line' = line
          /\ pc[w] \in {"search", "end"} /\ MustPass(w) /\ buf[w] # <<>>
      BY <2>1, <2>3 DEF PassKept, MustPass
    <3>2. pc[w] = "search"
      BY <1>1, <2>3, <3>1 DEF BufferOf
    <3>3. ~ More(w)
      BY <2>3, <3>1, <3>2 DEF MustPass, At
    <3>4. line[w] > Len(Lines(w))
      <4>1. at[w] \in 1 .. N /\ files[at[w]] \in Files
        BY <3>2, FileInHand
      <4>2. files[at[w]].lines \in Seq(1 .. MAX_LINE)
        BY <4>1 DEF Files
      <4>3. Len(Lines(w)) \in Nat /\ line[w] \in Nat
        BY <4>2, LenProperties DEF PTypeOK, Lines
      <4> QED
        BY <3>2, <3>3, <4>3 DEF More, At
    <3>5. at[w] <= LastOf(w)
      BY <3>2 DEF PShape, PShapeOf
    <3>6. Len(Lines(w))' = Len(Lines(w)) /\ buf'[w] = <<>>
      BY <1>0, <2>1, <3>1 DEF Lines, PTypeOK
    <3>7. pc'[w] = "lock" => sending'[w] = buf[w]
      BY <2>1, <3>1, <3>2 DEF PTypeOK
    <3>8. FilesOf(buf[w]) \subseteq {at[w]}
      BY <1>1, <2>3 DEF BufferOf
    <3>9. pc'[w] = "lock" => InHand(w)'
      BY <1>0, <2>1, <3>5 DEF InHand
    <3>10. pc'[w] \in {"lock", "search"}
      BY <2>2, <3>2
    <3> QED
      BY <1>0, <2>1, <2>3, <3>1, <3>4, <3>6, <3>7, <3>8, <3>9, <3>10, PiecesEmpty DEF BufferOf
  <2>4. CASE pool.keep # "file"
    <3>1. buf'[w] = <<>> \/ buf'[w] = buf[w]
      BY <2>1 DEF PTypeOK
    <3> QED
      BY <1>0, <1>1, <2>1, <2>2, <2>4, <3>1 DEF BufferOf
  <2> QED
    BY <2>3, <2>4
<1> QED
  BY <1>2, <1>3, <1>4, <1>5, <1>6, <1>7, <1>8 DEF Step

\* The shared counter only goes up.
LEMMA NextGrows ==
  ASSUME PTypeOK, NEW w \in Worker, Step(w)
  PROVE  next \in Nat /\ next' \in Nat /\ next' >= next
<1>1. next' \in {next, next + 1}
  <2>1. CASE PassKept(w) \/ PassLine(w)
    BY <2>1 DEF PassKept, PassLine, work
  <2> QED
    BY <2>1 DEF Step, Take, Open, KeepLine, EndFile, EndWork, Lock, Write, Unlock, work
<1> QED
  BY <1>1 DEF PTypeOK

\* Every step keeps Buffers.
LEMMA BuffersStep ==
  ASSUME PTypeOK, PShape, ClaimsApart, Buffers, KeptInPlace, BlocksApart, [PNext]_pvars
  PROVE  Buffers'
<1>0. Len(kept) \in Nat /\ N \in Nat
  BY LenProperties DEF PTypeOK, N
<1>1. ASSUME NEW w \in Worker, Step(w) PROVE Buffers'
  <2>1. /\ UNCHANGED <<pool, files>> /\ N' = N /\ PoolSound' = PoolSound
        /\ \A v \in Worker : LastOf(v)' = LastOf(v)
    BY <1>1, OthersStay, InputStays
  <2>2. ASSUME NEW v \in Worker, v # w PROVE BufferOf(v)'
    <3>1. /\ at'[v] = at[v] /\ line'[v] = line[v] /\ pc'[v] = pc[v]
          /\ buf'[v] = buf[v] /\ sending'[v] = sending[v] /\ LastOf(v)' = LastOf(v)
      BY <1>1, <2>1, <2>2, OthersStay
    <3>2. Len(Lines(v))' = Len(Lines(v)) /\ (InHand(v)' <=> InHand(v))
      BY <2>1, <3>1 DEF Lines, InHand
    <3>3. BufferOf(v)
      BY DEF Buffers
    <3>4. Exhausted(v) => Exhausted(v)'
      BY <1>0, <1>1, <2>1, <3>1, NextGrows DEF Exhausted
    <3> QED
      BY <2>1, <3>1, <3>2, <3>3, <3>4 DEF BufferOf
  <2>3. Len(kept) = N
    <3>1. pc[w] \notin {"left", "dead", "none"}
      BY <1>1, StepperAlive
    <3> QED
      BY <1>0, <3>1 DEF Buffers, KeptShape
  <2>4. /\ kept' = kept \/ (pool.to = "kept" /\ Len(kept') = Len(kept))
    <3>1. CASE PassKept(w) \/ PassLine(w)
      <4>1. \/ kept' = kept
            \/ pool.to = "kept" /\ at[w] \in 1 .. Len(kept)
               /\ \E block \in Seq(Piece) : kept' = [kept EXCEPT ![at[w]] = block]
        BY <3>1, BlockPassed
      <4>2. ASSUME NEW block \in Seq(Piece), at[w] \in 1 .. Len(kept), kept' = [kept EXCEPT ![at[w]] = block]
            PROVE  Len(kept') = Len(kept)
        BY <4>2, ExceptSeq DEF PTypeOK
      <4> QED
        BY <4>1, <4>2
    <3>2. CASE ~ (PassKept(w) \/ PassLine(w))
      BY <1>1, <3>2, QuietStep, PieceOut DEF Step, KeepLine, output
    <3> QED
      BY <3>1, <3>2
  <2>5. KeptShape'
    BY <1>0, <2>1, <2>3, <2>4 DEF Buffers, KeptShape
  <2>6. BufferOf(w)'
    BY <1>1, BufferStep
  <2> QED
    BY <2>1, <2>2, <2>5, <2>6 DEF Buffers
<1>2. CASE Receive \/ PrintKept \/ Finish \/ Crash \/ UNCHANGED pvars
  <2>1. UNCHANGED <<pool, files, next, at, line, buf, sending, pc>>
    BY <1>2, BlockOut, NothingOut
  <2>2. N' = N /\ PoolSound' = PoolSound /\ \A v \in Worker : LastOf(v)' = LastOf(v)
    BY <2>1, InputStays
  <2>3. ASSUME NEW v \in Worker PROVE BufferOf(v)'
    <3>1. Len(Lines(v))' = Len(Lines(v)) /\ (InHand(v)' <=> InHand(v))
      BY <2>1, <2>2 DEF Lines, InHand
    <3>2. BufferOf(v)
      BY DEF Buffers
    <3> QED
      BY <2>1, <2>2, <3>1, <3>2 DEF BufferOf, Exhausted
  <2>4. KeptShape'
    <3>1. CASE PrintKept
      <4>1. kept # <<>> /\ kept' = Tail(kept) /\ pool.to = "kept" /\ Collected
        BY <3>1, BlockOut
      <4>2. Len(kept') = Len(kept) - 1
        BY <4>1, BlocksSplit DEF PTypeOK
      <4>3. \A v \in Worker : pc[v] \in {"left", "dead", "none"}
        BY <4>1 DEF Collected, Gone, At, Buffers, BufferOf
      <4> QED
        BY <1>0, <2>1, <2>2, <4>1, <4>2, <4>3 DEF Buffers, KeptShape
    <3>2. CASE ~ PrintKept
      <4>1. kept' = kept
        BY <1>2, <3>2, BlockOut, NothingOut
      <4> QED
        BY <2>1, <2>2, <4>1 DEF Buffers, KeptShape
    <3> QED
      BY <3>1, <3>2
  <2> QED
    BY <2>2, <2>3, <2>4 DEF Buffers
<1> QED
  BY <1>1, <1>2 DEF PNext

-----------------------------------------------------------------------------
(* The order of the pieces.                                                *)

\* Pieces are what is anywhere.
LEMMA WhereType ==
  ASSUME PTypeOK
  PROVE  Everywhere \subseteq Piece /\ Passed \subseteq Piece
<1>1. Out \in Seq(Piece)
  BY ConcatProperties DEF PTypeOK, Out
<1>2. PiecesOf(Out) \subseteq Piece
  BY <1>1, PiecesType
<1>3. \A w \in Worker : HeldBy(w) \subseteq Piece
  BY PiecesType DEF PTypeOK, HeldBy
<1>4. PiecesIn(mail) \subseteq Piece
  <2>1. \A k \in 1 .. Len(mail) : PiecesOf(mail[k]) \subseteq Piece
    BY ElementOfSeq, PiecesType DEF PTypeOK
  <2> QED
    BY <2>1 DEF PiecesIn
<1>5. PiecesIn(kept) \subseteq Piece
  <2>1. \A k \in 1 .. Len(kept) : PiecesOf(kept[k]) \subseteq Piece
    BY ElementOfSeq, PiecesType DEF PTypeOK
  <2> QED
    BY <2>1 DEF PiecesIn
<1> QED
  BY <1>2, <1>3, <1>4, <1>5 DEF Everywhere, Passed

\* Pieces of different files may come in any order.
LEMMA FilesApart ==
  ASSUME NEW s, NEW t, PiecesOf(s) \subseteq Piece, PiecesOf(t) \subseteq Piece,
         FilesOf(s) \cap FilesOf(t) = {}
  PROVE  Ahead(Precede, s, t)
<1> SUFFICES ASSUME NEW p \in PiecesOf(s), NEW q \in PiecesOf(t) PROVE <<p, q>> \in Precede
  BY DEF Ahead
<1>1. p[1] # q[1]
  BY DEF FilesOf
<1> QED
  BY <1>1 DEF Precede, MayPrecede

\* The pieces of the next line: they are in order, and behind all there are; a line of
\* Zig's that never fits may be ahead of them.
LEMMA LineOrder ==
  ASSUME PTypeOK, PShape, LinesAhead, NEW w \in Worker, More(w)
  PROVE  /\ InOrder(Precede, Pieces(at[w], line[w]))
         /\ \A p \in Everywhere, q \in PiecesOf(Pieces(at[w], line[w])) : <<p, q>> \in Precede
         /\ ~pool.early /\ Size(w) > CAP =>
              \A q \in PiecesOf(Pieces(at[w], line[w])), p \in Everywhere : <<q, p>> \in Precede
<1> DEFINE L == Pieces(at[w], line[w])
<1>1. /\ InHand(w) /\ at[w] \in 1 .. N /\ line[w] \in Nat /\ L \in Seq(Piece)
      /\ PiecesOf(L) = {<<at[w], line[w], k>> : k \in 1 .. files[at[w]].lines[line[w]]}
  BY LinePieces
<1>2. /\ Len(L) = Size(w) /\ Size(w) \in Nat
  BY LineInHand
<1>3. \A k \in 1 .. Len(L) : L[k] = <<at[w], line[w], k>>
  BY <1>2 DEF Pieces, Size, Lines
<1>4. PiecesOf(L) \subseteq Piece /\ \A k \in 1 .. Len(L) : L[k] \in Piece
  BY <1>1, PiecesType, ElementOfSeq
<1>5. \A q \in PiecesOf(L) : q[1] = at[w] /\ q[2] = line[w]
  BY <1>1
<1>6. \A p \in Everywhere : p[1] = at[w] => p[2] < line[w]
  BY <1>1 DEF LinesAhead
<1> HIDE DEF L
<1>7. InOrder(Precede, L)
  <2> SUFFICES ASSUME NEW i \in 1 .. Len(L), NEW j \in 1 .. Len(L), i < j PROVE <<L[i], L[j]>> \in Precede
    BY DEF InOrder
  <2>1. L[i] = <<at[w], line[w], i>> /\ L[j] = <<at[w], line[w], j>>
    BY <1>3
  <2>2. Before(L[i], L[j])
    BY <2>1 DEF Before
  <2> QED
    BY <1>4, <2>2 DEF Precede, MayPrecede
<1>8. ASSUME NEW p \in Everywhere, NEW q \in PiecesOf(L) PROVE <<p, q>> \in Precede
  <2>1. p[1] = q[1] => Before(p, q)
    BY <1>5, <1>6 DEF Before
  <2>2. p \in Piece /\ q \in Piece
    BY <1>4, WhereType
  <2> QED
    BY <2>1, <2>2 DEF Precede, MayPrecede
<1>9. ASSUME ~pool.early, Size(w) > CAP, NEW q \in PiecesOf(L), NEW p \in Everywhere
      PROVE  <<q, p>> \in Precede
  <2>1. p \in Piece /\ q \in Piece
    BY <1>4, WhereType
  <2>2. SizeOf(q) = Size(w)
    BY <1>5 DEF SizeOf, Size, Lines
  <2>3. p[1] = q[1] => p[2] < line[w] /\ p[2] \in Nat
    BY <1>5, <1>6, <2>1 DEF Piece
  <2>4. p[1] = q[1] => q[2] # p[2]
    BY <1>1, <1>5, <2>3
  <2> QED
    BY <1>9, <2>1, <2>2, <2>4 DEF Precede, MayPrecede
<1> QED
  BY <1>7, <1>8, <1>9 DEF L

\* Every step keeps LinesAhead.
LEMMA LinesAheadStep ==
  ASSUME PTypeOK, PShape, ClaimsApart, Buffers, KeptInPlace, BlocksApart, LinesAhead, [PNext]_pvars
  PROVE  LinesAhead'
<1>1. ASSUME NEW w \in Worker, Step(w) PROVE LinesAhead'
  <2> SUFFICES ASSUME NEW v \in Worker, InHand(v)', NEW p \in Everywhere', p[1] = at'[v]
               PROVE  p[2] < line'[v]
    BY DEF LinesAhead
  <2>1. CASE v = w /\ Take(w)
    <3>1. at'[w] = Claim(w) /\ Claim(w) <= LastOf(w)
      BY <1>1, <2>1, HandStep
    <3>2. Claim(w) \in 1 .. N /\ CanClaim(w, Claim(w))
      BY <2>1, <3>1, ClaimNext DEF ClaimsApart, Take
    <3>3. Everywhere' = Everywhere
      <4>1. ~ (PassLine(w) \/ KeepLine(w))
        BY <2>1 DEF Take, PassLine, KeepLine, At
      <4> QED
        BY <1>1, <4>1, PiecesMove
    <3> QED
      BY <2>1, <3>1, <3>2, <3>3 DEF ClaimsApart
  <2>2. CASE v = w /\ ~ Take(w)
    <3>1. InHand(w) /\ at'[w] = at[w]
      BY <1>1, <2>2, HandStep
    <3>2. CASE PassLine(w) \/ KeepLine(w)
      <4>1. line' = [line EXCEPT ![w] = line[w] + 1] /\ More(w)
        BY <3>2 DEF PassLine, KeepLine
      <4>2. line'[w] = line[w] + 1 /\ line[w] \in Nat
        BY <4>1 DEF PTypeOK
      <4>3. p \in Everywhere \/ p[2] = line[w]
        BY <1>1, <3>2, <4>1, PiecesMove, LinePieces
      <4>4. p \in Everywhere => p[2] < line[w] /\ p[2] \in Nat
        <5>1. p \in Everywhere => p \in Piece
          BY WhereType
        <5> QED
          BY <2>2, <3>1, <5>1 DEF LinesAhead, Piece
      <4> QED
        BY <2>2, <4>2, <4>3, <4>4
    <3>3. CASE ~ (PassLine(w) \/ KeepLine(w))
      <4>1. line' = line
        BY <1>1, <2>2, <3>3, BlockPassed, PieceOut DEF Step, Open, EndFile, EndWork, Lock, Unlock, work
      <4>2. Everywhere' = Everywhere
        BY <1>1, <3>3, PiecesMove
      <4> QED
        BY <2>2, <3>1, <4>1, <4>2 DEF LinesAhead
    <3> QED
      BY <3>2, <3>3
  <2>3. CASE v # w
    <3>1. InHand(v) /\ at'[v] = at[v] /\ line'[v] = line[v]
      BY <1>1, <2>3, MineStep, OthersStay
    <3>2. p \in Everywhere
      <4>1. CASE PassLine(w) \/ KeepLine(w)
        <5>1. More(w)
          BY <4>1 DEF PassLine, KeepLine
        <5>2. InHand(w) /\ (p \in Everywhere \/ p[1] = at[w])
          BY <1>1, <4>1, <5>1, PiecesMove, LinePieces
        <5>3. at[w] \in Mine(w) /\ at[v] \in Mine(v) /\ Mine(w) \cap Mine(v) = {}
          BY <2>3, <3>1, <5>2 DEF Mine, ClaimsApart
        <5> QED
          BY <3>1, <5>2, <5>3
      <4>2. CASE ~ (PassLine(w) \/ KeepLine(w))
        BY <1>1, <4>2, PiecesMove
      <4> QED
        BY <4>1, <4>2
    <3> QED
      BY <3>1, <3>2 DEF LinesAhead
  <2> QED
    BY <2>1, <2>2, <2>3
<1>2. CASE Receive \/ PrintKept \/ Finish \/ Crash \/ UNCHANGED pvars
  <2>1. UNCHANGED <<pool, files, at, line, pc>> /\ Everywhere' = Everywhere
    BY <1>2, BlockOut, NothingOut, PiecesStay
  <2>2. \A v \in Worker : LastOf(v)' = LastOf(v)
    BY <2>1, InputStays
  <2>3. \A v \in Worker : InHand(v)' <=> InHand(v)
    BY <2>1, <2>2 DEF InHand
  <2> QED
    BY <2>1, <2>3 DEF LinesAhead
<1> QED
  BY <1>1, <1>2 DEF PNext

\* Where all pieces are, as sequences and sets.
LEMMA PlaceTypes ==
  ASSUME PTypeOK
  PROVE  /\ Out \in Seq(Piece) /\ PiecesOf(Out) \subseteq Everywhere
         /\ \A v \in Worker : /\ buf[v] \in Seq(Piece) /\ sending[v] \in Seq(Piece)
                              /\ PiecesOf(buf[v]) \subseteq Everywhere
                              /\ PiecesOf(sending[v]) \subseteq Everywhere
                              /\ PiecesOf(buf[v]) \subseteq Piece /\ PiecesOf(sending[v]) \subseteq Piece
         /\ \A k \in 1 .. Len(mail) : /\ mail[k] \in Seq(Piece) /\ PiecesOf(mail[k]) \subseteq Everywhere
                                      /\ PiecesOf(mail[k]) \subseteq Piece
         /\ \A k \in 1 .. Len(kept) : /\ kept[k] \in Seq(Piece) /\ PiecesOf(kept[k]) \subseteq Everywhere
                                      /\ PiecesOf(kept[k]) \subseteq Piece
<1>1. Out \in Seq(Piece) /\ PiecesOf(Out) \subseteq Everywhere
  BY ConcatProperties DEF PTypeOK, Out, Everywhere, Passed
<1>2. \A v \in Worker : /\ buf[v] \in Seq(Piece) /\ sending[v] \in Seq(Piece)
                        /\ PiecesOf(buf[v]) \subseteq Everywhere
                        /\ PiecesOf(sending[v]) \subseteq Everywhere
  BY DEF PTypeOK, Everywhere, HeldBy
<1>3. \A k \in 1 .. Len(mail) : mail[k] \in Seq(Piece) /\ PiecesOf(mail[k]) \subseteq Everywhere
  BY ElementOfSeq DEF PTypeOK, Everywhere, Passed, PiecesIn
<1>4. \A k \in 1 .. Len(kept) : kept[k] \in Seq(Piece) /\ PiecesOf(kept[k]) \subseteq Everywhere
  BY ElementOfSeq DEF PTypeOK, Everywhere, Passed, PiecesIn
<1> QED
  BY <1>1, <1>2, <1>3, <1>4, PiecesType

\* What is another worker's may come before or after what is this one's.
LEMMA WorkersApart ==
  ASSUME PTypeOK, ClaimsApart, NEW w \in Worker, NEW v \in Worker, v # w, NEW s,
         PiecesOf(s) \subseteq Piece, FilesOf(s) \subseteq Mine(w)
  PROVE  Ahead(Precede, s, buf[v]) /\ Ahead(Precede, s, sending[v])
<1>1. FilesOf(s) \cap FilesOf(buf[v]) = {} /\ FilesOf(s) \cap FilesOf(sending[v]) = {}
  BY DEF ClaimsApart, Mine
<1> QED
  BY <1>1, PlaceTypes, FilesApart

\* KeepLine puts pieces behind all others.
LEMMA KeepLineOrder ==
  ASSUME PTypeOK, PShape, LinesAhead, PiecesOrdered, NEW w \in Worker, KeepLine(w)
  PROVE  PiecesOrdered'
<1> DEFINE L == Pieces(at[w], line[w])
<1>1. /\ UNCHANGED <<pool, files, sending, mail, kept, Out>> /\ More(w)
      /\ buf' = [buf EXCEPT ![w] = buf[w] \o L]
  BY DEF KeepLine, output, Out, input
<1>2. L \in Seq(Piece) /\ buf[w] \in Seq(Piece)
  BY <1>1, LinePieces, PlaceTypes
<1>3. InOrder(Precede, L) /\ \A p \in Everywhere, q \in PiecesOf(L) : <<p, q>> \in Precede
  BY <1>1, LineOrder
<1>4. Precede' = Precede
  BY <1>1, InputStays
<1> HIDE DEF L
<1>5. buf'[w] = buf[w] \o L /\ PiecesOf(buf'[w]) = PiecesOf(buf[w]) \cup PiecesOf(L)
  BY <1>1, <1>2, PiecesConcat DEF PTypeOK
<1>6. \A v \in Worker : v # w => buf'[v] = buf[v]
  BY <1>1 DEF PTypeOK
<1>7. OrderOf(w)
  BY DEF PiecesOrdered
<1>8. \A s : PiecesOf(s) \subseteq Everywhere /\ Ahead(Precede, s, buf[w]) => Ahead(Precede, s, buf'[w])
  BY <1>3, <1>5 DEF Ahead
<1>9. InOrder(Precede, buf'[w])
  <2>1. Ahead(Precede, buf[w], L)
    <3>1. PiecesOf(buf[w]) \subseteq Everywhere
      BY PlaceTypes
    <3> QED
      BY <1>3, <3>1 DEF Ahead
  <2> QED
    BY <1>2, <1>3, <1>5, <1>7, <2>1, OrderConcat DEF OrderOf
<1>10. OrderOf(w)'
  <2>1. Ahead(Precede, Out, buf'[w]) /\ Ahead(Precede, sending[w], buf'[w])
    BY <1>7, <1>8, PlaceTypes DEF OrderOf
  <2>2. \A k \in 1 .. Len(mail) : Ahead(Precede, mail[k], buf'[w])
    BY <1>7, <1>8, PlaceTypes DEF OrderOf
  <2> QED
    BY <1>1, <1>4, <1>7, <1>9, <2>1, <2>2 DEF OrderOf
<1>11. \A v \in Worker : v # w => OrderOf(v)'
  BY <1>1, <1>4, <1>6 DEF PiecesOrdered, OrderOf
<1> QED
  BY <1>1, <1>4, <1>10, <1>11 DEF PiecesOrdered

\* Write takes the first piece of what is left of a block to the end of what is out.
LEMMA WriteOrder ==
  ASSUME PTypeOK, PShape, ClaimsApart, PiecesOrdered, NEW w \in Worker, Write(w)
  PROVE  PiecesOrdered'
<1>1. /\ sending[w] \in Seq(Piece) /\ sending[w] # <<>> /\ Out \in Seq(Piece)
      /\ Out' = Append(Out, Head(sending[w])) /\ sending' = [sending EXCEPT ![w] = Tail(sending[w])]
      /\ UNCHANGED <<pool, files, buf, pc, mail, kept>>
  BY PieceOut
<1>2. PICK e \in Piece, rest \in Seq(Piece) :
        /\ e = Head(sending[w]) /\ rest = Tail(sending[w])
        /\ PiecesOf(sending[w]) = {e} \cup PiecesOf(rest)
        /\ InOrder(Precede, rest) /\ \A p \in PiecesOf(rest) : <<e, p>> \in Precede
  BY <1>1, PiecesSplit, OrderSplit DEF PiecesOrdered, OrderOf
<1>3. Precede' = Precede
  BY <1>1, InputStays
<1>4. Out' = Append(Out, e) /\ PiecesOf(Out') = PiecesOf(Out) \cup {e}
  BY <1>1, <1>2, PiecesAppend
<1>5. sending'[w] = rest /\ \A v \in Worker : v # w => sending'[v] = sending[v]
  BY <1>1, <1>2 DEF PTypeOK
<1>6. mail = <<>>
  <2>1. pool.to \in {"stdout", "stream"}
    BY DEF Write, At, PShape, PShapeOf
  <2> QED
    BY <2>1 DEF PShape
<1>7. InOrder(Precede, Out')
  <2>1. \A p \in PiecesOf(Out) : <<p, e>> \in Precede
    BY <1>2 DEF PiecesOrdered, OrderOf, Ahead
  <2> QED
    BY <1>1, <1>4, <2>1, OrderAppend DEF PiecesOrdered
<1>8. ASSUME NEW v \in Worker PROVE OrderOf(v)'
  <2>0. OrderOf(v) /\ OrderOf(w)
    BY DEF PiecesOrdered
  <2>1. Ahead(Precede, Out', buf[v])
    <3>1. CASE v = w
      BY <1>2, <1>4, <2>0, <3>1 DEF OrderOf, Ahead
    <3>2. CASE v # w
      <4>1. FilesOf(sending[w]) \subseteq Mine(w)
        BY DEF Mine
      <4>2. Ahead(Precede, sending[w], buf[v])
        BY <3>2, <4>1, PlaceTypes, WorkersApart
      <4> QED
        BY <1>2, <1>4, <2>0, <4>2 DEF OrderOf, Ahead
    <3> QED
      BY <3>1, <3>2
  <2>2. Ahead(Precede, Out', sending'[v])
    <3>1. CASE v = w
      BY <1>2, <1>4, <1>5, <2>0, <3>1 DEF OrderOf, Ahead
    <3>2. CASE v # w
      <4>1. FilesOf(sending[w]) \subseteq Mine(w)
        BY DEF Mine
      <4>2. Ahead(Precede, sending[w], sending[v])
        BY <3>2, <4>1, PlaceTypes, WorkersApart
      <4> QED
        BY <1>2, <1>4, <1>5, <2>0, <3>2, <4>2 DEF OrderOf, Ahead
    <3> QED
      BY <3>1, <3>2
  <2>3. InOrder(Precede, sending'[v]) /\ Ahead(Precede, sending'[v], buf[v])
    <3>1. CASE v = w
      BY <1>2, <1>5, <2>0, <3>1 DEF OrderOf, Ahead
    <3>2. CASE v # w
      BY <1>5, <2>0, <3>2 DEF OrderOf
    <3> QED
      BY <3>1, <3>2
  <2> QED
    BY <1>1, <1>3, <2>0, <2>1, <2>2, <2>3 DEF OrderOf
<1>9. 1 .. Len(mail) = {}
  BY <1>6, EmptySeq
<1> QED
  BY <1>1, <1>3, <1>7, <1>8, <1>9 DEF PiecesOrdered

\* A block that is passed on is behind what was, and ahead of what its worker keeps.
LEMMA PassOrder ==
  ASSUME PTypeOK, PShape, ClaimsApart, Buffers, KeptInPlace, BlocksApart, LinesAhead, PiecesOrdered,
         NEW w \in Worker, PassKept(w) \/ PassLine(w)
  PROVE  PiecesOrdered'
<1>1. PICK block \in Seq(Piece) :
         /\ UNCHANGED <<pool, files, Out>>
         /\ \/ PassKept(w) /\ block = buf[w] /\ buf' = [buf EXCEPT ![w] = <<>>]
            \/ PassLine(w) /\ block = Pieces(at[w], line[w]) /\ buf' = buf
         /\ sending[w] = <<>>
         /\ \/ /\ pool.to \in {"stdout", "stream"} /\ UNCHANGED <<mail, kept>>
               /\ sending' = [sending EXCEPT ![w] = block]
            \/ /\ pool.to = "mail" /\ mail' = Append(mail, block) /\ UNCHANGED <<sending, kept>>
            \/ /\ UNCHANGED <<sending, mail>> /\ kept' = [kept EXCEPT ![at[w]] = block]
               /\ at[w] \in 1 .. Len(kept) /\ kept[at[w]] = <<>>
  BY BlockPassed, ZenonT(30)
<1>2. Precede' = Precede
  BY <1>1, InputStays
<1>3. OrderOf(w)
  BY DEF PiecesOrdered
<1>4. \A v \in Worker : v # w => buf'[v] = buf[v]
  BY <1>1 DEF PTypeOK
<1>5. /\ InOrder(Precede, block) /\ InOrder(Precede, buf'[w])
      /\ FilesOf(block) \subseteq Mine(w)
      /\ PiecesOf(block) \subseteq Piece
      /\ Ahead(Precede, block, buf'[w])
      /\ PiecesOf(buf'[w]) \subseteq PiecesOf(buf[w])
      /\ \A s : PiecesOf(s) \subseteq Everywhere /\ Ahead(Precede, s, buf[w]) => Ahead(Precede, s, block)
  <2>1. CASE PassKept(w) /\ block = buf[w] /\ buf' = [buf EXCEPT ![w] = <<>>]
    <3>1. buf'[w] = <<>>
      BY <2>1 DEF PTypeOK
    <3>2. InOrder(Precede, <<>>) /\ PiecesOf(<<>>) = {}
      BY OrderEmpty, PiecesEmpty
    <3>3. InOrder(Precede, block) /\ FilesOf(block) \subseteq Mine(w) /\ PiecesOf(block) \subseteq Piece
      BY <1>3, <2>1, PlaceTypes DEF OrderOf, Mine
    <3> QED
      BY <2>1, <3>1, <3>2, <3>3 DEF Ahead
  <2>2. CASE PassLine(w) /\ block = Pieces(at[w], line[w]) /\ buf' = buf
    <3>1. More(w) /\ ~ MustPass(w) /\ pc[w] = "search"
          /\ (pool.keep = "line" \/ (pool.keep = "room" /\ Size(w) > CAP))
      BY <2>2 DEF PassLine, At
    <3>2. /\ InHand(w) /\ \A p \in PiecesOf(block) : p[1] = at[w]
      BY <2>2, <3>1, LinePieces
    <3>3. FilesOf(block) \subseteq Mine(w) /\ PiecesOf(block) \subseteq Piece
      BY <3>2, PiecesType DEF FilesOf, Mine
    <3>4. /\ InOrder(Precede, block)
          /\ \A p \in Everywhere, q \in PiecesOf(block) : <<p, q>> \in Precede
          /\ ~pool.early /\ Size(w) > CAP => \A q \in PiecesOf(block), p \in Everywhere : <<q, p>> \in Precede
      BY <2>2, <3>1, LineOrder
    <3>5. buf[w] = <<>> \/ (~pool.early /\ Size(w) > CAP)
      <4>1. CASE pool.keep = "line"
        BY <4>1 DEF Buffers, BufferOf
      <4>2. CASE pool.keep = "room" /\ Size(w) > CAP
        <5>1. Len(buf[w]) \in Nat /\ Size(w) \in Nat /\ CAP \in Nat
          BY <3>1, LineInHand, LenProperties, PoolAssumption DEF PTypeOK
        <5>2. Len(buf[w]) + Size(w) > CAP
          BY <4>2, <5>1
        <5> QED
          BY <3>1, <4>2, <5>2 DEF MustPass
      <4> QED
        BY <3>1, <4>1, <4>2
    <3>6. Ahead(Precede, block, buf[w])
      <4>1. CASE buf[w] = <<>>
        BY <4>1, PiecesEmpty DEF Ahead
      <4>2. CASE ~pool.early /\ Size(w) > CAP
        BY <3>4, <4>2, PlaceTypes DEF Ahead
      <4> QED
        BY <3>5, <4>1, <4>2
    <3> QED
      BY <1>3, <2>2, <3>3, <3>4, <3>6 DEF OrderOf, Ahead
  <2> QED
    BY <1>1, <2>1, <2>2
<1>6. Ahead(Precede, Out, block) /\ Ahead(Precede, Out, buf'[w])
      /\ \A k \in 1 .. Len(mail) : Ahead(Precede, mail[k], block) /\ Ahead(Precede, mail[k], buf'[w])
  <2>1. /\ Ahead(Precede, Out, buf[w]) /\ PiecesOf(Out) \subseteq Everywhere
        /\ \A k \in 1 .. Len(mail) : Ahead(Precede, mail[k], buf[w]) /\ PiecesOf(mail[k]) \subseteq Everywhere
    BY <1>3, PlaceTypes DEF OrderOf
  <2> QED
    BY <1>5, <2>1 DEF Ahead
<1>7. \A v \in Worker : v # w => Ahead(Precede, block, buf[v])
  BY <1>5, WorkersApart
<1>8. CASE UNCHANGED <<mail, kept>> /\ sending' = [sending EXCEPT ![w] = block]
  <2>1. sending'[w] = block /\ \A v \in Worker : v # w => sending'[v] = sending[v]
    BY <1>8 DEF PTypeOK
  <2>2. OrderOf(w)'
    BY <1>1, <1>2, <1>5, <1>6, <1>8, <2>1 DEF OrderOf
  <2>3. \A v \in Worker : v # w => OrderOf(v)'
    BY <1>1, <1>2, <1>4, <1>8, <2>1 DEF PiecesOrdered, OrderOf
  <2> QED
    BY <1>1, <1>2, <1>8, <2>2, <2>3 DEF PiecesOrdered
<1>9. CASE mail' = Append(mail, block) /\ UNCHANGED <<sending, kept>>
  <2>1. /\ Len(mail') = Len(mail) + 1 /\ Len(mail) \in Nat /\ mail'[Len(mail) + 1] = block
        /\ \A k \in 1 .. Len(mail) : mail'[k] = mail[k]
    BY <1>9, AppendProperties, LenProperties DEF PTypeOK
  <2>2. 1 .. Len(mail') = (1 .. Len(mail)) \cup {Len(mail) + 1}
    BY <2>1
  <2>3. sending[w] = <<>> /\ PiecesOf(<<>>) = {}
    BY <1>1, PiecesEmpty
  <2>4. OrderOf(w)'
    <3>1. \A k \in 1 .. Len(mail') : Ahead(Precede, mail'[k], buf'[w])
      BY <1>5, <1>6, <2>1, <2>2
    <3>2. Ahead(Precede, sending[w], buf'[w])
      BY <2>3 DEF Ahead
    <3> QED
      BY <1>1, <1>2, <1>3, <1>5, <1>6, <1>9, <3>1, <3>2 DEF OrderOf
  <2>5. ASSUME NEW v \in Worker, v # w PROVE OrderOf(v)'
    <3>1. OrderOf(v) /\ buf'[v] = buf[v]
      BY <1>4, <2>5 DEF PiecesOrdered
    <3>2. \A k \in 1 .. Len(mail') : Ahead(Precede, mail'[k], buf'[v])
      BY <1>7, <2>1, <2>2, <2>5, <3>1 DEF OrderOf
    <3> QED
      BY <1>1, <1>2, <1>9, <3>1, <3>2 DEF OrderOf
  <2>6. ASSUME NEW k \in 1 .. Len(mail')
        PROVE  /\ InOrder(Precede, mail'[k]) /\ Ahead(Precede, Out, mail'[k])
               /\ \A j \in 1 .. k - 1 : Ahead(Precede, mail'[j], mail'[k])
    <3>1. CASE k \in 1 .. Len(mail)
      <4>1. \A j \in 1 .. k - 1 : j \in 1 .. Len(mail)
        BY <2>1, <3>1
      <4> QED
        BY <2>1, <3>1, <4>1 DEF PiecesOrdered
    <3>2. CASE k = Len(mail) + 1
      <4>1. \A j \in 1 .. k - 1 : j \in 1 .. Len(mail)
        BY <2>1, <3>2
      <4> QED
        BY <1>5, <1>6, <2>1, <3>2, <4>1
    <3> QED
      BY <2>2, <3>1, <3>2
  <2> QED
    BY <1>1, <1>2, <1>9, <2>4, <2>5, <2>6 DEF PiecesOrdered
<1>10. CASE /\ UNCHANGED <<sending, mail>> /\ kept' = [kept EXCEPT ![at[w]] = block]
            /\ at[w] \in 1 .. Len(kept)
  <2>1. /\ Len(kept') = Len(kept)
        /\ \A k \in 1 .. Len(kept) : kept'[k] = IF k = at[w] THEN block ELSE kept[k]
    <3>1. kept \in Seq(Seq(Piece))
      BY DEF PTypeOK
    <3> QED
      BY <1>10, <3>1, ExceptSeq
  <2>2. sending[w] = <<>> /\ PiecesOf(<<>>) = {}
    BY <1>1, PiecesEmpty
  <2>3. Ahead(Precede, sending[w], buf'[w])
    BY <2>2 DEF Ahead
  <2>4. OrderOf(w)'
    BY <1>1, <1>2, <1>3, <1>5, <1>6, <1>10, <2>3 DEF OrderOf
  <2>5. \A v \in Worker : v # w => OrderOf(v)'
    BY <1>1, <1>2, <1>4, <1>10 DEF PiecesOrdered, OrderOf
  <2>6. \A k \in 1 .. Len(kept') : InOrder(Precede, kept'[k])
    BY <1>5, <2>1 DEF PiecesOrdered
  <2> QED
    BY <1>1, <1>2, <1>10, <2>4, <2>5, <2>6 DEF PiecesOrdered
<1> QED
  BY <1>1, <1>8, <1>9, <1>10

\* Main prints a block that came: it is ahead of all that is still to be passed on.
LEMMA ReceiveOrder ==
  ASSUME PTypeOK, PShape, PiecesOrdered, Receive
  PROVE  PiecesOrdered'
<1>1. /\ UNCHANGED <<pool, files, buf, sending>> /\ Out \in Seq(Piece)
      /\ mail # <<>> /\ Out' = Out \o Head(mail) /\ mail' = Tail(mail) /\ kept' = kept
  BY BlockOut
<1>2. PICK b \in Seq(Piece), rest \in Seq(Seq(Piece)) :
        /\ b = Head(mail) /\ rest = Tail(mail) /\ b = mail[1] /\ Len(mail) \in Nat \ {0}
        /\ Len(rest) = Len(mail) - 1
        /\ \A i \in 1 .. Len(rest) : i + 1 \in 1 .. Len(mail) /\ rest[i] = mail[i + 1]
  BY <1>1, BlocksSplit DEF PTypeOK
<1>3. Precede' = Precede
  BY <1>1, InputStays
<1>4. Out' = Out \o b /\ PiecesOf(Out') = PiecesOf(Out) \cup PiecesOf(b) /\ mail' = rest
  BY <1>1, <1>2, PiecesConcat
<1>5. InOrder(Precede, b) /\ Ahead(Precede, Out, b) /\ \A v \in Worker : Ahead(Precede, b, buf[v])
  BY <1>2 DEF PiecesOrdered, OrderOf
<1>6. InOrder(Precede, Out')
  BY <1>1, <1>4, <1>5, OrderConcat DEF PiecesOrdered
<1>7. \A v \in Worker : sending[v] = <<>>
  <2>1. pool.to = "mail"
    BY <1>1 DEF PShape
  <2> QED
    BY <2>1 DEF PShape, PShapeOf
<1>8. ASSUME NEW v \in Worker PROVE OrderOf(v)'
  <2>1. OrderOf(v)
    BY DEF PiecesOrdered
  <2>2. Ahead(Precede, Out', buf[v])
    BY <1>4, <1>5, <2>1 DEF OrderOf, Ahead
  <2>3. Ahead(Precede, Out', sending[v])
    BY <1>7, PiecesEmpty DEF Ahead
  <2>4. \A k \in 1 .. Len(mail') : Ahead(Precede, mail'[k], buf[v])
    BY <1>2, <1>4, <2>1 DEF OrderOf
  <2> QED
    BY <1>1, <1>3, <2>1, <2>2, <2>3, <2>4 DEF OrderOf
<1>9. ASSUME NEW k \in 1 .. Len(mail')
      PROVE  /\ InOrder(Precede, mail'[k]) /\ Ahead(Precede, Out', mail'[k])
             /\ \A j \in 1 .. k - 1 : Ahead(Precede, mail'[j], mail'[k])
  <2>1. k + 1 \in 1 .. Len(mail) /\ mail'[k] = mail[k + 1] /\ 1 \in 1 .. (k + 1) - 1
    BY <1>2, <1>4
  <2>2. Ahead(Precede, b, mail[k + 1]) /\ Ahead(Precede, Out, mail[k + 1]) /\ InOrder(Precede, mail[k + 1])
    BY <1>2, <2>1 DEF PiecesOrdered
  <2>3. Ahead(Precede, Out', mail[k + 1])
    BY <1>4, <2>2 DEF Ahead
  <2>4. \A j \in 1 .. k - 1 : j \in 1 .. Len(rest) /\ j + 1 \in 1 .. (k + 1) - 1
    BY <1>2, <1>4
  <2>5. \A j \in 1 .. k - 1 : mail'[j] = mail[j + 1] /\ Ahead(Precede, mail[j + 1], mail[k + 1])
    BY <1>2, <1>4, <2>1, <2>4 DEF PiecesOrdered
  <2> QED
    BY <2>1, <2>2, <2>3, <2>5
<1> QED
  BY <1>1, <1>3, <1>6, <1>8, <1>9 DEF PiecesOrdered

\* Main prints the next block it kept: all the others are behind it.
LEMMA PrintOrder ==
  ASSUME PTypeOK, PShape, Buffers, KeptInPlace, PiecesOrdered, PrintKept
  PROVE  PiecesOrdered'
<1>1. /\ UNCHANGED <<pool, files, buf, sending>> /\ Out \in Seq(Piece)
      /\ kept # <<>> /\ Out' = Out \o Head(kept) /\ kept' = Tail(kept) /\ mail' = mail /\ mail = <<>>
      /\ pool.to = "kept" /\ Collected
  BY BlockOut
<1>2. PICK b \in Seq(Piece), rest \in Seq(Seq(Piece)) :
        /\ b = Head(kept) /\ rest = Tail(kept) /\ b = kept[1] /\ Len(kept) \in Nat \ {0}
        /\ \A i \in 1 .. Len(rest) : i + 1 \in 1 .. Len(kept) /\ rest[i] = kept[i + 1]
  BY <1>1, BlocksSplit DEF PTypeOK
<1>3. Precede' = Precede
  BY <1>1, InputStays
<1>4. Out' = Out \o b /\ kept' = rest
  BY <1>1, <1>2
<1>5. 1 .. Len(mail) = {}
  BY <1>1, EmptySeq
<1>6. \A v \in Worker : buf[v] = <<>> /\ sending[v] = <<>>
  <2>1. \A v \in Worker : pc[v] \in {"left", "dead", "none"} /\ pool.keep = "file"
    BY <1>1 DEF Collected, Gone, At, Buffers, BufferOf, PoolSound
  <2> QED
    BY <2>1 DEF Buffers, BufferOf, PShape, PShapeOf
<1>7. Ahead(Precede, Out, b)
  <2>1. N \in Nat
    BY LenProperties DEF PTypeOK, N
  <2>2. FilesOf(kept[1]) \subseteq {1 + (N - Len(kept))} /\ \A p \in PiecesOf(Out) : p[1] <= N - Len(kept)
    <3>1. 1 \in 1 .. Len(kept)
      BY <1>2
    <3> QED
      BY <1>1, <3>1 DEF KeptInPlace
  <2>3. ASSUME NEW p \in PiecesOf(Out), NEW q \in PiecesOf(b) PROVE p[1] # q[1]
    <3>1. q[1] = 1 + (N - Len(kept)) /\ p[1] <= N - Len(kept)
      BY <1>2, <2>2 DEF FilesOf
    <3> QED
      BY <1>2, <2>1, <3>1
  <2>4. FilesOf(Out) \cap FilesOf(b) = {}
    BY <2>3 DEF FilesOf
  <2> QED
    BY <1>1, <1>2, <2>4, FilesApart, PiecesType
<1>8. InOrder(Precede, b) /\ \A k \in 1 .. Len(rest) : InOrder(Precede, rest[k])
  BY <1>2 DEF PiecesOrdered
<1>9. InOrder(Precede, Out')
  BY <1>1, <1>4, <1>7, <1>8, OrderConcat DEF PiecesOrdered
<1>10. \A v \in Worker : OrderOf(v)'
  <2>1. InOrder(Precede, <<>>) /\ PiecesOf(<<>>) = {}
    BY OrderEmpty, PiecesEmpty
  <2> QED
    BY <1>1, <1>3, <1>5, <1>6, <2>1 DEF OrderOf, Ahead
<1> QED
  BY <1>1, <1>3, <1>4, <1>5, <1>8, <1>9, <1>10 DEF PiecesOrdered

\* Every step keeps PiecesOrdered.
LEMMA OrderStep ==
  ASSUME PTypeOK, PShape, ClaimsApart, Buffers, KeptInPlace, BlocksApart, LinesAhead, PiecesOrdered,
         [PNext]_pvars
  PROVE  PiecesOrdered'
<1>1. ASSUME UNCHANGED <<pool, files, Out, mail, kept, buf, sending>> PROVE PiecesOrdered'
  <2>1. Precede' = Precede
    BY <1>1, InputStays
  <2> QED
    BY <1>1, <2>1 DEF PiecesOrdered, OrderOf
<1>2. ASSUME NEW w \in Worker, Step(w) PROVE PiecesOrdered'
  <2>1. CASE Take(w) \/ Open(w) \/ EndFile(w) \/ EndWork(w) \/ Lock(w) \/ Unlock(w)
    BY <1>1, <1>2, <2>1, QuietStep, OthersStay
  <2> QED
    BY <1>2, <2>1, KeepLineOrder, WriteOrder, PassOrder DEF Step
<1>3. CASE Finish \/ Crash \/ UNCHANGED pvars
  BY <1>1, <1>3, NothingOut
<1> QED
  BY <1>2, <1>3, ReceiveOrder, PrintOrder DEF PNext

-----------------------------------------------------------------------------
(* Blocks of whole files.                                                  *)

\* Only writing changes what is out, and a block is passed on from the file in hand.
LEMMA OutStays ==
  ASSUME PTypeOK, PShape, Buffers, KeptInPlace, BlocksApart, NEW w \in Worker, Step(w), ~ Write(w)
  PROVE  Out' = Out
BY BlockPassed, QuietStep DEF Step, KeepLine, output, Out

\* Every step keeps KeptInPlace.
LEMMA KeptStep ==
  ASSUME PTypeOK, PShape, Buffers, KeptInPlace, BlocksApart, [PNext]_pvars
  PROVE  KeptInPlace'
<1>0. Len(kept) \in Nat /\ N \in Nat
  BY LenProperties DEF PTypeOK, N
<1>1. ASSUME NEW w \in Worker, Step(w) PROVE KeptInPlace'
  <2> SUFFICES ASSUME pool.to = "kept" PROVE KeptInPlace'
    BY <1>1, OthersStay DEF KeptInPlace
  <2>1. UNCHANGED <<pool, files>> /\ N' = N
    BY <1>1, OthersStay, InputStays
  <2>2. ~ Write(w)
    BY DEF Write, At, PShape, PShapeOf
  <2>3. Out' = Out
    BY <1>1, <2>2, OutStays
  <2>4. CASE PassKept(w) \/ PassLine(w)
    <3>1. PICK block \in Seq(Piece) :
             /\ kept' = [kept EXCEPT ![at[w]] = block] /\ Len(kept) = N /\ at[w] \in 1 .. Len(kept)
             /\ block = buf[w]
      <4>1. ~ (PassKept(w) /\ PassLine(w))
        BY DEF PassKept, PassLine
      <4> QED
        BY <2>4, <4>1, BlockPassed
    <3>2. /\ Len(kept') = Len(kept)
          /\ \A k \in 1 .. Len(kept) : kept'[k] = IF k = at[w] THEN block ELSE kept[k]
      BY <3>1, ExceptSeq DEF PTypeOK
    <3>3. FilesOf(block) \subseteq {at[w]}
      BY <3>1 DEF Buffers, BufferOf, PoolSound
    <3>4. at[w] + (N - Len(kept)) = at[w]
      BY <1>0, <3>1
    <3>5. \A k \in 1 .. Len(kept') : FilesOf(kept'[k]) \subseteq {k + (N - Len(kept'))}
      BY <3>1, <3>2, <3>3, <3>4 DEF KeptInPlace
    <3>6. Ascend' = Ascend
      BY DEF Ascend
    <3> QED
      BY <2>1, <2>3, <3>2, <3>5, <3>6 DEF KeptInPlace
  <2>5. CASE ~ (PassKept(w) \/ PassLine(w))
    <3>1. kept' = kept
      BY <1>1, <2>2, <2>5, QuietStep DEF Step, KeepLine, output
    <3>2. Ascend' = Ascend
      BY DEF Ascend
    <3> QED
      BY <2>1, <2>3, <3>1, <3>2 DEF KeptInPlace
  <2> QED
    BY <2>4, <2>5
<1>2. CASE Receive
  <2>1. mail # <<>> /\ pool' = pool
    BY <1>2, BlockOut
  <2>2. pool.to = "mail"
    BY <2>1 DEF PShape
  <2> QED
    BY <2>1, <2>2 DEF KeptInPlace
<1>3. CASE PrintKept
  <2>1. /\ UNCHANGED <<pool, files>> /\ Out \in Seq(Piece)
        /\ kept # <<>> /\ Out' = Out \o Head(kept) /\ kept' = Tail(kept) /\ pool.to = "kept"
    BY <1>3, BlockOut
  <2>2. PICK b \in Seq(Piece), rest \in Seq(Seq(Piece)) :
          /\ b = Head(kept) /\ rest = Tail(kept) /\ b = kept[1] /\ Len(kept) \in Nat \ {0}
          /\ Len(rest) = Len(kept) - 1
          /\ \A i \in 1 .. Len(rest) : i + 1 \in 1 .. Len(kept) /\ rest[i] = kept[i + 1]
    BY <2>1, BlocksSplit DEF PTypeOK
  <2>3. N' = N /\ kept' = rest /\ Out' = Out \o b /\ PiecesOf(Out') = PiecesOf(Out) \cup PiecesOf(b)
    BY <2>1, <2>2, InputStays, PiecesConcat
  <2>4. \A q \in PiecesOf(b) : q[1] = 1 + (N - Len(kept))
    <3>1. 1 \in 1 .. Len(kept)
      BY <2>2
    <3>2. FilesOf(kept[1]) \subseteq {1 + (N - Len(kept))}
      BY <2>1, <3>1 DEF KeptInPlace
    <3> QED
      BY <2>2, <3>2 DEF FilesOf
  <2>5. \A p \in PiecesOf(Out) : p[1] <= N - Len(kept)
    BY <2>1 DEF KeptInPlace
  <2>6. PiecesOf(Out) \subseteq Piece /\ PiecesOf(b) \subseteq Piece
    BY <2>1, <2>2, PiecesType
  <2>7. N' - Len(kept') = 1 + (N - Len(kept))
    BY <1>0, <2>2, <2>3
  <2>8. \A p \in PiecesOf(Out') : p[1] <= N' - Len(kept')
    <3>1. \A p \in PiecesOf(Out) : p[1] \in Nat
      BY <2>6 DEF Piece
    <3>2. \A p \in PiecesOf(Out) : p[1] <= 1 + (N - Len(kept))
      BY <1>0, <2>5, <3>1
    <3>3. 1 + (N - Len(kept)) <= 1 + (N - Len(kept))
      BY <1>0
    <3> QED
      BY <2>3, <2>4, <2>7, <3>2, <3>3
  <2>9. \A k \in 1 .. Len(kept') : FilesOf(kept'[k]) \subseteq {k + (N' - Len(kept'))}
    <3> SUFFICES ASSUME NEW k \in 1 .. Len(rest) PROVE FilesOf(rest[k]) \subseteq {k + (N' - Len(kept'))}
      BY <2>3
    <3>1. FilesOf(kept[k + 1]) \subseteq {(k + 1) + (N - Len(kept))} /\ rest[k] = kept[k + 1]
      BY <2>1, <2>2 DEF KeptInPlace
    <3>2. (k + 1) + (N - Len(kept)) = k + (N' - Len(kept'))
      BY <1>0, <2>7
    <3> QED
      BY <3>1, <3>2
  <2>10. InOrder(Ascend, Out')
    <3>1. Ahead(Ascend, Out, b)
      <4> SUFFICES ASSUME NEW p \in PiecesOf(Out), NEW q \in PiecesOf(b) PROVE <<p, q>> \in Ascend
        BY DEF Ahead
      <4>1. p[1] \in Nat /\ p[1] <= N - Len(kept) /\ q[1] = 1 + (N - Len(kept))
        BY <2>4, <2>5, <2>6 DEF Piece
      <4>2. p[1] <= q[1]
        BY <1>0, <4>1
      <4> QED
        BY <2>6, <4>2 DEF Ascend
    <3>2. InOrder(Ascend, b)
      <4> SUFFICES ASSUME NEW i \in 1 .. Len(b), NEW j \in 1 .. Len(b) PROVE <<b[i], b[j]>> \in Ascend
        BY DEF InOrder
      <4>1. b[i] \in PiecesOf(b) /\ b[j] \in PiecesOf(b)
        BY DEF PiecesOf
      <4>2. b[i][1] <= b[j][1]
        BY <1>0, <2>4, <4>1
      <4> QED
        BY <2>6, <4>1, <4>2 DEF Ascend
    <3> QED
      BY <2>1, <2>2, <2>3, <3>1, <3>2, OrderConcat DEF KeptInPlace
  <2>11. Ascend' = Ascend
    BY DEF Ascend
  <2> QED
    BY <2>8, <2>9, <2>10, <2>11 DEF KeptInPlace
<1>4. CASE Finish \/ Crash \/ UNCHANGED pvars
  <2>1. UNCHANGED <<pool, files, kept, Out>> /\ Ascend' = Ascend
    BY <1>4, NothingOut DEF Ascend
  <2> QED
    BY <2>1 DEF KeptInPlace, N
<1> QED
  BY <1>1, <1>2, <1>3, <1>4 DEF PNext

\* A file in hand is not passed on by others.
LEMMA UnpassedStep ==
  ASSUME PTypeOK, PShape, ClaimsApart, Buffers, KeptInPlace, BlocksApart, pool.keep = "file",
         NEW w \in Worker, Step(w), NEW v \in Worker
  PROVE  pc'[v] \in {"open", "lock"} \/ (pc'[v] = "search" /\ (More(v)' \/ buf'[v] # <<>>)) => Unpassed(v)'
<1> SUFFICES ASSUME pc'[v] \in {"open", "lock"} \/ (pc'[v] = "search" /\ (More(v)' \/ buf'[v] # <<>>))
             PROVE  Unpassed(v)'
  OBVIOUS
<1>0. UNCHANGED <<pool, files>> /\ BufferOf(w) /\ BufferOf(v)
  BY OthersStay DEF Buffers
<1>1. CASE v # w
  <2>1. at'[v] = at[v] /\ line'[v] = line[v] /\ pc'[v] = pc[v] /\ buf'[v] = buf[v]
    BY <1>1, OthersStay
  <2>2. Unpassed(v)
    BY <1>0, <2>1 DEF BlocksApart, More, At, Lines
  <2>3. InHand(v)
    BY <1>0, <2>1 DEF BufferOf, InHand, PShape, PShapeOf
  <2>4. \A p \in HeldBy(w) : p[1] # at[v]
    <3>1. \A p \in HeldBy(w) : p[1] \in Mine(w)
      BY DEF HeldBy, Mine, FilesOf
    <3>2. at[v] \in Mine(v) /\ Mine(w) \cap Mine(v) = {}
      BY <1>1, <2>3 DEF Mine, ClaimsApart
    <3> QED
      BY <3>1, <3>2
  <2>5. ~ PassLine(w)
    BY DEF PassLine
  <2>6. Passed' \subseteq Passed \cup HeldBy(w)
    BY <2>5, PiecesMove
  <2> QED
    BY <2>1, <2>2, <2>4, <2>6 DEF Unpassed
<1>2. CASE v = w /\ Take(w)
  <2>1. pc'[w] = (IF Claim(w) > LastOf(w) THEN "end" ELSE "open") /\ at'[w] = Claim(w)
    BY <1>2 DEF Take, Goto, PTypeOK
  <2>2. ~ Claim(w) > LastOf(w)
    BY <1>2, <2>1
  <2>3. Claim(w) <= LastOf(w)
    <3>1. LastOf(w) \in Int
      <4>1. w \in 0 .. NWorkers /\ N \in Nat
        BY PoolAssumption, LenProperties DEF Worker, PTypeOK, N
      <4> QED
        BY <4>1, SliceInList DEF LastOf
    <3>2. Claim(w) \in Int
      BY <2>1, <1>2, PoolAssumption, HandKinds DEF Claim, PTypeOK
    <3> QED
      BY <2>2, <3>1, <3>2
  <2>4. Claim(w) \in 1 .. N /\ CanClaim(w, Claim(w))
    BY <1>2, <2>3, ClaimNext DEF ClaimsApart, Take
  <2>5. Passed' = Passed
    BY <1>2, QuietStep DEF Passed
  <2> QED
    BY <1>2, <2>1, <2>4, <2>5 DEF ClaimsApart, Unpassed, Everywhere
<1>3. CASE v = w /\ Open(w)
  <2>1. at' = at /\ pc[w] = "open"
    BY <1>3 DEF Open, At, work
  <2>2. Passed' = Passed
    BY <1>3, QuietStep DEF Passed
  <2> QED
    BY <1>3, <2>1, <2>2 DEF BlocksApart, Unpassed
<1>4. CASE v = w /\ (EndFile(w) \/ EndWork(w) \/ Lock(w) \/ Write(w))
  BY <1>4, PieceOut DEF EndFile, EndWork, Lock, Write, Goto, At, PTypeOK
<1>5. CASE v = w /\ Unlock(w)
  <2>1. /\ line' = line /\ at' = at /\ buf' = buf /\ pc[w] = "write"
    BY <1>5 DEF Unlock, At, work
  <2>2. buf[w] = <<>> /\ line[w] > Len(Lines(w)) /\ InHand(w)
    BY <1>0, <2>1 DEF BufferOf
  <2>3. Len(Lines(w))' = Len(Lines(w)) /\ line'[w] = line[w]
    BY <1>0, <2>1 DEF Lines
  <2>4. Len(Lines(w)) \in Nat /\ line[w] \in Nat
    <3>1. at[w] \in 1 .. N
      <4>1. at[w] \in Int /\ at[w] >= 1 /\ at[w] <= LastOf(w) /\ N \in Nat
        BY <2>1, <2>2, LenProperties DEF PTypeOK, PShape, PShapeOf, N, InHand
      <4>2. LastOf(w) \in 0 .. N
        <5>1. w \in 0 .. NWorkers /\ N \in 0 .. N
          BY <4>1, PoolAssumption DEF Worker
        <5> QED
          BY <5>1, SliceInList DEF LastOf
      <4> QED
        BY <4>1, <4>2
    <3>2. files[at[w]] \in Files
      BY <3>1, ElementOfSeq DEF PTypeOK, N
    <3>3. files[at[w]].lines \in Seq(1 .. MAX_LINE)
      BY <3>2 DEF Files
    <3> QED
      BY <3>3, LenProperties DEF PTypeOK, Lines
  <2>5. ~ (line'[w] <= Len(Lines(w))')
    BY <2>2, <2>3, <2>4
  <2>6. pc'[w] \in {"end", "search"}
    BY <1>5 DEF Unlock, Goto, PTypeOK
  <2> QED
    BY <1>5, <2>1, <2>2, <2>5, <2>6 DEF More
<1>6. CASE v = w /\ KeepLine(w)
  <2>1. UNCHANGED <<at, mail, kept, Out>> /\ pc[w] = "search" /\ More(w)
    BY <1>6 DEF KeepLine, At, output, Out
  <2>2. Unpassed(w)
    BY <2>1 DEF BlocksApart
  <2> QED
    BY <1>6, <2>1, <2>2 DEF Unpassed, Passed
<1>7. CASE v = w /\ (PassKept(w) \/ PassLine(w))
  <2>1. /\ PassKept(w) /\ MustPass(w) /\ buf[w] # <<>>
    BY <1>7 DEF PassKept, PassLine, MustPass
  <2>2. ~ PassLine(w)
    BY DEF PassLine
  <2>3. PICK block \in Seq(Piece) :
          /\ UNCHANGED <<at, Out>> /\ buf' = [buf EXCEPT ![w] = <<>>] /\ line' = line
          /\ \/ UNCHANGED <<mail, kept>> /\ pc' = [pc EXCEPT ![w] = "lock"]
             \/ pc' = pc
    BY <2>1, <2>2, BlockPassed
  <2>4. pc[w] = "search"
    BY <1>0, <2>1 DEF BufferOf
  <2>5. CASE UNCHANGED <<mail, kept>>
    <3>1. Unpassed(w)
      BY <2>1, <2>4 DEF BlocksApart
    <3> QED
      BY <1>7, <2>3, <2>5, <3>1 DEF Unpassed, Passed
  <2>6. CASE pc' = pc
    <3>1. ~ More(w)
      BY <2>1, <2>4 DEF MustPass, At
    <3>2. ~ More(w)'
      BY <1>0, <2>3, <2>6, <3>1 DEF More, At, Lines
    <3>3. buf'[w] = <<>>
      BY <2>3 DEF PTypeOK
    <3> QED
      BY <1>7, <2>4, <2>6, <3>2, <3>3
  <2> QED
    BY <2>3, <2>5, <2>6
<1> QED
  BY <1>1, <1>2, <1>3, <1>4, <1>5, <1>6, <1>7 DEF Step

\* What is out with the rest of the block somebody writes: the files stand together.
LEMMA FlowStep ==
  ASSUME PTypeOK, PShape, OneWriter, BlocksWhole, Buffers, KeptInPlace, BlocksApart,
         pool.keep = "file", [PNext]_pvars
  PROVE  InOneStretch(Flow')
<1>0. /\ pool.lock /\ holder \in 0 .. NWorkers /\ Worker = 1 .. NWorkers /\ NWorkers \in Nat
      /\ 0 \notin Worker /\ \A v \in Worker : pc[v] = "write" <=> holder = v
  <2>1. pool.lock
    BY DEF Buffers, PoolSound
  <2>2. holder \in 0 .. NWorkers /\ Worker = 1 .. NWorkers /\ NWorkers \in Nat
    BY PoolAssumption DEF PTypeOK, Worker
  <2>3. 0 \notin Worker
    BY <2>2
  <2>4. \A v \in Worker : pc[v] = "write" <=> holder = v
    BY <2>1 DEF OneWriter, At
  <2> QED
    BY <2>1, <2>2, <2>3, <2>4
<1>1. InOneStretch(Flow) /\ Out \in Seq(Piece)
  BY PlaceTypes DEF BlocksApart
<1>2. ASSUME NEW w \in Worker, Step(w) PROVE InOneStretch(Flow')
  <2>1. CASE ~ Lock(w) /\ ~ Write(w) /\ ~ Unlock(w)
    <3>1. /\ UNCHANGED <<holder, stream, stdout>> /\ pc[w] # "write"
          /\ \A v \in Worker \ {w} : sending'[v] = sending[v]
      BY <1>2, <2>1, OffLock
    <3>2. holder = 0 \/ holder \in Worker \ {w}
      BY <1>0, <3>1
    <3>3. Flow' = Flow
      BY <3>1, <3>2 DEF Flow, Out
    <3> QED
      BY <1>1, <3>3
  <2>2. CASE Lock(w)
    <3>1. /\ holder = 0 /\ holder' = w /\ sending' = sending /\ pc[w] = "lock" /\ Out' = Out
      BY <1>0, <2>2 DEF Lock, At, output, Out
    <3>2. Flow = Out /\ Flow' = Out \o sending[w] /\ sending[w] \in Seq(Piece)
      BY <1>0, <3>1 DEF Flow, PTypeOK
    <3>3. FilesOf(sending[w]) \subseteq {at[w]} /\ Unpassed(w)
      BY <3>1 DEF Buffers, BufferOf, BlocksApart
    <3>4. FilesOf(Out) \cap FilesOf(sending[w]) = {}
      BY <3>3 DEF FilesOf, Unpassed, Passed
    <3>5. \A p, q \in PiecesOf(sending[w]) : p[1] = q[1]
      BY <3>3 DEF FilesOf
    <3>6. InOneStretch(sending[w])
      BY <3>2, <3>5, TogetherOne
    <3> QED
      BY <1>1, <3>2, <3>4, <3>6, TogetherConcat
  <2>3. CASE Unlock(w)
    <3>1. /\ holder = w /\ holder' = 0 /\ sending[w] = <<>> /\ Out' = Out
      BY <1>0, <2>3 DEF Unlock, At, output, Out
    <3>2. Flow = Out \o <<>> /\ Flow' = Out
      BY <1>0, <3>1 DEF Flow
    <3> QED
      BY <1>1, <3>2, ConcatEmptySeq
  <2>4. CASE Write(w)
    <3>1. /\ sending[w] \in Seq(Piece) /\ sending[w] # <<>> /\ Out' = Append(Out, Head(sending[w]))
          /\ sending' = [sending EXCEPT ![w] = Tail(sending[w])] /\ holder' = holder
      BY <2>4, PieceOut
    <3>2. holder = w
      BY <1>0, <2>4 DEF Write, At
    <3>3. Flow = Out \o sending[w] /\ Flow' = Append(Out, Head(sending[w])) \o Tail(sending[w])
      BY <1>0, <3>1, <3>2 DEF Flow, PTypeOK
    <3> QED
      BY <1>1, <3>1, <3>3, Moved
  <2> QED
    BY <2>1, <2>2, <2>3, <2>4
<1>3. ASSUME pool.to \notin {"stdout", "stream"} PROVE holder = 0 /\ Flow = Out
  <2>1. \A v \in Worker : pc[v] # "write"
    BY <1>3 DEF PShape, PShapeOf
  <2> QED
    BY <1>0, <2>1 DEF Flow
<1>4. CASE Receive
  <2>1. mail # <<>> /\ holder' = holder /\ Out' = Out \o Head(mail)
    BY <1>4, BlockOut
  <2>2. PICK b \in Seq(Piece) : b = Head(mail) /\ b = mail[1] /\ Len(mail) \in Nat \ {0}
    BY <2>1, BlocksSplit DEF PTypeOK
  <2>3. holder = 0 /\ Flow = Out
    BY <1>3, <2>1 DEF PShape
  <2>4. 1 \in 1 .. Len(mail)
    BY <2>2
  <2>5. (\A p, q \in PiecesOf(b) : p[1] = q[1]) /\ FilesOf(b) \cap FilesOf(Out) = {}
    BY <2>2, <2>4 DEF BlocksApart, MailApart
  <2>6. InOneStretch(b)
    BY <2>5, TogetherOne
  <2>7. InOneStretch(Out \o b)
    BY <1>1, <2>3, <2>5, <2>6, TogetherConcat
  <2>8. Flow' = Out \o b
    BY <2>1, <2>2, <2>3 DEF Flow
  <2> QED
    BY <2>7, <2>8
<1>5. CASE PrintKept
  <2>1. kept # <<>> /\ holder' = holder /\ Out' = Out \o Head(kept) /\ pool.to = "kept"
    BY <1>5, BlockOut
  <2>2. PICK b \in Seq(Piece) : b = Head(kept) /\ b = kept[1] /\ Len(kept) \in Nat \ {0}
    BY <2>1, BlocksSplit DEF PTypeOK
  <2>3. holder = 0 /\ Flow = Out
    BY <1>3, <2>1
  <2>4. N - Len(kept) \in Int /\ 1 \in 1 .. Len(kept)
    BY <2>2, LenProperties DEF PTypeOK, N
  <2>5. /\ \A q \in PiecesOf(b) : q[1] = 1 + (N - Len(kept))
        /\ \A p \in PiecesOf(Out) : p[1] <= N - Len(kept)
    <3>1. FilesOf(kept[1]) \subseteq {1 + (N - Len(kept))}
      BY <2>1, <2>4 DEF KeptInPlace
    <3> QED
      BY <2>1, <2>2, <3>1 DEF KeptInPlace, FilesOf
  <2>6. FilesOf(b) \cap FilesOf(Out) = {}
    <3>1. \A p \in PiecesOf(Out), q \in PiecesOf(b) : p[1] # q[1]
      BY <2>4, <2>5
    <3> QED
      BY <3>1 DEF FilesOf
  <2>7. \A p, q \in PiecesOf(b) : p[1] = q[1]
    BY <2>5
  <2>8. InOneStretch(b)
    BY <2>7, TogetherOne
  <2>9. InOneStretch(Out \o b)
    BY <1>1, <2>3, <2>6, <2>8, TogetherConcat
  <2>10. Flow' = Out \o b
    BY <2>1, <2>2, <2>3 DEF Flow
  <2> QED
    BY <2>9, <2>10
<1>6. CASE Finish \/ Crash \/ UNCHANGED pvars
  <2>1. UNCHANGED <<holder, Out, sending>>
    BY <1>6, NothingOut
  <2>2. Flow' = Flow
    BY <2>1 DEF Flow
  <2> QED
    BY <1>1, <2>2
<1> QED
  BY <1>2, <1>4, <1>5, <1>6 DEF PNext

\* Every step keeps MailApart.
LEMMA MailStep ==
  ASSUME PTypeOK, PShape, Buffers, KeptInPlace, BlocksApart, pool.keep = "file", [PNext]_pvars
  PROVE  MailApart'
<1>0. MailApart /\ Len(mail) \in Nat
  BY LenProperties DEF BlocksApart, MailApart, PTypeOK
<1>1. ASSUME NEW w \in Worker, Step(w) PROVE MailApart'
  <2>1. CASE Write(w)
    <3>1. mail = <<>>
      BY <2>1 DEF Write, At, PShape, PShapeOf
    <3>2. mail' = mail /\ Len(mail) = 0
      BY <2>1, <3>1, PieceOut, EmptySeq
    <3> QED
      BY <3>2 DEF MailApart
  <2>2. CASE ~ Write(w)
    <3>1. Out' = Out
      BY <1>1, <2>2, OutStays
    <3>2. CASE mail' = mail
      BY <1>0, <3>1, <3>2 DEF MailApart
    <3>3. CASE mail' # mail
      <4>1. PassKept(w) \/ PassLine(w)
        BY <1>1, <2>2, <3>3, QuietStep DEF Step, KeepLine, output
      <4>2. ~ PassLine(w)
        BY DEF PassLine
      <4>3. PICK block \in Seq(Piece) : block = buf[w] /\ mail' = Append(mail, block)
        BY <3>3, <4>1, <4>2, BlockPassed
      <4>4. /\ Len(mail') = Len(mail) + 1 /\ mail'[Len(mail) + 1] = block
            /\ \A k \in 1 .. Len(mail) : mail'[k] = mail[k]
        BY <4>3, AppendProperties DEF PTypeOK
      <4>5. buf[w] # <<>> /\ BufferOf(w)
        BY <4>1, <4>2 DEF PassKept, MustPass, Buffers
      <4>6. pc[w] = "search" /\ FilesOf(block) \subseteq {at[w]} /\ Unpassed(w)
        BY <4>3, <4>5 DEF BufferOf, BlocksApart
      <4>7. FilesOf(block) \cap FilesOf(Out) = {}
        BY <4>6 DEF Unpassed, Passed, FilesOf
      <4>8. \A j \in 1 .. Len(mail) : FilesOf(mail[j]) \cap FilesOf(block) = {}
        BY <4>6 DEF Unpassed, Passed, FilesOf, PiecesIn
      <4>9. \A p, q \in PiecesOf(block) : p[1] = q[1]
        BY <4>6 DEF FilesOf
      <4>10. ASSUME NEW k \in 1 .. Len(mail')
             PROVE  /\ \A p, q \in PiecesOf(mail'[k]) : p[1] = q[1]
                    /\ FilesOf(mail'[k]) \cap FilesOf(Out) = {}
                    /\ \A j \in 1 .. k - 1 : FilesOf(mail'[j]) \cap FilesOf(mail'[k]) = {}
        <5>1. CASE k = Len(mail) + 1
          <6>1. mail'[k] = block /\ \A j \in 1 .. k - 1 : j \in 1 .. Len(mail) /\ mail'[j] = mail[j]
            BY <1>0, <4>4, <5>1
          <6> QED
            BY <4>7, <4>8, <4>9, <6>1
        <5>2. CASE k # Len(mail) + 1
          <6>1. k \in 1 .. Len(mail)
            BY <1>0, <4>4, <5>2
          <6>2. mail'[k] = mail[k] /\ \A j \in 1 .. k - 1 : mail'[j] = mail[j]
            BY <1>0, <4>4, <6>1
          <6> QED
            BY <1>0, <6>1, <6>2 DEF MailApart
        <5> QED
          BY <5>1, <5>2
      <4> QED
        BY <3>1, <4>10 DEF MailApart
    <3> QED
      BY <3>2, <3>3
  <2> QED
    BY <2>1, <2>2
<1>2. CASE Receive
  <2>1. mail # <<>> /\ Out \in Seq(Piece) /\ Out' = Out \o Head(mail) /\ mail' = Tail(mail)
    BY <1>2, BlockOut
  <2>2. PICK b \in Seq(Piece), rest \in Seq(Seq(Piece)) :
          /\ b = Head(mail) /\ rest = Tail(mail) /\ b = mail[1] /\ Len(mail) \in Nat \ {0}
          /\ Len(rest) = Len(mail) - 1
          /\ \A i \in 1 .. Len(rest) : i + 1 \in 1 .. Len(mail) /\ rest[i] = mail[i + 1]
    BY <2>1, BlocksSplit DEF PTypeOK
  <2>3. mail' = rest /\ FilesOf(Out') = FilesOf(Out) \cup FilesOf(b)
    BY <2>1, <2>2, PiecesConcat
  <2>4. ASSUME NEW k \in 1 .. Len(rest)
        PROVE  /\ \A p, q \in PiecesOf(rest[k]) : p[1] = q[1]
               /\ FilesOf(rest[k]) \cap FilesOf(Out') = {}
               /\ \A j \in 1 .. k - 1 : FilesOf(rest[j]) \cap FilesOf(rest[k]) = {}
    <3>1. k + 1 \in 1 .. Len(mail) /\ rest[k] = mail[k + 1]
      BY <2>2
    <3>2. 1 \in 1 .. (k + 1) - 1
      BY <2>2
    <3>3. FilesOf(b) \cap FilesOf(rest[k]) = {} /\ FilesOf(rest[k]) \cap FilesOf(Out) = {}
      BY <1>0, <2>2, <3>1, <3>2 DEF MailApart
    <3>4. \A j \in 1 .. k - 1 : rest[j] = mail[j + 1] /\ j + 1 \in 1 .. (k + 1) - 1
      BY <2>2
    <3>5. \A j \in 1 .. k - 1 : FilesOf(rest[j]) \cap FilesOf(rest[k]) = {}
      BY <1>0, <3>1, <3>4 DEF MailApart
    <3>6. \A p, q \in PiecesOf(rest[k]) : p[1] = q[1]
      <4>1. \A i \in 1 .. Len(mail) : \A p, q \in PiecesOf(mail[i]) : p[1] = q[1]
        BY <1>0 DEF MailApart
      <4>2. \A p, q \in PiecesOf(mail[k + 1]) : p[1] = q[1]
        BY <3>1, <4>1
      <4> QED
        BY <3>1, <4>2
    <3>7. FilesOf(rest[k]) \cap FilesOf(Out') = {}
      BY <2>3, <3>3
    <3> QED
      BY <3>5, <3>6, <3>7
  <2> QED
    BY <2>3, <2>4 DEF MailApart
<1>3. CASE PrintKept
  <2>1. mail' = mail /\ Len(mail) = 0
    BY <1>3, BlockOut, EmptySeq
  <2> QED
    BY <2>1 DEF MailApart
<1>4. CASE Finish \/ Crash \/ UNCHANGED pvars
  <2>1. UNCHANGED <<mail, Out>>
    BY <1>4, NothingOut
  <2> QED
    BY <1>0, <2>1 DEF MailApart
<1> QED
  BY <1>1, <1>2, <1>3, <1>4 DEF PNext

\* Every step keeps BlocksApart.
LEMMA BlocksApartStep ==
  ASSUME PTypeOK, PShape, OneWriter, BlocksWhole, ClaimsApart, Buffers, KeptInPlace, BlocksApart,
         [PNext]_pvars
  PROVE  BlocksApart'
<1>1. UNCHANGED <<pool, files>>
  BY OthersStay, MainFrame DEF PNext
<1> SUFFICES ASSUME pool.keep = "file" PROVE BlocksApart'
  BY <1>1 DEF BlocksApart
<1>2. ASSUME NEW v \in Worker
      PROVE  pc'[v] \in {"open", "lock"} \/ (pc'[v] = "search" /\ (More(v)' \/ buf'[v] # <<>>)) => Unpassed(v)'
  <2>1. ASSUME NEW w \in Worker, Step(w)
        PROVE  pc'[v] \in {"open", "lock"} \/ (pc'[v] = "search" /\ (More(v)' \/ buf'[v] # <<>>))
                 => Unpassed(v)'
    BY <2>1, UnpassedStep
  <2>2. CASE Receive \/ PrintKept \/ Finish \/ Crash \/ UNCHANGED pvars
    <3>1. Passed' = Passed /\ UNCHANGED <<at, line, buf, pc>>
      BY <2>2, PiecesStay, BlockOut, NothingOut
    <3> QED
      BY <1>1, <3>1 DEF BlocksApart, Unpassed, More, At, Lines
  <2> QED
    BY <2>1, <2>2 DEF PNext
<1>3. MailApart' /\ InOneStretch(Flow')
  BY MailStep, FlowStep
<1> QED
  BY <1>2, <1>3 DEF BlocksApart, MailApart

-----------------------------------------------------------------------------
(* Nothing is lost.                                                        *)

\* What decides whether a file can be claimed, and whether it is in hand.
LEMMA ClaimFrame ==
  ASSUME UNCHANGED <<pool, files, next, at>>
  PROVE  \A v \in Worker : /\ \A i \in 1 .. N : CanClaim(v, i)' <=> CanClaim(v, i)
                           /\ pc'[v] = pc[v] => (InHand(v)' <=> InHand(v))
BY DEF CanClaim, InHand, SliceEnd, LastOf, N

\* A line that is somewhere stays somewhere.
LEMMA LineStays ==
  ASSUME UNCHANGED files, Everywhere \subseteq Everywhere', NEW i, NEW l, LineThere(i, l)
  PROVE  LineThere(i, l)'
BY DEF LineThere

\* A worker's step keeps LinesThere.
LEMMA LinesThereStep ==
  ASSUME PTypeOK, PShape, ClaimsApart, Buffers, KeptInPlace, BlocksApart, LinesThere,
         NEW w \in Worker, Step(w)
  PROVE  LinesThere'
<1>0. /\ UNCHANGED <<pool, files>> /\ N' = N /\ \A v \in Worker : LastOf(v)' = LastOf(v)
      /\ \A v \in Worker : v # w => at'[v] = at[v] /\ line'[v] = line[v] /\ pc'[v] = pc[v]
  BY OthersStay, InputStays
<1>1. /\ Everywhere \subseteq Everywhere'
      /\ PassLine(w) \/ KeepLine(w) => PiecesOf(Pieces(at[w], line[w])) \subseteq Everywhere'
  BY PiecesMove
<1>2. \A i, l : LineThere(i, l) => LineThere(i, l)'
  BY <1>0, <1>1, LineStays
<1> SUFFICES ASSUME NEW i \in 1 .. N, files[i].fault = "no"
             PROVE  \/ MainHas(i)'
                    \/ \E v \in Worker : CanClaim(v, i)'
                    \/ \E v \in Worker : InHand(v)' /\ at'[v] = i
                                         /\ \A l \in 1 .. line'[v] - 1 : LineThere(i, l)'
                    \/ \A l \in 1 .. Len(files[i].lines) : LineThere(i, l)'
  BY <1>0 DEF LinesThere
<1>3. CASE \E v \in Worker : CanClaim(v, i)
  <2>1. CASE Take(w)
    <3>1. (\E v \in Worker : CanClaim(v, i)') \/ (i = Claim(w) /\ Claim(w) <= LastOf(w))
      BY <1>3, <2>1, ClaimGone DEF ClaimsApart
    <3>2. CASE i = Claim(w) /\ Claim(w) <= LastOf(w)
      <4>1. /\ at'[w] = i /\ line'[w] = 1
            /\ pc'[w] = (IF Claim(w) > LastOf(w) THEN "end" ELSE "open")
        BY <2>1, <3>2 DEF Take, Goto, PTypeOK
      <4>2. ~ Claim(w) > LastOf(w)
        <5>1. w \in 0 .. NWorkers /\ N \in Nat
          BY PoolAssumption, LenProperties DEF Worker, PTypeOK, N
        <5>2. LastOf(w) \in Int /\ Claim(w) \in Int
          BY <3>2, <5>1, SliceInList DEF LastOf
        <5> QED
          BY <3>2, <5>2
      <4>3. InHand(w)'
        BY <1>0, <3>2, <4>1, <4>2 DEF InHand
      <4> QED
        BY <4>1, <4>3
    <3> QED
      BY <3>1, <3>2
  <2>2. CASE ~ Take(w)
    <3>1. UNCHANGED <<next, at>>
      <4>1. PassKept(w) \/ PassLine(w) => UNCHANGED <<next, at>>
        BY DEF PassKept, PassLine, work
      <4> QED
        BY <2>2, <4>1 DEF Step, Open, KeepLine, EndFile, EndWork, Lock, Write, Unlock, work
    <3> QED
      BY <1>0, <1>3, <3>1, ClaimFrame
  <2> QED
    BY <2>1, <2>2
<1>4. CASE \A l \in 1 .. Len(files[i].lines) : LineThere(i, l)
  BY <1>2, <1>4
<1>5. ASSUME NEW v \in Worker, v # w, InHand(v), at[v] = i, \A l \in 1 .. line[v] - 1 : LineThere(i, l)
      PROVE  InHand(v)' /\ at'[v] = i /\ \A l \in 1 .. line'[v] - 1 : LineThere(i, l)'
  BY <1>0, <1>2, <1>5 DEF InHand
<1>6. CASE InHand(w) /\ at[w] = i /\ \A l \in 1 .. line[w] - 1 : LineThere(i, l)
  <2>1. pc[w] \notin {"take", "end"} /\ line[w] \in Nat
    BY <1>6 DEF InHand, PTypeOK
  <2>2. CASE PassLine(w) \/ KeepLine(w)
    <3>1. More(w) /\ at' = at /\ line' = [line EXCEPT ![w] = @ + 1] /\ pc[w] = "search"
      BY <2>2 DEF PassLine, KeepLine, More, At
    <3>2. pc'[w] \in {"search", "lock"}
      BY <2>2, <3>1, BlockPassed DEF KeepLine, PTypeOK
    <3>3. InHand(w)'
      BY <1>0, <1>6, <3>1, <3>2 DEF InHand
    <3>4. PICK m \in Nat : m = line[w]
      BY <2>1
    <3>5. LineThere(i, m)'
      <4>1. PiecesOf(Pieces(at[w], line[w])) = {<<i, m, k>> : k \in 1 .. files[i].lines[m]}
        BY <1>6, <3>1, <3>4, LinePieces
      <4>2. \A k \in 1 .. files[i].lines[m] : <<i, m, k>> \in Everywhere'
        BY <1>1, <2>2, <4>1
      <4> QED
        BY <1>0, <4>2 DEF LineThere
    <3>6. line'[w] = m + 1
      BY <3>1, <3>4 DEF PTypeOK
    <3>7. \A l \in 1 .. line'[w] - 1 : LineThere(i, l)'
      <4>1. \A l \in 1 .. line'[w] - 1 : l = m \/ l \in 1 .. line[w] - 1
        BY <3>4, <3>6
      <4> QED
        BY <1>2, <1>6, <3>5, <4>1
    <3> QED
      BY <1>6, <3>1, <3>3, <3>7
  <2>3. CASE EndFile(w)
    <3>1. ~ (line[w] <= Len(files[i].lines))
      BY <1>6, <2>3 DEF EndFile, More, Lines
    <3>2. Len(files[i].lines) \in Nat
      <4>1. files[i] \in Files
        BY ElementOfSeq DEF PTypeOK, N
      <4> QED
        BY <4>1, LenProperties DEF Files
    <3>3. \A l \in 1 .. Len(files[i].lines) : l \in 1 .. line[w] - 1
      BY <2>1, <3>1, <3>2
    <3> QED
      BY <1>2, <1>6, <3>3
  <2>4. CASE Open(w) \/ PassKept(w) \/ Lock(w) \/ Write(w) \/ Unlock(w)
    <3>1. at' = at /\ line' = line
      <4>1. PassKept(w) => at' = at /\ line' = line
        BY DEF PassKept, work
      <4> QED
        BY <2>4, <4>1 DEF Open, Lock, Write, Unlock, work
    <3>2. pc'[w] \in {"open", "search", "lock", "write"}
      <4>1. CASE Open(w)
        BY <1>6, <4>1 DEF Open, Goto, PTypeOK
      <4>2. CASE PassKept(w)
        <5>1. pc'[w] \in {pc[w], "lock"}
          BY <4>2, BlockPassed DEF PTypeOK
        <5> QED
          BY <1>6, <5>1 DEF InHand
      <4>3. CASE Lock(w)
        BY <4>3 DEF Lock, Goto, PTypeOK
      <4>4. CASE Write(w)
        BY <4>4 DEF Write, At
      <4>5. CASE Unlock(w)
        <5>1. pc'[w] = (IF at[w] > LastOf(w) THEN "end" ELSE "search")
          BY <4>5 DEF Unlock, Goto, PTypeOK
        <5>2. ~ at[w] > LastOf(w)
          <6>1. w \in 0 .. NWorkers /\ N \in Nat
            BY PoolAssumption, LenProperties DEF Worker, PTypeOK, N
          <6>2. LastOf(w) \in Int /\ at[w] \in Int /\ at[w] <= LastOf(w)
            BY <1>6, <6>1, SliceInList DEF LastOf, PTypeOK, InHand
          <6> QED
            BY <6>2
        <5> QED
          BY <5>1, <5>2
      <4> QED
        BY <2>4, <4>1, <4>2, <4>3, <4>4, <4>5
    <3>3. InHand(w)'
      BY <1>0, <1>6, <3>1, <3>2 DEF InHand
    <3> QED
      BY <1>2, <1>6, <3>1, <3>3
  <2>5. ~ Take(w) /\ ~ EndWork(w)
    BY <2>1 DEF Take, EndWork, At
  <2> QED
    BY <2>2, <2>3, <2>4, <2>5 DEF Step
<1>7. \/ MainHas(i)
      \/ \E v \in Worker : CanClaim(v, i)
      \/ \E v \in Worker : InHand(v) /\ at[v] = i /\ \A l \in 1 .. line[v] - 1 : LineThere(i, l)
      \/ \A l \in 1 .. Len(files[i].lines) : LineThere(i, l)
  BY DEF LinesThere
<1>8. CASE \E v \in Worker : InHand(v) /\ at[v] = i /\ \A l \in 1 .. line[v] - 1 : LineThere(i, l)
  BY <1>5, <1>6, <1>8
<1>9. CASE MainHas(i)
  BY <1>9, NoneStay DEF PNext
<1> QED
  BY <1>3, <1>4, <1>7, <1>8, <1>9

\* Every step keeps NothingLost.
LEMMA NothingLostStep ==
  ASSUME PTypeOK, PShape, ClaimsApart, Buffers, KeptInPlace, BlocksApart, NothingLost, [PNext]_pvars
  PROVE  NothingLost'
<1>1. ASSUME NEW w \in Worker, Step(w) PROVE NothingLost'
  <2>1. LinesThere'
    BY <1>1, LinesThereStep DEF NothingLost
  <2>2. CASE PassLine(w) \/ KeepLine(w)
    <3>1. More(w) /\ matched'
      BY <2>2 DEF PassLine, KeepLine
    <3>2. /\ Pieces(at[w], line[w]) \in Seq(Piece) /\ Pieces(at[w], line[w]) # <<>>
          /\ PiecesOf(Pieces(at[w], line[w])) \subseteq Everywhere'
      BY <1>1, <2>2, <3>1, LinePieces, PiecesMove
    <3>3. Everywhere' # {}
      BY <3>2, PiecesType
    <3> QED
      BY <2>1, <3>1, <3>3 DEF NothingLost
  <2>3. CASE ~ PassLine(w) /\ ~ KeepLine(w)
    <3>1. matched' = matched
      <4>1. PassKept(w) => matched' = matched
        BY DEF PassKept
      <4> QED
        BY <1>1, <2>3, <4>1 DEF Step, Take, Open, EndFile, EndWork, Lock, Write, Unlock
    <3>2. Everywhere' = Everywhere /\ (SliceInMain' <=> SliceInMain)
      BY <1>1, <2>3, PiecesMove, NoneStay DEF PNext
    <3> QED
      BY <2>1, <3>1, <3>2 DEF NothingLost
  <2> QED
    BY <2>2, <2>3
<1>2. CASE Receive \/ PrintKept \/ Finish \/ Crash \/ UNCHANGED pvars
  <2>1. UNCHANGED <<pool, files, next, at, line, pc, matched>>
    BY <1>2, BlockOut, NothingOut
  <2>2. Everywhere' = Everywhere
    BY <1>2, PiecesStay
  <2>3. \A i, l : LineThere(i, l)' <=> LineThere(i, l)
    BY <2>1, <2>2 DEF LineThere
  <2>4. N' = N /\ \A v \in Worker : /\ \A i \in 1 .. N : CanClaim(v, i)' <=> CanClaim(v, i)
                                    /\ InHand(v)' <=> InHand(v)
    BY <2>1, ClaimFrame, InputStays
  <2>5. (SliceInMain' <=> SliceInMain) /\ \A i : MainHas(i)' <=> MainHas(i)
    BY <1>2, NoneStay DEF PNext
  <2>6. LinesThere'
    BY <2>1, <2>3, <2>4, <2>5 DEF NothingLost, LinesThere
  <2> QED
    BY <2>1, <2>2, <2>5, <2>6 DEF NothingLost
<1> QED
  BY <1>1, <1>2 DEF PNext

-----------------------------------------------------------------------------
(* The start.                                                              *)

\* At the start every file can be claimed.
LEMMA AllClaimable ==
  ASSUME PTypeOK, next = 1, at = [w \in Worker |-> BeforeFirst(w)], NEW i \in 1 .. N
  PROVE  \E w \in Worker : CanClaim(w, i)
<1>0. NWorkers \in Nat \ {0} /\ Worker = 1 .. NWorkers /\ N \in Nat
  BY PoolAssumption, LenProperties DEF Worker, PTypeOK, N
<1>1. CASE pool.hand = "counter"
  <2>1. 1 \in Worker /\ i >= next
    BY <1>0
  <2> QED
    BY <1>1, <2>1 DEF CanClaim
<1>2. CASE pool.hand = "stride"
  <2> DEFINE e == i - 1
             q == e \div NWorkers
             r == e % NWorkers
             w == r + 1
             m == q + 1
  <2>1. q \in Nat /\ r \in 0 .. NWorkers - 1 /\ e = NWorkers * q + r
    <3>1. e \in Nat /\ q = e \div NWorkers /\ r = e % NWorkers
      BY <1>0
    <3> HIDE DEF e, q, r
    <3> QED
      BY <1>0, <3>1
  <2> HIDE DEF q, r
  <2>2. w \in Worker /\ i = (w - NWorkers) + (NWorkers * q + NWorkers)
    BY <1>0, <2>1
  <2> HIDE DEF w
  <2>3. NWorkers * q + NWorkers = m * NWorkers /\ m \in Nat /\ m >= 1 /\ m <= m * NWorkers
    BY <1>0, <2>1
  <2>4. at[w] = w - NWorkers
    BY <1>2, <2>2 DEF BeforeFirst
  <2> HIDE DEF m
  <2>5. m * NWorkers \in Nat /\ w \in Int
    BY <1>0, <2>2, <2>3
  <2>6. i = at[w] + m * NWorkers /\ m \in 1 .. i - at[w]
    BY <1>0, <2>2, <2>3, <2>4, <2>5
  <2> QED
    BY <1>2, <2>2, <2>6 DEF CanClaim
<1>3. CASE pool.hand = "chunk"
  <2>1. PICK w \in Worker : SliceEnd(w - 1) < i /\ i <= SliceEnd(w)
    BY SliceCover
  <2>2. at[w] = SliceEnd(w - 1)
    BY <1>3 DEF BeforeFirst
  <2> QED
    BY <1>3, <2>1, <2>2 DEF CanClaim
<1> QED
  BY <1>1, <1>2, <1>3 DEF PTypeOK, Programs

\* PDelivery holds before the first step.
LEMMA PStartDelivery ==
  ASSUME PTypeOK, PoolSound, NEW p, NEW list, NEW l \in {"none", "take"}, PStart(p, list, l)
  PROVE  PDelivery
<1>1. PTypeOK
  OBVIOUS
<1>3. /\ next = 1 /\ at = [w \in Worker |-> BeforeFirst(w)]
      /\ \A w \in Worker : buf[w] = <<>> /\ sending[w] = <<>> /\ pc[w] = l /\ at[w] = BeforeFirst(w)
      /\ holder = 0 /\ mail = <<>> /\ kept = [i \in 1 .. N |-> <<>>]
      /\ stream = <<>> /\ stdout = <<>> /\ matched = FALSE
  BY DEF PStart
<1>4. Out = <<>> /\ Flow = <<>> /\ Len(mail) = 0 /\ Len(Out) = 0
  BY <1>3, EmptySeq, ConcatEmptySeq DEF Out, Flow, PTypeOK
<1>5. N \in Nat /\ Len(kept) = N /\ \A k \in 1 .. Len(kept) : kept[k] = <<>>
  <2>1. N \in Nat
    BY <1>1, LenProperties DEF PTypeOK, N
  <2>2. Len(kept) \in Nat /\ 1 .. Len(kept) = DOMAIN kept
    BY <1>1, LenProperties DEF PTypeOK
  <2>3. DOMAIN kept = 1 .. N
    BY <1>3
  <2> QED
    BY <1>3, <2>1, <2>2, <2>3
<1>6. Everywhere = {} /\ \A w \in Worker : ~ InHand(w) /\ Mine(w) = {}
  <2>1. PiecesIn(kept) = {}
    BY <1>5, PiecesEmpty DEF PiecesIn
  <2>2. Passed = {}
    BY <1>3, <1>4, <2>1, PiecesEmpty DEF Passed
  <2>3. \A w \in Worker : HeldBy(w) = {}
    BY <1>3, PiecesEmpty DEF HeldBy
  <2>4. \A w \in Worker : ~ InHand(w)
    BY <1>3 DEF InHand
  <2>5. \A w \in Worker : Mine(w) = {}
    BY <1>3, <2>4, PiecesEmpty DEF Mine
  <2> QED
    BY <2>2, <2>3, <2>4, <2>5 DEF Everywhere
<1>7. ClaimsApart
  <2>1. ASSUME NEW w \in Worker PROVE Counted(w)
    <3>1. NWorkers \in Nat /\ w \in 1 .. NWorkers
      BY PoolAssumption DEF Worker
    <3>2. CASE pool.hand = "counter"
      BY <1>3, <3>2 DEF Counted, BeforeFirst
    <3>3. CASE pool.hand = "stride"
      <4>1. at[w] = w - NWorkers
        BY <1>3, <3>3 DEF BeforeFirst
      <4>2. 0 \in 0 .. at[w] + NWorkers /\ at[w] = (w - NWorkers) + 0 * NWorkers
        BY <3>1, <4>1
      <4> QED
        BY <3>3, <4>2 DEF Counted
    <3>4. CASE pool.hand = "chunk"
      <4>1. at[w] = SliceEnd(w - 1)
        BY <1>3, <3>4 DEF BeforeFirst
      <4>2. SliceEnd(w - 1) \in Int
        <5>1. w - 1 \in 0 .. NWorkers
          BY <3>1
        <5> QED
          BY <1>1, <5>1, SliceInList
      <4> QED
        BY <3>4, <4>1, <4>2 DEF Counted
    <3> QED
      BY <1>1, <3>2, <3>3, <3>4 DEF PTypeOK, Programs
  <2> QED
    BY <1>6, <2>1 DEF ClaimsApart
<1>8. Buffers
  <2>1. KeptShape
    BY <1>5 DEF KeptShape
  <2>2. ASSUME NEW w \in Worker PROVE BufferOf(w)
    BY <1>3, PiecesEmpty DEF BufferOf
  <2> QED
    BY <2>1, <2>2 DEF Buffers
<1>9. PiecesOrdered
  <2>1. InOrder(Precede, Out) /\ \A w \in Worker : InOrder(Precede, buf[w]) /\ InOrder(Precede, sending[w])
    BY <1>3, <1>4, OrderEmpty
  <2>2. \A w \in Worker : /\ Ahead(Precede, Out, buf[w]) /\ Ahead(Precede, Out, sending[w])
                          /\ Ahead(Precede, sending[w], buf[w])
    BY <1>3, <1>4, PiecesEmpty DEF Ahead
  <2>3. \A w \in Worker : OrderOf(w)
    BY <1>4, <2>1, <2>2 DEF OrderOf
  <2>4. \A k \in 1 .. Len(kept) : InOrder(Precede, kept[k])
    BY <1>5, OrderEmpty
  <2> QED
    BY <1>4, <2>1, <2>3, <2>4 DEF PiecesOrdered
<1>10. LinesAhead
  BY <1>6 DEF LinesAhead
<1>11. KeptInPlace
  <2>1. InOrder(Ascend, Out) /\ PiecesOf(Out) = {}
    BY <1>4, OrderEmpty, PiecesEmpty
  <2>2. \A k \in 1 .. Len(kept) : FilesOf(kept[k]) = {}
    BY <1>5, PiecesEmpty
  <2> QED
    BY <2>1, <2>2 DEF KeptInPlace
<1>12. BlocksApart
  <2>1. InOneStretch(Flow)
    BY <1>4 DEF InOneStretch
  <2>2. \A w \in Worker : Unpassed(w)
    BY <1>6 DEF Unpassed, Everywhere
  <2> QED
    BY <1>4, <2>1, <2>2 DEF BlocksApart, MailApart
<1>13. NothingLost
  <2>1. \A i \in 1 .. N : \E w \in Worker : CanClaim(w, i)
    BY <1>1, <1>3, AllClaimable
  <2> QED
    BY <1>3, <1>6, <2>1 DEF NothingLost, LinesThere
<1> QED
  BY <1>7, <1>8, <1>9, <1>10, <1>11, <1>12, <1>13 DEF PDelivery

LEMMA PInitDelivery == PInit => PDelivery
<1> SUFFICES ASSUME NEW p \in Pools, NEW list \in Lists, PStart(p, list, "take") PROVE PDelivery
  BY DEF PInit
<1>1. PTypeOK
  BY PInitInv DEF PIInv, PInit
<1>2. PoolSound
  BY SoundAssumption DEF PoolSound, PStart
<1> QED
  BY <1>1, <1>2, PStartDelivery

-----------------------------------------------------------------------------
(* What comes out.                                                         *)

\* Every claimed file's pieces are with one worker, passed on or out, in order, and none is
\* lost, for every program of Pools, number of workers, list of files and buffer size
\* (PDelivery, what the claims, buffers, locks and mailboxes of the pools are for).
THEOREM PDelivered == PSpec => []PDelivery
<1>1. PIInv /\ PDelivery /\ [PNext]_pvars => PDelivery'
  <2> SUFFICES ASSUME PIInv, PDelivery, [PNext]_pvars PROVE PDelivery'
    OBVIOUS
  <2>1. /\ PTypeOK /\ PShape /\ OneWriter /\ BlocksWhole /\ ClaimsApart /\ Buffers
        /\ PiecesOrdered /\ LinesAhead /\ KeptInPlace /\ BlocksApart /\ NothingLost
    BY DEF PIInv, PDelivery
  <2>2. ClaimsApart'
    BY <2>1, ClaimsStep
  <2>3. Buffers'
    BY <2>1, BuffersStep
  <2>4. PiecesOrdered'
    BY <2>1, OrderStep
  <2>5. LinesAhead'
    BY <2>1, LinesAheadStep
  <2>6. KeptInPlace'
    BY <2>1, KeptStep
  <2>7. BlocksApart'
    BY <2>1, BlocksApartStep
  <2>8. NothingLost'
    BY <2>1, NothingLostStep
  <2> QED
    BY <2>2, <2>3, <2>4, <2>5, <2>6, <2>7, <2>8 DEF PDelivery
<1> QED
  BY <1>1, PInitDelivery, PSafety, PTL DEF PSpec

\* One stretch up to the block being written is one stretch without it.
LEMMA FilesRight == PTypeOK /\ PDelivery => FilesWhole
<1> SUFFICES ASSUME PTypeOK, PDelivery, pool.keep = "file" PROVE InOneStretch(Out)
  BY DEF FilesWhole, InOneStretch
<1>1. InOneStretch(Flow) /\ Out \in Seq(Piece)
  BY PlaceTypes DEF PDelivery, BlocksApart
<1>2. CASE holder = 0
  BY <1>1, <1>2 DEF Flow
<1>3. CASE holder # 0
  <2>1. sending[holder] \in Seq(Piece) /\ Flow = Out \o sending[holder]
    <3>1. holder \in Worker
      BY <1>3, PoolAssumption DEF PTypeOK, Worker
    <3> QED
      BY <1>3, <3>1 DEF PTypeOK, Flow
  <2> QED
    BY <1>1, <2>1, TogetherPrefix
<1> QED
  BY <1>2, <1>3

\* A program that keeps a file's lines for one block (Go's work(), Java's run(), the
\* others that lock the output for a file) lets nothing come between them.
THEOREM PFilesWhole == PSpec => []FilesWhole
BY FilesRight, PTypeCorrect, PDelivered, PTL

\* What may come before what, read off the output.
LEMMA OwnOrderRight == PDelivery => OwnOrder
<1> SUFFICES ASSUME PDelivery, NEW i \in 1 .. Len(Out), NEW j \in 1 .. Len(Out), i < j,
                    Out[i][1] = Out[j][1]
             PROVE  \/ Before(Out[i], Out[j])
                    \/ ~pool.early /\ SizeOf(Out[i]) > CAP /\ Out[i][2] # Out[j][2]
  BY DEF OwnOrder
<1>1. <<Out[i], Out[j]>> \in Precede
  BY DEF PDelivery, PiecesOrdered, InOrder
<1>2. MayPrecede(Out[i], Out[j])
  BY <1>1 DEF Precede
<1> QED
  BY <1>2 DEF MayPrecede

\* However a program buffers, locks or mails its lines, those of one file come out in its
\* order and none twice, Zig's long lines excepted.
THEOREM POwnOrder == PSpec => []OwnOrder
BY OwnOrderRight, PDelivered, PTL

\* The same for the order of the list.
LEMMA ListOrderRight == PDelivery => ListOrder
<1> SUFFICES ASSUME PDelivery, pool.to = "kept", NEW i \in 1 .. Len(Out), NEW j \in 1 .. Len(Out),
                    i < j
             PROVE  Out[i][1] <= Out[j][1]
  BY DEF ListOrder
<1>1. <<Out[i], Out[j]>> \in Ascend
  BY DEF PDelivery, KeptInPlace, InOrder
<1> QED
  BY <1>1 DEF Ascend

\* Where main keeps a block for every file (Rust, Chapel, Julia), the files come out in
\* the order of the list.
THEOREM PListOrder == PSpec => []ListOrder
BY ListOrderRight, PDelivered, PTL

\* When every worker is accounted for, main ends with every line out.
LEMMA FinishComplete ==
  ASSUME PTypeOK, PShape, PDelivery, NoneIdle, MainDone, Finish
  PROVE  Complete'
<1>1. /\ mail = <<>> /\ stdout' = Out /\ UNCHANGED <<pool, files, at, pc>>
      /\ pool.to = "kept" => kept = <<>>
      /\ status' = (IF matched THEN 0 ELSE 1)
  BY DEF Finish, Collected, Out, input, work
<1>2. ASSUME NEW w \in Worker
      PROVE  /\ \/ pc[w] = "left"
                \/ pc[w] = "dead" /\ pool.hand = "counter" /\ pool.keep = "file"
                \/ pc[w] = "none" /\ pool.hand = "counter" /\ at[w] = 0
                \/ pc[w] = "none" /\ pool.hand = "stride" /\ at[w] > N
             /\ BufferOf(w)
  <2>1. Gone(w) /\ BufferOf(w) /\ PoolSound
    BY DEF Finish, Collected, PDelivery, Buffers
  <2> QED
    BY <2>1 DEF Gone, At, BufferOf, PoolSound, NoneIdle
<1>3. Everywhere = PiecesOf(Out)
  <2>1. \A w \in Worker : HeldBy(w) = {}
    <3> SUFFICES ASSUME NEW w \in Worker PROVE HeldBy(w) = {}
      OBVIOUS
    <3>1. sending[w] = <<>>
      BY <1>2 DEF PShape, PShapeOf
    <3>2. buf[w] = <<>>
      BY <1>2 DEF BufferOf
    <3> QED
      BY <3>1, <3>2, PiecesEmpty DEF HeldBy
  <2>2. PiecesIn(kept) = {}
    <3>1. CASE pool.to = "kept"
      BY <1>1, <3>1, PiecesEmpty
    <3>2. CASE pool.to # "kept"
      <4>1. \A k \in 1 .. Len(kept) : kept[k] = <<>>
        BY <3>2 DEF PDelivery, Buffers, KeptShape
      <4> QED
        BY <4>1, PiecesEmpty DEF PiecesIn
    <3> QED
      BY <3>1, <3>2
  <2> QED
    BY <1>1, <2>1, <2>2, PiecesEmpty DEF Everywhere, Passed
<1>4. (matched => stdout' # <<>>) /\ (stdout' # <<>> => matched \/ SliceInMain)
  BY <1>1, <1>3, PlaceTypes, PiecesType DEF PDelivery, NothingLost
<1>5. SliceInMain' <=> SliceInMain
  BY NoneStay DEF PNext
<1>6. ASSUME NEW u \in Worker, pc[u] = "left" \/ pool.hand = "stride" PROVE AllPrinted'
  <2>0. /\ N' = N /\ N \in Nat /\ NWorkers \in Nat \ {0} /\ next \in Nat
        /\ \A v \in Worker : at[v] \in Int
    BY <1>1, PoolAssumption, LenProperties DEF N, PTypeOK
  <2>1. ASSUME NEW i \in 1 .. N, NEW v \in Worker PROVE ~ CanClaim(v, i)
    <3>1. pool.hand # "counter" => at[v] > LastOf(v)
      BY <1>2 DEF BufferOf, Exhausted, LastOf
    <3>2. CASE pool.hand = "counter"
      <4>1. next > N
        BY <1>2, <1>6, <3>2 DEF BufferOf, Exhausted
      <4>2. ~ i >= next
        BY <2>0, <4>1
      <4> QED
        BY <3>2, <4>2 DEF CanClaim
    <3>3. CASE pool.hand = "stride"
      <4>1. at[v] > N
        BY <3>1, <3>3 DEF LastOf
      <4>2. ASSUME NEW m \in 1 .. i - at[v] PROVE FALSE
        BY <2>0, <4>1, <4>2
      <4> QED
        BY <3>3, <4>2 DEF CanClaim
    <3>4. CASE pool.hand = "chunk"
      <4>1. at[v] > SliceEnd(v)
        BY <3>1, <3>4 DEF LastOf
      <4>2. SliceEnd(v) \in Int
        <5>1. v \in 0 .. NWorkers
          BY <2>0 DEF Worker
        <5> QED
          BY <5>1, SliceInList
      <4>3. ~ (at[v] < i /\ i <= SliceEnd(v))
        BY <2>0, <4>1, <4>2
      <4> QED
        BY <3>4, <4>3 DEF CanClaim
    <3> QED
      BY <3>2, <3>3, <3>4 DEF PTypeOK, Programs
  <2>2. \A v \in Worker : ~ InHand(v)
    BY <1>2 DEF InHand
  <2> SUFFICES ASSUME NEW i \in 1 .. N, files[i].fault = "no", NEW l \in 1 .. Len(files[i].lines),
                      NEW p \in 1 .. MAX_LINE, p <= files[i].lines[l]
               PROVE  <<i, l, p>> \in PiecesOf(stdout')
    <3>1. AllPrinted' <=>
            \A i \in 1 .. N : files[i].fault = "no" =>
              \A l \in 1 .. Len(files[i].lines), p \in 1 .. MAX_LINE :
                p <= files[i].lines[l] => \E k \in 1 .. Len(stdout') : stdout'[k] = <<i, l, p>>
      BY <1>1, <2>0 DEF AllPrinted
    <3>2. \A x : x \in PiecesOf(stdout') <=> \E k \in 1 .. Len(stdout') : x = stdout'[k]
      BY DEF PiecesOf
    <3> QED
      BY <3>1, <3>2
  <2>3. LineThere(i, l)
    BY <2>1, <2>2 DEF PDelivery, NothingLost, LinesThere, MainDone
  <2>4. p \in 1 .. files[i].lines[l]
    <3>1. files[i] \in Files
      BY ElementOfSeq DEF PTypeOK, N
    <3>2. files[i].lines \in Seq(1 .. MAX_LINE)
      BY <3>1 DEF Files
    <3>3. files[i].lines[l] \in 1 .. MAX_LINE
      BY <3>2, ElementOfSeq
    <3> QED
      BY <3>3, PoolAssumption
  <2> QED
    BY <1>1, <1>3, <2>3, <2>4 DEF LineThere
<1>7. ASSUME SliceInMain PROVE pool.hand = "stride"
  <2>1. PICK w \in Worker : pc[w] = "none" /\ at[w] > LastOf(w)
    BY <1>7 DEF SliceInMain, At
  <2>2. N \in Nat
    BY LenProperties DEF PTypeOK, N
  <2> QED
    BY <1>2, <2>1, <2>2 DEF LastOf
<1>8. AllPrinted' \/ (~ SliceInMain' /\ \A w \in Worker : pc'[w] \in {"dead", "none"})
  <2>1. CASE \E u \in Worker : pc[u] = "left" \/ pool.hand = "stride"
    BY <1>6, <2>1
  <2>2. CASE ~ \E u \in Worker : pc[u] = "left" \/ pool.hand = "stride"
    <3>1. 1 \in Worker
      BY PoolAssumption DEF Worker
    <3>2. ~ SliceInMain
      BY <1>7, <2>2, <3>1
    <3> QED
      BY <1>1, <1>2, <1>5, <2>2, <3>2
  <2> QED
    BY <2>1, <2>2
<1> QED
  BY <1>1, <1>4, <1>5, <1>8 DEF Complete

\* Every step keeps Complete once main has tried to start every worker.
LEMMA CompleteStep ==
  ASSUME PIInv, PDelivery, Complete, NoneIdle, MainDone, [PNext]_pvars
  PROVE  Complete'
<1>1. CASE Finish
  BY <1>1, FinishComplete DEF PIInv
<1>2. CASE UNCHANGED pvars
  <2>1. SliceInMain' <=> SliceInMain
    BY NoneStay DEF PIInv
  <2>2. UNCHANGED <<files, stdout, status, pc>>
    BY <1>2 DEF pvars, input, output
  <2>3. AllPrinted' <=> AllPrinted
    BY <2>2 DEF AllPrinted, N
  <2> QED
    BY <2>1, <2>2, <2>3 DEF Complete
<1>3. CASE (\E w \in Worker : Step(w)) \/ Receive \/ PrintKept \/ Crash
  <2>1. status' \notin {0, 1}
    <3>1. CASE \E w \in Worker : Step(w)
      <4>1. status' = -1
        BY <3>1, OthersStay DEF PIInv
      <4> QED
        BY <4>1
    <3>2. CASE Receive \/ PrintKept
      <4>1. status' = -1
        BY <3>2 DEF Receive, PrintKept, Collected
      <4> QED
        BY <4>1
    <3>3. CASE Crash
      BY <3>3 DEF Crash, FAILED
    <3> QED
      BY <1>3, <3>1, <3>2, <3>3
  <2> QED
    BY <2>1 DEF Complete
<1> QED
  BY <1>1, <1>2, <1>3 DEF PNext

\* A program that ends by itself has printed every line of every file it can read, and its
\* status tells whether there was one: no index is skipped at the counter or between two
\* slices, no buffer, mailbox or place is left behind when main ends.
THEOREM PComplete == PSpec => []Complete
<1> DEFINE Started == \A w \in Worker : pc[w] # "none"
<1>1. PInit => Complete /\ Started
  <2> SUFFICES ASSUME PInit PROVE Complete /\ Started
    OBVIOUS
  <2>1. PICK p \in Pools, list \in Lists : PStart(p, list, "take")
    BY DEF PInit
  <2>2. status = -1 /\ Started
    BY <2>1 DEF PStart
  <2> QED
    BY <2>2 DEF Complete
<1>2. PIInv /\ PDelivery /\ Complete /\ Started /\ [PNext]_pvars => Complete' /\ Started'
  <2> SUFFICES ASSUME PIInv, PDelivery, Complete, Started, [PNext]_pvars PROVE Complete' /\ Started'
    OBVIOUS
  <2>1. NoneIdle /\ MainDone
    BY DEF NoneIdle, MainDone, MainHas, At
  <2>2. Started'
    BY NoneStay DEF PIInv
  <2> QED
    BY <2>1, <2>2, CompleteStep
<1> QED
  BY <1>1, <1>2, PSafety, PDelivered, PTL DEF PSpec

-----------------------------------------------------------------------------
(* The command line.                                                       *)

\* The operands are counted word by word.
LEMMA OperandsNext ==
  ASSUME NEW k \in Nat
  PROVE  /\ OperandsTo(k) \in Nat /\ OperandsTo(0) = 0
         /\ OperandsTo(k + 1) = OperandsTo(k) + (IF IsOperand(k + 1) THEN 1 ELSE 0)
<1> DEFINE S == {j \in 1 .. k : IsOperand(j)}
           T == {j \in 1 .. k + 1 : IsOperand(j)}
<1>1. IsFiniteSet(S) /\ IsFiniteSet(1 .. k) /\ Cardinality(S) \in Nat
  <2>1. IsFiniteSet(1 .. k) /\ S \subseteq 1 .. k
    BY FS_Interval
  <2> QED
    BY <2>1, FS_Subset, FS_CardinalityType
<1>2. {j \in 1 .. 0 : IsOperand(j)} = {}
  OBVIOUS
<1>3. CASE IsOperand(k + 1)
  <2>1. T = S \cup {k + 1} /\ k + 1 \notin S
    BY <1>3
  <2>2. Cardinality(T) = Cardinality(S) + 1
    BY <1>1, <2>1, FS_AddElement
  <2> QED
    BY <1>1, <1>2, <1>3, <2>2, FS_EmptySet DEF OperandsTo
<1>4. CASE ~ IsOperand(k + 1)
  <2>1. T = S
    BY <1>4
  <2>2. Cardinality(T) = Cardinality(S)
    BY <2>1
  <2> HIDE DEF S, T
  <2>3. OperandsTo(k) = Cardinality(S) /\ OperandsTo(k + 1) = Cardinality(T)
    BY DEF OperandsTo, S, T
  <2>4. OperandsTo(0) = 0
    BY <1>2, FS_EmptySet DEF OperandsTo
  <2> QED
    BY <1>1, <1>4, <2>2, <2>3, <2>4
<1> QED
  BY <1>3, <1>4

\* More words have no fewer operands.
LEMMA OperandsGrow ==
  ASSUME NEW j \in Nat, NEW k \in Nat, j <= k
  PROVE  OperandsTo(j) \in Nat /\ OperandsTo(k) \in Nat /\ OperandsTo(j) <= OperandsTo(k)
<1> DEFINE S == {i \in 1 .. j : IsOperand(i)}
           T == {i \in 1 .. k : IsOperand(i)}
<1>1. S \subseteq T /\ T \subseteq 1 .. k /\ IsFiniteSet(1 .. k)
  BY FS_Interval
<1>2. IsFiniteSet(T) /\ Cardinality(S) <= Cardinality(T)
  BY <1>1, FS_Subset
<1> QED
  BY <1>2, OperandsNext DEF OperandsTo

\* The n-th operand is some word.
LEMMA OperandFound ==
  ASSUME NEW m \in Nat, NEW n \in 1 .. OperandsTo(m)
  PROVE  \E k \in 1 .. m : IsOperand(k) /\ OperandsTo(k) = n
<1> DEFINE P == {i \in Nat : n <= OperandsTo(i) => \E k \in 1 .. i : IsOperand(k) /\ OperandsTo(k) = n}
<1>0. OperandsTo(m) \in Nat /\ n \in Nat \ {0}
  BY OperandsNext
<1>1. 0 \in P
  BY <1>0, OperandsNext
<1>2. ASSUME NEW i \in Nat, i \in P PROVE i + 1 \in P
  <2> SUFFICES ASSUME n <= OperandsTo(i + 1)
               PROVE  \E k \in 1 .. i + 1 : IsOperand(k) /\ OperandsTo(k) = n
    OBVIOUS
  <2>1. OperandsTo(i) \in Nat /\ OperandsTo(i + 1) = OperandsTo(i) + (IF IsOperand(i + 1) THEN 1 ELSE 0)
    BY OperandsNext
  <2>2. CASE n <= OperandsTo(i)
    BY <1>2, <2>2
  <2>3. CASE ~ n <= OperandsTo(i)
    <3>1. IsOperand(i + 1) /\ OperandsTo(i + 1) = n
      BY <1>0, <2>1, <2>3
    <3> QED
      BY <3>1
  <2> QED
    BY <2>2, <2>3
<1>3. Nat \subseteq P
  <2> HIDE DEF P
  <2> QED
    BY <1>1, <1>2, NumberInduction
<1> QED
  BY <1>0, <1>3

\* Where two words are operands and as many are before them, they are one.
LEMMA OperandOnce ==
  ASSUME NEW j \in Nat \ {0}, NEW k \in Nat \ {0}, IsOperand(j), IsOperand(k),
         OperandsTo(j) = OperandsTo(k)
  PROVE  j = k
<1>1. ASSUME NEW a \in Nat \ {0}, NEW b \in Nat \ {0}, IsOperand(b), OperandsTo(a) = OperandsTo(b)
      PROVE  ~ a < b
  <2>1. PICK i \in Nat : i + 1 = b
    BY b - 1 \in Nat, b - 1 + 1 = b
  <2>2. OperandsTo(b) = OperandsTo(i) + 1
    BY <1>1, <2>1, OperandsNext
  <2>3. a < b => OperandsTo(a) <= OperandsTo(i)
    BY <2>1, OperandsGrow
  <2> QED
    BY <1>1, <2>1, <2>2, <2>3, OperandsNext
<1> QED
  BY <1>1

\* What the list of operands is, in terms of the words.
LEMMA OperandList ==
  ASSUME CLTypeOK
  PROVE  /\ Operands \in Seq(Seq(STRING)) /\ Len(Operands) \in Nat
         /\ Len(Operands) = OperandsTo(Len(argv)) /\ DOMAIN Operands = 1 .. Len(Operands)
         /\ \A n \in 1 .. Len(Operands) : Operands[n] # NoWord
         /\ \A k \in DOMAIN argv : IsOperand(k) =>
              OperandsTo(k) \in 1 .. Len(Operands) /\ Operands[OperandsTo(k)] = argv[k]
<1> DEFINE m == OperandsTo(Len(argv))
           Here(n) == CHOOSE k \in WordsOf(n) : TRUE
<1>1. /\ DOMAIN argv = 1 .. Len(argv) /\ Len(argv) \in Nat /\ m \in Nat
      /\ \A k \in DOMAIN argv : argv[k] \in Seq(STRING) /\ argv[k] # NoWord
  BY LenProperties, ElementOfSeq, OperandsNext DEF CLTypeOK
<1>2. ASSUME NEW n \in 1 .. m
      PROVE  Here(n) \in DOMAIN argv /\ IsOperand(Here(n)) /\ OperandsTo(Here(n)) = n
  <2>1. \E k \in WordsOf(n) : TRUE
    BY <1>1, OperandFound DEF WordsOf
  <2>2. Here(n) \in WordsOf(n)
    BY <2>1
  <2> HIDE DEF Here
  <2> QED
    BY <2>2 DEF WordsOf
<1>3. Operands = [n \in 1 .. m |-> argv[Here(n)]]
  BY DEF Operands
<1> HIDE DEF Here, m
<1>4. Operands \in [1 .. m -> Seq(STRING)] /\ \A n \in 1 .. m : Operands[n] = argv[Here(n)]
  BY <1>1, <1>2, <1>3
<1>5. Operands \in Seq(Seq(STRING)) /\ Len(Operands) = m
  <2>1. Operands \in Seq(Seq(STRING))
    BY <1>1, <1>4, SeqDef
  <2>2. DOMAIN Operands = 1 .. m /\ DOMAIN Operands = 1 .. Len(Operands) /\ Len(Operands) \in Nat
    BY <1>4, <2>1, LenProperties
  <2> QED
    BY <1>1, <2>1, <2>2
<1>6. ASSUME NEW k \in DOMAIN argv, IsOperand(k)
      PROVE  OperandsTo(k) \in 1 .. m /\ Operands[OperandsTo(k)] = argv[k]
  <2>1. k \in Nat \ {0} /\ k <= Len(argv)
    BY <1>1
  <2>2. OperandsTo(k) \in Nat /\ OperandsTo(k) <= m
    BY <1>1, <2>1, OperandsGrow DEF m
  <2>3. OperandsTo(k) # 0
    <3>1. PICK i \in Nat : i + 1 = k
      BY <2>1, k - 1 \in Nat, k - 1 + 1 = k
    <3> QED
      BY <1>6, <3>1, OperandsNext
  <2>4. PICK n \in 1 .. m : n = OperandsTo(k)
    BY <1>1, <2>2, <2>3
  <2>5. Here(n) = k
    <3>1. Here(n) \in Nat \ {0}
      BY <1>1, <1>2
    <3> QED
      BY <1>2, <1>6, <2>1, <2>4, <3>1, OperandOnce
  <2> QED
    BY <1>4, <2>4, <2>5
<1> QED
  BY <1>1, <1>2, <1>4, <1>5, <1>6 DEF m

\* What depends on the arguments alone stays.
LEMMA ArgvStays ==
  ASSUME UNCHANGED <<parser, argv>>
  PROVE  /\ Operands' = Operands /\ (WellFormed' <=> WellFormed) /\ (Misread' <=> Misread)
         /\ \A k : /\ IsOperand(k)' <=> IsOperand(k)
                   /\ AfterMarker(k)' <=> AfterMarker(k)
                   /\ OperandsTo(k)' = OperandsTo(k) /\ OperandsTo(k - 1)' = OperandsTo(k - 1)
                   /\ KnownBefore(k)' <=> KnownBefore(k)
                   /\ \A letter : Given(letter, k)' <=> Given(letter, k)
                   /\ PathsOf(k)' = PathsOf(k)
         /\ UNCHANGED <<opt_i, opt_r, pat, npaths>> =>
              (AllClassified' <=> AllClassified)
         /\ PathsOf(Len(Operands))' = PathsOf(Len(Operands))
<1>1. \A k : AfterMarker(k)' <=> AfterMarker(k)
  BY DEF AfterMarker
<1>2. \A k : IsOperand(k)' <=> IsOperand(k)
  BY <1>1 DEF IsOperand
<1>3. \A k : OperandsTo(k)' = OperandsTo(k)
  BY <1>2 DEF OperandsTo
<1>4. Operands' = Operands
  <2>1. \A k : WordsOf(k)' = WordsOf(k)
    BY <1>2, <1>3 DEF WordsOf
  <2>2. OperandsTo(Len(argv))' = OperandsTo(Len(argv))
    BY <1>2 DEF OperandsTo
  <2>3. ASSUME NEW n
        PROVE  (argv[CHOOSE k \in WordsOf(n) : TRUE])' = argv[CHOOSE k \in WordsOf(n) : TRUE]
    <3>1. WordsOf(n)' = WordsOf(n)
      BY <2>1
    <3> QED
      BY <3>1
  <2> QED
    BY <2>2, <2>3 DEF Operands
<1>5. Flags' = Flags
  BY <1>2 DEF Flags
<1>6. \A k : FlagsBefore(k)' = FlagsBefore(k)
  BY <1>5 DEF FlagsBefore
<1>7. FlagLetters' = FlagLetters
  BY <1>5 DEF FlagLetters
<1>8. \A k : OperandsTo(k - 1)' = OperandsTo(k - 1)
  BY <1>2 DEF OperandsTo
<1>9. \A k : KnownBefore(k)' <=> KnownBefore(k)
  BY <1>6 DEF KnownBefore
<1>10. \A k : \A letter : Given(letter, k)' <=> Given(letter, k)
  BY <1>6 DEF Given
<1>11. \A k : PathsOf(k)' = PathsOf(k)
  BY <1>4 DEF PathsOf
<1>12. WellFormed' <=> WellFormed
  BY <1>4, <1>7 DEF WellFormed
<1>13. Misread' <=> Misread
  BY <1>4 DEF Misread
<1>14. PathsOf(Len(Operands))' = PathsOf(Len(Operands))
  BY <1>4 DEF PathsOf
<1>15. ASSUME UNCHANGED <<opt_i, opt_r, pat, npaths>>
       PROVE  AllClassified' <=> AllClassified
  <2>1. KnownBefore(Len(argv) + 1)' <=> KnownBefore(Len(argv) + 1)
    BY <1>5 DEF KnownBefore, FlagsBefore
  <2>3. /\ Given("i", Len(argv) + 1)' <=> Given("i", Len(argv) + 1)
        /\ Given("r", Len(argv) + 1)' <=> Given("r", Len(argv) + 1)
    BY <1>5 DEF Given, FlagsBefore
  <2> QED
    BY <1>4, <1>15, <2>1, <2>3 DEF AllClassified, Classified
<1> QED
  BY <1>1, <1>2, <1>3, <1>4, <1>8, <1>9, <1>10, <1>11, <1>12, <1>13, <1>14, <1>15

\* What the next word adds to what has been read.
LEMMA WordRead ==
  ASSUME CLTypeOK, arg <= Len(argv)
  PROVE  /\ arg \in DOMAIN argv /\ Word \in Seq(STRING) /\ Word # NoWord
         /\ OperandsTo(arg - 1) \in Nat /\ OperandsTo(arg - 1) <= Len(Operands)
         /\ AfterMarker(arg + 1) <=> AfterMarker(arg) \/ Word = EndOfOptions
         /\ IsOperand(arg) <=> ~ OptionLike(Word) \/ AfterMarker(arg)
         /\ OperandsTo(arg) = OperandsTo(arg - 1) + (IF IsOperand(arg) THEN 1 ELSE 0)
         /\ IsOperand(arg) => /\ OperandsTo(arg - 1) + 1 \in 1 .. Len(Operands)
                              /\ Operands[OperandsTo(arg - 1) + 1] = Word
         /\ LET flag == ~ IsOperand(arg) /\ Word # EndOfOptions IN
            /\ flag <=> arg \in Flags
            /\ KnownBefore(arg + 1) <=> KnownBefore(arg) /\ (flag => Letters(Word) \subseteq Known)
            /\ \A letter :
                 Given(letter, arg + 1) <=> Given(letter, arg) \/ (flag /\ letter \in Letters(Word))
<1>1. /\ DOMAIN argv = 1 .. Len(argv) /\ Len(argv) \in Nat /\ arg \in DOMAIN argv
      /\ argv[arg] \in Seq(STRING) /\ argv[arg] # NoWord
  BY LenProperties, ElementOfSeq DEF CLTypeOK
<1>2. PICK n \in Nat : n + 1 = arg /\ n = arg - 1 /\ n <= Len(argv)
  BY <1>1, arg - 1 \in Nat, arg - 1 + 1 = arg
<1>3. OperandsTo(arg) = OperandsTo(n) + (IF IsOperand(arg) THEN 1 ELSE 0) /\ OperandsTo(n) \in Nat
  BY <1>2, OperandsNext
<1>4. OperandsTo(n) <= Len(Operands)
  BY <1>1, <1>2, OperandsGrow, OperandList
<1>5. IsOperand(arg) => OperandsTo(n) + 1 \in 1 .. Len(Operands) /\ Operands[OperandsTo(n) + 1] = argv[arg]
  BY <1>1, <1>3, OperandList
<1>6. AfterMarker(arg + 1) <=> AfterMarker(arg) \/ Word = EndOfOptions
  <2>1. arg \in Nat /\ \A j : j \in 1 .. arg <=> j \in 1 .. arg - 1 \/ j = arg
    BY <1>1
  <2>2. arg + 1 - 1 = arg
    BY <2>1
  <2> QED
    BY <2>1, <2>2 DEF AfterMarker, Word
<1> DEFINE flag == ~ IsOperand(arg) /\ Word # EndOfOptions
<1>7. flag <=> arg \in Flags
  BY <1>1 DEF Flags, Word
<1>8. \A j : j \in FlagsBefore(arg + 1) <=> j \in FlagsBefore(arg) \/ (flag /\ j = arg)
  <2>1. \A j \in Flags : j \in Nat /\ arg \in Nat
    BY <1>1 DEF Flags
  <2>2. \A j \in Flags : j < arg + 1 <=> j < arg \/ j = arg
    BY <2>1
  <2> QED
    BY <1>7, <2>2 DEF FlagsBefore
<1>9. KnownBefore(arg + 1) <=> KnownBefore(arg) /\ (flag => Letters(Word) \subseteq Known)
  BY <1>8 DEF KnownBefore, Word
<1>10. ASSUME NEW letter
       PROVE Given(letter, arg + 1) <=> Given(letter, arg) \/ (flag /\ letter \in Letters(Word))
  BY <1>8 DEF Given, Word
<1> HIDE DEF flag
<1>11. IsOperand(arg) <=> ~ OptionLike(Word) \/ AfterMarker(arg)
  BY DEF IsOperand, Word
<1> QED
  BY <1>1, <1>2, <1>3, <1>4, <1>5, <1>6, <1>7, <1>9, <1>10, <1>11 DEF Word, flag

\* While words are left, no_more tells whether the next one is an option; under the pattern
\* read right, HasPattern tells whether there has been an operand.
LEMMA PatternSeen ==
  ASSUME CLTypeOK, ~ Misread, NEW k, NEW n \in Nat, n <= Len(Operands), Classified(k, n)
  PROVE  HasPattern <=> n > 0
<1>1. CASE n = 0
  BY <1>1 DEF Classified, HasPattern
<1>2. CASE n # 0
  <2>1. 1 \in 1 .. Len(Operands) /\ Operands # <<>> /\ Head(Operands) = Operands[1]
    BY <1>2, OperandList, EmptySeq, HeadTailProperties
  <2>2. pat = Operands[1] /\ pat # NoWord
    BY <1>2, <2>1, OperandList DEF Classified
  <2> QED
    BY <1>2, <2>1, <2>2 DEF HasPattern, Misread
<1> QED
  BY <1>1, <1>2

\* The paths and one operand more.
LEMMA PathsGrow ==
  ASSUME CLTypeOK, NEW n \in Nat \ {0}, n + 1 <= Len(Operands)
  PROVE  Append(PathsOf(n), Operands[n + 1]) = PathsOf(n + 1)
<1>1. /\ Len(Operands) \in Nat /\ DOMAIN Operands = 1 .. Len(Operands)
      /\ \A k \in 1 .. Len(Operands) : Operands[k] \in Seq(STRING)
  BY OperandList, ElementOfSeq
<1>2. ASSUME NEW m \in Nat \ {0}, m <= Len(Operands)
      PROVE  /\ PathsOf(m) \in Seq(Seq(STRING)) /\ Len(PathsOf(m)) = m - 1
             /\ \A k \in 1 .. m - 1 : PathsOf(m)[k] = Operands[k + 1]
  <2>1. m - 1 \in Nat /\ PathsOf(m) \in [1 .. m - 1 -> Seq(STRING)]
    BY <1>1, <1>2 DEF PathsOf
  <2>2. PathsOf(m) \in Seq(Seq(STRING))
    BY <2>1, SeqDef
  <2>3. Len(PathsOf(m)) \in Nat /\ DOMAIN PathsOf(m) = 1 .. Len(PathsOf(m))
    BY <2>2, LenProperties
  <2> QED
    BY <2>1, <2>2, <2>3 DEF PathsOf
<1>3. PICK m \in Nat \ {0} : m = n + 1
  OBVIOUS
<1> DEFINE f == PathsOf(n)
           g == PathsOf(m)
<1>4. /\ f \in Seq(Seq(STRING)) /\ g \in Seq(Seq(STRING)) /\ Len(f) = n - 1 /\ Len(g) = n
      /\ \A k \in 1 .. n - 1 : f[k] = Operands[k + 1]
      /\ \A k \in 1 .. n : g[k] = Operands[k + 1]
  <2>1. n <= Len(Operands) /\ m <= Len(Operands) /\ m - 1 = n
    BY <1>1, <1>3
  <2> QED
    BY <1>2, <1>3, <2>1
<1> HIDE DEF f, g
<1>5. PICK h \in Seq(Seq(STRING)) :
        /\ h = Append(f, Operands[n + 1]) /\ Len(h) = n /\ h[n] = Operands[n + 1]
        /\ \A k \in 1 .. n - 1 : h[k] = f[k]
  <2>1. PICK e \in Seq(STRING) : e = Operands[n + 1]
    BY <1>1
  <2>2. /\ Append(f, e) \in Seq(Seq(STRING)) /\ Len(Append(f, e)) = Len(f) + 1
        /\ Append(f, e)[Len(f) + 1] = e /\ \A k \in 1 .. Len(f) : Append(f, e)[k] = f[k]
    BY <1>4, <2>1, AppendProperties
  <2>3. Len(f) = n - 1 /\ Len(f) + 1 = n
    BY <1>4
  <2> QED
    BY <2>1, <2>2, <2>3
<1>6. \A k \in 1 .. n : h[k] = g[k]
  <2>1. \A k \in 1 .. n : k = n \/ k \in 1 .. n - 1
    OBVIOUS
  <2>2. n \in 1 .. n
    OBVIOUS
  <2> QED
    BY <1>4, <1>5, <2>1, <2>2
<1>7. h = g
  BY <1>4, <1>5, <1>6, SeqEqual
<1> QED
  BY <1>3, <1>5, <1>7 DEF f, g

\* The end of the options looks like one.
LEMMA MarkerLikeOption == OptionLike(EndOfOptions)
  BY DEF OptionLike, EndOfOptions, Dash

\* The steps keep the types, and no_more says what it is meant to.
LEMMA CLTypeStep ==
  ASSUME CLTypeOK, Parse
  PROVE  CLTypeOK' /\ UNCHANGED <<parser, argv>>
<1>0. UNCHANGED <<parser, argv>>
  BY DEF Parse, EndsOptions, Option, BadOption, TakePattern, TakePath, EndPass, SkipOption,
         SkipPattern, TakeRoot, EndRevisit, NextWord, Usage, parsed
<1>1. \A k : AfterMarker(k)' <=> AfterMarker(k)
  BY <1>0, ArgvStays
<1>2. Len(argv) \in Nat /\ arg \in Nat
  BY LenProperties DEF CLTypeOK
<1> SUFFICES /\ parsing' \in {"classify", "revisit", "parsed", "usage"} /\ arg' \in 1 .. Len(argv) + 1
             /\ no_more' \in BOOLEAN /\ opt_i' \in BOOLEAN /\ opt_r' \in BOOLEAN
             /\ pat_seen' \in BOOLEAN
             /\ pat' \in Seq(STRING) \cup {NoWord} /\ npaths' \in Nat /\ paths' \in Seq(Seq(STRING))
             /\ parsing' \in {"classify", "revisit"} =>
                  \A k : k = arg' => (no_more' <=> AfterMarker(k))
  <2>1. ASSUME parsing' \in {"classify", "revisit"},
               \A k : k = arg' => (no_more' <=> AfterMarker(k))
        PROVE  (no_more' <=> AfterMarker(arg)')
    <3>1. PICK k : k = arg'
      OBVIOUS
    <3> QED
      BY <1>0, <2>1, <3>1 DEF AfterMarker
  <2> QED
    BY <1>0, <2>1 DEF CLTypeOK
<1>3. CASE arg <= Len(argv) /\ parsing \in {"classify", "revisit"} /\ ~ BadOption /\ ~ EndPass /\ ~ EndRevisit
  <2>1. arg' = arg + 1 /\ parsing' = parsing /\ arg + 1 \in 1 .. Len(argv) + 1
    BY <1>2, <1>3 DEF Parse, EndsOptions, Option, TakePattern, TakePath, SkipOption, SkipPattern,
       TakeRoot, NextWord, CLTypeOK
  <2>2. /\ no_more' \in BOOLEAN
        /\ no_more' <=> AfterMarker(arg) \/ Word = EndOfOptions
    <3>1. (no_more <=> AfterMarker(arg)) /\ no_more \in BOOLEAN
      BY <1>3 DEF CLTypeOK
    <3>2. CASE EndsOptions
      BY <3>1, <3>2 DEF EndsOptions
    <3>3. CASE Option \/ TakePattern \/ TakePath
      <4>1. no_more' = no_more
        BY <3>3 DEF Option, TakePattern, TakePath
      <4>2. ~ IsOption \/ Word # EndOfOptions
        BY <3>3 DEF Option, TakePattern, TakePath
      <4>3. IsOption \/ no_more \/ Word # EndOfOptions
        BY MarkerLikeOption DEF IsOption
      <4> QED
        BY <3>1, <4>1, <4>2, <4>3
    <3>4. CASE SkipOption
      BY <3>1, <3>4 DEF SkipOption, IsOption
    <3>5. CASE SkipPattern \/ TakeRoot
      <4>1. no_more' = no_more /\ ~ IsOption
        BY <3>5 DEF SkipPattern, TakeRoot
      <4>2. IsOption \/ no_more \/ Word # EndOfOptions
        BY MarkerLikeOption DEF IsOption
      <4> QED
        BY <3>1, <4>1, <4>2
    <3> QED
      BY <1>3, <3>2, <3>3, <3>4, <3>5 DEF Parse
  <2>3. \A k : k = arg' => (no_more' <=> AfterMarker(k))
    <3>1. AfterMarker(arg + 1) <=> AfterMarker(arg) \/ Word = EndOfOptions
      BY <1>3, WordRead
    <3> QED
      BY <2>1, <2>2, <3>1
  <2>4. Word \in Seq(STRING)
    BY <1>3, WordRead
  <2>5. /\ opt_i' \in BOOLEAN /\ opt_r' \in BOOLEAN /\ pat_seen' \in BOOLEAN
        /\ pat' \in Seq(STRING) \cup {NoWord} /\ npaths' \in Nat
    <3>1. CASE EndsOptions \/ SkipOption \/ TakeRoot
      BY <3>1 DEF EndsOptions, SkipOption, TakeRoot, parsed, CLTypeOK
    <3>2. CASE Option
      BY <3>2 DEF Option, CLTypeOK
    <3>3. CASE TakePattern \/ SkipPattern
      BY <2>4, <3>3 DEF TakePattern, SkipPattern, CLTypeOK
    <3>4. CASE TakePath
      BY <3>4 DEF TakePath, CLTypeOK
    <3> QED
      BY <1>3, <3>1, <3>2, <3>3, <3>4 DEF Parse
  <2>6. paths' \in {paths, Append(paths, Word)}
    BY <1>3 DEF Parse, EndsOptions, Option, TakePattern, TakePath, SkipOption, SkipPattern,
       TakeRoot, parsed
  <2>7. paths' \in Seq(Seq(STRING))
    <3>1. paths \in Seq(Seq(STRING)) /\ Append(paths, Word) \in Seq(Seq(STRING))
      BY <2>4, AppendProperties DEF CLTypeOK
    <3> QED
      BY <2>6, <3>1
  <2> QED
    BY <2>1, <2>2, <2>3, <2>5, <2>7, <1>3
<1>4. CASE BadOption \/ EndRevisit
  BY <1>4 DEF BadOption, EndRevisit, Usage, parsed, CLTypeOK
<1>5. CASE EndPass
  <2>1. ~ AfterMarker(1)
    BY DEF AfterMarker
  <2>2. CASE Usage
    BY <1>5, <2>2 DEF EndPass, Over, Usage, parsed, CLTypeOK
  <2>3. CASE ~ Usage
    <3>1. /\ parsing' \in {"revisit", "parsed"} /\ arg' = 1 /\ no_more' = FALSE /\ UNCHANGED parsed
      BY <1>5, <2>3 DEF EndPass
    <3>2. arg' \in 1 .. Len(argv) + 1
      BY <1>2, <3>1
    <3> QED
      BY <2>1, <3>1, <3>2 DEF parsed, CLTypeOK
  <2> QED
    BY <2>2, <2>3
<1> QED
  BY <1>3, <1>4, <1>5 DEF Parse, EndsOptions, Option, TakePattern, TakePath, SkipOption,
     SkipPattern, TakeRoot, InPass

\* With no operand or one there are no paths.
LEMMA NoPaths == PathsOf(0) = <<>> /\ PathsOf(1) = <<>>
  BY DEF PathsOf

\* Every step reads a word the way the whole line says.
LEMMA ReadStep ==
  ASSUME CLTypeOK, ~ Misread, ReadRight, Parse
  PROVE  ReadRight'
<1>0. UNCHANGED <<parser, argv>> /\ CLTypeOK'
  BY CLTypeStep
<1>1. PICK n : n = OperandsTo(arg - 1) /\ ReadTo(arg, n)
  BY DEF ReadRight
<1>2. Len(argv) \in Nat /\ arg \in 1 .. Len(argv) + 1 /\ Len(Operands) \in Nat
  BY LenProperties, OperandList DEF CLTypeOK
<1>3. n \in Nat /\ n <= Len(Operands) /\ (arg > Len(argv) => n = Len(Operands))
  <2>1. arg - 1 \in Nat /\ arg - 1 <= Len(argv) /\ (arg > Len(argv) => arg - 1 = Len(argv))
    BY <1>2
  <2> QED
    BY <1>1, <1>2, <2>1, OperandsGrow, OperandList
<1>4. PICK k : k = arg'
  OBVIOUS
<1>5. PICK m : m = OperandsTo(k - 1)
  OBVIOUS
<1> SUFFICES ReadTo(k, m)'
  <2>1. OperandsTo(k - 1)' = m
    BY <1>0, <1>5, ArgvStays
  <2>2. k \in {arg'} /\ \E l \in {m} : ReadTo(k, l)'
    BY <1>4
  <2> QED
    BY <2>1, <2>2 DEF ReadRight
<1>6. CASE arg <= Len(argv) /\ k = arg + 1 /\ parsing' = parsing
  <2>1. m = OperandsTo(arg)
    <3>1. k - 1 = arg
      BY <1>2, <1>6
    <3>2. OperandsTo(k - 1) = OperandsTo(arg)
      BY <3>1
    <3> QED
      BY <1>5, <3>2
  <2>2. m = n + (IF IsOperand(arg) THEN 1 ELSE 0)
    BY <1>1, <1>6, <2>1, WordRead
  <2>3. parsing \in {"classify", "revisit"} =>
          (IsOperand(arg) <=> ~ OptionLike(Word) \/ no_more)
    BY <1>6, WordRead DEF CLTypeOK
  <2>4. parsing = "classify" => (HasPattern <=> n > 0) /\ Classified(arg, n)
    BY <1>1, <1>3, PatternSeen DEF ReadTo
  <2>5. IsOperand(arg) => n + 1 \in 1 .. Len(Operands) /\ Operands[n + 1] = Word
    BY <1>1, <1>6, WordRead
  <2> DEFINE flag == ~ IsOperand(arg) /\ Word # EndOfOptions
  <2>6. /\ KnownBefore(k) <=> KnownBefore(arg) /\ (flag => Letters(Word) \subseteq Known)
        /\ \A letter : Given(letter, k) <=> Given(letter, arg) \/ (flag /\ letter \in Letters(Word))
    BY <1>6, WordRead
  <2>7. /\ Operands' = Operands /\ (KnownBefore(k)' <=> KnownBefore(k))
        /\ Given("i", k)' <=> Given("i", k)
        /\ Given("r", k)' <=> Given("r", k)
        /\ PathsOf(m)' = PathsOf(m) /\ parser' = parser
        /\ UNCHANGED <<opt_i, opt_r, pat, npaths>> => (AllClassified' <=> AllClassified)
    <3>1. Operands' = Operands /\ PathsOf(m)' = PathsOf(m) /\ (KnownBefore(k)' <=> KnownBefore(k))
      BY <1>0, ArgvStays
    <3>2. /\ Given("i", k)' <=> Given("i", k)
          /\ Given("r", k)' <=> Given("r", k)
      BY <1>0 DEF Given, FlagsBefore, Flags, IsOperand, AfterMarker
    <3>3. UNCHANGED <<opt_i, opt_r, pat, npaths>> => (AllClassified' <=> AllClassified)
      BY <1>0, ArgvStays
    <3> QED
      BY <1>0, <3>1, <3>2, <3>3
  <2>8. CASE EndsOptions
    <3>1. ~ IsOperand(arg) /\ ~ flag /\ m = n /\ parsing = "classify"
      BY <1>3, <2>2, <2>3, <2>8 DEF EndsOptions, IsOption, InPass
    <3>2. UNCHANGED <<opt_i, opt_r, pat, npaths, pat_seen, paths>>
      BY <2>8 DEF EndsOptions, parsed
    <3>3. Classified(k, m)'
      BY <2>4, <2>6, <2>7, <3>1, <3>2 DEF Classified
    <3> QED
      BY <1>1, <1>6, <2>7, <3>1, <3>2, <3>3 DEF ReadTo
  <2>9. CASE Option
    <3>1. ~ IsOperand(arg) /\ flag /\ m = n /\ parsing = "classify" /\ Letters(Word) \subseteq Known
      BY <1>3, <2>2, <2>3, <2>9 DEF Option, IsOption, InPass
    <3>2. UNCHANGED <<pat, npaths, pat_seen, paths>>
      BY <2>9 DEF Option
    <3>3. (opt_i' <=> opt_i \/ "i" \in Letters(Word)) /\ (opt_r' <=> opt_r \/ "r" \in Letters(Word))
      BY <2>9 DEF Option
    <3>4. Classified(k, m)'
      BY <2>4, <2>6, <2>7, <3>1, <3>2, <3>3 DEF Classified
    <3> QED
      BY <1>1, <1>6, <2>7, <3>1, <3>2, <3>4 DEF ReadTo
  <2>10. CASE TakePattern
    <3>1. IsOperand(arg) /\ ~ flag /\ parsing = "classify"
      BY <2>3, <2>10 DEF TakePattern, IsOption, InPass
    <3>2. n = 0 /\ m = 1
      BY <1>3, <2>2, <2>4, <2>10, <3>1 DEF TakePattern
    <3>3. pat' = Operands[1] /\ UNCHANGED <<opt_i, opt_r, npaths, pat_seen, paths>>
      BY <2>5, <2>10, <3>1, <3>2 DEF TakePattern
    <3>4. Classified(k, m)'
      BY <2>4, <2>6, <2>7, <3>1, <3>2, <3>3 DEF Classified
    <3>5. PathsOf(n) = PathsOf(m)
      BY <3>2, NoPaths
    <3> QED
      BY <1>1, <1>6, <2>7, <3>1, <3>3, <3>4, <3>5 DEF ReadTo
  <2>11. CASE TakePath
    <3>1. IsOperand(arg) /\ ~ flag /\ parsing = "classify"
      BY <2>3, <2>11 DEF TakePath, IsOption, InPass
    <3>2. n \in Nat \ {0} /\ m = n + 1 /\ m <= Len(Operands)
      BY <1>2, <1>3, <2>2, <2>4, <2>5, <2>11, <3>1 DEF TakePath
    <3>3. npaths' = npaths + 1 /\ UNCHANGED <<opt_i, opt_r, pat, pat_seen>>
      BY <2>11 DEF TakePath
    <3>4. Classified(k, m)'
      BY <2>4, <2>6, <2>7, <3>1, <3>2, <3>3 DEF Classified
    <3>5. Append(PathsOf(n), Word) = PathsOf(m)
      BY <2>5, <3>1, <3>2, PathsGrow
    <3>6. paths' = IF parser.passes = 1 THEN PathsOf(m) ELSE <<>>
      BY <1>1, <2>11, <3>1, <3>5 DEF TakePath, ReadTo
    <3> QED
      BY <1>1, <1>6, <2>7, <3>1, <3>3, <3>4, <3>6 DEF ReadTo
  <2>12. CASE SkipOption
    <3>1. ~ IsOperand(arg) /\ m = n /\ parsing = "revisit"
      BY <1>3, <2>2, <2>3, <2>12 DEF SkipOption, IsOption, InPass
    <3>2. UNCHANGED <<opt_i, opt_r, pat, npaths, pat_seen, paths>>
      BY <2>12 DEF SkipOption, parsed
    <3> QED
      BY <1>1, <1>6, <2>7, <3>1, <3>2 DEF ReadTo
  <2>13. CASE SkipPattern
    <3>1. IsOperand(arg) /\ parsing = "revisit" /\ ~ pat_seen /\ pat_seen'
      BY <2>3, <2>13 DEF SkipPattern, IsOption, InPass
    <3>2. n = 0 /\ m = 1
      BY <1>1, <1>3, <2>2, <3>1 DEF ReadTo
    <3>3. UNCHANGED <<opt_i, opt_r, pat, npaths, paths>>
      BY <2>13 DEF SkipPattern
    <3>4. PathsOf(n) = PathsOf(m)
      BY <3>2, NoPaths
    <3> QED
      BY <1>1, <1>6, <2>7, <3>1, <3>2, <3>3, <3>4 DEF ReadTo
  <2>14. CASE TakeRoot
    <3>1. IsOperand(arg) /\ parsing = "revisit" /\ pat_seen
      BY <2>3, <2>14 DEF TakeRoot, IsOption, InPass
    <3>2. n \in Nat \ {0} /\ m = n + 1 /\ m <= Len(Operands)
      BY <1>1, <1>2, <1>3, <2>2, <2>5, <3>1 DEF ReadTo
    <3>3. UNCHANGED <<opt_i, opt_r, pat, npaths, pat_seen>> /\ paths' = Append(paths, Word)
      BY <2>14 DEF TakeRoot
    <3>4. Append(PathsOf(n), Word) = PathsOf(m)
      BY <2>5, <3>1, <3>2, PathsGrow
    <3> QED
      BY <1>1, <1>6, <2>7, <3>1, <3>2, <3>3, <3>4 DEF ReadTo
  <2>15. ~ BadOption /\ ~ EndPass /\ ~ EndRevisit
    BY <1>2, <1>4, <1>6 DEF BadOption, EndPass, EndRevisit, Usage, Over, CLTypeOK
  <2> QED
    BY <2>8, <2>9, <2>10, <2>11, <2>12, <2>13, <2>14, <2>15 DEF Parse
<1>7. CASE BadOption
  <2>1. arg <= Len(argv) /\ parsing = "classify" /\ parsing' = "usage"
    BY <1>7 DEF BadOption, InPass, Usage
  <2>2. ~ IsOperand(arg) /\ Word # EndOfOptions /\ ~ Letters(Word) \subseteq Known
    BY <1>7, <2>1, WordRead DEF BadOption, IsOption, CLTypeOK
  <2>3. arg \in Flags
    BY <2>1, <2>2, WordRead
  <2>4. ~ FlagLetters \subseteq Known
    BY <2>2, <2>3 DEF FlagLetters, Word
  <2>5. ~ WellFormed'
    BY <1>0, <2>4, ArgvStays DEF WellFormed
  <2> QED
    BY <2>1, <2>5 DEF ReadTo
<1>8. CASE EndPass
  <2>1. parsing = "classify" /\ arg = Len(argv) + 1 /\ n = Len(Operands)
    BY <1>2, <1>3, <1>8 DEF EndPass, Over
  <2>2. Classified(arg, n) /\ (HasPattern <=> n > 0)
    BY <1>1, <1>3, <2>1, PatternSeen DEF ReadTo
  <2>3. CASE ~ HasPattern \/ npaths = 0
    <3>1. parsing' = "usage" /\ n < 2
      BY <1>3, <1>8, <2>2, <2>3 DEF EndPass, Usage, Classified
    <3>2. ~ WellFormed'
      BY <1>0, <1>2, <2>1, <3>1, ArgvStays DEF WellFormed
    <3> QED
      BY <3>1, <3>2 DEF ReadTo
  <2>4. CASE HasPattern /\ npaths # 0
    <3>1. /\ UNCHANGED <<opt_i, opt_r, pat, npaths, pat_seen, paths>> /\ k = 1
          /\ parsing' = IF parser.passes = 2 THEN "revisit" ELSE "parsed"
      BY <1>4, <1>8, <2>4 DEF EndPass, parsed
    <3>2. AllClassified /\ AllClassified'
      <4>1. n >= 2
        BY <1>3, <2>2, <2>4 DEF Classified
      <4>2. AllClassified
        BY <2>1, <2>2, <4>1 DEF AllClassified
      <4> QED
        BY <1>0, <3>1, <4>2, ArgvStays
    <3>3. m = 0
      <4>1. k - 1 = 0 /\ 0 \in Nat
        BY <3>1
      <4> QED
        BY <1>5, <4>1, OperandsNext
    <3>4. PathsOf(0)' = PathsOf(0) /\ PathsOf(Len(Operands))' = PathsOf(Len(Operands))
      BY <1>0, ArgvStays
    <3>5. pat_seen = FALSE /\ paths = IF parser.passes = 1 THEN PathsOf(n) ELSE <<>>
      BY <1>1, <2>1 DEF ReadTo
    <3>6. parser.passes \in {1, 2}
      BY DEF CLTypeOK, ParserRecords
    <3>7. CASE parser.passes = 2
      BY <3>1, <3>2, <3>3, <3>4, <3>5, <3>7, NoPaths DEF ReadTo
    <3>8. CASE parser.passes = 1
      BY <2>1, <3>1, <3>2, <3>4, <3>5, <3>8 DEF ReadTo
    <3> QED
      BY <3>6, <3>7, <3>8
  <2> QED
    BY <2>3, <2>4
<1>9. CASE EndRevisit
  <2>1. parsing = "revisit" /\ parsing' = "parsed" /\ n = Len(Operands)
        /\ UNCHANGED <<opt_i, opt_r, pat, npaths, pat_seen, paths>>
    BY <1>2, <1>3, <1>9 DEF EndRevisit, Over, parsed
  <2>2. AllClassified' /\ PathsOf(Len(Operands))' = PathsOf(Len(Operands))
    BY <1>0, <1>1, <2>1, ArgvStays DEF ReadTo
  <2> QED
    BY <1>1, <2>1, <2>2 DEF ReadTo
<1>10. CASE ~ BadOption /\ ~ EndPass /\ ~ EndRevisit
  <2>1. arg <= Len(argv) /\ arg' = arg + 1 /\ parsing' = parsing
    BY <1>10 DEF Parse, EndsOptions, Option, TakePattern, TakePath, SkipOption, SkipPattern,
       TakeRoot, InPass, NextWord
  <2> QED
    BY <1>4, <1>6, <2>1
<1> QED
  BY <1>7, <1>8, <1>9, <1>10

\* The invariant of the parser at its start, and that every step keeps it.
LEMMA CLStarts ==
  ASSUME CLStart, parser \in Parsers \cup {OnePass}, argv \in Argvs \cup {<<>>}
  PROVE  CLInv
<1>1. parser \in ParserRecords /\ argv \in Seq(Seq(STRING)) /\ \A i \in DOMAIN argv : argv[i] # NoWord
  <2>1. parser \in ParserRecords
    BY ArgvAssumption DEF OnePass, ParserRecords
  <2>2. CASE argv = <<>>
    <3>1. argv \in Seq(Seq(STRING)) /\ Len(argv) = 0
      BY <2>2, EmptySeq
    <3>2. DOMAIN argv = {}
      BY <3>1, LenProperties, 1 .. 0 = {}
    <3> QED
      BY <2>1, <3>1, <3>2
  <2>3. CASE argv \in Argvs
    BY <2>1, <2>3, ArgvAssumption
  <2> QED
    BY <2>2, <2>3
<1>2. Len(argv) \in Nat /\ arg = 1 /\ arg \in 1 .. Len(argv) + 1
  BY <1>1, LenProperties DEF CLStart
<1>3. ~ AfterMarker(arg) /\ FlagsBefore(arg) = {}
  <2>1. \A j \in Flags : j \in Nat \ {0}
    BY <1>1, LenProperties DEF Flags
  <2> QED
    BY <1>2, <2>1 DEF AfterMarker, FlagsBefore
<1>4. CLTypeOK
  <2>1. pat \in Seq(STRING) \cup {NoWord}
    BY DEF CLStart
  <2>2. paths \in Seq(Seq(STRING)) /\ npaths \in Nat
    BY EmptySeq DEF CLStart
  <2>3. parsing \in {"classify", "revisit", "parsed", "usage"} /\ no_more = FALSE
        /\ opt_i \in BOOLEAN /\ opt_r \in BOOLEAN /\ pat_seen \in BOOLEAN
    BY DEF CLStart
  <2> QED
    BY <1>1, <1>2, <1>3, <2>1, <2>2, <2>3 DEF CLTypeOK
<1>5. OperandsTo(arg - 1) = 0
  <2>1. arg - 1 = 0 /\ 0 \in Nat
    BY <1>2
  <2>2. OperandsTo(arg - 1) = OperandsTo(0)
    BY <2>1
  <2> QED
    BY <2>1, <2>2, OperandsNext
<1>6. Classified(arg, 0)
  BY <1>3 DEF CLStart, Classified, KnownBefore, Given
<1>7. ReadRight
  BY <1>5, <1>6, NoPaths DEF CLStart, ReadRight, ReadTo
<1> QED
  BY <1>4, <1>7 DEF CLInv

LEMMA CLStep ==
  ASSUME CLInv, Parse \/ UNCHANGED clvars
  PROVE  CLInv'
<1>1. CASE Parse
  <2>1. CLTypeOK' /\ (Misread' <=> Misread)
    BY <1>1, CLTypeStep, ArgvStays DEF CLInv
  <2> QED
    BY <1>1, <2>1, ReadStep DEF CLInv
<1>2. CASE UNCHANGED clvars
  <2>1. UNCHANGED <<parser, argv, parsing, arg, no_more, opt_i, opt_r, pat, npaths, pat_seen, paths>>
    BY <1>2 DEF clvars, parsed
  <2>2. (CLTypeOK' <=> CLTypeOK) /\ (Misread' <=> Misread) /\ (AllClassified' <=> AllClassified)
        /\ (WellFormed' <=> WellFormed)
    BY <2>1, ArgvStays DEF CLTypeOK, AfterMarker
  <2>3. ReadRight => ReadRight'
    <3> SUFFICES ASSUME ReadRight PROVE ReadRight'
      OBVIOUS
    <3>1. PICK k, n : k = arg /\ n = OperandsTo(k - 1) /\ ReadTo(k, n)
      BY DEF ReadRight
    <3>2. OperandsTo(k - 1)' = n /\ k = arg'
      BY <2>1, <3>1, ArgvStays
    <3>3. /\ KnownBefore(k)' <=> KnownBefore(k)
          /\ PathsOf(n)' = PathsOf(n)
          /\ PathsOf(Len(Operands))' = PathsOf(Len(Operands))
          /\ Operands' = Operands
      BY <2>1, ArgvStays
    <3>4. /\ Given("i", k)' <=> Given("i", k)
          /\ Given("r", k)' <=> Given("r", k)
      BY <2>1 DEF Given, FlagsBefore, Flags, IsOperand, AfterMarker
    <3>5. ReadTo(k, n)'
      BY <2>1, <2>2, <3>1, <3>3, <3>4 DEF ReadTo, Classified
    <3> QED
      BY <3>2, <3>5 DEF ReadRight
  <2> QED
    BY <2>2, <2>3 DEF CLInv
<1> QED
  BY <1>1, <1>2

\* What the invariant says of a program at the end of its parser.
LEMMA ReadToTheEnd == CLInv => ParsedRight
<1> SUFFICES ASSUME CLTypeOK, ReadRight PROVE ParsedRight
  BY DEF CLInv, ParsedRight
<1>1. PICK k, n : ReadTo(k, n)
  BY DEF ReadRight
<1>2. CASE parsing = "parsed"
  <2>1. AllClassified /\ paths = PathsOf(Len(Operands))
    BY <1>1, <1>2 DEF ReadTo
  <2>2. PICK m \in Nat : m = Len(Operands) /\ m >= 2
    BY <2>1, OperandList DEF AllClassified
  <2>3. /\ FlagsBefore(Len(argv) + 1) = Flags
    <3>1. Len(argv) \in Nat /\ \A j \in Flags : j \in 1 .. Len(argv)
      BY LenProperties DEF Flags, CLTypeOK
    <3> QED
      BY <3>1 DEF FlagsBefore
  <2>4. /\ \A j \in Flags : Letters(argv[j]) \subseteq Known
        /\ opt_i <=> \E j \in Flags : "i" \in Letters(argv[j])
        /\ opt_r <=> \E j \in Flags : "r" \in Letters(argv[j])
        /\ pat = Operands[1] /\ npaths = m - 1
    BY <2>1, <2>2, <2>3 DEF AllClassified, Classified, KnownBefore, Given
  <2>5. /\ FlagLetters \subseteq Known
        /\ opt_i <=> "i" \in FlagLetters
        /\ opt_r <=> "r" \in FlagLetters
    BY <2>4 DEF FlagLetters
  <2>6. /\ paths \in [1 .. m - 1 -> Seq(STRING)]
        /\ \A i \in 1 .. m - 1 : paths[i] = Operands[i + 1]
    <3>1. \A i \in 1 .. m - 1 : i + 1 \in 1 .. m
      BY <2>2
    <3>2. \A i \in 1 .. m : Operands[i] \in Seq(STRING)
      BY <2>2, OperandList, ElementOfSeq
    <3> QED
      BY <2>1, <2>2, <3>1, <3>2 DEF PathsOf
  <2>7. Len(paths) = m - 1 /\ paths \in Seq(Seq(STRING))
    <3>1. paths \in Seq(Seq(STRING)) /\ DOMAIN paths = 1 .. m - 1 /\ m - 1 \in Nat
      BY <2>2, <2>6 DEF CLTypeOK
    <3>2. Len(paths) \in Nat /\ DOMAIN paths = 1 .. Len(paths)
      BY <3>1, LenProperties
    <3> QED
      BY <3>1, <3>2
  <2>8. <<pat>> \o paths = Operands
    <3>1. PICK s \in Seq(Seq(STRING)) : s = <<pat>> /\ Len(s) = 1 /\ s[1] = pat
      <4>1. pat \in Seq(STRING)
        BY <2>2, <2>4, OperandList, ElementOfSeq
      <4>2. ASSUME NEW S, NEW x \in S
            PROVE  <<x>> \in Seq(S) /\ Len(<<x>>) = 1 /\ <<x>>[1] = x
        OBVIOUS
      <4>3. <<pat>> \in Seq(Seq(STRING)) /\ Len(<<pat>>) = 1 /\ <<pat>>[1] = pat
        BY <4>1, <4>2
      <4> QED
        BY <4>3
    <3>2. /\ s \o paths \in Seq(Seq(STRING)) /\ Len(s \o paths) = m
          /\ \A i \in 1 .. m : (s \o paths)[i] = IF i <= 1 THEN s[i] ELSE paths[i - 1]
      <4>1. Len(s) + Len(paths) = m
        BY <2>2, <2>7, <3>1
      <4> QED
        BY <2>7, <3>1, <4>1, ConcatProperties
    <3>3. ASSUME NEW i \in 1 .. m PROVE (s \o paths)[i] = Operands[i]
      <4>1. CASE i = 1
        BY <2>2, <2>4, <3>1, <3>2, <4>1
      <4>2. CASE i # 1
        <5>1. PICK j \in 1 .. m - 1 : j + 1 = i /\ j = i - 1
          BY <2>2, <4>2, i - 1 \in 1 .. m - 1, i - 1 + 1 = i
        <5>2. ~ i <= 1
          BY <2>2, <4>2
        <5> QED
          BY <2>6, <3>2, <5>1, <5>2
      <4> QED
        BY <4>1, <4>2
    <3> QED
      BY <2>2, <3>1, <3>2, <3>3, OperandList, SeqEqual
  <2>9. WellFormed /\ npaths = Len(paths)
    BY <2>2, <2>4, <2>5, <2>7 DEF WellFormed
  <2>10. opt_i = ("i" \in FlagLetters) /\ opt_r = ("r" \in FlagLetters)
    BY <2>5 DEF CLTypeOK
  <2> QED
    BY <1>2, <2>8, <2>9, <2>10 DEF ParsedRight
<1>3. CASE parsing = "usage"
  BY <1>1, <1>3 DEF ReadTo, ParsedRight
<1> QED
  BY <1>2, <1>3 DEF ParsedRight

-----------------------------------------------------------------------------
(* The programs: what a step does to the variables of each part.           *)

StartSomewhere == \E w, r, args : StartCollecting(w, r, args)
StartReading == \E s : StartPasses(s)

\* Only its own actions change a part.
LEMMA PartsApart ==
  ASSUME [NNext]_nvars
  PROVE  /\ Parse \/ UNCHANGED clvars
         /\ StartSomewhere \/ NextRoot \/ Meet \/ UNCHANGED covars
         /\ StartReading \/ ProbeStep \/ KernelStep \/ UNCHANGED uvars
<1>1. CASE ParseWord \/ UsageExit
  BY <1>1 DEF ParseWord, UsageExit
<1>2. CASE EndParsing
  BY <1>2 DEF EndParsing, StartSomewhere
<1>3. CASE Find
  BY <1>3 DEF Find
<1>4. CASE EndFinding
  BY <1>4 DEF EndFinding, StartReading
<1>5. CASE Spawn \/ WriteInline \/ JoinUnset
  BY <1>5 DEF Spawn, WriteInline, JoinUnset
<1>6. CASE Wait \/ \E w \in Worker : WorkerStep(w)
  BY <1>6 DEF Wait, WorkerStep
<1>7. CASE Probing \/ Kernel \/ Report
  BY <1>7 DEF Probing, Kernel, Report
<1>8. CASE UNCHANGED nvars
  BY <1>8 DEF nvars
<1> QED
  BY <1>1, <1>2, <1>3, <1>4, <1>5, <1>6, <1>7, <1>8 DEF NNext, MainStep

\* What the first states have in common.
LEMMA NStarts ==
  ASSUME NInit
  PROVE  /\ parser \in Parsers \cup {OnePass} /\ argv \in Argvs \cup {<<>>} /\ CLStart
         /\ UInit /\ started = 0 /\ inline = <<>>
<1>1. CASE StartParsing
  <2>1. PICK pq \in Parsing : parser = pq[2]
    BY <1>1 DEF StartParsing
  <2>2. parser \in Parsers \cup {OnePass}
    BY <2>1 DEF Parsing
  <2> QED
    BY <1>1, <2>2 DEF NInit, StartParsing
<1>2. CASE StartProbe \/ StartWithList
  BY <1>2 DEF NInit, StartProbe, StartWithList
<1> QED
  BY <1>1, <1>2 DEF NInit

\* Whatever the words of a command line are, and whichever program reads them: it ends in
\* a usage error only for a line that calls for one, and otherwise has the pattern, the
\* options and the paths that the whole line gives it.
THEOREM NParsedRight == NSpec => []ParsedRight
<1>1. NInit => CLInv
  BY NStarts, CLStarts
<1>2. CLInv /\ [NNext]_nvars => CLInv'
  BY PartsApart, CLStep
<1>3. CLInv => ParsedRight
  BY ReadToTheEnd
<1> QED
  BY <1>1, <1>2, <1>3, PTL DEF NSpec

-----------------------------------------------------------------------------
(* Finding the files.  What lies below a directory.                        *)

OneStep(G, d) == UNION {{n} \cup (IF Kind[n] = "DIR" THEN G[n] ELSE {}) : n \in EntriesOf(d)}
Closed(G) == \A d \in Node : OneStep(G, d) \subseteq G[d]

\* The entries are nodes of a lower level, each in one directory.
LEMMA EntriesLower ==
  ASSUME NEW d \in Node, NEW n \in EntriesOf(d)
  PROVE  /\ n \in Node /\ Levels[n] \in Nat /\ Levels[d] \in Nat /\ Levels[n] < Levels[d]
         /\ \A e \in Node : n \in EntriesOf(e) => e = d
<1>1. \A e \in Node : \A m \in EntriesOf(e) : \E i \in DOMAIN Entries[e] : m = Entries[e][i]
  BY DEF EntriesOf, ToSet
<1>2. PICK i \in DOMAIN Entries[d] : n = Entries[d][i]
  BY <1>1
<1>3. n \in Node
  <2>1. Entries[d] \in Seq(Node) /\ DOMAIN Entries[d] = 1 .. Len(Entries[d])
    BY TreeAssumption, LenProperties
  <2> QED
    BY <1>2, <2>1, ElementOfSeq
<1>4. Levels[n] \in Nat /\ Levels[d] \in Nat /\ Levels[n] < Levels[d]
  BY <1>2, <1>3, TreeAssumption
<1>5. ASSUME NEW e \in Node, n \in EntriesOf(e) PROVE e = d
  <2>1. PICK j \in DOMAIN Entries[e] : n = Entries[e][j]
    BY <1>1, <1>5
  <2> QED
    BY <1>2, <2>1, TreeAssumption
<1> QED
  BY <1>3, <1>4, <1>5

\* Below is what its definition says it is: the least closed family is a fixed point.
LEMMA BelowIs ==
  ASSUME NEW d \in Node
  PROVE  Below[d] = OneStep(Below, d)
<1> DEFINE All == {G \in [Node -> SUBSET Node] : Closed(G)}
           F == [x \in Node |-> {n \in Node : \A G \in All : n \in G[x]}]
           H == [x \in Node |-> OneStep(F, x)]
<1>1. \A x \in Node : EntriesOf(x) \subseteq Node
  BY EntriesLower
<1>2. \A G \in All : \A x \in Node : F[x] \subseteq G[x]
  OBVIOUS
<1>3. \A G \in All : \A x \in Node : OneStep(F, x) \subseteq OneStep(G, x)
  <2> HIDE DEF F, All
  <2> QED
    BY <1>1, <1>2 DEF OneStep
<1>4. \A x \in Node : OneStep(F, x) \subseteq Node
  <2>1. \A x \in Node : F[x] \subseteq Node
    OBVIOUS
  <2> HIDE DEF F, All
  <2> QED
    BY <1>1, <2>1 DEF OneStep
<1>5. \A x \in Node : OneStep(F, x) \subseteq F[x]
  <2> SUFFICES ASSUME NEW x \in Node, NEW n \in OneStep(F, x) PROVE n \in F[x]
    OBVIOUS
  <2>1. n \in Node
    BY <1>4
  <2>2. ASSUME NEW G \in All PROVE n \in G[x]
    <3>1. OneStep(G, x) \subseteq G[x]
      BY DEF Closed
    <3> HIDE DEF F, All
    <3> QED
      BY <1>3, <3>1
  <2> QED
    BY <2>1, <2>2
<1>6. H \in All
  <2>1. H \in [Node -> SUBSET Node]
    BY <1>4
  <2>2. ASSUME NEW x \in Node PROVE OneStep(H, x) \subseteq H[x]
    <3>1. \A y \in Node : H[y] \subseteq F[y]
      BY <1>5
    <3>2. H[x] = OneStep(F, x)
      OBVIOUS
    <3> HIDE DEF F, All, H
    <3> QED
      BY <1>1, <3>1, <3>2 DEF OneStep
  <2> HIDE DEF F, H
  <2> QED
    BY <2>1, <2>2 DEF Closed
<1>7. \A x \in Node : F[x] = OneStep(F, x)
  <2>1. \A x \in Node : F[x] \subseteq H[x] /\ H[x] = OneStep(F, x)
    BY <1>2, <1>6
  <2> HIDE DEF F, All, H
  <2> QED
    BY <1>5, <2>1
<1>8. F = [x \in Node |-> OneStep(F, x)]
  <2>1. F = [x \in Node |-> F[x]]
    OBVIOUS
  <2> HIDE DEF F, All, H
  <2> QED
    BY <1>7, <2>1
<1>9. Below = [x \in Node |-> OneStep(Below, x)]
  <2> HIDE DEF F, All, H
  <2>1. \E G : G = [x \in Node |-> OneStep(G, x)]
    BY <1>8
  <2>2. \E G : G = [x \in Node |-> UNION {{n} \cup (IF Kind[n] = "DIR" THEN G[n] ELSE {}) : n \in EntriesOf(x)}]
    BY <2>1 DEF OneStep
  <2> QED
    BY <2>2 DEF Below, OneStep
<1> QED
  BY <1>9

\* What is ahead leads to n if it is n, or a directory above it.
Leads(e, n) == e = n \/ (Kind[e] = "DIR" /\ n \in Below[e])

LEMMA BelowEntries ==
  ASSUME NEW d \in Node
  PROVE  \A n : n \in Below[d] <=> \E e \in EntriesOf(d) : Leads(e, n)
BY BelowIs DEF OneStep, Leads

\* What lies below a directory is lower, and its own directory leads down to it.
LEMMA BelowLower ==
  \A d \in Node : \A n \in Below[d] :
    /\ n \in Node /\ Levels[n] \in Nat /\ Levels[d] \in Nat /\ Levels[n] < Levels[d]
    /\ \E p \in Node : n \in EntriesOf(p) /\ (p = d \/ (Kind[p] = "DIR" /\ p \in Below[d]))
<1> DEFINE Fine(d, n) ==
             /\ n \in Node /\ Levels[n] \in Nat /\ Levels[d] \in Nat /\ Levels[n] < Levels[d]
             /\ \E p \in Node : n \in EntriesOf(p) /\ (p = d \/ (Kind[p] = "DIR" /\ p \in Below[d]))
           P == {k \in Nat : \A d \in Node : Levels[d] < k => \A n \in Below[d] : Fine(d, n)}
<1>0. \A d \in Node : Levels[d] \in Nat
  BY TreeAssumption
<1>1. 0 \in P
  BY <1>0
<1>2. ASSUME NEW k \in Nat, k \in P PROVE k + 1 \in P
  <2> SUFFICES ASSUME NEW d \in Node, Levels[d] < k + 1, NEW n \in Below[d] PROVE Fine(d, n)
    OBVIOUS
  <2>1. PICK e \in EntriesOf(d) : Leads(e, n)
    BY BelowEntries
  <2>2. e \in Node /\ Levels[e] \in Nat /\ Levels[d] \in Nat /\ Levels[e] < Levels[d]
    BY EntriesLower
  <2>3. CASE e = n
    BY <2>1, <2>2, <2>3
  <2>4. CASE Kind[e] = "DIR" /\ n \in Below[e]
    <3>1. Fine(e, n)
      BY <1>2, <2>2, <2>4
    <3>2. PICK p \in Node : n \in EntriesOf(p) /\ (p = e \/ (Kind[p] = "DIR" /\ p \in Below[e]))
      BY <3>1
    <3>3. Leads(e, p)
      BY <2>4, <3>2 DEF Leads
    <3>4. p \in Below[d] /\ Kind[p] = "DIR"
      BY <2>4, <3>2, <3>3, BelowEntries
    <3>5. n \in Node /\ Levels[n] \in Nat /\ Levels[n] < Levels[d]
      BY <2>2, <3>1
    <3> QED
      BY <2>2, <3>2, <3>4, <3>5
  <2> QED
    BY <2>1, <2>3, <2>4 DEF Leads
<1> HIDE DEF P
<1>3. Nat \subseteq P
  BY <1>1, <1>2, NumberInduction
<1> USE DEF P
<1> SUFFICES ASSUME NEW d \in Node, NEW n \in Below[d] PROVE Fine(d, n)
  OBVIOUS
<1>4. Levels[d] + 1 \in Nat /\ Levels[d] < Levels[d] + 1
  BY <1>0
<1>5. Levels[d] + 1 \in P
  BY <1>3, <1>4
<1> QED
  BY <1>4, <1>5

\* Of two entries of a directory at most one leads to n.
LEMMA EntriesApart ==
  ASSUME NEW d \in Node, NEW x \in EntriesOf(d), NEW y \in EntriesOf(d), x # y
  PROVE  \A n \in Node : ~ (Leads(x, n) /\ Leads(y, n))
<1> DEFINE P == {k \in Nat : \A n \in Node : Levels[n] + k >= Levels[d] => ~ (Leads(x, n) /\ Leads(y, n))}
<1>0. /\ x \in Node /\ y \in Node /\ Levels[d] \in Nat
      /\ Levels[x] \in Nat /\ Levels[x] < Levels[d] /\ Levels[y] \in Nat /\ Levels[y] < Levels[d]
      /\ \A n \in Node : Levels[n] \in Nat
  BY EntriesLower, TreeAssumption
<1>1. \A n \in Node : Leads(x, n) \/ Leads(y, n) => Levels[n] < Levels[d]
  <2>1. \A n \in Node : Leads(x, n) => Levels[n] < Levels[d]
    BY <1>0, BelowLower DEF Leads
  <2>2. \A n \in Node : Leads(y, n) => Levels[n] < Levels[d]
    BY <1>0, BelowLower DEF Leads
  <2> QED
    BY <2>1, <2>2
<1>2. 0 \in P
  BY <1>0, <1>1
<1>3. ASSUME NEW k \in Nat, k \in P PROVE k + 1 \in P
  <2> SUFFICES ASSUME NEW n \in Node, Levels[n] + (k + 1) >= Levels[d], Leads(x, n), Leads(y, n)
               PROVE  FALSE
    OBVIOUS
  <2>1. \A p \in Node : n \in EntriesOf(p) => Levels[p] + k >= Levels[d]
    BY <1>0, EntriesLower
  <2>2. CASE x = n
    <3>1. n \in Below[y]
      BY <2>2, x # y DEF Leads
    <3>2. PICK p \in Node : n \in EntriesOf(p) /\ (p = y \/ p \in Below[y])
      BY <1>0, <3>1, BelowLower
    <3>3. p = d
      BY <2>2, <3>2, EntriesLower
    <3> QED
      BY <1>0, <3>2, <3>3, BelowLower
  <2>3. CASE y = n
    <3>1. n \in Below[x]
      BY <2>3, x # y DEF Leads
    <3>2. PICK p \in Node : n \in EntriesOf(p) /\ (p = x \/ p \in Below[x])
      BY <1>0, <3>1, BelowLower
    <3>3. p = d
      BY <2>3, <3>2, EntriesLower
    <3> QED
      BY <1>0, <3>2, <3>3, BelowLower
  <2>4. CASE x # n /\ y # n
    <3>1. /\ Kind[x] = "DIR" /\ n \in Below[x]
          /\ Kind[y] = "DIR" /\ n \in Below[y]
      BY <2>4 DEF Leads
    <3>2. PICK p \in Node : n \in EntriesOf(p) /\ (p = x \/ (Kind[p] = "DIR" /\ p \in Below[x]))
      BY <1>0, <3>1, BelowLower
    <3>3. PICK q \in Node : n \in EntriesOf(q) /\ (q = y \/ (Kind[q] = "DIR" /\ q \in Below[y]))
      BY <1>0, <3>1, BelowLower
    <3>4. p = q
      BY <3>2, <3>3, EntriesLower
    <3>5. Leads(x, p) /\ Leads(y, p)
      BY <3>1, <3>2, <3>3, <3>4 DEF Leads
    <3> QED
      BY <1>3, <2>1, <3>2, <3>5
  <2> QED
    BY <2>2, <2>3, <2>4
<1> HIDE DEF P
<1>4. Nat \subseteq P
  BY <1>2, <1>3, NumberInduction
<1> USE DEF P
<1> SUFFICES ASSUME NEW n \in Node PROVE ~ (Leads(x, n) /\ Leads(y, n))
  OBVIOUS
<1>5. Levels[d] \in P /\ Levels[n] + Levels[d] >= Levels[d]
  BY <1>0, <1>4
<1> QED
  BY <1>5

\* The entries of a directory that can be read have one way to each node below it.
LEMMA EntriesLead ==
  ASSUME NEW d \in Node, NEW n \in Node
  PROVE  /\ Entries[d] \in Seq(Node)
         /\ d \notin Denied \cup Broken =>
              Hits(AheadTo(n), Entries[d]) = IF n \in Below[d] /\ Searchable(n) THEN 1 ELSE 0
         /\ d \in Denied \cup Broken => n \notin Below[d]
<1>1. Entries[d] \in Seq(Node) /\ DOMAIN Entries[d] = 1 .. Len(Entries[d])
  BY TreeAssumption, LenProperties
<1>2. d \in Denied \cup Broken => n \notin Below[d]
  BY BelowEntries DEF EntriesOf
<1>3. ASSUME d \notin Denied \cup Broken
      PROVE  Hits(AheadTo(n), Entries[d]) = IF n \in Below[d] /\ Searchable(n) THEN 1 ELSE 0
  <2>1. EntriesOf(d) = {Entries[d][i] : i \in DOMAIN Entries[d]}
    BY <1>3 DEF EntriesOf, ToSet
  <2>2. \A i \in DOMAIN Entries[d] : Entries[d][i] \in Node
    BY <1>1, ElementOfSeq
  <2>3. \A i \in DOMAIN Entries[d] : Entries[d][i] \in AheadTo(n) <=> Searchable(n) /\ Leads(Entries[d][i], n)
    BY <2>2 DEF AheadTo, Leads
  <2>4. CASE n \in Below[d] /\ Searchable(n)
    <3>1. PICK i \in DOMAIN Entries[d] : Leads(Entries[d][i], n)
      BY <2>1, <2>4, BelowEntries
    <3>2. ASSUME NEW j \in DOMAIN Entries[d], Leads(Entries[d][j], n) PROVE j = i
      <4>1. Entries[d][i] = Entries[d][j]
        BY <2>1, <3>1, <3>2, EntriesApart
      <4> QED
        BY <4>1, TreeAssumption
    <3> QED
      BY <2>3, <2>4, <3>1, <3>2, HitsOne
  <2>5. CASE ~ (n \in Below[d] /\ Searchable(n))
    <3>1. \A i \in DOMAIN Entries[d] : Entries[d][i] \notin AheadTo(n)
      BY <2>1, <2>3, <2>5, BelowEntries
    <3> QED
      BY <2>5, <3>1, HitsOne
  <2> QED
    BY <2>4, <2>5
<1> QED
  BY <1>1, <1>2, <1>3

-----------------------------------------------------------------------------
(* The walks: nothing is lost and nothing is found twice.                  *)

Library == walk \in {"nftw", "iterator"}
WayDown(d, n) == n \in Below[d] /\ Searchable(n)

\* All the numbers that are compared are numbers.
LEMMA CountsAre ==
  ASSUME COTypeOK, NEW n
  PROVE  /\ Times(n, listed) \in Nat /\ Hits(WaysTo(n), given) \in Nat
         /\ Hits(AheadTo(n), ahead) \in Nat /\ Hits(WaysTo(n), roots) \in Nat
BY TimesType, HitsMarked DEF COTypeOK

\* Only the start of a walk says what is looked for.
LEMMA WalkStays ==
  ASSUME UNCHANGED <<walk, recurse, given>>
  PROVE  /\ \A n : Searchable(n)' <=> Searchable(n)
         /\ \A n : AheadTo(n)' = AheadTo(n) /\ WaysTo(n)' = WaysTo(n)
         /\ \A n : Hits(WaysTo(n), given)' = Hits(WaysTo(n), given)
         /\ \A n : Found(n)' = Times(n, listed') + Hits(AheadTo(n), ahead') + Hits(WaysTo(n), roots')
         /\ Unhurt' <=> Unhurt
<1>1. \A n : Searchable(n)' <=> Searchable(n)
  BY DEF Searchable
<1>2. \A n : AheadTo(n)' = AheadTo(n)
  BY DEF AheadTo, Searchable
<1>3. \A n : WaysTo(n)' = WaysTo(n)
  BY DEF WaysTo, Searchable, Wanders
<1>4. \A n : Hits(WaysTo(n), given)' = Hits(WaysTo(n), given)
  BY <1>3 DEF Hits
<1>5. Unhurt' <=> Unhurt
  BY DEF Unhurt, Wanders
<1>6. ASSUME NEW n
      PROVE  Found(n)' = Times(n, listed') + Hits(AheadTo(n), ahead') + Hits(WaysTo(n), roots')
  <2>1. /\ Times(n, listed)' = Times(n, listed')
        /\ Hits(AheadTo(n), ahead)' = Hits(AheadTo(n), ahead')
        /\ Hits(WaysTo(n), roots)' = Hits(WaysTo(n), roots')
    BY <1>2, <1>3 DEF Times, Places, Hits
  <2> QED
    BY <2>1 DEF Found
<1> QED
  BY <1>1, <1>2, <1>3, <1>4, <1>5, <1>6

\* What is ahead after a directory is entered leads to n once more if n is below it, or
\* to less if the directory is broken.
LEMMA EnteringLeads ==
  ASSUME Library, NEW d \in Node, NEW rest \in Seq(Node), NEW n \in Node
  PROVE  /\ AfterEntering(d, rest) \in Seq(Node)
         /\ Hits(AheadTo(n), AfterEntering(d, rest)) \in Nat /\ Hits(AheadTo(n), rest) \in Nat
         /\ Hits(AheadTo(n), AfterEntering(d, rest))
              <= Hits(AheadTo(n), rest) + (IF WayDown(d, n) THEN 1 ELSE 0)
         /\ d \notin Broken =>
              Hits(AheadTo(n), AfterEntering(d, rest))
                = Hits(AheadTo(n), rest) + (IF WayDown(d, n) THEN 1 ELSE 0)
<1> DEFINE A == AheadTo(n)
           after == AfterEntering(d, rest)
<1>1. walk # "readdir"
  BY DEF Library
<1>2. Hits(A, rest) \in Nat
  BY HitsMarked
<1>3. /\ Entries[d] \in Seq(Node)
      /\ d \notin Denied \cup Broken =>
           Hits(A, Entries[d]) = IF WayDown(d, n) THEN 1 ELSE 0
      /\ d \in Denied \cup Broken => ~ WayDown(d, n)
  BY EntriesLead DEF WayDown
<1>4. CASE d \in Denied
  <2>1. after = rest /\ ~ WayDown(d, n)
    BY <1>3, <1>4, TreeAssumption DEF AfterEntering
  <2> QED
    BY <1>2, <2>1
<1>5. CASE d \in Broken \ Denied
  <2>1. after = <<>> /\ ~ WayDown(d, n)
    BY <1>1, <1>3, <1>5 DEF AfterEntering
  <2>2. after \in Seq(Node) /\ Hits(A, after) = 0
    BY <2>1, EmptySeq, HitsEmpty
  <2> QED
    BY <1>2, <1>5, <2>1, <2>2
<1>6. CASE d \notin Denied \cup Broken
  <2>1. after = Entries[d] \o rest
    BY <1>6 DEF AfterEntering
  <2>2. after \in Seq(Node) /\ Hits(A, after) = Hits(A, Entries[d]) + Hits(A, rest)
    BY <1>3, <2>1, HitsConcat, PartsOfConcat
  <2>3. Hits(A, Entries[d]) = IF WayDown(d, n) THEN 1 ELSE 0
    BY <1>3, <1>6
  <2> HIDE DEF A, after
  <2> QED
    BY <1>2, <2>2, <2>3 DEF A, after
<1> QED
  BY <1>4, <1>5, <1>6

\* Nothing below a directory that is sound has failed.
Sound(e) == Kind[e] = "DIR" => ({e} \cup Below[e]) \cap Broken = {}
LEMMA EnteringSound ==
  ASSUME Library, NEW d \in Node, ({d} \cup Below[d]) \cap Broken = {},
         NEW rest \in Seq(Node), \A i \in DOMAIN rest : Sound(rest[i])
  PROVE  \A i \in DOMAIN AfterEntering(d, rest) : Sound(AfterEntering(d, rest)[i])
<1>1. CASE d \in Denied
  BY <1>1, TreeAssumption DEF AfterEntering
<1>2. CASE d \notin Denied
  <2>1. AfterEntering(d, rest) = Entries[d] \o rest /\ d \notin Denied \cup Broken
    BY <1>2 DEF AfterEntering
  <2>2. Entries[d] \in Seq(Node)
    BY EntriesLead
  <2>3. ASSUME NEW j \in DOMAIN Entries[d] PROVE Sound(Entries[d][j])
    <3>1. Entries[d][j] \in EntriesOf(d) /\ Entries[d][j] \in Node
      <4>1. Entries[d][j] \in EntriesOf(d)
        BY <2>1 DEF EntriesOf, ToSet
      <4> QED
        BY <4>1, EntriesLower
    <3>2. ASSUME Kind[Entries[d][j]] = "DIR", NEW n \in {Entries[d][j]} \cup Below[Entries[d][j]]
          PROVE  n \in Below[d]
      BY <3>1, <3>2, BelowEntries DEF Leads
    <3> QED
      BY <3>2 DEF Sound
  <2> QED
    BY <2>1, <2>2, <2>3, PartsOfConcat
<1> QED
  BY <1>1, <1>2

LEMMA RootTypeStep ==
  ASSUME COTypeOK, NextRoot
  PROVE  COTypeOK'
<1> DEFINE n == Head(roots)
<1>1. /\ roots \in Seq(Node) /\ roots # <<>> /\ n \in Node
      /\ roots' = Tail(roots) /\ roots' \in Seq(Node)
      /\ UNCHANGED <<walk, recurse, given>>
      /\ \A i \in DOMAIN roots' : i + 1 \in DOMAIN roots /\ roots'[i] = roots[i + 1]
  BY PartsOfTail DEF COTypeOK, NextRoot
<1>2. ahead' \in Seq(Node)
  <2>1. <<>> \in Seq(Node) /\ Entries[n] \in Seq(Node)
    BY <1>1, EmptySeq, EntriesLead
  <2>2. Entries[n] \o <<>> \in Seq(Node)
    BY <2>1, PartsOfConcat
  <2> QED
    BY <2>1, <2>2 DEF NextRoot, AfterEntering
<1>3. listed' \in Seq(Node)
  <2>1. Append(listed, n) \in Seq(Node) /\ listed \in Seq(Node)
    BY <1>1, AppendProperties DEF COTypeOK
  <2> QED
    BY <2>1 DEF NextRoot
<1>4. \A i \in DOMAIN roots' : \E j \in DOMAIN given : roots'[i] = given[j]
  BY <1>1 DEF COTypeOK
<1> QED
  BY <1>1, <1>2, <1>3, <1>4 DEF COTypeOK

LEMMA MeetTypeStep ==
  ASSUME COTypeOK, Meet
  PROVE  COTypeOK'
<1> DEFINE n == Head(ahead)
<1>1. /\ ahead \in Seq(Node) /\ n \in Node /\ Tail(ahead) \in Seq(Node)
      /\ UNCHANGED <<walk, recurse, roots, given>>
  BY PartsOfTail DEF COTypeOK, Meet
<1>2. ahead' \in Seq(Node)
  <2>1. <<>> \in Seq(Node) /\ Entries[n] \in Seq(Node)
    BY <1>1, EmptySeq, EntriesLead
  <2>2. Entries[n] \o Tail(ahead) \in Seq(Node)
    BY <1>1, <2>1, PartsOfConcat
  <2> QED
    BY <1>1, <2>1, <2>2 DEF Meet, AfterEntering
<1>3. listed' \in Seq(Node)
  <2>1. Append(listed, n) \in Seq(Node) /\ listed \in Seq(Node)
    BY <1>1, AppendProperties DEF COTypeOK
  <2> QED
    BY <2>1 DEF Meet
<1> QED
  BY <1>1, <1>3, <1>2 DEF COTypeOK

\* An argument is found, or what is below it is ahead.
LEMMA RootFound ==
  ASSUME COInv, NextRoot, Library
  PROVE  /\ \A n \in Node : Found(n)' \in Nat /\ Found(n)' <= Found(n) /\ (Unhurt => Found(n)' = Found(n))
         /\ Unhurt => \A i \in DOMAIN ahead' : Sound(ahead'[i])
<1> DEFINE a == Head(roots)
<1>1. /\ COTypeOK /\ roots \in Seq(Node) /\ a \in Node /\ roots # <<>> /\ ahead = <<>>
      /\ walk # "readdir" /\ UNCHANGED <<walk, recurse, given>> /\ listed \in Seq(Node)
  BY PartsOfTail DEF COInv, COTypeOK, NextRoot, Library
<1>2. /\ roots' = Tail(roots)
      /\ ahead' = IF Wanders(a) THEN AfterEntering(a, <<>>) ELSE <<>>
      /\ listed' = IF Mode[a] = "REG" THEN Append(listed, a) ELSE listed
  BY <1>1 DEF NextRoot
<1>3. Unhurt /\ Wanders(a) => ({a} \cup Below[a]) \cap Broken = {}
  <2>1. PICK j \in DOMAIN given : given[j] = a
    BY <1>1, PartsOfTail DEF COTypeOK
  <2> QED
    BY <2>1 DEF Unhurt
<1>4. <<>> \in Seq(Node) /\ DOMAIN <<>> = {}
  BY EmptySeq
<1> HIDE DEF a
<1>5. ASSUME NEW n \in Node
      PROVE  Found(n)' \in Nat /\ Found(n)' <= Found(n) /\ (Unhurt => Found(n)' = Found(n))
  <2> DEFINE A == AheadTo(n)
             W == WaysTo(n)
  <2>1. Found(n)' = Times(n, listed') + Hits(A, ahead') + Hits(W, roots')
    BY <1>1, WalkStays
  <2>2. Found(n) = Times(n, listed) + Hits(A, ahead) + Hits(W, roots)
    BY DEF Found
  <2>3. Hits(A, ahead) = 0 /\ Hits(A, <<>>) = 0 /\ Times(n, listed) \in Nat
    BY <1>1, HitsEmpty, TimesType
  <2>4. Hits(W, roots') \in Nat /\ Hits(W, roots) = Hits(W, roots') + (IF a \in W THEN 1 ELSE 0)
    BY <1>1, <1>2, HitsTail DEF a
  <2>5. Times(n, listed') = Times(n, listed) + (IF Mode[a] = "REG" /\ a = n THEN 1 ELSE 0)
    <3>1. Times(n, Append(listed, a)) = Times(n, listed) + (IF a = n THEN 1 ELSE 0)
      BY <1>1, TimesAppend
    <3> QED
      BY <1>2, <2>3, <3>1
  <2>6. a \in W <=> (a = n /\ Mode[a] = "REG") \/ (Wanders(a) /\ WayDown(a, n))
    BY <1>1 DEF WaysTo, WayDown
  <2>7. Wanders(a) => Mode[a] # "REG"
    BY DEF Wanders
  <2> HIDE DEF A, W
  <2>8. CASE Wanders(a)
    <3>1. /\ Hits(A, ahead') \in Nat
          /\ Hits(A, ahead') <= (IF WayDown(a, n) THEN 1 ELSE 0)
          /\ a \notin Broken => Hits(A, ahead') = (IF WayDown(a, n) THEN 1 ELSE 0)
      <4>1. PICK none \in Seq(Node) : none = <<>>
        BY <1>4
      <4>2. /\ Hits(AheadTo(n), AfterEntering(a, none)) \in Nat
            /\ Hits(AheadTo(n), AfterEntering(a, none))
                 <= Hits(AheadTo(n), none) + (IF WayDown(a, n) THEN 1 ELSE 0)
            /\ a \notin Broken =>
                 Hits(AheadTo(n), AfterEntering(a, none))
                   = Hits(AheadTo(n), none) + (IF WayDown(a, n) THEN 1 ELSE 0)
        BY <1>1, EnteringLeads
      <4>3. ahead' = AfterEntering(a, none) /\ Hits(AheadTo(n), none) = 0
        BY <1>2, <2>3, <2>8, <4>1 DEF A
      <4> QED
        BY <4>2, <4>3 DEF A
    <3>2. Unhurt => a \notin Broken
      BY <1>3, <2>8
    <3>3. Times(n, listed') = Times(n, listed)
      BY <2>3, <2>5, <2>7, <2>8
    <3>4. a \in W <=> WayDown(a, n)
      BY <2>6, <2>7, <2>8
    <3> QED
      BY <2>1, <2>2, <2>3, <2>4, <3>1, <3>2, <3>3, <3>4
  <2>9. CASE ~ Wanders(a)
    <3>1. Hits(A, ahead') = 0
      BY <1>2, <2>3, <2>9
    <3>2. a \in W <=> (a = n /\ Mode[a] = "REG")
      BY <2>6, <2>9
    <3> QED
      BY <2>1, <2>2, <2>3, <2>4, <2>5, <3>1, <3>2
  <2> QED
    BY <2>8, <2>9
<1>6. Unhurt => \A i \in DOMAIN ahead' : Sound(ahead'[i])
  <2>1. CASE Wanders(a)
    <3> SUFFICES ASSUME Unhurt PROVE \A i \in DOMAIN ahead' : Sound(ahead'[i])
      OBVIOUS
    <3>1. ({a} \cup Below[a]) \cap Broken = {} /\ \A i \in DOMAIN <<>> : Sound(<<>>[i])
      BY <1>3, <1>4, <2>1
    <3>2. \A i \in DOMAIN AfterEntering(a, <<>>) : Sound(AfterEntering(a, <<>>)[i])
      BY <1>1, <1>4, <3>1, EnteringSound
    <3> QED
      BY <1>2, <2>1, <3>2
  <2>2. CASE ~ Wanders(a)
    BY <1>2, <1>4, <2>2
  <2> QED
    BY <2>1, <2>2
<1> QED
  BY <1>5, <1>6

\* So is an entry.
LEMMA EntryFound ==
  ASSUME COInv, Meet, Library
  PROVE  /\ \A n \in Node : Found(n)' \in Nat /\ Found(n)' <= Found(n) /\ (Unhurt => Found(n)' = Found(n))
         /\ Unhurt => \A i \in DOMAIN ahead' : Sound(ahead'[i])
<1> DEFINE e == Head(ahead)
           rest == Tail(ahead)
<1>1. /\ COTypeOK /\ ahead \in Seq(Node) /\ e \in Node /\ ahead # <<>> /\ rest \in Seq(Node)
      /\ walk # "readdir" /\ UNCHANGED <<walk, recurse, given, roots>> /\ listed \in Seq(Node)
      /\ 1 \in DOMAIN ahead /\ e = ahead[1]
      /\ \A i \in DOMAIN rest : i + 1 \in DOMAIN ahead /\ rest[i] = ahead[i + 1]
  BY PartsOfTail DEF COInv, COTypeOK, Meet, Library
<1>2. /\ ahead' = IF TypeOf(e) = "DIR" THEN AfterEntering(e, rest) ELSE rest
      /\ listed' = IF TypeOf(e) = "REG" THEN Append(listed, e) ELSE listed
  BY DEF Meet
<1>3. (TypeOf(e) = "DIR" <=> Kind[e] = "DIR") /\ (TypeOf(e) = "REG" <=> Searchable(e))
  <2>1. CASE walk = "nftw"
    BY <2>1 DEF TypeOf, NftwType, Searchable
  <2>2. CASE walk = "iterator"
    BY <2>2 DEF TypeOf, IteratorType, Searchable
  <2> QED
    BY <2>1, <2>2 DEF Library
<1>4. Searchable(e) => Kind[e] # "DIR"
  BY DEF Searchable
<1>5. Unhurt => \A i \in DOMAIN ahead : Sound(ahead[i])
  BY DEF COInv, AheadUnhurt, Sound, Library
<1>6. Unhurt /\ Kind[e] = "DIR" => ({e} \cup Below[e]) \cap Broken = {}
  BY <1>1, <1>5 DEF Sound
<1>7. Unhurt => \A i \in DOMAIN rest : Sound(rest[i])
  BY <1>1, <1>5
<1> HIDE DEF e, rest
<1>8. ASSUME NEW n \in Node
      PROVE  Found(n)' \in Nat /\ Found(n)' <= Found(n) /\ (Unhurt => Found(n)' = Found(n))
  <2> DEFINE A == AheadTo(n)
             W == WaysTo(n)
  <2>1. Found(n)' = Times(n, listed') + Hits(A, ahead') + Hits(W, roots)
    BY <1>1, WalkStays
  <2>2. Found(n) = Times(n, listed) + Hits(A, ahead) + Hits(W, roots)
    BY DEF Found
  <2>3. Times(n, listed) \in Nat /\ Hits(W, roots) \in Nat
    BY <1>1, CountsAre
  <2>4. Hits(A, rest) \in Nat /\ Hits(A, ahead) = Hits(A, rest) + (IF e \in A THEN 1 ELSE 0)
    BY <1>1, HitsTail DEF e, rest
  <2>5. Times(n, listed') = Times(n, listed) + (IF Searchable(e) /\ e = n THEN 1 ELSE 0)
    <3>1. Times(n, Append(listed, e)) = Times(n, listed) + (IF e = n THEN 1 ELSE 0)
      BY <1>1, TimesAppend
    <3> QED
      BY <1>2, <1>3, <2>3, <3>1
  <2>6. e \in A <=> Searchable(n) /\ (e = n \/ (Kind[e] = "DIR" /\ n \in Below[e]))
    BY <1>1 DEF AheadTo
  <2> HIDE DEF A, W
  <2>7. CASE Kind[e] = "DIR"
    <3>1. /\ Hits(A, ahead') \in Nat
          /\ Hits(A, ahead') <= Hits(A, rest) + (IF WayDown(e, n) THEN 1 ELSE 0)
          /\ e \notin Broken => Hits(A, ahead') = Hits(A, rest) + (IF WayDown(e, n) THEN 1 ELSE 0)
      BY <1>1, <1>2, <1>3, <2>7, EnteringLeads DEF A
    <3>2. Unhurt => e \notin Broken
      BY <1>6, <2>7
    <3>3. Times(n, listed') = Times(n, listed)
      BY <1>4, <2>3, <2>5, <2>7
    <3>4. e \in A <=> WayDown(e, n)
      BY <1>4, <2>6, <2>7 DEF WayDown
    <3> QED
      BY <2>1, <2>2, <2>3, <2>4, <3>1, <3>2, <3>3, <3>4
  <2>8. CASE Kind[e] # "DIR"
    <3>1. ahead' = rest
      BY <1>2, <1>3, <2>8
    <3>2. e \in A <=> Searchable(e) /\ e = n
      BY <2>6, <2>8
    <3> QED
      BY <2>1, <2>2, <2>3, <2>4, <2>5, <3>1, <3>2
  <2> QED
    BY <2>7, <2>8
<1>9. Unhurt => \A i \in DOMAIN ahead' : Sound(ahead'[i])
  <2> SUFFICES ASSUME Unhurt PROVE \A i \in DOMAIN ahead' : Sound(ahead'[i])
    OBVIOUS
  <2>1. CASE Kind[e] = "DIR"
    <3>1. \A i \in DOMAIN AfterEntering(e, rest) : Sound(AfterEntering(e, rest)[i])
      BY <1>1, <1>6, <1>7, <2>1, EnteringSound
    <3> QED
      BY <1>2, <1>3, <2>1, <3>1
  <2>2. CASE Kind[e] # "DIR"
    BY <1>2, <1>3, <1>7, <2>2
  <2> QED
    BY <2>1, <2>2
<1> QED
  BY <1>8, <1>9

\* The invariant of a walk at its start, and that every step keeps it.
LEMMA COStarts ==
  ASSUME NEW w, NEW r, NEW args, StartCollecting(w, r, args), ahead = <<>>, listed = <<>>,
         w \in {"none", "nftw", "iterator", "readdir"}, r \in BOOLEAN, args \in Seq(Node)
  PROVE  COInv'
<1>1. /\ walk' = w /\ recurse' = r /\ roots' = args /\ given' = args
      /\ ahead' = <<>> /\ listed' = <<>> /\ <<>> \in Seq(Node) /\ DOMAIN <<>> = {}
  BY EmptySeq DEF StartCollecting
<1>2. COTypeOK'
  BY <1>1 DEF COTypeOK
<1>3. AheadUnhurt'
  BY <1>1 DEF AheadUnhurt
<1>4. ASSUME NEW n \in Node PROVE Found(n)' = Hits(WaysTo(n), given)' /\ Found(n)' \in Nat
  <2>1. Times(n, listed)' = 0 /\ Hits(AheadTo(n), ahead)' = 0
    <3>1. Times(n, <<>>) = 0
      BY TimesEmpty
    <3>2. Times(n, listed)' = Times(n, <<>>)
      BY <1>1 DEF Times, Places
    <3>3. Hits(AheadTo(n)', <<>>) = 0
      BY HitsEmpty
    <3>4. Hits(AheadTo(n), ahead)' = Hits(AheadTo(n)', <<>>)
      BY <1>1 DEF Hits
    <3> QED
      BY <3>1, <3>2, <3>3, <3>4
  <2>2. Hits(WaysTo(n), roots)' = Hits(WaysTo(n), given)'
    BY <1>1 DEF Hits
  <2>3. Hits(WaysTo(n), given)' \in Nat
    <3>1. Hits(WaysTo(n)', args) \in Nat
      BY HitsMarked
    <3>2. Hits(WaysTo(n), given)' = Hits(WaysTo(n)', args)
      BY <1>1 DEF Hits
    <3> QED
      BY <3>1, <3>2
  <2> QED
    BY <2>1, <2>2, <2>3 DEF Found
<1>5. WaysKept'
  BY <1>4 DEF WaysKept
<1> QED
  BY <1>2, <1>3, <1>5 DEF COInv

LEMMA COStep ==
  ASSUME COInv, NextRoot \/ Meet \/ UNCHANGED covars
  PROVE  COInv'
<1>1. CASE NextRoot \/ Meet
  <2>1. UNCHANGED <<walk, recurse, given>> /\ COTypeOK'
    BY <1>1, RootTypeStep, MeetTypeStep DEF COInv, NextRoot, Meet
  <2>2. CASE ~ Library
    BY <2>1, <2>2 DEF COInv, WaysKept, AheadUnhurt, Library
  <2>3. CASE Library
    <3>1. /\ \A n \in Node : Found(n)' \in Nat /\ Found(n)' <= Found(n) /\ (Unhurt => Found(n)' = Found(n))
          /\ Unhurt => \A i \in DOMAIN ahead' : Sound(ahead'[i])
      BY <1>1, <2>3, RootFound, EntryFound
    <3>2. \A n \in Node : /\ Found(n) \in Nat /\ Hits(WaysTo(n), given) \in Nat
                          /\ Found(n) <= Hits(WaysTo(n), given)
                          /\ Unhurt => Found(n) = Hits(WaysTo(n), given)
      BY <2>3, CountsAre DEF COInv, WaysKept, Library, Found
    <3>3. WaysKept'
      <4>1. ASSUME NEW n \in Node
            PROVE  /\ Found(n)' <= Hits(WaysTo(n), given)'
                   /\ Unhurt' => Found(n)' = Hits(WaysTo(n), given)'
        <5>1. Hits(WaysTo(n), given)' = Hits(WaysTo(n), given) /\ (Unhurt' <=> Unhurt)
          BY <2>1, WalkStays
        <5> QED
          BY <3>1, <3>2, <5>1
      <4> QED
        BY <4>1 DEF WaysKept
    <3>4. AheadUnhurt'
      BY <2>1, <3>1, WalkStays DEF AheadUnhurt, Sound
    <3> QED
      BY <2>1, <3>3, <3>4 DEF COInv
  <2> QED
    BY <2>2, <2>3
<1>2. CASE UNCHANGED covars
  <2>1. UNCHANGED <<walk, recurse, roots, ahead, listed, given>>
    BY <1>2 DEF covars
  <2>2. \A n : Found(n)' = Found(n) /\ Hits(WaysTo(n), given)' = Hits(WaysTo(n), given)
    BY <2>1, WalkStays DEF Found
  <2>3. (COTypeOK' <=> COTypeOK) /\ (Unhurt' <=> Unhurt)
    BY <2>1, WalkStays DEF COTypeOK
  <2> QED
    BY <2>1, <2>2, <2>3 DEF COInv, WaysKept, AheadUnhurt
<1> QED
  BY <1>1, <1>2

\* What the invariant says of a walk that has handled all its arguments.
LEMMA WaysGone == COInv => FilesFoundOnce
<1> SUFFICES ASSUME COInv, Library, AllCollected, NEW n \in Node
             PROVE  /\ Times(n, listed) <= Hits(WaysTo(n), given)
                    /\ Unhurt => Times(n, listed) = Hits(WaysTo(n), given)
  BY DEF FilesFoundOnce, Library
<1>1. Hits(AheadTo(n), ahead) = 0 /\ Hits(WaysTo(n), roots) = 0
  BY HitsEmpty DEF AllCollected
<1>2. Times(n, listed) \in Nat
  BY CountsAre DEF COInv
<1>3. Found(n) = Times(n, listed)
  BY <1>1, <1>2 DEF Found
<1> QED
  BY <1>3 DEF COInv, WaysKept, Library

-----------------------------------------------------------------------------
(* The probe: its batches, rounds and completions.                         *)

\* A batch has a slot for each of the next files, PER of them at most.
LEMMA SlotsAre ==
  ASSUME UTypeOK
  PROVE  /\ nfiles \in Nat /\ handled \in Nat /\ handled <= nfiles
         /\ IsFiniteSet(Slots)
         /\ \E c \in Nat : /\ Slots = 1 .. c /\ Cardinality(Slots) = c /\ handled + c <= nfiles
                           /\ handled < nfiles => c >= 1
                           /\ handled >= nfiles => c = 0
<1>1. nfiles \in Nat /\ handled \in 0 .. nfiles
  BY LenProperties DEF UTypeOK, nfiles
<1>2. PICK c \in Nat : /\ c = LowerOf(PER, nfiles - handled) /\ handled + c <= nfiles
                       /\ handled < nfiles => c >= 1
                       /\ handled >= nfiles => c = 0
  <2> DEFINE c == LowerOf(PER, nfiles - handled)
  <2>1. /\ c \in Nat /\ handled + c <= nfiles /\ (handled < nfiles => c >= 1)
        /\ handled >= nfiles => c = 0
    BY <1>1, ProbeAssumption DEF LowerOf
  <2> QED
    BY <2>1
<1>3. Slots = 1 .. c /\ IsFiniteSet(1 .. c) /\ Cardinality(1 .. c) = c
  BY <1>2, FS_Interval DEF Slots
<1> QED
  BY <1>1, <1>2, <1>3

LEMMA ReadsAre ==
  ASSUME UTypeOK
  PROVE  /\ \A f \in 1 .. nfiles : sizes[f] \in Int /\ sizes[f] >= -1 /\ ReadResult(f) \in Int
         /\ \A f \in 1 .. nfiles : sizes[f] = -1 => ReadResult(f) <= 0
         /\ \A n \in 0 .. nfiles : /\ [f \in 1 .. n |-> ReadResult(f)] \in Results(n)
                                   /\ SumTo(n) \in Nat
         /\ SumTo(0) = 0
<1>1. nfiles \in Nat /\ \A f \in 1 .. nfiles : sizes[f] \in Nat \cup {-1}
  BY LenProperties, ElementOfSeq DEF UTypeOK, nfiles
<1>2. \A f \in 1 .. nfiles : sizes[f] \in Int /\ sizes[f] >= -1 /\ ReadResult(f) \in Int
  BY <1>1, ProbeAssumption DEF ReadResult, LowerOf
<1>3. \A f \in 1 .. nfiles : sizes[f] = -1 => ReadResult(f) <= 0
  BY <1>1, ProbeAssumption DEF ReadResult, LowerOf
<1>4. ASSUME NEW n \in 0 .. nfiles
      PROVE  [f \in 1 .. n |-> ReadResult(f)] \in Results(n) /\ SumTo(n) \in Nat
  <2>1. \A f \in 1 .. n : f \in 1 .. nfiles
    BY <1>1
  <2>2. [f \in 1 .. n |-> ReadResult(f)] \in Results(n)
    BY <1>2, <2>1 DEF Results
  <2>3. n \in Nat
    BY <1>1
  <2> QED
    BY <2>2, <2>3, UnitsAre DEF SumTo
<1>5. SumTo(0) = 0
  <2> DEFINE r == [f \in 1 .. 0 |-> ReadResult(f)]
  <2>1. r \in Results(0) /\ \A i \in 1 .. 0 : r[i] <= 0
    <3>1. 0 \in 0 .. nfiles
      BY <1>1
    <3>2. r \in Results(0)
      BY <1>4, <3>1
    <3> QED
      BY <3>2
  <2> HIDE DEF r
  <2>2. PositiveSum(r) = 0
    BY <2>1, SumNone
  <2> QED
    BY <2>2 DEF SumTo, r
<1> QED
  BY <1>2, <1>3, <1>4, <1>5

\* What the passes read is counted whatever the state of the ring.
LEMMA SumsStay ==
  ASSUME UNCHANGED sizes
  PROVE  nfiles' = nfiles /\ (\A f : ReadResult(f)' = ReadResult(f)) /\ \A n : SumTo(n)' = SumTo(n)
<1>1. nfiles' = nfiles /\ \A f : ReadResult(f)' = ReadResult(f)
  BY DEF nfiles, ReadResult
<1>2. ASSUME NEW n PROVE SumTo(n)' = SumTo(n)
  BY <1>1 DEF SumTo
<1> QED
  BY <1>1, <1>2

LEMMA RingStays ==
  ASSUME UNCHANGED <<sizes, round, handled, fds, asked, cq, waiting, opened>>
  PROVE  (RingExact' <=> RingExact) /\ (DescriptorsRight' <=> DescriptorsRight)
<1>1. /\ Slots' = Slots /\ ToAsk' = ToAsk /\ nfiles' = nfiles
      /\ (\A k : Result(k)' = Result(k)) /\ \A k : Answered(k)' <=> Answered(k)
  BY DEF Slots, ToAsk, nfiles, Result, ReadResult, Answered
<1> QED
  BY <1>1 DEF RingExact, DescriptorsRight

LEMMA PassesLeft ==
  ASSUME UTypeOK, passes # <<>>
  PROVE  /\ Tail(passes) \in Seq({"sync", "uring"})
         /\ \A x : Head(passes) # x /\ (\E i \in DOMAIN passes : passes[i] = x) =>
              \E i \in DOMAIN Tail(passes) : Tail(passes)[i] = x
<1>1. passes \in Seq({"sync", "uring"}) /\ Len(passes) \in Nat /\ Len(passes) # 0
      /\ DOMAIN passes = 1 .. Len(passes)
  BY LenProperties, EmptySeq DEF UTypeOK
<1>2. /\ Tail(passes) \in Seq({"sync", "uring"}) /\ DOMAIN Tail(passes) = 1 .. Len(passes) - 1
      /\ \A i \in 1 .. Len(passes) - 1 : Tail(passes)[i] = passes[i + 1]
      /\ Head(passes) = passes[1]
  BY <1>1, HeadTailProperties, LenProperties
<1>3. ASSUME NEW x, Head(passes) # x, NEW i \in DOMAIN passes, passes[i] = x
      PROVE  \E j \in DOMAIN Tail(passes) : Tail(passes)[j] = x
  <2>1. i # 1 /\ i - 1 \in 1 .. Len(passes) - 1 /\ i - 1 + 1 = i
    BY <1>1, <1>2, <1>3
  <2> QED
    BY <1>2, <1>3, <2>1
<1> QED
  BY <1>2, <1>3

LEMMA SyncStep ==
  ASSUME UIInv, SyncPass
  PROVE  UIInv'
<1>1. /\ UTypeOK /\ passes # <<>> /\ Head(passes) = "sync" /\ passes' = Tail(passes)
      /\ sync_total' = SumTo(nfiles)
      /\ UNCHANGED <<sizes, round, handled, fds, asked, cq, waiting, total, uring_total, opened>>
  BY DEF UIInv, SyncPass, Making, SumTo
<1>2. UTypeOK'
  BY <1>1, PassesLeft DEF UTypeOK, nfiles
<1>3. RingExact' /\ DescriptorsRight'
  BY <1>1, RingStays DEF UIInv
<1>4. /\ nfiles' = nfiles /\ (\A n : SumTo(n)' = SumTo(n)) /\ Slots' = Slots
  BY <1>1, SumsStay DEF Slots
<1>5. (\E i \in DOMAIN passes : passes[i] = "uring") => \E i \in DOMAIN passes' : passes'[i] = "uring"
  BY <1>1, PassesLeft
<1>6. TotalsRight'
  <2>1. /\ total = SumTo(IF round = "close" THEN handled + Cardinality(Slots) ELSE handled)
        /\ uring_total = SumTo(nfiles) \/ \E i \in DOMAIN passes : passes[i] = "uring"
    BY DEF UIInv, TotalsRight
  <2>2. PICK n : /\ n = (IF round = "close" THEN handled + Cardinality(Slots) ELSE handled)
                 /\ n = (IF round' = "close" THEN handled' + Cardinality(Slots') ELSE handled')
    BY <1>1, <1>4
  <2>3. total' = SumTo(n)'
    BY <1>1, <1>4, <2>1, <2>2
  <2>4. total' = SumTo(IF round = "close" THEN handled + Cardinality(Slots) ELSE handled)'
    <3>1. n = (IF round = "close" THEN handled + Cardinality(Slots) ELSE handled)'
      BY <2>2
    <3> QED
      BY <2>3, <3>1 DEF SumTo
  <2>5. PICK m : m = nfiles /\ m = nfiles'
    BY <1>4
  <2>6. SumTo(nfiles)' = SumTo(nfiles)
    <3>1. SumTo(m)' = SumTo(m)
      BY <1>4
    <3> QED
      BY <2>5, <3>1 DEF SumTo
  <2> QED
    BY <1>1, <1>5, <2>1, <2>4, <2>6 DEF TotalsRight
<1> QED
  BY <1>2, <1>3, <1>6 DEF UIInv

\* Which slots a round asks for, and what they stand for.
LEMMA AskedFor ==
  ASSUME UIInv
  PROVE  /\ ToAsk \subseteq Slots /\ IsFiniteSet(ToAsk) /\ Cardinality(ToAsk) \in Nat
         /\ Slots \subseteq Nat \ {0}
         /\ \A k \in Slots : handled + k \in 1 .. nfiles /\ handled + k # -1
         /\ round = "open" => ToAsk = Slots
         /\ round # "open" =>
              /\ \A k \in Slots : fds[k] = IF sizes[handled + k] = -1 THEN -1 ELSE handled + k
              /\ ToAsk = {k \in Slots : sizes[handled + k] # -1}
              /\ \A k \in ToAsk : fds[k] = handled + k
         /\ \A k \in ToAsk : Result(k) \in Int
<1>1. PICK c \in Nat : Slots = 1 .. c /\ handled \in Nat /\ nfiles \in Nat /\ handled + c <= nfiles
                       /\ IsFiniteSet(Slots)
  BY SlotsAre DEF UIInv
<1>2. ToAsk \subseteq Slots
  BY DEF ToAsk
<1>3. IsFiniteSet(ToAsk) /\ Cardinality(ToAsk) \in Nat
  BY <1>1, <1>2, FS_Subset, FS_CardinalityType
<1>4. Slots \subseteq Nat \ {0} /\ \A k \in Slots : handled + k \in 1 .. nfiles /\ handled + k # -1
  BY <1>1
<1>5. round # "open" =>
         /\ \A k \in Slots : fds[k] = IF sizes[handled + k] = -1 THEN -1 ELSE handled + k
         /\ ToAsk = {k \in Slots : sizes[handled + k] # -1}
         /\ \A k \in ToAsk : fds[k] = handled + k
  <2> SUFFICES ASSUME round # "open"
               PROVE  /\ \A k \in Slots : fds[k] = IF sizes[handled + k] = -1 THEN -1 ELSE handled + k
                      /\ ToAsk = {k \in Slots : sizes[handled + k] # -1}
                      /\ \A k \in ToAsk : fds[k] = handled + k
    OBVIOUS
  <2>1. \A k \in Slots : fds[k] = IF sizes[handled + k] = -1 THEN -1 ELSE handled + k
    BY DEF UIInv, DescriptorsRight
  <2>2. \A k \in Slots : fds[k] # -1 <=> sizes[handled + k] # -1
    BY <1>4, <2>1
  <2> QED
    BY <2>1, <2>2 DEF ToAsk
<1>6. ASSUME NEW k \in ToAsk PROVE Result(k) \in Int
  <2>1. handled + k \in 1 .. nfiles /\ handled + k \in Int
    BY <1>1, <1>2, <1>4
  <2>2. ReadResult(handled + k) \in Int
    BY <2>1, ReadsAre DEF UIInv
  <2>3. CASE round = "open"
    BY <2>1, <2>3 DEF Result
  <2>4. CASE round # "open"
    <3>1. fds[k] = handled + k
      BY <1>5, <2>4
    <3> QED
      BY <2>2, <2>4, <3>1 DEF Result, UIInv, UTypeOK
  <2> QED
    BY <2>3, <2>4
<1>7. round = "open" => ToAsk = Slots
  BY DEF ToAsk
<1> QED
  BY <1>2, <1>3, <1>4, <1>5, <1>6, <1>7

\* The totals of the passes that are over stay right while another is made.
LEMMA TotalsKept ==
  ASSUME TotalsRight, UNCHANGED <<sizes, passes, sync_total, uring_total>>, NEW n,
         n = (IF round' = "close" THEN handled' + Cardinality(Slots') ELSE handled'),
         total' = SumTo(n)
  PROVE  TotalsRight'
<1>1. total' = SumTo(IF round = "close" THEN handled + Cardinality(Slots) ELSE handled)'
  <2>1. total' = SumTo(n)'
    BY SumsStay
  <2>2. n = (IF round = "close" THEN handled + Cardinality(Slots) ELSE handled)'
    OBVIOUS
  <2> QED
    BY <2>1, <2>2 DEF SumTo
<1>2. SumTo(nfiles)' = SumTo(nfiles)
  <2>1. PICK m : m = nfiles /\ m = nfiles'
    BY SumsStay
  <2>2. SumTo(m)' = SumTo(m)
    BY SumsStay
  <2> QED
    BY <2>1, <2>2 DEF SumTo
<1> QED
  BY <1>1, <1>2 DEF TotalsRight

\* Asking for something.
LEMMA AskStep ==
  ASSUME UIInv, Submit, ToAsk # {}
  PROVE  UIInv'
<1>1. /\ handled < nfiles /\ waiting = 0
      /\ asked' = ToAsk /\ waiting' = Cardinality(ToAsk)
      /\ UNCHANGED <<round, handled, sizes, passes, fds, cq, total, sync_total, uring_total, opened>>
  BY DEF Submit
<1>2. /\ Slots' = Slots /\ ToAsk' = ToAsk /\ nfiles' = nfiles
      /\ (\A k : Result(k)' = Result(k)) /\ \A k : Answered(k)' <=> Answered(k)
  BY <1>1 DEF Slots, ToAsk, nfiles, Result, ReadResult, Answered
<1>3. cq = <<>> /\ DOMAIN <<>> = {}
  BY <1>1 DEF UIInv, RingExact
<1>4. waiting' \in Nat /\ waiting' # 0
  BY <1>1, AskedFor, FS_EmptySet
<1>5. UTypeOK'
  BY <1>1, <1>2, <1>4 DEF UIInv, UTypeOK
<1>6. RingExact'
  BY <1>1, <1>2, <1>3, <1>4 DEF RingExact
<1>7. DescriptorsRight'
  BY <1>1, <1>2 DEF UIInv, DescriptorsRight
<1>8. TotalsRight'
  <2>1. PICK n : /\ n = (IF round = "close" THEN handled + Cardinality(Slots) ELSE handled)
                 /\ n = (IF round' = "close" THEN handled' + Cardinality(Slots') ELSE handled')
    BY <1>1, <1>2
  <2>2. TotalsRight
    BY DEF UIInv
  <2>3. total' = SumTo(n)
    BY <1>1, <2>1, <2>2 DEF TotalsRight
  <2> QED
    BY <1>1, <2>1, <2>2, <2>3, TotalsKept
<1> QED
  BY <1>5, <1>6, <1>7, <1>8 DEF UIInv

\* The files of a batch none of which could be opened add nothing.
LEMMA NothingRead ==
  ASSUME UTypeOK, NEW c \in Nat, handled + c <= nfiles,
         \A k \in 1 .. c : sizes[handled + k] = -1
  PROVE  SumTo(handled + c) = SumTo(handled)
<1> DEFINE r == [f \in 1 .. handled + c |-> ReadResult(f)]
           a == [f \in 1 .. handled |-> ReadResult(f)]
           b == [f \in 1 .. 0 |-> 0]
<1>1. handled \in Nat /\ nfiles \in Nat /\ handled \in 0 .. nfiles /\ handled + c \in 0 .. nfiles
  BY SlotsAre
<1>2. r \in Results(handled + c) /\ a \in Results(handled) /\ SumTo(handled) \in Nat
  BY <1>1, ReadsAre
<1>3. b \in Results(0) /\ PositiveSum(b) = 0
  <2>1. b \in Results(0) /\ \A i \in 1 .. 0 : b[i] <= 0
    BY DEF Results
  <2> HIDE DEF b
  <2> QED
    BY <2>1, SumNone
<1>4. \A k \in 1 .. c : r[handled + k] <= 0
  <2> SUFFICES ASSUME NEW k \in 1 .. c PROVE r[handled + k] <= 0
    OBVIOUS
  <2>1. handled + k \in 1 .. handled + c /\ handled + k \in 1 .. nfiles
    BY <1>1
  <2> QED
    BY <2>1, ReadsAre
<1>5. \E g : Picks(g, b, r, handled, c, 0)
  <2> DEFINE g == [i \in 1 .. 0 |-> 1]
  <2>1. g \in [1 .. 0 -> 1 .. c]
    OBVIOUS
  <2> HIDE DEF g, r, b
  <2>2. Picks(g, b, r, handled, c, 0)
    BY <1>4, <2>1 DEF Picks
  <2> QED
    BY <2>2
<1>6. \A i \in 1 .. handled : a[i] = r[i]
  BY <1>1
<1> HIDE DEF a, b, r
<1>7. PositiveSum(r) = PositiveSum(a) + PositiveSum(b)
  BY <1>1, <1>2, <1>3, <1>5, <1>6, SumSplit
<1> QED
  BY <1>2, <1>3, <1>7 DEF SumTo, a, r

\* A round is left out if there is nothing to ask for.
LEMMA SkipStep ==
  ASSUME UIInv, Submit, ToAsk = {}
  PROVE  UIInv'
<1>1. /\ handled < nfiles /\ waiting = 0 /\ NextRound
      /\ UNCHANGED <<asked, waiting, sizes, passes, fds, cq, total, sync_total, uring_total, opened>>
  BY DEF Submit
<1>2. UTypeOK /\ TotalsRight /\ asked = {} /\ cq = <<>> /\ DOMAIN <<>> = {}
  BY <1>1 DEF UIInv, RingExact
<1>3. PICK c \in Nat : /\ Slots = 1 .. c /\ Cardinality(Slots) = c /\ c >= 1
                       /\ handled \in Nat /\ nfiles \in Nat /\ handled + c <= nfiles
  BY <1>1, <1>2, SlotsAre
<1>4. round \in {"read", "close"}
  <2>1. Slots # {}
    BY <1>3
  <2> QED
    BY <1>2, <2>1, AskedFor DEF UTypeOK
<1>5. \A k \in Slots : sizes[handled + k] = -1
  BY <1>4, AskedFor
<1>6. opened = {}
  BY <1>5 DEF UIInv, DescriptorsRight
<1>7. (\A k : ~ Answered(k)') /\ nfiles' = nfiles
  BY <1>1, <1>2, SumsStay DEF Answered
<1>8. RingExact'
  BY <1>1, <1>2 DEF RingExact
<1>9. CASE round = "read"
  <2>1. round' = "close" /\ handled' = handled
    BY <1>1, <1>9 DEF NextRound, After
  <2>2. Slots' = Slots
    BY <1>1, <2>1, <1>7 DEF Slots
  <2>3. UTypeOK'
    BY <1>1, <1>2, <1>7, <2>1 DEF UTypeOK
  <2>4. DescriptorsRight'
    <3>1. fds = [k \in Slots |-> IF sizes[handled + k] = -1 THEN -1 ELSE handled + k]
      BY <1>9 DEF UIInv, DescriptorsRight
    <3>2. {handled + k : k \in {l \in Slots : sizes[handled + l] # -1}} = {}
      BY <1>5
    <3>3. opened' = {handled' + k : k \in {l \in Slots' :
              /\ sizes'[handled' + l] # -1
              /\ round' = "open" => Answered(l)'
              /\ round' = "close" => ~ Answered(l)'}}
      BY <1>1, <1>5, <1>6, <2>1, <2>2
    <3>4. fds' = [k \in Slots' |-> IF sizes'[handled' + k] = -1 THEN -1 ELSE handled' + k]
      BY <1>1, <2>1, <2>2, <3>1
    <3> QED
      BY <3>3, <3>4 DEF DescriptorsRight
  <2>5. TotalsRight'
    <3>1. PICK n : n = handled + c
      OBVIOUS
    <3>2. total = SumTo(handled) /\ SumTo(handled + c) = SumTo(handled)
      BY <1>2, <1>3, <1>5, <1>9, NothingRead DEF TotalsRight
    <3>3. n = (IF round' = "close" THEN handled' + Cardinality(Slots') ELSE handled')
      BY <1>3, <2>1, <2>2, <3>1
    <3>4. total' = SumTo(n)
      BY <1>1, <3>1, <3>2
    <3> QED
      BY <1>1, <1>2, <3>3, <3>4, TotalsKept
  <2> QED
    BY <1>8, <2>3, <2>4, <2>5 DEF UIInv
<1>10. CASE round = "close"
  <2>1. round' = "open" /\ handled' = handled + c
    BY <1>1, <1>3, <1>10 DEF NextRound, After
  <2>2. UTypeOK'
    BY <1>1, <1>2, <1>3, <1>7, <2>1 DEF UTypeOK
  <2>3. DescriptorsRight'
    <3>1. opened' = {handled' + k : k \in {l \in Slots' :
              /\ sizes'[handled' + l] # -1
              /\ round' = "open" => Answered(l)'
              /\ round' = "close" => ~ Answered(l)'}}
      BY <1>1, <1>6, <1>7, <2>1
    <3> QED
      BY <2>1, <3>1 DEF DescriptorsRight
  <2>4. TotalsRight'
    <3>1. PICK n : n = handled + c
      OBVIOUS
    <3>2. total' = SumTo(n)
      BY <1>1, <1>2, <1>3, <1>10, <3>1 DEF TotalsRight
    <3>3. n = (IF round' = "close" THEN handled' + Cardinality(Slots') ELSE handled')
      BY <2>1, <3>1
    <3> QED
      BY <1>1, <1>2, <3>2, <3>3, TotalsKept
  <2> QED
    BY <1>8, <2>2, <2>3, <2>4 DEF UIInv
<1> QED
  BY <1>4, <1>9, <1>10

\* The kernel answers one request.
LEMMA AnswerStep ==
  ASSUME UIInv, NEW k, Answer(k)
  PROVE  UIInv'
<1> DEFINE e == [slot |-> k, res |-> Result(k)]
           n == Len(cq)
<1>1. /\ k \in asked /\ asked' = asked \ {k} /\ cq' = Append(cq, e)
      /\ UNCHANGED <<passes, round, handled, sizes, fds, waiting, total, sync_total, uring_total>>
  BY DEF Answer
<1>2. UTypeOK /\ TotalsRight /\ waiting # 0 /\ asked \subseteq ToAsk /\ k \in ToAsk /\ k \in Slots
  BY <1>1, AskedFor DEF UIInv, RingExact
<1>3. e \in [slot : Nat, res : Int] /\ e.slot = k /\ e.res = Result(k)
  BY <1>2, AskedFor
<1> HIDE DEF e
<1>4. /\ n \in Nat /\ DOMAIN cq = 1 .. n /\ cq' \in Seq([slot : Nat, res : Int])
      /\ DOMAIN cq' = 1 .. n + 1 /\ cq'[n + 1] = e /\ \A i \in 1 .. n : cq'[i] = cq[i]
  BY <1>1, <1>2, <1>3, AppendProperties, LenProperties DEF UTypeOK
<1> HIDE DEF n
<1>5. /\ Slots' = Slots /\ ToAsk' = ToAsk /\ nfiles' = nfiles /\ \A l : Result(l)' = Result(l)
  BY <1>1 DEF Slots, ToAsk, nfiles, Result, ReadResult
<1>6. \A l : Answered(l)' <=> Answered(l) \/ l = k
  <2> SUFFICES ASSUME NEW l PROVE Answered(l)' <=> Answered(l) \/ l = k
    OBVIOUS
  <2>1. Answered(l)' <=> \E i \in 1 .. n + 1 : cq'[i].slot = l
    BY <1>4 DEF Answered
  <2>2. Answered(l) <=> \E i \in 1 .. n : cq[i].slot = l
    BY <1>4 DEF Answered
  <2>3. ASSUME NEW i \in 1 .. n PROVE i \in 1 .. n + 1 /\ cq'[i].slot = cq[i].slot
    BY <1>4
  <2>4. n + 1 \in 1 .. n + 1 /\ cq'[n + 1].slot = k /\ \A i \in 1 .. n + 1 : i = n + 1 \/ i \in 1 .. n
    BY <1>3, <1>4
  <2> QED
    BY <2>1, <2>2, <2>3, <2>4
<1>7. UTypeOK'
  BY <1>1, <1>2, <1>4, <1>5 DEF UTypeOK
<1>8. RingExact'
  <2>1. /\ handled < nfiles /\ waiting = Cardinality(ToAsk)
        /\ \A l \in ToAsk : l \in asked \/ Answered(l)
    BY <1>2 DEF UIInv, RingExact
  <2>2. \A i \in 1 .. n : /\ cq[i].slot \in ToAsk \ asked /\ cq[i].res = Result(cq[i].slot)
                          /\ \A j \in 1 .. n : cq[i].slot = cq[j].slot => i = j
    BY <1>4 DEF UIInv, RingExact
  <2>3. ASSUME NEW i \in 1 .. n + 1
        PROVE  /\ cq'[i].slot \in ToAsk \ asked' /\ cq'[i].res = Result(cq'[i].slot)
               /\ \A j \in 1 .. n + 1 : cq'[i].slot = cq'[j].slot => i = j
    <3>1. \A j \in 1 .. n + 1 : j = n + 1 \/ (j # n + 1 /\ j \in 1 .. n)
      BY <1>4
    <3>2. CASE i = n + 1
      <4>1. cq'[i].slot = k /\ cq'[i].res = Result(k)
        BY <1>3, <1>4, <3>2
      <4>2. \A j \in 1 .. n : cq'[j].slot # k
        BY <1>1, <1>4, <2>2
      <4> QED
        BY <1>1, <1>2, <3>1, <3>2, <4>1, <4>2
    <3>3. CASE i \in 1 .. n
      <4>1. cq'[i] = cq[i] /\ cq[i].slot # k
        BY <1>1, <1>4, <2>2, <3>3
      <4>2. cq'[n + 1].slot = k /\ \A j \in 1 .. n : cq'[j] = cq[j]
        BY <1>3, <1>4
      <4> QED
        BY <1>1, <2>2, <3>1, <3>3, <4>1, <4>2
    <3> QED
      BY <3>1, <3>2, <3>3
  <2>4. \A l \in ToAsk : l \in asked' \/ Answered(l)'
    BY <1>1, <1>6, <2>1
  <2>5. \A i \in DOMAIN cq' :
          /\ cq'[i].slot \in ToAsk' \ asked' /\ cq'[i].res = Result(cq'[i].slot)
          /\ \A j \in DOMAIN cq' : cq'[i].slot = cq'[j].slot => i = j
    BY <1>4, <1>5, <2>3
  <2>6. \A i \in DOMAIN cq' : cq'[i].res = Result(cq[i].slot)'
    <3> SUFFICES ASSUME NEW i \in DOMAIN cq' PROVE cq'[i].res = Result(cq[i].slot)'
      OBVIOUS
    <3>1. PICK l : l = cq'[i].slot
      OBVIOUS
    <3>2. cq'[i].res = Result(l)'
      BY <1>5, <2>5, <3>1
    <3> QED
      BY <3>1, <3>2 DEF Result, ReadResult
  <2> QED
    BY <1>1, <1>2, <1>5, <2>1, <2>4, <2>5, <2>6 DEF RingExact
<1>9. DescriptorsRight'
  <2>1. round # "open" => fds = [l \in Slots |-> IF sizes[handled + l] = -1 THEN -1 ELSE handled + l]
    BY DEF UIInv, DescriptorsRight
  <2> DEFINE Prior == {handled + l : l \in {m \in Slots :
                          /\ sizes[handled + m] # -1
                          /\ round = "open" => Answered(m)
                          /\ round = "close" => ~ Answered(m)}}
             Now == {handled + l : l \in {m \in Slots :
                          /\ sizes[handled + m] # -1
                          /\ round = "open" => Answered(m) \/ m = k
                          /\ round = "close" => ~ (Answered(m) \/ m = k)}}
  <2>2. opened = Prior
    BY DEF UIInv, DescriptorsRight
  <2>3. handled \in Nat /\ handled + k # -1 /\ Slots \subseteq Nat
    BY <1>2, SlotsAre, AskedFor
  <2>4. CASE round = "open"
    <3>1. Result(k) = IF sizes[handled + k] = -1 THEN -1 ELSE handled + k
      BY <2>4 DEF Result
    <3>2. opened' = opened \cup ({Result(k)} \ {-1})
      BY <2>4 DEF Answer
    <3>3. Now = Prior \cup (IF sizes[handled + k] = -1 THEN {} ELSE {handled + k})
      BY <1>2, <2>4
    <3>4. {Result(k)} \ {-1} = IF sizes[handled + k] = -1 THEN {} ELSE {handled + k}
      BY <2>3, <3>1
    <3> QED
      BY <1>1, <1>5, <1>6, <2>2, <2>4, <3>2, <3>3, <3>4, ZenonT(30) DEF DescriptorsRight
  <2>5. CASE round = "read"
    <3>1. opened' = opened /\ Now = Prior
      BY <2>5 DEF Answer
    <3> QED
      BY <1>1, <1>5, <1>6, <2>1, <2>2, <2>5, <3>1 DEF DescriptorsRight
  <2>6. CASE round = "close"
    <3>1. fds[k] = handled + k
      BY <1>2, <2>6, AskedFor
    <3>2. opened' = opened \ {handled + k}
      BY <2>6, <3>1 DEF Answer
    <3>3. \A l \in Slots : handled + l = handled + k => l = k
      BY <1>2, <2>3
    <3>4. Now = Prior \ {handled + k}
      BY <2>6, <3>3
    <3> QED
      BY <1>1, <1>5, <1>6, <2>1, <2>2, <2>6, <3>2, <3>4 DEF DescriptorsRight
  <2> QED
    BY <1>2, <2>4, <2>5, <2>6 DEF UTypeOK
<1>10. TotalsRight'
  <2>1. PICK m : /\ m = (IF round = "close" THEN handled + Cardinality(Slots) ELSE handled)
                 /\ m = (IF round' = "close" THEN handled' + Cardinality(Slots') ELSE handled')
    BY <1>1, <1>5
  <2>2. total' = SumTo(m)
    BY <1>1, <1>2, <2>1 DEF TotalsRight
  <2> QED
    BY <1>1, <1>2, <2>1, <2>2, TotalsKept
<1> QED
  BY <1>7, <1>8, <1>9, <1>10 DEF UIInv

\* When as many completions are in as are waited for, every request is answered.
LEMMA AllAnswered ==
  ASSUME UIInv, waiting > 0, Len(cq) >= waiting
  PROVE  asked = {} /\ handled < nfiles /\ \A k \in ToAsk : Answered(k)
<1> DEFINE n == Len(cq)
           f == [i \in 1 .. n |-> cq[i].slot]
<1>1. /\ n \in Nat /\ DOMAIN cq = 1 .. n /\ waiting \in Nat /\ waiting # 0
      /\ handled < nfiles /\ waiting = Cardinality(ToAsk) /\ asked \subseteq ToAsk
      /\ \A k \in ToAsk : k \in asked \/ Answered(k)
  <2>1. n \in Nat /\ DOMAIN cq = 1 .. n /\ waiting \in Nat
    BY LenProperties DEF UIInv, UTypeOK
  <2>2. waiting # 0
    BY <2>1
  <2> QED
    BY <2>1, <2>2 DEF UIInv, RingExact
<1>2. f \in Injection(1 .. n, ToAsk \ asked)
  <2>1. \A i \in 1 .. n : cq[i].slot \in ToAsk \ asked
                          /\ \A j \in 1 .. n : cq[i].slot = cq[j].slot => i = j
    BY <1>1 DEF UIInv, RingExact
  <2> QED
    BY <2>1 DEF Injection, IsInjective
<1>3. /\ IsFiniteSet(ToAsk) /\ IsFiniteSet(ToAsk \ asked) /\ Cardinality(ToAsk \ asked) \in Nat
      /\ Cardinality(ToAsk \ asked) <= Cardinality(ToAsk)
      /\ Cardinality(ToAsk) = Cardinality(ToAsk \ asked) => ToAsk = ToAsk \ asked
  <2>1. IsFiniteSet(ToAsk)
    BY AskedFor
  <2>2. ToAsk \ asked \in SUBSET ToAsk
    OBVIOUS
  <2> QED
    BY <2>1, <2>2, FS_Subset, FS_CardinalityType
<1>4. Cardinality(1 .. n) = n /\ Cardinality(1 .. n) <= Cardinality(ToAsk \ asked)
  <2>1. Cardinality(1 .. n) = n
    <3>1. n \in Int /\ 1 \in Int
      BY <1>1
    <3> HIDE DEF n
    <3>2. Cardinality(1 .. n) = IF 1 > n THEN 0 ELSE n - 1 + 1
      BY <3>1, FS_Interval
    <3> QED
      BY <1>1, <3>2
  <2> HIDE DEF f
  <2> QED
    BY <1>2, <1>3, <2>1, FS_Injection
<1>5. ToAsk = ToAsk \ asked
  BY <1>1, <1>3, <1>4
<1> QED
  BY <1>1, <1>5

\* Each pass starts at its first file again.
LEMMA EndPassStep ==
  ASSUME UIInv, EndUringPass
  PROVE  UIInv'
<1>1. /\ UTypeOK /\ TotalsRight /\ passes # <<>> /\ Head(passes) = "uring" /\ handled >= nfiles
      /\ uring_total' = total /\ handled' = 0 /\ total' = 0 /\ passes' = Tail(passes)
      /\ UNCHANGED <<sizes, round, asked, fds, cq, waiting, sync_total, opened>>
  BY DEF UIInv, EndUringPass, Making
<1>2. handled = nfiles /\ nfiles \in Nat /\ round = "open" /\ Slots = {} /\ nfiles' = nfiles
  <2>1. handled = nfiles /\ nfiles \in Nat
    BY <1>1, SlotsAre
  <2>2. round = "open"
    BY <1>1, <2>1 DEF UTypeOK
  <2>3. Slots = {}
    BY <1>1, SlotsAre
  <2> QED
    BY <1>1, <2>1, <2>2, <2>3, SumsStay
<1>3. waiting = 0 /\ asked = {} /\ cq = <<>> /\ DOMAIN <<>> = {}
  BY <1>2 DEF UIInv, RingExact
<1>4. opened = {}
  BY <1>2 DEF UIInv, DescriptorsRight
<1>5. UTypeOK'
  <2>1. handled' \in 0 .. nfiles'
    BY <1>1, <1>2
  <2> QED
    BY <1>1, <1>2, <2>1, PassesLeft DEF UTypeOK
<1>6. RingExact'
  BY <1>1, <1>3 DEF RingExact
<1>7. DescriptorsRight'
  <2>1. \A l : ~ Answered(l)'
    BY <1>1, <1>3 DEF Answered
  <2> QED
    BY <1>1, <1>2, <1>4, <2>1 DEF DescriptorsRight
<1>8. TotalsRight'
  <2>1. total = SumTo(nfiles) /\ SumTo(0) = 0
    BY <1>1, <1>2, ReadsAre DEF TotalsRight
  <2>2. SumTo(nfiles)' = SumTo(nfiles)
    <3>1. PICK m : m = nfiles /\ m = nfiles'
      BY <1>2
    <3>2. SumTo(m)' = SumTo(m)
      BY <1>1, SumsStay
    <3> QED
      BY <3>1, <3>2 DEF SumTo
  <2>3. total' = SumTo(IF round = "close" THEN handled + Cardinality(Slots) ELSE handled)'
    <3>1. SumTo(0)' = SumTo(0)
      BY <1>1, SumsStay
    <3> QED
      BY <1>1, <1>2, <2>1, <3>1 DEF SumTo
  <2>4. sync_total = SumTo(nfiles) \/ \E i \in DOMAIN passes' : passes'[i] = "sync"
    <3>1. Head(passes) # "sync"
      BY <1>1
    <3>2. sync_total = SumTo(nfiles) \/ \E i \in DOMAIN passes : passes[i] = "sync"
      BY <1>1 DEF TotalsRight
    <3> QED
      BY <1>1, <3>1, <3>2, PassesLeft
  <2> QED
    BY <1>1, <2>1, <2>2, <2>3, <2>4 DEF TotalsRight
<1> QED
  BY <1>5, <1>6, <1>7, <1>8 DEF UIInv

\* The completions of a round of reads bring what a pass reads of the batch.
LEMMA BatchRead ==
  ASSUME UIInv, round = "read", \A k \in ToAsk : Answered(k), NEW c \in Nat, Slots = 1 .. c,
         handled + c <= nfiles
  PROVE  SumTo(handled + c) = SumTo(handled) + PositiveSum([i \in DOMAIN cq |-> cq[i].res])
<1> DEFINE r == [f \in 1 .. handled + c |-> ReadResult(f)]
           a == [f \in 1 .. handled |-> ReadResult(f)]
           b == [i \in DOMAIN cq |-> cq[i].res]
           m == Len(cq)
           g == [i \in 1 .. m |-> cq[i].slot]
<1>1. /\ handled \in Nat /\ nfiles \in Nat /\ handled \in 0 .. nfiles /\ handled + c \in 0 .. nfiles
      /\ UTypeOK
  BY SlotsAre DEF UIInv
<1>2. r \in Results(handled + c) /\ a \in Results(handled)
  BY <1>1, ReadsAre
<1>3. m \in Nat /\ DOMAIN cq = 1 .. m /\ \A i \in 1 .. m : cq[i].slot \in Nat /\ cq[i].res \in Int
  <2>1. m \in Nat /\ DOMAIN cq = 1 .. m
    BY <1>1, LenProperties DEF UTypeOK
  <2>2. \A i \in 1 .. m : cq[i] \in [slot : Nat, res : Int]
    BY <1>1, ElementOfSeq DEF UTypeOK
  <2> QED
    BY <2>1, <2>2
<1>4. b \in Results(m)
  BY <1>3 DEF Results
<1>5. \A i \in 1 .. m : /\ cq[i].slot \in ToAsk /\ cq[i].res = Result(cq[i].slot)
                        /\ \A j \in 1 .. m : cq[i].slot = cq[j].slot => i = j
  BY <1>3 DEF UIInv, RingExact
<1>6. /\ ToAsk \subseteq 1 .. c
      /\ \A k \in ToAsk : fds[k] = handled + k
      /\ \A k \in 1 .. c : k \notin ToAsk => sizes[handled + k] = -1
      /\ \A k \in 1 .. c : handled + k \in 1 .. nfiles /\ handled + k \in 1 .. handled + c
  <2>1. \A k \in 1 .. c : handled + k \in 1 .. nfiles /\ handled + k \in 1 .. handled + c
    BY <1>1
  <2> QED
    BY <2>1, AskedFor
<1>7. Picks(g, b, r, handled, c, m)
  <2>1. g \in [1 .. m -> 1 .. c]
    BY <1>5, <1>6
  <2>2. \A i, j \in 1 .. m : g[i] = g[j] => i = j
    BY <1>5
  <2>3. ASSUME NEW i \in 1 .. m PROVE b[i] = r[handled + g[i]]
    <3>1. PICK k \in ToAsk : k = cq[i].slot /\ cq[i].res = Result(k)
      BY <1>5
    <3>2. Result(k) = ReadResult(handled + k)
      BY <1>6 DEF Result
    <3>3. r[handled + k] = ReadResult(handled + k)
      BY <1>6
    <3> QED
      BY <1>3, <3>1, <3>2, <3>3
  <2>4. ASSUME NEW k \in 1 .. c PROVE (\E i \in 1 .. m : g[i] = k) \/ r[handled + k] <= 0
    <3>1. CASE k \in ToAsk
      <4>1. PICK i \in 1 .. m : cq[i].slot = k
        BY <1>3, <3>1 DEF Answered
      <4> QED
        BY <4>1
    <3>2. CASE k \notin ToAsk
      <4>1. sizes[handled + k] = -1 /\ r[handled + k] = ReadResult(handled + k)
        BY <1>6, <3>2
      <4> QED
        BY <1>1, <1>6, <4>1, ReadsAre
    <3> QED
      BY <3>1, <3>2
  <2> HIDE DEF g, b, r, m
  <2> QED
    BY <2>1, <2>2, <2>3, <2>4 DEF Picks
<1>8. \A i \in 1 .. handled : a[i] = r[i]
  BY <1>1
<1> HIDE DEF a, b, r, g, m
<1>9. PositiveSum(r) = PositiveSum(a) + PositiveSum(b)
  BY <1>1, <1>2, <1>3, <1>4, <1>7, <1>8, SumSplit
<1> QED
  BY <1>9 DEF SumTo, a, r, b

\* Taking the completions of a round.
LEMMA ReapStep ==
  ASSUME UIInv, Reap
  PROVE  UIInv'
<1>1. /\ asked = {} /\ handled < nfiles /\ \A k \in ToAsk : Answered(k)
  BY AllAnswered DEF Reap
<1>2. /\ NextRound /\ cq' = <<>> /\ waiting' = 0
      /\ fds' = IF round = "open" THEN [k \in Slots |-> ResultIn(k)] ELSE fds
      /\ total' = IF round = "read" THEN total + PositiveSum([i \in DOMAIN cq |-> cq[i].res]) ELSE total
      /\ UNCHANGED <<sizes, passes, asked, sync_total, uring_total, opened>>
  BY DEF Reap, Reaped
<1>3. UTypeOK /\ TotalsRight /\ DOMAIN <<>> = {} /\ round \in {"open", "read", "close"}
      /\ <<>> \in Seq([slot : Nat, res : Int])
  BY EmptySeq DEF UIInv, UTypeOK
<1>4. PICK c \in Nat : /\ Slots = 1 .. c /\ Cardinality(Slots) = c /\ c >= 1
                       /\ handled \in Nat /\ nfiles \in Nat /\ handled + c <= nfiles
  BY <1>1, <1>3, SlotsAre
<1>5. (\A k : ~ Answered(k)') /\ nfiles' = nfiles
  BY <1>2, <1>3, SumsStay DEF Answered
<1>6. RingExact'
  BY <1>1, <1>2, <1>3 DEF RingExact
<1>7. CASE round \in {"open", "read"}
  <2>1. round' = After(round) /\ handled' = handled /\ Slots' = Slots
    <3>1. round' = After(round) /\ handled' = handled
      BY <1>2, <1>7 DEF NextRound
    <3> QED
      BY <1>5, <3>1 DEF Slots
  <2>2. (round = "open" => round' = "read") /\ (round = "read" => round' = "close")
    BY <2>1 DEF After
  <2>3. UTypeOK'
    BY <1>1, <1>2, <1>3, <1>5, <1>7, <2>1, <2>2 DEF UTypeOK
  <2>4. fds' = [k \in Slots |-> IF sizes[handled + k] = -1 THEN -1 ELSE handled + k]
    <3>1. CASE round = "open"
      <4>1. ASSUME NEW k \in Slots
            PROVE  ResultIn(k) = IF sizes[handled + k] = -1 THEN -1 ELSE handled + k
        <5> DEFINE its == {e \in ToSet(cq) : e.slot = k}
        <5>1. k \in ToAsk
          BY <3>1, AskedFor
        <5>2. PICK i \in DOMAIN cq : cq[i].slot = k
          BY <1>1, <5>1 DEF Answered
        <5>3. its # {}
          BY <5>2 DEF ToSet
        <5>4. \A e \in its : e.res = Result(k)
          BY DEF ToSet, UIInv, RingExact
        <5>5. ResultIn(k) = Result(k)
          BY <5>3, <5>4 DEF ResultIn
        <5> QED
          BY <3>1, <5>5 DEF Result
      <4> QED
        BY <1>2, <3>1, <4>1
    <3>2. CASE round = "read"
      BY <1>2, <3>2 DEF UIInv, DescriptorsRight
    <3> QED
      BY <1>7, <3>1, <3>2
  <2>5. DescriptorsRight'
    <3> DEFINE Still == {handled + k : k \in {l \in Slots : sizes[handled + l] # -1}}
    <3>1. opened = Still
      <4>1. CASE round = "open"
        <5>1. \A l \in Slots : Answered(l)
          BY <1>1, <4>1, AskedFor
        <5> QED
          BY <4>1, <5>1 DEF UIInv, DescriptorsRight
      <4>2. CASE round = "read"
        BY <4>2 DEF UIInv, DescriptorsRight
      <4> QED
        BY <1>7, <4>1, <4>2
    <3>2. opened' = {handled' + k : k \in {l \in Slots' :
              /\ sizes'[handled' + l] # -1
              /\ round' = "open" => Answered(l)'
              /\ round' = "close" => ~ Answered(l)'}}
      BY <1>2, <1>5, <1>7, <2>1, <2>2, <3>1
    <3>3. fds' = [k \in Slots' |-> IF sizes'[handled' + k] = -1 THEN -1 ELSE handled' + k]
      BY <1>2, <2>1, <2>4
    <3> QED
      BY <3>2, <3>3 DEF DescriptorsRight
  <2>6. TotalsRight'
    <3>1. PICK n : n = IF round = "read" THEN handled + c ELSE handled
      OBVIOUS
    <3>2. n = (IF round' = "close" THEN handled' + Cardinality(Slots') ELSE handled')
      BY <1>4, <1>7, <2>1, <2>2, <3>1
    <3>3. total = SumTo(handled)
      BY <1>3, <1>7 DEF TotalsRight
    <3>4. total' = SumTo(n)
      <4>1. CASE round = "read"
        BY <1>1, <1>2, <1>4, <3>1, <3>3, <4>1, BatchRead
      <4>2. CASE round = "open"
        BY <1>2, <3>1, <3>3, <4>2
      <4> QED
        BY <1>7, <4>1, <4>2
    <3> QED
      BY <1>2, <1>3, <3>2, <3>4, TotalsKept
  <2> QED
    BY <1>6, <2>3, <2>5, <2>6 DEF UIInv
<1>8. CASE round = "close"
  <2>1. round' = "open" /\ handled' = handled + c
    BY <1>2, <1>4, <1>8 DEF NextRound, After
  <2>2. UTypeOK'
    BY <1>2, <1>3, <1>4, <1>5, <2>1 DEF UTypeOK
  <2>3. opened = {}
    <3>1. \A l \in Slots : sizes[handled + l] # -1 => Answered(l)
      BY <1>1, <1>8, AskedFor
    <3> QED
      BY <1>8, <3>1 DEF UIInv, DescriptorsRight
  <2>4. DescriptorsRight'
    <3>1. opened' = {handled' + k : k \in {l \in Slots' :
              /\ sizes'[handled' + l] # -1
              /\ round' = "open" => Answered(l)'
              /\ round' = "close" => ~ Answered(l)'}}
      BY <1>2, <1>5, <2>1, <2>3
    <3> QED
      BY <2>1, <3>1 DEF DescriptorsRight
  <2>5. TotalsRight'
    <3>1. PICK n : n = handled + c
      OBVIOUS
    <3>2. total' = SumTo(n)
      BY <1>2, <1>3, <1>4, <1>8, <3>1 DEF TotalsRight
    <3>3. n = (IF round' = "close" THEN handled' + Cardinality(Slots') ELSE handled')
      BY <2>1, <3>1
    <3> QED
      BY <1>2, <1>3, <3>2, <3>3, TotalsKept
  <2> QED
    BY <1>6, <2>2, <2>4, <2>5 DEF UIInv
<1> QED
  BY <1>3, <1>7, <1>8

\* The schedule has passes of both kinds.
LEMMA BothKinds ==
  /\ Schedule \in Seq({"sync", "uring"})
  /\ \E i \in DOMAIN Schedule : Schedule[i] = "sync"
  /\ \E i \in DOMAIN Schedule : Schedule[i] = "uring"
<1> DEFINE S == {"sync", "uring"}
           w == FlattenSeq(Rounds(WARM, <<"sync", "uring">>))
           a == Rounds(ITERS, "sync")
           b == Rounds(ITERS, "uring")
<1>1. w \in Seq(S)
  <2>1. <<"sync", "uring">> \in Seq(S)
    OBVIOUS
  <2> DEFINE p == <<"sync", "uring">>
             ws == Rounds(WARM, p)
  <2> HIDE DEF p
  <2>2. p \in Seq(S)
    BY <2>1 DEF p
  <2>3. ws \in [1 .. WARM -> Seq(S)] /\ WARM \in Nat
    BY <2>2, ProbeAssumption DEF Rounds
  <2>4. ws \in Seq(Seq(S))
    <3> HIDE DEF ws, S
    <3> QED
      BY <2>3
  <2> HIDE DEF ws, S
  <2>5. FlattenSeq(ws) \in Seq(S)
    BY <2>4, FlattenSeqType
  <2> QED
    BY <2>5 DEF ws, p
<1>2. a \in Seq(S) /\ b \in Seq(S) /\ Len(a) = ITERS /\ Len(b) = ITERS /\ 1 \in 1 .. ITERS
      /\ a[1] = "sync" /\ b[1] = "uring" /\ ITERS \in Nat
  <2>1. ITERS \in Nat /\ 1 \in 1 .. ITERS
    BY ProbeAssumption
  <2>2. a \in [1 .. ITERS -> S] /\ b \in [1 .. ITERS -> S] /\ a[1] = "sync" /\ b[1] = "uring"
    BY <2>1 DEF Rounds
  <2> HIDE DEF a, b
  <2> QED
    BY <2>1, <2>2
<1> HIDE DEF S, w, a, b
<1>3. PICK x, y : x = "sync" /\ y = "uring"
  OBVIOUS
<1>4. a \in Seq(S) /\ \E i \in DOMAIN a : a[i] = x
  BY <1>2, <1>3
<1>9. b \in Seq(S) /\ \E i \in DOMAIN b : b[i] = y
  BY <1>2, <1>3
<1> DEFINE wa == w \o a
           sch == wa \o b
<1>5. wa \in Seq(S) /\ \E i \in DOMAIN wa : wa[i] = x
  BY <1>1, <1>4, ConcatEnd
<1> HIDE DEF wa
<1>6. sch \in Seq(S) /\ \E i \in DOMAIN sch : sch[i] = x
  BY <1>2, <1>5, ConcatBegin
<1>7. \E i \in DOMAIN sch : sch[i] = y
  <2>1. wa \in Seq(S)
    BY <1>5
  <2>2. /\ DOMAIN sch = 1 .. Len(wa) + Len(b)
        /\ Len(wa) \in Nat /\ Len(b) \in Nat /\ DOMAIN b = 1 .. Len(b)
    BY <1>6, <1>9, <2>1, ConcatProperties, LenProperties
  <2>3. PICK i \in DOMAIN b : b[i] = y
    BY <1>9
  <2>4. Len(wa) + i \in 1 .. Len(wa) + Len(b) /\ ~ Len(wa) + i <= Len(wa) /\ Len(wa) + i - Len(wa) = i
    BY <2>2
  <2>5. sch[Len(wa) + i] = y
    BY <1>9, <2>1, <2>2, <2>3, <2>4, ConcatProperties
  <2> QED
    BY <2>2, <2>4, <2>5
<1> HIDE DEF sch
<1>8. Schedule = sch
  BY DEF Schedule, w, a, b, wa, sch
<1> QED
  BY <1>3, <1>6, <1>7, <1>8 DEF S

\* The invariant of the probe before and at its start, and that every step keeps it.
LEMMA UStarts ==
  ASSUME UInit
  PROVE  UIInv
<1>1. <<>> \in Seq(Nat \cup {-1}) /\ <<>> \in Seq({"sync", "uring"})
      /\ <<>> \in Seq([slot : Nat, res : Int]) /\ DOMAIN <<>> = {} /\ Len(<<>>) = 0
  BY EmptySeq
<1>2. UTypeOK /\ nfiles = 0 /\ handled = 0
  BY <1>1 DEF UInit, UTypeOK, nfiles
<1>3. Slots = {} /\ SumTo(0) = 0
  BY <1>2, SlotsAre, ReadsAre
<1> QED
  BY <1>1, <1>2, <1>3 DEF UInit, UIInv, RingExact, DescriptorsRight, TotalsRight

LEMMA UScheduled ==
  ASSUME UInit, NEW s \in Seq(Nat \cup {-1}), StartPasses(s)
  PROVE  UIInv'
<1>1. /\ sizes' = s /\ passes' = Schedule /\ round' = "open" /\ handled' = 0 /\ fds' = <<>>
      /\ asked' = {} /\ cq' = <<>> /\ waiting' = 0
      /\ total' = 0 /\ sync_total' = 0 /\ uring_total' = 0 /\ opened' = {}
      /\ <<>> \in Seq([slot : Nat, res : Int]) /\ DOMAIN <<>> = {}
  BY EmptySeq DEF UInit, StartPasses
<1>2. nfiles' = Len(s) /\ Len(s) \in Nat
  BY <1>1, LenProperties DEF nfiles
<1>3. UTypeOK'
  BY <1>1, <1>2, BothKinds DEF UTypeOK
<1>4. RingExact'
  BY <1>1 DEF RingExact
<1>5. DescriptorsRight'
  BY <1>1 DEF DescriptorsRight, Answered
<1>6. TotalsRight'
  <2>1. SumTo(0)' = 0
    <3> DEFINE r == [f \in 1 .. 0 |-> ReadResult(f)']
    <3>1. r \in Results(0) /\ \A i \in 1 .. 0 : r[i] <= 0
      BY DEF Results
    <3> HIDE DEF r
    <3>2. PositiveSum(r) = 0
      BY <3>1, SumNone
    <3> QED
      BY <3>2 DEF SumTo, r
  <2>2. total' = SumTo(IF round = "close" THEN handled + Cardinality(Slots) ELSE handled)'
    BY <1>1, <2>1 DEF SumTo
  <2> QED
    BY <1>1, <2>2, BothKinds DEF TotalsRight
<1> QED
  BY <1>3, <1>4, <1>5, <1>6 DEF UIInv

LEMMA UStep ==
  ASSUME UIInv, ProbeStep \/ KernelStep \/ UNCHANGED uvars
  PROVE  UIInv'
<1>1. CASE ProbeStep
  BY <1>1, SyncStep, AskStep, SkipStep, ReapStep, EndPassStep DEF ProbeStep
<1>2. CASE KernelStep
  BY <1>2, AnswerStep DEF KernelStep
<1>3. CASE UNCHANGED uvars
  <2>1. UNCHANGED <<sizes, passes, round, handled, fds, asked, cq, waiting, total, sync_total,
                    uring_total, opened>>
    BY <1>3 DEF uvars
  <2>2. RingExact' /\ DescriptorsRight'
    BY <2>1, RingStays DEF UIInv
  <2>3. UTypeOK'
    BY <2>1 DEF UIInv, UTypeOK, nfiles
  <2>4. TotalsRight'
    <3>1. Slots' = Slots
      BY <2>1 DEF Slots, nfiles
    <3>2. PICK m : /\ m = (IF round = "close" THEN handled + Cardinality(Slots) ELSE handled)
                   /\ m = (IF round' = "close" THEN handled' + Cardinality(Slots') ELSE handled')
      BY <2>1, <3>1
    <3>3. TotalsRight /\ total' = SumTo(m)
      BY <2>1, <3>2 DEF UIInv, TotalsRight
    <3> QED
      BY <2>1, <3>2, <3>3, TotalsKept
  <2> QED
    BY <2>2, <2>3, <2>4 DEF UIInv
<1> QED
  BY <1>1, <1>2, <1>3

\* What the invariant says of the work that was done.
LEMMA WorkDone == UIInv => SameWork
<1> SUFFICES ASSUME UIInv PROVE SameWork
  OBVIOUS
<1>1. waiting = 0 => asked = {} /\ cq = <<>>
  BY DEF UIInv, RingExact
<1>2. round = "open" /\ waiting = 0 => opened = {}
  <2>1. DOMAIN <<>> = {}
    OBVIOUS
  <2>2. waiting = 0 => \A l : ~ Answered(l)
    BY <1>1, <2>1 DEF Answered
  <2> QED
    BY <2>2 DEF UIInv, DescriptorsRight
<1>3. passes = <<>> => uring_total = sync_total
  BY DEF UIInv, TotalsRight
<1> QED
  BY <1>1, <1>2, <1>3 DEF SameWork

-----------------------------------------------------------------------------
(* The programs: from one part to the next.                                *)

\* The programs, field by field.
LEMMA OneField ==
  ASSUME NEW a, NEW b, NEW c, NEW d, NEW v,
         NEW p, p = [walk |-> a, then |-> b, pool |-> c, alone |-> d]
  PROVE  /\ [p EXCEPT !.walk = v] = [walk |-> v, then |-> b, pool |-> c, alone |-> d]
         /\ [p EXCEPT !.then = v] = [walk |-> a, then |-> v, pool |-> c, alone |-> d]
         /\ [p EXCEPT !.pool = v] = [walk |-> a, then |-> b, pool |-> v, alone |-> d]
         /\ [p EXCEPT !.alone = v] = [walk |-> a, then |-> b, pool |-> c, alone |-> v]
OBVIOUS

LEMMA ProgramFields ==
  /\ Unmodelled = [walk |-> "none", then |-> "search", pool |-> Streamed, alone |-> "ignored"]
  /\ HandWritten = [walk |-> "none", then |-> "elsewhere", pool |-> Streamed, alone |-> "ignored"]
  /\ grep_std_c = [walk |-> "nftw", then |-> "search", pool |-> Streamed, alone |-> "ignored"]
  /\ grep_std_cpp = [walk |-> "iterator", then |-> "search", pool |-> [Streamed EXCEPT !.to = "kept"],
                     alone |-> "ignored"]
  /\ grep_std_mt_c = [walk |-> "nftw", then |-> "spawn", pool |-> c_std_pool, alone |-> "ignored"]
  /\ grep_mt_cpp = [walk |-> "iterator", then |-> "spawn", pool |-> cpp_pool, alone |-> "throws"]
  /\ grep_mt_tuned_cpp =
       [walk |-> "iterator", then |-> "spawn", pool |-> cpp_tuned_pool, alone |-> "throws"]
  /\ grep_mt_lua = [walk |-> "none", then |-> "spawn", pool |-> lua_pool, alone |-> "inline"]
  /\ iouring_probe = [walk |-> "readdir", then |-> "probe", pool |-> Streamed, alone |-> "ignored"]
<1>1. Unmodelled = [walk |-> "none", then |-> "search", pool |-> Streamed, alone |-> "ignored"]
  BY DEF Unmodelled
<1>2. HandWritten = [walk |-> "none", then |-> "elsewhere", pool |-> Streamed, alone |-> "ignored"]
  BY <1>1, OneField DEF HandWritten
<1>3. grep_std_c = [walk |-> "nftw", then |-> "search", pool |-> Streamed, alone |-> "ignored"]
  BY DEF grep_std_c
<1>4. grep_std_cpp = [walk |-> "iterator", then |-> "search", pool |-> [Streamed EXCEPT !.to = "kept"],
                      alone |-> "ignored"]
  <2> DEFINE k == [Streamed EXCEPT !.to = "kept"]
             p == [grep_std_c EXCEPT !.walk = "iterator"]
  <2> HIDE DEF k
  <2>1. p = [walk |-> "iterator", then |-> "search", pool |-> Streamed, alone |-> "ignored"]
    BY <1>3, OneField
  <2>2. grep_std_cpp = [p EXCEPT !.pool = k]
    BY DEF grep_std_cpp, k
  <2> HIDE DEF p
  <2>3. grep_std_cpp = [walk |-> "iterator", then |-> "search", pool |-> k, alone |-> "ignored"]
    BY <2>1, <2>2, OneField
  <2> QED
    BY <2>3 DEF k
<1>5. grep_std_mt_c = [walk |-> "nftw", then |-> "spawn", pool |-> c_std_pool, alone |-> "ignored"]
  <2> DEFINE p == [grep_std_c EXCEPT !.then = "spawn"]
  <2>1. p = [walk |-> "nftw", then |-> "spawn", pool |-> Streamed, alone |-> "ignored"]
    BY <1>3, OneField
  <2>2. grep_std_mt_c = [p EXCEPT !.pool = c_std_pool]
    BY DEF grep_std_mt_c
  <2> HIDE DEF p
  <2> QED
    BY <2>1, <2>2, OneField
<1>6. grep_mt_cpp = [walk |-> "iterator", then |-> "spawn", pool |-> cpp_pool, alone |-> "throws"]
  <2> DEFINE p == [grep_std_cpp EXCEPT !.then = "spawn"]
             q == [p EXCEPT !.pool = cpp_pool]
  <2>1. grep_mt_cpp = [q EXCEPT !.alone = "throws"]
    BY DEF grep_mt_cpp
  <2>2. p = [walk |-> "iterator", then |-> "spawn", pool |-> [Streamed EXCEPT !.to = "kept"], alone |-> "ignored"]
    BY <1>4, OneField
  <2> HIDE DEF p
  <2>3. q = [walk |-> "iterator", then |-> "spawn", pool |-> cpp_pool, alone |-> "ignored"]
    BY <2>2, OneField
  <2> HIDE DEF q
  <2> QED
    BY <2>1, <2>3, OneField
<1>7. grep_mt_tuned_cpp =
        [walk |-> "iterator", then |-> "spawn", pool |-> cpp_tuned_pool, alone |-> "throws"]
  BY <1>6, OneField DEF grep_mt_tuned_cpp
<1>8. grep_mt_lua = [walk |-> "none", then |-> "spawn", pool |-> lua_pool, alone |-> "inline"]
  <2> DEFINE p == [Unmodelled EXCEPT !.then = "spawn"]
             q == [p EXCEPT !.pool = lua_pool]
  <2>1. grep_mt_lua = [q EXCEPT !.alone = "inline"]
    BY DEF grep_mt_lua
  <2>2. p = [walk |-> "none", then |-> "spawn", pool |-> Streamed, alone |-> "ignored"]
    BY <1>1, OneField
  <2> HIDE DEF p
  <2>3. q = [walk |-> "none", then |-> "spawn", pool |-> lua_pool, alone |-> "ignored"]
    BY <2>2, OneField
  <2> HIDE DEF q
  <2> QED
    BY <2>1, <2>3, OneField
<1>9. iouring_probe = [walk |-> "readdir", then |-> "probe", pool |-> Streamed, alone |-> "ignored"]
  <2> DEFINE p == [Unmodelled EXCEPT !.walk = "readdir"]
  <2>1. iouring_probe = [p EXCEPT !.then = "probe"]
    BY DEF iouring_probe
  <2>2. p = [walk |-> "readdir", then |-> "search", pool |-> Streamed, alone |-> "ignored"]
    BY <1>1, OneField
  <2> HIDE DEF p
  <2> QED
    BY <2>1, <2>2, OneField
<1> QED
  BY <1>1, <1>2, <1>3, <1>4, <1>5, <1>6, <1>7, <1>8, <1>9

LEMMA WalksOf ==
  ASSUME NEW p \in AllPrograms
  PROVE  p.walk \in {"none", "nftw", "iterator", "readdir"}
BY ProgramFields DEF AllPrograms, LibraryPrograms

LEMMA ProgramNames ==
  /\ LibraryPrograms \cup {HandWritten} \subseteq AllPrograms
  /\ {Unmodelled, iouring_probe, grep_mt_lua} \subseteq AllPrograms
BY DEF AllPrograms

\* A walk that is none of a library's, or has not begun.
LEMMA COBegins ==
  ASSUME walk \in {"none", "readdir"}, recurse \in BOOLEAN, roots \in Seq(Node), given = roots,
         ahead = <<>>, listed = <<>>
  PROVE  COInv
<1>1. <<>> \in Seq(Node)
  BY EmptySeq
<1>2. COTypeOK
  BY <1>1 DEF COTypeOK
<1> QED
  BY <1>2 DEF COInv, WaysKept, AheadUnhurt

LEMMA BegunStarts ==
  ASSUME NInit
  PROVE  Begun /\ COInv /\ UIInv
<1>1. UInit /\ UIInv
  BY NStarts, UStarts
<1>2. <<>> \in Seq(Node)
  BY EmptySeq
<1>3. CASE StartParsing
  <2>1. PICK pq \in Parsing : prog = pq[1]
    BY <1>3 DEF StartParsing
  <2>2. prog \in AllPrograms
    BY <2>1, ProgramNames DEF Parsing
  <2>3. COInv /\ ahead = <<>> /\ listed = <<>>
    BY <1>2, <1>3, COBegins DEF StartParsing, COInit
  <2> QED
    BY <1>1, <2>2, <2>3 DEF Begun
<1>4. CASE StartProbe
  <2>1. PICK d \in Node : roots = <<d>> /\ given = <<d>>
    BY <1>4, NativeAssumption DEF StartProbe
  <2>2. <<d>> \in Seq(Node)
    OBVIOUS
  <2>3. COInv
    BY <1>4, <2>1, <2>2, COBegins DEF StartProbe
  <2> QED
    BY <1>1, <1>4, <2>3, ProgramNames DEF Begun, StartProbe
<1>5. CASE StartWithList
  <2>1. COInv
    BY <1>2, <1>5, COBegins DEF StartWithList, COInit
  <2>2. prog \in AllPrograms
    BY <1>5, ProgramNames DEF StartWithList
  <2> QED
    BY <1>1, <1>5, <2>1, <2>2 DEF Begun, StartWithList
<1> QED
  BY <1>3, <1>4, <1>5 DEF NInit

\* What the steps other than the two hand-overs do.
LEMMA OtherParts ==
  ASSUME [NNext]_nvars, ~ EndParsing, ~ EndFinding
  PROVE  /\ NextRoot \/ Meet \/ UNCHANGED covars
         /\ ProbeStep \/ KernelStep \/ UNCHANGED uvars
         /\ prog' = prog
         /\ phase' = "parse" => phase = "parse" /\ UNCHANGED covars
         /\ phase' \in {"parse", "collect"} => phase = phase' /\ UNCHANGED uvars
<1>1. CASE ParseWord \/ UsageExit
  BY <1>1 DEF ParseWord, UsageExit, progvars
<1>2. CASE Find
  BY <1>2 DEF Find, progvars
<1>3. CASE Spawn
  BY <1>3 DEF Spawn
<1>4. CASE WriteInline \/ JoinUnset
  BY <1>4 DEF WriteInline, JoinUnset, progvars
<1>5. CASE Wait \/ \E w \in Worker : WorkerStep(w)
  BY <1>5 DEF Wait, WorkerStep, progvars
<1>6. CASE Probing \/ Kernel \/ Report
  BY <1>6 DEF Probing, Kernel, Report, progvars
<1>7. CASE UNCHANGED nvars
  BY <1>7 DEF nvars, progvars
<1> QED
  BY <1>1, <1>2, <1>3, <1>4, <1>5, <1>6, <1>7 DEF NNext, MainStep

LEMMA BegunStep ==
  ASSUME CLInv, COInv, UIInv, Begun, [NNext]_nvars
  PROVE  Begun' /\ COInv' /\ UIInv'
<1>1. CASE EndParsing
  <2>1. UNCHANGED uvars /\ prog' = prog /\ phase = "parse" /\ phase' # "parse"
    BY <1>1 DEF EndParsing
  <2>2. UIInv' /\ Begun'
    <3>1. (UNCHANGED uvars) => UIInv'
      BY UStep
    <3>2. UInit'
      BY <2>1 DEF Begun, UInit, uvars
    <3> QED
      BY <2>1, <3>1, <3>2 DEF Begun
  <2>3. COInv'
    <3>1. CASE prog.then = "elsewhere"
      BY <1>1, <3>1, COStep DEF EndParsing
    <3>2. CASE prog.then # "elsewhere"
      <4> DEFINE args == [k \in DOMAIN paths |-> NodeOf(paths[k])]
      <4>1. paths \in Seq(Seq(STRING)) /\ opt_r \in BOOLEAN
        BY DEF CLInv, CLTypeOK
      <4>2. \A word : NodeOf(word) \in Node
        BY NativeAssumption DEF NodeOf
      <4>3. PICK n \in Nat : DOMAIN paths = 1 .. n
        BY <4>1, LenProperties
      <4>4. args \in Seq(Node)
        <5>1. args \in [1 .. n -> Node]
          BY <4>2, <4>3
        <5> QED
          BY <5>1
      <4>5. prog.walk \in {"none", "nftw", "iterator", "readdir"}
        BY WalksOf DEF Begun
      <4>6. ahead = <<>> /\ listed = <<>>
        BY <2>1 DEF Begun
      <4>7. PICK w, r, a : w = prog.walk /\ r = opt_r /\ a = args
        OBVIOUS
      <4>8. StartCollecting(w, r, a)
        BY <1>1, <3>2, <4>7 DEF EndParsing
      <4> HIDE DEF args
      <4> QED
        BY <4>1, <4>4, <4>5, <4>6, <4>7, <4>8, COStarts
    <3> QED
      BY <3>1, <3>2
  <2> QED
    BY <2>2, <2>3
<1>2. CASE EndFinding
  <2>1. UNCHANGED covars /\ prog' = prog /\ phase = "collect" /\ phase' \notin {"parse", "collect"}
    BY <1>2 DEF EndFinding
  <2>2. COInv' /\ Begun'
    BY <2>1, COStep DEF Begun
  <2>3. CASE UNCHANGED uvars
    BY <2>2, <2>3, UStep
  <2>4. CASE StartPasses([k \in DOMAIN listed |-> Bytes[listed[k]]])
    <3> DEFINE s == [k \in DOMAIN listed |-> Bytes[listed[k]]]
    <3>1. PICK n \in Nat : DOMAIN listed = 1 .. n /\ \A k \in 1 .. n : listed[k] \in Node
      BY LenProperties, ElementOfSeq DEF COInv, COTypeOK
    <3>2. s \in Seq(Nat \cup {-1})
      <4>1. s \in [1 .. n -> Nat \cup {-1}]
        BY <3>1, NativeAssumption
      <4> QED
        BY <4>1
    <3>3. PICK t : t = s
      OBVIOUS
    <3>4. StartPasses(t)
      BY <2>4, <3>3
    <3>5. UInit
      BY <2>1 DEF Begun
    <3> HIDE DEF s
    <3> QED
      BY <2>2, <3>2, <3>3, <3>4, <3>5, UScheduled
  <2> QED
    BY <1>2, <2>3, <2>4 DEF EndFinding
<1>3. CASE ~ EndParsing /\ ~ EndFinding
  <2>1. COInv'
    <3>1. NextRoot \/ Meet \/ UNCHANGED covars
      BY <1>3, OtherParts
    <3> QED
      BY <3>1, COStep
  <2>2. UIInv'
    <3>1. ProbeStep \/ KernelStep \/ UNCHANGED uvars
      BY <1>3, OtherParts
    <3> QED
      BY <3>1, UStep
  <2>3. Begun'
    <3>1. prog' = prog
      BY <1>3, OtherParts
    <3>2. ASSUME phase' = "parse" PROVE ahead' = <<>> /\ listed' = <<>>
      BY <1>3, <3>2, OtherParts DEF Begun, covars
    <3>3. ASSUME phase' \in {"parse", "collect"} PROVE UInit'
      <4>1. UInit /\ UNCHANGED uvars
        BY <1>3, <3>3, OtherParts DEF Begun
      <4> QED
        BY <4>1 DEF UInit, uvars
    <3> QED
      BY <3>1, <3>2, <3>3 DEF Begun
  <2> QED
    BY <2>1, <2>2, <2>3
<1> QED
  BY <1>1, <1>2, <1>3

\* The parts of main besides the pool, whatever the others do.
LEMMA PartsRight == NSpec => [](CLInv /\ COInv /\ UIInv /\ Begun)
<1> DEFINE I == CLInv /\ COInv /\ UIInv /\ Begun
<1>1. NInit => I
  BY NStarts, CLStarts, BegunStarts
<1>2. I /\ [NNext]_nvars => I'
  BY PartsApart, CLStep, BegunStep
<1> QED
  BY <1>1, <1>2, PTL DEF NSpec

\* However the words of the command line, the finding and the searching go on: a walk of a
\* library lists every file as often as the arguments lead to it.
THEOREM NFilesFoundOnce == NSpec => []FilesFoundOnce
BY PartsRight, WaysGone, PTL

\* However the ring orders and cuts short its completions, each pass of the probe adds up
\* what the synchronous pass does, and closes every descriptor it has opened.
THEOREM NSameWork == NSpec => []SameWork
BY PartsRight, WorkDone, PTL

-----------------------------------------------------------------------------
(* The blocks that main searches itself.                                   *)

\* Pieces of a file, in its order.
Forward == {pq \in Piece \X Piece : pq[1][1] = pq[2][1] => Before(pq[1], pq[2])}
LinesTo(i, file, k) ==
  {x \in Piece : x[1] = i /\ x[2] \in 1 .. k /\ x[3] \in 1 .. file.lines[x[2]]}
PiecesFrom(i, file) == IF file.fault # "no" THEN {} ELSE LinesTo(i, file, Len(file.lines))

LEMMA ForwardPrecedes ==
  ASSUME NEW s, InOrder(Forward, s)
  PROVE  InOrder(Precede, s)
BY DEF InOrder, Forward, Precede, MayPrecede

\* Line l of file i, in n pieces.
LineOf(i, l, n) == [p \in 1 .. n |-> <<i, l, p>>]
PiecesOfLine(i, l, n) == {x \in Piece : x[1] = i /\ x[2] = l /\ x[3] \in 1 .. n}

LEMMA OneLine ==
  ASSUME NEW i \in Nat, NEW l \in Nat, NEW n \in 1 .. MAX_LINE
  PROVE  /\ LineOf(i, l, n) \in Seq(Piece) /\ InOrder(Forward, LineOf(i, l, n))
         /\ PiecesOf(LineOf(i, l, n)) = PiecesOfLine(i, l, n)
         /\ \A list : list[i].lines[l] = n => Whole(list, LineOf(i, l, n))
<1> DEFINE s == LineOf(i, l, n)
<1>0. s = [p \in 1 .. n |-> <<i, l, p>>]
  BY DEF LineOf
<1> HIDE DEF s
<1>1. n \in Nat \ {0}
  BY PoolAssumption
<1>2. s \in Seq(Piece) /\ Len(s) = n /\ \A p \in 1 .. n : s[p] = <<i, l, p>>
  <2>1. \A p \in 1 .. n : <<i, l, p>> \in Piece
    BY <1>1 DEF Piece
  <2>2. s \in [1 .. n -> Piece]
    BY <1>0, <2>1
  <2>3. s \in Seq(Piece)
    BY <1>1, <2>2, SeqDef
  <2>4. Len(s) \in Nat /\ 1 .. Len(s) = 1 .. n
    BY <1>0, <2>3, LenProperties
  <2> QED
    BY <1>0, <1>1, <2>3, <2>4
<1>4. InOrder(Forward, s)
  <2>1. ASSUME NEW p \in 1 .. n, NEW q \in 1 .. n, p < q PROVE <<s[p], s[q]>> \in Forward
    <3>1. s[p] = <<i, l, p>> /\ s[q] = <<i, l, q>> /\ s[p] \in Piece /\ s[q] \in Piece
      BY <1>1, <1>2 DEF Piece
    <3>2. Before(s[p], s[q])
      BY <2>1, <3>1 DEF Before
    <3> QED
      BY <3>1, <3>2 DEF Forward
  <2> QED
    BY <1>2, <2>1 DEF InOrder
<1>5. PiecesOf(s) = PiecesOfLine(i, l, n)
  <2>1. PiecesOf(s) = {<<i, l, p>> : p \in 1 .. n}
    BY <1>2 DEF PiecesOf
  <2>2. ASSUME NEW x \in Piece, x[1] = i, x[2] = l, x[3] \in 1 .. n PROVE x \in PiecesOf(s)
    <3>1. x = <<i, l, x[3]>>
      BY <2>2 DEF Piece
    <3> QED
      BY <2>1, <2>2, <3>1
  <2>3. ASSUME NEW p \in 1 .. n
        PROVE  LET x == <<i, l, p>> IN x \in Piece /\ x[1] = i /\ x[2] = l /\ x[3] \in 1 .. n
    BY <1>1 DEF Piece
  <2>4. PiecesOf(s) \subseteq PiecesOfLine(i, l, n)
    BY <2>1, <2>3 DEF PiecesOfLine
  <2>5. PiecesOfLine(i, l, n) \subseteq PiecesOf(s)
    BY <2>2 DEF PiecesOfLine
  <2> QED
    BY <2>4, <2>5
<1>6. ASSUME NEW list, list[i].lines[l] = n PROVE Whole(list, s)
  <2>1. ASSUME NEW p \in 1 .. n PROVE Unfinished(list, <<i, l, p>>) <=> p < n
    BY <1>6 DEF Unfinished
  <2>2. ASSUME NEW p \in 1 .. n - 1 PROVE Follows(list, s[p], s[p + 1])
    <3>1. p \in 1 .. n /\ p + 1 \in 1 .. n /\ p < n
      BY <1>1
    <3>2. s[p] = <<i, l, p>> /\ s[p + 1] = <<i, l, p + 1>>
      BY <1>2, <3>1
    <3> QED
      BY <2>1, <3>1, <3>2 DEF Follows
  <2>3. s[1][3] = 1 /\ ~ Unfinished(list, s[n])
    <3>1. 1 \in 1 .. n /\ n \in 1 .. n /\ ~ (n < n)
      BY <1>1
    <3>2. s[1] = <<i, l, 1>> /\ s[n] = <<i, l, n>>
      BY <1>2, <3>1
    <3> QED
      BY <2>1, <3>1, <3>2
  <2> QED
    BY <1>2, <2>2, <2>3 DEF Whole
<1> QED
  BY <1>2, <1>4, <1>5, <1>6 DEF s

\* What a search of a file finds: all its lines, whole and in order.
LEMMA BlockIs ==
  ASSUME NEW i \in Nat, NEW file \in Files
  PROVE  /\ Block(i, file) \in Seq(Piece) /\ InOrder(Forward, Block(i, file))
         /\ PiecesOf(Block(i, file)) = PiecesFrom(i, file)
         /\ \A list : list[i] = file => Whole(list, Block(i, file))
<1>1. file.lines \in Seq(1 .. MAX_LINE)
  BY DEF Files
<1> DEFINE n == Len(file.lines)
           L == [l \in DOMAIN file.lines |-> LineOf(i, l, file.lines[l])]
<1>2. n \in Nat /\ DOMAIN file.lines = 1 .. n /\ \A l \in 1 .. n : file.lines[l] \in 1 .. MAX_LINE
  BY <1>1, LenProperties, ElementOfSeq
<1> DEFINE Q == [k \in 0 .. n |->
              {s \in Seq(Piece) : /\ InOrder(Forward, s) /\ PiecesOf(s) = LinesTo(i, file, k)
                                 /\ \A list : list[i] = file => Whole(list, s)}]
<1>3. L \in Seq(Seq(Piece)) /\ Len(L) = n /\ \A l \in 1 .. n : L[l] = LineOf(i, l, file.lines[l])
  <2>1. \A l \in 1 .. n : L[l] = LineOf(i, l, file.lines[l])
    BY <1>2
  <2>2. \A l \in 1 .. n : L[l] \in Seq(Piece)
    BY <1>2, <2>1, OneLine
  <2>3. DOMAIN L = 1 .. n
    BY <1>2
  <2>4. L \in [1 .. n -> Seq(Piece)]
    BY <2>2, <2>3
  <2>5. L \in Seq(Seq(Piece))
    BY <1>2, <2>4, SeqDef
  <2>6. Len(L) \in Nat /\ DOMAIN L = 1 .. Len(L)
    BY <2>5, LenProperties
  <2> QED
    BY <1>2, <2>1, <2>3, <2>5, <2>6
<1> HIDE DEF n, L
<1>4. <<>> \in Q[0]
  <2>1. <<>> \in Seq(Piece) /\ InOrder(Forward, <<>>) /\ PiecesOf(<<>>) = {}
    BY EmptySeq, OrderEmpty, PiecesEmpty
  <2>2. LinesTo(i, file, 0) = {}
    BY DEF LinesTo
  <2>3. \A list : Whole(list, <<>>)
    BY WholeEmpty
  <2>4. 0 \in 0 .. n
    BY <1>2
  <2> QED
    BY <2>1, <2>2, <2>3, <2>4
<1>5. ASSUME NEW k \in 1 .. n, NEW s \in Seq(Piece), s \in Q[k - 1] PROVE s \o L[k] \in Q[k]
  <2>1. k \in Nat /\ k \in 1 .. n /\ k - 1 \in 0 .. n /\ k \in 0 .. n /\ file.lines[k] \in 1 .. MAX_LINE
    BY <1>2
  <2>2. /\ s \in Seq(Piece) /\ InOrder(Forward, s) /\ PiecesOf(s) = LinesTo(i, file, k - 1)
        /\ \A list : list[i] = file => Whole(list, s)
    BY <1>5, <2>1
  <2> HIDE DEF Q
  <2> DEFINE t == L[k]
  <2>3. /\ t \in Seq(Piece) /\ InOrder(Forward, t)
        /\ PiecesOf(t) = PiecesOfLine(i, k, file.lines[k])
        /\ \A list : list[i] = file => Whole(list, t)
    BY <1>3, <2>1, OneLine
  <2> HIDE DEF t
  <2>4. s \o t \in Seq(Piece) /\ PiecesOf(s \o t) = PiecesOf(s) \cup PiecesOf(t)
    BY <2>2, <2>3, PiecesConcat
  <2>5. Ahead(Forward, s, t)
    <3>1. ASSUME NEW x \in PiecesOf(s), NEW y \in PiecesOf(t) PROVE <<x, y>> \in Forward
      <4>1. x \in Piece /\ y \in Piece /\ x[2] \in 1 .. k - 1 /\ y[2] = k
        BY <2>2, <2>3 DEF LinesTo, PiecesOfLine
      <4>2. Before(x, y)
        BY <2>1, <4>1 DEF Before
      <4> QED
        BY <4>1, <4>2 DEF Forward
    <3> QED
      BY <3>1 DEF Ahead
  <2>6. InOrder(Forward, s \o t)
    BY <2>2, <2>3, <2>5, OrderConcat
  <2>7. PiecesOf(s \o t) = LinesTo(i, file, k)
    <3> DEFINE R == LinesTo(i, file, k - 1)
               T == PiecesOfLine(i, k, file.lines[k])
    <3>1. ASSUME NEW x \in R PROVE x \in LinesTo(i, file, k)
      BY <2>1 DEF LinesTo
    <3>2. ASSUME NEW x \in T PROVE x \in LinesTo(i, file, k)
      BY <2>1 DEF LinesTo, PiecesOfLine
    <3>3. ASSUME NEW x \in LinesTo(i, file, k) PROVE x \in R \cup T
      BY <2>1 DEF LinesTo, PiecesOfLine
    <3> QED
      BY <2>2, <2>3, <2>4, <3>1, <3>2, <3>3
  <2>8. \A list : list[i] = file => Whole(list, s \o t)
    BY <2>2, <2>3, WholeConcat
  <2> QED
    BY <2>1, <2>4, <2>6, <2>7, <2>8 DEF Q, t
<1> HIDE DEF Q
<1>6. FlattenSeq(L) \in Seq(Piece) /\ FlattenSeq(L) \in Q[n]
  BY <1>3, <1>4, <1>5, FlattenSeqInduction
<1>7. CASE file.fault = "no"
  <2>1. Block(i, file) = FlattenSeq(L)
    BY <1>7 DEF Block, L, LineOf
  <2>2. n \in 0 .. n
    BY <1>2
  <2> QED
    BY <1>6, <1>7, <2>1, <2>2 DEF Q, PiecesFrom, n
<1>8. CASE file.fault # "no"
  <2>1. Block(i, file) = <<>> /\ PiecesFrom(i, file) = {}
    BY <1>8 DEF Block, PiecesFrom
  <2>2. <<>> \in Seq(Piece) /\ InOrder(Forward, <<>>) /\ PiecesOf(<<>>) = {}
    BY EmptySeq, OrderEmpty, PiecesEmpty
  <2> QED
    BY <2>1, <2>2, WholeEmpty
<1> QED
  BY <1>7, <1>8

\* The slice main runs itself: the readable files of one worker.
SliceTo(w, k) ==
  {x \in Piece : x[1] \in 1 .. k /\ (x[1] - w) % NWorkers = 0 /\ x \in PiecesFrom(x[1], files[x[1]])}

LEMMA SliceIs ==
  ASSUME PTypeOK, NEW w \in Worker
  PROVE  /\ SliceOf(w) \in Seq(Piece) /\ InOrder(Forward, SliceOf(w))
         /\ PiecesOf(SliceOf(w)) = SliceTo(w, N)
<1> DEFINE n == N
           L == [i \in 1 .. N |-> IF (i - w) % NWorkers = 0 THEN Block(i, files[i]) ELSE <<>>]
<1>1. n \in Nat /\ \A i \in 1 .. n : i \in Nat /\ files[i] \in Files
  <2>1. n \in Nat
    BY LenProperties DEF PTypeOK, N
  <2>2. \A i \in 1 .. n : files[i] \in Files
    BY ElementOfSeq DEF PTypeOK, N
  <2> QED
    BY <2>1, <2>2
<1> DEFINE Q == [k \in 0 .. n |->
              {s \in Seq(Piece) : InOrder(Forward, s) /\ PiecesOf(s) = SliceTo(w, k)}]
<1>2. \A i \in 1 .. n : L[i] = IF (i - w) % NWorkers = 0 THEN Block(i, files[i]) ELSE <<>>
  OBVIOUS
<1>3. DOMAIN L = 1 .. n
  OBVIOUS
<1> HIDE DEF n, L
<1>4. \A i \in 1 .. n : /\ L[i] \in Seq(Piece) /\ InOrder(Forward, L[i])
                        /\ PiecesOf(L[i]) = IF (i - w) % NWorkers = 0 THEN PiecesFrom(i, files[i]) ELSE {}
  <2>1. ASSUME NEW i \in 1 .. n, (i - w) % NWorkers = 0
        PROVE  /\ L[i] \in Seq(Piece) /\ InOrder(Forward, L[i])
               /\ PiecesOf(L[i]) = PiecesFrom(i, files[i])
    BY <1>1, <1>2, <2>1, BlockIs
  <2>2. ASSUME NEW i \in 1 .. n, (i - w) % NWorkers # 0
        PROVE  L[i] \in Seq(Piece) /\ InOrder(Forward, L[i]) /\ PiecesOf(L[i]) = {}
    <3>1. L[i] = <<>>
      BY <1>2, <2>2
    <3> QED
      BY <3>1, EmptySeq, OrderEmpty, PiecesEmpty
  <2> QED
    BY <2>1, <2>2
<1>5. L \in Seq(Seq(Piece)) /\ Len(L) = n
  <2>1. L \in [1 .. n -> Seq(Piece)]
    <3>1. L = [i \in 1 .. n |-> L[i]]
      BY DEF L, n
    <3> QED
      BY <1>4, <3>1
  <2>2. L \in Seq(Seq(Piece))
    BY <1>1, <2>1, SeqDef
  <2>3. Len(L) \in Nat /\ DOMAIN L = 1 .. Len(L)
    BY <2>2, LenProperties
  <2> QED
    BY <1>1, <1>3, <2>2, <2>3
<1>6. <<>> \in Q[0]
  <2>1. <<>> \in Seq(Piece) /\ InOrder(Forward, <<>>) /\ PiecesOf(<<>>) = {}
    BY EmptySeq, OrderEmpty, PiecesEmpty
  <2>2. SliceTo(w, 0) = {} /\ 0 \in 0 .. n
    BY <1>1 DEF SliceTo
  <2> QED
    BY <2>1, <2>2
<1>7. ASSUME NEW k \in 1 .. n, NEW s \in Seq(Piece), s \in Q[k - 1] PROVE s \o L[k] \in Q[k]
  <2>1. k \in Nat /\ k \in 1 .. n /\ k - 1 \in 0 .. n /\ k \in 0 .. n
    BY <1>1
  <2>2. s \in Seq(Piece) /\ InOrder(Forward, s) /\ PiecesOf(s) = SliceTo(w, k - 1)
    BY <1>7, <2>1
  <2> HIDE DEF Q
  <2> DEFINE t == L[k]
             T == IF (k - w) % NWorkers = 0 THEN PiecesFrom(k, files[k]) ELSE {}
  <2>3. t \in Seq(Piece) /\ InOrder(Forward, t) /\ PiecesOf(t) = T
    BY <1>4
  <2>4. T \subseteq {x \in Piece : x[1] = k}
    BY DEF PiecesFrom, LinesTo
  <2> HIDE DEF t, T
  <2>5. s \o t \in Seq(Piece) /\ PiecesOf(s \o t) = PiecesOf(s) \cup PiecesOf(t)
    BY <2>2, <2>3, PiecesConcat
  <2>6. Ahead(Forward, s, t)
    <3>1. ASSUME NEW x \in PiecesOf(s), NEW y \in PiecesOf(t) PROVE <<x, y>> \in Forward
      <4>1. x \in Piece /\ y \in Piece /\ x[1] \in 1 .. k - 1 /\ y[1] = k
        BY <2>2, <2>3, <2>4 DEF SliceTo
      <4>2. x[1] # y[1]
        BY <2>1, <4>1
      <4> QED
        BY <4>1, <4>2 DEF Forward
    <3> QED
      BY <3>1 DEF Ahead
  <2>7. InOrder(Forward, s \o t)
    BY <2>2, <2>3, <2>6, OrderConcat
  <2>8. PiecesOf(s \o t) = SliceTo(w, k)
    <3>1. ASSUME NEW x \in SliceTo(w, k - 1) PROVE x \in SliceTo(w, k)
      BY <2>1 DEF SliceTo
    <3>2. ASSUME NEW x \in T PROVE x \in SliceTo(w, k)
      <4>1. x \in Piece /\ x[1] = k /\ (k - w) % NWorkers = 0 /\ x \in PiecesFrom(k, files[k])
        BY <2>4 DEF T
      <4> QED
        BY <2>1, <4>1 DEF SliceTo
    <3>3. ASSUME NEW x \in SliceTo(w, k) PROVE x \in SliceTo(w, k - 1) \cup T
      <4>1. CASE x[1] = k
        BY <4>1 DEF SliceTo, T
      <4>2. CASE x[1] # k
        <5>1. x[1] \in 1 .. k - 1
          BY <2>1, <4>2 DEF SliceTo
        <5> QED
          BY <5>1 DEF SliceTo
      <4> QED
        BY <4>1, <4>2
    <3> QED
      BY <2>2, <2>3, <2>5, <3>1, <3>2, <3>3
  <2> QED
    BY <2>1, <2>5, <2>7, <2>8 DEF Q, t
<1> HIDE DEF Q
<1>8. FlattenSeq(L) \in Seq(Piece) /\ FlattenSeq(L) \in Q[n]
  BY <1>5, <1>6, <1>7, FlattenSeqInduction
<1>9. SliceOf(w) = FlattenSeq(L) /\ n = N
  BY DEF SliceOf, L, n
<1>10. n \in 0 .. n
  BY <1>1
<1> QED
  BY <1>8, <1>9, <1>10 DEF Q

-----------------------------------------------------------------------------
(* The pools of the programs.                                              *)

LEMMA PoolKinds ==
  /\ Plain(Streamed) /\ Plain([Streamed EXCEPT !.to = "kept"]) /\ Plain(c_std_pool)
  /\ [Streamed EXCEPT !.to = "kept"].to = "kept"
  /\ Plain(cpp_pool) /\ Plain(cpp_tuned_pool)
  /\ Streamed.to = "stream" /\ c_std_pool.to = "stdout" /\ cpp_pool.to = "stream"
  /\ cpp_tuned_pool.to = "stream"
  /\ lua_pool \in Programs /\ lua_pool.hand = "stride" /\ lua_pool.to = "stdout"
  /\ lua_pool.keep = "all" /\ lua_pool.dies = {} /\ lua_pool.lock = TRUE
<1>1. Plain(Streamed) /\ Streamed.to = "stream"
  BY DEF Plain, Streamed, Programs, Faults
<1>2. Plain([Streamed EXCEPT !.to = "kept"]) /\ [Streamed EXCEPT !.to = "kept"].to = "kept"
  BY DEF Plain, Streamed, Programs, Faults
<1>3. /\ Direct \in Programs /\ Direct.hand = "counter" /\ Direct.early = TRUE /\ Direct.dies = {}
      /\ Direct.lock = TRUE /\ Direct.to = "stdout" /\ Direct.wait = "join"
  BY DEF Direct, Streamed, Programs, Faults
<1>4. Plain(c_std_pool) /\ c_std_pool.to = "stdout"
  BY <1>3 DEF Plain, c_std_pool, Programs
<1>5. Plain(cpp_pool) /\ cpp_pool.to = "stream"
  BY DEF Plain, cpp_pool, Streamed, Programs, Faults
<1>7. /\ lua_pool \in Programs /\ lua_pool.hand = "stride" /\ lua_pool.to = "stdout"
      /\ lua_pool.keep = "all" /\ lua_pool.dies = {} /\ lua_pool.lock = TRUE
  <2> DEFINE p == [Direct EXCEPT !.hand = "stride"]
  <2>1. /\ p \in Programs /\ p.hand = "stride" /\ p.to = "stdout" /\ p.dies = {} /\ p.lock = TRUE
    BY <1>3 DEF Programs
  <2>2. lua_pool = [p EXCEPT !.keep = "all"]
    BY DEF lua_pool
  <2> HIDE DEF p
  <2> QED
    BY <2>1, <2>2 DEF Programs
<1> QED
  BY <1>1, <1>2, <1>4, <1>5, <1>7 DEF cpp_tuned_pool

\* How each program searches what it finds.
LEMMA PoolsOf ==
  ASSUME NEW p \in AllPrograms
  PROVE  /\ p # grep_mt_lua => Plain(p.pool) /\ p.alone \in {"ignored", "throws"}
         /\ p = grep_mt_lua => p.pool = lua_pool /\ p.alone = "inline" /\ p.then = "spawn" /\ p # Unmodelled
         /\ p.then \in {"search", "elsewhere", "spawn", "probe"}
         /\ p.then = "spawn" => p.pool.to # "kept"
         /\ p.then = "search" => p.pool.to \in {"stream", "kept"}
         /\ p.then = "spawn" => p # Unmodelled
<1>1. /\ p.then = "search" => p.pool \in {Streamed, [Streamed EXCEPT !.to = "kept"]}
      /\ p.then = "spawn" => p.pool \in {c_std_pool, cpp_pool, cpp_tuned_pool, lua_pool}
      /\ p # grep_mt_lua => /\ p.alone \in {"ignored", "throws"}
                            /\ p.pool \in {Streamed, [Streamed EXCEPT !.to = "kept"], c_std_pool,
                                          cpp_pool, cpp_tuned_pool}
      /\ p = grep_mt_lua => p.pool = lua_pool /\ p.alone = "inline" /\ p.then = "spawn"
      /\ p.then \in {"search", "elsewhere", "spawn", "probe"}
      /\ p.then = "spawn" => p # Unmodelled
  BY ProgramFields DEF AllPrograms, LibraryPrograms
<1> QED
  BY <1>1, PoolKinds

-----------------------------------------------------------------------------
(* Before the pool.                                                        *)

\* What Unstarted says of the workers.
LEMMA NobodyWorks ==
  ASSUME PTypeOK, Unstarted
  PROVE  /\ N \in Nat /\ NWorkers \in Nat \ {0}
         /\ \A w \in Worker : /\ at[w] = 0 /\ line[w] = 1 /\ buf[w] = <<>> /\ sending[w] = <<>>
                             /\ pc[w] = (IF Spawns THEN "none" ELSE "left")
                             /\ ~ InHand(w) /\ Mine(w) = {} /\ HeldBy(w) = {} /\ LastOf(w) = N
         /\ Everywhere = PiecesOf(Out) \cup PiecesIn(kept) /\ Passed = Everywhere
         /\ ~ SliceInMain /\ \A i : ~ MainHas(i)
         /\ \A i \in 1 .. N : (\E w \in Worker : CanClaim(w, i)) <=> Spawns
<1>1. N \in Nat /\ NWorkers \in Nat \ {0} /\ 1 \in Worker
  BY PoolAssumption, LenProperties DEF PTypeOK, N, Worker
<1>2. \A w \in Worker : /\ at[w] = 0 /\ line[w] = 1 /\ buf[w] = <<>> /\ sending[w] = <<>>
                      /\ pc[w] = (IF Spawns THEN "none" ELSE "left")
  BY DEF Unstarted
<1>3. \A w \in Worker : ~ InHand(w)
  BY <1>2 DEF InHand
<1>4. \A w \in Worker : Mine(w) = {} /\ HeldBy(w) = {}
  BY <1>2, <1>3, PiecesEmpty DEF Mine, HeldBy
<1>5. pool.hand = "counter" /\ mail = <<>>
  BY DEF Unstarted, Plain
<1>6. \A w \in Worker : LastOf(w) = N
  BY <1>5 DEF LastOf
<1>7. Passed = PiecesOf(Out) \cup PiecesIn(kept)
  BY <1>5, PiecesEmpty DEF Passed
<1>8. Everywhere = Passed
  BY <1>4 DEF Everywhere
<1>9. ~ SliceInMain /\ \A i : ~ MainHas(i)
  BY <1>1, <1>2, <1>5, <1>6 DEF SliceInMain, MainHas
<1>10. ASSUME NEW i \in 1 .. N PROVE (\E w \in Worker : CanClaim(w, i)) <=> Spawns
  <2>1. \A w \in Worker : CanClaim(w, i) <=> i >= next
    BY <1>5 DEF CanClaim
  <2>2. next = (IF Spawns THEN 1 ELSE N + 1)
    BY DEF Unstarted
  <2>3. i >= 1 /\ ~ i >= N + 1
    BY <1>1
  <2> QED
    BY <1>1, <2>1, <2>2, <2>3
<1> QED
  BY <1>1, <1>2, <1>3, <1>4, <1>6, <1>7, <1>8, <1>9, <1>10

\* Before the pool all is well with it.
LEMMA UnstartedSound == PTypeOK /\ Unstarted => PIInv /\ PDelivery
<1> SUFFICES ASSUME PTypeOK, Unstarted PROVE PIInv /\ PDelivery
  OBVIOUS
<1>1. /\ N \in Nat /\ NWorkers \in Nat \ {0}
      /\ \A w \in Worker : /\ at[w] = 0 /\ line[w] = 1 /\ buf[w] = <<>> /\ sending[w] = <<>>
                          /\ pc[w] = (IF Spawns THEN "none" ELSE "left")
                          /\ ~ InHand(w) /\ Mine(w) = {} /\ HeldBy(w) = {} /\ LastOf(w) = N
      /\ Everywhere = PiecesOf(Out) \cup PiecesIn(kept) /\ Passed = Everywhere
      /\ ~ SliceInMain /\ \A i : ~ MainHas(i)
      /\ \A i \in 1 .. N : (\E w \in Worker : CanClaim(w, i)) <=> Spawns
  BY NobodyWorks
<1>2. Plain(pool) /\ holder = 0 /\ mail = <<>> /\ Len(kept) = N /\ Len(mail) = 0
  BY EmptySeq DEF Unstarted
<1>3. /\ Whole(files, Out) /\ InOrder(Precede, Out) /\ InOneStretch(Out)
      /\ pool.to = "kept" => Out = <<>>
      /\ \A k \in 1 .. N :
           /\ Whole(files, kept[k]) /\ InOrder(Precede, kept[k]) /\ FilesOf(kept[k]) \subseteq {k}
           /\ pool.to # "kept" => kept[k] = <<>>
  BY DEF Unstarted
<1>4. PShape
  <2>1. \A w \in Worker : PShapeOf(w)
    BY <1>1, <1>2 DEF PShapeOf, Plain
  <2> QED
    BY <1>2, <2>1 DEF PShape, Unstarted
<1>5. OneWriter
  BY <1>1, <1>2 DEF OneWriter, At, Worker
<1>6. BlocksWhole
  BY <1>1, <1>2, <1>3, WholeEmpty DEF BlocksWhole, At
<1>7. OutWhole
  BY <1>2, <1>3 DEF OutWhole
<1>8. ClaimsApart
  <2>1. ASSUME NEW w \in Worker PROVE Counted(w)
    BY <1>1, <1>2 DEF Counted, Plain, PTypeOK
  <2>2. ASSUME NEW w \in Worker, NEW i \in 1 .. N, CanClaim(w, i) PROVE Everywhere = {}
    BY <1>1, <2>2 DEF Unstarted
  <2> QED
    BY <1>1, <2>1, <2>2 DEF ClaimsApart
<1>9. Buffers
  <2>1. PoolSound
    BY <1>2 DEF PoolSound, Plain
  <2>2. KeptShape
    BY <1>1, <1>2, <1>3 DEF KeptShape
  <2>3. ASSUME NEW w \in Worker PROVE BufferOf(w)
    <3>1. pc[w] = "left" => next > N
      BY <1>1 DEF Unstarted
    <3>2. FilesOf(buf[w]) = {}
      BY <1>1, PiecesEmpty
    <3> QED
      BY <1>1, <1>2, <3>1, <3>2 DEF BufferOf, Exhausted, Plain
  <2> QED
    BY <2>1, <2>2, <2>3 DEF Buffers
<1>10. PiecesOrdered
  <2>1. \A w \in Worker : InOrder(Precede, buf[w]) /\ InOrder(Precede, sending[w])
    BY <1>1, OrderEmpty
  <2>2. \A w \in Worker : /\ Ahead(Precede, Out, buf[w]) /\ Ahead(Precede, Out, sending[w])
                          /\ Ahead(Precede, sending[w], buf[w])
    BY <1>1, PiecesEmpty DEF Ahead
  <2>3. \A w \in Worker : OrderOf(w)
    BY <1>2, <2>1, <2>2 DEF OrderOf
  <2> QED
    BY <1>2, <1>3, <2>3 DEF PiecesOrdered
<1>11. LinesAhead
  BY <1>1 DEF LinesAhead
<1>12. KeptInPlace
  <2>1. ASSUME pool.to = "kept" PROVE InOrder(Ascend, Out) /\ PiecesOf(Out) = {}
    BY <1>3, <2>1, OrderEmpty, PiecesEmpty
  <2>2. N - Len(kept) = 0 /\ \A k \in 1 .. N : k + 0 = k
    BY <1>1, <1>2
  <2> QED
    BY <1>2, <1>3, <2>1, <2>2 DEF KeptInPlace
<1>13. BlocksApart
  BY <1>1, <1>2, <1>3 DEF BlocksApart, MailApart, Flow
<1>14. NothingLost
  <2>1. LinesThere
    BY <1>1 DEF LinesThere, Unstarted
  <2> QED
    BY <2>1 DEF NothingLost, Unstarted
<1> QED
  BY <1>4, <1>5, <1>6, <1>7, <1>8, <1>9, <1>10, <1>11, <1>12, <1>13, <1>14 DEF PIInv, PDelivery

\* The programs start so.
LEMMA UnstartedStarts ==
  ASSUME Plain(prog.pool), PStart(prog.pool, <<>>, IF Spawns THEN "none" ELSE "left")
  PROVE  PIInv /\ Unstarted
<1>1. /\ pool = prog.pool /\ files = <<>> /\ next = 1
      /\ at = [w \in Worker |-> BeforeFirst(w)] /\ line = [w \in Worker |-> 1]
      /\ buf = [w \in Worker |-> <<>>] /\ sending = [w \in Worker |-> <<>>]
      /\ pc = [w \in Worker |-> IF Spawns THEN "none" ELSE "left"] /\ holder = 0
      /\ mail = <<>> /\ kept = [i \in 1 .. N |-> <<>>]
      /\ stream = <<>> /\ stdout = <<>> /\ matched = FALSE
  BY DEF PStart
<1>2. PIInv
  <2>1. <<>> \in Seq(Files) /\ prog.pool \in Programs
    BY EmptySeq DEF Plain
  <2> DEFINE l == IF Spawns THEN "none" ELSE "left"
  <2>2. l \in {"none", "take", "left"} /\ PStart(prog.pool, <<>>, l)
    OBVIOUS
  <2> HIDE DEF l
  <2> QED
    BY <2>1, <2>2, PStartInv
<1>3. N = 0 /\ 1 .. N = {}
  BY <1>1, EmptySeq DEF N
<1>4. Len(kept) = N /\ kept = <<>>
  <2>1. Len(kept) \in Nat /\ DOMAIN kept = 1 .. Len(kept) /\ kept \in Seq(Seq(Piece))
    BY <1>2, LenProperties DEF PIInv, PTypeOK
  <2>2. DOMAIN kept = {}
    BY <1>1, <1>3
  <2>3. Len(kept) = 0
    BY <2>1, <2>2
  <2> QED
    BY <1>3, <2>1, <2>3, EmptySeq
<1>5. at = [w \in Worker |-> 0]
  BY <1>1 DEF BeforeFirst, Plain
<1>6. Out = <<>>
  BY <1>1, EmptySeq, ConcatEmptySeq DEF Out
<1>7. Everywhere = {}
  <2>1. Passed = {}
    BY <1>1, <1>4, <1>6, PiecesEmpty DEF Passed
  <2>2. \A w \in Worker : HeldBy(w) = {}
    BY <1>1, PiecesEmpty DEF HeldBy
  <2> QED
    BY <2>1, <2>2 DEF Everywhere
<1>8. Whole(files, Out) /\ InOrder(Precede, Out) /\ InOneStretch(Out)
  <2>1. Len(Out) = 0
    BY <1>6, EmptySeq
  <2> QED
    BY <1>6, <2>1, WholeEmpty, OrderEmpty DEF InOneStretch
<1> QED
  BY <1>1, <1>2, <1>3, <1>4, <1>5, <1>6, <1>7, <1>8 DEF Unstarted

\* What is added to the output and to the blocks kept for main when a file is found.
Added(b, o, file) ==
  /\ b \in Seq(Piece) /\ o \in Seq(Piece)
  /\ PiecesOf(b) \cup PiecesOf(o) = (IF Spawns THEN {} ELSE PiecesFrom(N + 1, file))
  /\ InOrder(Forward, b) /\ InOrder(Forward, o)
  /\ \A list : list[N + 1] = file => Whole(list, b) /\ Whole(list, o)
  /\ pool.to = "kept" => o = <<>>
  /\ pool.to # "kept" => b = <<>>

LEMMA RecordAdds ==
  ASSUME PTypeOK, NEW n \in Node, Record(n), prog.then \in {"search", "spawn"},
         prog.then = "search" => pool.to \in {"stream", "kept"}
  PROVE  \E b, o : /\ Added(b, o, Content[n]) /\ kept' = Append(kept, b) /\ Out' = Out \o o
                  /\ stream' \in Seq(Piece) /\ stdout' \in Seq(Piece)
                  /\ (pool.to = "stdout" => stream' = stream)
                  /\ matched' \in BOOLEAN
                  /\ (matched' <=> matched \/ PiecesOf(b) \cup PiecesOf(o) # {})
                  /\ next' = (IF Spawns THEN next ELSE next + 1)
<1> DEFINE file == Content[n]
           block == Block(N + 1, file)
<1>1. N \in Nat /\ file \in Files
  BY NativeAssumption, LenProperties DEF PTypeOK, N
<1> HIDE DEF file
<1>2. /\ block \in Seq(Piece) /\ InOrder(Forward, block) /\ PiecesOf(block) = PiecesFrom(N + 1, file)
      /\ \A list : list[N + 1] = file => Whole(list, block)
  BY <1>1, BlockIs
<1>3. <<>> \in Seq(Piece) /\ InOrder(Forward, <<>>) /\ PiecesOf(<<>>) = {} /\ \A list : Whole(list, <<>>)
  BY EmptySeq, OrderEmpty, PiecesEmpty, WholeEmpty
<1>4. block = <<>> <=> PiecesOf(block) = {}
  BY <1>2, PiecesType
<1>5. stream \in Seq(Piece) /\ stdout \in Seq(Piece) /\ Out \in Seq(Piece) /\ matched \in BOOLEAN
  BY ConcatPieces DEF PTypeOK, Out
<1>6. Out \o <<>> = Out
  BY <1>5, ConcatEmptySeq
<1>7. CASE Spawns
  <2>1. prog.then # "search" /\ kept' = Append(kept, <<>>) /\ UNCHANGED <<next, stream, stdout, matched>>
    BY <1>7 DEF Spawns, Record
  <2>2. Out' = Out
    BY <2>1 DEF Out
  <2>3. Added(<<>>, <<>>, file)
    BY <1>3, <1>7 DEF Added
  <2> QED
    BY <1>3, <1>5, <1>6, <1>7, <2>1, <2>2, <2>3 DEF file
<1>8. CASE ~ Spawns
  <2>1. prog.then = "search" /\ SearchNow(n) /\ next' = next + 1 /\ pool.to \in {"stream", "kept"}
    BY <1>8 DEF Spawns, Record
  <2>2. matched' = (matched \/ block # <<>>)
    BY <2>1 DEF SearchNow, file
  <2>3. CASE pool.to = "kept"
    <3>1. kept' = Append(kept, block) /\ UNCHANGED <<stream, stdout>>
      BY <2>1, <2>3 DEF SearchNow, file
    <3>2. Out' = Out
      BY <3>1 DEF Out
    <3>3. Added(block, <<>>, file)
      BY <1>2, <1>3, <1>8, <2>3 DEF Added
    <3> HIDE DEF block
    <3> QED
      BY <1>3, <1>4, <1>5, <1>6, <1>8, <2>1, <2>2, <2>3, <3>1, <3>2, <3>3 DEF file
  <2>4. CASE pool.to = "stream"
    <3>1. /\ kept' = Append(kept, <<>>)
          /\ \/ stream' = stream \o block /\ UNCHANGED stdout
             \/ stream' = <<>> /\ stdout' = stdout \o stream \o block
      BY <2>1, <2>4 DEF SearchNow, file
    <3> HIDE DEF block
    <3>2. /\ stdout \o (stream \o block) = (stdout \o stream) \o block
          /\ stream \o block \in Seq(Piece) /\ stdout \o stream \o block \in Seq(Piece)
          /\ (stdout \o stream \o block) \o <<>> = stdout \o stream \o block
      <4>1. stdout \o stream \in Seq(Piece) /\ stream \o block \in Seq(Piece)
        BY <1>2, <1>5, ConcatPieces
      <4>2. stdout \o stream \o block \in Seq(Piece)
        BY <1>2, <4>1, ConcatPieces
      <4>3. stdout \o (stream \o block) = (stdout \o stream) \o block
        BY <1>2, <1>5, ConcatAssociative
      <4> QED
        BY <4>1, <4>2, <4>3, ConcatEmptySeq
    <3>3. Out' = Out \o block /\ stream' \in Seq(Piece) /\ stdout' \in Seq(Piece)
      BY <1>3, <1>5, <3>1, <3>2 DEF Out
    <3>4. Added(<<>>, block, file)
      BY <1>2, <1>3, <1>8, <2>4 DEF Added
    <3> QED
      BY <1>3, <1>4, <1>5, <1>8, <2>1, <2>2, <2>4, <3>1, <3>3, <3>4 DEF file
  <2> QED
    BY <2>1, <2>3, <2>4
<1> QED
  BY <1>7, <1>8

\* Where own lines go out early, the order of a file is that of its lines.
LEMMA PlainForward ==
  ASSUME Plain(pool)
  PROVE  Precede = Forward
BY DEF Plain, Precede, Forward, MayPrecede

\* Whole lines stay whole when files that are not theirs are added to the list.
LEMMA WholeAgree ==
  ASSUME NEW list, NEW more, NEW s \in Seq(Piece), Whole(list, s),
         \A p \in PiecesOf(s) : more[p[1]] = list[p[1]]
  PROVE  Whole(more, s)
<1>1. Len(s) \in Nat
  BY LenProperties
<1>2. \A i \in 1 .. Len(s) : Unfinished(more, s[i]) <=> Unfinished(list, s[i])
  BY DEF PiecesOf, Unfinished
<1>3. \A i \in 1 .. Len(s) - 1 : i \in 1 .. Len(s)
  BY <1>1
<1>4. \A i \in 1 .. Len(s) - 1 : Follows(more, s[i], s[i + 1])
  BY <1>2, <1>3 DEF Whole, Follows
<1>5. s # <<>> => Len(s) \in 1 .. Len(s)
  BY <1>1, EmptySeq
<1> QED
  BY <1>2, <1>4, <1>5 DEF Whole

\* A file that is found joins the list, searched or with nothing out yet.
LEMMA RecordStep ==
  ASSUME PTypeOK, Unstarted, NEW n \in Node, Record(n), prog.then \in {"search", "spawn"},
         prog.then = "search" => pool.to \in {"stream", "kept"},
         UNCHANGED <<prog, pool, at, line, buf, sending, pc, holder, mail, status>>
  PROVE  PTypeOK' /\ Unstarted'
<1> DEFINE file == Content[n]
<1>1. PICK b, o : /\ Added(b, o, file) /\ kept' = Append(kept, b) /\ Out' = Out \o o
                  /\ stream' \in Seq(Piece) /\ stdout' \in Seq(Piece)
                  /\ (pool.to = "stdout" => stream' = stream)
                  /\ matched' \in BOOLEAN
                  /\ (matched' <=> matched \/ PiecesOf(b) \cup PiecesOf(o) # {})
                  /\ next' = (IF Spawns THEN next ELSE next + 1)
  BY RecordAdds
<1>2. files' = Append(files, file) /\ files \in Seq(Files) /\ file \in Files
  BY NativeAssumption DEF Record, PTypeOK
<1> HIDE DEF file
<1>3. N \in Nat /\ next = (IF Spawns THEN 1 ELSE N + 1) /\ Len(kept) = N /\ Plain(pool)
  BY NobodyWorks DEF Unstarted
<1>4. /\ files' \in Seq(Files) /\ N' = N + 1 /\ files'[N + 1] = file
      /\ \A i \in 1 .. N : files'[i] = files[i]
  BY <1>2, <1>3, AppendProperties DEF N
<1>5. /\ b \in Seq(Piece) /\ o \in Seq(Piece) /\ kept \in Seq(Seq(Piece)) /\ Out \in Seq(Piece)
      /\ InOrder(Forward, b) /\ InOrder(Forward, o)
      /\ PiecesOf(b) \cup PiecesOf(o) = (IF Spawns THEN {} ELSE PiecesFrom(N + 1, file))
  BY <1>1, PlaceTypes DEF Added, PTypeOK
<1>6. /\ kept' \in Seq(Seq(Piece)) /\ Len(kept') = N + 1 /\ kept'[N + 1] = b
      /\ \A k \in 1 .. N : kept'[k] = kept[k]
  <2>1. /\ kept' \in Seq(Seq(Piece)) /\ Len(kept') = Len(kept) + 1 /\ kept'[Len(kept) + 1] = b
        /\ \A k \in 1 .. Len(kept) : kept'[k] = kept[k]
    BY <1>1, <1>5, AppendProperties
  <2> QED
    BY <1>3, <2>1
<1>7. PTypeOK'
  <2>1. next' \in Nat \ {0}
    BY <1>1 DEF PTypeOK
  <2> QED
    BY <1>1, <1>4, <1>6, <2>1 DEF PTypeOK
<1>8. \A p \in PiecesOf(b) \cup PiecesOf(o) : p \in Piece /\ p[1] = N + 1
  <2>1. \A p \in PiecesFrom(N + 1, file) : p \in Piece /\ p[1] = N + 1
    BY DEF PiecesFrom, LinesTo
  <2> QED
    BY <1>5, <2>1
<1>9. Everywhere' = Everywhere \cup (PiecesOf(b) \cup PiecesOf(o))
  <2>1. Everywhere = PiecesOf(Out) \cup PiecesIn(kept)
    BY NobodyWorks
  <2>2. PiecesOf(Out') = PiecesOf(Out) \cup PiecesOf(o)
    BY <1>1, <1>5, PiecesConcat
  <2>3. PiecesIn(kept') = PiecesIn(kept) \cup PiecesOf(b)
    BY <1>1, <1>5, BlocksAppend
  <2>4. Passed' = PiecesOf(Out') \cup PiecesIn(kept')
    BY PiecesEmpty DEF Passed, Unstarted
  <2>5. \A w \in Worker : HeldBy(w)' = {}
    BY PiecesEmpty DEF HeldBy, Unstarted
  <2>6. Everywhere' = Passed'
    BY <2>5 DEF Everywhere
  <2> QED
    BY <2>1, <2>2, <2>3, <2>4, <2>6
<1>10. /\ \A p \in Everywhere : p[1] \in 1 .. N
       /\ PiecesOf(Out) \subseteq Everywhere /\ \A k \in 1 .. N : PiecesOf(kept[k]) \subseteq Everywhere
  BY <1>3, PlaceTypes DEF Unstarted
<1>11. \A p \in Everywhere : files'[p[1]] = files[p[1]] /\ p[1] # N + 1
  BY <1>3, <1>4, <1>10
<1>12. Whole(files', Out') /\ Whole(files', b)
  <2>1. Whole(files', b) /\ Whole(files', o)
    BY <1>1, <1>4 DEF Added
  <2>2. Whole(files', Out)
    <3>1. Whole(files, Out)
      BY DEF Unstarted
    <3> QED
      BY <1>5, <1>10, <1>11, <3>1, WholeAgree
  <2> QED
    BY <1>1, <1>5, <2>1, <2>2, WholeConcat
<1>13. Precede = Forward /\ Precede' = Forward
  BY <1>3, PlainForward DEF Precede, Plain, Forward, MayPrecede
<1>14. InOrder(Precede', Out')
  <2>1. InOrder(Forward, Out)
    BY <1>13 DEF Unstarted
  <2>2. Ahead(Forward, Out, o)
    <3>1. ASSUME NEW x \in PiecesOf(Out), NEW y \in PiecesOf(o) PROVE <<x, y>> \in Forward
      BY <1>5, <1>8, <1>10, <1>11, PiecesType DEF Forward
    <3> QED
      BY <3>1 DEF Ahead
  <2> QED
    BY <1>1, <1>5, <1>13, <2>1, <2>2, OrderConcat
<1>15. InOneStretch(Out')
  <2>1. InOneStretch(Out)
    BY DEF Unstarted
  <2>2. InOneStretch(o)
    BY <1>5, <1>8, TogetherOne
  <2>3. FilesOf(Out) \cap FilesOf(o) = {}
    BY <1>8, <1>10, <1>11 DEF FilesOf
  <2> QED
    BY <1>1, <1>5, <2>1, <2>2, <2>3, TogetherConcat
<1>16. ASSUME NEW k \in 1 .. N + 1
       PROVE  /\ Whole(files', kept'[k]) /\ InOrder(Precede', kept'[k]) /\ FilesOf(kept'[k]) \subseteq {k}
              /\ pool'.to # "kept" => kept'[k] = <<>>
  <2>1. CASE k = N + 1
    <3>1. FilesOf(b) \subseteq {N + 1}
      BY <1>8 DEF FilesOf
    <3>2. pool'.to # "kept" => b = <<>>
      BY <1>1 DEF Added
    <3> QED
      BY <1>5, <1>6, <1>12, <1>13, <2>1, <3>1, <3>2
  <2>2. CASE k # N + 1
    <3>1. k \in 1 .. N
      BY <1>3, <2>2
    <3>2. /\ Whole(files, kept[k]) /\ InOrder(Precede, kept[k]) /\ FilesOf(kept[k]) \subseteq {k}
          /\ pool.to # "kept" => kept[k] = <<>>
      BY <3>1 DEF Unstarted
    <3>3. kept[k] \in Seq(Piece)
      BY <1>3, <3>1, PlaceTypes
    <3>4. Whole(files', kept[k])
      BY <1>10, <1>11, <3>1, <3>2, <3>3, WholeAgree
    <3> QED
      BY <1>6, <1>13, <3>1, <3>2, <3>4
  <2> QED
    BY <2>1, <2>2
<1>17. \A p \in Everywhere' : p[1] \in 1 .. N'
  BY <1>3, <1>4, <1>8, <1>9, <1>10
<1>18. matched' <=> Everywhere' # {}
  BY <1>1, <1>9 DEF Unstarted
<1>19. Spawns' <=> Spawns
  BY DEF Spawns
<1>20. IF Spawns THEN Everywhere' = {}
       ELSE \A i \in 1 .. N' : files'[i].fault = "no" =>
              \A l \in 1 .. Len(files'[i].lines) : LineThere(i, l)'
  <2>1. CASE Spawns
    BY <1>5, <1>9, <2>1 DEF Unstarted
  <2>2. CASE ~ Spawns
    <3> SUFFICES ASSUME NEW i \in 1 .. N', files'[i].fault = "no", NEW l \in 1 .. Len(files'[i].lines),
                        NEW k \in 1 .. files'[i].lines[l]
                 PROVE  <<i, l, k>> \in Everywhere'
      BY <2>2 DEF LineThere
    <3>1. CASE i = N + 1
      <4>1. /\ i \in Nat /\ file.lines \in Seq(1 .. MAX_LINE) /\ file.fault = "no"
            /\ l \in 1 .. Len(file.lines) /\ k \in 1 .. file.lines[l]
        <5>1. file.lines \in Seq(1 .. MAX_LINE)
          BY <1>2 DEF Files
        <5>2. files'[i] = file /\ i \in Nat
          BY <1>3, <1>4, <3>1
        <5> QED
          BY <5>1, <5>2
      <4>2. l \in Nat /\ k \in Nat
        <5>1. Len(file.lines) \in Nat /\ file.lines[l] \in 1 .. MAX_LINE
          BY <4>1, LenProperties, ElementOfSeq
        <5> QED
          BY <4>1, <5>1, PoolAssumption
      <4>3. <<i, l, k>> \in LinesTo(N + 1, file, Len(file.lines))
        BY <3>1, <4>1, <4>2 DEF LinesTo, Piece
      <4>4. <<i, l, k>> \in PiecesFrom(N + 1, file)
        BY <4>1, <4>3 DEF PiecesFrom
      <4> QED
        BY <1>5, <1>9, <2>2, <4>4
    <3>2. CASE i # N + 1
      <4>1. i \in 1 .. N /\ files'[i] = files[i]
        BY <1>3, <1>4, <3>2
      <4>2. LineThere(i, l)
        BY <2>2, <4>1 DEF Unstarted
      <4> QED
        BY <1>9, <4>1, <4>2 DEF LineThere
    <3> QED
      BY <3>1, <3>2
  <2> QED
    BY <2>1, <2>2
<1>21. next' = (IF Spawns THEN 1 ELSE N' + 1)
  BY <1>1, <1>3, <1>4
<1>22. (pool'.to = "stdout" => stream' = <<>>) /\ (pool'.to = "kept" => Out' = <<>>)
  <2>1. ASSUME pool.to = "kept" PROVE Out' = <<>>
    <3>1. Out = <<>> /\ o = <<>>
      BY <1>1, <2>1 DEF Added, Unstarted
    <3> QED
      BY <1>1, <3>1, ConcatEmptySeq, EmptySeq
  <2> QED
    BY <1>1, <2>1 DEF Unstarted
<1>23. Len(kept') = N'
  BY <1>4, <1>6
<1>24. /\ Plain(pool)' /\ at' = [w \in Worker |-> 0] /\ line' = [w \in Worker |-> 1]
       /\ buf' = [w \in Worker |-> <<>>] /\ sending' = [w \in Worker |-> <<>>]
       /\ pc' = [w \in Worker |-> IF Spawns' THEN "none" ELSE "left"] /\ holder' = 0
       /\ mail' = <<>>
  BY <1>19 DEF Unstarted, Plain
<1> QED
  BY <1>4, <1>7, <1>12, <1>14, <1>15, <1>16, <1>17, <1>18, <1>19, <1>20, <1>21, <1>22, <1>23, <1>24
  DEF Unstarted

\* What a step of main changes that only has to do with workers that are not there: it may
\* start one or see that it does not start.
Idles ==
  /\ UNCHANGED <<pool, files, next, line, buf, sending, holder, mail, kept, stream, stdout, matched>>
  /\ pc' \in [Worker -> Where] /\ at' \in [Worker -> Int] /\ status' \in {-1, 0, 1, 2, FAILED, SIGSEGV}
  /\ \A v \in Worker : \/ pc'[v] = pc[v] /\ at'[v] = at[v]
                       \/ pc[v] = "none" /\ pc'[v] \in {"none", "take"} /\ at'[v] >= at[v]
  /\ pc' = pc \/ Len(kept) = N

LEMMA IdleStep ==
  ASSUME PIInv, PDelivery, Idles,
         \A v \in Worker : Counted(v)',
         \A v \in Worker, i \in 1 .. N : CanClaim(v, i)' => CanClaim(v, i),
         \A v \in Worker, i \in 1 .. N : CanClaim(v, i) => MainHas(i)' \/ \E u \in Worker : CanClaim(u, i)',
         \A i \in 1 .. N : MainHas(i) => MainHas(i)',
         SliceInMain => SliceInMain'
  PROVE  /\ PIInv' /\ PDelivery' /\ Everywhere' = Everywhere /\ Out' = Out /\ N' = N /\ Precede' = Precede
         /\ \A v \in Worker : Mine(v)' = Mine(v)
<1>1. /\ PTypeOK /\ PShape /\ OneWriter /\ BlocksWhole /\ OutWhole
      /\ ClaimsApart /\ Buffers /\ PiecesOrdered /\ LinesAhead /\ KeptInPlace /\ BlocksApart /\ NothingLost
  BY DEF PIInv, PDelivery
<1>2. /\ UNCHANGED <<pool, files, next, line, buf, sending, holder, mail, kept, stream, stdout, matched>>
      /\ \A v \in Worker : \/ pc'[v] = pc[v] /\ at'[v] = at[v]
                           \/ pc[v] = "none" /\ pc'[v] \in {"none", "take"} /\ at'[v] >= at[v]
      /\ pc' = pc \/ Len(kept) = N
  BY DEF Idles
<1>3. /\ Precede' = Precede /\ N' = N /\ PoolSound' = PoolSound
      /\ \A w \in Worker : LastOf(w)' = LastOf(w)
  BY <1>2, InputStays
<1>4. Out' = Out /\ Flow' = Flow
  BY <1>2 DEF Out, Flow
<1>5. \A v \in Worker : /\ pc[v] = "none" => buf[v] = <<>> /\ sending[v] = <<>>
                        /\ pc[v] # "none" => pc'[v] = pc[v] /\ at'[v] = at[v]
                        /\ pc[v] = "none" => pc'[v] \in {"none", "take"}
  BY <1>1, <1>2 DEF Buffers, BufferOf, PShape, PShapeOf
<1>6. \A v \in Worker : InHand(v)' <=> InHand(v)
  BY <1>3, <1>5 DEF InHand
<1>7. \A v \in Worker : InHand(v) => at'[v] = at[v]
  BY <1>5 DEF InHand
<1>8. \A v \in Worker : Mine(v)' = Mine(v)
  BY <1>2, <1>6, <1>7 DEF Mine
<1>9. Passed' = Passed /\ Everywhere' = Everywhere
  <2>1. Passed' = Passed
    BY <1>2, <1>4 DEF Passed
  <2>2. \A v \in Worker : HeldBy(v)' = HeldBy(v)
    BY <1>2 DEF HeldBy
  <2> QED
    BY <2>1, <2>2 DEF Everywhere
<1>10. PTypeOK'
  BY <1>1, <1>2 DEF PTypeOK, Idles
<1>11. PShape'
  <2>1. ASSUME NEW v \in Worker PROVE PShapeOf(v)'
    <3>1. PShapeOf(v) /\ LastOf(v)' = LastOf(v) /\ UNCHANGED <<line, sending, pool>>
      BY <1>1, <1>2, <1>3 DEF PShape
    <3>2. CASE pc'[v] = pc[v] /\ at'[v] = at[v]
      BY <3>1, <3>2 DEF PShapeOf
    <3>3. CASE pc[v] = "none" /\ pc'[v] \in {"none", "take"} /\ at'[v] >= at[v]
      <4>1. at[v] >= (IF pool.hand = "stride" THEN 1 - NWorkers ELSE 0) /\ line[v] >= 1 /\ sending[v] = <<>>
        BY <3>1, <3>3 DEF PShapeOf
      <4>2. at[v] \in Int /\ at'[v] \in Int /\ NWorkers \in Int
        BY <1>1, PoolAssumption DEF PTypeOK, Idles
      <4>3. at'[v] >= (IF pool.hand = "stride" THEN 1 - NWorkers ELSE 0)
        BY <3>3, <4>1, <4>2
      <4> QED
        BY <3>1, <3>3, <4>1, <4>3 DEF PShapeOf
    <3> QED
      BY <1>2, <3>2, <3>3
  <2> QED
    BY <1>1, <1>2, <2>1 DEF PShape
<1>12. OneWriter'
  BY <1>1, <1>2, <1>5 DEF OneWriter, At
<1>13. BlocksWhole'
  BY <1>1, <1>2, <1>5 DEF BlocksWhole, At
<1>14. OutWhole'
  BY <1>1, <1>2, <1>4 DEF OutWhole
<1>15. ClaimsApart'
  <2>1. \A w, v \in Worker : w # v => Mine(w)' \cap Mine(v)' = {}
    BY <1>1, <1>8 DEF ClaimsApart
  <2>2. ASSUME NEW w \in Worker, NEW i \in 1 .. N, CanClaim(w, i)'
        PROVE  /\ \A v \in Worker : InHand(v)' => at'[v] # i
               /\ \A p \in Everywhere' : p[1] # i
    <3>1. CanClaim(w, i)
      BY <2>2
    <3> QED
      BY <1>1, <1>6, <1>7, <1>9, <3>1 DEF ClaimsApart
  <2> QED
    BY <1>3, <2>1, <2>2 DEF ClaimsApart
<1>16. Buffers'
  <2>1. ASSUME NEW v \in Worker PROVE BufferOf(v)'
    <3>1. /\ BufferOf(v) /\ LastOf(v)' = LastOf(v) /\ N' = N /\ UNCHANGED <<pool, files, line, buf, sending, next>>
          /\ InHand(v)' <=> InHand(v)
      BY <1>1, <1>2, <1>3, <1>6 DEF Buffers
    <3>2. CASE pc'[v] = pc[v] /\ at'[v] = at[v]
      BY <3>1, <3>2 DEF BufferOf, Exhausted, Lines
    <3>3. CASE pc[v] = "none" /\ pc'[v] \in {"none", "take"}
      <4>1. buf[v] = <<>> /\ FilesOf(buf[v]) = {}
        BY <1>5, <3>3, PiecesEmpty
      <4> QED
        BY <3>1, <3>3, <4>1 DEF BufferOf
    <3> QED
      BY <1>2, <3>2, <3>3
  <2>2. KeptShape'
    <3>1. KeptShape
      BY <1>1 DEF Buffers
    <3>2. CASE pc' = pc
      BY <1>2, <1>3, <3>1, <3>2 DEF KeptShape
    <3>3. CASE Len(kept) = N
      <4>1. N \in Nat
        BY <1>1, LenProperties DEF PTypeOK, N
      <4> QED
        BY <1>2, <1>3, <3>1, <3>3, <4>1 DEF KeptShape
    <3> QED
      BY <1>2, <3>2, <3>3
  <2> QED
    BY <1>1, <1>3, <2>1, <2>2 DEF Buffers
<1>17. PiecesOrdered'
  <2>1. \A v \in Worker : OrderOf(v)'
    BY <1>1, <1>2, <1>3, <1>4 DEF PiecesOrdered, OrderOf
  <2> QED
    BY <1>1, <1>2, <1>3, <1>4, <2>1 DEF PiecesOrdered
<1>18. LinesAhead'
  BY <1>1, <1>2, <1>6, <1>7, <1>9 DEF LinesAhead
<1>19. KeptInPlace'
  BY <1>1, <1>2, <1>3, <1>4 DEF KeptInPlace
<1>20. BlocksApart'
  <2>1. \A v \in Worker : pc'[v] \in {"open", "search", "lock"} =>
          /\ pc'[v] = pc[v] /\ (Unpassed(v)' <=> Unpassed(v))
          /\ More(v)' <=> More(v)
    BY <1>2, <1>5, <1>9 DEF Unpassed, More, Lines, At
  <2>2. MailApart' <=> MailApart
    BY <1>2, <1>4 DEF MailApart
  <2> QED
    BY <1>1, <1>2, <1>4, <2>1, <2>2 DEF BlocksApart
<1>21. NothingLost'
  <2>1. ASSUME NEW i \in 1 .. N, files[i].fault = "no"
        PROVE  \/ MainHas(i)'
               \/ \E w \in Worker : CanClaim(w, i)'
               \/ \E w \in Worker : InHand(w)' /\ at'[w] = i /\ \A l \in 1 .. line'[w] - 1 : LineThere(i, l)'
               \/ \A l \in 1 .. Len(files'[i].lines) : LineThere(i, l)'
    <3>1. \A l : LineThere(i, l)' <=> LineThere(i, l)
      BY <1>2, <1>9 DEF LineThere
    <3>2. \/ MainHas(i)
          \/ \E w \in Worker : CanClaim(w, i)
          \/ \E w \in Worker : InHand(w) /\ at[w] = i /\ \A l \in 1 .. line[w] - 1 : LineThere(i, l)
          \/ \A l \in 1 .. Len(files[i].lines) : LineThere(i, l)
      BY <1>1, <2>1 DEF NothingLost, LinesThere
    <3> QED
      BY <1>2, <1>6, <1>7, <3>1, <3>2
  <2>2. LinesThere'
    BY <1>2, <1>3, <2>1 DEF LinesThere
  <2> QED
    BY <1>1, <1>2, <1>9, <2>2 DEF NothingLost
<1> QED
  BY <1>3, <1>4, <1>8, <1>9, <1>10, <1>11, <1>12, <1>13, <1>14, <1>15, <1>16, <1>17, <1>18, <1>19,
     <1>20, <1>21
  DEF PIInv, PDelivery

\* What main has to write stays as it should be in a step that takes no file of it and
\* gives main no more to do.
LEMMA InlineStays ==
  ASSUME InlineRight, UNCHANGED <<prog, inline, files>>, N' = N, Precede' = Precede,
         Everywhere \subseteq Everywhere', Ahead(Precede, Out', inline),
         inline # <<>> => status' = -1,
         SliceInMain => SliceInMain',
         \A i \in FilesOf(inline) : \A w \in Worker : i \notin Mine(w)',
         \A w \in Worker, i \in 1 .. N : CanClaim(w, i)' => CanClaim(w, i),
         \A i \in 1 .. N : MainHas(i)' => MainHas(i)
  PROVE  InlineRight'
<1>1. ASSUME NEW i \in 1 .. N, files[i].fault = "no", MainHas(i)',
             NEW l \in 1 .. Len(files[i].lines), NEW k \in 1 .. files[i].lines[l]
      PROVE  <<i, l, k>> \in Everywhere' \cup PiecesOf(inline)
  BY <1>1 DEF InlineRight
<1>2. \A i \in FilesOf(inline) : \A w \in Worker : i \notin Mine(w)' /\ (i \in 1 .. N => ~ CanClaim(w, i)')
  BY DEF InlineRight
<1>3. /\ inline \in Seq(Piece) /\ InOrder(Precede, inline)
      /\ inline # <<>> => prog = grep_mt_lua /\ status = -1 /\ SliceInMain
  BY DEF InlineRight
<1> QED
  BY <1>1, <1>2, <1>3 DEF InlineRight

LEMMA AlreadyComplete ==
  ASSUME Complete, UNCHANGED <<files, at, pc, pool, stdout>>, status' = status \/ status' \notin {0, 1}
  PROVE  Complete'
<1>1. N' = N /\ \A w \in Worker : LastOf(w)' = LastOf(w)
  BY InputStays
<1>2. (AllPrinted' <=> AllPrinted) /\ (SliceInMain' <=> SliceInMain)
  BY <1>1 DEF AllPrinted, SliceInMain, At
<1> QED
  BY <1>2 DEF Complete

\* The other parts leave the pool alone, or only end it.
LEMMA StillStep ==
  ASSUME PIInv, PDelivery, InlineRight, Complete,
         UNCHANGED <<prog, inline, input, work, buf, sending, pc, holder, output, matched>>,
         status' \in {-1, 0, 1, 2, FAILED, SIGSEGV}, inline # <<>> => status' = -1,
         status' = status \/ status' \notin {0, 1}
  PROVE  PIInv' /\ PDelivery' /\ InlineRight' /\ Complete'
<1>1. /\ UNCHANGED <<prog, inline, pool, files, next, at, line, buf, sending, pc, holder, mail, kept,
                     stream, stdout, matched>>
      /\ PTypeOK
  BY DEF input, work, output, PIInv
<1>2. \A v \in Worker, i \in 1 .. N : CanClaim(v, i)' <=> CanClaim(v, i)
  BY <1>1, ClaimFrame
<1>3. N' = N /\ \A w \in Worker : LastOf(w)' = LastOf(w) /\ SliceEnd(w - 1)' = SliceEnd(w - 1)
  BY <1>1, InputStays
<1>4. (SliceInMain' <=> SliceInMain) /\ \A i : MainHas(i)' <=> MainHas(i)
  BY <1>1, <1>3 DEF SliceInMain, MainHas, At
<1>5. \A v \in Worker : Counted(v)'
  BY <1>1, <1>3 DEF PDelivery, ClaimsApart, Counted
<1>6. Idles
  BY <1>1 DEF Idles, PTypeOK
<1>7. /\ PIInv' /\ PDelivery' /\ Everywhere' = Everywhere /\ Out' = Out /\ N' = N /\ Precede' = Precede
      /\ \A v \in Worker : Mine(v)' = Mine(v)
  BY <1>2, <1>4, <1>5, <1>6, IdleStep
<1>8. InlineRight'
  <2>1. Ahead(Precede, Out', inline) /\ \A i \in FilesOf(inline) : \A w \in Worker : i \notin Mine(w)'
    BY <1>7 DEF InlineRight
  <2> QED
    BY <1>1, <1>2, <1>4, <1>7, <2>1, InlineStays
<1>9. Complete'
  BY <1>1, AlreadyComplete
<1> QED
  BY <1>7, <1>8, <1>9

\* Where every NWorkers-th file is a worker's that has not begun, it can claim these files
\* and no others.
LEMMA SliceClaims ==
  ASSUME PTypeOK, NEW w \in Worker, pool.hand = "stride", at[w] = w - NWorkers, NEW i \in 1 .. N
  PROVE  CanClaim(w, i) <=> (i - w) % NWorkers = 0
<1>1. NWorkers \in Nat \ {0} /\ w \in 1 .. NWorkers /\ i \in Nat \ {0} /\ i - w \in Int
  BY PoolAssumption, LenProperties DEF Worker, PTypeOK, N
<1>2. ASSUME CanClaim(w, i) PROVE (i - w) % NWorkers = 0
  <2>1. PICK m \in 1 .. i - at[w] : i = at[w] + m * NWorkers
    BY <1>2 DEF CanClaim
  <2>2. m - 1 \in Int /\ (m - 1) * NWorkers = m * NWorkers - NWorkers /\ m * NWorkers \in Int
    BY <1>1, <2>1
  <2>3. i - w = (m - 1) * NWorkers
    BY <1>1, <2>1, <2>2
  <2> QED
    BY <1>1, <2>2, <2>3, Multiples
<1>3. ASSUME (i - w) % NWorkers = 0 PROVE CanClaim(w, i)
  <2>1. PICK q \in Int : i - w = NWorkers * q
    <3>1. (i - w) \div NWorkers \in Int /\ i - w = NWorkers * ((i - w) \div NWorkers) + ((i - w) % NWorkers)
      BY <1>1
    <3> QED
      BY <1>1, <1>3, <3>1
  <2>2. i - w > - NWorkers
    BY <1>1
  <2>3. q >= 0
    <3>1. CASE q <= -1
      <4>1. NWorkers * q = -NWorkers - NWorkers * (-1 - q) /\ NWorkers * (-1 - q) \in Nat
        BY <1>1, <2>1, <3>1
      <4> QED
        BY <1>1, <2>1, <2>2, <4>1
    <3> QED
      BY <2>1, <3>1
  <2>4. (q + 1) * NWorkers = NWorkers * q + NWorkers /\ NWorkers * q \in Int
    BY <1>1, <2>1
  <2>5. i = at[w] + (q + 1) * NWorkers
    BY <1>1, <2>1, <2>4
  <2>6. (q + 1) * NWorkers = (q + 1) + (q + 1) * (NWorkers - 1) /\ (q + 1) * (NWorkers - 1) \in Nat
    BY <1>1, <2>1, <2>3
  <2>7. q + 1 <= (q + 1) * NWorkers /\ (q + 1) * NWorkers = i - at[w]
    BY <1>1, <2>1, <2>3, <2>5, <2>6
  <2>8. q + 1 \in 1 .. i - at[w]
    BY <1>1, <2>1, <2>3, <2>7
  <2> QED
    BY <2>5, <2>8 DEF CanClaim
<1> QED
  BY <1>2, <1>3

\* The thread main comes to next.
LEMMA NextThread ==
  ASSUME prog \in AllPrograms, PTypeOK, Launched, Spawn
  PROVE  /\ started + 1 \in Worker /\ pc[started + 1] = "none"
         /\ at[started + 1] = BeforeFirst(started + 1) /\ BeforeFirst(started + 1) <= LastOf(started + 1)
         /\ started \in Nat /\ Spawns /\ prog # Unmodelled /\ pool = prog.pool /\ Len(kept) = N
         /\ status = -1 /\ inline = <<>> /\ phase = "spawn" /\ N \in Nat /\ NWorkers \in Nat \ {0}
         /\ UNCHANGED <<prog, pool, files, next, line, buf, sending, holder, mail, kept, stream, stdout, matched>>
<1>1. /\ phase = "spawn" /\ status = -1 /\ inline = <<>>
      /\ UNCHANGED <<prog, pool, files, next, line, buf, sending, holder, mail, kept, stream, stdout, matched>>
  BY DEF Spawn, input, output
<1>2. NWorkers \in Nat \ {0} /\ N \in Nat
  BY PoolAssumption, LenProperties DEF PTypeOK, N
<1>3. /\ started \in 0 .. NWorkers /\ Spawns /\ started < NWorkers /\ Len(kept) = N
      /\ \A w \in Worker : w > started => At(w, "none")
      /\ prog # Unmodelled /\ pool = prog.pool
  BY <1>1 DEF Launched
<1> DEFINE w == started + 1
<1>4. w \in Worker /\ w > started /\ ~ w <= started /\ started \in Nat
  BY <1>2, <1>3 DEF Worker
<1> HIDE DEF w
<1>5. pc[w] = "none" /\ at[w] = BeforeFirst(w)
  <2>1. At(w, "none")
    BY <1>3, <1>4
  <2>2. Awaits(w) \/ Missed(w)
    BY <1>4, <2>1 DEF Launched
  <2> QED
    BY <1>4, <2>1, <2>2 DEF Awaits, Missed, At
<1>6. BeforeFirst(w) <= LastOf(w)
  <2>1. w \in 0 .. NWorkers /\ w - 1 \in 0 .. NWorkers /\ w - 1 <= w /\ w - NWorkers <= 0 /\ w - NWorkers \in Int
    BY <1>2, <1>4 DEF Worker
  <2>2. SliceEnd(w - 1) \in Nat /\ SliceEnd(w) \in Nat /\ SliceEnd(w - 1) <= SliceEnd(w)
    BY <2>1, SliceOrder
  <2>3. pool.hand \in {"counter", "stride", "chunk"}
    BY DEF PTypeOK, Programs
  <2> QED
    BY <1>2, <2>1, <2>2, <2>3 DEF BeforeFirst, LastOf
<1> QED
  BY <1>1, <1>2, <1>3, <1>4, <1>5, <1>6 DEF w

\* Main has come one thread further.
LEMMA SpawnLaunched ==
  ASSUME prog \in AllPrograms, PTypeOK, Launched, Spawn, NEW w, w = started + 1,
         \A v \in Worker : v # w => pc'[v] = pc[v] /\ at'[v] = at[v],
         At(w, "none")' => Missed(w)'
  PROVE  Launched'
<1>1. /\ w \in Worker /\ started \in Nat /\ Spawns /\ prog # Unmodelled /\ pool = prog.pool /\ Len(kept) = N
      /\ phase = "spawn" /\ NWorkers \in Nat \ {0} /\ UNCHANGED <<prog, pool, files, kept, next>>
  BY NextThread
<1>2. started' = w /\ phase' = IF w = NWorkers THEN "pool" ELSE "spawn"
  BY DEF Spawn
<1>3. w \in 1 .. NWorkers /\ (w # NWorkers => w < NWorkers) /\ \A v \in Worker : v > w => v > started /\ v # w
  BY <1>1 DEF Worker
<1>4. N' = N /\ \A v : BeforeFirst(v)' = BeforeFirst(v)
  BY <1>1, InputStays DEF BeforeFirst, SliceEnd, N
<1>5. \A v \in Worker : v > w => At(v, "none")'
  BY <1>1, <1>3 DEF Launched, At
<1>6. ASSUME NEW v \in Worker, At(v, "none")' PROVE Awaits(v)' \/ Missed(v)'
  <2>1. CASE v = w
    BY <1>6, <2>1
  <2>2. CASE v # w
    <3>1. At(v, "none") /\ at'[v] = at[v]
      BY <1>6, <2>2 DEF At
    <3>2. Awaits(v) \/ Missed(v)
      BY <3>1 DEF Launched
    <3>3. CASE Awaits(v)
      <4>1. v > started /\ at[v] = BeforeFirst(v)
        BY <3>3 DEF Awaits
      <4>2. v > w /\ w # NWorkers
        BY <1>1, <1>3, <2>2, <4>1 DEF Worker
      <4> QED
        BY <1>2, <1>4, <3>1, <4>1, <4>2 DEF Awaits
    <3>4. CASE Missed(v)
      <4>1. v <= started'
        BY <1>1, <1>2, <3>4 DEF Missed, Worker
      <4> QED
        BY <1>1, <1>4, <3>1, <3>4, <4>1 DEF Missed
    <3> QED
      BY <3>2, <3>3, <3>4
  <2> QED
    BY <2>1, <2>2
<1>7. Spawns'
  BY <1>1 DEF Spawns
<1>8. started' \in 0 .. NWorkers /\ (phase' = "spawn" => started' < NWorkers) /\ (phase' = "pool" => started' = NWorkers)
  BY <1>2, <1>3
<1> QED
  BY <1>1, <1>2, <1>3, <1>4, <1>5, <1>6, <1>7, <1>8 DEF Launched

LEMMA ThreadStarts ==
  ASSUME prog \in AllPrograms, PIInv, PDelivery, Launched, InlineRight, Complete, Spawn,
         NEW w, w = started + 1, Goto(w, "take"), UNCHANGED <<at, status, inline>>
  PROVE  PIInv' /\ PDelivery' /\ Launched' /\ InlineRight' /\ Complete'
<1>0. PTypeOK
  BY DEF PIInv
<1>1. /\ w \in Worker /\ pc[w] = "none" /\ at[w] = BeforeFirst(w) /\ BeforeFirst(w) <= LastOf(w)
      /\ Len(kept) = N /\ status = -1 /\ inline = <<>>
      /\ UNCHANGED <<prog, pool, files, next, line, buf, sending, holder, mail, kept, stream, stdout, matched>>
  BY <1>0, NextThread
<1>2. pc' = [pc EXCEPT ![w] = "take"]
  BY DEF Goto
<1>3. pc'[w] = "take" /\ pc' \in [Worker -> Where] /\ \A v \in Worker : v # w => pc'[v] = pc[v]
  BY <1>0, <1>1, <1>2 DEF PTypeOK, Where
<1>4. at \in [Worker -> Int]
  BY <1>0 DEF PTypeOK
<1>5. \A v \in Worker, i \in 1 .. N : CanClaim(v, i)' <=> CanClaim(v, i)
  BY <1>1, ClaimFrame
<1>6. N' = N /\ \A v \in Worker : LastOf(v)' = LastOf(v) /\ SliceEnd(v - 1)' = SliceEnd(v - 1)
  BY <1>1, InputStays
<1>7. at[w] \in Int /\ LastOf(w) \in Int /\ ~ at[w] > LastOf(w)
  <2>1. LastOf(w) \in Int
    <3>1. w \in 0 .. NWorkers /\ N \in Int
      BY <1>0, <1>1, LenProperties, PoolAssumption DEF Worker, N, PTypeOK
    <3>2. SliceEnd(w) \in Int
      BY <1>0, <3>1, SliceInList
    <3> QED
      BY <3>1, <3>2 DEF LastOf
  <2> QED
    BY <1>1, <1>4, <2>1
<1>8. \A v \in Worker : (At(v, "none") /\ at[v] > LastOf(v)) <=> (At(v, "none")' /\ at'[v] > LastOf(v)')
  BY <1>1, <1>3, <1>6, <1>7 DEF At
<1>9. SliceInMain' <=> SliceInMain
  BY <1>8 DEF SliceInMain
<1>10. ASSUME NEW i PROVE MainHas(i)' <=> MainHas(i)
  <2>1. pool'.hand = pool.hand
    BY <1>1
  <2> QED
    BY <1>8, <2>1 DEF MainHas
<1>11. \A v \in Worker : Counted(v)'
  BY <1>1, <1>6 DEF PDelivery, ClaimsApart, Counted
<1>12. Idles
  BY <1>0, <1>1, <1>3, <1>4 DEF Idles, PTypeOK
<1>13. /\ PIInv' /\ PDelivery' /\ Everywhere' = Everywhere /\ Out' = Out /\ N' = N /\ Precede' = Precede
       /\ \A v \in Worker : Mine(v)' = Mine(v)
  BY <1>5, <1>9, <1>10, <1>11, <1>12, IdleStep
<1>14. InlineRight'
  <2>1. Ahead(Precede, Out', inline) /\ \A i \in FilesOf(inline) : \A v \in Worker : i \notin Mine(v)'
    BY <1>13 DEF InlineRight
  <2> QED
    BY <1>1, <1>5, <1>9, <1>10, <1>13, <2>1, InlineStays
<1>15. Launched'
  <2>1. \A v \in Worker : v # w => pc'[v] = pc[v] /\ at'[v] = at[v]
    BY <1>3
  <2>2. ~ At(w, "none")'
    BY <1>3 DEF At
  <2> QED
    BY <1>0, <2>1, <2>2, SpawnLaunched
<1>16. Complete'
  BY <1>1 DEF Complete
<1> QED
  BY <1>13, <1>14, <1>15, <1>16

\* A thread that does not start leaves its files to the others, or ends the program.
LEMMA ThreadFails ==
  ASSUME prog \in AllPrograms, PIInv, PDelivery, Launched, InlineRight, Complete, Spawn,
         NEW w, w = started + 1, UNCHANGED <<at, pc, inline>>, prog.alone \in {"ignored", "throws"}, status' \in {status, FAILED}
  PROVE  PIInv' /\ PDelivery' /\ Launched' /\ InlineRight' /\ Complete'
<1>0. PTypeOK
  BY DEF PIInv
<1>1. /\ w \in Worker /\ pc[w] = "none" /\ at[w] = BeforeFirst(w) /\ started \in Nat
      /\ status = -1 /\ inline = <<>> /\ pool = prog.pool
      /\ UNCHANGED <<prog, pool, files, next, line, buf, sending, holder, mail, kept, stream, stdout, matched>>
  BY <1>0, NextThread
<1>2. status' \in {-1, FAILED}
  BY <1>1
<1>3. UNCHANGED <<prog, inline, input, work, buf, sending, pc, holder, output, matched>>
  BY <1>1 DEF input, work, output
<1>4. PIInv' /\ PDelivery' /\ InlineRight' /\ Complete'
  <2>1. status' \in {-1, 0, 1, 2, FAILED, SIGSEGV} /\ (inline # <<>> => status' = -1)
        /\ (status' = status \/ status' \notin {0, 1})
    BY <1>1, <1>2 DEF FAILED
  <2> QED
    BY <1>3, <2>1, StillStep
<1>5. Launched'
  <2>1. prog # grep_mt_lua
    BY PoolsOf
  <2>2. pool.hand = "counter"
    BY <1>1, <2>1, PoolsOf DEF Plain
  <2>3. at[w] = 0
    BY <1>1, <2>2 DEF BeforeFirst
  <2>4. started' = w /\ w <= w
    <3>1. w \in Nat
      BY <1>1
    <3> QED
      BY <3>1 DEF Spawn
  <2>5. Missed(w)'
    BY <1>1, <2>2, <2>3, <2>4 DEF Missed
  <2>6. \A v \in Worker : v # w => pc'[v] = pc[v] /\ at'[v] = at[v]
    OBVIOUS
  <2> QED
    BY <1>0, <2>5, <2>6, SpawnLaunched
<1> QED
  BY <1>4, <1>5

\* Of a process that cannot be forked main runs the slice, of which nothing is out.
LEMMA InlineStarts ==
  ASSUME prog \in AllPrograms, PIInv, PDelivery, Launched, InlineRight, Complete, Spawn,
         NEW w, w = started + 1, prog.alone = "inline", inline' = SliceOf(w),
         at' = [at EXCEPT ![w] = w + N * NWorkers], UNCHANGED <<pc, status>>
  PROVE  PIInv' /\ PDelivery' /\ Launched' /\ InlineRight' /\ Complete'
<1>0. PTypeOK /\ ClaimsApart
  BY DEF PIInv, PDelivery
<1>1. /\ w \in Worker /\ pc[w] = "none" /\ at[w] = BeforeFirst(w) /\ started \in Nat
      /\ Len(kept) = N /\ status = -1 /\ inline = <<>> /\ pool = prog.pool /\ N \in Nat /\ NWorkers \in Nat \ {0}
      /\ UNCHANGED <<prog, pool, files, next, line, buf, sending, holder, mail, kept, stream, stdout, matched>>
  BY <1>0, NextThread
<1>2. prog = grep_mt_lua /\ pool.hand = "stride"
  <2>1. prog = grep_mt_lua
    BY PoolsOf
  <2> QED
    BY <1>1, <2>1, PoolsOf, PoolKinds
<1>3. /\ w \in 1 .. NWorkers /\ at \in [Worker -> Int] /\ at[w] = w - NWorkers
      /\ N' = N /\ \A v : LastOf(v) = N /\ LastOf(v)' = N
  BY <1>0, <1>1, <1>2 DEF BeforeFirst, Worker, PTypeOK, LastOf, N
<1>4. /\ at'[w] = w + N * NWorkers /\ at' \in [Worker -> Int] /\ at'[w] > N /\ at'[w] >= at[w]
      /\ \A v \in Worker : v # w => at'[v] = at[v]
  <2>1. N * NWorkers \in Int /\ N * NWorkers >= N
    <3>1. N * NWorkers = N + N * (NWorkers - 1) /\ N * (NWorkers - 1) \in Nat
      BY <1>1
    <3> QED
      BY <1>1, <3>1
  <2>2. w + N * NWorkers \in Int /\ w + N * NWorkers > N /\ w + N * NWorkers >= w - NWorkers
    BY <1>1, <1>3, <2>1
  <2> QED
    BY <1>1, <1>3, <2>2
<1>5. \A i \in 1 .. N : ~ CanClaim(w, i)'
  <2>1. ASSUME NEW i \in 1 .. N, NEW m \in 1 .. i - at'[w] PROVE FALSE
    <3>1. at'[w] \in Int /\ i <= N /\ i \in Int
      BY <1>1, <1>4
    <3> QED
      BY <1>1, <1>4, <3>1
  <2> QED
    BY <1>1, <1>2, <2>1 DEF CanClaim
<1>6. \A v \in Worker, i \in 1 .. N : v # w => (CanClaim(v, i)' <=> CanClaim(v, i))
  BY <1>1, <1>2, <1>4 DEF CanClaim
<1>7. \A i \in 1 .. N : CanClaim(w, i) <=> (i - w) % NWorkers = 0
  BY <1>0, <1>1, <1>2, <1>3, SliceClaims
<1>8. ASSUME NEW v \in Worker PROVE Counted(v)'
  <2>1. CASE v # w
    <3>1. Counted(v) /\ at'[v] = at[v]
      BY <1>0, <1>4, <2>1 DEF ClaimsApart
    <3> QED
      BY <1>1, <1>2, <3>1 DEF Counted
  <2>2. CASE v = w
    <3>1. (N + 1) * NWorkers = N * NWorkers + NWorkers /\ N * NWorkers \in Int
      BY <1>1
    <3>2. at'[w] = (w - NWorkers) + (N + 1) * NWorkers
      BY <1>1, <1>3, <1>4, <3>1
    <3>3. N + 1 \in 0 .. at'[w] + NWorkers
      <4>1. at'[w] \in Int /\ N + 1 <= at'[w] + NWorkers
        BY <1>1, <1>4
      <4> QED
        BY <1>1, <4>1
    <3> QED
      BY <1>1, <1>2, <2>2, <3>2, <3>3 DEF Counted
  <2> QED
    BY <2>1, <2>2
<1>9. ~ at[w] > N
  BY <1>1, <1>3
<1>10. ASSUME NEW i PROVE MainHas(i)' <=> MainHas(i) \/ (i - w) % NWorkers = 0
  BY <1>1, <1>2, <1>3, <1>4, <1>9 DEF MainHas, At
<1>11. SliceInMain'
  BY <1>1, <1>3, <1>4 DEF SliceInMain, At
<1>12. Idles
  BY <1>0, <1>1, <1>4 DEF Idles, PTypeOK
<1>13. /\ PIInv' /\ PDelivery' /\ Everywhere' = Everywhere /\ Out' = Out /\ N' = N /\ Precede' = Precede
       /\ \A v \in Worker : Mine(v)' = Mine(v)
  <2>1. \A v \in Worker, i \in 1 .. N : CanClaim(v, i)' => CanClaim(v, i)
    BY <1>5, <1>6
  <2>2. \A v \in Worker, i \in 1 .. N : CanClaim(v, i) => MainHas(i)' \/ \E u \in Worker : CanClaim(u, i)'
    BY <1>6, <1>7, <1>10
  <2> QED
    BY <1>8, <1>10, <1>11, <1>12, <2>1, <2>2, IdleStep
<1>14. /\ inline' \in Seq(Piece) /\ InOrder(Precede, inline') /\ PiecesOf(inline') = SliceTo(w, N)
  <2>1. SliceOf(w) \in Seq(Piece) /\ InOrder(Forward, SliceOf(w)) /\ PiecesOf(SliceOf(w)) = SliceTo(w, N)
    BY <1>0, <1>1, SliceIs
  <2>2. PICK s : s = SliceOf(w)
    OBVIOUS
  <2> QED
    BY <2>1, <2>2, ForwardPrecedes
<1>15. ASSUME NEW i \in FilesOf(inline')
       PROVE  /\ i \in 1 .. N /\ CanClaim(w, i) /\ (\A p \in Everywhere : p[1] # i)
              /\ \A v \in Worker : i \notin Mine(v)
  <2>1. i \in 1 .. N /\ (i - w) % NWorkers = 0
    BY <1>14 DEF FilesOf, SliceTo
  <2>2. CanClaim(w, i)
    BY <1>7, <2>1
  <2>3. (\A p \in Everywhere : p[1] # i) /\ \A v \in Worker : InHand(v) => at[v] # i
    BY <1>0, <1>1, <2>1, <2>2 DEF ClaimsApart
  <2>4. \A v \in Worker : i \notin FilesOf(buf[v]) /\ i \notin FilesOf(sending[v])
    BY <1>0, <2>3, PlaceTypes DEF FilesOf
  <2> QED
    BY <2>1, <2>2, <2>3, <2>4 DEF Mine
<1>16. Ahead(Precede, Out, inline')
  <2>1. FilesOf(Out) \cap FilesOf(inline') = {}
    BY <1>0, <1>15, PlaceTypes DEF FilesOf
  <2>2. PiecesOf(Out) \subseteq Piece /\ PiecesOf(inline') \subseteq Piece
    BY <1>0, <1>14, PlaceTypes, PiecesType
  <2>3. PICK s : s = inline'
    OBVIOUS
  <2> QED
    BY <2>1, <2>2, <2>3, FilesApart
<1>17. \A i \in FilesOf(inline') : \A v \in Worker : i \notin Mine(v)' /\ (i \in 1 .. N' => ~ CanClaim(v, i)')
  <2>1. ASSUME NEW i \in FilesOf(inline'), NEW v \in Worker PROVE ~ CanClaim(v, i)'
    <3>1. i \in 1 .. N /\ CanClaim(w, i) /\ i \in Nat
      BY <1>1, <1>15
    <3>2. CASE v # w
      <4>1. Counted(w) /\ Counted(v) /\ pool.hand # "counter"
        BY <1>0, <1>1, <1>2 DEF ClaimsApart
      <4>2. ~ CanClaim(v, i)
        BY <1>0, <1>1, <3>1, <3>2, <4>1, ClaimOnce
      <4> QED
        BY <1>6, <3>1, <3>2, <4>2
    <3> QED
      BY <1>5, <3>1, <3>2
  <2> QED
    BY <1>13, <1>15, <2>1
<1>18. ASSUME NEW i \in 1 .. N, files[i].fault = "no", MainHas(i)',
              NEW l \in 1 .. Len(files[i].lines), NEW k \in 1 .. files[i].lines[l]
       PROVE  <<i, l, k>> \in Everywhere' \cup PiecesOf(inline')
  <2>1. CASE MainHas(i)
    BY <1>1, <1>13, <1>18, <2>1, PiecesEmpty DEF InlineRight
  <2>2. CASE (i - w) % NWorkers = 0
    <3>1. i \in Nat /\ files[i] \in Files /\ files[i].lines \in Seq(1 .. MAX_LINE)
      <4>1. files[i] \in Files
        BY <1>0, ElementOfSeq DEF PTypeOK, N
      <4> QED
        BY <1>1, <4>1 DEF Files
    <3>2. l \in Nat /\ k \in Nat
      <4>1. Len(files[i].lines) \in Nat /\ files[i].lines[l] \in 1 .. MAX_LINE
        BY <3>1, LenProperties, ElementOfSeq
      <4> QED
        BY <4>1, PoolAssumption
    <3>3. <<i, l, k>> \in PiecesFrom(i, files[i])
      BY <1>18, <3>1, <3>2 DEF PiecesFrom, LinesTo, Piece
    <3>4. <<i, l, k>> \in SliceTo(w, N)
      <4>1. <<i, l, k>> \in Piece /\ <<i, l, k>>[1] = i
        BY <3>1, <3>2 DEF Piece
      <4> QED
        BY <2>2, <3>3, <4>1 DEF SliceTo
    <3> QED
      BY <1>14, <3>4
  <2> QED
    BY <1>10, <1>18, <2>1, <2>2
<1>19. InlineRight'
  BY <1>1, <1>2, <1>11, <1>13, <1>14, <1>16, <1>17, <1>18 DEF InlineRight
<1>20. Launched'
  <2>1. Missed(w)'
    <3>1. started' = w /\ w <= w
      BY <1>3 DEF Spawn
    <3> QED
      BY <1>1, <1>2, <1>3, <1>4, <3>1 DEF Missed
  <2> QED
    BY <1>0, <1>4, <2>1, SpawnLaunched
<1>21. Complete'
  BY <1>1 DEF Complete
<1> QED
  BY <1>13, <1>19, <1>20, <1>21

LEMMA SpawnStep ==
  ASSUME prog \in AllPrograms, PIInv, PDelivery, Launched, InlineRight, Complete, Spawn
  PROVE  PIInv' /\ PDelivery' /\ Launched' /\ InlineRight' /\ Complete'
<1>1. PICK w : w = started + 1
  OBVIOUS
<1>2. \/ Goto(w, "take") /\ UNCHANGED <<at, status, inline>>
      \/ prog.alone = "ignored" /\ UNCHANGED <<at, pc, status, inline>>
      \/ prog.alone = "throws" /\ status' = FAILED /\ UNCHANGED <<at, pc, inline>>
      \/ /\ prog.alone = "inline" /\ inline' = SliceOf(w)
         /\ at' = [at EXCEPT ![w] = w + N * NWorkers] /\ UNCHANGED <<pc, status>>
  BY <1>1 DEF Spawn
<1>3. CASE Goto(w, "take") /\ UNCHANGED <<at, status, inline>>
  BY <1>1, <1>3, ThreadStarts
<1>4. CASE prog.alone \in {"ignored", "throws"} /\ UNCHANGED <<at, pc, inline>> /\ status' \in {status, FAILED}
  BY <1>1, <1>4, ThreadFails
<1>5. CASE /\ prog.alone = "inline" /\ inline' = SliceOf(w)
           /\ at' = [at EXCEPT ![w] = w + N * NWorkers] /\ UNCHANGED <<pc, status>>
  BY <1>1, <1>5, InlineStarts
<1> QED
  BY <1>2, <1>3, <1>4, <1>5

\* A piece of its slice that main writes is of a file that no worker has or can claim, and
\* behind what is out.
LEMMA WriteInlineStep ==
  ASSUME prog \in AllPrograms, PIInv, PDelivery, Launched, InlineRight, Complete, WriteInline
  PROVE  PIInv' /\ PDelivery' /\ Launched' /\ InlineRight' /\ Complete'
<1>1. /\ PTypeOK /\ PShape /\ OneWriter /\ BlocksWhole /\ OutWhole
      /\ ClaimsApart /\ Buffers /\ PiecesOrdered /\ LinesAhead /\ KeptInPlace /\ BlocksApart /\ NothingLost
  BY DEF PIInv, PDelivery
<1>2. /\ UNCHANGED <<prog, phase, started, pool, files, next, at, line, buf, sending, pc, holder, mail,
                     kept, stream, matched, status>>
      /\ inline # <<>> /\ stdout' = Append(stdout, Head(inline)) /\ inline' = Tail(inline)
  BY DEF WriteInline, input, work
<1>3. /\ inline \in Seq(Piece) /\ prog = grep_mt_lua /\ status = -1 /\ SliceInMain
      /\ InOrder(Precede, inline) /\ Ahead(Precede, Out, inline)
  BY <1>2 DEF InlineRight
<1>4. /\ pool.to = "stdout" /\ pool.keep = "all" /\ mail = <<>> /\ stream = <<>>
  <2>1. pool = lua_pool
    BY <1>3, PoolsOf DEF Launched
  <2>2. pool.to = "stdout" /\ pool.keep = "all"
    BY <2>1, PoolKinds
  <2> QED
    BY <1>1, <2>2 DEF PShape
<1>5. PICK e, rest : e = Head(inline) /\ rest = Tail(inline)
  OBVIOUS
<1>6. /\ e \in Piece /\ rest \in Seq(Piece) /\ PiecesOf(inline) = {e} \cup PiecesOf(rest)
      /\ InOrder(Precede, rest) /\ \A p \in PiecesOf(rest) : <<e, p>> \in Precede
  BY <1>2, <1>3, <1>5, PiecesSplit, OrderSplit
<1>7. /\ stdout \in Seq(Piece) /\ Out = stdout /\ Out \in Seq(Piece) /\ stdout' = Append(stdout, e)
      /\ Append(Out, e) \in Seq(Piece) /\ Append(Out, e) \o <<>> = Append(Out, e)
  <2>1. stdout \in Seq(Piece)
    BY <1>1 DEF PTypeOK
  <2>2. Out = stdout
    BY <1>4, <2>1, ConcatEmptySeq DEF Out
  <2>3. Append(Out, e) \in Seq(Piece)
    BY <1>6, <2>1, <2>2, PiecesAppend
  <2> QED
    BY <1>2, <1>5, <2>1, <2>2, <2>3, ConcatEmptySeq
<1>8. Out' = Append(Out, e) /\ PiecesOf(Out') = PiecesOf(Out) \cup {e}
  <2>1. Out' = Append(Out, e)
    BY <1>2, <1>4, <1>7 DEF Out
  <2> QED
    BY <1>6, <1>7, <2>1, PiecesAppend
<1>9. /\ Precede' = Precede /\ N' = N /\ PoolSound' = PoolSound
      /\ \A w \in Worker : LastOf(w)' = LastOf(w) /\ SliceEnd(w - 1)' = SliceEnd(w - 1)
  BY <1>2, InputStays
<1>10. /\ \A v \in Worker : \A i \in 1 .. N : CanClaim(v, i)' <=> CanClaim(v, i)
       /\ \A v \in Worker : (InHand(v)' <=> InHand(v)) /\ Mine(v)' = Mine(v)
  <2>1. \A v \in Worker : /\ \A i \in 1 .. N : CanClaim(v, i)' <=> CanClaim(v, i)
                          /\ InHand(v)' <=> InHand(v)
    BY <1>2, ClaimFrame
  <2> QED
    BY <1>2, <2>1 DEF Mine
<1>11. Passed' = Passed \cup {e} /\ Everywhere' = Everywhere \cup {e}
  <2>1. Passed' = Passed \cup {e}
    BY <1>2, <1>8 DEF Passed
  <2>2. \A v \in Worker : HeldBy(v)' = HeldBy(v)
    BY <1>2 DEF HeldBy
  <2> QED
    BY <2>1, <2>2 DEF Everywhere
<1>12. /\ e[1] \in FilesOf(inline) /\ FilesOf(rest) \subseteq FilesOf(inline)
       /\ \A v \in Worker : e[1] \notin Mine(v) /\ (e[1] \in 1 .. N => ~ CanClaim(v, e[1]))
  <2>1. e[1] \in FilesOf(inline) /\ FilesOf(rest) \subseteq FilesOf(inline)
    BY <1>6 DEF FilesOf
  <2> QED
    BY <2>1 DEF InlineRight
<1>13. PTypeOK'
  BY <1>1, <1>2, <1>7 DEF PTypeOK
<1>14. PShape'
  BY <1>1, <1>2, <1>9 DEF PShape, PShapeOf
<1>15. OneWriter' /\ BlocksWhole'
  BY <1>1, <1>2 DEF OneWriter, BlocksWhole, At
<1>16. (SliceInMain' <=> SliceInMain) /\ \A i : MainHas(i)' <=> MainHas(i)
  BY <1>2, <1>9 DEF SliceInMain, MainHas, At
<1>17. OutWhole'
  BY <1>3, <1>16 DEF OutWhole
<1>18. ClaimsApart'
  <2>1. \A v \in Worker : Counted(v)'
    BY <1>1, <1>2, <1>9 DEF ClaimsApart, Counted
  <2>2. ASSUME NEW v \in Worker, NEW i \in 1 .. N, CanClaim(v, i)'
        PROVE  /\ \A u \in Worker : InHand(u)' => at'[u] # i
               /\ \A p \in Everywhere' : p[1] # i
    <3>1. CanClaim(v, i)
      BY <1>10, <2>2
    <3> QED
      BY <1>1, <1>2, <1>10, <1>11, <1>12, <3>1 DEF ClaimsApart
  <2>3. \A w, v \in Worker : w # v => Mine(w)' \cap Mine(v)' = {}
    BY <1>1, <1>10 DEF ClaimsApart
  <2> QED
    BY <1>9, <2>1, <2>2, <2>3 DEF ClaimsApart
<1>19. Buffers'
  <2>1. \A v \in Worker : BufferOf(v)'
    <3>1. ASSUME NEW v \in Worker PROVE BufferOf(v)'
      <4>1. BufferOf(v) /\ LastOf(v)' = LastOf(v) /\ (InHand(v)' <=> InHand(v))
        BY <1>1, <1>9, <1>10 DEF Buffers
      <4> QED
        BY <1>2, <1>9, <4>1 DEF BufferOf, Exhausted, Lines
    <3> QED
      BY <3>1
  <2>2. KeptShape'
    BY <1>1, <1>2, <1>9 DEF Buffers, KeptShape
  <2> QED
    BY <1>1, <1>9, <2>1, <2>2 DEF Buffers
<1>20. PiecesOrdered'
  <2>1. \A p \in PiecesOf(Out) : <<p, e>> \in Precede
    BY <1>3, <1>6 DEF Ahead
  <2>2. InOrder(Precede, Append(Out, e))
    BY <1>1, <1>6, <1>7, <2>1, OrderAppend DEF PiecesOrdered
  <2>3. ASSUME NEW v \in Worker PROVE OrderOf(v)'
    <3>1. OrderOf(v)
      BY <1>1 DEF PiecesOrdered
    <3>2. ASSUME NEW s \in {buf[v], sending[v]} PROVE Ahead(Precede, Out', s)
      <4>1. Ahead(Precede, Out, s) /\ PiecesOf(s) \subseteq Piece /\ FilesOf(s) \subseteq Mine(v)
        BY <1>1, <3>1, PlaceTypes DEF OrderOf, Mine
      <4>2. ASSUME NEW q \in PiecesOf(s) PROVE <<e, q>> \in Precede
        <5>1. q \in Piece /\ q[1] # e[1]
          BY <1>12, <4>1 DEF FilesOf
        <5> QED
          BY <1>6, <5>1 DEF Precede, MayPrecede
      <4> QED
        BY <1>8, <4>1, <4>2 DEF Ahead
    <3>3. PICK b, s : b = buf[v] /\ s = sending[v]
      OBVIOUS
    <3>4. Ahead(Precede, Out', b) /\ Ahead(Precede, Out', s)
      BY <3>2, <3>3
    <3> QED
      BY <1>2, <1>9, <3>1, <3>3, <3>4 DEF OrderOf
  <2>4. Len(mail) = 0
    BY <1>4, EmptySeq
  <2> QED
    BY <1>1, <1>2, <1>4, <1>8, <1>9, <2>2, <2>3, <2>4 DEF PiecesOrdered
<1>21. LinesAhead'
  <2>1. ASSUME NEW v \in Worker, InHand(v), NEW p \in Everywhere', p[1] = at[v] PROVE p[2] < line[v]
    <3>1. at[v] \in Mine(v)
      BY <2>1 DEF Mine
    <3>2. p \in Everywhere
      BY <1>11, <1>12, <2>1, <3>1
    <3> QED
      BY <1>1, <2>1, <3>2 DEF LinesAhead
  <2> QED
    BY <1>2, <1>10, <2>1 DEF LinesAhead
<1>22. KeptInPlace' /\ BlocksApart'
  BY <1>2, <1>4 DEF KeptInPlace, BlocksApart
<1>23. NothingLost'
  <2>1. \A i, l : LineThere(i, l) => LineThere(i, l)'
    BY <1>2, <1>11, LineStays
  <2>2. LinesThere'
    <3>1. ASSUME NEW i \in 1 .. N, files[i].fault = "no"
          PROVE  \/ MainHas(i)'
                 \/ \E w \in Worker : CanClaim(w, i)'
                 \/ \E w \in Worker : InHand(w)' /\ at'[w] = i /\ \A l \in 1 .. line'[w] - 1 : LineThere(i, l)'
                 \/ \A l \in 1 .. Len(files'[i].lines) : LineThere(i, l)'
      <4>1. \/ MainHas(i)
            \/ \E w \in Worker : CanClaim(w, i)
            \/ \E w \in Worker : InHand(w) /\ at[w] = i /\ \A l \in 1 .. line[w] - 1 : LineThere(i, l)
            \/ \A l \in 1 .. Len(files[i].lines) : LineThere(i, l)
        BY <1>1, <3>1 DEF NothingLost, LinesThere
      <4> QED
        BY <1>2, <1>10, <1>16, <2>1, <4>1
    <3> QED
      BY <1>2, <1>9, <3>1 DEF LinesThere
  <2> QED
    BY <1>1, <1>2, <1>3, <1>11, <1>16, <2>2 DEF NothingLost
<1>24. InlineRight'
  <2>1. Ahead(Precede, Out', rest)
    <3>1. Ahead(Precede, Out, rest)
      BY <1>3, <1>6 DEF Ahead
    <3> QED
      BY <1>6, <1>8, <3>1 DEF Ahead
  <2>2. \A i \in FilesOf(rest) : \A w \in Worker : i \notin Mine(w)' /\ (i \in 1 .. N => ~ CanClaim(w, i)')
    BY <1>10, <1>12 DEF InlineRight
  <2>3. ASSUME NEW i \in 1 .. N, files[i].fault = "no", MainHas(i)',
               NEW l \in 1 .. Len(files[i].lines), NEW k \in 1 .. files[i].lines[l]
        PROVE  <<i, l, k>> \in Everywhere' \cup PiecesOf(rest)
    <3>1. <<i, l, k>> \in Everywhere \cup PiecesOf(inline)
      BY <1>16, <2>3 DEF InlineRight
    <3> QED
      BY <1>6, <1>11, <3>1
  <2>4. inline' = rest /\ status' = -1 /\ SliceInMain' /\ prog' = grep_mt_lua
    BY <1>2, <1>3, <1>5, <1>16
  <2> QED
    BY <1>2, <1>6, <1>9, <2>1, <2>2, <2>3, <2>4 DEF InlineRight
<1>25. Launched'
  <2>1. phase \notin {"parse", "collect"}
    BY <1>2 DEF Launched
  <2>2. \A w \in Worker : (Awaits(w)' <=> Awaits(w)) /\ (Missed(w)' <=> Missed(w)) /\ (At(w, "none")' <=> At(w, "none"))
    BY <1>2, <1>9 DEF Awaits, Missed, At, BeforeFirst
  <2>3. Spawns' <=> Spawns
    BY <1>2 DEF Spawns
  <2> QED
    BY <1>2, <1>9, <2>1, <2>2, <2>3 DEF Launched
<1>26. Complete'
  BY <1>2, <1>3 DEF Complete
<1> QED
  BY <1>13, <1>14, <1>15, <1>17, <1>18, <1>19, <1>20, <1>21, <1>22, <1>23, <1>24, <1>25, <1>26
  DEF PIInv, PDelivery

\* The steps of the pool keep what holds of pools.
LEMMA PoolStep ==
  ASSUME PIInv, PDelivery, [PNext]_pvars
  PROVE  PIInv' /\ PDelivery'
<1>1. /\ PTypeOK /\ PShape /\ OneWriter /\ BlocksWhole /\ OutWhole
      /\ ClaimsApart /\ Buffers /\ PiecesOrdered /\ LinesAhead /\ KeptInPlace /\ BlocksApart /\ NothingLost
  BY DEF PIInv, PDelivery
<1>2. PTypeOK' /\ PShape' /\ OneWriter' /\ BlocksWhole' /\ OutWhole'
  BY <1>1, PTypeStep, PShapeStep, OneWriterStep, BlocksStep, OutStep
<1>3. ClaimsApart' /\ Buffers' /\ PiecesOrdered'
  BY <1>1, ClaimsStep, BuffersStep, OrderStep
<1>4. LinesAhead' /\ KeptInPlace'
  BY <1>1, LinesAheadStep, KeptStep
<1>5. BlocksApart' /\ NothingLost'
  BY <1>1, BlocksApartStep, NothingLostStep
<1> QED
  BY <1>2, <1>3, <1>4, <1>5 DEF PIInv, PDelivery

LEMMA PoolLaunched ==
  ASSUME prog \in AllPrograms, PIInv, PDelivery, Launched, [PNext]_pvars, UNCHANGED <<prog, phase, started, inline>>,
         phase \notin {"parse", "collect"}
  PROVE  Launched'
<1>1. PTypeOK /\ PTypeOK' /\ Buffers'
  BY PoolStep DEF PIInv, PDelivery
<1>2. /\ UNCHANGED <<pool, files>> /\ N' = N
      /\ \A w \in Worker : At(w, "none")' <=> At(w, "none")
      /\ \A w \in Worker : At(w, "none") => at'[w] = at[w]
  BY <1>1, NoneStay DEF At
<1>3. phase = "spawn" => Len(kept') = N'
  <2>1. ASSUME phase = "spawn" PROVE pool.to # "kept"
    BY <2>1, PoolsOf DEF Launched, Spawns
  <2>2. Len(kept') \in Nat /\ N' \in Nat
    BY <1>1, LenProperties DEF PTypeOK, N
  <2>3. Len(kept') <= N' /\ (Len(kept') < N' => pool'.to = "kept")
    BY <1>1 DEF Buffers, KeptShape
  <2> QED
    BY <1>2, <2>1, <2>2, <2>3
<1>4. \A w : BeforeFirst(w)' = BeforeFirst(w)
  BY <1>2 DEF BeforeFirst, SliceEnd
<1>5. ASSUME NEW w \in Worker, At(w, "none") PROVE Spawns' /\ (Awaits(w)' \/ Missed(w)')
  <2>1. Spawns /\ (Awaits(w) \/ Missed(w)) /\ at'[w] = at[w]
    BY <1>2, <1>5 DEF Launched
  <2> QED
    BY <1>2, <1>4, <2>1 DEF Awaits, Missed, Spawns
<1>6. /\ prog = Unmodelled \/ pool = prog.pool
      /\ prog = Unmodelled => phase = "pool"
      /\ phase = "spawn" =>
           Spawns /\ started < NWorkers /\ Len(kept) = N /\ \A w \in Worker : w > started => At(w, "none")
      /\ phase = "pool" /\ Spawns => started = NWorkers
      /\ started \in 0 .. NWorkers
  BY DEF Launched
<1>7. Spawns' <=> Spawns
  BY DEF Spawns
<1> QED
  BY <1>2, <1>3, <1>5, <1>6, <1>7 DEF Launched

\* A worker has nothing to do with the files that main has.
LEMMA WorkerInline ==
  ASSUME PIInv, PDelivery, InlineRight, UNCHANGED <<prog, inline>>, NEW w \in Worker, Step(w)
  PROVE  InlineRight'
<1>1. /\ PTypeOK /\ PShape /\ ClaimsApart /\ Buffers /\ KeptInPlace /\ BlocksApart
  BY DEF PIInv, PDelivery
<1>2. [PNext]_pvars
  BY DEF PNext
<1>3. /\ UNCHANGED <<pool, files, status>> /\ status = -1 /\ N' = N /\ Precede' = Precede
      /\ SliceInMain' <=> SliceInMain
      /\ \A i : MainHas(i)' <=> MainHas(i)
  BY <1>1, <1>2, OthersStay, NoneStay, InputStays
<1>4. Everywhere \subseteq Everywhere'
  BY <1>1, PiecesMove
<1>5. \A i \in FilesOf(inline) : \A v \in Worker : i \notin Mine(v) /\ (i \in 1 .. N => ~ CanClaim(v, i))
  BY DEF InlineRight
<1>6. Ahead(Precede, Out', inline)
  <2>0. inline \in Seq(Piece) /\ Ahead(Precede, Out, inline) /\ PiecesOf(inline) \subseteq Piece
    BY PiecesType DEF InlineRight
  <2>1. CASE Write(w)
    <3>1. /\ sending[w] \in Seq(Piece) /\ sending[w] # <<>> /\ Out \in Seq(Piece)
          /\ Out' = Append(Out, Head(sending[w]))
      BY <1>1, <2>1, PieceOut
    <3>2. PICK e \in Piece : e = Head(sending[w]) /\ e \in PiecesOf(sending[w])
      BY <3>1, PiecesSplit
    <3>3. PiecesOf(Out') = PiecesOf(Out) \cup {e}
      BY <3>1, <3>2, PiecesAppend
    <3>4. e[1] \in Mine(w)
      BY <3>2 DEF Mine, FilesOf
    <3>5. ASSUME NEW q \in PiecesOf(inline) PROVE <<e, q>> \in Precede
      <4>1. q[1] \in FilesOf(inline) /\ q \in Piece
        BY <2>0 DEF FilesOf
      <4>2. q[1] # e[1]
        BY <1>5, <3>4, <4>1
      <4> QED
        BY <3>2, <4>1, <4>2 DEF Precede, MayPrecede
    <3> QED
      BY <2>0, <3>3, <3>5 DEF Ahead
  <2>2. CASE ~ Write(w)
    BY <1>1, <2>0, <2>2, OutStays
  <2> QED
    BY <2>1, <2>2
<1>7. \A i \in FilesOf(inline) : \A v \in Worker : i \notin Mine(v)'
  <2>1. /\ Mine(w)' \subseteq Mine(w) \cup (IF Take(w) /\ Claim(w) <= LastOf(w) THEN {Claim(w)} ELSE {})
        /\ \A v \in Worker : v # w => Mine(v)' = Mine(v)
    BY <1>1, MineStep
  <2>2. ASSUME Take(w), Claim(w) <= LastOf(w) PROVE Claim(w) \notin FilesOf(inline)
    <3>1. At(w, "take") /\ Counted(w)
      BY <1>1, <2>2 DEF Take, ClaimsApart
    <3>2. Claim(w) \in 1 .. N /\ CanClaim(w, Claim(w))
      BY <1>1, <2>2, <3>1, ClaimNext
    <3> QED
      BY <1>5, <3>2
  <2> QED
    BY <1>5, <2>1, <2>2
<1>8. \A v \in Worker, i \in 1 .. N : CanClaim(v, i)' => CanClaim(v, i)
  <2>1. CASE Take(w)
    BY <1>1, <2>1, ClaimGone DEF ClaimsApart
  <2>2. CASE ~ Take(w)
    <3>1. UNCHANGED <<next, at>>
      BY <2>2 DEF Step, Open, PassKept, PassLine, KeepLine, EndFile, EndWork, Lock, Write, Unlock, work
    <3> QED
      BY <1>3, <3>1, ClaimFrame
  <2> QED
    BY <2>1, <2>2
<1> QED
  BY <1>3, <1>4, <1>6, <1>7, <1>8, InlineStays

LEMMA WorkerStepStep ==
  ASSUME prog \in AllPrograms, PIInv, PDelivery, Launched, InlineRight, Complete, NEW w \in Worker, WorkerStep(w)
  PROVE  PIInv' /\ PDelivery' /\ Launched' /\ InlineRight' /\ Complete'
<1>1. Step(w) /\ UNCHANGED <<prog, phase, started, inline>>
  BY DEF WorkerStep, progvars
<1>2. [PNext]_pvars /\ PTypeOK
  BY <1>1 DEF PNext, PIInv
<1>3. phase \notin {"parse", "collect"}
  <2>1. ASSUME phase \in {"parse", "collect"} PROVE pc[w] \in {"none", "left"}
    BY <1>2, <2>1, NobodyWorks DEF Launched
  <2> QED
    BY <1>1, <2>1, StepperAlive
<1>4. PIInv' /\ PDelivery' /\ Launched'
  BY <1>1, <1>2, <1>3, PoolStep, PoolLaunched
<1>5. InlineRight'
  BY <1>1, WorkerInline
<1>6. status' = -1
  BY <1>1, <1>2, OthersStay
<1> QED
  BY <1>4, <1>5, <1>6 DEF Complete

LEMMA WaitStep ==
  ASSUME prog \in AllPrograms, PIInv, PDelivery, Launched, InlineRight, Complete, Wait
  PROVE  PIInv' /\ PDelivery' /\ Launched' /\ InlineRight' /\ Complete'
<1>1. /\ phase = "pool" /\ inline = <<>> /\ (Receive \/ PrintKept \/ Finish \/ Crash)
      /\ UNCHANGED <<prog, phase, started, inline>>
  BY DEF Wait, progvars
<1>2. [PNext]_pvars /\ PTypeOK
  BY <1>1 DEF PNext, PIInv
<1>3. PIInv' /\ PDelivery' /\ Launched'
  BY <1>1, <1>2, PoolStep, PoolLaunched
<1>4. NoneIdle
  <2>1. ASSUME NEW v \in Worker, At(v, "none") PROVE Missed(v)
    BY <1>1, <2>1 DEF Launched, Awaits
  <2> QED
    BY <2>1 DEF NoneIdle, Missed
<1>5. MainDone
  <2>1. PiecesOf(inline) = {}
    BY <1>1, PiecesEmpty
  <2> QED
    BY <2>1 DEF MainDone, InlineRight, LineThere
<1>6. Complete'
  BY <1>2, <1>4, <1>5, CompleteStep
<1>7. InlineRight'
  <2>1. /\ UNCHANGED <<pool, files, next, at>> /\ Everywhere' = Everywhere
    BY <1>1, <1>2, PiecesStay, BlockOut, NothingOut
  <2>2. /\ N' = N /\ Precede' = Precede /\ (SliceInMain' <=> SliceInMain) /\ \A i : MainHas(i)' <=> MainHas(i)
    BY <1>2, <2>1, NoneStay, InputStays
  <2>3. \A v \in Worker, i \in 1 .. N : CanClaim(v, i)' => CanClaim(v, i)
    BY <2>1, ClaimFrame
  <2>4. FilesOf(inline) = {} /\ Ahead(Precede, Out', inline)
    <3>1. PiecesOf(inline) = {} /\ FilesOf(inline) = {}
      BY <1>1, PiecesEmpty
    <3> QED
      BY <3>1 DEF Ahead
  <2> QED
    BY <1>1, <2>1, <2>2, <2>3, <2>4, InlineStays
<1> QED
  BY <1>3, <1>6, <1>7

\* Before the pool all is well, whatever main does next.
LEMMA BeforePool ==
  PTypeOK /\ Unstarted /\ inline = <<>> /\ status \notin {0, 1}
    => PIInv /\ PDelivery /\ InlineRight /\ Complete
<1> SUFFICES ASSUME PTypeOK, Unstarted, inline = <<>>, status \notin {0, 1}
             PROVE  PIInv /\ PDelivery /\ InlineRight /\ Complete
  OBVIOUS
<1>1. PIInv /\ PDelivery
  BY UnstartedSound
<1>2. \A i : ~ MainHas(i)
  BY NobodyWorks
<1>3. inline \in Seq(Piece) /\ PiecesOf(inline) = {} /\ FilesOf(inline) = {} /\ InOrder(Precede, inline)
  BY EmptySeq, PiecesEmpty, OrderEmpty
<1>4. InlineRight
  BY <1>2, <1>3 DEF InlineRight, Ahead
<1> QED
  BY <1>1, <1>4 DEF Complete

\* In every phase before a thread is started no worker is there, or none will be.
LEMMA NobodyYet ==
  PTypeOK /\ Unstarted /\ started = 0 /\ phase \in {"parse", "collect", "spawn"}
    => \A w \in Worker : At(w, "none") => Spawns /\ Awaits(w)
<1> SUFFICES ASSUME PTypeOK, Unstarted, started = 0, phase \in {"parse", "collect", "spawn"},
                    NEW w \in Worker, At(w, "none")
             PROVE  Spawns /\ Awaits(w)
  OBVIOUS
<1>1. Spawns /\ at[w] = 0 /\ w > 0
  BY NobodyWorks DEF At, Worker
<1>2. BeforeFirst(w) = 0
  BY DEF BeforeFirst, Unstarted, Plain
<1> QED
  BY <1>1, <1>2 DEF Awaits

\* The programs begin with nothing searched, or like Lua with the list and no thread.
LEMMA LaunchedStarts ==
  ASSUME NInit
  PROVE  prog \in AllPrograms /\ NPInv
<1>1. started = 0 /\ inline = <<>> /\ NWorkers \in Nat \ {0} /\ Begun
  BY NStarts, BegunStarts, PoolAssumption
<1>2. prog \in AllPrograms
  BY <1>1 DEF Begun
<1>3. CASE StartParsing \/ StartProbe
  <2>1. /\ prog # Unmodelled /\ prog # grep_mt_lua
        /\ PStart(prog.pool, <<>>, IF Spawns THEN "none" ELSE "left")
        /\ phase \in {"parse", "collect"} /\ (prog.then # "elsewhere" \/ phase = "parse")
    <3>1. CASE StartParsing
      <4>1. PICK pq \in Parsing :
              prog = pq[1] /\ PStart(pq[1].pool, <<>>, IF pq[1].then = "spawn" THEN "none" ELSE "left")
        BY <3>1 DEF StartParsing
      <4>2. prog \in LibraryPrograms \cup {HandWritten}
        BY <4>1 DEF Parsing
      <4>3. prog # Unmodelled /\ prog # grep_mt_lua
        BY <4>2, ProgramFields DEF LibraryPrograms
      <4> QED
        BY <3>1, <4>1, <4>3 DEF StartParsing, Spawns
    <3>2. CASE StartProbe
      <4>1. prog = iouring_probe /\ PStart(Streamed, <<>>, "left") /\ phase = "collect"
        BY <3>2 DEF StartProbe
      <4>2. prog.pool = Streamed /\ ~ Spawns /\ prog.then # "elsewhere" /\ prog # Unmodelled /\ prog # grep_mt_lua
        BY <4>1, ProgramFields DEF Spawns
      <4> QED
        BY <4>1, <4>2
    <3> QED
      BY <1>3, <3>1, <3>2
  <2>2. Plain(prog.pool)
    BY <1>2, <2>1, PoolsOf
  <2>3. PIInv /\ Unstarted /\ status = -1 /\ pool = prog.pool
    BY <2>1, <2>2, UnstartedStarts DEF PStart
  <2>4. PIInv /\ PDelivery /\ InlineRight /\ Complete
    BY <1>1, <2>3, BeforePool DEF PIInv
  <2>5. \A w \in Worker : At(w, "none") => Spawns /\ Awaits(w)
    BY <1>1, <2>1, <2>3, NobodyYet DEF PIInv
  <2>6. Launched
    BY <1>1, <2>1, <2>3, <2>5 DEF Launched
  <2> QED
    BY <1>2, <2>4, <2>6 DEF NPInv
<1>4. CASE phase = "pool" /\ prog = Unmodelled /\ PInit
  <2>1. PIInv /\ PDelivery
    BY <1>4, PInitInv, PInitDelivery
  <2>2. PICK p \in Pools, list \in Lists : PStart(p, list, "take")
    BY <1>4 DEF PInit
  <2>3. status = -1 /\ \A w \in Worker : pc[w] = "take"
    BY <2>2 DEF PStart
  <2>4. \A w \in Worker : ~ At(w, "none")
    BY <2>3 DEF At
  <2>5. InlineRight
    <3>1. inline \in Seq(Piece) /\ PiecesOf(inline) = {} /\ FilesOf(inline) = {} /\ InOrder(Precede, inline)
      BY <1>1, EmptySeq, PiecesEmpty, OrderEmpty
    <3>2. \A i : ~ MainHas(i)
      BY <2>4 DEF MainHas
    <3> QED
      BY <1>1, <3>1, <3>2 DEF InlineRight, Ahead
  <2>6. Launched
    <3>1. ~ Spawns
      BY <1>4, ProgramFields DEF Spawns
    <3> QED
      BY <1>1, <1>4, <2>4, <3>1 DEF Launched
  <2> QED
    BY <1>2, <2>1, <2>3, <2>5, <2>6 DEF NPInv, Complete
<1>5. CASE phase = "spawn" /\ prog = grep_mt_lua /\ \E list \in Lists : PStart(lua_pool, list, "none")
  <2>1. PICK list \in Lists : PStart(lua_pool, list, "none")
    BY <1>5
  <2>2. list \in Seq(Files) /\ lua_pool \in Programs
    BY ListAssumption, PoolKinds
  <2>3. PIInv
    BY <2>1, <2>2, PStartInv
  <2>4. PTypeOK
    BY <2>3 DEF PIInv
  <2>5. /\ pool = lua_pool /\ status = -1 /\ at = [w \in Worker |-> BeforeFirst(w)]
        /\ pc = [w \in Worker |-> "none"] /\ kept = [i \in 1 .. N |-> <<>>]
    BY <2>1 DEF PStart
  <2>6. PoolSound
    BY <2>5, PoolKinds DEF PoolSound
  <2>7. PDelivery
    BY <2>1, <2>4, <2>6, PStartDelivery
  <2>8. Len(kept) = N
    <3>1. N \in Nat /\ Len(kept) \in Nat /\ DOMAIN kept = 1 .. Len(kept)
      BY <2>4, LenProperties DEF PTypeOK, N
    <3>2. \A x \in Int : x \in 1 .. Len(kept) <=> x \in 1 .. N
      BY <2>5, <3>1
    <3>3. (Len(kept) \in 1 .. Len(kept) \/ Len(kept) = 0) /\ (N \in 1 .. N \/ N = 0)
      BY <3>1
    <3>4. Len(kept) <= N /\ N <= Len(kept)
      BY <3>1, <3>2, <3>3
    <3>5. ASSUME NEW a \in Nat, NEW b \in Nat, a <= b, b <= a PROVE a = b
      BY <3>5
    <3> HIDE DEF N
    <3> QED
      BY ONLY <3>1, <3>4, <3>5, Zenon
  <2>9. prog # Unmodelled /\ pool = prog.pool /\ Spawns
    BY <1>2, <1>5, <2>5, PoolsOf DEF Spawns
  <2>10. Launched
    <3>1. \A w \in Worker : Awaits(w) /\ At(w, "none")
      BY <1>1, <1>5, <2>5 DEF Awaits, At, Worker
    <3>2. phase = "spawn" /\ started < NWorkers /\ started \in 0 .. NWorkers
      BY <1>1, <1>5
    <3> QED
      BY <2>8, <2>9, <3>1, <3>2 DEF Launched
  <2>11. InlineRight
    <3>1. inline \in Seq(Piece) /\ PiecesOf(inline) = {} /\ FilesOf(inline) = {} /\ InOrder(Precede, inline)
      BY <1>1, EmptySeq, PiecesEmpty, OrderEmpty
    <3>2. ASSUME NEW i PROVE ~ MainHas(i)
      <4>1. ASSUME NEW w \in Worker PROVE ~ at[w] > LastOf(w)
        <5>1. NWorkers \in Nat \ {0} /\ w \in 1 .. NWorkers /\ N \in Nat
          BY <2>4, PoolAssumption, LenProperties DEF Worker, PTypeOK, N
        <5>2. at[w] = w - NWorkers /\ LastOf(w) = N
          BY <2>5, PoolKinds DEF BeforeFirst, LastOf
        <5> QED
          BY <5>1, <5>2
      <4> QED
        BY <4>1 DEF MainHas
    <3> QED
      BY <1>1, <3>1, <3>2 DEF InlineRight, Ahead
  <2> QED
    BY <1>2, <2>3, <2>5, <2>7, <2>10, <2>11 DEF NPInv, Complete
<1>6. StartParsing \/ StartProbe \/ StartWithList
  BY DEF NInit
<1> QED
  BY <1>3, <1>4, <1>5, <1>6 DEF StartWithList

\* While main parses or finds files nothing of the pool changes but the list.
LEMMA UnstartedStays ==
  ASSUME Unstarted,
         UNCHANGED <<prog, input, work, buf, sending, pc, holder, output, matched>>
  PROVE  Unstarted'
<1>1. N' = N /\ Out' = Out /\ (Spawns' <=> Spawns) /\ Precede' = Precede
  <2>1. Precede' = Precede
    BY DEF Precede, MayPrecede, SizeOf, input
  <2> QED
    BY <2>1 DEF N, Out, Spawns, input, output
<1>2. Everywhere' = Everywhere
  BY <1>1 DEF Everywhere, Passed, HeldBy, output
<1>3. \A i, l : LineThere(i, l)' <=> LineThere(i, l)
  BY <1>2 DEF LineThere, input
<1>4. UNCHANGED <<pool, files, next, at, line, mail, kept, stream>>
  BY DEF input, work, output
<1> QED
  BY <1>1, <1>2, <1>3, <1>4 DEF Unstarted

\* A step that leaves main where it is and nothing changed in the pool.
LEMMA SamePhase ==
  ASSUME Launched, UNCHANGED <<prog, phase, started, inline>>,
         UNCHANGED <<input, work, buf, sending, pc, holder, output, matched>>,
         phase = "parse" => status' = -1 \/ parsing' = "usage",
         phase = "collect" => status' = -1
  PROVE  Launched'
<1>1. Unstarted => Unstarted'
  BY UnstartedStays
<1>2. N' = N /\ (Spawns' <=> Spawns)
  BY DEF N, Spawns, input
<1>3. \A w \in Worker : /\ At(w, "none")' <=> At(w, "none")
                        /\ Awaits(w)' <=> Awaits(w)
                        /\ Missed(w)' <=> Missed(w)
  BY <1>2 DEF At, Awaits, Missed, BeforeFirst, SliceEnd, N, input, work
<1>4. pool' = pool /\ kept' = kept
  BY DEF input, output
<1> QED
  BY <1>1, <1>2, <1>3, <1>4 DEF Launched

\* The phases after the files are found, when nobody has started yet.
LEMMA PhaseOver ==
  ASSUME prog \in AllPrograms, PTypeOK, Launched, phase \in {"parse", "collect"},
         phase' \in {"spawn", "pool", "probe", "elsewhere", "reported"},
         phase' = "spawn" <=> Spawns,
         UNCHANGED <<prog, started, inline, pvars>>
  PROVE  Launched'
<1>1. Unstarted /\ started = 0 /\ inline = <<>> /\ NWorkers \in Nat \ {0}
  BY PoolAssumption DEF Launched
<1>2. UNCHANGED <<pool, files, at, pc, kept>> /\ N' = N /\ (Spawns' <=> Spawns)
  BY DEF pvars, input, work, output, N, Spawns
<1>3. prog # Unmodelled /\ pool = prog.pool
  BY DEF Launched
<1>4. \A w \in Worker : pc[w] = (IF Spawns THEN "none" ELSE "left") /\ w > 0 /\ at[w] = 0
  BY <1>1, NobodyWorks DEF Worker
<1>5. Len(kept) = N /\ \A w \in Worker : BeforeFirst(w)' = 0
  BY <1>1, <1>2 DEF Unstarted, BeforeFirst, Plain
<1>6. \A w \in Worker : At(w, "none")' => Spawns /\ phase' = "spawn" /\ Awaits(w)'
  BY <1>1, <1>2, <1>4, <1>5 DEF At, Awaits
<1>7. Spawns => \A w \in Worker : At(w, "none")'
  BY <1>2, <1>4 DEF At
<1> QED
  BY <1>1, <1>2, <1>3, <1>5, <1>6, <1>7 DEF Launched

\* Main finds a file, which joins the list, searched or not.
LEMMA FindStep ==
  ASSUME prog \in AllPrograms, PIInv, PDelivery, Launched, InlineRight, Complete, COInv', Find
  PROVE  PIInv' /\ PDelivery' /\ Launched' /\ InlineRight' /\ Complete'
<1>1. /\ phase = "collect" /\ UNCHANGED <<prog, phase, started, inline>>
      /\ UNCHANGED <<pool, at, line, buf, sending, pc, holder, mail, status, parsing>>
  BY DEF Find, progvars, clvars
<1>2. PTypeOK /\ Unstarted /\ started = 0 /\ inline = <<>> /\ status = -1 /\ prog.then # "elsewhere"
  BY <1>1 DEF Launched, PIInv
<1>3. CASE UNCHANGED <<files, next, kept, stream, stdout, matched>>
  <2>1. UNCHANGED <<prog, inline, input, work, buf, sending, pc, holder, output, matched>>
    BY <1>1, <1>3 DEF input, work, output
  <2>2. PIInv' /\ PDelivery' /\ InlineRight' /\ Complete'
    BY <1>1, <1>2, <2>1, StillStep
  <2>3. Launched'
    BY <1>1, <1>2, <2>1, SamePhase
  <2> QED
    BY <2>2, <2>3
<1>4. CASE listed' # listed /\ prog.then # "probe" /\ Record(Last(listed'))
  <2>1. prog.then \in {"search", "spawn"} /\ prog # Unmodelled /\ prog # grep_mt_lua /\ pool = prog.pool
    <3>1. prog # Unmodelled /\ pool = prog.pool
      BY <1>1 DEF Launched
    <3>2. prog # grep_mt_lua
      BY <1>2, <3>1, PoolsOf, PoolKinds DEF Unstarted, Plain
    <3> QED
      BY <1>2, <1>4, <3>1, <3>2, PoolsOf
  <2>2. prog.then = "search" => pool.to \in {"stream", "kept"}
    BY <2>1, PoolsOf
  <2>3. PICK n \in Node : n = Last(listed')
    <3>1. listed' \in Seq(Node)
      BY DEF COInv, COTypeOK
    <3>2. listed' # <<>>
      BY <1>1, <1>4 DEF Find, NextRoot, Meet
    <3>3. Len(listed') \in 1 .. Len(listed')
      BY <3>1, <3>2, EmptySeq, LenProperties
    <3> QED
      BY <3>1, <3>3, ElementOfSeq DEF Last
  <2>4. Record(n)
    BY <1>4, <2>3
  <2>5. PTypeOK' /\ Unstarted'
    BY <1>1, <1>2, <2>1, <2>2, <2>4, RecordStep
  <2>6. inline' = <<>> /\ status' = -1
    BY <1>1, <1>2
  <2>7. (PIInv /\ PDelivery /\ InlineRight /\ Complete)'
    <3>1. (PTypeOK /\ Unstarted /\ inline = <<>> /\ status \notin {0, 1})'
      BY <2>5, <2>6
    <3> QED
      BY <3>1, BeforePool, PTL
  <2>8. (\A w \in Worker : At(w, "none") => Spawns /\ Awaits(w))'
    <3>1. (PTypeOK /\ Unstarted /\ started = 0 /\ phase \in {"parse", "collect", "spawn"})'
      BY <1>1, <1>2, <2>5
    <3> QED
      BY <3>1, NobodyYet, PTL
  <2>9. Launched'
    BY <1>1, <1>2, <2>1, <2>5, <2>6, <2>8, PoolAssumption DEF Launched
  <2> QED
    BY <2>7, <2>9
<1>5. UNCHANGED <<files, next, kept, stream, stdout, matched>>
      \/ (listed' # listed /\ prog.then # "probe" /\ Record(Last(listed')))
  BY DEF Find
<1> QED
  BY <1>3, <1>4, <1>5

\* Main parses, asks for help, hands the paths to the walk and the files to the workers,
\* or waits for a thread there is not.
LEMMA MainStays ==
  ASSUME prog \in AllPrograms, PIInv, PDelivery, Launched, InlineRight, Complete,
         ParseWord \/ UsageExit \/ EndParsing \/ EndFinding \/ JoinUnset \/ Probing \/ Kernel \/ Report
           \/ UNCHANGED nvars
  PROVE  PIInv' /\ PDelivery' /\ Launched' /\ InlineRight' /\ Complete'
<1>1. UNCHANGED <<prog, started, inline, input, work, buf, sending, pc, holder, output, matched>>
  <2>1. CASE ParseWord
    BY <2>1 DEF ParseWord, progvars, pvars
  <2>2. CASE UsageExit \/ JoinUnset
    BY <2>2 DEF UsageExit, JoinUnset, progvars
  <2>3. CASE EndParsing \/ EndFinding \/ Report
    BY <2>3 DEF EndParsing, EndFinding, Report, pvars
  <2>4. CASE Probing \/ Kernel
    BY <2>4 DEF Probing, Kernel, progvars, pvars
  <2>5. CASE UNCHANGED nvars
    BY <2>5 DEF nvars, progvars, pvars
  <2> QED
    BY <2>1, <2>2, <2>3, <2>4, <2>5
<1>2. status \in {-1, 0, 1, 2, FAILED, SIGSEGV} /\ PTypeOK
  BY DEF PIInv, PTypeOK
<1>3. CASE UsageExit
  <2>1. status' = 2 /\ phase = "parse" /\ phase' = phase /\ parsing' = "usage"
    BY <1>3 DEF UsageExit, progvars, clvars
  <2>2. inline = <<>>
    BY <2>1 DEF Launched
  <2> QED
    BY <1>1, <1>2, <2>1, <2>2, StillStep, SamePhase
<1>4. CASE JoinUnset
  <2>1. status' = SIGSEGV /\ phase = "pool" /\ phase' = phase /\ prog.alone = "ignored"
    BY <1>4 DEF JoinUnset, progvars
  <2>2. inline = <<>>
    BY <2>1, PoolsOf DEF InlineRight
  <2>3. SIGSEGV \notin {0, 1}
    BY DEF SIGSEGV
  <2> QED
    BY <1>1, <1>2, <2>1, <2>2, <2>3, StillStep, SamePhase
<1>5. CASE ~ UsageExit /\ ~ JoinUnset
  <2>1. status' = status
    BY <1>5 DEF ParseWord, EndParsing, EndFinding, Probing, Kernel, Report, nvars, pvars
  <2>2. PIInv' /\ PDelivery' /\ InlineRight' /\ Complete'
    BY <1>1, <1>2, <2>1, StillStep DEF InlineRight
  <2>3. UNCHANGED pvars
    BY <1>1, <2>1 DEF pvars
  <2>4. CASE ParseWord
    <3>1. phase' = phase /\ phase = "parse" /\ status' = -1
      BY <2>1, <2>4 DEF ParseWord, progvars
    <3> QED
      BY <1>1, <2>2, <3>1, SamePhase
  <2>5. CASE EndParsing
    <3>1. phase = "parse" /\ parsing = "parsed" /\ phase' = (IF prog.then = "elsewhere" THEN "elsewhere" ELSE "collect")
      BY <2>5 DEF EndParsing
    <3>2. status = -1 /\ Unstarted /\ started = 0 /\ inline = <<>>
      BY <3>1 DEF Launched
    <3>3. CASE prog.then = "elsewhere"
      BY <1>1, <1>2, <2>2, <2>3, <3>1, <3>3, PhaseOver DEF Spawns
    <3>4. CASE prog.then # "elsewhere"
      <4>1. Unstarted'
        BY <1>1, <3>2, UnstartedStays
      <4>2. PTypeOK'
        BY <2>2 DEF PIInv
      <4>3. phase' = "collect" /\ started' = 0 /\ inline' = <<>> /\ status' = -1
        BY <1>1, <2>1, <3>1, <3>2, <3>4
      <4>4. (\A w \in Worker : At(w, "none") => Spawns /\ Awaits(w))'
        <5>1. (PTypeOK /\ Unstarted /\ started = 0 /\ phase \in {"parse", "collect", "spawn"})'
          BY <4>1, <4>2, <4>3
        <5> QED
          BY <5>1, NobodyYet, PTL
      <4>5. pool' = pool /\ prog' = prog /\ (prog = Unmodelled \/ pool = prog.pool) /\ prog # Unmodelled
        BY <1>1, <3>1 DEF Launched, input
      <4> QED
        BY <2>2, <3>4, <4>1, <4>3, <4>4, <4>5, PoolAssumption DEF Launched
    <3> QED
      BY <3>3, <3>4
  <2>6. CASE EndFinding
    <3>1. phase = "collect" /\ phase' \in {"spawn", "pool", "probe", "reported"} /\ (phase' = "spawn" <=> Spawns)
      BY <2>6 DEF EndFinding, Spawns
    <3> QED
      BY <1>1, <1>2, <2>2, <2>3, <3>1, PhaseOver
  <2>7. CASE Probing \/ Kernel
    <3>1. phase' = phase /\ phase = "probe"
      BY <2>7 DEF Probing, Kernel, progvars
    <3> QED
      BY <1>1, <2>2, <3>1, SamePhase
  <2>8. CASE Report
    <3>1. phase' = "reported" /\ phase = "probe"
      BY <2>8 DEF Report
    <3>2. Launched'
      <4>1. N' = N /\ (Spawns' <=> Spawns)
        BY <1>1 DEF N, Spawns, input
      <4>2. \A w \in Worker : At(w, "none")' => At(w, "none") /\ Missed(w) /\ Missed(w)'
        BY <1>1, <3>1, <4>1 DEF At, Missed, Launched, Awaits, input, work
      <4> QED
        BY <1>1, <3>1, <4>1, <4>2 DEF Launched, input
    <3> QED
      BY <2>2, <3>2
  <2>9. CASE UNCHANGED nvars
    <3>1. phase' = phase /\ parsing' = parsing
      BY <2>9 DEF nvars, progvars, clvars
    <3>2. phase = "collect" => status' = -1
      BY <2>1 DEF Launched
    <3>3. phase = "parse" => status' = -1 \/ parsing' = "usage"
      BY <2>1, <3>1 DEF Launched
    <3> QED
      BY <1>1, <2>2, <3>1, <3>2, <3>3, SamePhase
  <2> QED
    BY <1>5, <2>4, <2>5, <2>6, <2>7, <2>8, <2>9
<1> QED
  BY <1>3, <1>4, <1>5

\* Every step of a program keeps what holds of its pool and of main.
LEMMA NPStep ==
  ASSUME Begun, COInv', NPInv, [NNext]_nvars
  PROVE  NPInv'
<1>1. prog \in AllPrograms /\ PIInv /\ PDelivery /\ Launched /\ InlineRight /\ Complete
  BY DEF Begun, NPInv
<1>2. CASE Find
  BY <1>1, <1>2, FindStep DEF NPInv
<1>3. CASE Spawn
  BY <1>1, <1>3, SpawnStep DEF NPInv
<1>4. CASE WriteInline
  BY <1>1, <1>4, WriteInlineStep DEF NPInv
<1>5. CASE Wait
  BY <1>1, <1>5, WaitStep DEF NPInv
<1>6. CASE \E w \in Worker : WorkerStep(w)
  BY <1>1, <1>6, WorkerStepStep DEF NPInv
<1>7. CASE ParseWord \/ UsageExit \/ EndParsing \/ EndFinding \/ JoinUnset \/ Probing \/ Kernel \/ Report
             \/ UNCHANGED nvars
  BY <1>1, <1>7, MainStays DEF NPInv
<1> QED
  BY <1>2, <1>3, <1>4, <1>5, <1>6, <1>7 DEF NNext, MainStep

-----------------------------------------------------------------------------
(* The pools as parts of their programs.                                   *)

\* From their arguments on, whatever main does before, between and after the workers, and
\* whether a thread can be started or not: the pools' invariants, how far main has come,
\* and what it has still to write of a slice it searches itself.
THEOREM NSafety == NSpec => []NPInv
<1>1. NInit => NPInv
  BY LaunchedStarts
<1>2. Begun /\ (COInv)' /\ NPInv /\ [NNext]_nvars => NPInv'
  BY NPStep
<1> QED
  BY <1>1, <1>2, PartsRight, PTL DEF NSpec

\* The pool's variables keep their types in the whole programs, where files are added one by
\* one and main may end before a worker does (usage, jthread's exception, pthread_join).
THEOREM NTypeCorrect == NSpec => []PTypeOK
<1>1. NPInv => PTypeOK
  BY DEF NPInv, PIInv
<1> QED
  BY <1>1, NSafety, PTL

\* No line has another one's text inside it, those that grep_std prints while it finds the
\* files included; only a slice that Lua's main writes without the lock may do that.
THEOREM NLinesWhole == NSpec => []LinesWhole
<1>1. NPInv => PIInv
  BY DEF NPInv
<1> QED
  BY <1>1, NSafety, LinesRight, PTL

\* A file's lines come out together, whoever searches it, the walk or a thread.
THEOREM NFilesWhole == NSpec => []FilesWhole
<1>1. NPInv => PTypeOK /\ PDelivery
  BY DEF NPInv, PIInv
<1> QED
  BY <1>1, NSafety, FilesRight, PTL

\* They come out in the file's order and none twice, also when main runs a slice that no
\* process could be forked for.
THEOREM NOwnOrder == NSpec => []OwnOrder
<1>1. NPInv => PDelivery
  BY DEF NPInv
<1> QED
  BY <1>1, NSafety, OwnOrderRight, PTL

\* grep_std.cpp's g_out has the files in the order in which they were found.
THEOREM NListOrder == NSpec => []ListOrder
<1>1. NPInv => PDelivery
  BY DEF NPInv
<1> QED
  BY <1>1, NSafety, ListOrderRight, PTL

\* A program that ends with 0 or 1 has printed every line of every file it has found and can
\* read, although a thread may have been missing: the others or main have done its files.
THEOREM NComplete == NSpec => []Complete
<1>1. NPInv => Complete
  BY DEF NPInv
<1> QED
  BY <1>1, NSafety, PTL
=============================================================================
