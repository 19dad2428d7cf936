------------------------- MODULE FilePoolInvariant -------------------------
(***************************************************************************)
(* What makes the output of the file pools complete and ordered at every   *)
(* step: who may claim which file, where the pieces of a file are, and in  *)
(* which order they will come out.                                         *)
(***************************************************************************)
EXTENDS FilePool

-----------------------------------------------------------------------------
(* Pieces and files of sequences.                                          *)

PiecesOf(s) == {s[k] : k \in 1 .. Len(s)}
PiecesIn(blocks) == UNION {PiecesOf(blocks[k]) : k \in 1 .. Len(blocks)}
FilesOf(s) == {p[1] : p \in PiecesOf(s)}

\* A relation holds from the pieces of s to those of t, and from the earlier to the
\* later ones of s.
Ahead(rel, s, t) == PiecesOf(s) \X PiecesOf(t) \subseteq rel
InOrder(rel, s) == \A i, j \in 1 .. Len(s) : i < j => <<s[i], s[j]>> \in rel

\* The pieces of each file of s stand together.
InOneStretch(s) ==
  \A i, k \in 1 .. Len(s) : s[i][1] = s[k][1] => \A j \in i .. k : s[j][1] = s[i][1]

\* p may come out before q: p is of another file, or ahead of q in its file, or Zig's
\* long line.
MayPrecede(p, q) ==
  p[1] = q[1] => Before(p, q) \/ (~pool.early /\ SizeOf(p) > CAP /\ p[2] # q[2])
Precede == {pq \in Piece \X Piece : MayPrecede(pq[1], pq[2])}
Ascend == {pq \in Piece \X Piece : pq[1][1] <= pq[2][1]}

-----------------------------------------------------------------------------
(* Who has which file.                                                     *)

\* Worker w may still claim file i.
CanClaim(w, i) ==
  \/ pool.hand = "counter" /\ i >= next
  \/ pool.hand = "stride" /\ \E m \in 1 .. i - at[w] : i = at[w] + m * NWorkers
  \/ pool.hand = "chunk" /\ at[w] < i /\ i <= SliceEnd(w)

\* Worker w has its file in hand.
InHand(w) == pc[w] \in {"open", "search", "lock", "write"} /\ at[w] <= LastOf(w)

\* The files worker w still has to do with.
Mine(w) ==
  FilesOf(buf[w]) \cup FilesOf(sending[w]) \cup (IF InHand(w) THEN {at[w]} ELSE {})

\* Pieces that were passed on, and all there are.
Passed == PiecesOf(Out) \cup PiecesIn(mail) \cup PiecesIn(kept)
HeldBy(w) == PiecesOf(buf[w]) \cup PiecesOf(sending[w])
Everywhere == Passed \cup UNION {HeldBy(w) : w \in Worker}

\* The index of a worker's file tells which ones it may still claim.
Counted(w) ==
  /\ pool.hand = "counter" => at[w] < next
  /\ pool.hand = "stride" => \E k \in 0 .. at[w] + NWorkers : at[w] = (w - NWorkers) + k * NWorkers
  /\ pool.hand = "chunk" => at[w] >= SliceEnd(w - 1)

\* No file is two workers', and nobody has seen one that can still be claimed.
ClaimsApart ==
  /\ \A w \in Worker : Counted(w)
  /\ \A w, v \in Worker : w # v => Mine(w) \cap Mine(v) = {}
  /\ \A w \in Worker, i \in 1 .. N : CanClaim(w, i) =>
       /\ \A v \in Worker : InHand(v) => at[v] # i
       /\ \A p \in Everywhere : p[1] # i

-----------------------------------------------------------------------------
(* Where the lines are.                                                    *)

\* The program is one of Pools.
PoolSound ==
  /\ pool.to = "kept" => pool.keep = "file"
  /\ pool.keep = "file" => pool.lock
  /\ pool.dies # {} /\ pool.wait = "join" => pool.hand = "counter" /\ pool.keep = "file"

\* Worker w has nothing left to claim.
Exhausted(w) == IF pool.hand = "counter" THEN next > N ELSE at[w] > LastOf(w)

\* What worker w keeps and sends, by its pc and the way its program keeps lines.
BufferOf(w) ==
  /\ pc[w] \in {"left", "none"} \/ pool.keep = "line" => buf[w] = <<>>
  /\ pc[w] = "end" => at[w] > LastOf(w)
  /\ pc[w] = "left" => Exhausted(w)
  /\ pc[w] = "dead" => pool.dies # {}
  /\ pool.keep = "file" =>
       /\ buf[w] # <<>> => pc[w] = "search"
       /\ FilesOf(buf[w]) \subseteq {at[w]}
       /\ pc[w] \in {"lock", "write"} =>
            InHand(w) /\ line[w] > Len(Lines(w)) /\ FilesOf(sending[w]) \subseteq {at[w]}
KeptShape ==
  /\ Len(kept) <= N
  /\ Len(kept) < N => pool.to = "kept" /\ \A w \in Worker : pc[w] \in {"left", "dead", "none"}
  /\ pool.to # "kept" => \A k \in 1 .. Len(kept) : kept[k] = <<>>
Buffers == PoolSound /\ KeptShape /\ \A w \in Worker : BufferOf(w)

-----------------------------------------------------------------------------
(* The orders.                                                             *)

\* What worker w has is behind what was passed on.
OrderOf(w) ==
  /\ InOrder(Precede, buf[w]) /\ InOrder(Precede, sending[w])
  /\ Ahead(Precede, Out, buf[w]) /\ Ahead(Precede, Out, sending[w])
  /\ Ahead(Precede, sending[w], buf[w])
  /\ \A k \in 1 .. Len(mail) : Ahead(Precede, mail[k], buf[w])
PiecesOrdered ==
  /\ InOrder(Precede, Out)
  /\ \A w \in Worker : OrderOf(w)
  /\ \A k \in 1 .. Len(mail) :
       /\ InOrder(Precede, mail[k]) /\ Ahead(Precede, Out, mail[k])
       /\ \A j \in 1 .. k - 1 : Ahead(Precede, mail[j], mail[k])
  /\ \A k \in 1 .. Len(kept) : InOrder(Precede, kept[k])

\* The lines that worker w has still to find come behind those of its file.
LinesAhead ==
  \A w \in Worker : InHand(w) => \A p \in Everywhere : p[1] = at[w] => p[2] < line[w]

\* Main prints what it keeps from the first file to the last.
KeptInPlace ==
  pool.to = "kept" =>
    /\ InOrder(Ascend, Out)
    /\ \A p \in PiecesOf(Out) : p[1] <= N - Len(kept)
    /\ \A k \in 1 .. Len(kept) : FilesOf(kept[k]) \subseteq {k + (N - Len(kept))}

\* The output and the rest of the block somebody writes.
Flow == IF holder = 0 THEN Out ELSE Out \o sending[holder]

\* The blocks that main has still to take are of a file each, and of different ones.
MailApart ==
  \A k \in 1 .. Len(mail) :
    /\ \A p, q \in PiecesOf(mail[k]) : p[1] = q[1]
    /\ FilesOf(mail[k]) \cap FilesOf(Out) = {}
    /\ \A j \in 1 .. k - 1 : FilesOf(mail[j]) \cap FilesOf(mail[k]) = {}

\* Where whole files are passed on, the one in hand has not been while there is
\* something to pass.
Unpassed(w) == \A p \in Passed : p[1] # at[w]
BlocksApart ==
  pool.keep = "file" =>
    /\ \A w \in Worker :
         /\ pc[w] = "open" => Unpassed(w)
         /\ pc[w] = "search" /\ (More(w) \/ buf[w] # <<>>) => Unpassed(w)
         /\ pc[w] = "lock" => Unpassed(w)
    /\ MailApart /\ InOneStretch(Flow)

-----------------------------------------------------------------------------
(* Nothing is lost.                                                        *)

\* The pieces of line l of file i are somewhere.
LineThere(i, l) == \A p \in 1 .. files[i].lines[l] : <<i, l, p>> \in Everywhere
\* Files of a slice that main runs itself.
MainHas(i) ==
  \E w \in Worker : At(w, "none") /\ at[w] > LastOf(w) /\ pool.hand = "stride" /\ (i - w) % NWorkers = 0
LinesThere ==
  \A i \in 1 .. N : files[i].fault = "no" =>
    \/ MainHas(i)
    \/ \E w \in Worker : CanClaim(w, i)
    \/ \E w \in Worker : InHand(w) /\ at[w] = i /\ \A l \in 1 .. line[w] - 1 : LineThere(i, l)
    \/ \A l \in 1 .. Len(files[i].lines) : LineThere(i, l)
NothingLost ==
  LinesThere /\ (matched => Everywhere # {}) /\ (Everywhere # {} => matched \/ SliceInMain)

\* When main has tried to start every worker: one that was not started leaves its files to
\* the others or to main, who has put all their lines into the output.
NoneIdle ==
  \A w \in Worker : At(w, "none") =>
    (pool.hand = "counter" /\ at[w] = 0) \/ (pool.hand = "stride" /\ at[w] > N)
MainDone ==
  \A i \in 1 .. N : files[i].fault = "no" /\ MainHas(i) =>
    \A l \in 1 .. Len(files[i].lines) : LineThere(i, l)

PDelivery ==
  /\ ClaimsApart /\ Buffers /\ PiecesOrdered /\ LinesAhead
  /\ KeptInPlace /\ BlocksApart /\ NothingLost
=============================================================================
