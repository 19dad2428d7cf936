----------------------- MODULE NativeProgramsInvariant -----------------------
(***************************************************************************)
(* What holds of the C and C++ programs, of Lua's main and of the probe at *)
(* every step besides the invariants of their parts: how far main has come *)
(* and what its parts are like then.                                       *)
(***************************************************************************)
EXTENDS NativePrograms, FilePoolInvariant

AllPrograms == LibraryPrograms \cup {HandWritten, Unmodelled, iouring_probe, grep_mt_lua}
Spawns == prog.then = "spawn"

\* What a part finds when its turn comes: nothing of it has begun.
Begun ==
  /\ prog \in AllPrograms
  /\ phase = "parse" => ahead = <<>> /\ listed = <<>>
  /\ phase \in {"parse", "collect"} => UInit

\* A pool whose workers take the files from a counter and do not die.
Plain(p) ==
  /\ p \in Programs /\ p.hand = "counter" /\ p.early = TRUE /\ p.dies = {} /\ p.lock = TRUE
  /\ p.to = "kept" => p.keep = "file"

\* Before the pool there is nobody to work.  A program that searches what it finds has
\* claimed every file and put its lines where they belong, each file's block behind the
\* others; of one that does not nothing is out.
Unstarted ==
  /\ Plain(pool)
  /\ next = (IF Spawns THEN 1 ELSE N + 1)
  /\ at = [w \in Worker |-> 0] /\ line = [w \in Worker |-> 1]
  /\ buf = [w \in Worker |-> <<>>] /\ sending = [w \in Worker |-> <<>>]
  /\ pc = [w \in Worker |-> IF Spawns THEN "none" ELSE "left"] /\ holder = 0
  /\ mail = <<>> /\ Len(kept) = N
  /\ pool.to = "stdout" => stream = <<>>
  /\ pool.to = "kept" => Out = <<>>
  /\ Whole(files, Out) /\ InOrder(Precede, Out) /\ InOneStretch(Out)
  /\ \A k \in 1 .. N :
       /\ Whole(files, kept[k]) /\ InOrder(Precede, kept[k]) /\ FilesOf(kept[k]) \subseteq {k}
       /\ pool.to # "kept" => kept[k] = <<>>
  /\ \A p \in Everywhere : p[1] \in 1 .. N
  /\ matched <=> Everywhere # {}
  /\ IF Spawns THEN Everywhere = {}
     ELSE \A i \in 1 .. N : files[i].fault = "no" =>
            \A l \in 1 .. Len(files[i].lines) : LineThere(i, l)

\* A worker main has not come to, and one that could not be started.
Awaits(w) == phase \in {"parse", "collect", "spawn"} /\ w > started /\ at[w] = BeforeFirst(w)
Missed(w) ==
  /\ w <= started
  /\ (pool.hand = "counter" /\ at[w] = 0) \/ (pool.hand = "stride" /\ at[w] > N)

\* How far main has come.
Launched ==
  /\ prog = Unmodelled \/ pool = prog.pool
  /\ phase \in {"parse", "collect"} => Unstarted /\ started = 0 /\ inline = <<>>
  /\ phase = "parse" => status = -1 \/ parsing = "usage"
  /\ phase = "collect" => status = -1 /\ prog.then # "elsewhere"
  /\ prog = Unmodelled => phase = "pool"
  /\ phase = "spawn" =>
       Spawns /\ started < NWorkers /\ Len(kept) = N /\ \A w \in Worker : w > started => At(w, "none")
  /\ phase = "pool" /\ Spawns => started = NWorkers
  /\ started \in 0 .. NWorkers
  /\ \A w \in Worker : At(w, "none") => Spawns /\ (Awaits(w) \/ Missed(w))

\* What main has still to write of a slice: lines of files that are nobody else's, in their
\* order and behind what is out.
InlineRight ==
  /\ inline \in Seq(Piece)
  /\ inline # <<>> => prog = grep_mt_lua /\ status = -1 /\ SliceInMain
  /\ InOrder(Precede, inline) /\ Ahead(Precede, Out, inline)
  /\ \A i \in FilesOf(inline) : \A w \in Worker : i \notin Mine(w) /\ (i \in 1 .. N => ~ CanClaim(w, i))
  /\ \A i \in 1 .. N : files[i].fault = "no" /\ MainHas(i) =>
       \A l \in 1 .. Len(files[i].lines) : \A k \in 1 .. files[i].lines[l] :
         <<i, l, k>> \in Everywhere \cup PiecesOf(inline)

NPInv == PIInv /\ PDelivery /\ Launched /\ InlineRight /\ Complete
=============================================================================
