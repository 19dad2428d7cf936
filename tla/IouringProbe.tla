---------------------------- MODULE IouringProbe ----------------------------
(***************************************************************************)
(* bench/iouring_probe.c after it has collected its files: passes that     *)
(* read every file, either with open, read and close one after the other,  *)
(* or through an io_uring, in batches of PER files and three rounds a      *)
(* batch: all the opens, all the reads, all the closes.                    *)
(*                                                                         *)
(* The kernel completes the requests of a round in any order.  A completion *)
(* carries the slot of its request (its data64) and a result.  A file      *)
(* descriptor is the index of its file.                                    *)
(***************************************************************************)
EXTENDS Integers, Sequences, SequencesExt, FiniteSetsExt, Counting

CONSTANTS
  PER,             \* files per batch
  WARM, ITERS,     \* passes of either kind before and while measuring
  BUFSZ

ASSUME ProbeAssumption ==
  PER \in Nat \ {0} /\ WARM \in Nat /\ ITERS \in Nat \ {0} /\ BUFSZ \in Nat

VARIABLES
  sizes,           \* the files: what a read of each returns, -1 if it cannot be opened
  passes,          \* passes still to make, the current one first
  round,           \* "open", "read" or "close": the round of the batch
  handled,         \* files of the pass in earlier batches
  fds,             \* per slot of the batch: the result of its open
  asked,           \* slots whose request the kernel has not completed
  cq,              \* the completion queue
  waiting,         \* submit_and_wait: completions waited for, 0 when not inside
  total, sync_total, uring_total,
  opened           \* history: descriptors that are open
uvars == <<sizes, passes, round, handled, fds, asked, cq, waiting, total, sync_total,
           uring_total, opened>>

nfiles == Len(sizes)
LowerOf(a, b) == IF a < b THEN a ELSE b
Rounds(n, pass) == [k \in 1 .. n |-> pass]
Schedule ==
  FlattenSeq(Rounds(WARM, <<"sync", "uring">>)) \o Rounds(ITERS, "sync") \o Rounds(ITERS, "uring")

UInit ==
  /\ sizes = <<>> /\ passes = <<>> /\ round = "open" /\ handled = 0 /\ fds = <<>>
  /\ asked = {} /\ cq = <<>> /\ waiting = 0
  /\ total = 0 /\ sync_total = 0 /\ uring_total = 0 /\ opened = {}
StartPasses(s) ==
  /\ sizes' = s /\ passes' = Schedule
  /\ UNCHANGED <<round, handled, fds, asked, cq, waiting, total, sync_total, uring_total, opened>>

Making(pass) == passes # <<>> /\ Head(passes) = pass
ReadResult(f) == LowerOf(sizes[f], BUFSZ)

SyncPass ==
  /\ Making("sync")
  /\ sync_total' = PositiveSum([f \in 1 .. nfiles |-> ReadResult(f)])
  /\ passes' = Tail(passes)
  /\ UNCHANGED <<sizes, round, handled, fds, asked, cq, waiting, total, uring_total, opened>>

-----------------------------------------------------------------------------
(* uring_pass                                                              *)

Slots == 1 .. LowerOf(PER, nfiles - handled)
ToAsk == IF round = "open" THEN Slots ELSE {k \in Slots : fds[k] # -1}
After(r) == CASE r = "open" -> "read" [] r = "read" -> "close" [] r = "close" -> "open"
NextRound ==
  /\ round' = After(round)
  /\ handled' = IF round = "close" THEN handled + Cardinality(Slots) ELSE handled

\* A round with nothing to ask for is left out.
Submit ==
  /\ Making("uring") /\ handled < nfiles /\ waiting = 0
  /\ IF ToAsk = {} THEN NextRound /\ UNCHANGED <<asked, waiting>>
     ELSE asked' = ToAsk /\ waiting' = Cardinality(ToAsk) /\ UNCHANGED <<round, handled>>
  /\ UNCHANGED <<sizes, passes, fds, cq, total, sync_total, uring_total, opened>>

Result(k) ==
  CASE round = "open" -> IF sizes[handled + k] = -1 THEN -1 ELSE handled + k
    [] round = "read" -> ReadResult(fds[k])
    [] round = "close" -> 0

\* The kernel; submit_and_wait may still be waiting for others.
Answer(k) ==
  /\ k \in asked
  /\ asked' = asked \ {k}
  /\ cq' = Append(cq, [slot |-> k, res |-> Result(k)])
  /\ opened' = CASE round = "open" -> opened \cup ({Result(k)} \ {-1})
                  [] round = "read" -> opened
                  [] round = "close" -> opened \ {fds[k]}
  /\ UNCHANGED <<sizes, passes, round, handled, fds, waiting, total, sync_total, uring_total>>

ResultIn(k) ==
  LET its == {e \in ToSet(cq) : e.slot = k}
  IN  IF its = {} THEN -1 ELSE (CHOOSE e \in its : TRUE).res
Reaped ==
  /\ fds' = IF round = "open" THEN [k \in Slots |-> ResultIn(k)] ELSE fds
  /\ total' = IF round = "read" THEN total + PositiveSum([i \in DOMAIN cq |-> cq[i].res]) ELSE total
  /\ cq' = <<>> /\ waiting' = 0
  /\ NextRound
  /\ UNCHANGED <<sizes, passes, asked, sync_total, uring_total, opened>>

\* Mutant of Reap: the first completion ends the wait.
ReapEarly == waiting > 0 /\ cq # <<>> /\ Reaped

\* Whatever is in the completion queue is taken, and the ring advanced past it.
Reap == waiting > 0 /\ Len(cq) >= waiting /\ Reaped

EndUringPass ==
  /\ Making("uring") /\ handled >= nfiles
  /\ uring_total' = total
  /\ handled' = 0 /\ total' = 0 /\ passes' = Tail(passes)
  /\ UNCHANGED <<sizes, round, fds, asked, cq, waiting, sync_total, opened>>

ProbeStep == SyncPass \/ Submit \/ Reap \/ EndUringPass
KernelStep == \E k \in asked : Answer(k)

-----------------------------------------------------------------------------
(* Properties                                                              *)

\* Both ways read the same bytes ("same work", bench/iouring_probe.c:8), in whatever
\* order the kernel answers: no completion is taken for one of another round, and no
\* round or pass leaves a request, a completion or a descriptor behind.
SameWork ==
  /\ waiting = 0 => asked = {} /\ cq = <<>>
  /\ handled = 0 /\ round = "open" /\ waiting = 0 => opened = {}
  /\ sizes # <<>> /\ passes = <<>> => uring_total = sync_total

\* What makes it inductive: the ring holds one request or completion for each slot of the
\* round, fds and opened tell which files of the batch are open, and total what was read.
UTypeOK ==
  /\ sizes \in Seq(Nat \cup {-1}) /\ passes \in Seq({"sync", "uring"})
  /\ round \in {"open", "read", "close"} /\ handled \in 0 .. nfiles
  /\ round # "open" => handled < nfiles
  /\ waiting \in Nat /\ cq \in Seq([slot : Nat, res : Int])
Answered(k) == \E i \in DOMAIN cq : cq[i].slot = k
RingExact ==
  /\ waiting = 0 => asked = {} /\ cq = <<>>
  /\ waiting # 0 => /\ handled < nfiles /\ waiting = Cardinality(ToAsk)
                    /\ asked \subseteq ToAsk
                    /\ \A k \in ToAsk : k \in asked \/ Answered(k)
  /\ \A i \in DOMAIN cq :
       /\ cq[i].slot \in ToAsk \ asked /\ cq[i].res = Result(cq[i].slot)
       /\ \A j \in DOMAIN cq : cq[i].slot = cq[j].slot => i = j
DescriptorsRight ==
  /\ round # "open" =>
       fds = [k \in Slots |-> IF sizes[handled + k] = -1 THEN -1 ELSE handled + k]
  /\ opened = {handled + k : k \in {l \in Slots :
       /\ sizes[handled + l] # -1
       /\ round = "open" => Answered(l)
       /\ round = "close" => ~ Answered(l)}}
SumTo(n) == PositiveSum([f \in 1 .. n |-> ReadResult(f)])
TotalsRight ==
  /\ total = SumTo(IF round = "close" THEN handled + Cardinality(Slots) ELSE handled)
  /\ sync_total = SumTo(nfiles) \/ \E i \in DOMAIN passes : passes[i] = "sync"
  /\ uring_total = SumTo(nfiles) \/ \E i \in DOMAIN passes : passes[i] = "uring"
UIInv == UTypeOK /\ RingExact /\ DescriptorsRight /\ TotalsRight
=============================================================================
