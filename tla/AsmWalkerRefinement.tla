------------------------- MODULE AsmWalkerRefinement -------------------------
(***************************************************************************)
(* AsmWalker implements TreeSearch.  The history variables visited and     *)
(* lost and the exit status are the abstract state as they stand.  A       *)
(* finding waits where the code keeps it: as an argument or entry that is  *)
(* not dispatched yet, on the queue, or in the hand that just popped it.   *)
(***************************************************************************)
EXTENDS AsmWalker, Counting

\* What a path is, by its d_type or else by its st_mode.
Kind(x) == IF DType[x] \in {"LNK", "UNKNOWN"} THEN Mode[x] ELSE DType[x]

\* readdir and stat answer the same of a path, where they answer.
ASSUME TypesAgree ==
  \A x \in Node : DType[x] \in {"LNK", "UNKNOWN", Mode[x]} \/ Mode[x] = "ERROR"

Wanted(kind) == kind = "REG" \/ (kind = "DIR" /\ opt_r)

GivenItems == [x \in Node |-> IF Wanted(Mode[x]) THEN Times(x, Roots) ELSE 0]
ChildItems ==
  [d \in Node |-> [x \in Node |->
     IF Kind(d) = "DIR" /\ d \notin Unreadable /\ Wanted(EntryKind(d, x))
       THEN Times(x, Entries[d]) ELSE 0]]

\* What thread w has not dispatched: after dirq_push has stored or refused the
\* path in hand, that one is no longer among them.
Rest(w) == IF pc[w] \in {"push_pending", "push_unlock"} THEN Tail(todo[w]) ELSE todo[w]

\* The paths handle_root or traverse, whichever w is in, does not pass over.
PicksUp(w, x) == Wanted(IF cur[w] = NoNode THEN Mode[x] ELSE EntryKind(cur[w], x))

Undispatched(x) ==
  [w \in Worker |-> IF PicksUp(w, x) THEN Places(x, Rest(w)) ELSE {}]
JustPopped(x) == {w \in Worker : pc[w] \in {"pop_unlock", "open"} /\ cur[w] = x}

Waiting ==
  [x \in Node |-> Total(Undispatched(x)) + Times(x, dirq) + Cardinality(JustPopped(x))]

HasError(s) == \E i \in DOMAIN s : Mode[s[i]] = "ERROR"
GivenError == HasError(Roots)
BadFile == {x \in Node : Kind(x) = "REG" /\ x \in Unreadable}
Hit == {x \in Node : Kind(x) = "REG" /\ x \in Matching \ Unreadable}

TS == INSTANCE TreeSearch WITH
        Item <- Node, Given <- GivenItems, Children <- ChildItems, waiting <- Waiting

\* Every run of the walker is a run of the abstract search: nothing reachable
\* is skipped or searched twice except what enqueue_dir dropped, and main fixes
\* the exit status when nothing is left.
ImplementsTreeSearch == TS!Spec

-----------------------------------------------------------------------------
(* What the refinement needs beside IInv.                                  *)

\* What a thread has in hand is of the kind its program point handles, and it
\* has arguments or entries only while it reads them.
HandOf(w) ==
  /\ pc[w] \notin Calling \cup {"root", "entry"} => todo[w] = <<>>
  /\ pc[w] \in Calling =>
       /\ PicksUp(w, Child(w))
       /\ Kind(Child(w)) = IF pc[w] = "search" THEN "REG" ELSE "DIR"
  /\ cur[w] # NoNode => Kind(cur[w]) = "DIR"
Hands == \A w \in Worker : HandOf(w)

DirsQueued == \A i \in DOMAIN dirq : Kind(dirq[i]) = "DIR"

\* The arguments main has not handled yet.
ArgsLeft == IF cur[Main] = NoNode THEN todo[Main] ELSE <<>>

\* had_error and match_found are what the arguments handled and the visits made call for.
FlagsMeanVisits ==
  /\ had_error \/ HasError(ArgsLeft) <=> GivenError \/ \E x \in BadFile : visited[x] > 0
  /\ match_found <=> \E x \in Hit : visited[x] > 0

StatusByMain == status # -1 => pc[Main] = "exited"

\* The inductive invariant of the refinement.
RInv == IInv /\ Hands /\ DirsQueued /\ FlagsMeanVisits /\ StatusByMain
=============================================================================
