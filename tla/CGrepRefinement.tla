--------------------------- MODULE CGrepRefinement ---------------------------
(***************************************************************************)
(* CGrep implements TreeSearch; the C program does without giving anything *)
(* up, because its queue grows as needed.  A crash in pthread_join is a    *)
(* search that never reports.  A finding waits where the code keeps it: as *)
(* an argument or entry that is not dispatched yet, on the queue, or in    *)
(* the hand that just popped it.                                           *)
(***************************************************************************)
EXTENDS CGrep

\* What a path is, by its d_type or else by what stat says.
Kind(x) == IF DType[x] \in {"LNK", "UNKNOWN"} THEN Mode[x] ELSE DType[x]

\* readdir and stat answer the same of a path, where they answer.
ASSUME TypesAgree ==
  \A x \in Node : DType[x] \in {"LNK", "UNKNOWN", Mode[x]} \/ Mode[x] = "ERROR"

Wanted(kind) == kind = "REG" \/ (kind = "DIR" /\ g_r)

GivenItems == [x \in Node |-> IF Wanted(Mode[x]) THEN Times(x, Paths) ELSE 0]
ChildItems ==
  [d \in Node |-> [x \in Node |->
     IF Kind(d) = "DIR" /\ d \notin Unreadable /\ Wanted(EntryKind(x))
       THEN Times(x, Entries[d]) ELSE 0]]

\* What thread w has not dispatched: a path that q_push has stored, or a file that
\* search_file has opened, is no longer among them.
Rest(w) == IF pc[w] \in {"count", "lines", "stream"} THEN Tail(todo[w]) ELSE todo[w]

\* The paths main or traverse, whichever w is in, does not pass over.
PicksUp(w, x) == Wanted(IF dir[w] = NoNode THEN Mode[x] ELSE EntryKind(x))

Undispatched(x) ==
  [w \in Worker |-> IF PicksUp(w, x) THEN Places(x, Rest(w)) ELSE {}]
JustPopped(x) == {w \in Worker : pc[w] = "open" /\ dir[w] = x}

Waiting ==
  [x \in Node |-> Total(Undispatched(x)) + Times(x, g_q) + Cardinality(JustPopped(x))]

Reported == IF status = SIGSEGV THEN -1 ELSE status

HasError(s) == \E i \in DOMAIN s : Mode[s[i]] = "ERROR"
GivenError == HasError(Paths)
BadFile == {x \in Node : Kind(x) = "REG" /\ x \in Unreadable}
Hit == {x \in Node \ (Unreadable \cup Unmapped) : Kind(x) = "REG" /\ LinesOf[x] # <<>>}

TS == INSTANCE TreeSearch WITH
        Item <- Node, Given <- GivenItems, Children <- ChildItems, waiting <- Waiting,
        status <- Reported

\* Every run of the C or Zig program is a run of the abstract search: each file and
\* directory that can be reached is visited once per finding or, by the Zig program,
\* given up for lack of room, and main reports when there is nothing left, with the
\* status the visits call for.
ImplementsTreeSearch == TS!Spec

-----------------------------------------------------------------------------
(* What the refinement needs beside CIInv.                                 *)

Counted == visited \in [Node -> Nat]

\* What a thread has in hand is of the kind its program point handles; it has
\* arguments or entries only while it reads them, and lines only in search_file.
HandOf(w) ==
  /\ pc[w] \notin Calling \cup {"arg", "entry"} => todo[w] = <<>>
  /\ pc[w] \in Calling =>
       /\ PicksUp(w, Child(w))
       /\ Kind(Child(w)) = IF pc[w] \in {"file", "lines", "stream"} THEN "REG" ELSE "DIR"
  /\ dir[w] # NoNode => Kind(dir[w]) = "DIR"
  /\ lines[w] # <<>> => pc[w] \in {"lines", "stream"}
Hands == \A w \in Worker : HandOf(w)

DirsQueued == \A i \in DOMAIN g_q : Kind(g_q[i]) = "DIR"

\* The arguments main has not finished.
ArgsLeft == IF dir[Main] = NoNode THEN todo[Main] ELSE <<>>

\* g_err and g_match are what the arguments handled and the visits made call for; a
\* line found and not emitted yet will set g_match.
FlagsMeanVisits ==
  /\ g_err \/ HasError(ArgsLeft) <=> GivenError \/ \E x \in BadFile : visited[x] > 0
  /\ g_match \/ (\E w \in Worker : lines[w] # <<>>) <=> \E x \in Hit : visited[x] > 0

\* A line that is being streamed has set g_match.
StreamMatches == \A w \in Worker : pc[w] = "stream" => g_match

\* The inductive invariant of the refinement.
CRInv == CIInv /\ Counted /\ Hands /\ DirsQueued /\ StreamMatches /\ FlagsMeanVisits

-----------------------------------------------------------------------------
(* What the properties of the output need beside CRInv.                    *)

\* An oversized line never waits in a buffer, and only such a line is streamed; a
\* thread that has flushed for the last time keeps nothing.
BufferOf(w) ==
  /\ obuf[w] \in Seq(Line \ Big)
  /\ pc[w] \in {"none", "left", "join"} => obuf[w] = <<>>
  /\ pc[w] = "stream" => Current(w) \in Big
Buffers == \A w \in Worker : BufferOf(w)

\* The threads have found each line of a file once per visit, if it could be read.
FoundVisited ==
  /\ found \in [Worker -> Seq(Line)]
  /\ \A f \in Node : \A i \in DOMAIN LinesOf[f] :
       Among(LinesOf[f][i], found) = IF f \in Unreadable \cup Unmapped THEN 0 ELSE visited[f]

COInv == CRInv /\ Buffers /\ EachKindInOrder /\ FoundVisited
=============================================================================
