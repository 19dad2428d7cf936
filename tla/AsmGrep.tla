------------------------------- MODULE AsmGrep -------------------------------
(***************************************************************************)
(* asm/grep.s as a whole: the walker of AsmWalker with the printing of     *)
(* AsmOutput in the place of its one-step search_file and flush_out.       *)
(*                                                                         *)
(* A thread at "search" runs the printing machine on the file in hand until *)
(* search_file returns; one at "flush" runs its last flush_out.  The real  *)
(* flags are match_found and had_error, set in the middle of a search;     *)
(* walk_match and walk_error are the walker's idea of them, set when       *)
(* search_file returns.                                                    *)
(***************************************************************************)
EXTENDS Integers, Sequences, Counting

CONSTANTS
  Node, NoNode, Roots, Entries, DType, Mode, PathLen, Unreadable, opt_r, NThreads,
  PAR_SPAWN, MAX_DIRS, ARENA_SZ, PATH_MAX_BUILD,
  Line, LinesOf, Size, multi, OUTBUF_SZ, WriteMayFail

\* Those of AsmWalker, its refinement and AsmOutput.
ASSUME WalkAssumption ==
  /\ NThreads \in Nat \ {0} /\ MAX_DIRS \in Nat /\ ARENA_SZ \in Nat
  /\ NoNode \notin Node /\ Roots \in Seq(Node) /\ Entries \in [Node -> Seq(Node)]
  /\ PathLen \in [Node -> Nat]
  /\ \A x \in Node : DType[x] \in {"LNK", "UNKNOWN", Mode[x]} \/ Mode[x] = "ERROR"
ASSUME PrintAssumption ==
  /\ LinesOf \in [Node -> Seq(Line)] /\ Size \in [Line -> Nat \ {0}]
  /\ OUTBUF_SZ \in Nat /\ multi \in BOOLEAN
\* A directory has no lines, and a line is one place of one file.
ASSUME LineAssumption ==
  /\ \A f \in Node : LinesOf[f] # <<>> => "DIR" \notin {Mode[f], DType[f]}
  /\ \A f, g \in Node : \A i \in DOMAIN LinesOf[f], j \in DOMAIN LinesOf[g] :
        LinesOf[f][i] = LinesOf[g][j] => f = g /\ i = j

VARIABLES
  dirq, dirq_lock, pending, arena_next, pc, cur, todo, solo, helper,
  walk_match, walk_error, status, visited, lost,
  outbuf, outlen, out_lock, stdout, file, lines, opc, piece,
  match_found, had_error, searched, found, write_failed

Worker == 0 .. NThreads - 1

W == INSTANCE AsmWalker WITH
       Matching <- {f \in Node : LinesOf[f] # <<>>},
       match_found <- walk_match, had_error <- walk_error
O == INSTANCE AsmOutput WITH
       File <- Node, NoFile <- NoNode

walking ==
  <<dirq, dirq_lock, pending, arena_next, pc, cur, todo, solo, helper,
    walk_match, walk_error, status, visited, lost>>
printing ==
  <<outbuf, outlen, out_lock, stdout, file, lines, opc, piece, match_found,
    had_error, searched, found, write_failed>>

GInit == W!Init /\ O!OInit

\* handle_root's own error path sets the one flag both parts share.
MissingRoot == walk_error' /\ ~ walk_error /\ W!At(W!Main, "root")

Unprinted ==
  UNCHANGED <<outbuf, outlen, out_lock, stdout, file, lines, opc, piece,
              match_found, searched, found, write_failed>>

MainStep ==
  /\ W!MainStep
  /\ had_error' = (had_error \/ MissingRoot)
  /\ Unprinted

WalkStep(w) ==
  /\ \/ W!Open(w) \/ W!ReadEntry(w) \/ W!EndOfDir(w) \/ W!ArenaAlloc(w)
     \/ W!LockDirq(w) \/ W!PushTop(w) \/ W!PushPending(w) \/ W!PopTop(w)
     \/ W!UnlockDirq(w) \/ W!Peek(w) \/ W!TestPending(w) \/ W!DecPending(w)
  /\ Unprinted /\ UNCHANGED had_error

BeginSearch(w) ==
  /\ W!At(w, "search")
  /\ O!StartFile(w, W!Child(w))
  /\ UNCHANGED walking

EndSearch(w) == O!EndFile(w) /\ W!SearchFile(w)

PrintSome(w) == O!Printing(w) /\ UNCHANGED walking

BeginFlush(w) ==
  /\ W!At(w, "flush")
  /\ O!FinalFlush(w)
  /\ UNCHANGED walking

\* Mutant: the thread ends with its loop, without the last flush_out.
EndFlushSkipped(w) ==
  /\ W!Flush(w)
  /\ UNCHANGED printing

EndFlush(w) ==
  /\ O!OAt(w, "done")
  /\ W!Flush(w)
  /\ UNCHANGED printing

ThreadStep(w) ==
  \/ WalkStep(w)
  \/ BeginSearch(w) \/ EndSearch(w) \/ PrintSome(w) \/ BeginFlush(w) \/ EndFlush(w)

gvars == <<walking, printing>>
GNext == MainStep \/ \E w \in Worker : ThreadStep(w)
GSpec == GInit /\ [][GNext]_gvars
\* The kernel schedules every thread that can run.
GFairSpec == GSpec /\ WF_gvars(MainStep) /\ \A w \in Worker : WF_gvars(ThreadStep(w))

-----------------------------------------------------------------------------
(* Properties                                                              *)

\* The whole program is the walker: AsmWalker's search_file and flush_out may be
\* spread over many steps, interleaved with other threads, and nothing changes.
WalkerPart == W!FairSpec

\* When the process has ended and no write() has failed, every matching line of every
\* file that was visited stands on stdout, once per visit: no helper's buffer is lost
\* although main reports its status without waiting.
OutputComplete ==
  W!Ended /\ ~ write_failed =>
    \A f \in Node : \A i \in DOMAIN LinesOf[f] :
       Times(LinesOf[f][i], O!Printed) = IF f \in Unreadable THEN 0 ELSE visited[f]

\* The status main computed is the one the flags call for at the end, when every
\* thread has finished every search: 0 only if something was printed, unless a
\* write() failed.
StatusFinal ==
  /\ status # -1 =>
       status = IF had_error THEN 2 ELSE IF match_found THEN 0 ELSE 1
  /\ W!Ended /\ ~ write_failed => (match_found <=> O!Printed # <<>>)

\* "2 = usage/IO error" (asm/grep.s:12): a search that met a directory it could not
\* open and a write() that failed ends with status 2.
DirUnread == \E d \in Unreadable : Mode[d] = "DIR" /\ visited[d] > 0
IOErrorsReported == W!Ended /\ DirUnread /\ write_failed => status = 2

-----------------------------------------------------------------------------
(* The inductive invariant behind StatusFinal and OutputComplete.          *)

\* A thread prints while the walker has it in search_file or flush_out, and has
\* printed everything when the walker is past its flush_out.
LinkOf(w) ==
  /\ file[w] # NoNode => W!At(w, "search") /\ file[w] = W!Child(w)
  /\ opc[w] \in {"lines", "append", "stream", "pieces", "end"} => file[w] # NoNode
  /\ opc[w] \in {"flush_lock", "flush_write", "flush_unlock"} /\ file[w] = NoNode
       => W!At(w, "flush")
  /\ opc[w] = "done" => file[w] = NoNode /\ pc[w] \in {"flush", "join", "exited"}
  /\ pc[w] \in {"join", "exited"} => opc[w] = "done"
  /\ W!At(w, "none") => outlen[w] = 0

\* The flags of the process are ahead of the walker's by the searches under way.
Prints(f) == f \notin Unreadable /\ LinesOf[f] # <<>>
Searching(f) == \E w \in Worker : file[w] = f
ErrorAhead ==
  had_error <=> walk_error \/ \E f \in Node : Searching(f) /\ f \in Unreadable
MatchAheadOf(w) ==
  /\ lines[w] # <<>> => file[w] # NoNode /\ Prints(file[w])
  /\ file[w] # NoNode /\ Prints(file[w]) =>
       match_found \/ (opc[w] = "lines" /\ lines[w] # <<>>)
MatchAhead ==
  /\ match_found => walk_match \/ \E f \in Node : Searching(f) /\ Prints(f)
  /\ walk_match => match_found

StatusLink == status # -1 => W!At(W!Main, "exited") /\ status = W!ExitStatus

Links ==
  /\ \A w \in Worker : LinkOf(w) /\ MatchAheadOf(w)
  /\ ErrorAhead /\ MatchAhead /\ StatusLink

\* The threads have found each line of a readable file once for every search of the
\* file that is over or under way.
InSearch(f) == {w \in Worker : file[w] = f}
FoundVisited ==
  \A f \in Node : \A i \in DOMAIN LinesOf[f] :
     Among(LinesOf[f][i], found)
       = IF f \in Unreadable THEN 0 ELSE visited[f] + Cardinality(InSearch(f))

GIInv == W!IInv /\ O!OIInv /\ O!OwnOrder /\ Links /\ FoundVisited
=============================================================================
