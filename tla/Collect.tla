------------------------------ MODULE Collect ------------------------------
(***************************************************************************)
(* How the C and C++ programs that use their library's walk find files:    *)
(* nftw with FTW_PHYS, recursive_directory_iterator, and the io_uring      *)
(* probe's own recursion over readdir.  All meet the entries of a directory *)
(* right after it, so what a walk has ahead of it is one sequence.         *)
(*                                                                         *)
(* A Node is a path: what is reached through a link is another node.       *)
(***************************************************************************)
EXTENDS Integers, Sequences, SequencesExt, FiniteSetsExt, Counting

CONSTANTS
  Node,
  Kind,            \* [Node -> STRING]: what lstat says
  Mode,            \* [Node -> STRING]: what stat says, links followed
  Typeless,        \* entries whose d_type is DT_UNKNOWN
  Entries,         \* [Node -> Seq(Node)]
  Levels,          \* [Node -> Nat]: how deep what lies below a node can be
  Denied, Broken   \* directories that opendir refuses: EACCES, anything else

\* Paths make a tree: an entry is in one directory, once, and deeper than that.
ASSUME TreeAssumption ==
  /\ Kind \in [Node -> STRING] /\ Mode \in [Node -> STRING]
  /\ Entries \in [Node -> Seq(Node)] /\ Levels \in [Node -> Nat] /\ Denied \cap Broken = {}
  /\ \A d \in Node : \A i \in DOMAIN Entries[d] :
       /\ Levels[Entries[d][i]] < Levels[d]
       /\ \A e \in Node : \A j \in DOMAIN Entries[e] :
            Entries[d][i] = Entries[e][j] => d = e /\ i = j

VARIABLES
  walk,            \* the program's walk: "nftw", "iterator" or "readdir"
  recurse,         \* -r
  roots,           \* arguments not handled yet
  ahead,           \* what the walk below the last root has still to meet
  listed,          \* files found
  given            \* history: all the arguments

covars == <<walk, recurse, roots, ahead, listed, given>>

COInit ==
  /\ walk = "none" /\ recurse = FALSE
  /\ roots = <<>> /\ ahead = <<>> /\ listed = <<>> /\ given = <<>>
StartCollecting(w, r, args) ==
  /\ walk' = w /\ recurse' = r /\ roots' = args /\ given' = args
  /\ UNCHANGED <<ahead, listed>>

\* What a walk takes an entry for: nftw calls whatever is neither directory nor link
\* a file; the recursion asks stat, which follows links, where there is no d_type.
NftwType(n) == IF Kind[n] \in {"DIR", "LNK"} THEN Kind[n] ELSE "REG"
IteratorType(n) == Kind[n]
ReaddirType(n) == IF n \in Typeless THEN Mode[n] ELSE Kind[n]
TypeOf(n) ==
  CASE walk = "nftw" -> NftwType(n)
    [] walk = "iterator" -> IteratorType(n)
    [] walk = "readdir" -> ReaddirType(n)

\* What is ahead once directory n has been opened, or not.  The library walks end
\* at an error they do not expect, the recursion goes on after it.
AfterEntering(n, rest) ==
  CASE n \in Denied -> rest
    [] n \in Broken -> IF walk = "readdir" THEN rest ELSE <<>>
    [] OTHER -> Entries[n] \o rest

\* main stats its arguments, links followed; nftw looks at the link again.
Wanders(n) == Mode[n] = "DIR" /\ recurse /\ (walk = "nftw" => Kind[n] = "DIR")
NextRoot ==
  /\ ahead = <<>> /\ roots # <<>>
  /\ LET n == Head(roots) IN
     /\ ahead' = IF Wanders(n) \/ walk = "readdir" THEN AfterEntering(n, <<>>) ELSE <<>>
     /\ listed' = IF Mode[n] = "REG" /\ walk # "readdir" THEN Append(listed, n) ELSE listed
  /\ roots' = Tail(roots)
  /\ UNCHANGED <<walk, recurse, given>>

\* Mutant of Meet: links are followed.
MeetTarget ==
  /\ ahead # <<>>
  /\ LET n == Head(ahead) IN
     /\ ahead' = IF Mode[n] = "DIR" THEN AfterEntering(n, Tail(ahead)) ELSE Tail(ahead)
     /\ listed' = IF Mode[n] = "REG" THEN Append(listed, n) ELSE listed
  /\ UNCHANGED <<walk, recurse, roots, given>>

Meet ==
  /\ ahead # <<>>
  /\ LET n == Head(ahead) IN
     /\ ahead' = IF TypeOf(n) = "DIR" THEN AfterEntering(n, Tail(ahead)) ELSE Tail(ahead)
     /\ listed' = IF TypeOf(n) = "REG" THEN Append(listed, n) ELSE listed
  /\ UNCHANGED <<walk, recurse, roots, given>>

AllCollected == roots = <<>> /\ ahead = <<>>

-----------------------------------------------------------------------------
(* Properties                                                              *)

\* What lies below each directory, links not followed, and what of it can be reached.
EntriesOf(d) == IF d \in Denied \cup Broken THEN {} ELSE ToSet(Entries[d])
Below[d \in Node] ==
  UNION {{n} \cup (IF Kind[n] = "DIR" THEN Below[n] ELSE {}) : n \in EntriesOf(d)}

\* The arguments through which n is to be found.
Searchable(n) == Kind[n] = "REG" \/ (walk = "nftw" /\ Kind[n] \notin {"DIR", "LNK"})
WaysTo(n) ==
  {a \in Node : (a = n /\ Mode[n] = "REG") \/ (Wanders(a) /\ n \in Below[a] /\ Searchable(n))}
Unhurt == \A i \in DOMAIN given :
  Wanders(given[i]) => ({given[i]} \cup Below[given[i]]) \cap Broken = {}

\* A library walk lists every regular file once for each argument that names it or
\* that it lies below, and neither a link nor what is reached through one ("Symlinks
\* are not followed during recursion", README.md:402).  Directories that deny access
\* are left out; where one fails in another way files may be missing, never added.
FilesFoundOnce ==
  walk \in {"nftw", "iterator"} /\ AllCollected =>
    \A n \in Node :
      /\ Times(n, listed) <= Hits(WaysTo(n), given)
      /\ Unhurt => Times(n, listed) = Hits(WaysTo(n), given)

\* What makes it inductive: what is found and the ways that are still to be gone make up
\* the ways there are.
AheadTo(n) ==
  IF Searchable(n) THEN {a \in Node : a = n \/ (Kind[a] = "DIR" /\ n \in Below[a])} ELSE {}
Found(n) == Times(n, listed) + Hits(AheadTo(n), ahead) + Hits(WaysTo(n), roots)
WaysKept ==
  walk \in {"nftw", "iterator"} =>
    \A n \in Node :
      /\ Found(n) <= Hits(WaysTo(n), given)
      /\ Unhurt => Found(n) = Hits(WaysTo(n), given)
\* What is ahead and below it has not failed where nothing does.
AheadUnhurt ==
  Unhurt /\ walk \in {"nftw", "iterator"} =>
    \A i \in DOMAIN ahead :
      Kind[ahead[i]] = "DIR" => ({ahead[i]} \cup Below[ahead[i]]) \cap Broken = {}
COTypeOK ==
  /\ walk \in {"none", "nftw", "iterator", "readdir"} /\ recurse \in BOOLEAN
  /\ roots \in Seq(Node) /\ ahead \in Seq(Node) /\ listed \in Seq(Node)
  /\ given \in Seq(Node)
  /\ \A i \in DOMAIN roots : \E j \in DOMAIN given : roots[i] = given[j]
COInv == COTypeOK /\ WaysKept /\ AheadUnhurt
=============================================================================
