------------------------------ MODULE TreeSearch ------------------------------
(***************************************************************************)
(* What a recursive search promises, whatever its threads do: every path   *)
(* named on the command line and every path found inside a directory that  *)
(* was visited is itself visited once per finding, or is given up; the     *)
(* process reports a status only when nothing is left to visit, and the    *)
(* status is the one the visited files call for.                           *)
(***************************************************************************)
EXTENDS Integers

CONSTANTS
  Item,        \* files and directories
  Given,       \* [Item -> Nat]: how often each is named on the command line
  Children,    \* [Item -> [Item -> Nat]]: what a visit of an item finds
  GivenError,  \* an argument could not be examined
  BadFile,     \* files whose visit is an error
  Hit          \* files whose visit finds a matching line

VARIABLES
  waiting,     \* [Item -> Nat]: findings nobody has acted on yet
  visited,     \* [Item -> Nat]: visits made
  lost,        \* [Item -> Nat]: findings given up
  status       \* -1 while the search runs, then 0, 1 or 2

tsvars == <<waiting, visited, lost, status>>

Init ==
  /\ waiting = Given
  /\ visited = [x \in Item |-> 0]
  /\ lost = [x \in Item |-> 0]
  /\ status = -1

\* The findings left when one of x is acted on.
Without(x) == [waiting EXCEPT ![x] = @ - 1]

Visit(x) ==
  /\ visited' = [visited EXCEPT ![x] = @ + 1]
  /\ LET left == Without(x) IN waiting' = [y \in Item |-> left[y] + Children[x][y]]
  /\ UNCHANGED <<lost, status>>
  /\ waiting[x] > 0

GiveUp(x) ==
  /\ lost' = [lost EXCEPT ![x] = @ + 1]
  /\ waiting' = Without(x)
  /\ UNCHANGED <<visited, status>>
  /\ waiting[x] > 0

Report ==
  /\ status = -1
  /\ status' = IF GivenError \/ (\E x \in BadFile : visited[x] > 0) THEN 2
               ELSE IF \E x \in Hit : visited[x] > 0 THEN 0 ELSE 1
  /\ UNCHANGED <<waiting, visited, lost>>
  /\ \A x \in Item : waiting[x] = 0

Next == Report \/ \E x \in Item : Visit(x) \/ GiveUp(x)

\* Safety only: that a search reports at all is each program's Termination.
Spec == Init /\ [][Next]_tsvars
=============================================================================
