----------------------------- MODULE VerifyImpl -----------------------------
(***************************************************************************)
(* tests/verify_impl.sh: it runs every program it is given once for each   *)
(* of its cases, and compares what the program prints with what grep -F    *)
(* prints.  A program reads its words (CommandLine) and searches its files *)
(* one after the other (LineScan).  Of the cases those with a pattern and  *)
(* one text file are modelled.                                             *)
(*                                                                         *)
(* The output goes through sort and into a variable: the lines count in    *)
(* any order, and $(...) cuts newlines off the end, so that an output of   *)
(* empty lines only is the same as none.  The status that check compares   *)
(* is that of sort, 0 for both sides.                                      *)
(***************************************************************************)
EXTENDS Integers, Sequences, FiniteSets, SequencesExt

CONSTANTS
  Byte, NL, NUL, SIZE, BIN_PEEK,   \* as in LineScan
  Programs,        \* the arguments of the script, records as below
  Cases,           \* [name, args]: the checks of run_one
  Fixture          \* the bytes of the file that a path names

VARIABLES
  left,            \* the checks not finished; the first one is under way
  running,         \* where it is: "start", "args", "search" or "compare"
  bo,              \* the lines its program has printed
  report,          \* the checks made, each with "ok" or "FAIL"
  parser, argv, parsing, arg, no_more, opt_i, opt_r, pattern, npaths, pat_seen, paths,
  scan, pat, todo, buf, n, pos, printed, pc

\* Words, patterns and files come from the checks.
CL == INSTANCE CommandLine WITH pat <- pattern, Argvs <- {}, Parsers <- {}
LS == INSTANCE LineScan WITH Searches <- {}, Jobs <- {}

clvars == <<parser, argv, parsing, arg, no_more, opt_i, opt_r, pattern, npaths, pat_seen, paths>>
lsvars == <<scan, pat, todo, buf, n, pos, printed, pc>>
vvars == <<left, running, bo, report, clvars, lsvars>>

cgrep == [name |-> "cgrep", parser |-> CL!c_parser, scan |-> LS!c_scan]
zgrep == [name |-> "zgrep", parser |-> CL!zig_parser, scan |-> LS!zig_scan]
zgrep_std_mt == [name |-> "zgrep_std_mt", parser |-> CL!OnePass, scan |-> LS!zig_std_mt_scan]
gogrep == [name |-> "gogrep", parser |-> CL!OnePass, scan |-> LS!go_scan]
gogrep_mt == [name |-> "gogrep_mt", parser |-> CL!OnePass, scan |-> LS!go_mt_scan]
rustgrep == [name |-> "rustgrep", parser |-> CL!OnePass, scan |-> LS!rust_scan]

-----------------------------------------------------------------------------
VInit ==
  /\ left = FlattenSeq([i \in DOMAIN Programs |->
              [j \in DOMAIN Cases |-> [program |-> Programs[i], case |-> Cases[j]]]])
  /\ running = "start" /\ bo = <<>> /\ report = <<>>
  /\ parser = Programs[1].parser /\ argv = <<>> /\ CL!CLStart
  /\ scan = Programs[1].scan /\ pat = <<>> /\ todo = <<>>
  /\ buf = [i \in 0 .. SIZE - 1 |-> NUL] /\ n = 0 /\ pos = 0 /\ printed = <<>> /\ pc = "read"

Run ==
  /\ running = "start" /\ left # <<>>
  /\ parser' = Head(left).program.parser /\ argv' = Head(left).case.args
  /\ parsing' = "classify" /\ arg' = 1 /\ no_more' = FALSE
  /\ opt_i' = FALSE /\ opt_r' = FALSE
  /\ pattern' = CL!NoWord /\ npaths' = 0 /\ pat_seen' = FALSE /\ paths' = <<>>
  /\ running' = "args" /\ bo' = <<>>
  /\ UNCHANGED <<left, report, lsvars>>

ReadArgs ==
  /\ running = "args" /\ CL!Parse
  /\ UNCHANGED <<left, running, bo, report, lsvars>>

\* The usage goes to stderr, which the script drops.
UsageExit ==
  /\ running = "args" /\ parsing = "usage"
  /\ running' = "compare"
  /\ UNCHANGED <<left, bo, report, clvars, lsvars>>

StartSearch ==
  /\ running = "args" /\ parsing = "parsed"
  /\ scan' = Head(left).program.scan /\ pat' = pattern
  /\ todo' = [i \in DOMAIN paths |-> Fixture[paths[i]]]
  /\ buf' = [i \in 0 .. SIZE - 1 |-> NUL] /\ n' = 0 /\ pos' = 0 /\ printed' = <<>> /\ pc' = "read"
  /\ running' = "search"
  /\ UNCHANGED <<left, bo, report, clvars>>

\* The bytes of line l of the file f.
Text(f, l) == SubSeq(f, l[1] + 1, l[2])

Search ==
  /\ running = "search" /\ LS!SNext
  /\ bo' = IF pc = "done" THEN bo \o [i \in DOMAIN printed |-> Text(Head(todo), printed[i])] ELSE bo
  /\ UNCHANGED <<left, running, report, clvars>>

EndSearch ==
  /\ running = "search" /\ pc = "read" /\ todo = <<>>
  /\ running' = "compare"
  /\ UNCHANGED <<left, bo, report, clvars, lsvars>>

\* What grep -F prints for a case: the lines as a bag.
Has(f, l, p) == \E k \in l[1] .. l[2] - Len(p) : SubSeq(f, k + 1, k + Len(p)) = p
MatchesOf(c) ==
  LET f == Fixture[c.args[2]] IN
  {l \in (0 .. Len(f)) \X (0 .. Len(f)) : LS!LineOf(f, l) /\ Has(f, l, c.args[1])}
go(c) ==
  LET TextOf(l) == Text(Fixture[c.args[2]], l) IN
  [t \in {TextOf(l) : l \in MatchesOf(c)} |-> Cardinality({l \in MatchesOf(c) : TextOf(l) = t})]

\* What a variable holds of a bag of lines.
Captured(bag) == IF DOMAIN bag \subseteq {<<>>} THEN <<>> ELSE bag

Compare ==
  /\ running = "compare"
  /\ LET c == Head(left).case
         same == Captured(ToBag(bo)) = Captured(go(c)) IN
     report' = Append(report, <<Head(left).program.name, c.name, IF same THEN "ok" ELSE "FAIL">>)
  /\ left' = Tail(left) /\ running' = "start"
  /\ UNCHANGED <<bo, clvars, lsvars>>

VNext == Run \/ ReadArgs \/ UsageExit \/ StartSearch \/ Search \/ EndSearch \/ Compare
VSpec == VInit /\ [][VNext]_vvars

-----------------------------------------------------------------------------
(* Properties                                                              *)

tot_fail == Cardinality({i \in DOMAIN report : report[i][3] = "FAIL"})

\* When the script is through, no program has printed anything else than grep -F:
\* it compares "ANY grep-clone binary" (tests/verify_impl.sh:2), lines 64 and 65 give
\* each an empty pattern, and "all implementations are byte-for-byte identical to
\* grep" (README.md:46).  Both the words a program makes of its arguments and the
\* end of its loop count.
EveryImplPasses == left = <<>> => tot_fail = 0
=============================================================================
