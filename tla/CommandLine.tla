---------------------------- MODULE CommandLine ----------------------------
(***************************************************************************)
(* What the programs make of their arguments.  Options are words that      *)
(* start with a dash and have more to them, up to the first "--"; of the   *)
(* other words the first is the pattern and the rest are the paths.  A     *)
(* bad option, no pattern or no path ends the program with status 2.       *)
(*                                                                         *)
(* The hand-written programs go over the words twice: once for the options *)
(* and the number of paths, and again to search the paths.  The others     *)
(* gather the paths in the only pass.                                      *)
(*                                                                         *)
(* A word is the sequence of its characters.  One step is one word.        *)
(***************************************************************************)
EXTENDS Integers, Sequences, FiniteSets, SequencesExt

CONSTANTS
  Argvs,           \* the command lines, without the program's name
  Parsers          \* the programs, records as below

Dash == "-"
EndOfOptions == <<Dash, Dash>>
NoWord == <<"NULL">>
ParserRecords ==
  [passes : {1, 2},
   unset : {"null", "empty"}]   \* how a pattern not seen yet is told from one

ASSUME ArgvAssumption ==
  /\ Parsers \subseteq ParserRecords
  /\ Argvs \subseteq Seq(Seq(STRING)) /\ \A v \in Argvs : \A i \in DOMAIN v : v[i] # NoWord

VARIABLES
  parser, argv,
  parsing,         \* "classify" or "revisit" for a pass; "parsed" or "usage" at the end
  arg,             \* the index of the next word
  no_more,         \* "--" has been seen
  opt_i, opt_r,
  pat, npaths,     \* the pattern, NoWord if not seen; how many words follow it
  pat_seen, paths  \* the second pass: the pattern has been met; the paths

parsed == <<opt_i, opt_r, pat, npaths, pat_seen, paths>>
clvars == <<parser, argv, parsing, arg, no_more, parsed>>

\* A null pointer, a flag; and a slice that is empty until it is set.
OnePass == [passes |-> 1, unset |-> "null"]
asm_parser == [passes |-> 2, unset |-> "null"]
c_parser == asm_parser
zig_parser == [passes |-> 2, unset |-> "empty"]

CLStart ==
  /\ parsing = "classify" /\ arg = 1 /\ no_more = FALSE
  /\ opt_i = FALSE /\ opt_r = FALSE
  /\ pat = NoWord /\ npaths = 0 /\ pat_seen = FALSE /\ paths = <<>>

InPass(p) == parsing = p /\ arg <= Len(argv)
Over(p) == parsing = p /\ arg > Len(argv)
Word == argv[arg]
OptionLike(word) == Len(word) >= 2 /\ Head(word) = Dash
IsOption == ~ no_more /\ OptionLike(Word)
Letters(word) == {word[i] : i \in 2 .. Len(word)}
Known == {"i", "r"}
NextWord == arg' = arg + 1 /\ UNCHANGED <<parser, argv, parsing>>
HasPattern == pat # NoWord /\ (parser.unset = "empty" => pat # <<>>)

\* Mutant of EndsOptions: later words are still taken for options.
EndsOptionsNever ==
  /\ InPass("classify") /\ IsOption /\ Word = EndOfOptions
  /\ NextWord /\ UNCHANGED <<no_more, parsed>>

EndsOptions ==
  /\ InPass("classify") /\ IsOption /\ Word = EndOfOptions
  /\ no_more' = TRUE
  /\ NextWord /\ UNCHANGED parsed

Option ==
  /\ InPass("classify") /\ IsOption /\ Word # EndOfOptions /\ Letters(Word) \subseteq Known
  /\ opt_i' = (opt_i \/ "i" \in Letters(Word))
  /\ opt_r' = (opt_r \/ "r" \in Letters(Word))
  /\ NextWord /\ UNCHANGED <<no_more, pat, npaths, pat_seen, paths>>

Usage == parsing' = "usage" /\ UNCHANGED <<parser, argv, arg, no_more, parsed>>
BadOption ==
  /\ InPass("classify") /\ IsOption /\ Word # EndOfOptions /\ ~ Letters(Word) \subseteq Known
  /\ Usage

TakePattern ==
  /\ InPass("classify") /\ ~ IsOption /\ ~ HasPattern
  /\ pat' = Word
  /\ NextWord /\ UNCHANGED <<no_more, opt_i, opt_r, npaths, pat_seen, paths>>

TakePath ==
  /\ InPass("classify") /\ ~ IsOption /\ HasPattern
  /\ npaths' = npaths + 1
  /\ paths' = IF parser.passes = 1 THEN Append(paths, Word) ELSE paths
  /\ NextWord /\ UNCHANGED <<no_more, opt_i, opt_r, pat, pat_seen>>

\* The second pass starts over, without its "--" seen.
EndPass ==
  /\ Over("classify")
  /\ IF ~ HasPattern \/ npaths = 0
       THEN Usage
       ELSE /\ parsing' = IF parser.passes = 2 THEN "revisit" ELSE "parsed"
            /\ arg' = 1 /\ no_more' = FALSE
            /\ UNCHANGED <<parser, argv, parsed>>

SkipOption ==
  /\ InPass("revisit") /\ IsOption
  /\ no_more' = (Word = EndOfOptions)
  /\ NextWord /\ UNCHANGED parsed

SkipPattern ==
  /\ InPass("revisit") /\ ~ IsOption /\ ~ pat_seen
  /\ pat_seen' = TRUE
  /\ NextWord /\ UNCHANGED <<no_more, opt_i, opt_r, pat, npaths, paths>>

TakeRoot ==
  /\ InPass("revisit") /\ ~ IsOption /\ pat_seen
  /\ paths' = Append(paths, Word)
  /\ NextWord /\ UNCHANGED <<no_more, opt_i, opt_r, pat, npaths, pat_seen>>

EndRevisit ==
  /\ Over("revisit")
  /\ parsing' = "parsed"
  /\ UNCHANGED <<parser, argv, arg, no_more, parsed>>

Parse ==
  \/ EndsOptions \/ Option \/ BadOption \/ TakePattern \/ TakePath \/ EndPass
  \/ SkipOption \/ SkipPattern \/ TakeRoot \/ EndRevisit

\* Paths are printed before the lines.
multi == opt_r \/ npaths > 1

-----------------------------------------------------------------------------
(* Properties                                                              *)

\* The words that are no options, by looking at the whole line.
AfterMarker(k) == \E j \in 1 .. k - 1 : argv[j] = EndOfOptions
IsOperand(k) == ~ OptionLike(argv[k]) \/ AfterMarker(k)
Flags == {k \in DOMAIN argv : ~ IsOperand(k) /\ argv[k] # EndOfOptions}
FlagLetters == UNION {Letters(argv[k]) : k \in Flags}
OperandsTo(k) == Cardinality({j \in 1 .. k : IsOperand(j)})
WordsOf(n) == {k \in DOMAIN argv : IsOperand(k) /\ OperandsTo(k) = n}
Operands == [n \in 1 .. OperandsTo(Len(argv)) |-> argv[CHOOSE k \in WordsOf(n) : TRUE]]
WellFormed == FlagLetters \subseteq Known /\ Len(Operands) >= 2

\* Zig takes an empty first pattern for none at all: VerifyImpl shows what comes of it.
Misread == parser.unset = "empty" /\ Operands # <<>> /\ Head(Operands) = <<>>

\* What word after word was made of the line is what the whole line says: usage
\* errors, pattern, options and paths, and the two passes find the same paths.
ParsedRight ==
  ~ Misread =>
    /\ parsing = "usage" => ~ WellFormed
    /\ parsing = "parsed" =>
         /\ WellFormed
         /\ <<pat>> \o paths = Operands /\ npaths = Len(paths)
         /\ opt_i = ("i" \in FlagLetters) /\ opt_r = ("r" \in FlagLetters)

\* What makes it inductive: the same of the words before the next one.
CLTypeOK ==
  /\ parser \in ParserRecords /\ argv \in Seq(Seq(STRING)) /\ \A i \in DOMAIN argv : argv[i] # NoWord
  /\ parsing \in {"classify", "revisit", "parsed", "usage"} /\ arg \in 1 .. Len(argv) + 1
  /\ no_more \in BOOLEAN /\ opt_i \in BOOLEAN /\ opt_r \in BOOLEAN /\ pat_seen \in BOOLEAN
  /\ pat \in Seq(STRING) \cup {NoWord} /\ npaths \in Nat /\ paths \in Seq(Seq(STRING))
  /\ parsing \in {"classify", "revisit"} => (no_more <=> AfterMarker(arg))
FlagsBefore(k) == {j \in Flags : j < k}
Given(letter, k) == \E j \in FlagsBefore(k) : letter \in Letters(argv[j])
KnownBefore(k) == \A j \in FlagsBefore(k) : Letters(argv[j]) \subseteq Known
\* The pattern and the paths among the first n operands.
PathsOf(n) == [k \in 1 .. n - 1 |-> Operands[k + 1]]
Classified(k, n) ==
  /\ KnownBefore(k) /\ (opt_i <=> Given("i", k)) /\ (opt_r <=> Given("r", k))
  /\ IF n = 0 THEN pat = NoWord /\ npaths = 0 ELSE pat = Operands[1] /\ npaths = n - 1
AllClassified == Classified(Len(argv) + 1, Len(Operands)) /\ Len(Operands) >= 2
\* When word k is the next one, and n of those before it are operands.
ReadTo(k, n) ==
  /\ parsing = "classify" =>
       /\ Classified(k, n) /\ pat_seen = FALSE
       /\ paths = IF parser.passes = 1 THEN PathsOf(n) ELSE <<>>
  /\ parsing = "revisit" => AllClassified /\ (pat_seen <=> n > 0) /\ paths = PathsOf(n)
  /\ parsing = "parsed" => AllClassified /\ paths = PathsOf(Len(Operands))
  /\ parsing = "usage" => ~ WellFormed
ReadRight == \E k \in {arg} : \E n \in {OperandsTo(k - 1)} : ReadTo(k, n)
CLInv == CLTypeOK /\ (~ Misread => ReadRight)
=============================================================================
