------------------------------ MODULE FindMatch ------------------------------
(***************************************************************************)
(* prep_pattern, verify, pivot_find and find_match of asm/grep.s: the      *)
(* search for the first occurrence of a literal pattern at or after a      *)
(* floor.  find_match has five ways to search: pivot_find alone for one    *)
(* byte, pivot_find with verify for a rare byte, Boyer-Moore-Horspool for  *)
(* long patterns, and a two-byte filter over LANES positions at a time     *)
(* (SSE2 or AVX2) with a scalar tail.                                      *)
(*                                                                         *)
(* And prep_pattern, find_a, fm_single and fm_two of c/grep.c, the same    *)
(* search with two of the five ways, its own choice between them and its   *)
(* own treatment of candidates that do not fit.  A behaviour runs one of   *)
(* the two programs: the first step, PrepPattern or CPrepPattern, says     *)
(* which.                                                                  *)
(*                                                                         *)
(* A byte is its code; positions count from 0; the pointer `end` is        *)
(* Len(hay).  A step is one round of the loop the search is in.            *)
(***************************************************************************)
EXTENDS Integers, Sequences

CONSTANTS
  Byte,            \* the byte values that occur
  Hays, Pats,      \* haystacks and patterns searched for
  Floors,          \* positions the search starts from
  LANES,           \* positions per vector: 16 (SSE2) or 32 (AVX2)
  BMH_MIN          \* shortest pattern for Boyer-Moore-Horspool

fold(c) == IF c \in 65 .. 90 THEN c + 32 ELSE c
unfold(c) == IF c \in 97 .. 122 THEN c - 32 ELSE c

ASSUME ByteAssumption ==
  /\ Byte \subseteq 0 .. 255
  /\ \A c \in Byte : fold(c) \in Byte /\ unfold(c) \in Byte
ASSUME InputAssumption ==
  /\ Hays \subseteq Seq(Byte)
  /\ Pats \subseteq Seq(Byte) \ {<<>>}
ASSUME WidthAssumption == LANES \in Nat \ {0} /\ BMH_MIN \in Nat

VARIABLES
  hay, pat, opt_i, floor,              \* the call
  pat_cmp, off_a, off_b, pa, pb,       \* prep_pattern; pa is {pa0, pa1}
  scan_mode, skip_tab,
  pc, r14,                             \* program point, scan pointer
  mask,                                \* candidate lanes of the current vector
  result                               \* start of the match, or -1

call == <<hay, pat, opt_i, floor>>
prep == <<pat_cmp, off_a, off_b, pa, pb, scan_mode, skip_tab>>
fvars == <<call, prep, pc, r14, mask, result>>

\* Byte-frequency ranks; codes above 127 have rank 1.
freq_tab == <<
  1, 1, 1, 1, 1, 1, 1, 1, 1, 1, 250, 1, 1, 1, 1, 1,
  1, 1, 1, 1, 1, 1, 1, 1, 1, 1, 1, 1, 1, 1, 1, 1,
  255, 1, 50, 1, 1, 1, 1, 1, 50, 50, 1, 1, 50, 50, 50, 50,
  60, 60, 60, 60, 60, 60, 60, 60, 60, 60, 50, 1, 1, 50, 1, 1,
  1, 66, 33, 45, 50, 80, 38, 36, 58, 63, 20, 23, 48, 41, 61, 65,
  35, 20, 56, 60, 70, 43, 26, 40, 20, 36, 20, 1, 1, 1, 1, 50,
  1, 200, 100, 135, 150, 240, 115, 110, 175, 190, 45, 70, 145, 125, 185, 195,
  105, 38, 170, 180, 210, 130, 80, 120, 40, 108, 35, 1, 1, 1, 1, 1 >>
Rank(c) == IF c < 128 THEN freq_tab[c + 1] ELSE 1

m == Len(pat)
end == Len(hay)
At0(s, i) == s[i + 1]
Folded(c) == IF opt_i THEN fold(c) ELSE c
AltCase(c) == IF opt_i THEN unfold(c) ELSE c
dd == off_b - off_a

FInit ==
  /\ hay \in Hays /\ pat \in Pats /\ opt_i \in BOOLEAN /\ floor \in Floors \cap (0 .. Len(hay))
  /\ pat_cmp = <<>> /\ off_a = 0 /\ off_b = 0 /\ pa = {} /\ pb = {}
  /\ scan_mode = 0 /\ skip_tab = [c \in Byte |-> 0]
  /\ pc = "prep" /\ r14 = 0 /\ mask = {} /\ result = -1

-----------------------------------------------------------------------------
(* prep_pattern                                                            *)

\* First offset of the smallest rank among the offsets in I: the loops start
\* from rank `top` and offset 0 and look for something strictly smaller.
Rarest(p, I, top) ==
  LET Below == {i \in I : Rank(At0(p, i)) < top}
      IsRarest(i) == \A j \in Below :
         \/ Rank(At0(p, i)) < Rank(At0(p, j))
         \/ Rank(At0(p, i)) = Rank(At0(p, j)) /\ i <= j
  IN  IF \E i \in Below : IsRarest(i) THEN CHOOSE i \in Below : IsRarest(i) ELSE 0

\* Mutant of Skip: the table as it is filled at first.
SkipWholePattern(p, c) == Len(p)

\* skip_tab[c]: how far the window may move when its last byte is c.
Skip(p, c) ==
  LET n == Len(p)
      IsSkip(k) == /\ k = n \/ At0(p, n - 1 - k) = c
                   /\ \A i \in 0 .. n - 2 : At0(p, i) = c => k <= n - 1 - i
  IN  CHOOSE k \in 1 .. n : IsSkip(k)

FoldedPat == [i \in 1 .. m |-> Folded(pat[i])]

\* The pattern to compare with and the offsets of its two rarest bytes, in order.
TwoRarest(p, top) ==
  LET a == Rarest(p, 0 .. m - 1, top)
      b == IF m = 1 THEN a ELSE Rarest(p, (0 .. m - 1) \ {a}, top)
  IN  /\ pat_cmp' = p
      /\ off_a' = IF a <= b THEN a ELSE b
      /\ off_b' = IF a <= b THEN b ELSE a
      /\ pa' = {At0(p, off_a'), AltCase(At0(p, off_a'))}
      /\ pb' = {At0(p, off_b'), AltCase(At0(p, off_b'))}

PrepPattern ==
  /\ pc = "prep"
  /\ TwoRarest(FoldedPat, 255)
  /\ scan_mode' = IF m >= BMH_MIN THEN 2
                  ELSE IF Rank(At0(FoldedPat, Rarest(FoldedPat, 0 .. m - 1, 255))) <= 64
                       THEN 1 ELSE 0
  /\ skip_tab' = [c \in Byte |-> IF m >= BMH_MIN THEN Skip(FoldedPat, c) ELSE 0]
  /\ pc' = "find"
  /\ UNCHANGED <<call, r14, mask, result>>

\* c/grep.c: g_single goes by the rank of the first of the two bytes, which need
\* not be the rarer one.
CPrepPattern ==
  /\ pc = "prep"
  /\ TwoRarest(FoldedPat, 256)
  /\ scan_mode' = IF m < 2 \/ Rank(At0(FoldedPat, off_a')) <= 64 THEN 1 ELSE 0
  /\ pc' = "fm"
  /\ UNCHANGED <<call, skip_tab, r14, mask, result>>

-----------------------------------------------------------------------------
(* find_match                                                              *)

\* verify: the pattern stands at s.
verify(s) == \A i \in 0 .. m - 1 : Folded(At0(hay, s + i)) = At0(pat_cmp, i)

\* The positions pivot_find looks at, from `from` on.
Pivots(from) == {p \in from .. end - 1 : At0(hay, p) \in pa}
IsFirst(p, S) == p \in S /\ \A q \in S : p <= q

Return(s) == pc' = "done" /\ result' = s

\* What every search does with an A byte at p: before the floor, try the next;
\* beyond the last place where the pattern fits, give up; else verify.
Candidate(p, next) ==
  LET s == p - off_a IN
  \/ s < floor /\ next
  \/ s >= floor /\ s + m > end /\ Return(-1) /\ UNCHANGED <<r14, mask>>
  \/ s >= floor /\ s + m <= end /\ verify(s) /\ Return(s) /\ UNCHANGED <<r14, mask>>
  \/ s >= floor /\ s + m <= end /\ ~ verify(s) /\ next

\* Mutant of ChooseScan: BMH looks at the first byte of the window.
ChooseScanAtFloor ==
  /\ pc = "find"
  /\ pc' = IF m = 1 THEN "single"
           ELSE CASE scan_mode = 2 -> "bmh" [] scan_mode = 1 -> "memchr"
                  [] OTHER -> "vector"
  /\ r14' = floor
  /\ UNCHANGED <<call, prep, mask, result>>

ChooseScan ==
  /\ pc = "find"
  /\ pc' = IF m = 1 THEN "single"
           ELSE CASE scan_mode = 2 -> "bmh" [] scan_mode = 1 -> "memchr"
                  [] OTHER -> "vector"
  /\ r14' = IF m # 1 /\ scan_mode = 2 THEN floor + m - 1 ELSE floor
  /\ UNCHANGED <<call, prep, mask, result>>

\* One-byte patterns.
Single ==
  /\ pc = "single"
  /\ \/ Pivots(floor) = {} /\ Return(-1)
     \/ \E p \in Pivots(floor) : IsFirst(p, Pivots(floor)) /\ Return(p)
  /\ UNCHANGED <<call, prep, r14, mask>>

\* scan_mode 1: pivot_find, then verify.
PivotLoop(here) ==
  /\ pc = here
  /\ \/ Pivots(r14) = {} /\ Return(-1) /\ UNCHANGED <<r14, mask>>
     \/ \E p \in Pivots(r14) :
          /\ IsFirst(p, Pivots(r14))
          /\ Candidate(p, r14' = p + 1 /\ UNCHANGED <<pc, mask, result>>)
  /\ UNCHANGED <<call, prep>>

Memchr == PivotLoop("memchr")

\* scan_mode 2: r14 is the last byte of the window.
Horspool ==
  /\ pc = "bmh"
  /\ \/ r14 >= end /\ Return(-1) /\ UNCHANGED r14
     \/ /\ r14 < end
        /\ LET c == Folded(At0(hay, r14))
               hit == c = At0(pat_cmp, m - 1) /\ verify(r14 - m + 1)
           IN  \/ hit /\ Return(r14 - m + 1) /\ UNCHANGED r14
               \/ ~ hit /\ r14' = r14 + skip_tab[c] /\ UNCHANGED <<pc, result>>
  /\ UNCHANGED <<call, prep, mask>>

\* scan_mode 0: LANES positions of byte A against byte B dd further on.
Lanes == {k \in 0 .. LANES - 1 :
            At0(hay, r14 + k) \in pa /\ At0(hay, r14 + k + dd) \in pb}

VectorLoop(here, lane, tail) ==
  /\ pc = here
  /\ \/ r14 + LANES + dd > end /\ pc' = tail /\ UNCHANGED <<r14, mask>>
     \/ /\ r14 + LANES + dd <= end
        /\ \/ Lanes = {} /\ r14' = r14 + LANES /\ UNCHANGED <<pc, mask>>
           \/ Lanes # {} /\ mask' = Lanes /\ pc' = lane /\ UNCHANGED r14
  /\ UNCHANGED <<call, prep, result>>

Vector == VectorLoop("vector", "lane", "tail")

\* Mutant of Lane: the lane tried stays in the mask.
LaneKept ==
  /\ pc = "lane"
  /\ \E k \in mask :
       /\ IsFirst(k, mask)
       /\ Candidate(r14 + k, UNCHANGED <<pc, r14, mask, result>>)
  /\ UNCHANGED <<call, prep>>

\* Lowest lane first; with the last one the vector is done.
LaneDone(k, vector) ==
  /\ mask' = mask \ {k}
  /\ IF mask' = {} THEN pc' = vector /\ r14' = r14 + LANES
                   ELSE UNCHANGED <<pc, r14>>
  /\ UNCHANGED result

Lane ==
  /\ pc = "lane"
  /\ \E k \in mask : IsFirst(k, mask) /\ Candidate(r14 + k, LaneDone(k, "vector"))
  /\ UNCHANGED <<call, prep>>

\* The scalar tail looks at byte A alone.
ScalarTail ==
  /\ pc = "tail"
  /\ LET next == r14' = r14 + 1 /\ UNCHANGED <<pc, mask, result>> IN
     \/ r14 >= end /\ Return(-1) /\ UNCHANGED <<r14, mask>>
     \/ r14 < end /\ At0(hay, r14) \notin pa /\ next
     \/ r14 < end /\ At0(hay, r14) \in pa /\ Candidate(r14, next)
  /\ UNCHANGED <<call, prep>>

-----------------------------------------------------------------------------
(* fm_single and fm_two of c/grep.c                                        *)

ChooseFm ==
  /\ pc = "fm"
  /\ pc' = IF scan_mode = 1 THEN "fm_single" ELSE "fm_two"
  /\ r14' = floor
  /\ UNCHANGED <<call, prep, mask, result>>

FmSingle == PivotLoop("fm_single")
FmTwo == VectorLoop("fm_two", "fm_lane", "fm_tail")

\* In fm_two a candidate that does not fit never ends the search.
FmCandidate(p, next) ==
  LET s == p - off_a IN
  IF s >= floor /\ s + m <= end /\ verify(s)
  THEN Return(s) /\ UNCHANGED <<r14, mask>> ELSE next

\* Mutant of FmLane: the first candidate of a vector settles it.
FmLaneOnlyFirst ==
  /\ pc = "fm_lane"
  /\ \E k \in mask :
       /\ IsFirst(k, mask)
       /\ FmCandidate(r14 + k, pc' = "fm_two" /\ r14' = r14 + LANES /\ mask' = {}
                               /\ UNCHANGED result)
  /\ UNCHANGED <<call, prep>>

FmLane ==
  /\ pc = "fm_lane"
  /\ \E k \in mask : IsFirst(k, mask) /\ FmCandidate(r14 + k, LaneDone(k, "fm_two"))
  /\ UNCHANGED <<call, prep>>

\* The look at byte B before verify is part of what verify compares.
FmTail ==
  /\ pc = "fm_tail"
  /\ LET next == r14' = r14 + 1 /\ UNCHANGED <<pc, mask, result>> IN
     \/ r14 >= end /\ Return(-1) /\ UNCHANGED <<r14, mask>>
     \/ r14 < end /\ At0(hay, r14) \notin pa /\ next
     \/ r14 < end /\ At0(hay, r14) \in pa /\ FmCandidate(r14, next)
  /\ UNCHANGED <<call, prep>>

FNext ==
  \/ PrepPattern \/ ChooseScan
  \/ Single \/ Memchr \/ Horspool \/ Vector \/ Lane \/ ScalarTail
  \/ CPrepPattern \/ ChooseFm \/ FmSingle \/ FmTwo \/ FmLane \/ FmTail

FSpec == FInit /\ [][FNext]_fvars
\* A sequential program runs on.
FFairSpec == FSpec /\ WF_fvars(FNext)

-----------------------------------------------------------------------------
(* Properties                                                              *)

\* The reference: pat occurs at s, up to case under -i.
MatchAt(s) == \A i \in 0 .. m - 1 : Folded(At0(hay, s + i)) = Folded(At0(pat, i))
Starts == {s \in floor .. end - m : MatchAt(s)}

\* The places of the scans that look for byte A, and those inside a vector.
InLane == {"lane", "fm_lane"}
InScan == {"vector", "tail", "memchr", "fm_two", "fm_tail", "fm_single"} \cup InLane

\* Whatever the program and the search chosen, find_match returns the first occurrence at or
\* after the floor, and -1 only if there is none.
FirstMatch ==
  pc = "done" => IF result = -1 THEN Starts = {} ELSE IsFirst(result, Starts)

\* No load falls outside the haystack: no scan is ever before the floor, BMH's
\* window included, and a vector is entered only with its B bytes before the end.
InBounds ==
  /\ pc \in InScan => r14 >= floor
  /\ pc \in InLane => r14 + LANES + dd <= end
  /\ pc = "bmh" => r14 - m + 1 >= floor

\* The induction: what prep_pattern leaves behind ...
PrepOK ==
  /\ pat_cmp = [i \in 1 .. m |-> Folded(pat[i])]
  /\ off_a \in 0 .. m - 1 /\ off_b \in 0 .. m - 1 /\ off_a <= off_b
  /\ pa = {At0(pat_cmp, off_a), AltCase(At0(pat_cmp, off_a))}
  /\ pb = {At0(pat_cmp, off_b), AltCase(At0(pat_cmp, off_b))}
  /\ scan_mode = 2 => \A c \in Byte :
       /\ skip_tab[c] \in 1 .. m
       /\ \A i \in 0 .. m - 2 : At0(pat_cmp, i) = c => skip_tab[c] <= m - 1 - i

\* ... and that nothing the scan has passed starts a match.
NonePassed ==
  /\ pc \in InScan => r14 \in Nat /\ \A s \in Starts : s + off_a >= r14
  /\ pc \in InLane =>
       /\ mask \subseteq 0 .. LANES - 1
       /\ \A s \in Starts : s + off_a < r14 + LANES => s + off_a - r14 \in mask
  /\ pc = "bmh" =>
       r14 \in Nat /\ scan_mode = 2 /\ \A s \in Starts : s + m - 1 >= r14

\* The inductive invariant.
FIInv ==
  /\ hay \in Hays /\ pat \in Pats /\ opt_i \in BOOLEAN /\ floor \in 0 .. end
  /\ pc \in {"prep", "find", "single", "bmh", "fm", "done"} \cup InScan
  /\ pc # "prep" => PrepOK
  /\ pc = "single" => m = 1
  /\ NonePassed /\ InBounds /\ FirstMatch

\* The search ends.
FTermination == <>(pc = "done")
=============================================================================
