--------------------------- MODULE FindMatchProofs ---------------------------
(***************************************************************************)
(* The assembly and the C program return the first occurrence of the       *)
(* pattern, whichever of their searches runs, for every haystack, pattern, *)
(* floor, vector width and BMH threshold.                                  *)
(***************************************************************************)
EXTENDS FindMatch, WellFoundedInduction, TLAPS

-----------------------------------------------------------------------------
(* Bytes and the two tables                                                *)

\* The bytes of the call and of the folded pattern are bytes.
LEMMA CallBytes ==
  ASSUME FIInv
  PROVE  /\ m \in Nat /\ m >= 1 /\ end \in Nat /\ floor \in Nat
         /\ \A k \in 0 .. end - 1 : At0(hay, k) \in Byte /\ Folded(At0(hay, k)) \in Byte
         /\ \A k \in 0 .. m - 1 : At0(pat, k) \in Byte /\ Folded(At0(pat, k)) \in Byte
<1>1. hay \in Seq(Byte) /\ pat \in Seq(Byte) /\ pat # <<>>
  BY InputAssumption DEF FIInv
<1>2. m \in Nat /\ m >= 1 /\ end \in Nat
  BY <1>1 DEF m, end
<1>3. floor \in Nat
  BY <1>2 DEF FIInv
<1>4. \A k \in 0 .. end - 1 : At0(hay, k) \in Byte
  BY <1>1, <1>2 DEF At0, end
<1>5. \A k \in 0 .. m - 1 : At0(pat, k) \in Byte
  BY <1>1, <1>2 DEF At0, m
<1>6. \A c \in Byte : Folded(c) \in Byte
  BY ByteAssumption DEF Folded
<1> QED
  BY <1>2, <1>3, <1>4, <1>5, <1>6

\* A haystack byte that folds to a folded pattern byte is that byte or its other
\* case, and the other way round.
LEMMA CaseOfByte ==
  ASSUME opt_i \in BOOLEAN, NEW h \in 0 .. 255, NEW y \in 0 .. 255
  PROVE  Folded(h) = Folded(y) <=> h \in {Folded(y), AltCase(Folded(y))}
<1>1. CASE opt_i
  BY <1>1 DEF Folded, AltCase, fold, unfold
<1>2. CASE ~ opt_i
  BY <1>2 DEF Folded, AltCase
<1> QED
  BY <1>1, <1>2

\* Rarest picks an offset of its set, or 0.
LEMMA RarestType ==
  ASSUME NEW p, NEW I, NEW top
  PROVE  Rarest(p, I, top) \in I \cup {0}
BY DEF Rarest

\* The skip table is defined: of the admissible shifts there is a smallest.
LEMMA SkipType ==
  ASSUME NEW p, NEW c, Len(p) \in Nat \ {0}
  PROVE  /\ Skip(p, c) \in 1 .. Len(p)
         /\ \A i \in 0 .. Len(p) - 2 : At0(p, i) = c => Skip(p, c) <= Len(p) - 1 - i
<1> DEFINE n == Len(p)
           T == {k \in 1 .. n : k = n \/ At0(p, n - 1 - k) = c}
           IsSkip(k) == /\ k = n \/ At0(p, n - 1 - k) = c
                        /\ \A i \in 0 .. n - 2 : At0(p, i) = c => k <= n - 1 - i
<1>1. n \in T /\ T \subseteq Nat
  OBVIOUS
<1>2. PICK k \in T : \A j \in T : ~ (<<j, k>> \in OpToRel(<, Nat))
  <2>1. IsWellFoundedOn(OpToRel(<, Nat), Nat)
    BY NatLessThanWellFounded
  <2> QED
    BY <1>1, <2>1, WFMin
<1>3. \A j \in T : k <= j
  <2> SUFFICES ASSUME NEW j \in T, j < k PROVE FALSE
    BY <1>1
  <2>1. j \in Nat /\ k \in Nat
    BY <1>1
  <2>2. <<j, k>> \in OpToRel(<, Nat)
    <3>1. <<j, k>> \in Nat \X Nat /\ <<j, k>>[1] < <<j, k>>[2]
      BY <2>1
    <3> QED
      BY <3>1 DEF OpToRel
  <2> QED
    BY <2>2, <1>2
<1>4. \A i \in 0 .. n - 2 : At0(p, i) = c => k <= n - 1 - i
  <2> SUFFICES ASSUME NEW i \in 0 .. n - 2, At0(p, i) = c PROVE k <= n - 1 - i
    OBVIOUS
  <2>1. n - 1 - i \in 1 .. n /\ n - 1 - (n - 1 - i) = i
    OBVIOUS
  <2>2. n - 1 - i \in T
    BY <2>1
  <2> QED
    BY <2>2, <1>3
<1>5. k \in 1 .. n /\ IsSkip(k)
  BY <1>4
<1>6. Skip(p, c) \in 1 .. n /\ IsSkip(Skip(p, c))
  BY <1>5 DEF Skip
<1> QED
  BY <1>6

-----------------------------------------------------------------------------
(* Starts of matches                                                       *)

\* The two filters never reject a start of a match, and verify accepts exactly
\* the starts among the positions where the pattern fits.
LEMMA StartFacts ==
  ASSUME FIInv, pc # "prep"
  PROVE  /\ \A s \in Starts : /\ s \in Int /\ floor <= s /\ s + m <= end /\ verify(s)
                              /\ At0(hay, s + off_a) \in pa
                              /\ At0(hay, s + off_b) \in pb
         /\ \A s \in Int : floor <= s /\ s + m <= end /\ verify(s) => s \in Starts
<1>1. /\ m \in Nat /\ m >= 1 /\ end \in Nat /\ floor \in Nat
      /\ \A k \in 0 .. end - 1 : At0(hay, k) \in Byte
      /\ \A k \in 0 .. m - 1 : At0(pat, k) \in Byte
  BY CallBytes
<1>2. PrepOK /\ opt_i \in BOOLEAN
  BY DEF FIInv
<1>3. \A i \in 0 .. m - 1 : At0(pat_cmp, i) = Folded(At0(pat, i))
  BY <1>1, <1>2 DEF PrepOK, At0
<1>4. \A s : verify(s) <=> MatchAt(s)
  BY <1>3 DEF verify, MatchAt
<1>5. \A s \in Starts : s \in Int /\ floor <= s /\ s + m <= end
  BY <1>1 DEF Starts
<1>6. ASSUME NEW s \in Starts, NEW o \in 0 .. m - 1
      PROVE  At0(hay, s + o) \in {At0(pat_cmp, o), AltCase(At0(pat_cmp, o))}
  <2>1. Folded(At0(hay, s + o)) = Folded(At0(pat, o))
    BY <1>6 DEF Starts, MatchAt
  <2>2. At0(hay, s + o) \in 0 .. 255 /\ At0(pat, o) \in 0 .. 255
    <3>1. s \in Int /\ floor <= s /\ s + m <= end
      BY <1>5
    <3>2. s + o \in 0 .. end - 1
      BY <1>1, <3>1
    <3>3. At0(hay, s + o) \in Byte /\ At0(pat, o) \in Byte
      BY <1>1, <3>2
    <3> QED
      BY <3>3, ByteAssumption
  <2> QED
    BY <2>1, <2>2, <1>2, <1>3, CaseOfByte
<1>7. off_a \in 0 .. m - 1 /\ off_b \in 0 .. m - 1
  BY <1>2 DEF PrepOK
<1>8. \A s \in Starts : At0(hay, s + off_a) \in pa /\ At0(hay, s + off_b) \in pb
  BY <1>6, <1>7, <1>2 DEF PrepOK
<1>9. \A s \in Starts : verify(s)
  BY <1>4 DEF Starts
<1>10. \A s \in Int : floor <= s /\ s + m <= end /\ verify(s) => s \in Starts
  BY <1>1, <1>4 DEF Starts
<1> QED
  BY <1>5, <1>8, <1>9, <1>10

\* What a search may conclude from a byte A at p when no start has been passed.
LEMMA CandidateFacts ==
  ASSUME FIInv, pc # "prep", NEW p \in Nat, \A s \in Starts : s + off_a >= p
  PROVE  /\ p - off_a < floor => \A s \in Starts : s + off_a >= p + 1
         /\ p - off_a >= floor /\ p - off_a + m > end => Starts = {}
         /\ p - off_a >= floor /\ p - off_a + m <= end =>
              IF verify(p - off_a) THEN IsFirst(p - off_a, Starts)
                                   ELSE \A s \in Starts : s + off_a >= p + 1
<1>1. m \in Nat /\ end \in Nat /\ floor \in Nat /\ off_a \in Nat
  BY CallBytes DEF FIInv, PrepOK
<1>2. \A s \in Starts : s \in Int /\ floor <= s /\ s + m <= end /\ verify(s)
  BY StartFacts
<1>3. \A s \in Starts : s >= p - off_a
  BY <1>1, <1>2
<1>4. p - off_a < floor => \A s \in Starts : s + off_a >= p + 1
  BY <1>1, <1>2
<1>5. p - off_a >= floor /\ p - off_a + m > end => Starts = {}
  BY <1>1, <1>2, <1>3
<1>6. ASSUME p - off_a >= floor, p - off_a + m <= end, verify(p - off_a)
      PROVE  IsFirst(p - off_a, Starts)
  <2>1. p - off_a \in Starts
    BY <1>1, <1>6, StartFacts
  <2> QED
    BY <2>1, <1>3 DEF IsFirst
<1>7. ASSUME ~ verify(p - off_a)
      PROVE  \A s \in Starts : s + off_a >= p + 1
  <2> SUFFICES ASSUME NEW s \in Starts PROVE s + off_a >= p + 1
    OBVIOUS
  <2>1. s # p - off_a /\ s >= p - off_a /\ s \in Int
    BY <1>2, <1>3, <1>7
  <2> QED
    BY <2>1, <1>1
<1> QED
  BY <1>4, <1>5, <1>6, <1>7

\* The search changes neither the call nor what prep_pattern prepared.
LEMMA PrepKept ==
  ASSUME FIInv, pc # "prep", UNCHANGED <<call, prep>>
  PROVE  /\ hay' \in Hays /\ pat' \in Pats /\ opt_i' \in BOOLEAN /\ floor' \in 0 .. end'
         /\ PrepOK' /\ Starts' = Starts /\ m' = m /\ end' = end /\ dd' = dd
         /\ floor' = floor /\ off_a' = off_a /\ scan_mode' = scan_mode
<1>1. UNCHANGED <<hay, pat, opt_i, floor, pat_cmp, off_a, off_b, pa, pb, scan_mode, skip_tab>>
  BY DEF call, prep
<1>2. PrepOK' 
  BY <1>1 DEF FIInv, PrepOK, m, Folded, AltCase
<1>3. Starts' = Starts
  BY <1>1 DEF Starts, MatchAt, Folded, m, end
<1> QED
  BY <1>1, <1>2, <1>3 DEF FIInv, m, end, dd

-----------------------------------------------------------------------------
(* The steps                                                               *)

\* A search that returns: the invariant is down to FirstMatch.
LEMMA Returns ==
  ASSUME FIInv, pc # "prep", UNCHANGED <<call, prep>>, NEW s, Return(s),
         \/ s = -1 /\ Starts = {}
         \/ IsFirst(s, Starts)
  PROVE  FIInv'
<1>1. pc' = "done" /\ result' = s
  BY DEF Return
<1>2. \A t \in Starts : t # -1
  <2>1. floor \in Nat /\ \A t \in Starts : t \in Int /\ floor <= t
    BY StartFacts, CallBytes
  <2> QED
    BY <2>1
<1>3. FirstMatch'
  BY <1>1, <1>2, PrepKept DEF FirstMatch, IsFirst
<1> QED
  BY <1>1, <1>3, PrepKept DEF FIInv, NonePassed, InBounds, InScan, InLane

\* What TwoRarest leaves behind is all of PrepOK but the skip table.
LEMMA TwoRarestGives ==
  ASSUME FIInv, NEW top, TwoRarest(FoldedPat, top), UNCHANGED call,
         scan_mode' = 2 => \A c \in Byte : skip_tab'[c] = Skip(FoldedPat, c)
  PROVE  UNCHANGED <<hay, pat, opt_i, floor>> /\ end' = end /\ PrepOK'
<1> DEFINE p == FoldedPat
           a == Rarest(p, 0 .. m - 1, top)
           b == IF m = 1 THEN a ELSE Rarest(p, (0 .. m - 1) \ {a}, top)
<1>1. m \in Nat /\ m >= 1 /\ Len(p) = m
  BY CallBytes DEF FoldedPat
<1>2. a \in 0 .. m - 1 /\ b \in 0 .. m - 1
  BY <1>1, RarestType
<1>3. /\ pat_cmp' = p /\ off_a' = (IF a <= b THEN a ELSE b) /\ off_b' = (IF a <= b THEN b ELSE a)
      /\ pa' = {At0(p, off_a'), AltCase(At0(p, off_a'))}
      /\ pb' = {At0(p, off_b'), AltCase(At0(p, off_b'))}
  BY DEF TwoRarest
<1>4. UNCHANGED <<hay, pat, opt_i, floor>> /\ m' = m /\ end' = end
  BY DEF call, m, end
<1>5. scan_mode' = 2 => \A c \in Byte :
        /\ skip_tab'[c] \in 1 .. m
        /\ \A i \in 0 .. m - 2 : At0(p, i) = c => skip_tab'[c] <= m - 1 - i
  <2> SUFFICES ASSUME scan_mode' = 2, NEW c \in Byte
               PROVE  /\ skip_tab'[c] \in 1 .. m
                      /\ \A i \in 0 .. m - 2 : At0(p, i) = c => skip_tab'[c] <= m - 1 - i
    OBVIOUS
  <2>1. skip_tab'[c] = Skip(p, c)
    OBVIOUS
  <2> HIDE DEF p
  <2> QED
    BY <2>1, <1>1, SkipType
<1>6. p = [i \in 1 .. m' |-> (Folded(pat[i]))']
  BY <1>4 DEF Folded, FoldedPat
<1>7. pa' = {At0(p, off_a'), (AltCase(At0(pat_cmp, off_a)))'}
      /\ pb' = {At0(p, off_b'), (AltCase(At0(pat_cmp, off_b)))'}
  BY <1>3, <1>4 DEF AltCase
<1>8. off_a' \in 0 .. m - 1 /\ off_b' \in 0 .. m - 1 /\ off_a' <= off_b'
  BY <1>2, <1>3
<1> HIDE DEF p, a, b
<1>9. PrepOK'
  BY <1>3, <1>4, <1>5, <1>6, <1>7, <1>8 DEF PrepOK
<1> QED
  BY <1>4, <1>9

\* What prep_pattern of asm/grep.s chooses meets PrepOK, and the scan has passed nothing.
LEMMA PrepPatternStep == FIInv /\ PrepPattern => FIInv'
<1> SUFFICES ASSUME FIInv, PrepPattern PROVE FIInv'
  OBVIOUS
<1>1. /\ TwoRarest(FoldedPat, 255) /\ pc' = "find" /\ UNCHANGED call
      /\ scan_mode' = 2 => \A c \in Byte : skip_tab'[c] = Skip(FoldedPat, c)
  BY DEF PrepPattern
<1>2. UNCHANGED <<hay, pat, opt_i, floor>> /\ end' = end /\ PrepOK'
  BY <1>1, TwoRarestGives
<1> QED
  BY <1>1, <1>2 DEF FIInv, NonePassed, InBounds, InScan, InLane, FirstMatch

\* So does what prep_pattern of c/grep.c chooses.
LEMMA CPrepPatternStep == FIInv /\ CPrepPattern => FIInv'
<1> SUFFICES ASSUME FIInv, CPrepPattern PROVE FIInv'
  OBVIOUS
<1>1. TwoRarest(FoldedPat, 256) /\ pc' = "fm" /\ UNCHANGED call /\ scan_mode' # 2
  BY DEF CPrepPattern
<1>2. UNCHANGED <<hay, pat, opt_i, floor>> /\ end' = end /\ PrepOK'
  BY <1>1, TwoRarestGives
<1> QED
  BY <1>1, <1>2 DEF FIInv, NonePassed, InBounds, InScan, InLane, FirstMatch

\* find_match (asm) enters each loop with the whole haystack ahead.
LEMMA ChooseScanStep == FIInv /\ ChooseScan => FIInv'
<1> SUFFICES ASSUME FIInv, ChooseScan PROVE FIInv'
  OBVIOUS
<1>1. m \in Nat /\ m >= 1 /\ floor \in Nat /\ off_a \in Nat
  BY CallBytes DEF ChooseScan, FIInv, PrepOK
<1>2. \A s \in Starts : s \in Int /\ floor <= s
  BY StartFacts DEF ChooseScan
<1>3. pc # "prep" /\ UNCHANGED <<call, prep>>
  BY DEF ChooseScan
<1>4. \/ pc' = "single" /\ m = 1
      \/ pc' = "bmh" /\ scan_mode = 2 /\ r14' = floor + m - 1
      \/ pc' \in {"memchr", "vector"} /\ r14' = floor
  BY DEF ChooseScan
<1>5. NonePassed'
  BY <1>1, <1>2, <1>3, <1>4, PrepKept DEF NonePassed, InScan, InLane
<1>6. InBounds'
  BY <1>1, <1>3, <1>4, PrepKept DEF InBounds, InScan, InLane
<1> QED
  BY <1>3, <1>4, <1>5, <1>6, PrepKept DEF FIInv, FirstMatch, InScan, InLane

\* find_match (C) enters each loop with the whole haystack ahead.
LEMMA ChooseFmStep == FIInv /\ ChooseFm => FIInv'
<1> SUFFICES ASSUME FIInv, ChooseFm PROVE FIInv'
  OBVIOUS
<1>1. pc = "fm" /\ pc' \in {"fm_single", "fm_two"} /\ r14' = floor /\ UNCHANGED <<call, prep>>
  BY DEF ChooseFm
<1>2. floor \in Nat /\ off_a \in Nat
  BY <1>1, CallBytes DEF FIInv, PrepOK
<1>3. \A s \in Starts : s \in Int /\ floor <= s
  BY <1>1, StartFacts
<1>4. NonePassed' /\ InBounds'
  BY <1>1, <1>2, <1>3, PrepKept DEF NonePassed, InBounds, InScan, InLane
<1> QED
  BY <1>1, <1>4, PrepKept DEF FIInv, FirstMatch, InScan

\* A pattern of one byte: the first such byte is the first match.
LEMMA SingleStep == FIInv /\ Single => FIInv'
<1> SUFFICES ASSUME FIInv, Single PROVE FIInv'
  OBVIOUS
<1>1. pc = "single" /\ m = 1 /\ UNCHANGED <<call, prep>>
  BY DEF Single, FIInv
<1>2. /\ end \in Nat /\ floor \in Nat
      /\ \A k \in 0 .. end - 1 : At0(hay, k) \in Byte
      /\ \A k \in 0 .. m - 1 : At0(pat, k) \in Byte
  BY CallBytes
<1>3. PrepOK /\ opt_i \in BOOLEAN
  BY <1>1 DEF FIInv
<1>4. off_a = 0 /\ At0(pat_cmp, 0) = Folded(At0(pat, 0))
  BY <1>1, <1>3 DEF PrepOK, At0
<1>5. pa = {Folded(At0(pat, 0)), AltCase(Folded(At0(pat, 0)))}
  BY <1>3, <1>4 DEF PrepOK
<1>6. \A k \in floor .. end - 1 :
         At0(hay, k) \in pa <=> Folded(At0(hay, k)) = Folded(At0(pat, 0))
  <2> TAKE k \in floor .. end - 1
  <2>1. At0(hay, k) \in 0 .. 255 /\ At0(pat, 0) \in 0 .. 255
    <3>1. k \in 0 .. end - 1 /\ 0 \in 0 .. m - 1
      BY <1>1, <1>2
    <3>2. At0(hay, k) \in Byte /\ At0(pat, 0) \in Byte
      BY <1>2, <3>1
    <3> QED
      BY <3>2, ByteAssumption
  <2> QED
    BY <2>1, <1>3, <1>5, CaseOfByte
<1>7. Starts = Pivots(floor)
  <2>1. Starts = {s \in floor .. end - 1 : Folded(At0(hay, s)) = Folded(At0(pat, 0))}
    <3>1. \A s \in floor .. end - 1 :
            MatchAt(s) <=> Folded(At0(hay, s)) = Folded(At0(pat, 0))
      BY <1>1, <1>2 DEF MatchAt
    <3> QED
      BY <3>1, <1>1 DEF Starts
  <2> QED
    BY <2>1, <1>6 DEF Pivots
<1>8. CASE Pivots(floor) = {} /\ Return(-1)
  BY <1>1, <1>7, <1>8, Returns
<1>9. CASE \E p \in Pivots(floor) : IsFirst(p, Pivots(floor)) /\ Return(p)
  BY <1>1, <1>7, <1>9, Returns
<1> QED
  BY <1>8, <1>9 DEF Single

\* pivot_find and verify, in the assembly and in fm_single.
LEMMA PivotLoopStep ==
  ASSUME FIInv, NEW here \in {"memchr", "fm_single"}, PivotLoop(here)
  PROVE  FIInv'
<1>1. pc \in {"memchr", "fm_single"} /\ UNCHANGED <<call, prep>>
  BY DEF PivotLoop
<1>2. /\ end \in Nat /\ floor \in Nat /\ r14 \in Nat /\ off_a \in Nat /\ m \in Nat
      /\ off_a <= m - 1 /\ r14 >= floor
      /\ \A s \in Starts : s + off_a >= r14
  BY <1>1, CallBytes DEF FIInv, PrepOK, NonePassed, InBounds, InScan, InLane
<1>3. \A s \in Starts : s \in Int /\ s + off_a \in Pivots(r14)
  BY <1>1, <1>2, StartFacts DEF Pivots
<1>4. CASE Pivots(r14) = {} /\ Return(-1)
  BY <1>1, <1>3, <1>4, Returns
<1>5. ASSUME NEW p \in Pivots(r14), IsFirst(p, Pivots(r14)),
             Candidate(p, r14' = p + 1 /\ UNCHANGED <<pc, mask, result>>)
      PROVE  FIInv'
  <2>1. p \in Nat /\ p >= r14 /\ \A s \in Starts : s + off_a >= p
    BY <1>2, <1>3, <1>5 DEF Pivots, IsFirst
  <2>2. CASE /\ \A s \in Starts : s + off_a >= p + 1
             /\ r14' = p + 1 /\ UNCHANGED <<pc, mask, result>>
    <3>1. NonePassed' /\ InBounds'
      BY <1>1, <1>2, <2>1, <2>2, PrepKept DEF NonePassed, InBounds, InScan, InLane
    <3> QED
      BY <1>1, <2>2, <3>1, PrepKept DEF FIInv, FirstMatch
  <2> QED
    BY <1>1, <1>5, <2>1, <2>2, CandidateFacts, Returns DEF Candidate
<1> QED
  BY <1>4, <1>5 DEF PivotLoop

\* A Horspool shift jumps over no start of an occurrence.
LEMMA HorspoolStep == FIInv /\ Horspool => FIInv'
<1> SUFFICES ASSUME FIInv, Horspool PROVE FIInv'
  OBVIOUS
<1> DEFINE c == Folded(At0(hay, r14))
           hit == c = At0(pat_cmp, m - 1) /\ verify(r14 - m + 1)
<1>1. pc = "bmh" /\ UNCHANGED <<call, prep, mask>>
  BY DEF Horspool
<1>2. /\ end \in Nat /\ floor \in Nat /\ r14 \in Nat /\ m \in Nat /\ m >= 1
      /\ scan_mode = 2 /\ r14 - m + 1 >= floor /\ PrepOK
      /\ \A s \in Starts : s + m - 1 >= r14
  BY <1>1, CallBytes DEF FIInv, NonePassed, InBounds
<1>3. \A s \in Starts : s \in Int /\ floor <= s /\ s + m <= end /\ verify(s)
  BY <1>1, StartFacts
<1>4. CASE r14 >= end /\ Return(-1)
  <2>1. Starts = {}
    BY <1>2, <1>3, <1>4
  <2> QED
    BY <1>1, <1>4, <2>1, Returns
<1>5. CASE r14 < end /\ hit /\ Return(r14 - m + 1)
  <2>1. r14 - m + 1 \in Starts
    BY <1>1, <1>2, <1>5, StartFacts
  <2>2. IsFirst(r14 - m + 1, Starts)
    BY <2>1, <1>2, <1>3 DEF IsFirst
  <2> QED
    BY <1>1, <1>5, <2>2, Returns
<1>6. CASE r14 < end /\ ~ hit /\ r14' = r14 + skip_tab[c] /\ UNCHANGED <<pc, result>>
  <2>1. c \in Byte
    BY <1>2, <1>6, CallBytes
  <2>2. /\ skip_tab[c] \in 1 .. m
        /\ \A i \in 0 .. m - 2 : At0(pat_cmp, i) = c => skip_tab[c] <= m - 1 - i
    BY <1>2, <2>1 DEF PrepOK
  <2>3. ASSUME NEW s \in Starts, s + m - 1 < r14 + skip_tab[c]
        PROVE  FALSE
    <3> DEFINE i == r14 - s
    <3>1. s \in Int /\ verify(s) /\ s + m - 1 >= r14
      BY <1>2, <1>3
    <3>2. i \in 0 .. m - 1 /\ s + i = r14
      BY <1>2, <2>2, <2>3, <3>1
    <3>3. At0(pat_cmp, i) = c
      BY <3>1, <3>2 DEF verify
    <3>4. CASE i = m - 1
      <4>1. s = r14 - m + 1
        BY <1>2, <3>1, <3>4
      <4> QED
        BY <1>6, <3>1, <3>3, <3>4, <4>1
    <3>5. CASE i \in 0 .. m - 2
      <4>1. skip_tab[c] <= m - 1 - i
        BY <2>2, <3>3, <3>5
      <4> QED
        BY <1>2, <2>2, <2>3, <3>1, <4>1
    <3> QED
      BY <1>2, <3>2, <3>4, <3>5
  <2>4. \A s \in Starts : s + m - 1 >= r14 + skip_tab[c]
    BY <1>2, <1>3, <2>2, <2>3
  <2>5. r14' \in Nat /\ r14' >= r14
    BY <1>2, <1>6, <2>2
  <2> HIDE DEF c
  <2>6. NonePassed' /\ InBounds'
    BY <1>1, <1>2, <1>6, <2>4, <2>5, PrepKept DEF NonePassed, InBounds, InScan, InLane
  <2> QED
    BY <1>1, <1>6, <2>6, PrepKept DEF FIInv, FirstMatch
<1> QED
  BY <1>4, <1>5, <1>6 DEF Horspool

\* The vector loop, in the assembly and in fm_two.
Loops == {<<"vector", "lane", "tail">>, <<"fm_two", "fm_lane", "fm_tail">>}
\* A round of a vector loop passes no start of an occurrence.
LEMMA VectorLoopStep ==
  ASSUME FIInv, NEW l \in Loops, VectorLoop(l[1], l[2], l[3])
  PROVE  FIInv'
<1>1. /\ pc \in {"vector", "fm_two"} /\ l[2] \in InLane /\ l[3] \in {"tail", "fm_tail"}
      /\ UNCHANGED <<call, prep, result>>
  BY DEF VectorLoop, Loops, InLane
<1>2. /\ end \in Nat /\ floor \in Nat /\ r14 \in Nat /\ off_a \in Nat /\ off_b \in Nat
      /\ LANES \in Nat /\ r14 >= floor
      /\ \A s \in Starts : s + off_a >= r14
  BY <1>1, CallBytes, WidthAssumption DEF FIInv, PrepOK, NonePassed, InBounds, InScan, InLane
<1>3. \A s \in Starts : /\ s \in Int
                        /\ s + off_a < r14 + LANES => s + off_a - r14 \in Lanes
  <2> SUFFICES ASSUME NEW s \in Starts, s + off_a < r14 + LANES
               PROVE  s + off_a - r14 \in Lanes
    BY <1>1, StartFacts
  <2>1. s \in Int /\ At0(hay, s + off_a) \in pa /\ At0(hay, s + off_b) \in pb
    BY <1>1, StartFacts
  <2>2. s + off_a - r14 \in 0 .. LANES - 1
    BY <1>2, <2>1
  <2>3. r14 + (s + off_a - r14) = s + off_a /\ r14 + (s + off_a - r14) + dd = s + off_b
    BY <1>2, <2>1 DEF dd
  <2> QED
    BY <2>1, <2>2, <2>3 DEF Lanes
<1>4. CASE pc' = l[3] /\ UNCHANGED <<r14, mask>>
  BY <1>1, <1>2, <1>4, PrepKept DEF FIInv, NonePassed, InBounds, InScan, InLane, FirstMatch
<1>5. CASE Lanes = {} /\ r14' = r14 + LANES /\ UNCHANGED <<pc, mask>>
  <2>1. r14' \in Nat /\ r14' >= floor /\ \A s \in Starts : s + off_a >= r14'
    BY <1>2, <1>3, <1>5
  <2> QED
    BY <1>1, <1>5, <2>1, PrepKept DEF FIInv, NonePassed, InBounds, InScan, InLane, FirstMatch
<1>6. CASE r14 + LANES + dd <= end /\ mask' = Lanes /\ pc' = l[2] /\ UNCHANGED r14
  <2>1. mask' \subseteq 0 .. LANES - 1
    BY <1>6 DEF Lanes
  <2>2. NonePassed'
    BY <1>1, <1>2, <1>3, <1>6, <2>1, PrepKept DEF NonePassed, InScan, InLane
  <2>3. InBounds'
    BY <1>1, <1>2, <1>6, PrepKept DEF InBounds, InScan, InLane
  <2> QED
    BY <1>1, <1>6, <2>2, <2>3, PrepKept DEF FIInv, FirstMatch, InScan, InLane
<1> QED
  BY <1>4, <1>5, <1>6 DEF VectorLoop

\* The lanes below the one tried hold no start of a match.
LEMMA LaneFacts ==
  ASSUME FIInv, pc \in InLane, NEW k \in mask, IsFirst(k, mask)
  PROVE  r14 + k \in Nat /\ \A s \in Starts : s + off_a >= r14 + k
<1>1. /\ r14 \in Nat /\ off_a \in Nat /\ LANES \in Nat /\ mask \subseteq 0 .. LANES - 1
      /\ \A s \in Starts : /\ s + off_a >= r14
                           /\ s + off_a < r14 + LANES => s + off_a - r14 \in mask
  BY WidthAssumption DEF FIInv, PrepOK, NonePassed, InScan, InLane
<1>2. \A s \in Starts : s \in Int
  BY StartFacts DEF InLane
<1>3. r14 + k \in Nat /\ k \in 0 .. LANES - 1
  BY <1>1
<1>4. \A s \in Starts : s + off_a >= r14 + k
  <2> SUFFICES ASSUME NEW s \in Starts PROVE s + off_a >= r14 + k
    OBVIOUS
  <2>1. CASE s + off_a < r14 + LANES
    BY <1>1, <1>2, <1>3, <2>1 DEF IsFirst
  <2>2. CASE s + off_a >= r14 + LANES
    BY <1>1, <1>2, <1>3, <2>2
  <2> QED
    BY <1>1, <1>2, <2>1, <2>2
<1> QED
  BY <1>3, <1>4

\* Clearing a lane that starts no match.
LEMMA LaneDoneStep ==
  ASSUME FIInv, pc \in InLane, UNCHANGED <<call, prep>>, NEW k \in mask, IsFirst(k, mask),
         \A s \in Starts : s + off_a >= r14 + k + 1,
         NEW v \in {"vector", "fm_two"}, LaneDone(k, v)
  PROVE  FIInv'
<1>1. /\ end \in Nat /\ floor \in Nat /\ r14 \in Nat /\ off_a \in Nat /\ LANES \in Nat
      /\ r14 >= floor /\ r14 + LANES + dd <= end /\ mask \subseteq 0 .. LANES - 1
      /\ \A s \in Starts : /\ s + off_a >= r14
                           /\ s + off_a < r14 + LANES => s + off_a - r14 \in mask
  BY CallBytes, WidthAssumption DEF FIInv, PrepOK, NonePassed, InBounds, InScan, InLane
<1>2. pc # "prep" /\ \A s \in Starts : s \in Int
  BY StartFacts DEF InLane
<1>3. k \in 0 .. LANES - 1
  BY <1>1
<1>4. \A s \in Starts : s + off_a < r14 + LANES => s + off_a - r14 \in mask \ {k}
  BY <1>1, <1>2, <1>3
<1>5. CASE mask' = {} /\ pc' = v /\ r14' = r14 + LANES
  <2>1. r14' \in Nat /\ r14' >= floor /\ \A s \in Starts : s + off_a >= r14'
    BY <1>1, <1>2, <1>4, <1>5 DEF LaneDone
  <2>2. pc' \in InScan \ InLane /\ pc' \notin {"single", "bmh", "done"}
    BY <1>5 DEF InScan, InLane
  <2> QED
    BY <1>2, <1>5, <2>1, <2>2, PrepKept DEF FIInv, NonePassed, InBounds, InScan, InLane, FirstMatch
<1>6. CASE UNCHANGED <<pc, r14>>
  <2>1. NonePassed'
    BY <1>1, <1>2, <1>4, <1>6, PrepKept DEF NonePassed, LaneDone, InScan, InLane
  <2>2. InBounds'
    BY <1>1, <1>2, <1>6, PrepKept DEF InBounds, InScan, InLane
  <2> QED
    BY <1>2, <1>6, <2>1, <2>2, PrepKept DEF FIInv, FirstMatch, InLane
<1> QED
  BY <1>5, <1>6 DEF LaneDone

\* A lane that is not an occurrence is passed (asm).
LEMMA LaneStep == FIInv /\ Lane => FIInv'
<1> SUFFICES ASSUME FIInv, Lane PROVE FIInv'
  OBVIOUS
<1>1. pc = "lane" /\ pc \in InLane /\ UNCHANGED <<call, prep>>
  BY DEF Lane, InLane
<1>2. PICK k \in mask : IsFirst(k, mask) /\ Candidate(r14 + k, LaneDone(k, "vector"))
  BY DEF Lane
<1>3. r14 + k \in Nat /\ \A s \in Starts : s + off_a >= r14 + k
  BY <1>1, <1>2, LaneFacts
<1>4. CASE (\A s \in Starts : s + off_a >= r14 + k + 1) /\ LaneDone(k, "vector")
  BY <1>1, <1>2, <1>4, LaneDoneStep
<1> QED
  BY <1>1, <1>2, <1>3, <1>4, CandidateFacts, Returns DEF Candidate

\* What fm_two may conclude from a byte A at p: a candidate that does not fit is
\* no start, and passing over it loses nothing.
LEMMA FmCandidateFacts ==
  ASSUME FIInv, pc # "prep", NEW p \in Nat, \A s \in Starts : s + off_a >= p
  PROVE  IF p - off_a >= floor /\ p - off_a + m <= end /\ verify(p - off_a)
         THEN IsFirst(p - off_a, Starts)
         ELSE \A s \in Starts : s + off_a >= p + 1
<1>1. m \in Nat /\ end \in Nat /\ floor \in Nat /\ off_a \in Nat
  BY CallBytes DEF FIInv, PrepOK
<1> QED
  BY <1>1, CandidateFacts

\* A lane that is not an occurrence is passed (C).
LEMMA FmLaneStep == FIInv /\ FmLane => FIInv'
<1> SUFFICES ASSUME FIInv, FmLane PROVE FIInv'
  OBVIOUS
<1>1. pc # "prep" /\ pc \in InLane /\ UNCHANGED <<call, prep>>
  BY DEF FmLane, InLane
<1>2. PICK k \in mask : IsFirst(k, mask) /\ FmCandidate(r14 + k, LaneDone(k, "fm_two"))
  BY DEF FmLane
<1>3. r14 + k \in Nat /\ \A s \in Starts : s + off_a >= r14 + k
  BY <1>1, <1>2, LaneFacts
<1>4. CASE (\A s \in Starts : s + off_a >= r14 + k + 1) /\ LaneDone(k, "fm_two")
  BY <1>1, <1>2, <1>4, LaneDoneStep
<1> QED
  BY <1>1, <1>2, <1>3, <1>4, FmCandidateFacts, Returns DEF FmCandidate

\* What both scalar tails have in common: the end, and a byte that is not byte A.
LEMMA TailFacts ==
  ASSUME FIInv, pc \in {"tail", "fm_tail"}, UNCHANGED <<call, prep>>
  PROVE  /\ r14 \in Nat /\ \A s \in Starts : s + off_a >= r14
         /\ r14 >= end => Starts = {}
         /\ At0(hay, r14) \notin pa => \A s \in Starts : s + off_a >= r14 + 1
         /\ (\A s \in Starts : s + off_a >= r14 + 1)
               /\ r14' = r14 + 1 /\ UNCHANGED <<pc, mask, result>> => FIInv'
<1>1. /\ end \in Nat /\ floor \in Nat /\ r14 \in Nat /\ off_a \in Nat /\ m \in Nat
      /\ off_a <= m - 1 /\ r14 >= floor
      /\ \A s \in Starts : s + off_a >= r14
  BY CallBytes DEF FIInv, PrepOK, NonePassed, InBounds, InScan
<1>2. pc # "prep" /\ \A s \in Starts : s \in Int /\ s + m <= end /\ At0(hay, s + off_a) \in pa
  BY StartFacts
<1>3. r14 >= end => Starts = {}
  BY <1>1, <1>2
<1>4. ASSUME At0(hay, r14) \notin pa
      PROVE  \A s \in Starts : s + off_a >= r14 + 1
  <2>1. \A s \in Starts : s + off_a # r14
    BY <1>2, <1>4
  <2> QED
    BY <1>1, <1>2, <2>1
<1>5. ASSUME \A s \in Starts : s + off_a >= r14 + 1,
             r14' = r14 + 1, UNCHANGED <<pc, mask, result>>
      PROVE  FIInv'
  <2>1. NonePassed' /\ InBounds'
    BY <1>1, <1>2, <1>5, PrepKept DEF NonePassed, InBounds, InScan, InLane
  <2> QED
    BY <1>2, <1>5, <2>1, PrepKept DEF FIInv, FirstMatch
<1> QED
  BY <1>1, <1>3, <1>4, <1>5

\* The tail tries one start after the other (asm).
LEMMA ScalarTailStep == FIInv /\ ScalarTail => FIInv'
<1> SUFFICES ASSUME FIInv, ScalarTail PROVE FIInv'
  OBVIOUS
<1> DEFINE next == r14' = r14 + 1 /\ UNCHANGED <<pc, mask, result>>
<1>1. pc = "tail" /\ UNCHANGED <<call, prep>>
  BY DEF ScalarTail
<1>2. CASE r14 >= end /\ Return(-1)
  BY <1>1, <1>2, TailFacts, Returns
<1>3. CASE At0(hay, r14) \notin pa /\ next
  BY <1>1, <1>3, TailFacts
<1>4. (\A s \in Starts : s + off_a >= r14 + 1) /\ next => FIInv'
  BY <1>1, TailFacts
<1> HIDE DEF next
<1>5. CASE Candidate(r14, next)
  BY <1>1, <1>4, <1>5, TailFacts, CandidateFacts, Returns DEF Candidate
<1> QED
  BY <1>2, <1>3, <1>5 DEF ScalarTail, next

\* The tail tries one start after the other (C).
LEMMA FmTailStep == FIInv /\ FmTail => FIInv'
<1> SUFFICES ASSUME FIInv, FmTail PROVE FIInv'
  OBVIOUS
<1> DEFINE next == r14' = r14 + 1 /\ UNCHANGED <<pc, mask, result>>
<1>1. pc = "fm_tail" /\ UNCHANGED <<call, prep>>
  BY DEF FmTail
<1>2. CASE r14 >= end /\ Return(-1)
  BY <1>1, <1>2, TailFacts, Returns
<1>3. CASE At0(hay, r14) \notin pa /\ next
  BY <1>1, <1>3, TailFacts
<1>4. (\A s \in Starts : s + off_a >= r14 + 1) /\ next => FIInv'
  BY <1>1, TailFacts
<1> HIDE DEF next
<1>5. CASE FmCandidate(r14, next)
  BY <1>1, <1>4, <1>5, TailFacts, FmCandidateFacts, Returns DEF FmCandidate
<1> QED
  BY <1>2, <1>3, <1>5 DEF FmTail, next

-----------------------------------------------------------------------------
(* Results                                                                 *)

\* Every step of the search keeps the invariant.
LEMMA FStep == FIInv /\ [FNext]_fvars => FIInv'
<1> SUFFICES ASSUME FIInv, [FNext]_fvars PROVE FIInv'
  OBVIOUS
<1>1. CASE PrepPattern
  BY <1>1, PrepPatternStep
<1>2. CASE ChooseScan
  BY <1>2, ChooseScanStep
<1>3. CASE Single
  BY <1>3, SingleStep
<1>4. CASE Memchr
  BY <1>4, PivotLoopStep DEF Memchr
<1>5. CASE Horspool
  BY <1>5, HorspoolStep
<1>6. CASE Vector
  <2>1. <<"vector", "lane", "tail">> \in Loops
    BY DEF Loops
  <2> QED
    BY <1>6, <2>1, VectorLoopStep DEF Vector
<1>7. CASE Lane
  BY <1>7, LaneStep
<1>8. CASE ScalarTail
  BY <1>8, ScalarTailStep
<1>10. CASE CPrepPattern
  BY <1>10, CPrepPatternStep
<1>11. CASE ChooseFm
  BY <1>11, ChooseFmStep
<1>12. CASE FmSingle
  BY <1>12, PivotLoopStep DEF FmSingle
<1>13. CASE FmTwo
  <2>1. <<"fm_two", "fm_lane", "fm_tail">> \in Loops
    BY DEF Loops
  <2> QED
    BY <1>13, <2>1, VectorLoopStep DEF FmTwo
<1>14. CASE FmLane
  BY <1>14, FmLaneStep
<1>15. CASE FmTail
  BY <1>15, FmTailStep
<1>9. CASE UNCHANGED fvars
  <2>1. UNCHANGED <<call, prep, pc, r14, mask, result>>
    BY <1>9 DEF fvars
  <2>2. CASE pc = "prep"
    <3>1. UNCHANGED <<hay, pat, opt_i, floor>>
      BY <2>1 DEF call
    <3> QED
      BY <2>1, <2>2, <3>1 DEF FIInv, NonePassed, InBounds, InScan, InLane, FirstMatch, end
  <2>3. CASE pc # "prep"
    BY <2>1, <2>3, PrepKept DEF FIInv, NonePassed, InBounds, InScan, InLane, FirstMatch
  <2> QED
    BY <2>2, <2>3
<1> QED
  BY <1>1, <1>2, <1>3, <1>4, <1>5, <1>6, <1>7, <1>8, <1>9, <1>10, <1>11, <1>12, <1>13,
     <1>14, <1>15 DEF FNext

\* The inductive invariant of both searches: what prep_pattern computed stays usable
\* and no scan passes over the start of a match.
THEOREM FSafety == FSpec => []FIInv
<1>1. FInit => FIInv
  BY DEF FInit, FIInv, NonePassed, InBounds, InScan, InLane, FirstMatch, end
<1> QED
  BY <1>1, FStep, PTL DEF FSpec

\* find_match returns the first occurrence of the pattern at or after the floor, or
\* nothing when there is none, whichever of its searches was chosen; so do fm_single and
\* fm_two.
THEOREM FindsFirstMatch == FSpec => []FirstMatch
<1>1. FIInv => FirstMatch
  BY DEF FIInv
<1> QED
  BY <1>1, FSafety, PTL

\* find_match and fm_two load no byte before the floor and no vector beyond the end.
THEOREM LoadsInBounds == FSpec => []InBounds
<1>1. FIInv => InBounds
  BY DEF FIInv
<1> QED
  BY <1>1, FSafety, PTL
=============================================================================
