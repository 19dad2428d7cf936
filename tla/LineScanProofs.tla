--------------------------- MODULE LineScanProofs ---------------------------
(***************************************************************************)
(* LineScan prints exactly the lines it should, for every file, pattern    *)
(* and buffer size, and for every loop that searches no further than the   *)
(* bytes of the file and takes an empty pattern as it should.              *)
(***************************************************************************)
EXTENDS LineScan, TLAPS

AllConform == \A s \in Searches : Conforms(s[1], s[2])

\* The loop starts with LInv: nothing is printed and no line passed.
LEMMA InitInv == ASSUME SInit PROVE LInv
<1> USE ByteAssumption, SizeAssumption, InputAssumption DEF SInit
<1>1. STypeOK
  <2>1. PICK s \in Searches : scan = s[1] /\ pat = s[2]
    OBVIOUS
  <2>2. s \in Loops \X Seq(Byte)
    OBVIOUS
  <2>3. s = <<s[1], s[2]>>
    BY <2>2
  <2>4. <<scan, pat>> \in Searches
    BY <2>1, <2>3
  <2>5. todo \in Seq(Files)
    OBVIOUS
  <2>6. buf \in [0 .. SIZE - 1 -> Byte]
    OBVIOUS
  <2> QED
    BY <2>4, <2>5, <2>6 DEF STypeOK
<1>2. pc = "read" /\ printed = <<>>
  OBVIOUS
<1> QED
  BY <1>1, <1>2 DEF LInv, LinesPrinted

-----------------------------------------------------------------------------
(* Lines.                                                                  *)

\* The bytes of the current file, read from the buffer.
LEMMA InFile ==
  ASSUME STypeOK, todo # <<>>, FileInBuffer(Head(todo))
  PROVE  /\ Head(todo) \in Seq(Byte) /\ Len(Head(todo)) = n
         /\ \A i \in 1 .. n : buf[i - 1] = Head(todo)[i]
         /\ \A i \in 0 .. n - 1 : Head(todo)[i + 1] = buf[i]
<1>1. Head(todo) \in Files
  BY DEF STypeOK
<1> QED
  BY <1>1 DEF Files, FileInBuffer, STypeOK

\* Occurrences in the file are occurrences in the buffer.
LEMMA SameOccurrences ==
  ASSUME STypeOK, InputAssumption, AllConform, todo # <<>>, FileInBuffer(Head(todo)), NEW k \in Nat
  PROVE  /\ limit = n
         /\ Occurs(k) <=> OccursIn(Head(todo), k)
<1> DEFINE f == Head(todo)
<1>1. limit = n
  <2>1. Conforms(scan, pat)
    BY DEF AllConform, STypeOK
  <2> QED
    BY <2>1 DEF limit, Conforms
<1>2. Len(f) = n /\ \A i \in 1 .. n : buf[i - 1] = f[i]
  BY InFile
<1>3. n \in Nat /\ pat \in Seq(Byte) /\ Len(pat) \in Nat
  BY SizeAssumption DEF STypeOK, InputAssumption
<1>4. ASSUME k + Len(pat) <= n, NEW i \in 1 .. Len(pat)
      PROVE  buf[k + i - 1] = f[k + i]
  <2>1. k + i \in 1 .. n /\ (k + i) - 1 = k + i - 1
    BY <1>3, <1>4
  <2> QED
    BY <2>1, <1>2
<1> QED
  BY <1>1, <1>2, <1>3, <1>4 DEF Occurs, OccursIn

\* A line that does not end before a line start does not begin before it.
LEMMA LineAfter ==
  ASSUME STypeOK, SizeAssumption, todo # <<>>, FileInBuffer(Head(todo)), AtLineStart,
         NEW l \in (0 .. n) \X (0 .. n), LineOf(Head(todo), l), l[2] >= pos
  PROVE  l[1] >= pos
<1> DEFINE f == Head(todo)
<1>1. Len(f) = n /\ \A i \in 0 .. n - 1 : f[i + 1] = buf[i]
  BY InFile
<1>2. n \in Nat /\ pos \in Nat /\ l[1] \in 0 .. n /\ l[2] \in 0 .. n
  BY SizeAssumption DEF STypeOK
<1>3. CASE pos = 0
  BY <1>2, <1>3
<1>4. CASE pos = n + 1
  BY <1>2, <1>4
<1>5. CASE pos # 0 /\ pos <= n /\ buf[pos - 1] = NL
  <2>1. SUFFICES ASSUME l[1] < pos PROVE FALSE
    BY <1>2
  <2>2. f[pos] = NL
    <3>1. pos - 1 \in 0 .. n - 1 /\ (pos - 1) + 1 = pos
      BY <1>2, <1>5
    <3> QED
      BY <3>1, <1>1, <1>5
  <2>3. pos \in l[1] + 1 .. l[2]
    BY <2>1, <1>2
  <2> QED
    BY <2>2, <2>3 DEF LineOf
<1> QED
  BY <1>3, <1>4, <1>5, <1>2 DEF AtLineStart

\* The line around k starts a line of the file unless k is behind a final newline.
LEMMA LineAround ==
  ASSUME STypeOK, SizeAssumption, todo # <<>>, FileInBuffer(Head(todo)),
         NEW k \in 0 .. n, NEW ls \in 0 .. k, NEW le \in k .. n, Starts(ls, k), Ends(k, le)
  PROVE  /\ \A i \in ls .. le - 1 : buf[i] # NL
         /\ ls < n => LineOf(Head(todo), <<ls, le>>)
<1> DEFINE f == Head(todo)
<1>1. Len(f) = n /\ \A i \in 0 .. n - 1 : f[i + 1] = buf[i]
  BY InFile
<1>2. n \in Nat /\ k \in Nat /\ ls \in Nat /\ le \in Nat /\ ls <= k /\ k <= le /\ le <= n
  BY SizeAssumption DEF STypeOK
<1>3. ASSUME NEW i \in ls .. le - 1 PROVE buf[i] # NL
  BY <1>2 DEF Starts, Ends
<1>4. ls = 0 \/ f[ls] = NL
  <2>1. CASE ls # 0
    <3>1. ls - 1 \in 0 .. n - 1 /\ (ls - 1) + 1 = ls
      BY <1>2, <2>1
    <3> QED
      BY <3>1, <2>1, <1>1 DEF Starts
  <2> QED
    BY <2>1
<1>5. le = n \/ f[le + 1] = NL
  <2>1. CASE le # n
    <3>1. le \in 0 .. n - 1
      BY <1>2, <2>1
    <3> QED
      BY <3>1, <2>1, <1>1 DEF Ends
  <2> QED
    BY <2>1
<1>6. ASSUME NEW i \in ls + 1 .. le PROVE f[i] # NL
  <2>1. i - 1 \in 0 .. n - 1 /\ i - 1 \in ls .. le - 1 /\ (i - 1) + 1 = i
    BY <1>2
  <2> QED
    BY <2>1, <1>1, <1>3
<1> QED
  BY <1>1, <1>2, <1>3, <1>4, <1>5, <1>6 DEF LineOf

\* Two lines of the file that end at the same place are the same.
LEMMA SameLine ==
  ASSUME STypeOK, SizeAssumption, todo # <<>>, FileInBuffer(Head(todo)),
         NEW k \in 0 .. n, NEW ls \in 0 .. k, NEW le \in k .. n, Starts(ls, k), Ends(k, le),
         NEW l \in (0 .. n) \X (0 .. n), LineOf(Head(todo), l), l[2] = le
  PROVE  l = <<ls, le>>
<1> DEFINE f == Head(todo)
<1>1. Len(f) = n /\ \A i \in 0 .. n - 1 : f[i + 1] = buf[i]
  BY InFile
<1>2. /\ n \in Nat /\ k \in Nat /\ ls \in Nat /\ le \in Nat /\ ls <= k /\ k <= le /\ le <= n
      /\ l[1] \in 0 .. n /\ l[2] \in 0 .. n /\ l = <<l[1], l[2]>> /\ l[1] <= le
  BY SizeAssumption DEF STypeOK, LineOf
<1>3. ASSUME l[1] < ls PROVE FALSE
  <2>1. ls - 1 \in 0 .. n - 1 /\ (ls - 1) + 1 = ls /\ ls # 0 /\ ls \in l[1] + 1 .. l[2]
    BY <1>2, <1>3
  <2> QED
    BY <2>1, <1>1 DEF Starts, LineOf
<1>4. ASSUME l[1] > ls PROVE FALSE
  <2>1. l[1] - 1 \in 0 .. n - 1 /\ l[1] - 1 \in ls .. le - 1 /\ (l[1] - 1) + 1 = l[1] /\ l[1] # 0
    BY <1>2, <1>4
  <2>2. f[l[1]] = NL
    BY <2>1 DEF LineOf
  <2> QED
    BY <2>1, <2>2, <1>1, LineAround
<1> QED
  BY <1>2, <1>3, <1>4

-----------------------------------------------------------------------------
(* A round of either loop.                                                 *)

\* Printing the line of the first occurrence at or after pos keeps the
\* invariant: nothing was skipped and nothing is printed again.
LEMMA PrintStep ==
  ASSUME LInv, ByteAssumption, SizeAssumption, InputAssumption, AllConform,
         pc \in {"every", "scan"}, AnotherRound,
         NEW k \in pos .. n, Found(k), k < n \/ (pc = "scan" /\ ~Stopped(k)),
         PrintLineOf(k), UNCHANGED <<scan, pat, todo, buf, n, pc>>
  PROVE  LInv'
<1> DEFINE f == Head(todo)
<1>1. PICK ls \in 0 .. k, le \in k .. n :
        /\ Starts(ls, k) /\ Ends(k, le)
        /\ printed' = Append(printed, <<ls, le>>) /\ pos' = le + 1
  BY DEF PrintLineOf
<1>2. /\ STypeOK /\ todo # <<>> /\ FileInBuffer(f) /\ AtLineStart /\ PrintedSoFar(f)
      /\ ~Binary(f) /\ (f = <<>> => scan.emptyFile)
  BY DEF LInv
<1>3. /\ n \in Nat /\ pos \in Nat /\ k \in Nat /\ ls \in Nat /\ le \in Nat
      /\ pos <= k /\ ls <= k /\ k <= le /\ le <= n /\ n <= SIZE /\ k \in 0 .. n
  BY <1>2, SizeAssumption DEF STypeOK
<1>4. Len(f) = n /\ f \in Seq(Byte) /\ \A i \in 0 .. n - 1 : f[i + 1] = buf[i]
  BY <1>2, InFile
<1>5. ls >= pos
  <2>1. CASE pos = 0
    BY <2>1, <1>3
  <2>2. CASE pos # 0
    <3>1. pos <= n /\ buf[pos - 1] = NL
      BY <2>2, <1>2, <1>3 DEF AtLineStart
    <3> QED
      BY <3>1, <2>2, <1>1, <1>3 DEF Starts
  <2> QED
    BY <2>1, <2>2
<1>6. /\ \A i \in ls .. le - 1 : buf[i] # NL
      /\ ls < n => LineOf(f, <<ls, le>>)
  BY <1>1, <1>2, <1>3, LineAround
<1>7. /\ OccursIn(f, k)
      /\ \A j \in Nat : j >= pos /\ OccursIn(f, j) => j >= k
  <2>1. ASSUME NEW j \in Nat, j >= pos, OccursIn(f, j) PROVE j >= k
    <3>1. Occurs(j)
      BY <2>1, <1>2, SameOccurrences
    <3> QED
      BY <3>1, <2>1, <1>3 DEF Found
  <2>2. OccursIn(f, k)
    BY <1>2, <1>3, SameOccurrences DEF Found
  <2> QED
    BY <2>1, <2>2
<1>8. pat \in Seq(Byte) /\ Len(pat) \in Nat /\ scan \in Loops
  BY <1>2, InputAssumption DEF STypeOK
<1>9. Matches(f, <<ls, le>>)
  <2>1. CASE k < n
    <3>1. LineOf(f, <<ls, le>>) /\ k \in ls .. le /\ k < Len(f)
      BY <2>1, <1>3, <1>4, <1>6
    <3> QED
      BY <3>1, <1>7 DEF Matches
  <2>2. ASSUME k = n PROVE FALSE
    <3>1. pat = <<>>
      BY <2>2, <1>3, <1>4, <1>7, <1>8 DEF OccursIn
    <3>2. pos = n
      <4>1. OccursIn(f, pos)
        BY <3>1, <1>3, <1>4 DEF OccursIn
      <4> QED
        BY <4>1, <1>7, <2>2, <1>3
    <3>3. pc = "scan" /\ ~Stopped(n) /\ scan.empty = "find" /\ scan.atEnd
      BY <2>2, <1>3, <3>1, <3>2 DEF LInv, AnotherRound
    <3>4. TakesEmpty(scan)
      BY <3>1, <1>2 DEF AllConform, Conforms, STypeOK
    <3>5. scan.stop = "newline" /\ ~scan.emptyFile
      BY <3>3, <3>4, <1>3 DEF TakesEmpty, Stopped
    <3>6. n > 0
      BY <3>5, <1>2, <1>3, <1>4
    <3>7. buf[n - 1] = NL
      BY <3>2, <3>6, <1>2, <1>3 DEF AtLineStart
    <3> QED
      BY <3>3, <3>5, <3>6, <3>7 DEF Stopped
  <2> QED
    BY <2>1, <2>2, <1>3
<1>10. /\ printed \in Seq((0 .. SIZE) \X (0 .. SIZE)) /\ Len(printed) \in Nat
       /\ <<ls, le>> \in (0 .. SIZE) \X (0 .. SIZE)
       /\ Len(printed') = Len(printed) + 1
       /\ \A i \in 1 .. Len(printed) : printed'[i] = printed[i] /\ printed[i] \in (0 .. SIZE) \X (0 .. SIZE)
       /\ printed'[Len(printed) + 1] = <<ls, le>>
  <2>1. printed \in Seq((0 .. SIZE) \X (0 .. SIZE))
    BY <1>2 DEF STypeOK
  <2>2. <<ls, le>> \in (0 .. SIZE) \X (0 .. SIZE)
    BY <1>3, SizeAssumption
  <2> QED
    BY <2>1, <2>2, <1>1
<1>11. STypeOK'
  <2>1. printed' \in Seq((0 .. SIZE) \X (0 .. SIZE))
    BY <1>1, <1>10
  <2>2. pos' \in 0 .. SIZE + 1
    BY <1>1, <1>3, SizeAssumption
  <2> QED
    BY <2>1, <2>2, <1>2 DEF STypeOK
<1>12. AtLineStart'
  <2>1. CASE le = n
    BY <2>1, <1>1 DEF AtLineStart
  <2>2. CASE le # n
    <3>1. pos' <= n /\ pos' - 1 = le /\ buf[le] = NL
      BY <2>2, <1>1, <1>3 DEF Ends
    <3> QED
      BY <3>1 DEF AtLineStart
  <2> QED
    BY <2>1, <2>2
<1>13. InOrder'
  <2>1. SUFFICES ASSUME NEW i \in 1 .. Len(printed'), NEW j \in 1 .. Len(printed'), i < j
                 PROVE  printed'[i][2] < printed'[j][1]
    BY DEF InOrder
  <2>2. i \in 1 .. Len(printed)
    BY <2>1, <1>10
  <2>3. CASE j \in 1 .. Len(printed)
    BY <2>1, <2>2, <2>3, <1>2, <1>10 DEF PrintedSoFar, InOrder
  <2>4. CASE j = Len(printed) + 1
    <3>1. printed[i][2] < pos /\ printed[i][2] \in Nat
      BY <2>2, <1>2, <1>10, SizeAssumption DEF PrintedSoFar
    <3> QED
      BY <3>1, <2>2, <2>4, <1>3, <1>5, <1>10
  <2> QED
    BY <2>3, <2>4, <1>10
<1>14. ASSUME NEW i \in 1 .. Len(printed')
       PROVE  printed'[i][2] < pos' /\ Matches(f, printed'[i])
  <2>1. CASE i \in 1 .. Len(printed)
    <3>1. printed[i][2] < pos /\ Matches(f, printed[i])
      BY <2>1, <1>2 DEF PrintedSoFar
    <3>2. printed[i][2] \in Nat
      BY <2>1, <1>10, SizeAssumption
    <3>3. printed[i][2] < pos'
      BY <3>1, <3>2, <1>1, <1>3, <1>5
    <3> QED
      BY <3>1, <3>3, <2>1, <1>10
  <2>2. CASE i = Len(printed) + 1
    BY <2>2, <1>1, <1>3, <1>9, <1>10
  <2> QED
    BY <2>1, <2>2, <1>10
<1>15. ASSUME NEW l \in (0 .. Len(f)) \X (0 .. Len(f)), Matches(f, l), l[2] < pos'
       PROVE  \E i \in 1 .. Len(printed') : printed'[i] = l
  <2>1. l \in (0 .. n) \X (0 .. n) /\ l[1] \in 0 .. n /\ l[2] \in 0 .. n
    BY <1>4
  <2>2. CASE l[2] < pos
    <3>1. PICK i \in 1 .. Len(printed) : printed[i] = l
      BY <2>2, <1>2, <1>15 DEF PrintedSoFar
    <3>2. i \in 1 .. Len(printed') /\ printed'[i] = l
      BY <3>1, <1>10
    <3> QED
      BY <3>2
  <2>3. CASE l[2] >= pos
    <3>1. l = <<ls, le>>
      <4>1. LineOf(f, l)
        BY <1>15 DEF Matches
      <4>2. PICK j \in l[1] .. l[2] : j < Len(f) /\ OccursIn(f, j)
        BY <1>15 DEF Matches
      <4>3. l[1] >= pos
        BY <4>1, <2>1, <2>3, <1>2, LineAfter
      <4>4. j >= k
        <5>1. j \in Nat /\ j >= pos
          BY <4>2, <4>3, <2>1, <1>3
        <5> QED
          BY <5>1, <4>2, <1>7
      <4>5. ASSUME l[2] < le PROVE FALSE
        <5>1. l[2] \in k .. le - 1 /\ l[2] \in 0 .. n - 1 /\ l[2] # Len(f)
          BY <4>2, <4>4, <4>5, <2>1, <1>3, <1>4
        <5>2. buf[l[2]] = NL
          BY <5>1, <4>1, <1>4 DEF LineOf
        <5> QED
          BY <5>1, <5>2, <1>1 DEF Ends
      <4>6. l[2] = le
        BY <4>5, <1>1, <1>3, <1>15, <2>1
      <4> QED
        BY <4>1, <4>6, <2>1, <1>1, <1>2, <1>3, SameLine
    <3>2. Len(printed) + 1 \in 1 .. Len(printed')
      BY <1>10
    <3> QED
      BY <3>1, <3>2, <1>10
  <2> QED
    BY <2>2, <2>3, <2>1, <1>3
<1>16. PrintedSoFar(f)'
  <2>1. \A l : Matches(f, l) = Matches(f, l)'
    BY DEF Matches, OccursIn, LineOf
  <2> QED
    BY <1>13, <1>14, <1>15, <2>1 DEF PrintedSoFar
<1> QED
  BY <1>2, <1>11, <1>12, <1>16 DEF LInv, LinesPrinted, FileInBuffer, Binary

\* Between the rounds every case of a loop's end leaves no line to print.
LEMMA NothingLeft ==
  ASSUME LInv, SizeAssumption, InputAssumption, AllConform, LastLine,
         NEW l \in (0 .. Len(Head(todo))) \X (0 .. Len(Head(todo))),
         Matches(Head(todo), l)
  PROVE  l[2] < pos
<1> DEFINE f == Head(todo)
<1>1. /\ STypeOK /\ todo # <<>> /\ FileInBuffer(f) /\ AtLineStart /\ PrintedSoFar(f)
      /\ pc \in {"every", "scan"}
  BY DEF LInv, LastLine
<1>2. Len(f) = n /\ f \in Seq(Byte) /\ \A i \in 0 .. n - 1 : f[i + 1] = buf[i]
  BY <1>1, InFile
<1>3. n \in Nat /\ pos \in Nat /\ l \in (0 .. n) \X (0 .. n) /\ l[1] \in 0 .. n /\ l[2] \in 0 .. n
  BY <1>1, <1>2, SizeAssumption DEF STypeOK
<1>4. limit = n /\ \A j \in Nat : Occurs(j) <=> OccursIn(f, j)
  BY <1>1, SameOccurrences
<1>5. pat \in Seq(Byte) /\ Len(pat) \in Nat /\ scan \in Loops
  BY <1>1, InputAssumption DEF STypeOK
<1>6. SUFFICES ASSUME l[2] >= pos PROVE FALSE
  BY <1>3
<1>7. LineOf(f, l)
  BY DEF Matches
<1>8. PICK j \in l[1] .. l[2] : j < n /\ OccursIn(f, j)
  BY <1>2 DEF Matches
<1>9. j \in pos .. n /\ j < n /\ Occurs(j)
  <2>1. l[1] >= pos
    BY <1>7, <1>1, <1>3, <1>6, LineAfter
  <2> QED
    BY <2>1, <1>8, <1>3, <1>4
<1>10. CASE \E k \in pos .. limit : Found(k) /\ Stopped(k)
  <2>1. PICK k \in pos .. limit : Found(k) /\ Stopped(k)
    BY <1>10
  <2>2. k >= n
    BY <2>1, <1>3 DEF Stopped
  <2> QED
    BY <2>1, <2>2, <1>9, <1>3, <1>4 DEF Found
<1>11. CASE \A k \in pos .. limit : ~Occurs(k)
  BY <1>9, <1>11, <1>4
<1>12. CASE pos >= n
  BY <1>9, <1>12, <1>3
<1> QED
  BY <1>10, <1>11, <1>12, <1>3 DEF LastLine, AnotherRound

-----------------------------------------------------------------------------
(* The invariant is inductive.                                             *)

\* Reading a file starts with no line passed.
LEMMA ReadFileStep ==
  ASSUME LInv, ByteAssumption, SizeAssumption, InputAssumption, AllConform, ReadFile
  PROVE  LInv'
<1> DEFINE f == Head(todo)
<1>1. STypeOK /\ printed = <<>> /\ todo # <<>>
  BY DEF LInv, ReadFile
<1>2. f \in Seq(Byte) /\ Len(f) \in Nat /\ Len(f) <= SIZE
  <2>1. Head(todo) \in Files
    BY <1>1 DEF STypeOK
  <2>2. Head(todo) \in Seq(Byte) /\ Len(Head(todo)) <= SIZE
    BY <2>1 DEF Files
  <2> QED
    BY <2>2
<1>3. buf' \in [0 .. SIZE - 1 -> Byte] /\ \A i \in 1 .. Len(f) : buf'[i - 1] = f[i]
  <2>1. buf' = [i \in 0 .. SIZE - 1 |-> IF i < Len(f) THEN f[i + 1] ELSE buf[i]]
    BY DEF ReadFile
  <2>2. ASSUME NEW i \in 0 .. SIZE - 1
        PROVE  (IF i < Len(f) THEN f[i + 1] ELSE buf[i]) \in Byte
    <3>1. i < Len(f) => i + 1 \in 1 .. Len(f)
      BY <1>2
    <3> QED
      BY <3>1, <1>1, <1>2 DEF STypeOK
  <2>3. ASSUME NEW i \in 1 .. Len(f) PROVE buf'[i - 1] = f[i]
    <3>1. i - 1 \in 0 .. SIZE - 1 /\ i - 1 < Len(f) /\ (i - 1) + 1 = i
      BY <1>2, SizeAssumption
    <3> QED
      BY <3>1, <2>1
  <2> QED
    BY <2>1, <2>2, <2>3
<1>4. pc' \in {"every", "scan", "done"}
  BY DEF ReadFile
<1>5. STypeOK'
  BY <1>1, <1>2, <1>3, <1>4, SizeAssumption DEF STypeOK, ReadFile
<1>6. printed' = <<>> /\ todo' = todo /\ pos' = 0 /\ n' = Len(f) /\ scan' = scan /\ pat' = pat
  BY <1>1 DEF ReadFile
<1>7. (Binary(f) = Binary(f)') /\ \A l : Matches(f, l) = Matches(f, l)'
  BY <1>6 DEF Binary, Matches, OccursIn, LineOf
<1>8. ASSUME pc' = "done" PROVE LinesPrinted'
  <2>1. Binary(f) \/ f = <<>>
    <3>1. pat = <<>> => scan.empty # "none"
      BY <1>1 DEF AllConform, Conforms, TakesEmpty, STypeOK
    <3> QED
      BY <3>1, <1>8 DEF ReadFile
  <2>2. ASSUME NEW l \in (0 .. Len(f)) \X (0 .. Len(f)), f = <<>> PROVE ~Matches(f, l)
    BY <2>2 DEF Matches, LineOf
  <2> QED
    BY <2>1, <2>2, <1>6, <1>7 DEF LinesPrinted, InOrder
<1>9. ASSUME pc' # "done"
      PROVE  /\ ~Binary(f) /\ (f = <<>> => scan.emptyFile)
             /\ FileInBuffer(f)' /\ AtLineStart' /\ PrintedSoFar(f)' /\ LinesPrinted'
             /\ pc' = "every" => pat = <<>> /\ scan.empty = "own"
             /\ pc' = "scan" => pat # <<>> \/ scan.empty = "find"
  <2>1. ~Binary(f) /\ (f = <<>> => scan.emptyFile)
    BY <1>9 DEF ReadFile
  <2>2. FileInBuffer(f)' /\ AtLineStart' /\ LinesPrinted'
    BY <1>3, <1>6, <1>9 DEF FileInBuffer, AtLineStart, LinesPrinted
  <2>3. PrintedSoFar(f)'
    BY <1>2, <1>6 DEF PrintedSoFar, InOrder
  <2>4. /\ pc' = "every" => pat = <<>> /\ scan.empty = "own"
        /\ pc' = "scan" => pat # <<>> \/ scan.empty = "find"
    <3>1. scan.empty \in {"own", "find", "none"}
      BY <1>1, InputAssumption DEF STypeOK, Loops
    <3> QED
      BY <3>1 DEF ReadFile
  <2> QED
    BY <2>1, <2>2, <2>3, <2>4
<1> QED
  BY <1>1, <1>4, <1>5, <1>6, <1>7, <1>8, <1>9 DEF LInv

\* A loop without a search prints the next line, which matches (empty pattern).
LEMMA EveryLineStep ==
  ASSUME LInv, ByteAssumption, SizeAssumption, InputAssumption, AllConform, EveryLine
  PROVE  LInv'
<1>1. STypeOK /\ todo # <<>> /\ FileInBuffer(Head(todo)) /\ pat = <<>> /\ pos < n /\ pc = "every"
  BY DEF LInv, EveryLine
<1>2. n \in Nat /\ pos \in Nat
  BY <1>1, SizeAssumption DEF STypeOK
<1>3. limit = n
  BY <1>1, <1>2, SameOccurrences
<1>4. pos \in pos .. n /\ Found(pos)
  BY <1>1, <1>2, <1>3 DEF Found, Occurs
<1> QED
  BY <1>1, <1>4, PrintStep DEF EveryLine, AnotherRound

\* The line around the next occurrence is the next line to print.
LEMMA NextMatchStep ==
  ASSUME LInv, ByteAssumption, SizeAssumption, InputAssumption, AllConform, NextMatch
  PROVE  LInv'
<1>1. STypeOK /\ todo # <<>> /\ FileInBuffer(Head(todo)) /\ pc = "scan" /\ AnotherRound
  BY DEF LInv, NextMatch
<1>2. limit = n
  BY <1>1, SameOccurrences
<1>3. PICK k \in pos .. n : Found(k) /\ ~Stopped(k) /\ PrintLineOf(k)
  BY <1>2 DEF NextMatch
<1> QED
  BY <1>1, <1>3, PrintStep DEF NextMatch

\* When the loop ends every line that matches has been printed.
LEMMA LastLineStep ==
  ASSUME LInv, SizeAssumption, InputAssumption, AllConform, LastLine
  PROVE  LInv'
<1> DEFINE f == Head(todo)
<1>1. /\ STypeOK /\ todo # <<>> /\ FileInBuffer(f) /\ PrintedSoFar(f) /\ ~Binary(f)
      /\ pc \in {"every", "scan"}
  BY DEF LInv, LastLine
<1>2. ASSUME NEW l \in (0 .. Len(f)) \X (0 .. Len(f))
      PROVE  (\E i \in 1 .. Len(printed) : printed[i] = l) <=> Matches(f, l)
  BY <1>1, NothingLeft DEF PrintedSoFar
<1>3. LinesPrinted'
  <2>1. InOrder
    BY <1>1 DEF PrintedSoFar
  <2>2. UNCHANGED <<scan, pat, todo, buf, n, pos, printed>>
    BY DEF LastLine
  <2>3. /\ Binary(f) = Binary(f)' /\ InOrder = InOrder'
        /\ \A l : Matches(f, l) = Matches(f, l)'
    BY <2>2 DEF Binary, InOrder, Matches, OccursIn, LineOf
  <2> QED
    BY <2>1, <2>2, <2>3, <1>1, <1>2 DEF LinesPrinted
<1>4. STypeOK'
  BY <1>1 DEF STypeOK, LastLine
<1> QED
  BY <1>1, <1>3, <1>4 DEF LInv, LastLine

\* The next file finds the buffer as the last one left it.
LEMMA NextFileStep ==
  ASSUME LInv, NextFile
  PROVE  LInv'
<1>1. STypeOK /\ todo # <<>>
  BY DEF LInv, NextFile
<1>2. STypeOK'
  BY <1>1 DEF STypeOK, NextFile
<1> QED
  BY <1>2 DEF LInv, NextFile, LinesPrinted

\* Every step of the scan keeps LInv.
LEMMA StepInv ==
  ASSUME LInv, ByteAssumption, SizeAssumption, InputAssumption, AllConform, [SNext]_svars
  PROVE  LInv'
<1>1. CASE UNCHANGED svars
  <2> DEFINE f == Head(todo)
  <2>1. UNCHANGED <<scan, pat, todo, buf, n, pos, printed, pc>>
    BY <1>1 DEF svars
  <2>2. /\ Binary(f) = Binary(f)' /\ InOrder = InOrder'
        /\ \A l : Matches(f, l) = Matches(f, l)'
    BY <2>1 DEF Binary, InOrder, Matches, OccursIn, LineOf
  <2>3. STypeOK' = STypeOK /\ FileInBuffer(f)' = FileInBuffer(f) /\ AtLineStart' = AtLineStart
    BY <2>1 DEF STypeOK, FileInBuffer, AtLineStart
  <2>4. LinesPrinted' = LinesPrinted
    BY <2>1, <2>2 DEF LinesPrinted
  <2>5. PrintedSoFar(f)' = PrintedSoFar(f)
    BY <2>1, <2>2 DEF PrintedSoFar
  <2> QED
    BY <2>1, <2>2, <2>3, <2>4, <2>5 DEF LInv
<1> QED
  BY <1>1, ReadFileStep, EveryLineStep, NextMatchStep, LastLineStep, NextFileStep DEF SNext

-----------------------------------------------------------------------------
(* The theorems.                                                           *)

\* The buffer, the place in it and what has been printed agree in every state of
\* the loops of search_file and scan.
THEOREM LSafety == ASSUME AllConform PROVE SSpec => []LInv
<1>1. SInit => LInv
  BY InitInv
<1>2. LInv /\ [SNext]_svars => LInv'
  BY StepInv, ByteAssumption, SizeAssumption, InputAssumption
<1> QED
  BY <1>1, <1>2, PTL DEF SSpec

\* Every loop that searches only the bytes of the file, and takes an empty pattern
\* as it should, prints exactly the lines in which an occurrence of it starts.
THEOREM LinesExact == ASSUME AllConform PROVE SSpec => []LinesPrinted
<1>1. LInv => LinesPrinted
  BY DEF LInv
<1> QED
  BY <1>1, LSafety, PTL
=============================================================================
