---------------------------- MODULE CountingProofs ----------------------------
(***************************************************************************)
(* What the steps of a search do to the counts of Counting: an element     *)
(* appended, taken from either end, one set of a family replaced; what a   *)
(* sequence appended does to the concatenation FlattenSeq, and what can be *)
(* shown of it sequence by sequence; sums and the parts of sequences.      *)
(***************************************************************************)
EXTENDS Counting, SequencesExt, TLAPS, FiniteSetTheorems, SequenceTheorems,
        WellFoundedInduction

\* A sequence has finitely many places, and counts are numbers.
LEMMA TimesType ==
  ASSUME NEW S, NEW s \in Seq(S), NEW x
  PROVE  IsFiniteSet(Places(x, s)) /\ Times(x, s) \in Nat
<1>1. DOMAIN s = 1 .. Len(s) /\ Len(s) \in Nat
  BY LenProperties
<1>2. IsFiniteSet(1 .. Len(s))
  BY <1>1, FS_Interval
<1>3. IsFiniteSet(Places(x, s))
  BY <1>1, <1>2, FS_Subset DEF Places
<1> QED
  BY <1>3, FS_CardinalityType DEF Times

\* Nothing stands in an empty sequence.
LEMMA TimesEmpty ==
  ASSUME NEW x
  PROVE  Places(x, <<>>) = {} /\ Times(x, <<>>) = 0
<1>1. Places(x, <<>>) = {}
  BY DEF Places
<1> QED
  BY <1>1, FS_EmptySet DEF Times

\* An element appended is one more.
LEMMA TimesAppend ==
  ASSUME NEW S, NEW s \in Seq(S), NEW e \in S, NEW x
  PROVE  Times(x, Append(s, e)) = Times(x, s) + (IF e = x THEN 1 ELSE 0)
<1> DEFINE n == Len(s) + 1
<1>1. /\ DOMAIN s = 1 .. Len(s) /\ Len(s) \in Nat
      /\ DOMAIN Append(s, e) = 1 .. n
      /\ Append(s, e)[n] = e
      /\ \A i \in 1 .. Len(s) : Append(s, e)[i] = s[i]
  BY LenProperties, AppendProperties
<1>2. IsFiniteSet(Places(x, s)) /\ n \notin Places(x, s)
  <2>1. IsFiniteSet(Places(x, s))
    BY TimesType
  <2>2. n \notin Places(x, s)
    BY <1>1 DEF Places
  <2> QED
    BY <2>1, <2>2
<1>3. CASE e = x
  <2>1. Places(x, Append(s, e)) = Places(x, s) \cup {n}
    BY <1>1, <1>3 DEF Places
  <2> QED
    BY <1>2, <1>3, <2>1, FS_AddElement DEF Times
<1>4. CASE e # x
  <2>1. Places(x, Append(s, e)) = Places(x, s)
    BY <1>1, <1>4 DEF Places
  <2> QED
    BY <1>4, <2>1, TimesType DEF Times
<1> QED
  BY <1>3, <1>4

\* A sequence without its last element.
LEMMA FrontOf ==
  ASSUME NEW S, NEW s \in Seq(S), s # <<>>
  PROVE  LET f == SubSeq(s, 1, Len(s) - 1) IN
         /\ f \in Seq(S) /\ Len(f) = Len(s) - 1 /\ DOMAIN f = 1 .. Len(s) - 1
         /\ \A i \in 1 .. Len(s) - 1 : f[i] = s[i]
<1> DEFINE n == Len(s) - 1
<1>1. n \in Nat /\ \A i \in 1 .. n : s[i] \in S
  BY EmptySeq, LenProperties, ElementOfSeq
<1> HIDE DEF n
<1>2. SubSeq(s, 1, n) \in Seq(S) /\ Len(SubSeq(s, 1, n)) = n
  BY <1>1, SubSeqProperties
<1>3. DOMAIN SubSeq(s, 1, n) = 1 .. n
  BY <1>2, LenProperties
<1>4. ASSUME NEW i \in 1 .. n PROVE SubSeq(s, 1, n)[i] = s[i]
  <2>1. SubSeq(s, 1, n)[i] = s[1 + i - 1]
    BY <1>1, SubSeqProperties
  <2> QED
    BY <1>1, <2>1
<1> QED
  BY <1>2, <1>3, <1>4 DEF n

\* The last element taken away is one less.
LEMMA TimesFront ==
  ASSUME NEW S, NEW s \in Seq(S), s # <<>>, NEW x
  PROVE  Times(x, s) = Times(x, SubSeq(s, 1, Len(s) - 1))
                       + (IF s[Len(s)] = x THEN 1 ELSE 0)
<1> DEFINE f == SubSeq(s, 1, Len(s) - 1)
           e == s[Len(s)]
<1>1. Len(s) \in Nat \ {0}
  BY EmptySeq, LenProperties
<1>2. e \in S
  BY <1>1, ElementOfSeq
<1>3. f \in Seq(S) /\ Len(f) = Len(s) - 1 /\ \A i \in 1 .. Len(s) - 1 : f[i] = s[i]
  BY FrontOf
<1> HIDE DEF f, e
<1>4. Append(f, e) = s
  <2>1. Append(f, e) \in Seq(S) /\ Len(Append(f, e)) = Len(s)
    BY <1>1, <1>2, <1>3, AppendProperties
  <2>2. ASSUME NEW i \in 1 .. Len(s) PROVE Append(f, e)[i] = s[i]
    BY <1>1, <1>2, <1>3, AppendProperties DEF e
  <2> QED
    BY <2>1, <2>2, SeqEqual
<1>5. Times(x, Append(f, e)) = Times(x, f) + (IF e = x THEN 1 ELSE 0)
  BY <1>2, <1>3, TimesAppend
<1> QED
  BY <1>4, <1>5 DEF f, e

\* So is the first: the other places move up by one.
LEMMA TimesTail ==
  ASSUME NEW S, NEW s \in Seq(S), s # <<>>, NEW x
  PROVE  Times(x, s) = Times(x, Tail(s)) + (IF Head(s) = x THEN 1 ELSE 0)
<1> DEFINE Rest == Places(x, s) \ {1}
           f == [i \in Rest |-> i - 1]
<1>1. /\ Len(s) \in Nat \ {0} /\ DOMAIN s = 1 .. Len(s)
      /\ Tail(s) \in Seq(S) /\ Len(Tail(s)) = Len(s) - 1
      /\ DOMAIN Tail(s) = 1 .. Len(s) - 1
      /\ \A i \in 1 .. Len(s) - 1 : Tail(s)[i] = s[i + 1]
      /\ Head(s) = s[1]
  BY EmptySeq, LenProperties, HeadTailProperties
<1>2. IsFiniteSet(Places(x, s)) /\ IsFiniteSet(Rest)
  BY TimesType, FS_Subset
<1>3. f \in Bijection(Rest, Places(x, Tail(s)))
  <2>1. f \in [Rest -> Places(x, Tail(s))]
    BY <1>1 DEF Places
  <2>2. \A i, j \in Rest : f[i] = f[j] => i = j
    BY <1>1 DEF Places
  <2>3. \A k \in Places(x, Tail(s)) : k + 1 \in Rest /\ f[k + 1] = k
    BY <1>1 DEF Places
  <2>4. f \in Injection(Rest, Places(x, Tail(s)))
    BY <2>1, <2>2 DEF Injection, IsInjective
  <2>5. f \in Surjection(Rest, Places(x, Tail(s)))
    BY <2>1, <2>3 DEF Surjection
  <2> QED
    BY <2>4, <2>5 DEF Bijection
<1>4. Cardinality(Rest) = Times(x, Tail(s))
  BY <1>2, <1>3, FS_Bijection DEF ExistsBijection, Times
<1>5. CASE Head(s) = x
  <2>1. 1 \in Places(x, s)
    BY <1>1, <1>5 DEF Places
  <2>2. Cardinality(Rest) = Cardinality(Places(x, s)) - 1
    BY <1>2, <2>1, FS_RemoveElement
  <2> QED
    BY <1>2, <1>4, <1>5, <2>2, FS_CardinalityType DEF Times
<1>6. CASE Head(s) # x
  <2>1. Rest = Places(x, s)
    BY <1>1, <1>6 DEF Places
  <2>2. Times(x, s) = Times(x, Tail(s)) /\ Times(x, s) \in Nat
    BY <1>2, <1>4, <2>1, FS_CardinalityType DEF Times
  <2> QED
    BY <1>6, <2>2
<1> QED
  BY <1>5, <1>6

-----------------------------------------------------------------------------
(* Families of finite sets over a finite index set.                        *)

Pairs(P) == UNION {{w} \X P[w] : w \in DOMAIN P}

\* Finitely many finite sets have finitely many elements.
LEMMA TotalType ==
  ASSUME NEW W, IsFiniteSet(W), NEW T, NEW P \in [W -> SUBSET T],
         \A w \in W : IsFiniteSet(P[w])
  PROVE  IsFiniteSet(Pairs(P)) /\ Total(P) \in Nat
<1> DEFINE R == {{w} \X P[w] : w \in W}
           f == [w \in W |-> {w} \X P[w]]
<1>1. f \in Surjection(W, R)
  BY DEF Surjection
<1>2. IsFiniteSet(R)
  <2> HIDE DEF f, R
  <2> QED
    BY <1>1, FS_Surjection
<1>3. ASSUME NEW w \in W PROVE IsFiniteSet({w} \X P[w])
  <2>1. IsFiniteSet({w})
    BY FS_Singleton
  <2> QED
    BY <2>1, FS_Product
<1>4. Pairs(P) = UNION R
  BY DEF Pairs
<1>5. IsFiniteSet(UNION R)
  <2>1. \A Q \in R : IsFiniteSet(Q)
    BY <1>3
  <2> HIDE DEF R
  <2> QED
    BY <1>2, <2>1, FS_UNION
<1> QED
  BY <1>4, <1>5, FS_CardinalityType DEF Total, Pairs

\* Empty sets have no elements.
LEMMA TotalEmpty ==
  ASSUME NEW P, \A w \in DOMAIN P : P[w] = {}
  PROVE  Total(P) = 0
<1>1. UNION {{w} \X P[w] : w \in DOMAIN P} = {}
  OBVIOUS
<1> QED
  BY <1>1, FS_EmptySet DEF Total

\* The total without one member of the family.
LEMMA TotalSplit ==
  ASSUME NEW W, IsFiniteSet(W), NEW T, NEW P \in [W -> SUBSET T],
         \A w \in W : IsFiniteSet(P[w]), NEW u \in W
  PROVE  /\ Total([P EXCEPT ![u] = {}]) \in Nat
         /\ Total(P) = Total([P EXCEPT ![u] = {}]) + Cardinality(P[u])
<1> DEFINE Q == [P EXCEPT ![u] = {}]
           U == {u} \X P[u]
<1>1. Q \in [W -> SUBSET T] /\ \A w \in W : IsFiniteSet(Q[w])
  BY FS_EmptySet
<1>2. IsFiniteSet(Pairs(Q)) /\ Total(Q) \in Nat
  <2> HIDE DEF Q
  <2> QED
    BY <1>1, TotalType
<1>3. IsFiniteSet(U) /\ Cardinality(U) = Cardinality(P[u])
  <2>1. IsFiniteSet({u}) /\ Cardinality({u}) = 1
    BY FS_Singleton
  <2>2. Cardinality(P[u]) \in Nat
    BY FS_CardinalityType
  <2> QED
    BY <2>1, <2>2, FS_Product
<1>4. Pairs(P) = Pairs(Q) \cup U
  <2>1. ASSUME NEW p \in Pairs(P) PROVE p \in Pairs(Q) \cup U
    <3>1. PICK w \in W : p \in {w} \X P[w]
      BY <2>1 DEF Pairs
    <3>2. CASE w = u
      BY <3>1, <3>2
    <3>3. CASE w # u
      <4>1. p \in {w} \X Q[w] /\ w \in DOMAIN Q
        BY <3>1, <3>3
      <4> QED
        BY <4>1 DEF Pairs
    <3> QED
      BY <3>2, <3>3
  <2>2. ASSUME NEW p \in Pairs(Q) PROVE p \in Pairs(P)
    <3>1. PICK w \in W : p \in {w} \X Q[w]
      BY <2>2 DEF Pairs
    <3>2. w # u
      BY <3>1
    <3>3. p \in {w} \X P[w] /\ w \in DOMAIN P
      BY <3>1, <3>2
    <3> QED
      BY <3>3 DEF Pairs
  <2>3. U \subseteq Pairs(P)
    BY DEF Pairs
  <2> QED
    BY <2>1, <2>2, <2>3
<1>5. Pairs(Q) \cap U = {}
  <2> SUFFICES ASSUME NEW p \in Pairs(Q), p \in U PROVE FALSE
    OBVIOUS
  <2>1. PICK w \in W : p \in {w} \X Q[w]
    BY DEF Pairs
  <2>2. w = u
    BY <2>1
  <2> QED
    BY <2>1, <2>2
<1>6. Cardinality(Pairs(P)) = Cardinality(Pairs(Q)) + Cardinality(U)
  <2> HIDE DEF Q, U
  <2>1. Cardinality(Pairs(Q) \cap U) = 0
    BY <1>5, FS_EmptySet
  <2>2. Cardinality(Pairs(Q)) \in Nat /\ Cardinality(U) \in Nat
    BY <1>2, <1>3, FS_CardinalityType
  <2>3. Cardinality(Pairs(Q) \cup U)
        = Cardinality(Pairs(Q)) + Cardinality(U) - Cardinality(Pairs(Q) \cap U)
    BY <1>2, <1>3, FS_Union
  <2> QED
    BY <1>4, <2>1, <2>2, <2>3
<1> QED
  BY <1>2, <1>3, <1>6 DEF Total, Pairs

\* Two families that differ in one member differ by what that member does.
LEMMA TotalChange ==
  ASSUME NEW W, IsFiniteSet(W), NEW T,
         NEW P \in [W -> SUBSET T], \A w \in W : IsFiniteSet(P[w]),
         NEW Q \in [W -> SUBSET T], \A w \in W : IsFiniteSet(Q[w]),
         NEW u \in W, \A w \in W \ {u} : P[w] = Q[w]
  PROVE  Total(Q) + Cardinality(P[u]) = Total(P) + Cardinality(Q[u])
<1>1. [P EXCEPT ![u] = {}] = [Q EXCEPT ![u] = {}]
  OBVIOUS
<1>2. Total(P) = Total([P EXCEPT ![u] = {}]) + Cardinality(P[u])
  BY TotalSplit
<1>3. Total(Q) = Total([Q EXCEPT ![u] = {}]) + Cardinality(Q[u])
  BY TotalSplit
<1>4. Total([P EXCEPT ![u] = {}]) \in Nat
  BY TotalSplit
<1>5. Cardinality(P[u]) \in Nat /\ Cardinality(Q[u]) \in Nat
  BY FS_CardinalityType
<1> QED
  BY <1>1, <1>2, <1>3, <1>4, <1>5

-----------------------------------------------------------------------------
(* Families of sequences.                                                  *)

\* The places in a concatenation are those in the first part, and those in the second
\* moved up.
LEMMA TimesConcat ==
  ASSUME NEW S, NEW s \in Seq(S), NEW u \in Seq(S), NEW x
  PROVE  Times(x, s \o u) = Times(x, s) + Times(x, u)
<1> DEFINE n == Len(s)
           Moved == {i \in Places(x, s \o u) : i > n}
           f == [i \in Places(x, u) |-> n + i]
<1>1. /\ n \in Nat /\ DOMAIN s = 1 .. n /\ Len(u) \in Nat /\ DOMAIN u = 1 .. Len(u)
      /\ s \o u \in Seq(S) /\ DOMAIN (s \o u) = 1 .. n + Len(u)
      /\ \A i \in 1 .. n + Len(u) : (s \o u)[i] = IF i <= n THEN s[i] ELSE u[i - n]
  BY LenProperties, ConcatProperties
<1>2. IsFiniteSet(Places(x, s)) /\ IsFiniteSet(Places(x, u)) /\ IsFiniteSet(Moved)
  BY <1>1, TimesType, FS_Subset
<1>3. f \in Bijection(Places(x, u), Moved)
  <2>1. f \in [Places(x, u) -> Moved]
    BY <1>1 DEF Places
  <2>2. \A i, j \in Places(x, u) : f[i] = f[j] => i = j
    BY <1>1 DEF Places
  <2>3. \A k \in Moved : k - n \in Places(x, u) /\ f[k - n] = k
    BY <1>1 DEF Places
  <2>4. f \in Injection(Places(x, u), Moved)
    BY <2>1, <2>2 DEF Injection, IsInjective
  <2>5. f \in Surjection(Places(x, u), Moved)
    BY <2>1, <2>3 DEF Surjection
  <2> QED
    BY <2>4, <2>5 DEF Bijection
<1>4. Cardinality(Moved) = Times(x, u)
  BY <1>2, <1>3, FS_Bijection DEF ExistsBijection, Times
<1>5. Places(x, s \o u) = Places(x, s) \cup Moved /\ Places(x, s) \cap Moved = {}
  BY <1>1 DEF Places
<1>6. /\ Cardinality(Places(x, s) \cup Moved) = Cardinality(Places(x, s)) + Cardinality(Moved)
  <2> HIDE DEF Moved
  <2>1. Cardinality(Places(x, s) \cap Moved) = 0
    BY <1>5, FS_EmptySet
  <2>2. Cardinality(Places(x, s)) \in Nat /\ Cardinality(Moved) \in Nat
    BY <1>2, FS_CardinalityType
  <2>3. Cardinality(Places(x, s) \cup Moved)
        = Cardinality(Places(x, s)) + Cardinality(Moved) - Cardinality(Places(x, s) \cap Moved)
    BY <1>2, FS_Union
  <2> QED
    BY <2>1, <2>2, <2>3
<1> QED
  BY <1>4, <1>5, <1>6 DEF Times

\* The places in a sequence are a finite set of numbers.
LEMMA PlacesType ==
  ASSUME NEW S, NEW s \in Seq(S), NEW x
  PROVE  IsFiniteSet(Places(x, s)) /\ Places(x, s) \in SUBSET Nat
<1>1. DOMAIN s = 1 .. Len(s) /\ Len(s) \in Nat
  BY LenProperties
<1>2. Places(x, s) \in SUBSET Nat
  BY <1>1 DEF Places
<1> QED
  BY <1>2, TimesType

\* A family of sequences has a number of places.
LEMMA AmongType ==
  ASSUME NEW W, IsFiniteSet(W), NEW S, NEW ss \in [W -> Seq(S)], NEW x
  PROVE  Among(x, ss) \in Nat
<1> DEFINE P == [w \in W |-> Places(x, ss[w])]
<1>1. \A w \in W : IsFiniteSet(P[w]) /\ P[w] \in SUBSET Nat
  BY PlacesType
<1>2. P \in [W -> SUBSET Nat]
  BY <1>1
<1>3. Among(x, ss) = Total(P)
  BY DEF Among
<1> HIDE DEF P
<1> QED
  BY <1>1, <1>2, <1>3, TotalType

\* Families of finite sets of numbers, and two that differ at most in one member.
Family(P, W) == P \in [W -> SUBSET Nat] /\ \A w \in W : IsFiniteSet(P[w])
AlikeBut(P, Q, W, u) == \A w \in W \ {u} : P[w] = Q[w]

\* TotalChange for such families.
LEMMA FamilyChange ==
  ASSUME NEW W, IsFiniteSet(W), NEW P, NEW Q, NEW u \in W,
         Family(P, W), Family(Q, W), AlikeBut(P, Q, W, u)
  PROVE  Total(Q) + Cardinality(P[u]) = Total(P) + Cardinality(Q[u])
<1>1. P \in [W -> SUBSET Nat] /\ \A w \in W : IsFiniteSet(P[w])
  BY DEF Family
<1>2. Q \in [W -> SUBSET Nat] /\ \A w \in W : IsFiniteSet(Q[w])
  BY DEF Family
<1>3. \A w \in W \ {u} : P[w] = Q[w]
  BY DEF AlikeBut
<1>4. Total(P) = Total([P EXCEPT ![u] = {}]) + Cardinality(P[u])
  BY <1>1, TotalSplit
<1>5. Total(Q) = Total([Q EXCEPT ![u] = {}]) + Cardinality(Q[u])
  BY <1>2, TotalSplit
<1>6. Total([P EXCEPT ![u] = {}]) \in Nat
  BY <1>1, TotalSplit
<1>7. [P EXCEPT ![u] = {}] = [Q EXCEPT ![u] = {}]
  BY <1>1, <1>2, <1>3
<1>8. Cardinality(P[u]) \in Nat /\ Cardinality(Q[u]) \in Nat
  BY <1>1, <1>2, FS_CardinalityType
<1> QED
  BY <1>4, <1>5, <1>6, <1>7, <1>8

\* Families of sequences.
SeqFamily(ss, W, S) == ss \in [W -> Seq(S)]

\* Two families that differ in one sequence differ by what that sequence does.
LEMMA AmongChange ==
  ASSUME NEW W, IsFiniteSet(W), NEW S, NEW x, NEW ss, NEW uu, NEW w \in W,
         SeqFamily(ss, W, S), SeqFamily(uu, W, S), AlikeBut(ss, uu, W, w)
  PROVE  Among(x, uu) + Times(x, ss[w]) = Among(x, ss) + Times(x, uu[w])
<1> DEFINE P == [v \in W |-> Places(x, ss[v])]
           Q == [v \in W |-> Places(x, uu[v])]
<1>0. ss \in [W -> Seq(S)] /\ uu \in [W -> Seq(S)]
  BY DEF SeqFamily
<1> USE <1>0
<1>1. /\ \A v \in W : IsFiniteSet(P[v]) /\ P[v] \in SUBSET Nat
      /\ \A v \in W : IsFiniteSet(Q[v]) /\ Q[v] \in SUBSET Nat
  BY PlacesType
<1>2. P \in [W -> SUBSET Nat] /\ Q \in [W -> SUBSET Nat]
  BY <1>1
<1>3. \A v \in W \ {w} : P[v] = Q[v]
  BY DEF AlikeBut
<1>4. Among(x, ss) = Total(P) /\ Among(x, uu) = Total(Q)
  BY DEF Among
<1>5. P[w] = Places(x, ss[w]) /\ Q[w] = Places(x, uu[w])
  OBVIOUS
<1> HIDE DEF P, Q
<1>6. Family(P, W) /\ Family(Q, W) /\ AlikeBut(P, Q, W, w)
  BY <1>1, <1>2, <1>3 DEF Family, AlikeBut
<1>7. Total(Q) + Cardinality(P[w]) = Total(P) + Cardinality(Q[w])
  BY <1>6, FamilyChange
<1> QED
  BY <1>4, <1>5, <1>7 DEF Times

\* Nothing stands in a family of empty sequences.
LEMMA AmongEmpty ==
  ASSUME NEW ss, NEW x, \A w \in DOMAIN ss : ss[w] = <<>>
  PROVE  Among(x, ss) = 0
<1> DEFINE P == [w \in DOMAIN ss |-> Places(x, ss[w])]
<1>1. \A w \in DOMAIN P : P[w] = {}
  BY TimesEmpty
<1> HIDE DEF P
<1>2. Total(P) = 0
  BY <1>1, TotalEmpty
<1> QED
  BY <1>2 DEF Among, P

\* Families whose sets have the same sizes, one by one, have the same size.
LEMMA SameTotal ==
  ASSUME NEW W, IsFiniteSet(W), NEW T, NEW P \in [W -> SUBSET T], NEW Q \in [W -> SUBSET T],
         \A w \in W : /\ IsFiniteSet(P[w]) /\ IsFiniteSet(Q[w])
                      /\ Cardinality(P[w]) = Cardinality(Q[w])
  PROVE  Total(P) = Total(Q)
<1> DEFINE b == [w \in W |-> CHOOSE h : h \in Bijection(P[w], Q[w])]
           g == [z \in Pairs(P) |-> <<z[1], b[z[1]][z[2]]>>]
<1>1. ASSUME NEW w \in W PROVE b[w] \in Bijection(P[w], Q[w])
  <2>1. \E h : h \in Bijection(P[w], Q[w])
    BY FS_SameCardinalityBij DEF ExistsBijection
  <2> QED
    BY <2>1
<1>2. ASSUME NEW w \in W
      PROVE  /\ b[w] \in [P[w] -> Q[w]] /\ \A p, q \in P[w] : b[w][p] = b[w][q] => p = q
             /\ \A q \in Q[w] : \E p \in P[w] : b[w][p] = q
  <2>1. PICK h : h = b[w] /\ h \in Injection(P[w], Q[w]) /\ h \in Surjection(P[w], Q[w])
    BY <1>1 DEF Bijection
  <2>2. h \in [P[w] -> Q[w]] /\ \A p, q \in P[w] : h[p] = h[q] => p = q
    BY <2>1 DEF Injection, IsInjective
  <2>3. \A q \in Q[w] : \E p \in P[w] : h[p] = q
    BY <2>1 DEF Surjection
  <2> QED
    BY <2>1, <2>2, <2>3
<1> HIDE DEF b
<1>3. \A z : z \in Pairs(P) <=> z = <<z[1], z[2]>> /\ z[1] \in W /\ z[2] \in P[z[1]]
  BY DEF Pairs
<1>4. \A z : z \in Pairs(Q) <=> z = <<z[1], z[2]>> /\ z[1] \in W /\ z[2] \in Q[z[1]]
  BY DEF Pairs
<1>5. ASSUME NEW z \in Pairs(P)
      PROVE  g[z] \in Pairs(Q) /\ g[z][1] = z[1] /\ g[z][2] = b[z[1]][z[2]]
  <2>1. z[1] \in W /\ z[2] \in P[z[1]]
    BY <1>3
  <2>2. b[z[1]][z[2]] \in Q[z[1]]
    BY <1>2, <2>1
  <2> QED
    BY <1>4, <2>1, <2>2
<1>6. ASSUME NEW y \in Pairs(P), NEW z \in Pairs(P), g[y] = g[z] PROVE y = z
  <2>1. y[1] = z[1] /\ b[y[1]][y[2]] = b[y[1]][z[2]]
    BY <1>5, <1>6
  <2>2. y = <<y[1], y[2]>> /\ z = <<z[1], z[2]>> /\ y[1] \in W /\ y[2] \in P[y[1]]
        /\ z[2] \in P[y[1]]
    BY <1>3, <2>1
  <2>3. y[2] = z[2]
    BY <1>2, <2>1, <2>2
  <2> QED
    BY <2>1, <2>2, <2>3
<1>7. ASSUME NEW y \in Pairs(Q) PROVE \E z \in Pairs(P) : g[z] = y
  <2>1. y = <<y[1], y[2]>> /\ y[1] \in W /\ y[2] \in Q[y[1]]
    BY <1>4
  <2>2. PICK p \in P[y[1]] : b[y[1]][p] = y[2]
    BY <1>2, <2>1
  <2>3. <<y[1], p>> \in Pairs(P)
    BY <1>3, <2>1
  <2> QED
    BY <2>1, <2>2, <2>3
<1>8. g \in [Pairs(P) -> Pairs(Q)]
  BY <1>5
<1>9. g \in Bijection(Pairs(P), Pairs(Q))
  <2> HIDE DEF g
  <2>1. g \in Injection(Pairs(P), Pairs(Q))
    BY <1>6, <1>8 DEF Injection, IsInjective
  <2>2. g \in Surjection(Pairs(P), Pairs(Q))
    BY <1>7, <1>8 DEF Surjection
  <2> QED
    BY <2>1, <2>2 DEF Bijection
<1>10. IsFiniteSet(Pairs(P))
  BY TotalType
<1>11. Cardinality(Pairs(P)) = Cardinality(Pairs(Q))
  BY <1>9, <1>10, FS_Bijection DEF ExistsBijection
<1> QED
  BY <1>11 DEF Total, Pairs

\* An element that stands equally often in each sequence of two families stands equally
\* often in the families.
LEMMA SameAmong ==
  ASSUME NEW W, IsFiniteSet(W), NEW S, NEW x, NEW ss, NEW uu,
         SeqFamily(ss, W, S), SeqFamily(uu, W, S),
         \A w \in W : Times(x, ss[w]) = Times(x, uu[w])
  PROVE  Among(x, ss) = Among(x, uu)
<1> DEFINE P == [v \in W |-> Places(x, ss[v])]
           Q == [v \in W |-> Places(x, uu[v])]
<1>0. ss \in [W -> Seq(S)] /\ uu \in [W -> Seq(S)]
  BY DEF SeqFamily
<1>1. \A w \in W : /\ Places(x, ss[w]) \in SUBSET Nat /\ IsFiniteSet(Places(x, ss[w]))
                   /\ Places(x, uu[w]) \in SUBSET Nat /\ IsFiniteSet(Places(x, uu[w]))
  BY <1>0, PlacesType
<1>2. P \in [W -> SUBSET Nat] /\ Q \in [W -> SUBSET Nat]
  BY <1>1
<1>3. \A w \in W : /\ IsFiniteSet(P[w]) /\ IsFiniteSet(Q[w])
                   /\ Cardinality(P[w]) = Cardinality(Q[w])
  BY <1>1 DEF Times
<1>4. Among(x, ss) = Total(P) /\ Among(x, uu) = Total(Q)
  BY <1>0 DEF Among
<1> HIDE DEF P, Q
<1>5. Total(P) = Total(Q)
  BY <1>2, <1>3, SameTotal
<1> QED
  BY <1>4, <1>5

-----------------------------------------------------------------------------
(* Concatenation.  The induction it takes is over a set of numbers, by the *)
(* least number outside of it.                                             *)

\* A nonempty set of natural numbers has a least element.
LEMMA LeastNumber ==
  ASSUME NEW T \in SUBSET Nat, T # {}
  PROVE  \E n \in T : \A m \in T : n <= m
<1> DEFINE below == {0 .. (n - 1) : n \in T}
<1>1. below \subseteq FiniteSubsetsOf(Nat) /\ below # {}
  <2> SUFFICES ASSUME NEW n \in T PROVE 0 .. (n - 1) \in FiniteSubsetsOf(Nat)
    OBVIOUS
  <2> QED
    BY FS_Interval DEF FiniteSubsetsOf
<1>2. PICK s \in below : \A t \in below : ~ (<<t, s>> \in StrictSubsetOrdering(Nat))
  BY <1>1, FS_StrictSubsetOrderingWellFounded, WFMin
<1>3. PICK n \in T : s = 0 .. (n - 1)
  BY <1>2
<1> SUFFICES ASSUME NEW m \in T, m < n PROVE FALSE
  OBVIOUS
<1>4. 0 .. (m - 1) \in below
  OBVIOUS
<1>5. 0 .. (m - 1) \subseteq s /\ m \in s /\ m \notin 0 .. (m - 1)
  BY <1>3
<1>6. 0 .. (m - 1) # s /\ s \in SUBSET Nat /\ 0 .. (m - 1) \in SUBSET Nat
  BY <1>3, <1>5
<1>7. <<0 .. (m - 1), s>> \in StrictSubsetOrdering(Nat)
  BY <1>5, <1>6 DEF StrictSubsetOrdering
<1> QED
  BY <1>2, <1>4, <1>7

\* Induction on the natural numbers, for a set.
LEMMA NumberInduction ==
  ASSUME NEW P, 0 \in P, \A n \in Nat : n \in P => n + 1 \in P
  PROVE  Nat \subseteq P
<1> DEFINE T == Nat \ P
<1> SUFFICES ASSUME T # {} PROVE FALSE
  OBVIOUS
<1>1. PICK n \in T : \A m \in T : n <= m
  BY LeastNumber
<1>2. n # 0 /\ n \in Nat /\ n \notin P
  OBVIOUS
<1>3. n - 1 \in Nat /\ ~ (n <= n - 1) /\ (n - 1) + 1 = n
  BY <1>2
<1>4. n - 1 \in P
  BY <1>1, <1>3
<1> QED
  BY <1>2, <1>3, <1>4

\* f[i] is the concatenation of the first i of the sequences ss, for i up to n.
Flattens(f, ss, n) ==
  f = [i \in 1 .. n |-> IF i = 1 THEN ss[i] ELSE f[i - 1] \o ss[i]]

\* Two functions with the same values up to n.
Agree(f, g, n) == \A i \in 1 .. n : f[i] = g[i]

\* There is such a function, and it yields sequences of the same elements.
LEMMA FlattensExists ==
  ASSUME NEW S, NEW ss \in Seq(Seq(S))
  PROVE  \A n \in 0 .. Len(ss) : \E f \in [1 .. n -> Seq(S)] : Flattens(f, ss, n)
<1> DEFINE P == {n \in Nat : n <= Len(ss) =>
                   \E f \in [1 .. n -> Seq(S)] : Flattens(f, ss, n)}
<1>0. Len(ss) \in Nat /\ \A i \in 1 .. Len(ss) : ss[i] \in Seq(S)
  BY LenProperties, ElementOfSeq
<1>1. 0 \in P
  <2> DEFINE f == [i \in 1 .. 0 |-> <<>>]
  <2>1. f \in [1 .. 0 -> Seq(S)] /\ Flattens(f, ss, 0)
    BY DEF Flattens
  <2> QED
    BY <2>1
<1>2. ASSUME NEW n \in Nat, n \in P PROVE n + 1 \in P
  <2> SUFFICES ASSUME n + 1 <= Len(ss)
               PROVE  \E f \in [1 .. n + 1 -> Seq(S)] : Flattens(f, ss, n + 1)
    OBVIOUS
  <2>1. PICK f \in [1 .. n -> Seq(S)] : Flattens(f, ss, n)
    BY <1>0, <1>2
  <2> DEFINE next == IF n = 0 THEN ss[1] ELSE f[n] \o ss[n + 1]
             g == [i \in 1 .. n + 1 |-> IF i = n + 1 THEN next ELSE f[i]]
  <2>2. next \in Seq(S)
    <3>1. n # 0 => f[n] \in Seq(S) /\ ss[n + 1] \in Seq(S)
      BY <1>0
    <3>2. n = 0 => ss[1] \in Seq(S)
      BY <1>0
    <3> QED
      BY <3>1, <3>2, ConcatProperties
  <2> HIDE DEF next
  <2>3. g \in [1 .. n + 1 -> Seq(S)]
    BY <2>2
  <2>4. ASSUME NEW i \in 1 .. n + 1
        PROVE  g[i] = IF i = 1 THEN ss[i] ELSE g[i - 1] \o ss[i]
    <3>1. CASE i = n + 1
      <4>1. g[i] = next
        BY <3>1
      <4>2. n # 0 => i # 1 /\ i - 1 = n /\ n \in 1 .. n + 1 /\ n # n + 1
        BY <3>1
      <4>3. n # 0 => g[i - 1] = f[n]
        BY <4>2
      <4>4. n = 0 => i = 1
        BY <3>1
      <4> HIDE DEF g
      <4> QED
        BY <4>1, <4>2, <4>3, <4>4, <3>1 DEF next
    <3>2. CASE i # n + 1
      <4>1. i \in 1 .. n /\ g[i] = f[i]
        BY <3>2
      <4>2. f[i] = IF i = 1 THEN ss[i] ELSE f[i - 1] \o ss[i]
        BY <4>1, <2>1 DEF Flattens
      <4>3. i # 1 => i - 1 \in 1 .. n + 1 /\ i - 1 # n + 1
        BY <4>1
      <4>4. i # 1 => g[i - 1] = f[i - 1]
        BY <4>3
      <4> HIDE DEF g
      <4> QED
        BY <4>1, <4>2, <4>4
    <3> QED
      BY <3>1, <3>2
  <2>5. Flattens(g, ss, n + 1)
    <3> DEFINE h == [i \in 1 .. n + 1 |-> IF i = 1 THEN ss[i] ELSE g[i - 1] \o ss[i]]
    <3>1. \A i \in 1 .. n + 1 : g[i] = h[i]
      <4> HIDE DEF g
      <4> QED
        BY <2>4
    <3>2. DOMAIN g = 1 .. n + 1 /\ DOMAIN h = 1 .. n + 1 
      OBVIOUS
    <3>3. g = [i \in DOMAIN g |-> g[i]] /\ h = [i \in DOMAIN h |-> h[i]]
      OBVIOUS
    <3> HIDE DEF g, h
    <3>4. g = h
      BY <3>1, <3>2, <3>3
    <3> QED
      BY <3>4 DEF h, Flattens
  <2> HIDE DEF g
  <2> QED
    BY <2>3, <2>5
<1>3. Nat \subseteq P
  <2> HIDE DEF P
  <2> QED
    BY <1>1, <1>2, NumberInduction
<1> SUFFICES ASSUME NEW n \in 0 .. Len(ss)
             PROVE  \E f \in [1 .. n -> Seq(S)] : Flattens(f, ss, n)
  OBVIOUS
<1>4. n \in Nat /\ n <= Len(ss)
  BY <1>0
<1> QED
  BY <1>3, <1>4

\* There is only one, also for two sequences that agree that far.
LEMMA FlattensUnique ==
  ASSUME NEW ss, NEW tt, NEW m \in Nat, NEW n \in Nat, NEW f, NEW g,
         Flattens(f, ss, m), Flattens(g, tt, n), m <= n, Agree(ss, tt, m)
  PROVE  Agree(f, g, m)
<1> DEFINE P == {i \in Nat : i \in 1 .. m => f[i] = g[i]}
<1>1. 0 \in P
  OBVIOUS
<1>2. ASSUME NEW i \in Nat, i \in P PROVE i + 1 \in P
  <2> SUFFICES ASSUME i + 1 \in 1 .. m PROVE f[i + 1] = g[i + 1]
    OBVIOUS
  <2> DEFINE k == i + 1
  <2>1. k \in 1 .. m /\ k \in 1 .. n /\ k - 1 = i
    OBVIOUS
  <2> HIDE DEF k
  <2>2. f[k] = IF k = 1 THEN ss[k] ELSE f[k - 1] \o ss[k]
    BY <2>1 DEF Flattens
  <2>3. g[k] = IF k = 1 THEN ss[k] ELSE g[k - 1] \o ss[k]
    BY <2>1 DEF Flattens, Agree
  <2>4. k # 1 => f[i] = g[i]
    BY <1>2, <2>1
  <2>5. f[k] = g[k]
    BY <2>1, <2>2, <2>3, <2>4
  <2> QED
    BY <2>5 DEF k
<1>3. Nat \subseteq P
  <2> HIDE DEF P
  <2> QED
    BY <1>1, <1>2, NumberInduction
<1> QED
  BY <1>3 DEF Agree

\* The concatenation of sequences is the last value of that function.
LEMMA FlattenSeqIs ==
  ASSUME NEW S, NEW ss \in Seq(Seq(S)), Len(ss) # 0
  PROVE  /\ Len(ss) \in Nat
         /\ \E f \in [1 .. Len(ss) -> Seq(S)] :
               Flattens(f, ss, Len(ss)) /\ FlattenSeq(ss) = f[Len(ss)]
<1> DEFINE n == Len(ss)
           flatten == CHOOSE f : f = [i \in 1 .. n |-> IF i = 1 THEN ss[i] ELSE f[i - 1] \o ss[i]]
<1>1. n \in Nat \ {0} /\ n \in 0 .. Len(ss)
  BY LenProperties
<1>2. PICK f \in [1 .. n -> Seq(S)] : Flattens(f, ss, n)
  BY <1>1, FlattensExists
<1>3. FlattenSeq(ss) = flatten[n]
  BY DEF FlattenSeq
<1>4. Flattens(flatten, ss, n)
  BY <1>2 DEF Flattens
<1> HIDE DEF flatten, n
<1>5. Agree(f, flatten, n)
  <2>1. Agree(ss, ss, n)
    BY DEF Agree
  <2> QED
    BY <1>1, <1>2, <1>4, <2>1, FlattensUnique
<1>6. f[n] = flatten[n]
  BY <1>1, <1>5 DEF Agree
<1> QED
  BY <1>1, <1>2, <1>3, <1>6 DEF n

\* Concatenating nothing, and the type of a concatenation.
LEMMA FlattenSeqType ==
  ASSUME NEW S, NEW ss \in Seq(Seq(S))
  PROVE  FlattenSeq(ss) \in Seq(S) /\ (ss = <<>> => FlattenSeq(ss) = <<>>)
<1>1. CASE Len(ss) = 0
  <2>1. ss = <<>> /\ FlattenSeq(ss) = ss
    BY <1>1, EmptySeq DEF FlattenSeq
  <2> QED
    BY <2>1, EmptySeq
<1>2. CASE Len(ss) # 0
  <2>1. PICK f \in [1 .. Len(ss) -> Seq(S)] : FlattenSeq(ss) = f[Len(ss)]
    BY <1>2, FlattenSeqIs
  <2>2. Len(ss) \in 1 .. Len(ss)
    BY <1>2, LenProperties
  <2>3. ss # <<>>
    BY <1>2, EmptySeq
  <2> QED
    BY <2>1, <2>2, <2>3
<1> QED
  BY <1>1, <1>2

\* A sequence appended to the sequences is appended to their concatenation.
LEMMA FlattenSeqAppend ==
  ASSUME NEW S, NEW ss \in Seq(Seq(S)), NEW e \in Seq(S)
  PROVE  FlattenSeq(Append(ss, e)) = FlattenSeq(ss) \o e
<1> DEFINE n == Len(ss)
<1>1. PICK tt \in Seq(Seq(S)) :
        /\ tt = Append(ss, e) /\ Len(tt) = n + 1 /\ tt[n + 1] = e
        /\ \A i \in 1 .. n : ss[i] = tt[i]
  <2>1. Append(ss, e) \in Seq(Seq(S)) /\ Len(Append(ss, e)) = n + 1
    BY AppendProperties
  <2>2. Append(ss, e)[n + 1] = e /\ \A i \in 1 .. n : ss[i] = Append(ss, e)[i]
    BY AppendProperties
  <2> HIDE DEF n
  <2> QED
    BY <2>1, <2>2
<1>2. PICK k \in Nat : k = n + 1 /\ n \in Nat /\ Len(tt) = k
  BY <1>1, LenProperties
<1>3. k # 0
  BY <1>2
<1>4. PICK g : Flattens(g, tt, k) /\ FlattenSeq(tt) = g[k]
  BY <1>2, <1>3, FlattenSeqIs
<1>5. CASE n = 0
  <2>1. FlattenSeq(ss) = <<>>
    BY <1>5, FlattenSeqType, EmptySeq
  <2>2. k = 1 /\ k \in 1 .. k /\ tt[k] = e
    BY <1>1, <1>2, <1>5
  <2>3. g[k] = e
    BY <1>4, <2>2 DEF Flattens
  <2> QED
    BY <1>1, <1>4, <2>1, <2>3, ConcatEmptySeq
<1>6. CASE n # 0
  <2>1. PICK f : Flattens(f, ss, n) /\ FlattenSeq(ss) = f[n]
    BY <1>6, FlattenSeqIs
  <2>2. tt[k] = e
    BY <1>1, <1>2
  <2>3. n \in 1 .. n /\ n <= k /\ n \in Nat /\ k \in 1 .. k /\ k # 1 /\ k - 1 = n
    BY <1>2, <1>6
  <2>4. f[n] = g[n]
    <3>1. Agree(ss, tt, n)
      BY <1>1 DEF Agree
    <3>2. Agree(f, g, n)
      BY <1>4, <2>1, <2>3, <3>1, FlattensUnique
    <3> QED
      BY <2>3, <3>2 DEF Agree
  <2>5. g[k] = IF k = 1 THEN tt[k] ELSE g[k - 1] \o tt[k]
    BY <1>4, <2>3 DEF Flattens
  <2> QED
    BY <1>1, <1>4, <2>1, <2>2, <2>3, <2>4, <2>5
<1> QED
  BY <1>5, <1>6

\* F of every element of s, and t as s with one more element.
Mapped(F, s) == [i \in DOMAIN s |-> F[s[i]]]
OneMore(t, s, e) == t = Append(s, e)

\* To map a sequence with one more element is to append the value of that element.
LEMMA MapAppend ==
  ASSUME NEW S, NEW T, NEW F \in [S -> T], NEW s \in Seq(S), NEW e \in S,
         NEW long, OneMore(long, s, e)
  PROVE  Mapped(F, s) \in Seq(T) /\ OneMore(Mapped(F, long), Mapped(F, s), F[e])
<1>1. F[e] \in T /\ \A y \in S : F[y] \in T
  OBVIOUS
<1>2. PICK n \in Nat : n = Len(s) /\ DOMAIN s = 1 .. n /\ \A i \in 1 .. n : s[i] \in S
  BY LenProperties
<1>3. Mapped(F, s) \in [1 .. n -> T]
  BY <1>1, <1>2 DEF Mapped
<1>4. Mapped(F, s) \in Seq(T) /\ Len(Mapped(F, s)) = n
  <2>1. Mapped(F, s) \in Seq(T)
    BY <1>3, SeqDef
  <2>2. DOMAIN Mapped(F, s) = 1 .. n /\ DOMAIN Mapped(F, s) = 1 .. Len(Mapped(F, s))
        /\ Len(Mapped(F, s)) \in Nat
    BY <1>3, <2>1, LenProperties
  <2> QED
    BY <2>1, <2>2
<1>6. /\ DOMAIN long = 1 .. n + 1 /\ long[n + 1] = e
      /\ \A i \in 1 .. n : long[i] = s[i]
  <2>1. Append(s, e) \in Seq(S) /\ Len(Append(s, e)) = n + 1
    BY <1>2, AppendProperties
  <2>2. DOMAIN Append(s, e) = 1 .. n + 1
    BY <2>1, LenProperties
  <2>3. Append(s, e)[n + 1] = e /\ \A i \in 1 .. n : Append(s, e)[i] = s[i]
    BY <1>2, AppendProperties
  <2> QED
    BY <2>2, <2>3 DEF OneMore
<1>7. PICK more : more = Append(Mapped(F, s), F[e])
  OBVIOUS
<1>8. more \in Seq(T) /\ DOMAIN more = 1 .. n + 1
  <2>1. Append(Mapped(F, s), F[e]) \in Seq(T) /\ Len(Append(Mapped(F, s), F[e])) = n + 1
    BY <1>1, <1>4, AppendProperties
  <2> QED
    BY <1>7, <2>1, LenProperties
<1>9. more[n + 1] = F[e] /\ \A i \in 1 .. n : more[i] = Mapped(F, s)[i]
  BY <1>1, <1>4, <1>7, AppendProperties
<1>10. \A i \in 1 .. n + 1 : Mapped(F, long)[i] = more[i]
  <2> SUFFICES ASSUME NEW i \in 1 .. n + 1 PROVE Mapped(F, long)[i] = more[i]
    OBVIOUS
  <2>1. Mapped(F, long)[i] = F[long[i]]
    BY <1>6 DEF Mapped
  <2>2. CASE i = n + 1
    BY <1>6, <1>9, <2>1, <2>2
  <2>3. CASE i # n + 1
    <3>1. i \in 1 .. n
      BY <2>3
    <3>2. Mapped(F, s)[i] = F[s[i]]
      BY <1>2, <3>1 DEF Mapped
    <3> QED
      BY <1>6, <1>9, <2>1, <3>1, <3>2
  <2> QED
    BY <2>2, <2>3
<1>11. Mapped(F, long) = more
  <2>1. DOMAIN Mapped(F, long) = 1 .. n + 1
    BY <1>6 DEF Mapped
  <2>2. Mapped(F, long) = [i \in DOMAIN Mapped(F, long) |-> Mapped(F, long)[i]]
    BY DEF Mapped
  <2>3. more = [i \in DOMAIN more |-> more[i]]
    BY <1>8, LenProperties
  <2> QED
    BY <1>8, <1>10, <2>1, <2>2, <2>3
<1> QED
  BY <1>4, <1>7, <1>11 DEF OneMore

\* A concatenation is empty when all its parts are.
LEMMA FlattenSeqEmpty ==
  ASSUME NEW S, NEW ss \in Seq(Seq(S))
  PROVE  FlattenSeq(ss) = <<>> <=> \A i \in DOMAIN ss : ss[i] = <<>>
<1>0. DOMAIN ss = 1 .. Len(ss) /\ Len(ss) \in Nat
  BY LenProperties
<1>1. CASE Len(ss) = 0
  <2>1. ss = <<>>
    BY <1>1, EmptySeq
  <2>2. FlattenSeq(ss) = <<>>
    BY <2>1, FlattenSeqType
  <2> QED
    BY <1>0, <1>1, <2>2
<1>2. CASE Len(ss) # 0
  <2>1. PICK n \in Nat : n = Len(ss) /\ n # 0
    BY <1>0, <1>2
  <2>2. PICK f \in [1 .. n -> Seq(S)] : Flattens(f, ss, n) /\ FlattenSeq(ss) = f[n]
    BY <1>2, <2>1, FlattenSeqIs
  <2> DEFINE P == {k \in Nat : k \in 1 .. n => (f[k] = <<>> <=> \A i \in 1 .. k : ss[i] = <<>>)}
  <2>3. 0 \in P
    OBVIOUS
  <2>4. ASSUME NEW k \in Nat, k \in P PROVE k + 1 \in P
    <3> SUFFICES ASSUME k + 1 \in 1 .. n
                 PROVE  f[k + 1] = <<>> <=> \A i \in 1 .. k + 1 : ss[i] = <<>>
      OBVIOUS
    <3>1. PICK m \in Nat : m = k + 1
      OBVIOUS
    <3>2. m \in 1 .. n /\ m - 1 = k /\ (m # 1 => k \in 1 .. n)
      BY <3>1
    <3>3. f[m] = IF m = 1 THEN ss[m] ELSE f[m - 1] \o ss[m]
      BY <2>2, <3>2 DEF Flattens
    <3>4. CASE m = 1
      <4>1. f[m] = ss[m] /\ m \in 1 .. m /\ \A i \in 1 .. m : i = m
        BY <3>3, <3>4
      <4> QED
        BY <3>1, <4>1
    <3>5. CASE m # 1
      <4>1. f[m] = f[k] \o ss[m] /\ f[k] \in Seq(S)
        BY <3>2, <3>3, <3>5
      <4>2. ss[m] \in Seq(S)
        BY <2>1, <3>2, ElementOfSeq
      <4>3. f[m] = <<>> <=> f[k] = <<>> /\ ss[m] = <<>>
        BY <4>1, <4>2, ConcatEqualIffEmpty
      <4>4. f[k] = <<>> <=> \A i \in 1 .. k : ss[i] = <<>>
        BY <2>4, <3>2, <3>5
      <4>5. \A i \in 1 .. m : i \in 1 .. k \/ i = m
        BY <3>1
      <4>6. \A i \in 1 .. k : i \in 1 .. m
        BY <3>1
      <4>7. m \in 1 .. m
        BY <3>2
      <4> QED
        BY <3>1, <4>3, <4>4, <4>5, <4>6, <4>7
    <3> QED
      BY <3>4, <3>5
  <2>5. Nat \subseteq P
    <3> HIDE DEF P
    <3> QED
      BY <2>3, <2>4, NumberInduction
  <2>6. n \in P /\ n \in 1 .. n
    <3> HIDE DEF P
    <3> QED
      BY <2>1, <2>5
  <2>7. f[n] = <<>> <=> \A i \in 1 .. n : ss[i] = <<>>
    BY <2>6
  <2> QED
    BY <1>0, <2>1, <2>2, <2>7
<1> QED
  BY <1>1, <1>2

\* A sequence that is not empty is another one with an element appended.
LEMMA FrontAndLast ==
  ASSUME NEW S, NEW s \in Seq(S), s # <<>>
  PROVE  \E f \in Seq(S), e \in S : Len(f) = Len(s) - 1 /\ OneMore(s, f, e)
<1> DEFINE f == SubSeq(s, 1, Len(s) - 1)
           e == s[Len(s)]
<1>1. Len(s) \in Nat \ {0}
  BY EmptySeq, LenProperties
<1>2. e \in S
  BY <1>1, ElementOfSeq
<1>3. f \in Seq(S) /\ Len(f) = Len(s) - 1 /\ \A i \in 1 .. Len(s) - 1 : f[i] = s[i]
  BY FrontOf
<1> HIDE DEF f, e
<1>4. Append(f, e) \in Seq(S) /\ Len(Append(f, e)) = Len(s)
  BY <1>1, <1>2, <1>3, AppendProperties
<1>5. ASSUME NEW i \in 1 .. Len(s) PROVE Append(f, e)[i] = s[i]
  BY <1>1, <1>2, <1>3, AppendProperties DEF e
<1>6. Append(f, e) = s
  BY <1>4, <1>5, SeqEqual
<1> QED
  BY <1>2, <1>3, <1>6 DEF OneMore

\* Induction on sequences, for a set of them.
Inductive(P, S) == <<>> \in P /\ \A s \in Seq(S), e \in S : s \in P => Append(s, e) \in P

LEMMA SequenceInduction ==
  ASSUME NEW S, NEW P, Inductive(P, S)
  PROVE  \A s \in Seq(S) : s \in P
<1> DEFINE Q == {n \in Nat : \A s \in Seq(S) : Len(s) = n => s \in P}
<1>1. 0 \in Q
  BY EmptySeq DEF Inductive
<1>2. ASSUME NEW n \in Nat, n \in Q PROVE n + 1 \in Q
  <2> SUFFICES ASSUME NEW s \in Seq(S), Len(s) = n + 1 PROVE s \in P
    OBVIOUS
  <2>1. s # <<>>
    BY EmptySeq
  <2>2. PICK f \in Seq(S), e \in S : Len(f) = Len(s) - 1 /\ OneMore(s, f, e)
    BY <2>1, FrontAndLast
  <2>3. Len(f) = n
    BY <2>2
  <2>4. f \in P
    BY <1>2, <2>3
  <2> QED
    BY <2>2, <2>4 DEF OneMore, Inductive
<1>3. \A n \in Nat : n \in Q => n + 1 \in Q
  BY <1>2
<1> HIDE DEF Q
<1>4. Nat \subseteq Q
  BY <1>1, <1>3, NumberInduction
<1>5. \A s \in Seq(S) : Len(s) \in Q
  BY <1>4, LenProperties
<1> QED
  BY <1>5 DEF Q

\* Concatenation as a relation, for citing: append to the second part and one appends
\* to the whole; what is concatenated in either order of steps is the same.
Together(u, s, v) == u = s \o v

LEMMA OneMoreTogether ==
  ASSUME NEW S, NEW s \in Seq(S), NEW v \in Seq(S), NEW e \in S, NEW ve, NEW sv, NEW sve,
         OneMore(ve, v, e), Together(sv, s, v), Together(sve, s, ve)
  PROVE  OneMore(sve, sv, e)
<1>1. PICK o \in Seq(S) : o = <<e>>
  <2>1. <<e>> \in Seq(S)
    OBVIOUS
  <2> QED
    BY <2>1
<1>2. ve = v \o o
  BY <1>1, AppendIsConcat DEF OneMore
<1>3. sv \in Seq(S)
  BY ConcatProperties DEF Together
<1>4. Append(sv, e) = sv \o o
  BY <1>1, <1>3, AppendIsConcat
<1>5. (s \o v) \o o = s \o (v \o o)
  BY ConcatAssociative
<1> QED
  BY <1>2, <1>4, <1>5 DEF OneMore, Together

LEMMA Regrouped ==
  ASSUME NEW S, NEW a \in Seq(S), NEW b \in Seq(S), NEW c \in Seq(S), NEW ab, NEW bc, NEW abc,
         Together(ab, a, b), Together(bc, b, c), Together(abc, ab, c)
  PROVE  Together(abc, a, bc)
<1>1. (a \o b) \o c = a \o (b \o c)
  BY ConcatAssociative
<1> QED
  BY <1>1 DEF Together

LEMMA TimesTogether ==
  ASSUME NEW S, NEW s \in Seq(S), NEW u \in Seq(S), NEW x, NEW su, Together(su, s, u)
  PROVE  Times(x, su) = Times(x, s) + Times(x, u)
<1>1. Times(x, s \o u) = Times(x, s) + Times(x, u)
  BY TimesConcat
<1> QED
  BY <1>1 DEF Together

-----------------------------------------------------------------------------
(* The sequences G[e] of the elements e of s, one behind the other.        *)

Gathered(G, s) == FlattenSeq(Mapped(G, s))

\* Nothing is gathered from nothing.
LEMMA GatheredEmpty == ASSUME NEW G PROVE Gathered(G, <<>>) = <<>>
<1>1. Mapped(G, <<>>) = <<>>
  BY DEF Mapped
<1>2. <<>> \in Seq(Seq(Nat))
  OBVIOUS
<1> QED
  BY <1>1, <1>2, FlattenSeqType DEF Gathered

\* One more element adds its sequence at the end.
LEMMA GatheredAppend ==
  ASSUME NEW S, NEW T, NEW G \in [S -> Seq(T)], NEW s \in Seq(S), NEW e \in S,
         NEW long, OneMore(long, s, e)
  PROVE  /\ Gathered(G, s) \in Seq(T) /\ Gathered(G, long) \in Seq(T) /\ G[e] \in Seq(T)
         /\ Together(Gathered(G, long), Gathered(G, s), G[e])
<1>1. G[e] \in Seq(T)
  OBVIOUS
<1>2. PICK U : U = Seq(T)
  OBVIOUS
<1>3. G \in [S -> U]
  BY <1>2
<1>5. Mapped(G, s) \in Seq(U) /\ OneMore(Mapped(G, long), Mapped(G, s), G[e])
  BY <1>3, MapAppend
<1>6. PICK ss \in Seq(Seq(T)) : ss = Mapped(G, s)
  BY <1>2, <1>5
<1>7. /\ FlattenSeq(Append(ss, G[e])) = FlattenSeq(ss) \o G[e]
      /\ FlattenSeq(ss) \in Seq(T)
  BY <1>1, FlattenSeqAppend, FlattenSeqType
<1>8. Gathered(G, s) = FlattenSeq(ss) /\ Gathered(G, long) = FlattenSeq(Append(ss, G[e]))
  BY <1>5, <1>6 DEF Gathered, OneMore
<1>9. FlattenSeq(ss) \o G[e] \in Seq(T)
  BY <1>1, <1>7, ConcatProperties
<1> QED
  BY <1>1, <1>7, <1>8, <1>9 DEF Together

\* What is gathered is a sequence.
LEMMA GatheredType ==
  ASSUME NEW S, NEW T, NEW G \in [S -> Seq(T)], NEW s \in Seq(S)
  PROVE  Gathered(G, s) \in Seq(T)
<1>1. CASE s = <<>>
  <2>1. <<>> \in Seq(T)
    BY EmptySeq
  <2> QED
    BY <1>1, <2>1, GatheredEmpty
<1>2. CASE s # <<>>
  <2>1. PICK e \in S : TRUE
    BY <1>2, FrontAndLast
  <2>2. PICK long : OneMore(long, s, e)
    BY DEF OneMore
  <2> QED
    BY <2>2, GatheredAppend
<1> QED
  BY <1>1, <1>2

\* What a concatenation gathers is what its parts gather.
LEMMA GatheredConcat ==
  ASSUME NEW S, NEW T, NEW G \in [S -> Seq(T)], NEW s \in Seq(S), NEW u \in Seq(S),
         NEW su, Together(su, s, u)
  PROVE  Together(Gathered(G, su), Gathered(G, s), Gathered(G, u))
<1> DEFINE P == {v \in Seq(S) : \A sv : Together(sv, s, v) =>
                    Together(Gathered(G, sv), Gathered(G, s), Gathered(G, v))}
<1>0. Gathered(G, s) \in Seq(T)
  BY GatheredType
<1>1. <<>> \in P
  <2> SUFFICES ASSUME NEW sv, Together(sv, s, <<>>)
               PROVE  Together(Gathered(G, sv), Gathered(G, s), Gathered(G, <<>>))
    BY EmptySeq
  <2>1. sv = s
    BY ConcatEmptySeq DEF Together
  <2>2. Gathered(G, <<>>) = <<>>
    BY GatheredEmpty
  <2> QED
    BY <1>0, <2>1, <2>2, ConcatEmptySeq DEF Together
<1>2. ASSUME NEW v \in Seq(S), NEW e \in S, v \in P PROVE Append(v, e) \in P
  <2>1. PICK ve \in Seq(S) : ve = Append(v, e) /\ OneMore(ve, v, e)
    BY AppendProperties DEF OneMore
  <2> SUFFICES ASSUME NEW sve, Together(sve, s, ve)
               PROVE  Together(Gathered(G, sve), Gathered(G, s), Gathered(G, ve))
    BY <2>1
  <2>2. PICK sv \in Seq(S) : Together(sv, s, v)
    BY ConcatProperties DEF Together
  <2>3. OneMore(sve, sv, e)
    BY <2>1, <2>2, OneMoreTogether
  <2>4. /\ Together(Gathered(G, sve), Gathered(G, sv), G[e])
        /\ Gathered(G, sv) \in Seq(T) /\ G[e] \in Seq(T)
    BY <2>2, <2>3, GatheredAppend
  <2>5. Together(Gathered(G, ve), Gathered(G, v), G[e])
    BY <2>1, GatheredAppend
  <2>6. Together(Gathered(G, sv), Gathered(G, s), Gathered(G, v))
    BY <1>2, <2>2
  <2>7. Gathered(G, v) \in Seq(T)
    BY GatheredType
  <2> QED
    BY <1>0, <2>4, <2>5, <2>6, <2>7, Regrouped
<1>3. Inductive(P, S)
  BY <1>1, <1>2 DEF Inductive
<1> HIDE DEF P
<1>4. u \in P
  BY <1>3, SequenceInduction
<1> QED
  BY <1>4 DEF P

\* From elements that yield nothing, nothing is gathered.
LEMMA NothingGathered ==
  ASSUME NEW S, NEW T, NEW G \in [S -> Seq(T)], NEW R \in SUBSET S, \A e \in R : G[e] = <<>>
  PROVE  \A s \in Seq(R) : Gathered(G, s) = <<>>
<1> DEFINE P == {s \in Seq(R) : Gathered(G, s) = <<>>}
<1>1. <<>> \in P
  BY GatheredEmpty, EmptySeq
<1>2. ASSUME NEW s \in Seq(R), NEW e \in R, s \in P PROVE Append(s, e) \in P
  <2>1. PICK long \in Seq(R) : long = Append(s, e) /\ OneMore(long, s, e)
    BY AppendProperties DEF OneMore
  <2>2. s \in Seq(S) /\ e \in S
    OBVIOUS
  <2>3. Together(Gathered(G, long), Gathered(G, s), G[e])
    BY <2>1, <2>2, GatheredAppend
  <2>4. Gathered(G, s) = <<>> /\ G[e] = <<>>
    BY <1>2
  <2>5. Together(Gathered(G, long), <<>>, <<>>)
    BY <2>3, <2>4
  <2>6. Gathered(G, long) = <<>>
    BY <2>5, EmptySeq, ConcatEmptySeq DEF Together
  <2> QED
    BY <2>1, <2>6
<1>3. Inductive(P, R)
  BY <1>1, <1>2 DEF Inductive
<1> HIDE DEF P
<1>4. \A s \in Seq(R) : s \in P
  BY <1>3, SequenceInduction
<1> QED
  BY <1>4 DEF P

\* The functions H[w] share out what G yields: each element to one w.
Shares(H, G, W, S, T) ==
  /\ G \in [S -> Seq(T)] /\ H \in [W -> [S -> Seq(T)]]
  /\ \A e \in S : \E w \in W : H[w][e] = G[e] /\ \A v \in W \ {w} : H[v][e] = <<>>
Portions(H, s) == [w \in DOMAIN H |-> Gathered(H[w], s)]

\* Then what the H[w] gather is, taken together, what G gathers.
LEMMA GatheredShared ==
  ASSUME NEW W, IsFiniteSet(W), NEW S, NEW T, NEW G, NEW H, Shares(H, G, W, S, T), NEW x
  PROVE  \A s \in Seq(S) : Times(x, Gathered(G, s)) = Among(x, Portions(H, s))
<1> DEFINE P == {s \in Seq(S) : Times(x, Gathered(G, s)) = Among(x, Portions(H, s))}
<1>0. G \in [S -> Seq(T)] /\ H \in [W -> [S -> Seq(T)]] /\ DOMAIN H = W
  BY DEF Shares
<1>1. <<>> \in P
  <2>1. \A w \in DOMAIN Portions(H, <<>>) : Portions(H, <<>>)[w] = <<>>
    BY GatheredEmpty DEF Portions
  <2>2. Among(x, Portions(H, <<>>)) = 0
    BY <2>1, AmongEmpty
  <2>3. Times(x, Gathered(G, <<>>)) = 0
    BY GatheredEmpty, TimesEmpty
  <2> QED
    BY <2>2, <2>3, EmptySeq
<1>2. ASSUME NEW s \in Seq(S), NEW e \in S, s \in P PROVE Append(s, e) \in P
  <2>0. PICK long \in Seq(S) : long = Append(s, e) /\ OneMore(long, s, e)
    BY AppendProperties DEF OneMore
  <2>1. PICK w \in W : H[w][e] = G[e] /\ \A v \in W \ {w} : H[v][e] = <<>>
    BY DEF Shares
  <2>2. PICK g \in Seq(T) : g = G[e]
    BY <1>0
  <2>3. PICK ss : ss = Portions(H, s) /\ SeqFamily(ss, W, T)
    <3>1. PICK q : q = Portions(H, s)
      OBVIOUS
    <3>2. \A v \in W : Gathered(H[v], s) \in Seq(T)
      BY <1>0, GatheredType
    <3>3. q = [v \in W |-> Gathered(H[v], s)]
      BY <1>0, <3>1 DEF Portions
    <3>4. q \in [W -> Seq(T)]
      BY <3>2, <3>3
    <3> QED
      BY <3>1, <3>4 DEF SeqFamily
  <2>4. PICK uu : uu = Portions(H, long) /\ SeqFamily(uu, W, T)
    <3>1. PICK q : q = Portions(H, long)
      OBVIOUS
    <3>2. \A v \in W : Gathered(H[v], long) \in Seq(T)
      BY <1>0, GatheredType
    <3>3. q = [v \in W |-> Gathered(H[v], long)]
      BY <1>0, <3>1 DEF Portions
    <3>4. q \in [W -> Seq(T)]
      BY <3>2, <3>3
    <3> QED
      BY <3>1, <3>4 DEF SeqFamily
  <2>5. ASSUME NEW v \in W
        PROVE  ss[v] \in Seq(T) /\ H[v][e] \in Seq(T) /\ Together(uu[v], ss[v], H[v][e])
    <3>1. ss[v] = Gathered(H[v], s) /\ uu[v] = Gathered(H[v], long) /\ H[v] \in [S -> Seq(T)]
      BY <1>0, <2>3, <2>4 DEF Portions
    <3>2. /\ Gathered(H[v], s) \in Seq(T) /\ H[v][e] \in Seq(T)
          /\ Together(Gathered(H[v], long), Gathered(H[v], s), H[v][e])
      BY <2>0, <3>1, GatheredAppend
    <3> QED
      BY <3>1, <3>2
  <2>6. Together(uu[w], ss[w], g) /\ ss[w] \in Seq(T)
    BY <2>1, <2>2, <2>5
  <2>7. AlikeBut(ss, uu, W, w)
    <3> SUFFICES ASSUME NEW v \in W \ {w} PROVE ss[v] = uu[v]
      BY DEF AlikeBut
    <3>1. Together(uu[v], ss[v], <<>>) /\ ss[v] \in Seq(T)
      BY <2>1, <2>5
    <3> QED
      BY <3>1, ConcatEmptySeq DEF Together
  <2>8. Among(x, uu) + Times(x, ss[w]) = Among(x, ss) + Times(x, uu[w])
    BY <2>3, <2>4, <2>7, AmongChange
  <2>9. Times(x, uu[w]) = Times(x, ss[w]) + Times(x, g)
    BY <2>6, TimesTogether
  <2>10. Times(x, Gathered(G, long)) = Times(x, Gathered(G, s)) + Times(x, g)
    <3>1. Gathered(G, s) \in Seq(T) /\ Together(Gathered(G, long), Gathered(G, s), g)
      BY <1>0, <2>0, <2>2, GatheredAppend
    <3> QED
      BY <3>1, TimesTogether
  <2>11. Times(x, Gathered(G, s)) = Among(x, ss)
    BY <1>2, <2>3
  <2>12. PICK a \in Nat, b \in Nat, c \in Nat, d \in Nat :
           a = Among(x, ss) /\ b = Among(x, uu) /\ c = Times(x, ss[w]) /\ d = Times(x, g)
    <3>1. ss \in [W -> Seq(T)] /\ uu \in [W -> Seq(T)]
      BY <2>3, <2>4 DEF SeqFamily
    <3>2. Among(x, ss) \in Nat /\ Among(x, uu) \in Nat
      BY <3>1, AmongType
    <3>3. Times(x, ss[w]) \in Nat /\ Times(x, g) \in Nat
      BY <2>6, TimesType
    <3> QED
      BY <3>2, <3>3
  <2>13. b + c = a + (c + d) => b = a + d
    OBVIOUS
  <2>14. Times(x, Gathered(G, long)) = Among(x, uu)
    BY <2>8, <2>9, <2>10, <2>11, <2>12, <2>13
  <2> QED
    BY <2>0, <2>4, <2>14
<1>3. Inductive(P, S)
  BY <1>1, <1>2 DEF Inductive
<1> HIDE DEF P
<1>4. \A s \in Seq(S) : s \in P
  BY <1>3, SequenceInduction
<1> QED
  BY <1>4 DEF P

\* What holds of the empty sequence, and of the first k sequences together if it does
\* of the first k - 1, holds of the concatenation of all.
LEMMA FlattenSeqInduction ==
  ASSUME NEW S, NEW ss \in Seq(Seq(S)), NEW Q, <<>> \in Q[0],
         \A k \in 1 .. Len(ss) : \A s \in Seq(S) : s \in Q[k - 1] => s \o ss[k] \in Q[k]
  PROVE  FlattenSeq(ss) \in Seq(S) /\ FlattenSeq(ss) \in Q[Len(ss)]
<1>1. FlattenSeq(ss) \in Seq(S) /\ (ss = <<>> => FlattenSeq(ss) = <<>>)
  BY FlattenSeqType
<1>2. CASE Len(ss) = 0
  <2>1. ss = <<>>
    BY <1>2, EmptySeq
  <2>2. FlattenSeq(ss) = <<>>
    BY <1>1, <2>1
  <2> QED
    BY <1>1, <1>2, <2>2
<1>3. CASE Len(ss) # 0
  <2>1. PICK n \in Nat : n = Len(ss) /\ n # 0
    BY <1>3, LenProperties
  <2>2. PICK f \in [1 .. n -> Seq(S)] : Flattens(f, ss, n) /\ FlattenSeq(ss) = f[n]
    BY <1>3, <2>1, FlattenSeqIs
  <2>3. \A k \in 1 .. n : f[k] = IF k = 1 THEN ss[k] ELSE f[k - 1] \o ss[k]
    BY <2>2 DEF Flattens
  <2> DEFINE P == {k \in Nat : k + 1 \in 1 .. n => f[k + 1] \in Q[k + 1]}
  <2>4. 0 \in P
    <3>1. 1 \in 1 .. n /\ ss[1] \in Seq(S) /\ <<>> \in Seq(S) /\ f[1] = ss[1]
      <4>1. 1 \in 1 .. n /\ 1 \in 1 .. Len(ss)
        BY <2>1
      <4>2. ss[1] \in Seq(S)
        BY <4>1, ElementOfSeq
      <4> QED
        BY <2>3, <4>1, <4>2, EmptySeq
    <3>2. <<>> \o ss[1] = ss[1]
      BY <3>1, ConcatEmptySeq
    <3>3. <<>> \o ss[1] \in Q[1]
      <4>1. 1 \in 1 .. Len(ss) /\ <<>> \in Q[1 - 1]
        BY <2>1
      <4> QED
        BY <3>1, <4>1
    <3> QED
      BY <3>1, <3>2, <3>3
  <2>5. ASSUME NEW k \in Nat, k \in P PROVE k + 1 \in P
    <3> SUFFICES ASSUME (k + 1) + 1 \in 1 .. n PROVE f[(k + 1) + 1] \in Q[(k + 1) + 1]
      OBVIOUS
    <3> DEFINE j == (k + 1) + 1
    <3>1. j \in 1 .. n /\ j # 1 /\ j - 1 = k + 1 /\ k + 1 \in 1 .. n
      BY <2>1
    <3>2. f[k + 1] \in Q[k + 1] /\ f[k + 1] \in Seq(S)
      BY <2>5, <3>1
    <3> HIDE DEF j
    <3>3. f[j] = f[k + 1] \o ss[j]
      BY <2>3, <3>1
    <3>4. f[k + 1] \o ss[j] \in Q[j]
      BY <2>1, <3>1, <3>2
    <3>5. f[j] \in Q[j]
      BY <3>3, <3>4
    <3> QED
      BY <3>5 DEF j
  <2> HIDE DEF P
  <2>6. Nat \subseteq P
    BY <2>4, <2>5, NumberInduction
  <2>7. n - 1 \in P /\ (n - 1) + 1 = n /\ n \in 1 .. n
    BY <2>1, <2>6
  <2>8. f[n] \in Q[n]
    BY <2>7 DEF P
  <2> QED
    BY <1>1, <2>1, <2>2, <2>8
<1> QED
  BY <1>2, <1>3

-----------------------------------------------------------------------------
(* Counting the elements of a sequence that are in a set.                  *)

Marked(S, s) == [i \in DOMAIN s |-> s[i] \in S]

LEMMA HitsMarked ==
  ASSUME NEW V, NEW s \in Seq(V), NEW S
  PROVE  /\ Marked(S, s) \in Seq(BOOLEAN) /\ Len(Marked(S, s)) = Len(s)
         /\ DOMAIN Marked(S, s) = 1 .. Len(s)
         /\ \A i \in 1 .. Len(s) : Marked(S, s)[i] <=> s[i] \in S
         /\ Hits(S, s) = Times(TRUE, Marked(S, s)) /\ Hits(S, s) \in Nat
<1> DEFINE n == Len(s)
<1>1. n \in Nat /\ DOMAIN s = 1 .. n
  BY LenProperties
<1>2. Marked(S, s) \in [1 .. n -> BOOLEAN]
  BY <1>1 DEF Marked
<1>3. Marked(S, s) \in Seq(BOOLEAN)
  BY <1>1, <1>2
<1>4. DOMAIN Marked(S, s) = 1 .. Len(Marked(S, s)) /\ Len(Marked(S, s)) \in Nat
      /\ DOMAIN Marked(S, s) = 1 .. n
  BY <1>2, <1>3, LenProperties
<1>5. Len(Marked(S, s)) = n
  <2> DEFINE k == Len(Marked(S, s))
  <2>1. k \in Nat /\ n \in Nat /\ 1 .. k = 1 .. n
    BY <1>1, <1>4
  <2> HIDE DEF k, n
  <2>2. k = n
    BY <2>1
  <2> QED
    BY <2>2 DEF k, n
<1>6. \A i \in 1 .. n : Marked(S, s)[i] <=> s[i] \in S
  BY <1>1 DEF Marked
<1>7. {i \in DOMAIN s : s[i] \in S} = Places(TRUE, Marked(S, s))
  <2>1. \A i \in 1 .. n : s[i] \in S <=> Marked(S, s)[i] = TRUE
    BY <1>2, <1>6
  <2> QED
    BY <1>1, <1>4, <2>1 DEF Places
<1> QED
  BY <1>3, <1>4, <1>5, <1>6, <1>7, TimesType DEF Hits, Times

LEMMA HitsEmpty == ASSUME NEW S PROVE Hits(S, <<>>) = 0
<1>1. {i \in DOMAIN <<>> : <<>>[i] \in S} = {}
  OBVIOUS
<1> QED
  BY <1>1, FS_EmptySet DEF Hits

\* The first element counts if it is in the set.
LEMMA HitsTail ==
  ASSUME NEW V, NEW s \in Seq(V), s # <<>>, NEW S
  PROVE  /\ Tail(s) \in Seq(V) /\ Hits(S, Tail(s)) \in Nat
         /\ Hits(S, s) = Hits(S, Tail(s)) + (IF Head(s) \in S THEN 1 ELSE 0)
<1> DEFINE n == Len(s)
           m == Marked(S, s)
           t == Marked(S, Tail(s))
<1>1. n \in Nat \ {0} /\ Tail(s) \in Seq(V) /\ Len(Tail(s)) = n - 1
      /\ \A i \in 1 .. n - 1 : Tail(s)[i] = s[i + 1]
  <2>1. n \in Nat /\ n # 0
    BY LenProperties, EmptySeq
  <2> QED
    BY <2>1, HeadTailProperties
<1>2. Head(s) = s[1]
  OBVIOUS
<1>3. /\ m \in Seq(BOOLEAN) /\ Len(m) = n
      /\ \A i \in 1 .. n : m[i] <=> s[i] \in S
      /\ Hits(S, s) = Times(TRUE, m)
  BY HitsMarked
<1>4. /\ t \in Seq(BOOLEAN) /\ Len(t) = n - 1
      /\ \A i \in 1 .. n - 1 : t[i] <=> Tail(s)[i] \in S
      /\ Hits(S, Tail(s)) = Times(TRUE, t) /\ Hits(S, Tail(s)) \in Nat
  BY <1>1, HitsMarked
<1> HIDE DEF m, t, n
<1>5. m # <<>>
  BY <1>1, <1>3, EmptySeq
<1>6. Tail(m) \in Seq(BOOLEAN) /\ Len(Tail(m)) = n - 1 /\ \A i \in 1 .. n - 1 : Tail(m)[i] = m[i + 1]
  BY <1>1, <1>3, <1>5, HeadTailProperties
<1>7. ASSUME NEW i \in 1 .. n - 1 PROVE Tail(m)[i] = t[i]
  <2>1. i + 1 \in 1 .. n
    BY <1>1
  <2>2. m[i + 1] \in BOOLEAN /\ t[i] \in BOOLEAN
    BY <1>1, <1>3, <1>4, <2>1, ElementOfSeq
  <2> QED
    BY <1>1, <1>3, <1>4, <1>6, <2>1, <2>2
<1>8. Tail(m) = t
  BY <1>4, <1>6, <1>7, SeqEqual
<1>9. Head(m) = m[1] /\ m[1] \in BOOLEAN /\ (m[1] <=> s[1] \in S)
  BY <1>1, <1>3, <1>5, ElementOfSeq
<1>10. Times(TRUE, m) = Times(TRUE, Tail(m)) + (IF Head(m) = TRUE THEN 1 ELSE 0)
  BY <1>3, <1>5, TimesTail
<1>11. Head(m) = TRUE <=> Head(s) \in S
  BY <1>2, <1>9
<1> QED
  BY <1>1, <1>3, <1>4, <1>8, <1>10, <1>11

LEMMA HitsConcat ==
  ASSUME NEW V, NEW s \in Seq(V), NEW u \in Seq(V), NEW S
  PROVE  Hits(S, s \o u) = Hits(S, s) + Hits(S, u)
<1> DEFINE n == Len(s)
           k == Len(u)
           a == Marked(S, s)
           b == Marked(S, u)
           c == Marked(S, s \o u)
<1>1. /\ n \in Nat /\ k \in Nat /\ s \o u \in Seq(V) /\ Len(s \o u) = n + k
      /\ \A i \in 1 .. n + k : (s \o u)[i] = IF i <= n THEN s[i] ELSE u[i - n]
  BY LenProperties, ConcatProperties
<1>2. /\ a \in Seq(BOOLEAN) /\ Len(a) = n
      /\ \A i \in 1 .. n : a[i] <=> s[i] \in S
      /\ Hits(S, s) = Times(TRUE, a)
  BY HitsMarked
<1>3. /\ b \in Seq(BOOLEAN) /\ Len(b) = k
      /\ \A i \in 1 .. k : b[i] <=> u[i] \in S
      /\ Hits(S, u) = Times(TRUE, b)
  BY HitsMarked
<1>4. /\ c \in Seq(BOOLEAN) /\ Len(c) = n + k
      /\ \A i \in 1 .. n + k : c[i] <=> (s \o u)[i] \in S
      /\ Hits(S, s \o u) = Times(TRUE, c)
  BY <1>1, HitsMarked
<1> HIDE DEF a, b, c, n, k
<1>5. /\ a \o b \in Seq(BOOLEAN) /\ Len(a \o b) = n + k
      /\ \A i \in 1 .. n + k : (a \o b)[i] = IF i <= n THEN a[i] ELSE b[i - n]
  <2>1. /\ a \o b \in Seq(BOOLEAN) /\ Len(a \o b) = Len(a) + Len(b)
        /\ \A i \in 1 .. Len(a) + Len(b) : (a \o b)[i] = IF i <= Len(a) THEN a[i] ELSE b[i - Len(a)]
    BY <1>2, <1>3, ConcatProperties
  <2> QED
    BY <1>2, <1>3, <2>1
<1>6. ASSUME NEW i \in 1 .. n + k PROVE (a \o b)[i] = c[i]
  <2>1. c[i] \in BOOLEAN /\ (a \o b)[i] \in BOOLEAN
    BY <1>4, <1>5, ElementOfSeq
  <2>2. CASE i <= n
    <3>1. i \in 1 .. n
      BY <1>1, <2>2
    <3>2. (a \o b)[i] = a[i] /\ (s \o u)[i] = s[i]
      BY <1>1, <1>5, <2>2
    <3>3. (c[i] <=> (s \o u)[i] \in S) /\ (a[i] <=> s[i] \in S)
      BY <1>2, <1>4, <3>1
    <3> QED
      BY <2>1, <3>2, <3>3
  <2>3. CASE ~ i <= n
    <3>1. PICK j \in 1 .. k : j = i - n
      BY <1>1, <2>3, i - n \in 1 .. k
    <3>2. (a \o b)[i] = b[j] /\ (s \o u)[i] = u[j]
      BY <1>1, <1>5, <2>3, <3>1
    <3>3. (c[i] <=> (s \o u)[i] \in S) /\ (b[j] <=> u[j] \in S)
      BY <1>3, <1>4
    <3> QED
      BY <2>1, <3>2, <3>3
  <2> QED
    BY <2>2, <2>3
<1>7. a \o b = c
  BY <1>4, <1>5, <1>6, SeqEqual
<1> QED
  BY <1>2, <1>3, <1>4, <1>7, TimesConcat

\* Where at most one element of a sequence is in a set.
LEMMA HitsOne ==
  ASSUME NEW s, NEW S
  PROVE  /\ (\A i \in DOMAIN s : s[i] \notin S) => Hits(S, s) = 0
         /\ \A i \in DOMAIN s :
              s[i] \in S /\ (\A j \in DOMAIN s : s[j] \in S => j = i) => Hits(S, s) = 1
<1>1. ASSUME \A i \in DOMAIN s : s[i] \notin S PROVE Hits(S, s) = 0
  <2>1. {i \in DOMAIN s : s[i] \in S} = {}
    BY <1>1
  <2> QED
    BY <2>1, FS_EmptySet DEF Hits
<1>2. ASSUME NEW i \in DOMAIN s, s[i] \in S, \A j \in DOMAIN s : s[j] \in S => j = i
      PROVE  Hits(S, s) = 1
  <2>1. {j \in DOMAIN s : s[j] \in S} = {i}
    BY <1>2
  <2> QED
    BY <2>1, FS_Singleton DEF Hits
<1> QED
  BY <1>1, <1>2

-----------------------------------------------------------------------------
(* Sums.  A result counts with one unit for each of what it stands for.    *)

Results(n) == [1 .. n -> Int]
Units(r) == Pairs([i \in DOMAIN r |-> 1 .. r[i]])

LEMMA UnitsAre ==
  ASSUME NEW n \in Nat, NEW r \in Results(n)
  PROVE  /\ IsFiniteSet(Units(r)) /\ PositiveSum(r) = Cardinality(Units(r)) /\ PositiveSum(r) \in Nat
         /\ \A z : z \in Units(r) <=> z = <<z[1], z[2]>> /\ z[1] \in 1 .. n /\ z[2] \in 1 .. r[z[1]]
<1> DEFINE P == [i \in 1 .. n |-> 1 .. r[i]]
<1>1. DOMAIN r = 1 .. n /\ \A i \in 1 .. n : r[i] \in Int
  BY DEF Results
<1>2. Units(r) = Pairs(P) /\ PositiveSum(r) = Total(P)
  BY <1>1 DEF Units, PositiveSum
<1>3. IsFiniteSet(1 .. n) /\ P \in [1 .. n -> SUBSET Int] /\ \A i \in 1 .. n : IsFiniteSet(P[i])
  BY <1>1, FS_Interval
<1>4. \A z : z \in Pairs(P) <=> z = <<z[1], z[2]>> /\ z[1] \in 1 .. n /\ z[2] \in 1 .. r[z[1]]
  BY DEF Pairs
<1> HIDE DEF P
<1>5. IsFiniteSet(Pairs(P)) /\ Total(P) \in Nat
  BY <1>3, TotalType
<1> QED
  BY <1>2, <1>4, <1>5 DEF Total, Pairs

\* Nothing but failures sums up to nothing.
LEMMA SumNone ==
  ASSUME NEW n \in Nat, NEW r \in Results(n), \A i \in 1 .. n : r[i] <= 0
  PROVE  PositiveSum(r) = 0
<1>1. \A z : z \notin Units(r)
  BY UnitsAre DEF Results
<1>2. Units(r) = {}
  BY <1>1
<1> QED
  BY <1>2, UnitsAre, FS_EmptySet

\* The sum of h + s results is that of the first h and that of those of the last s that
\* are no failures, in whatever order g they come.
Picks(g, b, r, h, s, m) ==
  /\ g \in [1 .. m -> 1 .. s]
  /\ \A i, j \in 1 .. m : g[i] = g[j] => i = j
  /\ \A i \in 1 .. m : b[i] = r[h + g[i]]
  /\ \A k \in 1 .. s : (\E i \in 1 .. m : g[i] = k) \/ r[h + k] <= 0
LEMMA SumSplit ==
  ASSUME NEW h \in Nat, NEW s \in Nat, NEW m \in Nat, NEW r \in Results(h + s),
         NEW a \in Results(h), \A i \in 1 .. h : a[i] = r[i],
         NEW b \in Results(m), NEW g, Picks(g, b, r, h, s, m)
  PROVE  PositiveSum(r) = PositiveSum(a) + PositiveSum(b)
<1> DEFINE Late == {z \in Units(r) : z[1] > h}
           f == [z \in Units(b) |-> <<h + g[z[1]], z[2]>>]
<1>1. /\ h + s \in Nat
      /\ \A z : z \in Units(r) <=> z = <<z[1], z[2]>> /\ z[1] \in 1 .. h + s /\ z[2] \in 1 .. r[z[1]]
      /\ IsFiniteSet(Units(r)) /\ PositiveSum(r) = Cardinality(Units(r))
  BY UnitsAre
<1>2. /\ \A z : z \in Units(a) <=> z = <<z[1], z[2]>> /\ z[1] \in 1 .. h /\ z[2] \in 1 .. a[z[1]]
      /\ IsFiniteSet(Units(a)) /\ PositiveSum(a) = Cardinality(Units(a))
  BY UnitsAre
<1>3. /\ \A z : z \in Units(b) <=> z = <<z[1], z[2]>> /\ z[1] \in 1 .. m /\ z[2] \in 1 .. b[z[1]]
      /\ IsFiniteSet(Units(b)) /\ PositiveSum(b) = Cardinality(Units(b))
  BY UnitsAre
<1>4. ASSUME NEW z \in Units(b)
      PROVE  /\ z[1] \in 1 .. m /\ g[z[1]] \in 1 .. s /\ h + g[z[1]] \in 1 .. h + s
             /\ h + g[z[1]] > h /\ z[2] \in 1 .. r[h + g[z[1]]] /\ z = <<z[1], z[2]>>
  BY <1>3 DEF Picks
<1>5. \A z \in Units(b) : f[z] = <<h + g[z[1]], z[2]>> /\ f[z] \in Late
  BY <1>1, <1>4
<1>6. f \in [Units(b) -> Late]
  BY <1>5
<1>7. ASSUME NEW y \in Units(b), NEW z \in Units(b), f[y] = f[z] PROVE y = z
  <2>1. h + g[y[1]] = h + g[z[1]] /\ y[2] = z[2]
    BY <1>5, <1>7
  <2>2. g[y[1]] = g[z[1]]
    BY <1>4, <2>1
  <2>3. y[1] = z[1]
    BY <1>4, <2>2 DEF Picks
  <2> QED
    BY <1>4, <2>1, <2>3
<1>8. ASSUME NEW y \in Late PROVE \E z \in Units(b) : f[z] = y
  <2>1. y = <<y[1], y[2]>> /\ y[1] \in 1 .. h + s /\ y[1] > h /\ y[2] \in 1 .. r[y[1]]
    BY <1>1
  <2>2. PICK k \in 1 .. s : h + k = y[1]
    BY <2>1, y[1] - h \in 1 .. s, h + (y[1] - h) = y[1]
  <2>3. ~ r[h + k] <= 0
    BY <2>1, <2>2 DEF Results
  <2>4. PICK i \in 1 .. m : g[i] = k
    BY <2>3 DEF Picks
  <2>5. b[i] = r[y[1]]
    BY <2>2, <2>4 DEF Picks
  <2>6. <<i, y[2]>> \in Units(b)
    BY <1>3, <2>1, <2>5
  <2>7. f[<<i, y[2]>>] = y
    BY <1>5, <2>1, <2>2, <2>4, <2>6
  <2> QED
    BY <2>6, <2>7
<1> HIDE DEF f, Late
<1>9. f \in Bijection(Units(b), Late)
  BY <1>6, <1>7, <1>8 DEF Injection, IsInjective, Surjection, Bijection
<1>10. IsFiniteSet(Late) /\ Cardinality(Late) = PositiveSum(b)
  BY <1>3, <1>9, FS_Bijection DEF ExistsBijection
<1>11. Units(r) = Units(a) \cup Late /\ Units(a) \cap Late = {}
  <2>1. ASSUME NEW z PROVE z \in Units(r) <=> z \in Units(a) \/ z \in Late
    BY <1>1, <1>2 DEF Late
  <2>2. \A z \in Units(a) : ~ z[1] > h
    BY <1>2
  <2>3. Units(a) \cap Late = {}
    BY <2>2 DEF Late
  <2> QED
    BY <2>1, <2>3
<1> QED
  <2>1. Cardinality(Units(a) \cup Late)
          = Cardinality(Units(a)) + Cardinality(Late) - Cardinality(Units(a) \cap Late)
    BY <1>2, <1>10, FS_Union
  <2>2. Cardinality(Units(a) \cap Late) = 0
    BY <1>11, FS_EmptySet
  <2>3. PositiveSum(a) \in Nat /\ PositiveSum(b) \in Nat
    BY UnitsAre
  <2> QED
    BY <1>1, <1>2, <1>10, <1>11, <2>1, <2>2, <2>3

-----------------------------------------------------------------------------
(* Parts of sequences, and of numbers.                                     *)

\* The elements of a concatenation, and of what follows the first element.
LEMMA PartsOfConcat ==
  ASSUME NEW V, NEW s \in Seq(V), NEW u \in Seq(V)
  PROVE  /\ s \o u \in Seq(V)
         /\ \A i \in DOMAIN (s \o u) : \/ \E j \in DOMAIN s : (s \o u)[i] = s[j]
                                       \/ \E j \in DOMAIN u : (s \o u)[i] = u[j]
<1>1. /\ s \o u \in Seq(V) /\ Len(s \o u) = Len(s) + Len(u)
      /\ Len(s) \in Nat /\ Len(u) \in Nat
      /\ \A i \in 1 .. Len(s) + Len(u) : (s \o u)[i] = IF i <= Len(s) THEN s[i] ELSE u[i - Len(s)]
      /\ DOMAIN (s \o u) = 1 .. Len(s) + Len(u)
      /\ DOMAIN s = 1 .. Len(s) /\ DOMAIN u = 1 .. Len(u)
  BY LenProperties, ConcatProperties
<1> SUFFICES ASSUME NEW i \in DOMAIN (s \o u)
             PROVE  \/ \E j \in DOMAIN s : (s \o u)[i] = s[j]
                    \/ \E j \in DOMAIN u : (s \o u)[i] = u[j]
  BY <1>1
<1>2. CASE i <= Len(s)
  BY <1>1, <1>2
<1>3. CASE ~ i <= Len(s)
  <2>1. i - Len(s) \in DOMAIN u
    BY <1>1, <1>3
  <2> QED
    BY <1>1, <1>3, <2>1
<1> QED
  BY <1>2, <1>3

LEMMA PartsOfTail ==
  ASSUME NEW V, NEW s \in Seq(V), s # <<>>
  PROVE  /\ Tail(s) \in Seq(V) /\ Head(s) \in V /\ 1 \in DOMAIN s /\ Head(s) = s[1]
         /\ \A i \in DOMAIN Tail(s) : i + 1 \in DOMAIN s /\ Tail(s)[i] = s[i + 1]
<1>1. Len(s) \in Nat /\ Len(s) # 0 /\ DOMAIN s = 1 .. Len(s)
  BY LenProperties, EmptySeq
<1>2. /\ Tail(s) \in Seq(V) /\ Len(Tail(s)) = Len(s) - 1 /\ DOMAIN Tail(s) = 1 .. Len(s) - 1
      /\ \A i \in 1 .. Len(s) - 1 : Tail(s)[i] = s[i + 1]
  BY <1>1, HeadTailProperties, LenProperties
<1>3. Head(s) = s[1] /\ 1 \in 1 .. Len(s) /\ s[1] \in V
  BY <1>1, ElementOfSeq
<1> QED
  BY <1>1, <1>2, <1>3

\* A concatenation, part by part.
LEMMA ConcatBegin ==
  ASSUME NEW S, NEW s \in Seq(S), NEW u \in Seq(S), NEW x, \E i \in DOMAIN s : s[i] = x
  PROVE  s \o u \in Seq(S) /\ \E j \in DOMAIN (s \o u) : (s \o u)[j] = x
<1>1. /\ s \o u \in Seq(S) /\ DOMAIN (s \o u) = 1 .. Len(s) + Len(u)
      /\ Len(s) \in Nat /\ Len(u) \in Nat /\ DOMAIN s = 1 .. Len(s) /\ DOMAIN u = 1 .. Len(u)
  BY ConcatProperties, LenProperties
<1>2. PICK i \in DOMAIN s : s[i] = x
  OBVIOUS
<1>3. i \in 1 .. Len(s) + Len(u) /\ i <= Len(s)
  BY <1>1
<1>4. (s \o u)[i] = x
  BY <1>1, <1>2, <1>3, ConcatProperties
<1> QED
  BY <1>1, <1>3, <1>4

LEMMA ConcatEnd ==
  ASSUME NEW S, NEW s \in Seq(S), NEW u \in Seq(S), NEW x, \E i \in DOMAIN u : u[i] = x
  PROVE  s \o u \in Seq(S) /\ \E j \in DOMAIN (s \o u) : (s \o u)[j] = x
<1>1. /\ s \o u \in Seq(S) /\ DOMAIN (s \o u) = 1 .. Len(s) + Len(u)
      /\ Len(s) \in Nat /\ Len(u) \in Nat /\ DOMAIN s = 1 .. Len(s) /\ DOMAIN u = 1 .. Len(u)
  BY ConcatProperties, LenProperties
<1>2. PICK i \in DOMAIN u : u[i] = x
  OBVIOUS
<1>3. Len(s) + i \in 1 .. Len(s) + Len(u) /\ ~ Len(s) + i <= Len(s) /\ Len(s) + i - Len(s) = i
  BY <1>1
<1>4. (s \o u)[Len(s) + i] = x
  BY <1>1, <1>2, <1>3, ConcatProperties
<1> QED
  BY <1>1, <1>3, <1>4

\* A multiple of a number leaves no rest.
LEMMA Multiples ==
  ASSUME NEW n \in Nat \ {0}, NEW k \in Int
  PROVE  (k * n) % n = 0
<1>1. (k * n) \in Int
  OBVIOUS
<1> DEFINE x == k * n
<1>2. /\ x % n \in 0 .. n - 1 /\ x \div n \in Int
      /\ x = n * (x \div n) + (x % n)
  BY <1>1
<1>3. PICK q \in Int, r \in 0 .. n - 1 : q = x \div n /\ r = x % n /\ k * n = n * q + r
  BY <1>2
<1> HIDE DEF x
<1>4. (k - q) * n = r
  <2>1. (k - q) * n = k * n - q * n /\ n * q = q * n /\ k * n \in Int /\ q * n \in Int
    BY <1>3
  <2> QED
    BY <1>3, <2>1
<1>5. k - q = 0
  <2> DEFINE c == k - q
  <2>0. c \in Int /\ c * n = r
    BY <1>3, <1>4
  <2> HIDE DEF c
  <2>1. CASE c >= 1
    <3>1. c * n = n + (c - 1) * n /\ (c - 1) * n \in Nat
      BY <2>0, <2>1
    <3> QED
      BY <1>3, <2>0, <3>1
  <2>2. CASE c <= -1
    <3>1. c * n = -n - (-1 - c) * n /\ (-1 - c) * n \in Nat
      BY <2>0, <2>2
    <3> QED
      BY <1>3, <2>0, <3>1
  <2> QED
    BY <2>0, <2>1, <2>2 DEF c
<1>6. r = 0
  <2>1. 0 * n = 0
    OBVIOUS
  <2> QED
    BY <1>4, <1>5, <2>1
<1> QED
  BY <1>3, <1>6 DEF x

\* Of k * q + r things the first u of k sharers take so many if each takes q and the first
\* r of them one more: more sharers do not take less, and together they take everything.
PartEnd(u, q, r) == u * q + (IF u < r THEN u ELSE r)
LEMMA PartsGrow ==
  ASSUME NEW q \in Nat, NEW r \in Nat, NEW v \in Nat, NEW w \in Nat, v <= w
  PROVE  PartEnd(v, q, r) \in Nat /\ PartEnd(w, q, r) \in Nat /\ PartEnd(v, q, r) <= PartEnd(w, q, r)
<1>1. w * q = v * q + (w - v) * q /\ (w - v) * q \in Nat /\ v * q \in Nat /\ w * q \in Nat
  OBVIOUS
<1>2. PICK a \in Nat, b \in Nat : a = v * q /\ b = w * q /\ a <= b
  BY <1>1
<1>3. PartEnd(v, q, r) = a + (IF v < r THEN v ELSE r) /\ PartEnd(w, q, r) = b + (IF w < r THEN w ELSE r)
  BY <1>2 DEF PartEnd
<1> QED
  BY <1>2, <1>3

LEMMA PartsCover ==
  ASSUME NEW k \in Nat \ {0}, NEW q \in Nat, NEW r \in 0 .. k - 1, NEW n, n = k * q + r, NEW i \in 1 .. n
  PROVE  \E w \in 1 .. k : PartEnd(w - 1, q, r) < i /\ i <= PartEnd(w, q, r)
<1>1. n \in Nat /\ i \in Nat \ {0} /\ i <= n
  <2>1. k * q \in Nat
    OBVIOUS
  <2> QED
    BY <2>1
<1>2. q \in Nat /\ r \in Nat /\ r < k /\ n = k * q + r
  OBVIOUS
<1>3. \A u \in Int : PartEnd(u, q, r) = u * q + (IF u < r THEN u ELSE r)
  BY DEF PartEnd
<1>4. CASE i <= r * (q + 1)
  <2> DEFINE d == (i - 1) \div (q + 1)
             e == (i - 1) % (q + 1)
  <2>1. d \in Nat /\ e \in 0 .. q /\ i - 1 = (q + 1) * d + e
    <3> DEFINE s == q + 1
               j == i - 1
    <3>1. s \in Nat \ {0} /\ j \in Nat /\ s - 1 = q
      BY <1>1, <1>2
    <3>2. d = j \div s /\ e = j % s
      OBVIOUS
    <3> HIDE DEF s, j, d, e
    <3>3. d \in Nat /\ e \in 0 .. s - 1 /\ j = s * d + e
      BY <3>1, <3>2
    <3>4. j = (q + 1) * d + e
      BY <3>3 DEF s
    <3> QED
      BY <3>1, <3>3, <3>4 DEF j
  <2> HIDE DEF d, e
  <2>2. d < r
    <3>1. SUFFICES ASSUME d >= r PROVE FALSE
      BY <1>2, <2>1
    <3>2. (q + 1) * d = (q + 1) * r + (q + 1) * (d - r) /\ (q + 1) * (d - r) \in Nat
      BY <1>2, <2>1, <3>1
    <3> QED
      BY <1>1, <1>2, <1>4, <2>1, <3>2
  <2>3. d + 1 \in 1 .. k /\ (d + 1) - 1 = d
    BY <1>1, <1>2, <2>1, <2>2
  <2>4. PartEnd(d, q, r) = d * q + d /\ PartEnd(d + 1, q, r) = (d + 1) * q + (d + 1)
    <3>1. d \in Int /\ d + 1 \in Int /\ d < r /\ (IF d + 1 < r THEN d + 1 ELSE r) = d + 1
      BY <1>2, <2>1, <2>2
    <3> QED
      BY <1>3, <3>1
  <2>5. (q + 1) * d = d * q + d /\ (d + 1) * q = d * q + q /\ d * q \in Nat
    BY <1>2, <2>1
  <2>6. PartEnd(d, q, r) < i /\ i <= PartEnd(d + 1, q, r)
    BY <1>1, <1>2, <2>1, <2>4, <2>5
  <2> QED
    BY <2>3, <2>6
<1>5. CASE ~ i <= r * (q + 1)
  <2> DEFINE j == i - r * (q + 1)
  <2>1. j \in Nat \ {0} /\ r * (q + 1) \in Nat /\ r * (q + 1) = r * q + r /\ r * q \in Nat
    BY <1>1, <1>2, <1>5
  <2>2. k * q = r * q + (k - r) * q /\ (k - r) * q \in Nat
    BY <1>1, <1>2
  <2>3. i = j + r * q + r /\ j <= (k - r) * q
    BY <1>1, <1>2, <2>1, <2>2
  <2> HIDE DEF j
  <2>4. q # 0
    <3>1. q = 0 => (k - r) * q = 0
      BY <1>1, <1>2
    <3> QED
      BY <2>1, <2>3, <3>1
  <2> DEFINE d == (j - 1) \div q
             e == (j - 1) % q
  <2>5. d \in Nat /\ e \in 0 .. q - 1 /\ j - 1 = q * d + e
    BY <1>2, <2>1, <2>4
  <2> HIDE DEF d, e
  <2>6. d < k - r
    <3>1. SUFFICES ASSUME d >= k - r PROVE FALSE
      BY <1>1, <1>2, <2>5
    <3> DEFINE c == k - r
    <3>2. c \in Nat /\ d >= c
      BY <1>1, <1>2, <3>1
    <3> HIDE DEF c
    <3>3. q * d = c * q + q * (d - c) /\ q * (d - c) \in Nat /\ c * q \in Nat
      BY <1>2, <2>5, <3>2
    <3>4. j <= c * q
      BY <2>3 DEF c
    <3> QED
      BY <1>2, <2>1, <2>5, <3>3, <3>4
  <2> DEFINE u == r + d
  <2>7. u + 1 \in 1 .. k /\ (u + 1) - 1 = u /\ u \in Nat /\ ~ u < r /\ ~ u + 1 < r
    BY <1>1, <1>2, <2>5, <2>6
  <2>8. u * q = r * q + q * d /\ (u + 1) * q = u * q + q
    BY <1>2, <2>5
  <2> HIDE DEF u
  <2>9. PartEnd(u, q, r) = u * q + r /\ PartEnd(u + 1, q, r) = (u + 1) * q + r
    <3>1. PICK x \in Int : x = u + 1 /\ ~ x < r
      BY <2>7
    <3>2. PartEnd(u, q, r) = u * q + r /\ PartEnd(x, q, r) = x * q + r
      BY <2>7, <3>1 DEF PartEnd
    <3> QED
      BY <3>1, <3>2
  <2>10. q * d \in Nat
    BY <1>2, <2>5
  <2>11. PartEnd(u, q, r) < i /\ i <= PartEnd(u + 1, q, r)
    BY <1>1, <1>2, <2>1, <2>3, <2>5, <2>8, <2>9, <2>10
  <2> QED
    BY <2>7, <2>11
<1> QED
  BY <1>4, <1>5
=============================================================================
