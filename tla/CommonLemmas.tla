---------------------------- MODULE CommonLemmas ----------------------------
(***************************************************************************)
(* Lemmas that several components' proofs rest on: about the sequences the *)
(* run queues keep, the task list (RemoveFirst and Cons of SequencesExt)   *)
(* and the ordered timeline of Timeline; about the sums over what they     *)
(* hold; about the circular scan of a mask; and about the groups of a      *)
(* scheduling domain and their ring.                                       *)
(***************************************************************************)
EXTENDS Timeline, SchedDomains, NaturalsInduction, SequenceTheorems,
        FiniteSetTheorems, WellFoundedInduction, TLAPS

\* Min of the community modules is a choice: there is something to choose.
LEMMA MinNat ==
    ASSUME NEW I \in SUBSET Nat, I # {}
    PROVE  Min(I) \in I /\ \A j \in I : Min(I) <= j
<1>1. \E x \in I : \A y \in I : x <= y
  <2> DEFINE R == {ss \in Nat \X Nat : ss[1] < ss[2]}
  <2>1. OpToRel(<, Nat) = R BY Zenon DEF OpToRel
  <2>2. PICK x \in I : \A y \in I : ~(<<y, x>> \in R)
    BY <2>1, NatLessThanWellFounded, WFMin, ZenonT(30)
  <2>3. \A y \in I : ~(y < x) BY <2>2
  <2> QED BY <2>3
<1> QED BY <1>1 DEF Min

\* Taking an element out of a list, or adding one in front, leaves a list.
LEMMA RemoveFirstType ==
    ASSUME NEW S, NEW q \in Seq(S), NEW e
    PROVE  RemoveFirst(q, e) \in Seq(S)
<1> DEFINE I == {i \in 1 .. Len(q) : q[i] = e}
<1>1. CASE \E i \in 1 .. Len(q) : q[i] = e
  <2>1. I # {} /\ I \in SUBSET Nat BY <1>1
  <2>2. Min(I) \in 1 .. Len(q) BY <2>1, MinNat
  <2>3. RemoveFirst(q, e) = RemoveAt(q, Min(I))
    BY <1>1, <2>1 DEF RemoveFirst, SelectInSeq
  <2> HIDE DEF I
  <2>4. SubSeq(q, 1, Min(I) - 1) \in Seq(S) BY <2>2, SubSeqProperties
  <2>5. SubSeq(q, Min(I) + 1, Len(q)) \in Seq(S) BY <2>2, SubSeqProperties
  <2> QED BY <2>3, <2>4, <2>5, ConcatProperties DEF RemoveAt
<1>2. CASE ~\E i \in 1 .. Len(q) : q[i] = e BY <1>2 DEF RemoveFirst
<1> QED BY <1>1, <1>2

LEMMA ConsType ==
    ASSUME NEW S, NEW q \in Seq(S), NEW e \in S
    PROVE  Cons(e, q) \in Seq(S)
<1>1. <<e>> \in Seq(S) OBVIOUS
<1> QED BY <1>1, ConcatProperties DEF Cons

-----------------------------------------------------------------------------
(* A task list that holds a task once: what is in it, and how long it is.  *)

\* Nobody is in the list when its length is zero, and only then.
LEMMA EmptyElements ==
    ASSUME NEW S, NEW q \in Seq(S) PROVE Len(q) = 0 <=> ToSet(q) = {}
<1>1. Len(q) \in Nat /\ DOMAIN q = 1 .. Len(q) OBVIOUS
<1>2. ToSet(q) = {q[i] : i \in 1 .. Len(q)} BY <1>1 DEF ToSet
<1>3. ASSUME Len(q) = 0 PROVE ToSet(q) = {} BY <1>2, <1>3
<1>4. ASSUME Len(q) # 0 PROVE ToSet(q) # {}
  <2>1. 1 \in 1 .. Len(q) BY <1>1, <1>4
  <2> QED BY <1>2, <2>1
<1> QED BY <1>3, <1>4

\* Something new in front.
LEMMA ConsElements ==
    ASSUME NEW S, NEW q \in Seq(S), NEW e \in S
    PROVE  /\ Len(Cons(e, q)) = Len(q) + 1
           /\ ToSet(Cons(e, q)) = ToSet(q) \cup {e}
           /\ IsInjective(q) /\ e \notin ToSet(q) => IsInjective(Cons(e, q))
<1> DEFINE r == Cons(e, q)
<1>1. <<e>> \in Seq(S) /\ Len(<<e>>) = 1 /\ <<e>>[1] = e OBVIOUS
<1>2. /\ r \in Seq(S) /\ Len(r) = Len(q) + 1
      /\ \A i \in 1 .. Len(q) + 1 : r[i] = IF i <= 1 THEN e ELSE q[i - 1]
  <2>1. /\ r \in Seq(S) /\ Len(r) = Len(<<e>>) + Len(q)
        /\ \A i \in 1 .. Len(<<e>>) + Len(q) :
              r[i] = IF i <= Len(<<e>>) THEN <<e>>[i] ELSE q[i - Len(<<e>>)]
    BY <1>1, ConcatProperties DEF Cons
  <2>2. Len(q) \in Nat OBVIOUS
  <2>3. r \in Seq(S) /\ Len(r) = Len(q) + 1 BY <1>1, <2>1, <2>2
  <2>4. ASSUME NEW i \in 1 .. Len(q) + 1
        PROVE  r[i] = IF i <= 1 THEN e ELSE q[i - 1]
    <3>1. i \in 1 .. Len(<<e>>) + Len(q) BY <1>1, <2>2
    <3>2. r[i] = IF i <= 1 THEN <<e>>[i] ELSE q[i - 1] BY <1>1, <2>1, <3>1
    <3>3. i <= 1 => i = 1 BY <2>2
    <3> QED BY <1>1, <3>2, <3>3
  <2> QED BY <2>3, <2>4
<1> HIDE DEF r
<1>3. /\ Len(q) \in Nat /\ DOMAIN q = 1 .. Len(q) /\ DOMAIN r = 1 .. Len(q) + 1
  BY <1>2
<1>4. ToSet(r) = ToSet(q) \cup {e}
  <2>1. ASSUME NEW x \in ToSet(r) PROVE x \in ToSet(q) \cup {e}
    <3>1. PICK i \in 1 .. Len(q) + 1 : x = r[i] BY <1>3 DEF ToSet
    <3>2. i > 1 => i - 1 \in 1 .. Len(q) BY <1>3
    <3> QED BY <1>2, <1>3, <3>1, <3>2 DEF ToSet
  <2>2. e \in ToSet(r)
    <3>1. 1 \in 1 .. Len(q) + 1 /\ r[1] = e BY <1>2, <1>3
    <3> QED BY <1>3, <3>1 DEF ToSet
  <2>3. ASSUME NEW x \in ToSet(q) PROVE x \in ToSet(r)
    <3>1. PICK i \in 1 .. Len(q) : x = q[i] BY <1>3 DEF ToSet
    <3>2. i + 1 \in 1 .. Len(q) + 1 /\ r[i + 1] = q[i] BY <1>2, <1>3
    <3> QED BY <1>3, <3>1, <3>2 DEF ToSet
  <2> QED BY <2>1, <2>2, <2>3
<1>5. ASSUME IsInjective(q), e \notin ToSet(q) PROVE IsInjective(r)
  <2>1. \A i \in 1 .. Len(q) : q[i] # e BY <1>3, <1>5 DEF ToSet
  <2>2. ASSUME NEW i \in 1 .. Len(q) + 1, NEW j \in 1 .. Len(q) + 1, r[i] = r[j]
        PROVE  i = j
    <3>1. CASE i = 1
      <4>1. r[i] = e BY <1>2, <1>3, <3>1
      <4>2. j > 1 => j - 1 \in 1 .. Len(q) /\ r[j] = q[j - 1] BY <1>2, <1>3
      <4> QED BY <1>3, <2>1, <2>2, <3>1, <4>1, <4>2
    <3>2. CASE j = 1
      <4>1. r[j] = e BY <1>2, <1>3, <3>2
      <4>2. i > 1 => i - 1 \in 1 .. Len(q) /\ r[i] = q[i - 1] BY <1>2, <1>3
      <4> QED BY <1>3, <2>1, <2>2, <3>2, <4>1, <4>2
    <3>3. CASE i # 1 /\ j # 1
      <4>1. i - 1 \in 1 .. Len(q) /\ j - 1 \in 1 .. Len(q) BY <1>3, <3>3
      <4>2. r[i] = q[i - 1] /\ r[j] = q[j - 1] BY <1>2, <1>3, <3>3
      <4>3. i - 1 = j - 1 BY <1>3, <1>5, <2>2, <4>1, <4>2 DEF IsInjective
      <4> QED BY <4>3
    <3> QED BY <3>1, <3>2, <3>3
  <2> QED BY <1>3, <2>2 DEF IsInjective
<1> QED BY <1>2, <1>4, <1>5 DEF r

\* The places of a list that a task is taken out of.
LEMMA RemoveFirstPlaces ==
    ASSUME NEW S, NEW q \in Seq(S), NEW e \in ToSet(q)
    PROVE  LET r == RemoveFirst(q, e)
           IN  \E m \in 1 .. Len(q) :
                 /\ q[m] = e
                 /\ r \in Seq(S) /\ Len(r) = Len(q) - 1
                 /\ \A i \in 1 .. Len(q) - 1 : r[i] = IF i < m THEN q[i] ELSE q[i + 1]
<1> DEFINE I == {i \in 1 .. Len(q) : q[i] = e}
           m == Min(I)
           a == SubSeq(q, 1, m - 1)
           b == SubSeq(q, m + 1, Len(q))
<1>1. Len(q) \in Nat /\ DOMAIN q = 1 .. Len(q) OBVIOUS
<1>2. I # {} /\ I \in SUBSET Nat BY <1>1 DEF ToSet
<1>3. m \in 1 .. Len(q) /\ q[m] = e BY <1>2, MinNat
<1>4. RemoveFirst(q, e) = a \o b
  BY <1>1, <1>2 DEF RemoveFirst, SelectInSeq, RemoveAt
<1> HIDE DEF I, m
<1>5. /\ a \in Seq(S) /\ Len(a) = m - 1
      /\ \A i \in 1 .. m - 1 : a[i] = q[i]
  <2>1. /\ a \in Seq(S) /\ Len(a) = IF 1 <= m - 1 THEN m - 1 - 1 + 1 ELSE 0
        /\ \A i \in 1 .. m - 1 - 1 + 1 : a[i] = q[1 + i - 1]
    BY <1>1, <1>3, SubSeqProperties
  <2> HIDE DEF a
  <2> QED BY <1>1, <1>3, <2>1
<1>6. /\ b \in Seq(S) /\ Len(b) = Len(q) - m
      /\ \A i \in 1 .. Len(q) - m : b[i] = q[m + i]
  <2>1. /\ b \in Seq(S)
        /\ Len(b) = IF m + 1 <= Len(q) THEN Len(q) - (m + 1) + 1 ELSE 0
        /\ \A i \in 1 .. Len(q) - (m + 1) + 1 : b[i] = q[m + 1 + i - 1]
    BY <1>1, <1>3, SubSeqProperties
  <2> HIDE DEF b
  <2>2. Len(b) = Len(q) - m
    <3>1. \A n \in Nat : \A k \in 1 .. n :
            (IF k + 1 <= n THEN n - (k + 1) + 1 ELSE 0) = n - k
      OBVIOUS
    <3> QED BY ONLY <1>1, <1>3, <2>1, <3>1
  <2>3. ASSUME NEW i \in 1 .. Len(q) - m PROVE b[i] = q[m + i]
    <3>1. i \in 1 .. Len(q) - (m + 1) + 1 /\ m + 1 + i - 1 = m + i BY <1>1, <1>3
    <3> QED BY <2>1, <3>1
  <2> QED BY <2>1, <2>2, <2>3
<1> HIDE DEF a, b
<1>7. /\ a \o b \in Seq(S) /\ Len(a \o b) = Len(a) + Len(b)
      /\ \A i \in 1 .. Len(a) + Len(b) :
            (a \o b)[i] = IF i <= Len(a) THEN a[i] ELSE b[i - Len(a)]
  BY <1>5, <1>6, ConcatProperties
<1>8. Len(a) + Len(b) = Len(q) - 1 BY <1>1, <1>3, <1>5, <1>6
<1>9. ASSUME NEW i \in 1 .. Len(q) - 1
      PROVE  (a \o b)[i] = IF i < m THEN q[i] ELSE q[i + 1]
  <2>1. (a \o b)[i] = IF i <= Len(a) THEN a[i] ELSE b[i - Len(a)] BY <1>7, <1>8
  <2>2. CASE i < m BY <1>1, <1>3, <1>5, <2>1, <2>2
  <2>3. CASE ~(i < m)
    <3>1. i - (m - 1) \in 1 .. Len(q) - m /\ m + (i - (m - 1)) = i + 1
      BY <1>1, <1>3, <2>3
    <3>2. b[i - (m - 1)] = q[i + 1] BY <1>6, <3>1
    <3> QED BY <1>1, <1>3, <1>5, <2>1, <2>3, <3>2
  <2> QED BY <2>2, <2>3
<1> QED BY <1>3, <1>4, <1>7, <1>8, <1>9

\* Out of a list that holds a task once, the task goes altogether.
LEMMA RemoveFirstElements ==
    ASSUME NEW S, NEW q \in Seq(S), NEW e \in ToSet(q), IsInjective(q)
    PROVE  /\ Len(RemoveFirst(q, e)) = Len(q) - 1
           /\ ToSet(RemoveFirst(q, e)) = ToSet(q) \ {e}
           /\ IsInjective(RemoveFirst(q, e))
<1> DEFINE r == RemoveFirst(q, e)
<1>1. PICK m \in 1 .. Len(q) :
        /\ q[m] = e
        /\ r \in Seq(S) /\ Len(r) = Len(q) - 1
        /\ \A i \in 1 .. Len(q) - 1 : r[i] = IF i < m THEN q[i] ELSE q[i + 1]
  BY RemoveFirstPlaces
<1> HIDE DEF r
<1>2. Len(q) \in Nat /\ DOMAIN q = 1 .. Len(q) /\ DOMAIN r = 1 .. Len(q) - 1
  BY <1>1
<1>3. \A i, j \in 1 .. Len(q) : q[i] = q[j] => i = j BY <1>2 DEF IsInjective
<1>4. ASSUME NEW i \in 1 .. Len(q) - 1
      PROVE  \E j \in 1 .. Len(q) : j # m /\ r[i] = q[j] /\ j = IF i < m THEN i ELSE i + 1
  BY <1>1, <1>2
<1>5. ToSet(r) = ToSet(q) \ {e}
  <2>1. ASSUME NEW x \in ToSet(r) PROVE x \in ToSet(q) \ {e}
    <3>1. PICK i \in 1 .. Len(q) - 1 : x = r[i] BY <1>2 DEF ToSet
    <3>2. PICK j \in 1 .. Len(q) : j # m /\ r[i] = q[j] BY <1>4
    <3> QED BY <1>1, <1>2, <1>3, <3>1, <3>2 DEF ToSet
  <2>2. ASSUME NEW x \in ToSet(q) \ {e} PROVE x \in ToSet(r)
    <3>1. PICK j \in 1 .. Len(q) : x = q[j] /\ j # m BY <1>1, <1>2 DEF ToSet
    <3>2. CASE j < m
      <4>1. j \in 1 .. Len(q) - 1 /\ r[j] = q[j] BY <1>1, <1>2, <3>2
      <4> QED BY <1>2, <3>1, <4>1 DEF ToSet
    <3>3. CASE j > m
      <4>1. j - 1 \in 1 .. Len(q) - 1 /\ ~(j - 1 < m) /\ j - 1 + 1 = j
        BY <1>1, <1>2, <3>3
      <4>2. r[j - 1] = q[j] BY <1>1, <4>1
      <4> QED BY <1>2, <3>1, <4>1, <4>2 DEF ToSet
    <3> QED BY <3>1, <3>2, <3>3
  <2> QED BY <2>1, <2>2
<1>6. ASSUME NEW i \in 1 .. Len(q) - 1, NEW j \in 1 .. Len(q) - 1, r[i] = r[j]
      PROVE  i = j
  <2>1. PICK k \in 1 .. Len(q) : r[i] = q[k] /\ k = IF i < m THEN i ELSE i + 1 BY <1>4
  <2>2. PICK l \in 1 .. Len(q) : r[j] = q[l] /\ l = IF j < m THEN j ELSE j + 1 BY <1>4
  <2>3. k = l BY <1>3, <1>6, <2>1, <2>2
  <2> QED BY <2>1, <2>2, <2>3
<1>7. IsInjective(r) BY <1>2, <1>6 DEF IsInjective
<1> QED BY <1>1, <1>5, <1>7 DEF r

\* A task of the list goes to the front: the list holds the same tasks.
LEMMA FrontElements ==
    ASSUME NEW S, NEW q \in Seq(S), NEW e \in ToSet(q), IsInjective(q)
    PROVE  LET r == Cons(e, RemoveFirst(q, e))
           IN  Len(r) = Len(q) /\ ToSet(r) = ToSet(q) /\ IsInjective(r)
<1> DEFINE p == RemoveFirst(q, e)
<1>1. e \in S BY DEF ToSet
<1>2. p \in Seq(S) BY RemoveFirstType
<1>3. Len(p) = Len(q) - 1 /\ ToSet(p) = ToSet(q) \ {e} /\ IsInjective(p)
  BY RemoveFirstElements
<1> HIDE DEF p
<1>4. /\ Len(Cons(e, p)) = Len(p) + 1 /\ ToSet(Cons(e, p)) = ToSet(p) \cup {e}
      /\ IsInjective(p) /\ e \notin ToSet(p) => IsInjective(Cons(e, p))
  BY <1>1, <1>2, ConsElements
<1>5. Len(q) \in Nat OBVIOUS
<1>6. Len(Cons(e, p)) = Len(q) BY <1>3, <1>4, <1>5
<1>7. ToSet(Cons(e, p)) = ToSet(q) /\ IsInjective(Cons(e, p)) BY <1>3, <1>4
<1> QED BY <1>6, <1>7 DEF p

\* The first task is taken off.
LEMMA TailElements ==
    ASSUME NEW S, NEW q \in Seq(S), q # << >>, IsInjective(q)
    PROVE  /\ Head(q) \in ToSet(q)
           /\ ToSet(Tail(q)) = ToSet(q) \ {Head(q)}
           /\ IsInjective(Tail(q))
<1> DEFINE r == Tail(q)
<1>1. /\ Len(q) \in Nat \ {0} /\ DOMAIN q = 1 .. Len(q) /\ Head(q) = q[1]
      /\ r \in Seq(S) /\ Len(r) = Len(q) - 1
      /\ \A i \in 1 .. Len(q) - 1 : r[i] = q[i + 1]
  BY HeadTailProperties
<1> HIDE DEF r
<1>2. DOMAIN r = 1 .. Len(q) - 1 BY <1>1
<1>3. \A i, j \in 1 .. Len(q) : q[i] = q[j] => i = j BY <1>1 DEF IsInjective
<1>4. Head(q) \in ToSet(q) BY <1>1 DEF ToSet
<1>5. ASSUME NEW x \in ToSet(r) PROVE x \in ToSet(q) \ {Head(q)}
  <2>1. PICK i \in 1 .. Len(q) - 1 : x = r[i] BY <1>2, <1>5 DEF ToSet
  <2>2. i + 1 \in 1 .. Len(q) /\ i + 1 # 1 /\ x = q[i + 1] BY <1>1, <2>1
  <2>3. 1 \in 1 .. Len(q) BY <1>1
  <2> QED BY <1>1, <1>3, <2>2, <2>3 DEF ToSet
<1>6. ASSUME NEW x \in ToSet(q) \ {Head(q)} PROVE x \in ToSet(r)
  <2>1. PICK i \in 1 .. Len(q) : x = q[i] /\ i # 1 BY <1>1, <1>6 DEF ToSet
  <2>2. i - 1 \in 1 .. Len(q) - 1 /\ i - 1 + 1 = i BY <1>1, <2>1
  <2>3. r[i - 1] = q[i] BY <1>1, <2>2
  <2> QED BY <1>2, <2>1, <2>2, <2>3 DEF ToSet
<1>7. ASSUME NEW i \in 1 .. Len(q) - 1, NEW j \in 1 .. Len(q) - 1, r[i] = r[j]
      PROVE  i = j
  <2>1. i + 1 \in 1 .. Len(q) /\ j + 1 \in 1 .. Len(q) BY <1>1
  <2>2. i + 1 = j + 1 BY <1>1, <1>3, <1>7, <2>1
  <2> QED BY <2>2
<1>8. IsInjective(r) BY <1>2, <1>7 DEF IsInjective
<1> QED BY <1>4, <1>5, <1>6, <1>8 DEF r

-----------------------------------------------------------------------------
(* The ordered timeline.                                                   *)

\* There always is a place for a new key: behind everything that does not
\* compare above it and in front of the first one that does.
LEMMA RankOfPlace ==
    ASSUME NEW S, NEW q \in Seq(S), NEW k, NEW key
    PROVE  LET n == RankOf(q, k, key)
           IN  /\ n \in 0 .. Len(q)
               /\ \A i \in 1 .. n : ~ULess(k, key[q[i]])
               /\ n = Len(q) \/ ULess(k, key[q[n + 1]])
<1> DEFINE P(n) == /\ \A i \in 1 .. n : ~ULess(k, key[q[i]])
                   /\ n = Len(q) \/ ULess(k, key[q[n + 1]])
           I    == {i \in 1 .. Len(q) : ULess(k, key[q[i]])}
<1>1. \E n \in 0 .. Len(q) : P(n)
  <2>1. CASE I = {} BY <2>1
  <2>2. CASE I # {}
    <3>1. I \in SUBSET Nat OBVIOUS
    <3>2. PICK m \in I : \A j \in I : m <= j BY <2>2, <3>1, MinNat
    <3>3. m - 1 \in 0 .. Len(q) /\ (m - 1) + 1 = m OBVIOUS
    <3>4. ASSUME NEW i \in 1 .. m - 1 PROVE ~ULess(k, key[q[i]])
      <4>1. i \in 1 .. Len(q) /\ ~(m <= i) OBVIOUS
      <4> QED BY <3>2, <4>1
    <3> QED BY <3>3, <3>4
  <2> QED BY <2>1, <2>2
<1>2. RankOf(q, k, key) = CHOOSE n \in 0 .. Len(q) : P(n) BY DEF RankOf
<1> HIDE DEF P
<1>3. LET n == RankOf(q, k, key) IN n \in 0 .. Len(q) /\ P(n) BY <1>1, <1>2
<1> QED BY <1>3 DEF P

\* The timelines of a set of entities are closed under the operations.
LEMMA OrderedInsertType ==
    ASSUME NEW C, NEW S, NEW tl \in [C -> Seq(S)], NEW c \in C, NEW e \in S, NEW key
    PROVE  OrderedInsert(tl, c, e, key) \in [C -> Seq(S)]
<1> DEFINE q == tl[c]
           n == RankOf(q, key[e], key)
           r == [i \in 1 .. Len(q) + 1 |-> IF i <= n THEN q[i]
                                           ELSE IF i = n + 1 THEN e ELSE q[i - 1]]
<1>1. q \in Seq(S) OBVIOUS
<1>2. n \in 0 .. Len(q) BY <1>1, RankOfPlace
<1> HIDE DEF n, q
<1>3. r \in Seq(S)
  <2>1. Len(q) \in Nat BY <1>1
  <2>2. ASSUME NEW i \in 1 .. Len(q) + 1 PROVE r[i] \in S
    <3>1. CASE i <= n BY <1>1, <1>2, <3>1
    <3>2. CASE i = n + 1 BY <1>2, <3>2
    <3>3. CASE i > n + 1
      <4>1. i - 1 \in 1 .. Len(q) BY <1>2, <2>1, <3>3
      <4> QED BY <1>1, <1>2, <3>3, <4>1
    <3> QED BY <1>2, <3>1, <3>2, <3>3
  <2> QED BY <2>1, <2>2
<1> QED BY <1>3 DEF OrderedInsert, n, q

LEMMA OrderedEraseType ==
    ASSUME NEW C, NEW S, NEW tl \in [C -> Seq(S)], NEW c \in C, NEW e
    PROVE  OrderedErase(tl, c, e) \in [C -> Seq(S)]
<1> DEFINE q  == tl[c]
           at == CHOOSE i \in 1 .. Len(q) : q[i] = e
           r  == [i \in 1 .. Len(q) - 1 |-> IF i < at THEN q[i] ELSE q[i + 1]]
<1>1. q \in Seq(S) /\ Len(q) \in Nat OBVIOUS
<1>2. CASE \E i \in 1 .. Len(q) : q[i] = e
  <2>1. at \in 1 .. Len(q) BY <1>2
  <2> HIDE DEF at, q
  <2>2. ASSUME NEW i \in 1 .. Len(q) - 1 PROVE r[i] \in S
    BY <1>1, <2>1
  <2>3. Len(q) - 1 \in Nat BY <1>1, <2>1
  <2>4. r \in Seq(S) BY <2>2, <2>3
  <2> QED BY <1>2, <2>4 DEF OrderedErase, at, q
<1>3. CASE ~\E i \in 1 .. Len(q) : q[i] = e BY <1>3 DEF OrderedErase
<1> QED BY <1>2, <1>3

\* What an insertion or an erasure leaves at a place was at a place before it,
\* and two places hold what two places held.
LEMMA InsertPlaces ==
    ASSUME NEW C, NEW S, NEW tl \in [C -> Seq(S)], NEW c \in C, NEW e \in S, NEW k
    PROVE  LET r == OrderedInsert(tl, c, e, k)[c]
               n == RankOf(tl[c], k[e], k)
           IN  /\ Len(r) = Len(tl[c]) + 1
               /\ n \in 0 .. Len(tl[c])
               /\ \A i \in 1 .. Len(r) :
                      /\ i <= n => i \in 1 .. Len(tl[c]) /\ r[i] = tl[c][i]
                      /\ i = n + 1 => r[i] = e
                      /\ i > n + 1 => i - 1 \in 1 .. Len(tl[c]) /\ r[i] = tl[c][i - 1]
               /\ \A d \in C \ {c} : OrderedInsert(tl, c, e, k)[d] = tl[d]
<1> DEFINE q == tl[c]
           n == RankOf(q, k[e], k)
           r == [i \in 1 .. Len(q) + 1 |-> IF i <= n THEN q[i]
                                           ELSE IF i = n + 1 THEN e ELSE q[i - 1]]
<1>1. q \in Seq(S) /\ Len(q) \in Nat OBVIOUS
<1>2. OrderedInsert(tl, c, e, k)[c] = r BY DEF OrderedInsert
<1>3. \A d \in C \ {c} : OrderedInsert(tl, c, e, k)[d] = tl[d] BY DEF OrderedInsert
<1>4. n \in 0 .. Len(q) BY <1>1, RankOfPlace
<1> HIDE DEF n, q
<1>5. Len(r) = Len(q) + 1 BY <1>1
<1>6. ASSUME NEW i \in 1 .. Len(q) + 1
      PROVE  /\ i <= n => i \in 1 .. Len(q) /\ r[i] = q[i]
             /\ i = n + 1 => r[i] = e
             /\ i > n + 1 => i - 1 \in 1 .. Len(q) /\ r[i] = q[i - 1]
  BY <1>1, <1>4
<1> HIDE DEF r
<1>7. /\ Len(r) = Len(q) + 1
      /\ n \in 0 .. Len(q)
      /\ \A i \in 1 .. Len(r) :
             /\ i <= n => i \in 1 .. Len(q) /\ r[i] = q[i]
             /\ i = n + 1 => r[i] = e
             /\ i > n + 1 => i - 1 \in 1 .. Len(q) /\ r[i] = q[i - 1]
  BY <1>4, <1>5, <1>6
<1> QED BY <1>2, <1>3, <1>7 DEF n, q

\* No entity of q is in front of one with a smaller key.
SortedBy(q, k) == \A i, j \in 1 .. Len(q) : i < j => ~ULess(k[q[j]], k[q[i]])

\* ULess is a total order.
LEMMA ULessTotalOrder ==
    ASSUME NEW a \in ULong, NEW b \in ULong, NEW d \in ULong
    PROVE  /\ ~ULess(a, a)
           /\ ~ULess(b, a) /\ ~ULess(d, b) => ~ULess(d, a)
           /\ ULess(a, b) => ~ULess(b, a)
BY DEF ULess, ULong

\* The place of an insertion keeps the order.
LEMMA InsertSorted ==
    ASSUME NEW C, NEW S, NEW tl \in [C -> Seq(S)], NEW c \in C, NEW e \in S,
           NEW k \in [S -> ULong], SortedBy(tl[c], k)
    PROVE  SortedBy(OrderedInsert(tl, c, e, k)[c], k)
<1> DEFINE q == tl[c]
           n == RankOf(q, k[e], k)
           r == [i \in 1 .. Len(q) + 1 |-> IF i <= n THEN q[i]
                                           ELSE IF i = n + 1 THEN e ELSE q[i - 1]]
<1>1. q \in Seq(S) /\ Len(q) \in Nat OBVIOUS
<1>2. OrderedInsert(tl, c, e, k)[c] = r BY DEF OrderedInsert
<1>3. /\ n \in 0 .. Len(q)
      /\ \A i \in 1 .. n : ~ULess(k[e], k[q[i]])
      /\ n = Len(q) \/ ULess(k[e], k[q[n + 1]])
  BY <1>1, RankOfPlace
<1>4. SortedBy(q, k) OBVIOUS
<1> HIDE DEF n, q
<1>5. \A i \in 1 .. Len(q) : q[i] \in S /\ k[q[i]] \in ULong BY <1>1
<1>6. k[e] \in ULong OBVIOUS
<1>7. \A i \in 1 .. Len(q) : i > n => ~ULess(k[q[i]], k[e])
  <2> SUFFICES ASSUME NEW i \in 1 .. Len(q), i > n PROVE ~ULess(k[q[i]], k[e])
    OBVIOUS
  <2>1. n + 1 \in 1 .. Len(q) /\ n # Len(q) BY <1>1, <1>3
  <2>2. ~ULess(k[q[i]], k[q[n + 1]])
    <3>1. CASE i = n + 1 BY <3>1, <1>5, <2>1, ULessTotalOrder
    <3>2. CASE n + 1 < i BY <3>2, <1>4, <2>1 DEF SortedBy
    <3> QED BY <1>3, <3>1, <3>2
  <2>3. ~ULess(k[q[n + 1]], k[e]) BY <1>3, <1>5, <1>6, <2>1, ULessTotalOrder
  <2> QED BY <1>5, <1>6, <2>1, <2>2, <2>3, ULessTotalOrder
<1>8. Len(r) = Len(q) + 1 BY <1>1
<1>9. ASSUME NEW i \in 1 .. Len(q) + 1, NEW j \in 1 .. Len(q) + 1, i < j
      PROVE  ~ULess(k[r[j]], k[r[i]])
  <2>1. CASE j <= n
    <3>1. r[i] = q[i] /\ r[j] = q[j] /\ i \in 1 .. Len(q) /\ j \in 1 .. Len(q)
      BY <1>1, <1>3, <1>9, <2>1
    <3> QED BY <1>4, <1>9, <3>1 DEF SortedBy
  <2>2. CASE j = n + 1
    <3>1. r[i] = q[i] /\ r[j] = e /\ i \in 1 .. n BY <1>1, <1>3, <1>9, <2>2
    <3> QED BY <1>3, <3>1
  <2>3. CASE j > n + 1
    <3>1. r[j] = q[j - 1] /\ j - 1 \in 1 .. Len(q) /\ j - 1 > n
      BY <1>1, <1>3, <1>9, <2>3
    <3>2. CASE i <= n
      <4>1. r[i] = q[i] /\ i \in 1 .. Len(q) /\ i < j - 1
        BY <1>1, <1>3, <1>9, <2>3, <3>2
      <4> QED BY <1>4, <3>1, <4>1 DEF SortedBy
    <3>3. CASE i = n + 1
      <4>1. r[i] = e BY <1>3, <3>3
      <4> QED BY <1>7, <3>1, <4>1
    <3>4. CASE i > n + 1
      <4>1. r[i] = q[i - 1] /\ i - 1 \in 1 .. Len(q) /\ i - 1 < j - 1
        BY <1>1, <1>3, <1>9, <3>4
      <4> QED BY <1>4, <3>1, <4>1 DEF SortedBy
    <3> QED BY <1>3, <3>2, <3>3, <3>4
  <2> QED BY <1>3, <2>1, <2>2, <2>3
<1> HIDE DEF r
<1>10. SortedBy(r, k) BY <1>8, <1>9 DEF SortedBy
<1> QED BY <1>2, <1>10

\* And so does leaving the timeline.
LEMMA EraseSorted ==
    ASSUME NEW C, NEW S, NEW tl \in [C -> Seq(S)], NEW c \in C,
           NEW e, e \in OrderedMembers(tl, c), NEW k, SortedBy(tl[c], k)
    PROVE  SortedBy(OrderedErase(tl, c, e)[c], k)
<1> DEFINE q  == tl[c]
           at == CHOOSE i \in 1 .. Len(q) : q[i] = e
           Was(i) == IF i < at THEN i ELSE i + 1
           r  == [i \in 1 .. Len(q) - 1 |-> q[Was(i)]]
<1>1. q \in Seq(S) /\ Len(q) \in Nat /\ SortedBy(q, k) OBVIOUS
<1>2. at \in 1 .. Len(q)
  <2>1. \E i \in 1 .. Len(q) : q[i] = e BY DEF OrderedMembers
  <2> QED BY <2>1
<1>3. OrderedErase(tl, c, e)[c] = r
  <2>1. [i \in 1 .. Len(q) - 1 |-> IF i < at THEN q[i] ELSE q[i + 1]] = r OBVIOUS
  <2>2. OrderedErase(tl, c, e)
          = [tl EXCEPT ![c] = [i \in 1 .. Len(q) - 1 |-> IF i < at THEN q[i] ELSE q[i + 1]]]
    BY DEF OrderedErase, OrderedMembers
  <2> HIDE DEF q, at, r
  <2> QED BY <2>1, <2>2
<1> HIDE DEF at, q
<1>4. Len(r) = Len(q) - 1 /\ \A i \in 1 .. Len(r) : r[i] = q[Was(i)] BY <1>1, <1>2
<1>5. \A i \in 1 .. Len(r) : Was(i) \in 1 .. Len(q) BY <1>1, <1>2, <1>4
<1>6. \A i, j \in 1 .. Len(r) : i < j => Was(i) < Was(j) BY <1>1, <1>2, <1>4
<1> HIDE DEF Was, r
<1>7. SortedBy(r, k) BY <1>1, <1>4, <1>5, <1>6 DEF SortedBy
<1> QED BY <1>3, <1>7

\* Who waits after an insertion or an erasure, in timelines that nobody is in
\* twice.
LEMMA InsertMembers ==
    ASSUME NEW C, NEW S, NEW tl \in [C -> Seq(S)], NEW c \in C, NEW e \in S, NEW k
    PROVE  LET r == OrderedInsert(tl, c, e, k)
           IN  /\ OrderedMembers(r, c) = OrderedMembers(tl, c) \cup {e}
               /\ \A d \in C \ {c} : r[d] = tl[d]
               /\ IsInjective(tl[c]) /\ e \notin OrderedMembers(tl, c)
                     => IsInjective(r[c])
<1> DEFINE R == OrderedInsert(tl, c, e, k)
           q == tl[c]
           r == R[c]
           n == RankOf(q, k[e], k)
<1>1. /\ Len(r) = Len(q) + 1
      /\ n \in 0 .. Len(q)
      /\ \A i \in 1 .. Len(r) :
             /\ i <= n => i \in 1 .. Len(q) /\ r[i] = q[i]
             /\ i = n + 1 => r[i] = e
             /\ i > n + 1 => i - 1 \in 1 .. Len(q) /\ r[i] = q[i - 1]
      /\ \A d \in C \ {c} : R[d] = tl[d]
  BY InsertPlaces
<1>2. R \in [C -> Seq(S)] BY OrderedInsertType
<1>3. q \in Seq(S) /\ r \in Seq(S) BY <1>2
<1>4. OrderedMembers(R, c) = {r[i] : i \in 1 .. Len(r)} BY DEF OrderedMembers
<1>5. OrderedMembers(tl, c) = {q[i] : i \in 1 .. Len(q)} BY DEF OrderedMembers
<1> HIDE DEF R, q, r, n
<1>6. Len(q) \in Nat /\ DOMAIN q = 1 .. Len(q) /\ DOMAIN r = 1 .. Len(r) BY <1>3
<1>7. ASSUME NEW i \in 1 .. Len(r), r[i] # e
      PROVE  \E j \in 1 .. Len(q) : r[i] = q[j] /\ i = IF j <= n THEN j ELSE j + 1
  <2>1. CASE i <= n BY <1>1, <2>1
  <2>2. CASE i > n + 1
    <3>1. i - 1 \in 1 .. Len(q) /\ r[i] = q[i - 1] BY <1>1, <2>2
    <3>2. i = IF i - 1 <= n THEN i - 1 ELSE i - 1 + 1
      <4>1. i \in Int /\ n \in Int BY <1>1, <1>6
      <4> QED BY ONLY <2>2, <4>1
    <3> QED BY <3>1, <3>2
  <2>3. i # n + 1 BY <1>1, <1>7
  <2> QED BY <1>1, <1>6, <2>1, <2>2, <2>3
<1>8. ASSUME NEW j \in 1 .. Len(q) PROVE \E i \in 1 .. Len(r) : r[i] = q[j]
  <2>1. CASE j <= n
    <3>1. j \in 1 .. Len(r) BY <1>1, <1>6
    <3> QED BY <1>1, <2>1, <3>1
  <2>2. CASE j > n
    <3>1. j + 1 \in 1 .. Len(r) /\ j + 1 > n + 1 /\ j + 1 - 1 = j BY <1>1, <1>6, <2>2
    <3>2. r[j + 1] = q[j + 1 - 1] BY <1>1, <3>1
    <3>3. r[j + 1] = q[j] BY <3>1, <3>2
    <3> QED BY <3>1, <3>3
  <2> QED BY <1>1, <1>6, <2>1, <2>2
<1>9. \E i \in 1 .. Len(r) : r[i] = e
  <2>1. n + 1 \in 1 .. Len(r) BY <1>1, <1>6
  <2> QED BY <1>1, <2>1
<1>10. OrderedMembers(R, c) = OrderedMembers(tl, c) \cup {e}
  <2>1. ASSUME NEW x \in OrderedMembers(R, c) PROVE x \in OrderedMembers(tl, c) \cup {e}
    <3>1. PICK i \in 1 .. Len(r) : x = r[i] BY <1>4
    <3> QED BY <1>5, <1>7, <3>1
  <2>2. ASSUME NEW x \in OrderedMembers(tl, c) PROVE x \in OrderedMembers(R, c)
    BY <1>4, <1>5, <1>8
  <2> QED BY <1>4, <1>9, <2>1, <2>2
<1>11. ASSUME IsInjective(q), e \notin OrderedMembers(tl, c)
       PROVE  IsInjective(r)
  <2>1. \A i, j \in 1 .. Len(q) : q[i] = q[j] => i = j BY <1>6, <1>11 DEF IsInjective
  <2>2. ASSUME NEW i \in 1 .. Len(r), NEW j \in 1 .. Len(r), r[i] = r[j]
        PROVE  i = j
    <3>1. \A h \in 1 .. Len(r) : r[h] = e => h = n + 1
      <4> SUFFICES ASSUME NEW h \in 1 .. Len(r), h # n + 1 PROVE r[h] # e OBVIOUS
      <4>1. h <= n \/ h > n + 1 BY <1>1, <1>6
      <4> QED BY <1>1, <1>5, <1>11, <4>1
    <3>2. CASE r[i] = e BY <2>2, <3>1, <3>2
    <3>3. CASE r[i] # e
      <4>1. PICK g \in 1 .. Len(q) : r[i] = q[g] /\ i = IF g <= n THEN g ELSE g + 1
        BY <1>7, <3>3
      <4>2. PICK h \in 1 .. Len(q) : r[j] = q[h] /\ j = IF h <= n THEN h ELSE h + 1
        BY <1>7, <2>2, <3>3
      <4>3. g = h BY <2>1, <2>2, <4>1, <4>2
      <4> QED BY <4>1, <4>2, <4>3
    <3> QED BY <3>2, <3>3
  <2> QED BY <1>6, <2>2 DEF IsInjective
<1> QED BY <1>1, <1>10, <1>11 DEF R, q, r

LEMMA EraseMembers ==
    ASSUME NEW C, NEW S, NEW tl \in [C -> Seq(S)], NEW c \in C,
           IsInjective(tl[c]), NEW e, e \in OrderedMembers(tl, c)
    PROVE  LET r == OrderedErase(tl, c, e)
           IN  /\ OrderedMembers(r, c) = OrderedMembers(tl, c) \ {e}
               /\ \A d \in C \ {c} : r[d] = tl[d]
               /\ IsInjective(r[c])
<1> DEFINE q  == tl[c]
           R  == OrderedErase(tl, c, e)
           r  == R[c]
           at == CHOOSE i \in 1 .. Len(q) : q[i] = e
           p  == [i \in 1 .. Len(q) - 1 |-> IF i < at THEN q[i] ELSE q[i + 1]]
<1>1. q \in Seq(S) /\ Len(q) \in Nat /\ DOMAIN q = 1 .. Len(q) OBVIOUS
<1>2. \E i \in 1 .. Len(q) : q[i] = e BY DEF OrderedMembers
<1>3. R = [tl EXCEPT ![c] = p] BY <1>2 DEF OrderedErase
<1>4. r = p /\ \A d \in C \ {c} : R[d] = tl[d] BY <1>3
<1>5. at \in 1 .. Len(q) /\ q[at] = e BY <1>2
<1>6. R \in [C -> Seq(S)] BY OrderedEraseType
<1>7. r \in Seq(S) BY <1>6
<1>8. OrderedMembers(R, c) = {r[i] : i \in 1 .. Len(r)} BY DEF OrderedMembers
<1>9. OrderedMembers(tl, c) = {q[i] : i \in 1 .. Len(q)} BY DEF OrderedMembers
<1>10. IsInjective(q) OBVIOUS
<1> HIDE DEF R, r, at, q
<1>11. DOMAIN r = 1 .. Len(q) - 1 /\ \A i \in 1 .. Len(q) - 1 : r[i] = p[i] BY <1>4
<1>12. Len(q) - 1 \in Nat BY <1>1, <1>5
<1>13. Len(r) = Len(q) - 1 /\ DOMAIN r = 1 .. Len(r) BY <1>7, <1>11, <1>12
<1>14. ASSUME NEW i \in 1 .. Len(r)
       PROVE  \E j \in 1 .. Len(q) : r[i] = q[j] /\ j # at /\ j = IF i < at THEN i ELSE i + 1
  <2>1. i \in 1 .. Len(q) - 1 BY <1>13
  <2>2. CASE i < at BY <1>1, <1>5, <1>11, <2>1, <2>2
  <2>3. CASE ~(i < at) BY <1>1, <1>5, <1>11, <2>1, <2>3
  <2> QED BY <2>2, <2>3
<1>15. ASSUME NEW j \in 1 .. Len(q), j # at
       PROVE  \E i \in 1 .. Len(r) : r[i] = q[j]
  <2>1. CASE j < at
    <3>1. j \in 1 .. Len(q) - 1 BY <1>1, <1>5, <2>1
    <3> QED BY <1>11, <1>13, <2>1, <3>1
  <2>2. CASE j > at
    <3>1. j - 1 \in 1 .. Len(q) - 1 /\ ~(j - 1 < at) /\ j - 1 + 1 = j
      BY <1>1, <1>5, <2>2
    <3> QED BY <1>11, <1>13, <3>1
  <2> QED BY <1>1, <1>5, <1>15, <2>1, <2>2
<1>16. \A i, j \in 1 .. Len(q) : q[i] = q[j] => i = j BY <1>1, <1>10 DEF IsInjective
<1>17. OrderedMembers(R, c) = OrderedMembers(tl, c) \ {e}
  <2>1. ASSUME NEW i \in 1 .. Len(r) PROVE r[i] \in OrderedMembers(tl, c) \ {e}
    BY <1>5, <1>9, <1>14, <1>16
  <2>2. ASSUME NEW x \in OrderedMembers(tl, c) \ {e} PROVE x \in OrderedMembers(R, c)
    <3>1. PICK j \in 1 .. Len(q) : x = q[j] BY <1>9
    <3>2. j # at BY <1>5, <3>1
    <3> QED BY <1>8, <1>15, <3>1, <3>2
  <2> QED BY <1>8, <2>1, <2>2
<1>18. ASSUME NEW i \in 1 .. Len(r), NEW j \in 1 .. Len(r), r[i] = r[j] PROVE i = j
  <2>1. PICK g \in 1 .. Len(q) : r[i] = q[g] /\ g = IF i < at THEN i ELSE i + 1 BY <1>14
  <2>2. PICK h \in 1 .. Len(q) : r[j] = q[h] /\ h = IF j < at THEN j ELSE j + 1 BY <1>14
  <2>3. g = h BY <1>16, <1>18, <2>1, <2>2
  <2> QED BY <1>1, <1>5, <1>13, <2>1, <2>2, <2>3
<1>19. IsInjective(r) BY <1>13, <1>18 DEF IsInjective
<1> QED BY <1>4, <1>17, <1>19 DEF R, r

-----------------------------------------------------------------------------
(* Sums over finite sets.  What SumFunctionOnSet computes recursively is   *)
(* shown by taking a smallest set for which it would be wrong.             *)

\* Of some subsets of a finite set one holds none of the others: what is wrong
\* for some finite set is wrong for one whose smaller subsets are all right.
LEMMA MinimalSubset ==
    ASSUME NEW S, IsFiniteSet(S), NEW B, B \subseteq SUBSET S, B # {}
    PROVE  \E x \in B : \A y \in B : y \subseteq x => y = x
<1>1. IsWellFoundedOn(StrictSubsetOrdering(S), SUBSET S)
  BY FS_StrictSubsetOrderingWellFounded, FS_FiniteSubsetsOfFinite
<1>2. PICK x \in B : \A y \in B : <<y, x>> \notin StrictSubsetOrdering(S)
  BY <1>1, WFMin
<1>3. \A y \in B : y \subseteq x => y = x BY <1>2 DEF StrictSubsetOrdering
<1> QED BY <1>3

\* How SumFunctionOnSet sums: it takes one element after the other.
Picked(s) == CHOOSE x \in s : TRUE
Adds(f, S, iter) ==
    iter = [s \in SUBSET S |-> IF s = {} THEN 0
                               ELSE f[Picked(s)] + iter[s \ {Picked(s)}]]
Adder(f, S) == CHOOSE iter : Adds(f, S, iter)

LEMMA SumIs ==
    ASSUME NEW f, NEW S
    PROVE  SumFunctionOnSet(f, S) = Adder(f, S)[S]
BY DEF SumFunctionOnSet, FoldFunctionOnSet, MapThenFoldSet, Adds, Adder, Picked

LEMMA AddsAgree ==
    ASSUME NEW f, NEW S, IsFiniteSet(S), NEW T \in SUBSET S, NEW a, NEW b,
           Adds(f, S, a), Adds(f, T, b)
    PROVE  a[T] = b[T]
<1> DEFINE Bad == {U \in SUBSET T : a[U] # b[U]}
<1>1. ASSUME Bad # {} PROVE FALSE
  <2>1. IsFiniteSet(T) /\ T \subseteq S BY FS_Subset
  <2> Bad \subseteq SUBSET T OBVIOUS
  <2>2. PICK U \in Bad : \A V \in Bad : V \subseteq U => V = U
    <3> HIDE DEF Bad
    <3> QED BY <1>1, <2>1, MinimalSubset
  <2>3. U \subseteq T /\ a[U] # b[U] OBVIOUS
  <2>4. U # {}
    <3>1. U = {} => a[U] = 0 /\ b[U] = 0 BY <2>1, <2>3 DEF Adds
    <3> QED BY <2>3, <3>1
  <2> DEFINE x == Picked(U)
             V == U \ {x}
  <2>5. x \in U BY <2>4 DEF Picked
  <2>6. V \subseteq U /\ V # U BY <2>5
  <2>7. a[V] = b[V] BY <2>2, <2>3, <2>6
  <2>8. a[U] = f[x] + a[V] /\ b[U] = f[x] + b[V] BY <2>1, <2>3, <2>4 DEF Adds
  <2> QED BY <2>3, <2>7, <2>8
<1> QED BY <1>1

LEMMA AdderAdds ==
    ASSUME NEW f, NEW S, IsFiniteSet(S)
    PROVE  Adds(f, S, Adder(f, S))
<1> DEFINE Bad == {T \in SUBSET S : ~\E iter : Adds(f, T, iter)}
<1>1. ASSUME Bad # {} PROVE FALSE
  <2> Bad \subseteq SUBSET S OBVIOUS
  <2>1. PICK T \in Bad : \A V \in Bad : V \subseteq T => V = T
    <3> HIDE DEF Bad
    <3> QED BY <1>1, MinimalSubset
  <2>2. T \in SUBSET S /\ ~\E iter : Adds(f, T, iter) OBVIOUS
  <2>3. \A V \in SUBSET T : V # T => Adds(f, V, Adder(f, V))
    <3>1. \A V \in SUBSET T : V # T => V \in SUBSET S /\ V \notin Bad BY <2>1, <2>2
    <3>2. \A V : (\E iter : Adds(f, V, iter)) => Adds(f, V, Adder(f, V)) BY DEF Adder
    <3> QED BY <3>1, <3>2
  <2> DEFINE G == [s \in SUBSET T |-> IF s = {} THEN 0
                     ELSE f[Picked(s)] + Adder(f, s \ {Picked(s)})[s \ {Picked(s)}]]
  <2>4. ASSUME NEW s \in SUBSET T, s # T PROVE G[s] = Adder(f, s)[s]
    <3>1. Adds(f, s, Adder(f, s)) BY <2>3, <2>4
    <3>2. CASE s = {} BY <3>1, <3>2 DEF Adds
    <3>3. CASE s # {}
      <4> DEFINE V == s \ {Picked(s)}
      <4>1. Picked(s) \in s BY <3>3 DEF Picked
      <4>2. V \subseteq T /\ V # T /\ V \subseteq s BY <4>1
      <4>3. Adds(f, V, Adder(f, V)) BY <2>3, <4>2
      <4>4. IsFiniteSet(s) BY <2>2, FS_Subset
      <4> HIDE DEF V
      <4>5. Adder(f, s)[V] = Adder(f, V)[V] BY <3>1, <4>2, <4>3, <4>4, AddsAgree
      <4> USE DEF V
      <4>6. Adder(f, s)[s] = f[Picked(s)] + Adder(f, s)[V] BY <3>1, <3>3 DEF Adds
      <4>7. G[s] = f[Picked(s)] + Adder(f, V)[V] BY <3>3
      <4> QED BY <4>5, <4>6, <4>7
    <3> QED BY <3>2, <3>3
  <2>5. ASSUME NEW s \in SUBSET T, s # {}
        PROVE  s \ {Picked(s)} \in SUBSET T /\ s \ {Picked(s)} # T
    BY <2>5 DEF Picked
  <2>6. \A s \in SUBSET T : s # {} =>
           G[s \ {Picked(s)}] = Adder(f, s \ {Picked(s)})[s \ {Picked(s)}]
    <3> HIDE DEF G
    <3> QED BY <2>4, <2>5
  <2>7. Adds(f, T, G) BY <2>6 DEF Adds
  <2> QED BY <2>2, <2>7
<1>2. \E iter : Adds(f, S, iter) BY <1>1
<1> QED BY <1>2 DEF Adder

\* The first step of the sum, and its end.
LEMMA SumSteps ==
    ASSUME NEW f, NEW S, IsFiniteSet(S)
    PROVE  /\ S = {} => SumFunctionOnSet(f, S) = 0
           /\ S # {} => LET x == Picked(S)
                        IN  /\ x \in S
                            /\ SumFunctionOnSet(f, S) = f[x] + SumFunctionOnSet(f, S \ {x})
<1>1. Adds(f, S, Adder(f, S)) BY AdderAdds
<1>2. S = {} => SumFunctionOnSet(f, S) = 0 BY <1>1, SumIs DEF Adds
<1>3. ASSUME S # {}
      PROVE  /\ Picked(S) \in S
             /\ SumFunctionOnSet(f, S) = f[Picked(S)] + SumFunctionOnSet(f, S \ {Picked(S)})
  <2> DEFINE V == S \ {Picked(S)}
  <2>1. Picked(S) \in S BY <1>3 DEF Picked
  <2>2. V \in SUBSET S /\ IsFiniteSet(V) BY FS_Subset
  <2>3. Adds(f, V, Adder(f, V)) BY <2>2, AdderAdds
  <2>4. Adder(f, S)[S] = f[Picked(S)] + Adder(f, S)[V] BY <1>1, <1>3 DEF Adds
  <2> HIDE DEF V
  <2>5. Adder(f, S)[V] = Adder(f, V)[V] BY <1>1, <2>2, <2>3, AddsAgree
  <2>6. SumFunctionOnSet(f, V) = Adder(f, V)[V] BY SumIs
  <2> QED BY <2>1, <2>4, <2>5, <2>6, SumIs DEF V
<1> QED BY <1>2, <1>3

\* A sum of integers is one.
LEMMA SumType ==
    ASSUME NEW S, IsFiniteSet(S), NEW f, \A x \in S : f[x] \in Int
    PROVE  SumFunctionOnSet(f, S) \in Int
<1> DEFINE Bad == {T \in SUBSET S : SumFunctionOnSet(f, T) \notin Int}
<1>1. ASSUME Bad # {} PROVE FALSE
  <2> Bad \subseteq SUBSET S OBVIOUS
  <2>1. PICK T \in Bad : \A V \in Bad : V \subseteq T => V = T
    <3> HIDE DEF Bad
    <3> QED BY <1>1, MinimalSubset
  <2>2. T \in SUBSET S /\ SumFunctionOnSet(f, T) \notin Int /\ IsFiniteSet(T)
    BY FS_Subset
  <2>3. T # {}
    <3>1. T = {} => SumFunctionOnSet(f, T) = 0 BY <2>2, SumSteps
    <3> QED BY <2>2, <3>1
  <2> DEFINE x == Picked(T)
  <2>4. x \in T /\ SumFunctionOnSet(f, T) = f[x] + SumFunctionOnSet(f, T \ {x})
    BY <2>2, <2>3, SumSteps
  <2>5. T \ {x} \notin Bad /\ T \ {x} \in SUBSET S BY <2>1, <2>2, <2>4
  <2> QED BY <2>2, <2>4, <2>5
<1> QED BY <1>1

\* One more element adds its number, in whatever order the sum is taken.
LEMMA SumAdd ==
    ASSUME NEW S, IsFiniteSet(S), NEW t, t \notin S,
           NEW f, \A x \in S \cup {t} : f[x] \in Int
    PROVE  SumFunctionOnSet(f, S \cup {t}) = SumFunctionOnSet(f, S) + f[t]
<1> DEFINE U   == S \cup {t}
           Bad == {T \in SUBSET U : \E u \in U \ T :
                     SumFunctionOnSet(f, T \cup {u}) # SumFunctionOnSet(f, T) + f[u]}
<1>1. IsFiniteSet(U) BY FS_AddElement
<1>2. ASSUME Bad # {} PROVE FALSE
  <2> Bad \subseteq SUBSET U OBVIOUS
  <2>1. PICK T \in Bad : \A V \in Bad : V \subseteq T => V = T
    <3> HIDE DEF Bad, U
    <3> QED BY <1>1, <1>2, MinimalSubset
  <2>2. PICK u \in U \ T :
          SumFunctionOnSet(f, T \cup {u}) # SumFunctionOnSet(f, T) + f[u]
    BY <2>1
  <2>3. T \in SUBSET U /\ T \cup {u} \in SUBSET U BY <2>1
  <2> HIDE DEF U
  <2>4. IsFiniteSet(T) /\ IsFiniteSet(T \cup {u}) BY <1>1, <2>3, FS_Subset
  <2>5. \A v \in U : f[v] \in Int BY DEF U
  <2> DEFINE x == Picked(T \cup {u})
             V == T \ {x}
  <2>6. /\ x \in T \cup {u}
        /\ SumFunctionOnSet(f, T \cup {u})
             = f[x] + SumFunctionOnSet(f, (T \cup {u}) \ {x})
    BY <2>4, SumSteps
  <2> HIDE DEF x
  <2>7. SumFunctionOnSet(f, T) \in Int /\ SumFunctionOnSet(f, V) \in Int
    <3>1. V \in SUBSET T /\ IsFiniteSet(V) BY <2>4, FS_Subset
    <3>2. \A v \in T : f[v] \in Int BY <2>3, <2>5
    <3>3. \A v \in V : f[v] \in Int BY <3>2
    <3> QED BY <2>4, <3>1, <3>2, <3>3, SumType
  <2>8. x \in U /\ f[x] \in Int /\ f[u] \in Int BY <2>2, <2>3, <2>5, <2>6
  <2>9. CASE x = u
    <3>1. (T \cup {u}) \ {x} = T BY <2>2, <2>9
    <3>2. SumFunctionOnSet(f, T \cup {u}) = f[u] + SumFunctionOnSet(f, T)
      BY <2>6, <2>9, <3>1
    <3>3. f[u] + SumFunctionOnSet(f, T) = SumFunctionOnSet(f, T) + f[u] BY <2>7, <2>8
    <3> QED BY <2>2, <3>2, <3>3
  <2>10. CASE x # u
    <3>1. x \in T /\ (T \cup {u}) \ {x} = V \cup {u} /\ V \cup {x} = T
      BY <2>2, <2>6, <2>10
    <3>2. V \in SUBSET U /\ V # T /\ V \subseteq T /\ u \in U \ V /\ x \in U \ V
      BY <2>2, <2>3, <3>1
    <3>3. V \notin Bad BY <2>1, <3>2
    <3>4. SumFunctionOnSet(f, V \cup {u}) = SumFunctionOnSet(f, V) + f[u]
      BY <3>2, <3>3
    <3>5. SumFunctionOnSet(f, V \cup {x}) = SumFunctionOnSet(f, V) + f[x]
      BY <3>2, <3>3
    <3>6. SumFunctionOnSet(f, T \cup {u}) = f[x] + (SumFunctionOnSet(f, V) + f[u])
      BY <2>6, <3>1, <3>4
    <3>7. SumFunctionOnSet(f, T) = SumFunctionOnSet(f, V) + f[x] BY <3>1, <3>5
    <3>8. f[x] + (SumFunctionOnSet(f, V) + f[u]) = (SumFunctionOnSet(f, V) + f[x]) + f[u]
      BY <2>7, <2>8
    <3> QED BY <2>2, <3>6, <3>7, <3>8
  <2> QED BY <2>9, <2>10
<1>3. t \in U \ S /\ S \in SUBSET U OBVIOUS
<1> QED BY <1>2, <1>3

\* One element less takes its number away.
LEMMA SumRemove ==
    ASSUME NEW S, IsFiniteSet(S), NEW t \in S, NEW f, \A x \in S : f[x] \in Int
    PROVE  SumFunctionOnSet(f, S \ {t}) = SumFunctionOnSet(f, S) - f[t]
<1> DEFINE T == S \ {t}
<1>1. IsFiniteSet(T) /\ t \notin T /\ T \cup {t} = S BY FS_Subset
<1>2. \A x \in T : f[x] \in Int OBVIOUS
<1>3. \A x \in T \cup {t} : f[x] \in Int OBVIOUS
<1> HIDE DEF T
<1>4. SumFunctionOnSet(f, T \cup {t}) = SumFunctionOnSet(f, T) + f[t]
  BY <1>1, <1>3, SumAdd
<1>5. SumFunctionOnSet(f, T) \in Int BY <1>1, <1>2, SumType
<1>6. f[t] \in Int OBVIOUS
<1>7. SumFunctionOnSet(f, T) = SumFunctionOnSet(f, T \cup {t}) - f[t]
  BY <1>4, <1>5, <1>6
<1> QED BY <1>1, <1>7 DEF T

\* What a sequence holds is finite.
LEMMA ListFinite ==
    ASSUME NEW S, NEW q \in Seq(S) PROVE IsFiniteSet(ToSet(q))
<1>1. Len(q) \in Nat /\ DOMAIN q = 1 .. Len(q) OBVIOUS
<1>2. q \in Surjection(1 .. Len(q), ToSet(q)) BY <1>1 DEF Surjection, ToSet
<1>3. IsFiniteSet(1 .. Len(q)) BY <1>1, FS_Interval
<1> HIDE DEF ToSet
<1> QED BY <1>2, <1>3, FS_Surjection

-----------------------------------------------------------------------------
(* The circular scan of a mask.                                            *)

\* Where the scan looks: behind n, then from the beginning.
LEMMA ProbeIs ==
    ASSUME NEW n \in {NoCpu} \cup CPU, NEW d \in 1 .. NR_CPU
    PROVE  /\ Probe(n, d) = IF n + d < NR_CPU THEN n + d
                                 ELSE n + d - NR_CPU
           /\ Probe(n, d) \in CPU
BY NrCpuAssumption, SMT DEF Probe, CPU, NoCpu

\* Every other CPU is looked at: this is the round it happens in.
LEMMA RoundOf ==
    ASSUME NEW n \in {NoCpu} \cup CPU, NEW c \in CPU, c # n
    PROVE  \E d \in 1 .. NR_CPU :
              /\ d = (IF c > n THEN c - n ELSE c - n + NR_CPU)
              /\ Probe(n, d) = c
<1> DEFINE d == IF c > n THEN c - n ELSE c - n + NR_CPU
<1>1. d \in 1 .. NR_CPU
  BY NrCpuAssumption, SMT DEF CPU, NoCpu
<1>2. Probe(n, d) = c
  BY <1>1, ProbeIs, NrCpuAssumption, SMT DEF CPU, NoCpu
<1> QED
  BY <1>1, <1>2

LEMMA FirstIsLeast ==
    ASSUME NEW m \in Mask
    PROVE  /\ m = {} => find_first_bit(m) = NoCpu
           /\ m # {} => /\ find_first_bit(m) \in m
                        /\ \A x \in m : find_first_bit(m) <= x
<1>1. m \in SUBSET Nat
  BY NrCpuAssumption, SMT DEF Mask, CPU
<1> QED
  BY <1>1, MinNat, Zenon DEF find_first_bit

\* find_next_bit answers -1 if no other CPU is in the mask, else the next one
\* above n, else the least one.
LEMMA NextIsNearest ==
    ASSUME NEW m \in Mask, NEW n \in {NoCpu} \cup CPU
    PROVE  LET r == find_next_bit(m, n)
           IN  /\ m \subseteq {n} => r = NoCpu
               /\ ~(m \subseteq {n}) =>
                    /\ r \in m /\ r # n
                    /\ \A x \in m : x > n => r > n /\ r <= x
                    /\ r < n => \A x \in m : r <= x
<1> DEFINE found == {d \in 1 .. NR_CPU : /\ Probe(n, d) # n
                                         /\ Probe(n, d) \in m}
           r == find_next_bit(m, n)
<1>1. found \in SUBSET Nat
  BY NrCpuAssumption, SMT
<1>2. r = IF found = {} THEN NoCpu ELSE Probe(n, Min(found))
  BY Zenon DEF find_next_bit
<1>3. ASSUME NEW x \in m, x # n
      PROVE  (IF x > n THEN x - n ELSE x - n + NR_CPU) \in found
  <2>1. x \in CPU
    BY DEF Mask
  <2>2. PICK d \in 1 .. NR_CPU :
              /\ d = (IF x > n THEN x - n ELSE x - n + NR_CPU)
              /\ Probe(n, d) = x
    BY <1>3, <2>1, RoundOf, Zenon
  <2> QED
    BY <1>3, <2>2, Zenon
<1>4. CASE m \subseteq {n}
  <2>1. found = {}
    BY <1>4
  <2> QED
    BY <1>2, <1>4, <2>1
<1>5. CASE ~(m \subseteq {n})
  <2>1. found # {}
    BY <1>3, <1>5, Zenon
  <2> DEFINE e == Min(found)
  <2>2. e \in found /\ \A y \in found : e <= y
    BY <1>1, <2>1, MinNat, Zenon
  <2> HIDE DEF e
  <2>3. /\ e \in 1 .. NR_CPU /\ r = Probe(n, e) /\ r \in m /\ r # n
    BY <1>2, <2>1, <2>2, Zenon DEF e
  <2>4. r = IF n + e < NR_CPU THEN n + e ELSE n + e - NR_CPU
    BY <2>3, ProbeIs, Zenon
  <2>5. \A x \in m : x # n =>
            e <= (IF x > n THEN x - n ELSE x - n + NR_CPU)
    BY <1>3, <2>2, Zenon
  <2> HIDE DEF found, r
  <2>6. \A x \in m : x > n => r > n /\ r <= x
    BY <2>3, <2>4, <2>5, NrCpuAssumption, SMT DEF Mask, CPU, NoCpu
  <2>7. r < n => \A x \in m : r <= x
    BY <2>3, <2>4, <2>5, <2>6, NrCpuAssumption, SMT DEF Mask, CPU, NoCpu
  <2> QED
    BY <1>5, <2>3, <2>6, <2>7, Zenon DEF r
<1> QED
  BY <1>4, <1>5

-----------------------------------------------------------------------------
(* The groups of a domain.                                                 *)

\* A span is made of online CPUs, the owner among them; below the top level
\* its CPUs share it, and it holds the spans of its CPUs one level down.
LEMMA SpanOf ==
    ASSUME NEW m, IsMachine(m), NEW l \in Level, NEW c \in m.online
    PROVE  /\ m.online \subseteq CPU /\ c \in Span(m, l, c) /\ Span(m, l, c) \subseteq m.online
           /\ \A x \in Span(m, l, c) :
                 /\ l # NrLevel => Span(m, l, x) = Span(m, l, c)
                 /\ l > 1 => Span(m, l - 1, x) \subseteq Span(m, l, c)
<1>1. c \in CPU /\ m.online \subseteq CPU BY DEF IsMachine, Mask
<1>2. /\ c \in m.mask[l][c]
      /\ l # NrLevel => \A x \in m.mask[l][c] : m.mask[l][x] = m.mask[l][c]
      /\ l > 1 => \A x \in m.mask[l][c] : m.mask[l - 1][x] \subseteq m.mask[l][c]
  BY <1>1 DEF IsMachine
<1> QED BY <1>1, <1>2 DEF Span, tl_mask

\* Its groups cover it, and two of them that meet are one.
LEMMA GroupOf ==
    ASSUME NEW m, IsMachine(m), NEW l \in Level, NEW c \in m.online, NEW x \in Span(m, l, c)
    PROVE  /\ x \in GroupSpan(m, l, x) /\ GroupSpan(m, l, x) \subseteq Span(m, l, c)
           /\ \A y \in GroupSpan(m, l, x) : GroupSpan(m, l, y) = GroupSpan(m, l, x)
<1>1. x \in m.online BY SpanOf
<1>2. CASE l = 1 BY <1>2 DEF GroupSpan
<1>3. CASE l # 1
  <2>1. l - 1 \in Level /\ l - 1 # NrLevel /\ l > 1 BY <1>3 DEF Level, NrLevel
  <2>2. /\ x \in Span(m, l - 1, x)
        /\ \A y \in Span(m, l - 1, x) : Span(m, l - 1, y) = Span(m, l - 1, x)
    BY <1>1, <2>1, SpanOf
  <2>3. Span(m, l - 1, x) \subseteq Span(m, l, c) BY <2>1, SpanOf
  <2> QED BY <1>3, <2>2, <2>3 DEF GroupSpan
<1> QED BY <1>2, <1>3

\* One turn round.
LEMMA Modulo ==
    ASSUME NEW d \in Int, NEW n \in Nat \ {0}, -n < d, d < n
    PROVE  d % n = IF d >= 0 THEN d ELSE d + n
<1>1. CASE d >= 0 BY <1>1, SMTT(20)
<1>2. CASE d < 0
  <2>1. d % n = d + n BY <1>2, SMTT(20)
  <2> QED BY <1>2, <2>1
<1> QED BY <1>1, <1>2

\* The nearest group of all is the one c is in, and groups at the same distance
\* have a CPU in common.
LEMMA DistanceOf ==
    ASSUME NEW c \in CPU, NEW g \in SUBSET CPU, g # {}
    PROVE  /\ Distance(c, g) \in Nat /\ (Distance(c, g) = 0 <=> c \in g)
           /\ \A h \in SUBSET CPU :
                 h # {} /\ Distance(c, h) = Distance(c, g) => \E x \in g : x \in h
<1> DEFINE away(x) == IF x >= c THEN x - c ELSE x - c + NR_CPU
<1>1. \A x \in CPU : (x - c) % NR_CPU = away(x)
  <2> SUFFICES ASSUME NEW x \in CPU PROVE (x - c) % NR_CPU = away(x)
    OBVIOUS
  <2> DEFINE d == x - c
  <2>1. d \in Int /\ d < NR_CPU /\ -NR_CPU < d /\ NR_CPU \in Nat \ {0}
        /\ (d >= 0 <=> x >= c)
    BY NrCpuAssumption DEF CPU
  <2> HIDE DEF d
  <2>2. d % NR_CPU = IF d >= 0 THEN d ELSE d + NR_CPU BY <2>1, Modulo
  <2> QED BY <2>1, <2>2 DEF d
<1>2. /\ \A x \in CPU : away(x) \in Nat /\ (away(x) = 0 <=> x = c)
      /\ \A x, y \in CPU : away(x) = away(y) => x = y
  BY NrCpuAssumption DEF CPU
<1> HIDE DEF away
<1>3. ASSUME NEW h \in SUBSET CPU, h # {}
      PROVE  /\ Distance(c, h) \in Nat /\ \E x \in h : Distance(c, h) = away(x)
             /\ \A x \in h : Distance(c, h) <= away(x)
  <2> DEFINE D == {(x - c) % NR_CPU : x \in h}
  <2>1. D = {away(x) : x \in h} BY <1>1
  <2> HIDE DEF D
  <2>2. D \in SUBSET Nat /\ D # {} BY <1>2, <1>3, <2>1
  <2>3. Min(D) \in D /\ \A d \in D : Min(D) <= d BY <2>2, MinNat
  <2>4. Distance(c, h) = Min(D) BY DEF Distance, D
  <2> QED BY <2>1, <2>2, <2>3, <2>4
<1>4. ASSUME c \in g PROVE Distance(c, g) = 0
  <2>1. Distance(c, g) \in Nat /\ Distance(c, g) <= away(c) /\ away(c) = 0
    BY <1>2, <1>3, <1>4
  <2> QED BY <2>1
<1>5. ASSUME Distance(c, g) = 0 PROVE c \in g BY <1>2, <1>3, <1>5
<1>6. ASSUME NEW h \in SUBSET CPU, h # {}, Distance(c, h) = Distance(c, g)
      PROVE  \E x \in g : x \in h
  <2>1. PICK x \in g : Distance(c, g) = away(x) BY <1>3
  <2>2. PICK y \in h : Distance(c, h) = away(y) BY <1>3, <1>6
  <2>3. x = y BY <1>2, <1>6, <2>1, <2>2
  <2> QED BY <2>3
<1> QED BY <1>3, <1>4, <1>5, <1>6

\* The ring holds every group once, the local one first and the others by their
\* distance; no other one meets the local one.
LEMMA RingPlaces ==
    ASSUME NEW m, IsMachine(m), NEW l \in Level, NEW c \in m.online
    PROVE  LET n == Cardinality(Groups(m, l, c))
           IN  /\ n \in Nat \ {0} /\ Ring(m, l, c) \in [1 .. n -> Groups(m, l, c)]
               /\ Ring(m, l, c)[1] = GroupSpan(m, l, c)
               /\ \A i \in 2 .. n : Ring(m, l, c)[i] \cap GroupSpan(m, l, c) = {}
               /\ \A g \in Groups(m, l, c) : \E i \in 1 .. n : Ring(m, l, c)[i] = g
               /\ \A i, j \in 1 .. n : i < j =>
                     Distance(c, Ring(m, l, c)[i]) < Distance(c, Ring(m, l, c)[j])
<1> DEFINE G == Groups(m, l, c)
           n == Cardinality(G)
           S == Span(m, l, c)
           Nearer(g) == {h \in G : Distance(c, h) <= Distance(c, g)}
           Place == [g \in G |-> Cardinality(Nearer(g))]
           local == GroupSpan(m, l, c)
<1>1. m.online \subseteq CPU /\ c \in S /\ S \subseteq CPU /\ c \in CPU BY SpanOf
<1>2. \A g \in G : \E x \in S : g = GroupSpan(m, l, x) BY DEF Groups
<1>3. /\ local \in G /\ c \in local
      /\ \A g \in G : g \subseteq CPU /\ g # {}
      /\ \A g, h \in G, x \in CPU : x \in g /\ x \in h => g = h
  <2>1. \A x \in S : GroupSpan(m, l, x) \in G BY DEF Groups
  <2>2. \A x \in S : /\ x \in GroupSpan(m, l, x) /\ GroupSpan(m, l, x) \subseteq S
                     /\ \A y \in GroupSpan(m, l, x) : GroupSpan(m, l, y) = GroupSpan(m, l, x)
    BY GroupOf
  <2> HIDE DEF S, G
  <2>3. local \in G /\ c \in local BY <1>1, <2>1, <2>2
  <2>4. ASSUME NEW g \in G PROVE g \subseteq CPU /\ g # {}
    <3>1. PICK x \in S : g = GroupSpan(m, l, x) BY <1>2
    <3> QED BY <1>1, <2>2, <3>1
  <2>5. ASSUME NEW g \in G, NEW h \in G, NEW x \in CPU, x \in g, x \in h PROVE g = h
    <3>1. PICK a \in S : g = GroupSpan(m, l, a) BY <1>2
    <3>2. PICK b \in S : h = GroupSpan(m, l, b) BY <1>2
    <3> QED BY <2>2, <2>5, <3>1, <3>2
  <2> QED BY <2>3, <2>4, <2>5
<1>4. IsFiniteSet(G)
  <2> DEFINE f == [x \in S |-> GroupSpan(m, l, x)]
  <2>1. IsFiniteSet(S)
    <3>1. IsFiniteSet(CPU) BY NrCpuAssumption, FS_Interval DEF CPU
    <3> QED BY <1>1, <3>1, FS_Subset
  <2>2. f \in Surjection(S, G) BY DEF Surjection, Groups
  <2> HIDE DEF S, G, f
  <2> QED BY <2>1, <2>2, FS_Surjection
<1> HIDE DEF G, S, local
<1>5. /\ \A g \in G : Distance(c, g) \in Nat /\ (Distance(c, g) = 0 <=> c \in g)
      /\ \A g, h \in G : Distance(c, g) = Distance(c, h) => g = h
  <2>1. ASSUME NEW g \in G
        PROVE  Distance(c, g) \in Nat /\ (Distance(c, g) = 0 <=> c \in g)
    <3>1. g \subseteq CPU /\ g # {} BY <1>3
    <3> QED BY <1>1, <3>1, DistanceOf
  <2>2. ASSUME NEW g \in G, NEW h \in G, Distance(c, g) = Distance(c, h) PROVE g = h
    <3>1. g \subseteq CPU /\ g # {} /\ h \subseteq CPU /\ h # {} BY <1>3
    <3>2. Distance(c, h) = Distance(c, g) BY <2>2
    <3>3. PICK x \in g : x \in h BY <1>1, <3>1, <3>2, DistanceOf
    <3> QED BY <1>3, <3>1, <3>3
  <2> QED BY <2>1, <2>2
<1>6. n \in Nat BY <1>4, FS_CardinalityType
<1>7. \A g \in G : IsFiniteSet(Nearer(g)) /\ Nearer(g) \subseteq G /\ g \in Nearer(g)
  <2>1. \A g \in G : Nearer(g) \subseteq G /\ g \in Nearer(g) BY <1>5
  <2> HIDE DEF Nearer
  <2> QED BY <1>4, <2>1, FS_Subset
<1>8. \A g \in G : Place[g] \in 1 .. n
  <2> SUFFICES ASSUME NEW g \in G PROVE Cardinality(Nearer(g)) \in 1 .. n
    OBVIOUS
  <2> HIDE DEF Nearer
  <2>1. Cardinality(Nearer(g)) \in Nat /\ Cardinality(Nearer(g)) <= n
    BY <1>4, <1>7, FS_CardinalityType, FS_Subset
  <2>2. Cardinality(Nearer(g)) # 0 BY <1>7, FS_EmptySet
  <2> QED BY <1>6, <2>1, <2>2
<1>9. ASSUME NEW g \in G, NEW h \in G, Place[g] = Place[h] PROVE g = h
  <2>1. ASSUME NEW a \in G, NEW b \in G, Place[a] = Place[b] PROVE ~(Distance(c, a) < Distance(c, b))
    <3> SUFFICES ASSUME Distance(c, a) < Distance(c, b) PROVE FALSE
      OBVIOUS
    <3>1. Nearer(a) \subseteq Nearer(b) /\ b \notin Nearer(a) /\ b \in Nearer(b)
      BY <1>5, <1>7
    <3>2. Cardinality(Nearer(a)) = Cardinality(Nearer(b)) BY <2>1
    <3> HIDE DEF Nearer
    <3>3. Nearer(a) = Nearer(b) BY <1>7, <3>1, <3>2, FS_Subset
    <3> QED BY <3>1, <3>3
  <2>2. ~(Distance(c, g) < Distance(c, h)) /\ ~(Distance(c, h) < Distance(c, g))
    BY <1>9, <2>1
  <2> HIDE DEF Place
  <2> QED BY <1>5, <2>2
<1>10. \A k \in 1 .. n : \E g \in G : Place[g] = k
  <2> HIDE DEF Place, n
  <2>1. Place \in Injection(G, 1 .. n) BY <1>8, <1>9 DEF Injection, IsInjective, Place
  <2>2. IsFiniteSet(1 .. n) /\ Cardinality(1 .. n) = n BY <1>6, FS_Interval
  <2>3. Place \in Surjection(G, 1 .. n) BY <2>1, <2>2, FS_Injection DEF n
  <2> QED BY <2>3 DEF Surjection
<1>11. Place[local] = 1
  <2>1. Nearer(local) = {local}
    <3>1. Distance(c, local) = 0 BY <1>3, <1>5
    <3>2. ASSUME NEW h \in G, Distance(c, h) <= 0 PROVE h = local
      <4>1. Distance(c, h) = 0 BY <1>5, <3>2
      <4> QED BY <1>3, <1>5, <3>1, <4>1
    <3> QED BY <1>3, <3>1, <3>2
  <2> HIDE DEF Nearer
  <2> QED BY <1>3, <2>1, FS_Singleton
<1>12. Ring(m, l, c) = [k \in 1 .. n |-> CHOOSE g \in G : Cardinality(Nearer(g)) = k]
  BY DEF Ring, G
<1>13. ASSUME NEW k \in 1 .. n
       PROVE  Ring(m, l, c)[k] \in G /\ Place[Ring(m, l, c)[k]] = k
  <2>1. \A g \in G : Place[g] = Cardinality(Nearer(g)) OBVIOUS
  <2>2. Ring(m, l, c)[k] = CHOOSE g \in G : Cardinality(Nearer(g)) = k BY <1>12
  <2> HIDE DEF Place, n, Nearer
  <2>3. \E g \in G : Cardinality(Nearer(g)) = k BY <1>10, <2>1
  <2> QED BY <2>1, <2>2, <2>3
<1> HIDE DEF Place, n
<1>14. n # 0 BY <1>3, <1>4, FS_EmptySet DEF n
<1>15. Ring(m, l, c)[1] = local
  <2>1. 1 \in 1 .. n BY <1>6, <1>14
  <2> QED BY <1>3, <1>9, <1>11, <1>13, <2>1
<1>16. ASSUME NEW k \in 2 .. n PROVE Ring(m, l, c)[k] \cap local = {}
  <2>1. k \in 1 .. n /\ k # 1 BY <1>6
  <2>2. Ring(m, l, c)[k] \in G /\ Ring(m, l, c)[k] # local BY <1>11, <1>13, <2>1
  <2> QED BY <1>3, <2>2
<1>17. ASSUME NEW g \in G PROVE \E k \in 1 .. n : Ring(m, l, c)[k] = g
  <2>1. Place[g] \in 1 .. n BY <1>8
  <2>2. Ring(m, l, c)[Place[g]] \in G /\ Place[Ring(m, l, c)[Place[g]]] = Place[g]
    BY <1>13, <2>1
  <2> QED BY <1>9, <2>1, <2>2
<1>18. ASSUME NEW i \in 1 .. n, NEW j \in 1 .. n, i < j
       PROVE  Distance(c, Ring(m, l, c)[i]) < Distance(c, Ring(m, l, c)[j])
  <2> DEFINE g == Ring(m, l, c)[i]
             h == Ring(m, l, c)[j]
  <2>1. g \in G /\ h \in G /\ Place[g] = i /\ Place[h] = j BY <1>13
  <2> HIDE DEF g, h
  <2>2. Distance(c, g) \in Nat /\ Distance(c, h) \in Nat BY <1>5, <2>1
  <2>3. ASSUME Distance(c, h) <= Distance(c, g) PROVE FALSE
    <3>1. Nearer(h) \subseteq Nearer(g) BY <1>5, <2>1, <2>2, <2>3
    <3>2. IsFiniteSet(Nearer(g)) BY <1>7, <2>1
    <3>3. Cardinality(Nearer(g)) = i /\ Cardinality(Nearer(h)) = j BY <2>1 DEF Place
    <3> HIDE DEF Nearer
    <3>4. Cardinality(Nearer(h)) <= Cardinality(Nearer(g)) BY <3>1, <3>2, FS_Subset
    <3> QED BY <1>6, <1>18, <3>3, <3>4
  <2> QED BY <2>2, <2>3 DEF g, h
<1> QED BY <1>6, <1>12, <1>13, <1>14, <1>15, <1>16, <1>17, <1>18 DEF G, n, local
=============================================================================
