--------------------------- MODULE SequenceLemmas ---------------------------
(***************************************************************************)
(* Facts about numbers and sequences that the proofs of more than one      *)
(* component rest on.                                                      *)
(***************************************************************************)
EXTENDS Integers, Sequences, SequencesExt, FiniteSetsExt, SequenceTheorems,
        Selection, WellFoundedInduction, TLAPS

-----------------------------------------------------------------------------
(* Induction.  The provers cannot instantiate the library's induction      *)
(* theorems, which take the formula as an operator.  What is proved by     *)
(* induction here is proved by the least number for which it fails.        *)

LEMMA LeastNumber ==
    ASSUME NEW T \in SUBSET Nat, T # {}
    PROVE  \E n \in T : \A m \in T : n <= m
<1> DEFINE R == OpToRel(<, Nat)
<1>1. IsWellFoundedOn(R, Nat)
  BY NatLessThanWellFounded
<1> HIDE DEF R
<1>2. PICK n \in T : \A m \in T : <<m, n>> \notin R
  BY <1>1, WFMin
<1>3. \A m \in T : ~(m < n)
  BY <1>2 DEF R, OpToRel
<1> QED
  BY <1>3

LEMMA MinMember ==
    ASSUME NEW T \in SUBSET Nat, T # {}
    PROVE  Min(T) \in T
<1>1. PICK n \in T : \A m \in T : n <= m
  BY LeastNumber
<1> QED
  BY <1>1, Zenon DEF Min

\* A set of numbers that holds 0 and with each number the next one, up to n.
LEMMA SetInduction ==
    ASSUME NEW n \in Nat, NEW T, 0 \in T,
           \A i \in 0..(n - 1) : i \in T => i + 1 \in T
    PROVE  0..n \subseteq T
<1> DEFINE Missing == {i \in 0..n : i \notin T}
<1> SUFFICES ASSUME Missing # {} PROVE FALSE
  OBVIOUS
<1>0. Missing \in SUBSET Nat
  OBVIOUS
<1> HIDE DEF Missing
<1>1. PICK i \in Missing : \A j \in Missing : i <= j
  BY <1>0, LeastNumber
<1> USE DEF Missing
<1>2. i # 0 /\ i - 1 \in 0..(n - 1) /\ i - 1 \notin Missing
  BY <1>1
<1>3. i - 1 \in T /\ (i - 1) + 1 = i
  BY <1>2
<1> QED
  BY <1>1, <1>2, <1>3

-----------------------------------------------------------------------------
(* What a sequence contains after the three operations of std::queue.      *)

\* ConcatAssociative of the library, quantified so that a proof can fix the set first.
LEMMA ConcatRegroups ==
  \A S : \A s, t, u \in Seq(S) : (s \o t) \o u = s \o (t \o u)
BY ConcatAssociative

LEMMA RangeAppend ==
    ASSUME NEW S, NEW s \in Seq(S), NEW e \in S
    PROVE  Range(Append(s, e)) = Range(s) \cup {e}
<1>1. /\ Append(s, e) \in Seq(S)
      /\ Len(Append(s, e)) = Len(s) + 1
      /\ \A i \in 1..Len(s) : Append(s, e)[i] = s[i]
      /\ Append(s, e)[Len(s) + 1] = e
  BY AppendProperties
<1>2. Len(s) \in Nat
  BY LenProperties
<1>3. /\ Range(s) = {s[i] : i \in 1..Len(s)}
      /\ Range(Append(s, e)) = {Append(s, e)[i] : i \in 1..(Len(s) + 1)}
  BY <1>1, RangeEquality
<1>4. 1..(Len(s) + 1) = 1..Len(s) \cup {Len(s) + 1}
  BY <1>2
<1> QED
  BY <1>1, <1>3, <1>4

LEMMA RangeHeadTail ==
    ASSUME NEW S, NEW s \in Seq(S), s # <<>>
    PROVE  Range(s) = {Head(s)} \cup Range(Tail(s))
<1>1. /\ Tail(s) \in Seq(S)
      /\ Len(Tail(s)) = Len(s) - 1
      /\ \A i \in 1..Len(Tail(s)) : Tail(s)[i] = s[i + 1]
  BY HeadTailProperties
<1>2. Len(s) \in Nat \ {0} /\ Head(s) = s[1]
  BY EmptySeq
<1>3. /\ Range(s) = {s[i] : i \in 1..Len(s)}
      /\ Range(Tail(s)) = {Tail(s)[i] : i \in 1..(Len(s) - 1)}
  BY <1>1, RangeEquality
<1>4. Range(Tail(s)) = {s[i + 1] : i \in 1..(Len(s) - 1)}
  BY <1>1, <1>2, <1>3
<1>5. \A i \in 1..Len(s) : i = 1 \/ (i - 1 \in 1..(Len(s) - 1) /\ i = (i - 1) + 1)
  BY <1>2
<1>6. Range(s) \subseteq {Head(s)} \cup Range(Tail(s))
  BY <1>2, <1>3, <1>4, <1>5
<1>7. {Head(s)} \cup Range(Tail(s)) \subseteq Range(s)
  BY <1>2, <1>3, <1>4
<1> QED
  BY <1>6, <1>7

LEMMA RangeEmpty == Range(<<>>) = {}
BY DEF Range

-----------------------------------------------------------------------------
(* Two queues read as one.                                                 *)

LEMMA HeadTailConcat ==
    ASSUME NEW S, NEW s \in Seq(S), NEW t \in Seq(S), s # <<>>
    PROVE  /\ s \o t # <<>>
           /\ Head(s \o t) = Head(s)
           /\ Tail(s \o t) = Tail(s) \o t
<1>1. /\ Head(s) \in S /\ Tail(s) \in Seq(S)
      /\ Len(Tail(s)) = Len(s) - 1
      /\ \A i \in 1..Len(Tail(s)) : Tail(s)[i] = s[i + 1]
  BY HeadTailProperties
<1>2. Len(s) \in Nat \ {0} /\ Len(t) \in Nat
  BY EmptySeq, LenProperties
<1>3. /\ s \o t \in Seq(S)
      /\ Len(s \o t) = Len(s) + Len(t)
      /\ \A i \in 1..Len(s) + Len(t) :
             (s \o t)[i] = IF i <= Len(s) THEN s[i] ELSE t[i - Len(s)]
  BY ConcatProperties
<1>4. s \o t # <<>>
  BY <1>2, <1>3, EmptySeq
<1>5. Head(s \o t) = Head(s)
  BY <1>2, <1>3, <1>4
<1>6. /\ Tail(s \o t) \in Seq(S)
      /\ Len(Tail(s \o t)) = Len(s) + Len(t) - 1
      /\ \A i \in 1..Len(Tail(s \o t)) : Tail(s \o t)[i] = (s \o t)[i + 1]
  BY <1>3, <1>4, HeadTailProperties
<1>7. /\ Tail(s) \o t \in Seq(S)
      /\ Len(Tail(s) \o t) = Len(Tail(s)) + Len(t)
      /\ \A i \in 1..Len(Tail(s)) + Len(t) :
             (Tail(s) \o t)[i] = IF i <= Len(Tail(s)) THEN Tail(s)[i]
                                 ELSE t[i - Len(Tail(s))]
  BY <1>1, ConcatProperties
<1>8. ASSUME NEW i \in 1..(Len(s) + Len(t) - 1)
      PROVE  Tail(s \o t)[i] = (Tail(s) \o t)[i]
  <2>1. Tail(s \o t)[i] = IF i + 1 <= Len(s) THEN s[i + 1] ELSE t[(i + 1) - Len(s)]
    BY <1>2, <1>3, <1>6
  <2>2. (Tail(s) \o t)[i] = IF i <= Len(s) - 1 THEN s[i + 1] ELSE t[i - (Len(s) - 1)]
    BY <1>1, <1>2, <1>7
  <2> QED
    BY <1>2, <2>1, <2>2
<1>9. Tail(s \o t) = Tail(s) \o t
  BY <1>1, <1>2, <1>6, <1>7, <1>8, SeqEqual
<1> QED
  BY <1>4, <1>5, <1>9

LEMMA SecondPart ==
    ASSUME NEW S, NEW s \in Seq(S), NEW t \in Seq(S)
    PROVE  SubSeq(s \o t, Len(s) + 1, Len(s \o t)) = t
<1>1. Len(s) \in Nat /\ Len(t) \in Nat /\ Len(s \o t) = Len(s) + Len(t)
  BY LenProperties, ConcatProperties
<1>2. CASE t = <<>>
  <2>1. Len(t) = 0
    BY <1>2, EmptySeq
  <2> QED
    BY <1>1, <1>2, <2>1, SubSeqEmpty
<1>3. CASE t # <<>>
  <2>1. Len(t) >= 1
    BY <1>3, EmptySeq
  <2>2. SubSeq(s \o t, Len(s) + 1, Len(s) + Len(t))
          = SubSeq(t, (Len(s) + 1) - Len(s), (Len(s) + Len(t)) - Len(s))
    BY <1>1, <2>1, SubSeqOfConcat2
  <2>3. SubSeq(t, (Len(s) + 1) - Len(s), (Len(s) + Len(t)) - Len(s)) = SubSeq(t, 1, Len(t))
    BY <1>1
  <2> QED
    BY <1>1, <2>2, <2>3, SubSeqFull
<1> QED
  BY <1>2, <1>3

LEMMA SeqIntersection ==
    ASSUME NEW A, NEW B, NEW s \in Seq(A \cap B)
    PROVE  s \in Seq(A) /\ s \in Seq(B)
<1>1. /\ Len(s) \in Nat /\ s \in [1..Len(s) -> A \cap B]
  BY LenProperties
<1>2. s \in [1..Len(s) -> A] /\ s \in [1..Len(s) -> B]
  BY <1>1
<1> QED
  BY <1>1, <1>2, SeqDef

\* A list of one element at the end of another.
LEMMA ConcatOne ==
    ASSUME NEW S, NEW s \in Seq(S), NEW t \in Seq(S), Len(t) = 1
    PROVE  s \o t = Append(s, t[1])
<1>0. Len(s) \in Nat /\ t[1] \in S
  <2>1. 1 \in 1..Len(t)
    OBVIOUS
  <2>2. t[1] \in S
    BY <2>1, ElementOfSeq
  <2>3. Len(s) \in Nat
    BY LenProperties
  <2> QED
    BY <2>2, <2>3
<1> DEFINE n == Len(t)
<1>1. n = 1
  OBVIOUS
<1>2. /\ s \o t \in Seq(S) /\ Len(s \o t) = Len(s) + n
      /\ \A i \in 1..Len(s) + n :
             (s \o t)[i] = IF i <= Len(s) THEN s[i] ELSE t[i - Len(s)]
  BY ConcatProperties, Zenon
<1> HIDE DEF n
<1>3. /\ s \o t \in Seq(S) /\ Len(s \o t) = Len(s) + 1
      /\ \A i \in 1..(Len(s) + 1) :
             (s \o t)[i] = IF i <= Len(s) THEN s[i] ELSE t[i - Len(s)]
  BY <1>1, <1>2
<1> DEFINE e == t[1]
           r == Append(s, e)
<1>4. /\ r \in Seq(S) /\ Len(r) = Len(s) + 1
      /\ \A i \in 1..Len(s) : r[i] = s[i]
      /\ r[Len(s) + 1] = e
  BY <1>0, AppendProperties
<1>5. ASSUME NEW i \in 1..(Len(s) + 1) PROVE (s \o t)[i] = r[i]
  <2> HIDE DEF r
  <2>1. CASE i <= Len(s)
    BY <1>0, <1>3, <1>4, <2>1
  <2>2. CASE i = Len(s) + 1
    <3>1. ~(i <= Len(s)) /\ i - Len(s) = 1 /\ i \in 1..(Len(s) + 1)
      BY <1>0, <2>2
    <3>2. (s \o t)[i] = t[1]
      BY <1>3, <3>1
    <3> QED
      BY <1>4, <2>2, <3>2
  <2>3. i <= Len(s) \/ i = Len(s) + 1
    BY <1>0
  <2> QED
    BY <2>1, <2>2, <2>3, Zenon
<1> HIDE DEF r
<1>6. s \o t = r
  BY <1>0, <1>3, <1>4, <1>5, SeqEqual
<1> QED
  BY <1>6 DEF r

-----------------------------------------------------------------------------
(* What RemoveAt leaves.                                                   *)

LEMMA RemoveAtProperties ==
    ASSUME NEW S, NEW s \in Seq(S), NEW i \in 1..Len(s)
    PROVE  /\ RemoveAt(s, i) \in Seq(S)
           /\ Len(RemoveAt(s, i)) = Len(s) - 1
           /\ \A j \in 1..(Len(s) - 1) :
                  RemoveAt(s, i)[j] = IF j < i THEN s[j] ELSE s[j + 1]
<1> DEFINE a == SubSeq(s, 1, i - 1)
           b == SubSeq(s, i + 1, Len(s))
<1>0. Len(s) \in Nat
  BY LenProperties
<1>1. /\ a \in Seq(S) /\ Len(a) = i - 1
      /\ \A j \in 1..(i - 1) : a[j] = s[j]
  BY <1>0
<1>2. /\ b \in Seq(S) /\ Len(b) = Len(s) - i
      /\ \A j \in 1..(Len(s) - i) : b[j] = s[j + i]
  BY <1>0
<1>3. RemoveAt(s, i) = a \o b
  BY DEF RemoveAt
<1> HIDE DEF a, b
<1>4. /\ a \o b \in Seq(S)
      /\ Len(a \o b) = Len(a) + Len(b)
      /\ \A j \in 1..(Len(a) + Len(b)) :
             (a \o b)[j] = IF j <= Len(a) THEN a[j] ELSE b[j - Len(a)]
  BY <1>1, <1>2, ConcatProperties
<1>5. ASSUME NEW j \in 1..(Len(s) - 1)
      PROVE  RemoveAt(s, i)[j] = IF j < i THEN s[j] ELSE s[j + 1]
  <2>1. CASE j < i
    <3>1. j \in 1..(i - 1) /\ j <= Len(a) /\ j \in 1..(Len(a) + Len(b))
      BY <1>0, <1>1, <1>2, <2>1
    <3>2. (a \o b)[j] = a[j]
      BY <1>4, <3>1
    <3>3. a[j] = s[j]
      BY <1>1, <3>1
    <3>4. RemoveAt(s, i)[j] = s[j]
      BY <1>3, <3>2, <3>3
    <3> QED
      BY <2>1, <3>4
  <2>2. CASE ~(j < i)
    <3>1. /\ j - (i - 1) \in 1..(Len(s) - i)
          /\ (j - (i - 1)) + i = j + 1
          /\ ~(j <= Len(a)) /\ j \in 1..(Len(a) + Len(b))
      <4> DEFINE n == Len(s)
      <4>1. n \in Nat /\ i \in 1..n /\ j \in 1..(n - 1) /\ i <= j
        BY <1>0, <2>2
      <4>2. Len(a) = i - 1 /\ Len(b) = n - i
        BY <1>1, <1>2
      <4> HIDE DEF n
      <4>3. /\ j - (i - 1) \in 1..(n - i)
            /\ (j - (i - 1)) + i = j + 1
            /\ ~(j <= i - 1) /\ j \in 1..((i - 1) + (n - i))
        BY <4>1, SMTT(30)
      <4> QED
        BY <4>2, <4>3, Zenon DEF n
    <3>2. (a \o b)[j] = b[j - Len(a)]
      BY <1>4, <3>1
    <3>3. b[j - (i - 1)] = s[(j - (i - 1)) + i]
      BY <1>2, <3>1
    <3>4. (a \o b)[j] = s[j + 1]
      BY <1>1, <3>1, <3>2, <3>3
    <3>5. RemoveAt(s, i)[j] = s[j + 1]
      BY <1>3, <3>4
    <3> QED
      BY <2>2, <3>5
  <2> QED
    BY <2>1, <2>2
<1> QED
  BY <1>0, <1>1, <1>2, <1>3, <1>4, <1>5

\* ToSet is Range by another name.
LEMMA ToSetRange == \A s : ToSet(s) = Range(s)
BY DEF ToSet, Range

LEMMA ToSetShort == ToSet(<<>>) = {} /\ \A e : ToSet(<<e>>) = {e}
BY DEF ToSet

LEMMA ToSetRemoveAt ==
    ASSUME NEW S, NEW s \in Seq(S), NEW i \in 1..Len(s)
    PROVE  ToSet(RemoveAt(s, i)) \subseteq ToSet(s)
<1> DEFINE r == RemoveAt(s, i)
<1>1. Len(s) \in Nat /\ DOMAIN s = 1..Len(s)
  BY LenProperties
<1>2. /\ r \in Seq(S) /\ Len(r) = Len(s) - 1
      /\ \A j \in 1..(Len(s) - 1) : r[j] = s[j] \/ r[j] = s[j + 1]
  BY <1>1, RemoveAtProperties
<1>3. \A j \in 1..(Len(s) - 1) : j \in 1..Len(s) /\ j + 1 \in 1..Len(s)
  BY <1>1
<1> HIDE DEF r
<1>4. DOMAIN r = 1..(Len(s) - 1)
  BY <1>2, LenProperties
<1>5. ToSet(r) \subseteq ToSet(s)
  BY <1>1, <1>2, <1>3, <1>4 DEF ToSet
<1> QED
  BY <1>5 DEF r

LEMMA ElementAt ==
    ASSUME NEW S, NEW s \in Seq(S), NEW i \in DOMAIN s
    PROVE  /\ i \in 1..Len(s) /\ Len(s) \in Nat
           /\ s[i] \in S
           /\ s # <<>>
<1>1. Len(s) \in Nat /\ DOMAIN s = 1..Len(s)
  BY LenProperties
<1>2. s[i] \in S
  BY <1>1, ElementOfSeq
<1>3. Len(s) # 0
  BY <1>1
<1> QED
  BY <1>1, <1>2, <1>3, EmptySeq

LEMMA OnlyElement ==
    ASSUME NEW S, NEW s \in Seq(S), s # <<>>, Len(s) <= 1
    PROVE  Head(s) \in S /\ ToSet(s) = {Head(s)}
<1>0. Len(s) \in Nat \ {0} /\ DOMAIN s = 1..Len(s)
  BY EmptySeq, LenProperties
<1>1. Len(s) = 1 /\ Head(s) \in S /\ DOMAIN s = 1..Len(s)
  BY <1>0, HeadTailProperties
<1>2. Head(s) = s[1]
  OBVIOUS
<1>3. \A i : i \in 1..Len(s) <=> i = 1
  BY <1>1
<1> QED
  BY <1>1, <1>2, <1>3 DEF ToSet

-----------------------------------------------------------------------------
(* What Selected takes from a list.                                        *)

LEMMA EmptySequence == Len(<<>>) = 0 /\ \A A : <<>> \in Seq(A)
BY EmptySeq

\* Selected goes through the list one element at a time.
LEMMA SelectedSteps ==
    ASSUME NEW A, NEW s \in Seq(A), NEW S
    PROVE  \E taken :
              /\ Selected(s, S) = taken[Len(s)]
              /\ taken[0] = <<>>
              /\ \A i \in 1..Len(s) :
                    taken[i] = IF s[i] \in S THEN Append(taken[i - 1], s[i])
                               ELSE taken[i - 1]
<1> DEFINE Element(i, v) == IF s[i] \in S THEN Append(v, s[i]) ELSE v
           Def(t) == [i \in 0..Len(s) |->
                         IF i = 0 THEN <<>>
                         ELSE IF s[i] \in S THEN Append(t[i - 1], s[i])
                         ELSE t[i - 1]]
           UpTo(t, n) == t[0] = <<>> /\ \A i \in 1..n : t[i] = Element(i, t[i - 1])
           Reached == {n \in 0..Len(s) : \E t : UpTo(t, n)}
           taken == CHOOSE t : t = Def(t)
<1>0. Len(s) \in Nat
  BY LenProperties
<1>1. 0..Len(s) \subseteq Reached
  <2>1. 0 \in Reached
    <3> DEFINE u == [i \in 0..0 |-> <<>>]
    <3>1. UpTo(u, 0)
      OBVIOUS
    <3> HIDE DEF UpTo, u
    <3> QED
      BY <1>0, <3>1
  <2>2. ASSUME NEW n \in 0..(Len(s) - 1), n \in Reached PROVE n + 1 \in Reached
    <3>1. PICK t : UpTo(t, n)
      BY <2>2
    <3> HIDE DEF Element
    <3> DEFINE u == [i \in 0..(n + 1) |-> IF i = n + 1 THEN Element(n + 1, t[n]) ELSE t[i]]
    <3>2. u[0] = <<>>
      BY <1>0, <3>1
    <3>3. \A i \in 1..n : u[i] = Element(i, u[i - 1])
      BY <1>0, <3>1
    <3>4. u[n + 1] = Element(n + 1, u[n])
      BY <1>0
    <3>5. \A i \in 1..(n + 1) : i \in 1..n \/ i = n + 1
      BY <1>0
    <3>6. (n + 1) - 1 = n
      BY <1>0
    <3> HIDE DEF u
    <3>7. UpTo(u, n + 1)
      BY <3>2, <3>3, <3>4, <3>5, <3>6
    <3>8. n + 1 \in 0..Len(s)
      BY <1>0
    <3> QED
      BY <3>7, <3>8
  <2> HIDE DEF Reached
  <2> QED
    BY <1>0, <2>1, <2>2, SetInduction
<1>2. \E t : t = Def(t)
  <2>1. PICK t : UpTo(t, Len(s))
    BY <1>0, <1>1
  <2> DEFINE u == [i \in 0..Len(s) |-> t[i]]
  <2>2. u = Def(u)
    <3>1. ASSUME NEW i \in 0..Len(s) PROVE u[i] = Def(u)[i]
      <4>1. CASE i = 0
        BY <1>0, <2>1, <4>1
      <4>2. CASE i # 0
        <5>1. i \in 1..Len(s) /\ i - 1 \in 0..Len(s)
          BY <1>0, <4>2
        <5> QED
          BY <2>1, <5>1, <4>2
      <4> QED
        BY <4>1, <4>2
    <3> QED
      BY <3>1
  <2> QED
    BY <2>2
<1>3. Selected(s, S) = taken[Len(s)]
  BY Zenon DEF Selected
<1>4. taken = Def(taken)
  <2> HIDE DEF Def
  <2> QED
    BY <1>2, Zenon
<1> HIDE DEF taken
<1>5. taken[0] = <<>>
  BY <1>0, <1>4
<1>6. ASSUME NEW i \in 1..Len(s)
      PROVE  taken[i] = IF s[i] \in S THEN Append(taken[i - 1], s[i]) ELSE taken[i - 1]
  <2>1. i \in 0..Len(s) /\ i # 0
    BY <1>0
  <2>2. taken[i] = Def(taken)[i]
    BY <1>4
  <2> QED
    BY <2>1, <2>2
<1> QED
  BY <1>3, <1>5, <1>6

LEMMA SelectedType ==
    ASSUME NEW A, NEW s \in Seq(A), NEW S
    PROVE  /\ Selected(s, S) \in Seq(A \cap S)
           /\ Len(Selected(s, S)) <= Len(s)
<1>1. PICK taken :
          /\ Selected(s, S) = taken[Len(s)]
          /\ taken[0] = <<>>
          /\ \A i \in 1..Len(s) :
                taken[i] = IF s[i] \in S THEN Append(taken[i - 1], s[i]) ELSE taken[i - 1]
  BY SelectedSteps
<1> DEFINE T == {i \in 0..Len(s) : taken[i] \in Seq(A \cap S) /\ Len(taken[i]) <= i}
<1>0. Len(s) \in Nat
  BY LenProperties
<1>2. 0 \in T
  <2> DEFINE none == <<>>
  <2>1. none \in Seq(A \cap S) /\ Len(none) = 0
    BY EmptySequence, Zenon
  <2>2. taken[0] = none
    BY <1>1
  <2> HIDE DEF none
  <2>3. taken[0] \in Seq(A \cap S) /\ Len(taken[0]) <= 0
    BY <2>1, <2>2
  <2>4. 0 \in 0..Len(s)
    BY <1>0
  <2> QED
    BY <2>3, <2>4, Zenon
<1>3. ASSUME NEW i \in 0..(Len(s) - 1), i \in T PROVE i + 1 \in T
  <2>1. i + 1 \in 1..Len(s) /\ (i + 1) - 1 = i /\ i + 1 \in 0..Len(s)
    BY <1>0
  <2>2. s[i + 1] \in A
    BY <2>1, ElementOfSeq
  <2>3. taken[i + 1] = IF s[i + 1] \in S THEN Append(taken[i], s[i + 1]) ELSE taken[i]
    BY <1>1, <2>1
  <2>4. taken[i] \in Seq(A \cap S) /\ Len(taken[i]) <= i /\ Len(taken[i]) \in Nat
    BY <1>3, LenProperties
  <2>5. CASE s[i + 1] \in S
    <3>1. taken[i + 1] \in Seq(A \cap S) /\ Len(taken[i + 1]) = Len(taken[i]) + 1
      BY <2>2, <2>3, <2>4, <2>5, AppendProperties
    <3> QED
      BY <2>1, <2>4, <3>1
  <2>6. CASE s[i + 1] \notin S
    BY <2>1, <2>3, <2>4, <2>6
  <2> QED
    BY <2>5, <2>6
<1> HIDE DEF T
<1>5. 0..Len(s) \subseteq T
  BY <1>0, <1>2, <1>3, SetInduction
<1>4. Len(s) \in T
  BY <1>0, <1>5
<1> QED
  BY <1>1, <1>4 DEF T

LEMMA SelectedEmpty ==
    ASSUME NEW A, NEW s \in Seq(A), NEW S
    PROVE  Len(s) = 0 => Selected(s, S) = <<>>
<1>1. PICK taken :
          /\ Selected(s, S) = taken[Len(s)]
          /\ taken[0] = <<>>
          /\ \A i \in 1..Len(s) :
                taken[i] = IF s[i] \in S THEN Append(taken[i - 1], s[i]) ELSE taken[i - 1]
  BY SelectedSteps
<1> QED
  BY <1>1

LEMMA SelectedNone == \A S : Selected(<<>>, S) = <<>>
BY EmptySequence, SelectedEmpty, Zenon

LEMMA SelectedAppend ==
    ASSUME NEW A, NEW s \in Seq(A), NEW e \in A, NEW S
    PROVE  Selected(Append(s, e), S) =
               IF e \in S THEN Append(Selected(s, S), e) ELSE Selected(s, S)
<1> DEFINE r == Append(s, e)
<1>0. /\ Len(s) \in Nat /\ r \in Seq(A) /\ Len(r) = Len(s) + 1
      /\ \A i \in 1..Len(s) : r[i] = s[i]
      /\ r[Len(s) + 1] = e
  BY LenProperties, AppendProperties
<1> HIDE DEF r
<1>1. PICK f : /\ Selected(s, S) = f[Len(s)]
               /\ f[0] = <<>>
               /\ \A i \in 1..Len(s) :
                     f[i] = IF s[i] \in S THEN Append(f[i - 1], s[i]) ELSE f[i - 1]
  BY SelectedSteps
<1>2. PICK g : /\ Selected(r, S) = g[Len(r)]
               /\ g[0] = <<>>
               /\ \A i \in 1..Len(r) :
                     g[i] = IF r[i] \in S THEN Append(g[i - 1], r[i]) ELSE g[i - 1]
  BY <1>0, SelectedSteps
<1> DEFINE T == {i \in 0..Len(s) : f[i] = g[i]}
<1>3. 0 \in T
  BY <1>0, <1>1, <1>2
<1>4. ASSUME NEW i \in 0..(Len(s) - 1), i \in T PROVE i + 1 \in T
  <2>1. i + 1 \in 1..Len(s) /\ (i + 1) - 1 = i /\ i + 1 \in 0..Len(s) /\ i + 1 \in 1..Len(r)
    BY <1>0
  <2>2. f[i + 1] = g[i + 1]
    BY <1>0, <1>1, <1>2, <1>4, <2>1
  <2> QED
    BY <2>1, <2>2
<1> HIDE DEF T
<1>10. 0..Len(s) \subseteq T
  BY <1>0, <1>3, <1>4, SetInduction
<1>5. Len(s) \in T
  BY <1>0, <1>10
<1>6. Len(s) + 1 \in 1..Len(r) /\ (Len(s) + 1) - 1 = Len(s)
  BY <1>0
<1>7. Selected(r, S) = IF e \in S THEN Append(g[Len(s)], e) ELSE g[Len(s)]
  BY <1>0, <1>2, <1>6
<1>8. g[Len(s)] = Selected(s, S)
  BY <1>1, <1>5 DEF T
<1> QED
  BY <1>7, <1>8 DEF r

\* Nothing is left out if all is in the set.
LEMMA SelectedAll ==
    ASSUME NEW A, NEW s \in Seq(A)
    PROVE  Selected(s, A) = s
<1>1. PICK f : /\ Selected(s, A) = f[Len(s)]
               /\ f[0] = <<>>
               /\ \A i \in 1..Len(s) :
                     f[i] = IF s[i] \in A THEN Append(f[i - 1], s[i]) ELSE f[i - 1]
  BY SelectedSteps
<1> DEFINE T == {i \in 0..Len(s) : /\ f[i] \in Seq(A) /\ Len(f[i]) = i
                                   /\ \A j \in 1..i : f[i][j] = s[j]}
<1>0. Len(s) \in Nat
  BY LenProperties
<1>2. 0 \in T
  <2> DEFINE none == <<>>
  <2>1. none \in Seq(A) /\ Len(none) = 0
    BY EmptySequence, Zenon
  <2>2. f[0] = none
    BY <1>1
  <2> HIDE DEF none
  <2>3. f[0] \in Seq(A) /\ Len(f[0]) = 0 /\ \A j \in 1..0 : f[0][j] = s[j]
    BY <2>1, <2>2
  <2>4. 0 \in 0..Len(s)
    BY <1>0
  <2> QED
    BY <2>3, <2>4, Zenon
<1>3. ASSUME NEW i \in 0..(Len(s) - 1), i \in T PROVE i + 1 \in T
  <2>1. i + 1 \in 1..Len(s) /\ (i + 1) - 1 = i /\ i + 1 \in 0..Len(s)
    BY <1>0
  <2>2. s[i + 1] \in A
    BY <2>1, ElementOfSeq
  <2>3. f[i + 1] = Append(f[i], s[i + 1])
    BY <1>1, <2>1, <2>2
  <2>4. f[i] \in Seq(A) /\ Len(f[i]) = i /\ \A j \in 1..i : f[i][j] = s[j]
    BY <1>3
  <2>5. /\ f[i + 1] \in Seq(A) /\ Len(f[i + 1]) = i + 1
        /\ \A j \in 1..i : f[i + 1][j] = f[i][j]
        /\ f[i + 1][i + 1] = s[i + 1]
    BY <2>2, <2>3, <2>4, AppendProperties
  <2>6. \A j \in 1..(i + 1) : j \in 1..i \/ j = i + 1
    BY <1>0
  <2>7. \A j \in 1..(i + 1) : f[i + 1][j] = s[j]
    BY <2>4, <2>5, <2>6
  <2> QED
    BY <2>1, <2>5, <2>7
<1> HIDE DEF T
<1>5. 0..Len(s) \subseteq T
  BY <1>0, <1>2, <1>3, SetInduction
<1>4. Len(s) \in T
  BY <1>0, <1>5
<1> QED
  BY <1>1, <1>4, SeqEqual DEF T

\* What Selected takes depends only on which elements of the list are in the set.
LEMMA SelectedSame ==
    ASSUME NEW A, NEW s \in Seq(A), NEW S, NEW R,
           \A i \in 1..Len(s) : s[i] \in S <=> s[i] \in R
    PROVE  Selected(s, S) = Selected(s, R)
<1>1. PICK f : /\ Selected(s, S) = f[Len(s)]
               /\ f[0] = <<>>
               /\ \A i \in 1..Len(s) :
                     f[i] = IF s[i] \in S THEN Append(f[i - 1], s[i]) ELSE f[i - 1]
  BY SelectedSteps
<1>2. PICK g : /\ Selected(s, R) = g[Len(s)]
               /\ g[0] = <<>>
               /\ \A i \in 1..Len(s) :
                     g[i] = IF s[i] \in R THEN Append(g[i - 1], s[i]) ELSE g[i - 1]
  BY SelectedSteps
<1> DEFINE T == {i \in 0..Len(s) : f[i] = g[i]}
<1>3. Len(s) \in Nat
  BY LenProperties
<1>4. 0 \in T
  BY <1>1, <1>2, <1>3
<1>5. ASSUME NEW i \in 0..(Len(s) - 1), i \in T PROVE i + 1 \in T
  <2>1. i + 1 \in 1..Len(s) /\ (i + 1) - 1 = i /\ i + 1 \in 0..Len(s)
    BY <1>3
  <2>2. f[i + 1] = g[i + 1]
    BY <1>1, <1>2, <1>5, <2>1
  <2> QED
    BY <2>1, <2>2
<1> HIDE DEF T
<1>6. 0..Len(s) \subseteq T
  BY <1>3, <1>4, <1>5, SetInduction
<1>7. Len(s) \in T
  BY <1>3, <1>6
<1> QED
  BY <1>1, <1>2, <1>7 DEF T

\* Selected takes every element of the list that is in the set, and no other.
LEMMA SelectedMembers ==
    ASSUME NEW A, NEW s \in Seq(A), NEW S
    PROVE  /\ ToSet(Selected(s, S)) \subseteq S
           /\ \A i \in 1..Len(s) : s[i] \in S => s[i] \in ToSet(Selected(s, S))
<1>1. PICK f : /\ Selected(s, S) = f[Len(s)]
               /\ f[0] = <<>>
               /\ \A i \in 1..Len(s) :
                     f[i] = IF s[i] \in S THEN Append(f[i - 1], s[i]) ELSE f[i - 1]
  BY SelectedSteps
<1> DEFINE T == {n \in 0..Len(s) :
                    /\ f[n] \in Seq(A \cap S)
                    /\ \A i \in 1..n : s[i] \in S => s[i] \in Range(f[n])}
<1>2. Len(s) \in Nat
  BY LenProperties
<1>3. 0 \in T
  <2> DEFINE none == <<>>
  <2>1. none \in Seq(A \cap S)
    BY EmptySequence, Zenon
  <2>2. f[0] = none
    BY <1>1
  <2> HIDE DEF none
  <2>3. f[0] \in Seq(A \cap S) /\ \A i \in 1..0 : s[i] \in S => s[i] \in Range(f[0])
    BY <2>1, <2>2
  <2>4. 0 \in 0..Len(s)
    BY <1>2
  <2> QED
    BY <2>3, <2>4, Zenon
<1>4. ASSUME NEW n \in 0..(Len(s) - 1), n \in T PROVE n + 1 \in T
  <2>1. n + 1 \in 1..Len(s) /\ (n + 1) - 1 = n /\ n + 1 \in 0..Len(s)
    BY <1>2
  <2>2. s[n + 1] \in A
    BY <2>1, ElementOfSeq
  <2>3. f[n + 1] = IF s[n + 1] \in S THEN Append(f[n], s[n + 1]) ELSE f[n]
    BY <1>1, <2>1
  <2>4. f[n] \in Seq(A \cap S) /\ \A i \in 1..n : s[i] \in S => s[i] \in Range(f[n])
    BY <1>4
  <2>5. \A i \in 1..(n + 1) : i \in 1..n \/ i = n + 1
    BY <1>2
  <2>6. CASE s[n + 1] \in S
    <3> DEFINE e == s[n + 1]
               u == f[n]
    <3>1. u \in Seq(A \cap S) /\ e \in A \cap S /\ f[n + 1] = Append(u, e)
      BY <2>2, <2>3, <2>4, <2>6
    <3> HIDE DEF e, u
    <3>2. Append(u, e) \in Seq(A \cap S) /\ Range(Append(u, e)) = Range(u) \cup {e}
      BY <3>1, AppendProperties, RangeAppend
    <3>3. \A i \in 1..(n + 1) : s[i] \in S => s[i] \in Range(f[n + 1])
      BY <2>4, <2>5, <3>1, <3>2, Zenon DEF e, u
    <3> QED
      BY <2>1, <3>1, <3>2, <3>3
  <2>7. CASE s[n + 1] \notin S
    BY <2>1, <2>3, <2>4, <2>5, <2>7
  <2> QED
    BY <2>6, <2>7
<1> HIDE DEF T
<1>5. 0..Len(s) \subseteq T
  BY <1>2, <1>3, <1>4, SetInduction
<1>6. Len(s) \in T
  BY <1>2, <1>5
<1> DEFINE r == Selected(s, S)
<1>7. /\ r \in Seq(A \cap S)
      /\ \A i \in 1..Len(s) : s[i] \in S => s[i] \in Range(r)
  BY <1>1, <1>6 DEF T
<1> HIDE DEF r
<1>8. Range(r) \subseteq S
  BY <1>7, RangeEquality, ElementOfSeq
<1>9. ToSet(r) = Range(r)
  BY ToSetRange
<1> QED
  BY <1>7, <1>8, <1>9 DEF r

\* Without what was taken the list is what it is without the set.
LEMMA SelectedRest ==
    ASSUME NEW A, NEW s \in Seq(A), NEW S
    PROVE  Selected(s, A \ ToSet(Selected(s, S))) = Selected(s, A \ S)
<1>1. \A i \in 1..Len(s) : s[i] \in S <=> s[i] \in ToSet(Selected(s, S))
  BY SelectedMembers
<1>2. \A i \in 1..Len(s) : s[i] \in A \ S <=> s[i] \in A \ ToSet(Selected(s, S))
  BY <1>1
<1> QED
  BY <1>2, SelectedSame
=============================================================================
