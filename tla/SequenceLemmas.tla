--------------------------- MODULE SequenceLemmas ---------------------------
(* What the sequence operators the modules use return, element by element. *)
EXTENDS Integers, SequencesExt, SequenceTheorems, WellFoundedInduction, TLAPS

\* Cons puts one element in front and moves the others up by one place.
LEMMA ConsFacts ==
  ASSUME NEW S, NEW s \in Seq(S), NEW e \in S
  PROVE  /\ Cons(e, s) \in Seq(S)
         /\ Len(Cons(e, s)) = Len(s) + 1
         /\ Cons(e, s)[1] = e
         /\ \A i \in 1..Len(s) : Cons(e, s)[i + 1] = s[i]
         /\ \A i \in 2..(Len(s) + 1) : Cons(e, s)[i] = s[i - 1]
  BY DEF Cons

\* The same of all sequences at once: Cons moves every element up by one place.
LEMMA ConsShifts ==
  \A S : \A s \in Seq(S), e \in S : \A i \in 1..Len(s) : Cons(e, s)[i + 1] = s[i]
<1> SUFFICES ASSUME NEW S, NEW s \in Seq(S), NEW e \in S
             PROVE  \A i \in 1..Len(s) : Cons(e, s)[i + 1] = s[i]
  OBVIOUS
<1> QED BY ConsFacts

\* RemoveAt drops one element and moves the later ones down by one place.
LEMMA RemoveAtFacts ==
  ASSUME NEW S, NEW s \in Seq(S), NEW i \in 1..Len(s)
  PROVE  /\ RemoveAt(s, i) \in Seq(S)
         /\ Len(RemoveAt(s, i)) = Len(s) - 1
         /\ \A j \in 1..(i - 1) : RemoveAt(s, i)[j] = s[j]
         /\ \A j \in i..(Len(s) - 1) : RemoveAt(s, i)[j] = s[j + 1]
<1> DEFINE a == SubSeq(s, 1, i - 1)
           b == SubSeq(s, i + 1, Len(s))
<1>1. a \in Seq(S) /\ Len(a) = i - 1 /\ \A j \in 1..(i - 1) : a[j] = s[j]
  OBVIOUS
<1>2. b \in Seq(S) /\ Len(b) = Len(s) - i /\ \A j \in 1..(Len(s) - i) : b[j] = s[i + j]
  OBVIOUS
<1>3. RemoveAt(s, i) = a \o b
  BY DEF RemoveAt
<1> HIDE DEF a, b
<1>4. a \o b \in Seq(S) /\ Len(a \o b) = Len(s) - 1
  <2>1. a \o b \in Seq(S) /\ Len(a \o b) = Len(a) + Len(b)
    BY <1>1, <1>2, ConcatProperties
  <2>2. Len(s) \in Nat
    OBVIOUS
  <2> QED BY <1>1, <1>2, <2>1, <2>2
<1>5. \A j \in 1..(i - 1) : (a \o b)[j] = s[j]
  BY <1>1, <1>2
<1>6. \A j \in i..(Len(s) - 1) : (a \o b)[j] = s[j + 1]
  <2> SUFFICES ASSUME NEW j \in i..(Len(s) - 1) PROVE (a \o b)[j] = s[j + 1]
    OBVIOUS
  <2>1. (a \o b)[j] = b[j - (i - 1)]
    BY <1>1, <1>2
  <2>2. j - (i - 1) \in 1..(Len(s) - i) /\ i + (j - (i - 1)) = j + 1
    OBVIOUS
  <2> QED BY <1>2, <2>1, <2>2
<1> QED BY <1>3, <1>4, <1>5, <1>6

\* Front drops the last element, Last is that element.
LEMMA FrontFacts ==
  ASSUME NEW S, NEW s \in Seq(S), s # <<>>
  PROVE  /\ Front(s) \in Seq(S)
         /\ Len(Front(s)) = Len(s) - 1
         /\ Len(s) \in Nat /\ Len(s) >= 1
         /\ \A j \in 1..(Len(s) - 1) : Front(s)[j] = s[j]
         /\ Last(s) = s[Len(s)]
         /\ Last(s) \in S
<1>1. Len(s) \in Nat /\ Len(s) >= 1
  BY EmptySeq
<1>2. Front(s) \in Seq(S) /\ Len(Front(s)) = Len(s) - 1
  <2>1. 1 \in Int /\ Len(s) - 1 \in Int /\ \A j \in 1..(Len(s) - 1) : s[j] \in S
    BY <1>1
  <2>2. /\ SubSeq(s, 1, Len(s) - 1) \in Seq(S)
        /\ Len(SubSeq(s, 1, Len(s) - 1)) = IF 1 <= Len(s) - 1 THEN Len(s) - 1 - 1 + 1 ELSE 0
    BY <2>1, SubSeqProperties, SMT
  <2>3. ASSUME NEW n \in Nat, n >= 1 PROVE (IF 1 <= n - 1 THEN n - 1 - 1 + 1 ELSE 0) = n - 1
    BY <2>3
  <2>4. Len(SubSeq(s, 1, Len(s) - 1)) = Len(s) - 1
    BY <1>1, <2>2, <2>3, Zenon
  <2> QED BY <2>2, <2>4, Zenon DEF Front
<1>3. \A j \in 1..(Len(s) - 1) : Front(s)[j] = s[j]
  BY <1>1 DEF Front
<1>4. Last(s) = s[Len(s)] /\ Last(s) \in S
  BY <1>1 DEF Last
<1> QED BY <1>1, <1>2, <1>3, <1>4

\* ToSet in terms of positions.
LEMMA ToSetFacts ==
  ASSUME NEW S, NEW s \in Seq(S), NEW e
  PROVE  e \in ToSet(s) <=> \E i \in 1..Len(s) : s[i] = e
  BY DEF ToSet

\* IsInjective in terms of positions.
LEMMA InjectiveFacts ==
  ASSUME NEW S, NEW s \in Seq(S)
  PROVE  IsInjective(s) <=> \A i, j \in 1..Len(s) : s[i] = s[j] => i = j
  BY LenProperties DEF IsInjective

\* Taking an element out of a sequence without repetitions takes out all of it.
LEMMA RemoveAtElements ==
  ASSUME NEW S, NEW s \in Seq(S), NEW i \in 1..Len(s), IsInjective(s)
  PROVE  /\ IsInjective(RemoveAt(s, i))
         /\ \A e : Contains(RemoveAt(s, i), e) <=> Contains(s, e) /\ e # s[i]
<1> DEFINE r == RemoveAt(s, i)
<1>1. /\ Len(s) \in Nat /\ Len(r) = Len(s) - 1
      /\ \A j \in 1..(i - 1) : r[j] = s[j]
      /\ \A j \in i..(Len(s) - 1) : r[j] = s[j + 1]
  BY RemoveAtFacts, LenProperties
<1> HIDE DEF r
<1>2. IsInjective(r)
  <2> SUFFICES ASSUME NEW j \in 1..Len(r), NEW l \in 1..Len(r), r[j] = r[l] PROVE j = l
    BY DEF IsInjective
  <2>1. CASE j < i /\ l < i
    BY <1>1, <2>1, SMTT(30) DEF IsInjective
  <2>2. CASE j >= i /\ l >= i
    <3>1. s[j + 1] = s[l + 1] /\ j + 1 \in 1..Len(s) /\ l + 1 \in 1..Len(s)
      BY <1>1, <2>2
    <3>2. j + 1 = l + 1
      BY <3>1 DEF IsInjective
    <3> QED BY <3>2
  <2>3. CASE j < i /\ l >= i
    <3>1. s[j] = s[l + 1] /\ j \in 1..Len(s) /\ l + 1 \in 1..Len(s)
      BY <1>1, <2>3
    <3>2. j = l + 1
      BY <3>1 DEF IsInjective
    <3> QED BY <2>3, <3>2
  <2>4. CASE j >= i /\ l < i
    <3>1. s[j + 1] = s[l] /\ j + 1 \in 1..Len(s) /\ l \in 1..Len(s)
      BY <1>1, <2>4
    <3>2. j + 1 = l
      BY <3>1 DEF IsInjective
    <3> QED BY <2>4, <3>2
  <2> QED BY <2>1, <2>2, <2>3, <2>4
<1>3. ASSUME NEW e, Contains(r, e) PROVE Contains(s, e) /\ e # s[i]
  <2>1. PICK j \in 1..Len(r) : r[j] = e
    BY <1>3 DEF Contains
  <2>2. CASE j < i
    <3>1. j \in 1..Len(s) /\ s[j] = e /\ j # i
      BY <1>1, <2>1, <2>2
    <3> QED BY <3>1 DEF Contains, IsInjective
  <2>3. CASE j >= i
    <3>1. j + 1 \in 1..Len(s) /\ s[j + 1] = e /\ j + 1 # i
      BY <1>1, <2>1, <2>3
    <3> QED BY <3>1 DEF Contains, IsInjective
  <2> QED BY <2>2, <2>3
<1>4. ASSUME NEW e, Contains(s, e), e # s[i] PROVE Contains(r, e)
  <2>1. PICK j \in 1..Len(s) : s[j] = e
    BY <1>4 DEF Contains
  <2>2. CASE j < i
    <3>1. j \in 1..Len(r) /\ r[j] = e
      BY <1>1, <2>1, <2>2
    <3> QED BY <3>1 DEF Contains
  <2>3. CASE j > i
    <3>1. j - 1 \in 1..Len(r) /\ j - 1 \in i..(Len(s) - 1) /\ (j - 1) + 1 = j
      BY <1>1, <2>3
    <3>2. r[j - 1] = e
      BY <1>1, <2>1, <3>1
    <3> QED BY <3>1, <3>2 DEF Contains
  <2> QED BY <1>4, <2>1, <2>2, <2>3
<1> QED BY <1>2, <1>3, <1>4 DEF r

\* Putting a new element in front, or at the end.
LEMMA ConsElements ==
  ASSUME NEW S, NEW s \in Seq(S), NEW e \in S
  PROVE  /\ IsInjective(s) /\ ~Contains(s, e) => IsInjective(Cons(e, s))
         /\ \A x : Contains(Cons(e, s), x) <=> Contains(s, x) \/ x = e
<1> DEFINE c == Cons(e, s)
<1>1. /\ Len(s) \in Nat /\ Len(c) = Len(s) + 1 /\ c[1] = e
      /\ \A i \in 1..Len(s) : c[i + 1] = s[i]
      /\ \A i \in 2..(Len(s) + 1) : c[i] = s[i - 1]
  <2>1. Len(s) \in Nat
    BY LenProperties
  <2>2. Len(c) = Len(s) + 1 /\ c[1] = e
    BY ConsFacts
  <2>3. \A i \in 1..Len(s) : c[i + 1] = s[i]
    BY ConsFacts
  <2>4. \A i \in 2..(Len(s) + 1) : c[i] = s[i - 1]
    BY ConsFacts
  <2> QED BY <2>1, <2>2, <2>3, <2>4
<1> HIDE DEF c
<1>2. ASSUME IsInjective(s), ~Contains(s, e), NEW i \in 1..Len(c), NEW j \in 1..Len(c), c[i] = c[j]
      PROVE  i = j
  <2>1. \A l \in 1..Len(c) : l = 1 \/ (l \in 2..(Len(s) + 1) /\ l - 1 \in 1..Len(s))
    BY <1>1
  <2>2. \A l \in 2..(Len(s) + 1) : c[l] # e
    BY <1>1, <1>2, <2>1 DEF Contains
  <2>3. CASE i = 1 \/ j = 1
    BY <1>1, <1>2, <2>1, <2>2, <2>3
  <2>4. CASE i # 1 /\ j # 1
    <3>1. s[i - 1] = s[j - 1] /\ i - 1 \in 1..Len(s) /\ j - 1 \in 1..Len(s)
      BY <1>1, <1>2, <2>1, <2>4
    <3>2. i - 1 = j - 1
      BY <1>2, <3>1 DEF IsInjective
    <3> QED BY <3>2
  <2> QED BY <2>3, <2>4
<1>3. ASSUME NEW x, Contains(c, x) PROVE Contains(s, x) \/ x = e
  <2>1. PICK i \in 1..Len(c) : c[i] = x
    BY <1>3 DEF Contains
  <2>2. i = 1 \/ (i \in 2..(Len(s) + 1) /\ i - 1 \in 1..Len(s))
    BY <1>1
  <2> QED BY <1>1, <2>1, <2>2 DEF Contains
<1>4. ASSUME NEW x, Contains(s, x) \/ x = e PROVE Contains(c, x)
  <2>1. 1 \in 1..Len(c)
    BY <1>1
  <2>2. \A i \in 1..Len(s) : i + 1 \in 1..Len(c)
    BY <1>1
  <2> QED BY <1>1, <1>4, <2>1, <2>2 DEF Contains
<1> QED BY <1>2, <1>3, <1>4 DEF IsInjective, c

LEMMA AppendElements ==
  ASSUME NEW S, NEW s \in Seq(S), NEW e \in S
  PROVE  /\ IsInjective(s) /\ ~Contains(s, e) => IsInjective(Append(s, e))
         /\ \A x : Contains(Append(s, e), x) <=> Contains(s, x) \/ x = e
<1> DEFINE c == Append(s, e)
<1>1. /\ Len(s) \in Nat /\ Len(c) = Len(s) + 1 /\ c[Len(s) + 1] = e
      /\ \A i \in 1..Len(s) : c[i] = s[i]
  BY AppendProperties, LenProperties
<1> HIDE DEF c
<1>2. \A i \in 1..Len(c) : i \in 1..Len(s) \/ i = Len(s) + 1
  BY <1>1
<1>3. 1..Len(s) \subseteq 1..Len(c) /\ Len(s) + 1 \in 1..Len(c)
  BY <1>1
<1>4. \A x : Contains(c, x) <=> Contains(s, x) \/ x = e
  BY <1>1, <1>2, <1>3 DEF Contains
<1>5. IsInjective(s) /\ ~Contains(s, e) => IsInjective(c)
  BY <1>1, <1>2 DEF Contains, IsInjective
<1> QED BY <1>4, <1>5 DEF c

\* The least number of a set.
LEMMA LeastExists ==
  ASSUME NEW S \in SUBSET Nat, S # {}
  PROVE  \E x \in S : \A y \in S : x <= y
<1> DEFINE R == {ss \in Nat \X Nat : ss[1] < ss[2]}
<1>1. IsWellFoundedOn(R, Nat)
  BY NatLessThanWellFounded DEF OpToRel
<1>2. \E x \in S : \A y \in S : ~(<<y, x>> \in R)
  <2> HIDE DEF R
  <2> QED BY <1>1, WFMin
<1>3. PICK x \in S : \A y \in S : ~(<<y, x>> \in R)
  BY <1>2
<1>4. \A y \in S : ~(y < x)
  BY <1>3
<1>5. \A y \in S : y \in Nat /\ x \in Nat
  OBVIOUS
<1> QED BY <1>4, <1>5
=============================================================================
