---------------------------- MODULE SelectionProofs ----------------------------
(***************************************************************************)
(* What is kept of a list: its elements, its order, and how keeping goes   *)
(* with appending, concatenating, cutting and keeping again.  Every proof  *)
(* is by induction on the length of a list, in the form NatInductionSet. *)
(***************************************************************************)
EXTENDS Selection, SequencesExt, FiniteSetTheorems, WellFoundedInduction, TLAPS

(* Every set of naturals that is not empty has a least element.             *)
LEMMA NatLeast ==
  ASSUME NEW T, T \subseteq Nat, T # {}
  PROVE  \E x \in T : \A y \in T : ~(y < x)
<1>1. \E x \in T : \A y \in T : ~(<<y, x>> \in OpToRel(<, Nat))
  BY NatLessThanWellFounded, WFMin
<1>2. \A x, y \in Nat : y < x => <<y, x>> \in OpToRel(<, Nat)
  BY DEF OpToRel
<1> QED
  BY <1>1, <1>2

(* Induction with a set of naturals in the place of a predicate.            *)
LEMMA NatInductionSet ==
  ASSUME NEW P, 0 \in P, \A n \in Nat : n \in P => n + 1 \in P
  PROVE  Nat \subseteq P
<1> SUFFICES ASSUME Nat \ P # {} PROVE FALSE
  OBVIOUS
<1>1. PICK x \in Nat \ P : \A y \in Nat \ P : ~(y < x)
  BY NatLeast
<1>2. x # 0 /\ x - 1 \in Nat
  BY <1>1
<1>3. x - 1 \in P
  BY <1>1, <1>2
<1> QED
  BY <1>1, <1>2, <1>3

(* Membership and repetition in a list that grows at its end.               *)
LEMMA ContainsAppend ==
  ASSUME NEW T, NEW s \in Seq(T), NEW x \in T
  PROVE  \A y : Contains(Append(s, x), y) <=> Contains(s, y) \/ y = x
<1>1. /\ Len(Append(s, x)) = Len(s) + 1 /\ Len(s) \in Nat
      /\ Append(s, x)[Len(s) + 1] = x
      /\ \A n \in 1..Len(s) : Append(s, x)[n] = s[n]
  OBVIOUS
<1>2. 1..(Len(s) + 1) = 1..Len(s) \cup {Len(s) + 1}
  BY <1>1
<1> QED
  BY <1>1, <1>2 DEF Contains

(* An appended element is new exactly when the list stays distinct.         *)
LEMMA DistinctAppend ==
  ASSUME NEW T, NEW s \in Seq(T), NEW x \in T
  PROVE  IsInjective(Append(s, x)) <=> IsInjective(s) /\ ~Contains(s, x)
<1>1. /\ Len(Append(s, x)) = Len(s) + 1 /\ Len(s) \in Nat
      /\ Append(s, x)[Len(s) + 1] = x
      /\ \A n \in 1..Len(s) : Append(s, x)[n] = s[n]
      /\ DOMAIN Append(s, x) = 1..(Len(s) + 1) /\ DOMAIN s = 1..Len(s)
  OBVIOUS
<1>2. 1..(Len(s) + 1) = 1..Len(s) \cup {Len(s) + 1}
      /\ Len(s) + 1 \notin 1..Len(s)
  BY <1>1
<1>3. IsInjective(Append(s, x)) => IsInjective(s) /\ ~Contains(s, x)
  BY <1>1, <1>2 DEF Contains, IsInjective
<1>4. IsInjective(s) /\ ~Contains(s, x) => IsInjective(Append(s, x))
  BY <1>1, <1>2 DEF Contains, IsInjective
<1> QED
  BY <1>3, <1>4

(* Appending to the right part of a concatenation.                          *)
LEMMA ConcatAppend ==
  ASSUME NEW T, NEW s \in Seq(T), NEW r \in Seq(T), NEW x \in T
  PROVE  s \o Append(r, x) = Append(s \o r, x)
OBVIOUS

(* kept is the function that Keep defines.                                  *)
KeepStep(prev, x, S) == IF x \in S THEN Append(prev, x) ELSE prev

KeptBy(f, s, S, m) ==
  f = [n \in 0..m |-> IF n = 0 THEN <<>> ELSE KeepStep(f[n - 1], s[n], S)]

(* There is a function that follows what is kept, element by element.       *)
LEMMA KeptExists ==
  ASSUME NEW s, NEW S, NEW m \in Nat
  PROVE  \E f : KeptBy(f, s, S, m)
<1> DEFINE P == {n \in Nat : \E f : KeptBy(f, s, S, n)}
<1>1. 0 \in P
  <2> DEFINE f == [n \in 0..0 |-> <<>>]
  <2>1. KeptBy(f, s, S, 0)
    BY DEF KeptBy
  <2> QED
    BY <2>1
<1>2. ASSUME NEW n \in Nat, n \in P PROVE n + 1 \in P
  <2>1. PICK f : KeptBy(f, s, S, n)
    BY <1>2
  <2> DEFINE g == [i \in 0..(n + 1) |->
                     IF i = n + 1 THEN KeepStep(f[n], s[n + 1], S) ELSE f[i]]
  <2>2. ASSUME NEW i \in 0..(n + 1)
        PROVE  g[i] = IF i = 0 THEN <<>> ELSE KeepStep(g[i - 1], s[i], S)
    <3>1. CASE i = n + 1
      BY <3>1
    <3>2. CASE i \in 1..n
      <4>1. f[i] = KeepStep(f[i - 1], s[i], S)
        BY <2>1, <3>2 DEF KeptBy
      <4>2. g[i] = f[i] /\ g[i - 1] = f[i - 1]
        BY <3>2
      <4> QED
        BY <3>2, <4>1, <4>2
    <3>3. CASE i = 0
      BY <2>1, <3>3 DEF KeptBy
    <3> QED
      BY <3>1, <3>2, <3>3
  <2>3. KeptBy(g, s, S, n + 1)
    <3> HIDE DEF g
    <3>1. DOMAIN g = 0..(n + 1) /\ g = [i \in 0..(n + 1) |-> g[i]]
      BY DEF g
    <3> QED
      BY <2>2, <3>1 DEF KeptBy
  <2> QED
    BY <2>3
<1>3. Nat \subseteq P
  <2> HIDE DEF P
  <2> QED
    BY <1>1, <1>2, NatInductionSet
<1> QED
  BY <1>3

(* What is kept of a prefix does not depend on what comes after it.         *)
LEMMA KeptUnique ==
  ASSUME NEW s, NEW r, NEW S, NEW m \in Nat, NEW k \in 0..m, NEW f, NEW g,
         KeptBy(f, s, S, m), KeptBy(g, r, S, k),
         \A n \in 1..k : s[n] = r[n]
  PROVE  f[k] = g[k]
<1> DEFINE P == {n \in Nat : n <= k => f[n] = g[n]}
<1>1. 0 \in P
  BY DEF KeptBy
<1>2. ASSUME NEW n \in Nat, n \in P PROVE n + 1 \in P
  <2>1. CASE n + 1 <= k
    <3>1. f[n] = g[n]
      BY <1>2, <2>1
    <3>2. n + 1 \in 0..m /\ n + 1 \in 0..k /\ n + 1 # 0 /\ (n + 1) - 1 = n
      BY <2>1
    <3>3. f[n + 1] = KeepStep(f[n], s[n + 1], S)
      BY <3>2 DEF KeptBy
    <3>4. g[n + 1] = KeepStep(g[n], r[n + 1], S)
      BY <3>2 DEF KeptBy
    <3>5. s[n + 1] = r[n + 1]
      BY <2>1
    <3> QED
      BY <3>1, <3>3, <3>4, <3>5
  <2> QED
    BY <2>1
<1>3. Nat \subseteq P
  <2> HIDE DEF P
  <2> QED
    BY <1>1, <1>2, NatInductionSet
<1> QED
  BY <1>3

(* The value of Keep, through the function that computes it.                *)
LEMMA KeepIsKept ==
  ASSUME NEW T, NEW s \in Seq(T), NEW S
  PROVE  \E f : KeptBy(f, s, S, Len(s)) /\ Keep(s, S) = f[Len(s)]
<1>0. Len(s) \in Nat
  OBVIOUS
<1>1. PICK f : KeptBy(f, s, S, Len(s))
  BY <1>0, KeptExists
<1> DEFINE h == CHOOSE h : h = [n \in 0..Len(s) |->
                    IF n = 0 THEN <<>>
                    ELSE IF s[n] \in S THEN Append(h[n - 1], s[n])
                    ELSE h[n - 1]]
<1>2. \E q : q = [n \in 0..Len(s) |->
                    IF n = 0 THEN <<>>
                    ELSE IF s[n] \in S THEN Append(q[n - 1], s[n])
                    ELSE q[n - 1]]
  BY <1>1 DEF KeptBy, KeepStep
<1>3. h = [n \in 0..Len(s) |->
                    IF n = 0 THEN <<>>
                    ELSE IF s[n] \in S THEN Append(h[n - 1], s[n])
                    ELSE h[n - 1]]
  BY <1>2
<1>4. Keep(s, S) = h[Len(s)]
  BY DEF Keep
<1> HIDE DEF h
<1>5. KeptBy(h, s, S, Len(s))
  BY <1>3 DEF KeptBy, KeepStep
<1> QED
  BY <1>4, <1>5

(* Nothing is kept of the empty list.                                       *)
LEMMA KeepEmpty == ASSUME NEW S PROVE Keep(<<>>, S) = <<>>
<1>1. <<>> \in Seq({}) /\ Len(<<>>) = 0
  OBVIOUS
<1>2. PICK f : KeptBy(f, <<>>, S, 0) /\ Keep(<<>>, S) = f[0]
  BY <1>1, KeepIsKept
<1> QED
  BY <1>2 DEF KeptBy

(* What is appended is kept or not, behind what was kept already.           *)
LEMMA KeepAppend ==
  ASSUME NEW T, NEW s \in Seq(T), NEW x \in T, NEW S
  PROVE  Keep(Append(s, x), S) =
           IF x \in S THEN Append(Keep(s, S), x) ELSE Keep(s, S)
<1> DEFINE a == Append(s, x)
<1>1. /\ a \in Seq(T) /\ Len(a) = Len(s) + 1 /\ Len(s) \in Nat
      /\ a[Len(s) + 1] = x
      /\ \A n \in 1..Len(s) : a[n] = s[n]
  OBVIOUS
<1> HIDE DEF a
<1>2. PICK f : KeptBy(f, a, S, Len(a)) /\ Keep(a, S) = f[Len(a)]
  BY <1>1, KeepIsKept
<1>3. PICK g : KeptBy(g, s, S, Len(s)) /\ Keep(s, S) = g[Len(s)]
  BY KeepIsKept
<1>4. f[Len(s)] = g[Len(s)]
  <2>1. Len(s) \in 0..Len(a) /\ Len(a) \in Nat
    BY <1>1
  <2> QED
    BY <1>1, <1>2, <1>3, <2>1, KeptUnique
<1>5. f[Len(s) + 1] = KeepStep(f[Len(s)], x, S)
  <2>1. Len(s) + 1 \in 0..Len(a) /\ Len(s) + 1 # 0 /\ (Len(s) + 1) - 1 = Len(s)
    BY <1>1
  <2> QED
    BY <1>1, <1>2, <2>1 DEF KeptBy
<1> QED
  BY <1>1, <1>2, <1>3, <1>4, <1>5 DEF KeepStep, a

(* Induction on a list that grows at its end.                               *)
LEMMA ListInduction ==
  ASSUME NEW T, NEW P, <<>> \in P,
         \A s \in Seq(T), x \in T : s \in P => Append(s, x) \in P
  PROVE  Seq(T) \subseteq P
<1> DEFINE Q == {n \in Nat : \A s \in Seq(T) : Len(s) = n => s \in P}
<1>1. 0 \in Q
  <2>1. ASSUME NEW s \in Seq(T), Len(s) = 0 PROVE s = <<>>
    BY <2>1
  <2> QED
    BY <2>1
<1>2. ASSUME NEW n \in Nat, n \in Q PROVE n + 1 \in Q
  <2> SUFFICES ASSUME NEW s \in Seq(T), Len(s) = n + 1 PROVE s \in P
    OBVIOUS
  <2> DEFINE r == SubSeq(s, 1, n)
  <2>1. r \in Seq(T) /\ Len(r) = n /\ s[n + 1] \in T
    OBVIOUS
  <2>2. s = Append(r, s[n + 1])
    OBVIOUS
  <2>3. r \in P
    BY <1>2, <2>1
  <2> HIDE DEF r
  <2> QED
    BY <2>1, <2>2, <2>3
<1>3. Nat \subseteq Q
  <2> HIDE DEF Q
  <2> QED
    BY <1>1, <1>2, NatInductionSet
<1>4. ASSUME NEW s \in Seq(T) PROVE s \in P
  BY <1>3
<1> QED
  BY <1>4

(* What is kept are elements of the list that pass the test.                *)
LEMMA KeepType ==
  ASSUME NEW T, NEW s \in Seq(T), NEW S
  PROVE  Keep(s, S) \in Seq(T) /\ Keep(s, S) \in Seq(T \cap S)
<1> DEFINE P == {r \in Seq(T) : Keep(r, S) \in Seq(T \cap S)}
<1>1. <<>> \in P
  <2>1. <<>> \in Seq(T) /\ <<>> \in Seq(T \cap S)
    OBVIOUS
  <2> QED
    BY <2>1, KeepEmpty
<1>2. ASSUME NEW r \in Seq(T), NEW x \in T, r \in P PROVE Append(r, x) \in P
  <2>1. Keep(Append(r, x), S) =
          IF x \in S THEN Append(Keep(r, S), x) ELSE Keep(r, S)
    BY KeepAppend
  <2>2. Keep(r, S) \in Seq(T \cap S) /\ Append(r, x) \in Seq(T)
    BY <1>2
  <2>3. x \in S => Append(Keep(r, S), x) \in Seq(T \cap S)
    BY <2>2
  <2>4. Keep(Append(r, x), S) \in Seq(T \cap S)
    BY <2>1, <2>2, <2>3
  <2> QED
    BY <2>2, <2>4
<1>3. Seq(T) \subseteq P
  <2> HIDE DEF P
  <2> QED
    BY <1>1, <1>2, ListInduction
<1>4. Keep(s, S) \in Seq(T \cap S)
  BY <1>3
<1> QED
  BY <1>4

(* An element is kept exactly when it is in the list and passes the test.   *)
LEMMA KeepContains ==
  ASSUME NEW T, NEW s \in Seq(T), NEW S
  PROVE  \A y : Contains(Keep(s, S), y) <=> Contains(s, y) /\ y \in S
<1> DEFINE P == {r \in Seq(T) : \A y :
                   Contains(Keep(r, S), y) <=> Contains(r, y) /\ y \in S}
<1>1. <<>> \in P
  BY KeepEmpty DEF Contains
<1>2. ASSUME NEW r \in Seq(T), NEW x \in T, r \in P PROVE Append(r, x) \in P
  <2>1. Keep(Append(r, x), S) =
          IF x \in S THEN Append(Keep(r, S), x) ELSE Keep(r, S)
    BY KeepAppend
  <2>2. Keep(r, S) \in Seq(T)
    BY KeepType
  <2>3. \A y : Contains(Append(r, x), y) <=> Contains(r, y) \/ y = x
    BY ContainsAppend
  <2>4. \A y : Contains(Append(Keep(r, S), x), y)
                 <=> Contains(Keep(r, S), y) \/ y = x
    BY <2>2, ContainsAppend
  <2>5. \A y : Contains(Keep(Append(r, x), S), y)
                 <=> Contains(Append(r, x), y) /\ y \in S
    BY <1>2, <2>1, <2>3, <2>4
  <2>6. Append(r, x) \in Seq(T)
    OBVIOUS
  <2> QED
    BY <2>5, <2>6
<1>3. Seq(T) \subseteq P
  <2> HIDE DEF P
  <2> QED
    BY <1>1, <1>2, ListInduction
<1> QED
  BY <1>3

(* Keeping goes element by element over a concatenation.                    *)
LEMMA KeepConcat ==
  ASSUME NEW T, NEW s \in Seq(T), NEW r \in Seq(T), NEW S
  PROVE  Keep(s \o r, S) = Keep(s, S) \o Keep(r, S)
<1> DEFINE P == {q \in Seq(T) : Keep(s \o q, S) = Keep(s, S) \o Keep(q, S)}
<1>0. Keep(s, S) \in Seq(T)
  BY KeepType
<1>1. <<>> \in P
  BY <1>0, KeepEmpty
<1>2. ASSUME NEW q \in Seq(T), NEW x \in T, q \in P PROVE Append(q, x) \in P
  <2>1. Keep(Append(q, x), S) =
          IF x \in S THEN Append(Keep(q, S), x) ELSE Keep(q, S)
    BY KeepAppend
  <2>2. s \o q \in Seq(T) /\ s \o Append(q, x) = Append(s \o q, x)
    BY ConcatAppend
  <2>3. Keep(s \o Append(q, x), S) =
          IF x \in S THEN Append(Keep(s \o q, S), x) ELSE Keep(s \o q, S)
    BY <2>2, KeepAppend
  <2>4. Keep(q, S) \in Seq(T)
    BY KeepType
  <2>8. Append(q, x) \in Seq(T)
    OBVIOUS
  <2>5. Keep(s, S) \o Append(Keep(q, S), x) = Append(Keep(s, S) \o Keep(q, S), x)
    BY <1>0, <2>4, ConcatAppend
  <2>6. Keep(s \o q, S) = Keep(s, S) \o Keep(q, S)
    BY <1>2
  <2>7. Keep(s \o Append(q, x), S) = Keep(s, S) \o Keep(Append(q, x), S)
    BY <2>1, <2>3, <2>5, <2>6
  <2> QED
    BY <2>7, <2>8
<1>3. Seq(T) \subseteq P
  <2> HIDE DEF P
  <2> QED
    BY <1>1, <1>2, ListInduction
<1> QED
  BY <1>3

(* Keeping twice is keeping what passes both tests.                         *)
LEMMA KeepKeep ==
  ASSUME NEW T, NEW s \in Seq(T), NEW S, NEW R
  PROVE  Keep(Keep(s, S), R) = Keep(s, S \cap R)
<1> DEFINE P == {q \in Seq(T) : Keep(Keep(q, S), R) = Keep(q, S \cap R)}
<1>1. <<>> \in P
  BY KeepEmpty
<1>2. ASSUME NEW q \in Seq(T), NEW x \in T, q \in P PROVE Append(q, x) \in P
  <2>1. /\ Keep(Append(q, x), S) =
             IF x \in S THEN Append(Keep(q, S), x) ELSE Keep(q, S)
        /\ Keep(Append(q, x), S \cap R) =
             IF x \in S \cap R THEN Append(Keep(q, S \cap R), x)
                               ELSE Keep(q, S \cap R)
    BY KeepAppend
  <2>2. Keep(q, S) \in Seq(T)
    BY KeepType
  <2>3. Keep(Append(Keep(q, S), x), R) =
          IF x \in R THEN Append(Keep(Keep(q, S), R), x)
                     ELSE Keep(Keep(q, S), R)
    BY <2>2, KeepAppend
  <2>4. Append(q, x) \in Seq(T)
    OBVIOUS
  <2>5. Keep(Keep(q, S), R) = Keep(q, S \cap R)
    BY <1>2
  <2>6. Keep(Keep(Append(q, x), S), R) = Keep(Append(q, x), S \cap R)
    <3>1. CASE x \in S
      <4>1. Keep(Append(q, x), S) = Append(Keep(q, S), x)
        BY <2>1, <3>1
      <4>2. x \in S \cap R <=> x \in R
        BY <3>1
      <4>3. Keep(Append(q, x), S \cap R) =
              IF x \in R THEN Append(Keep(q, S \cap R), x)
                         ELSE Keep(q, S \cap R)
        BY <2>1, <4>2
      <4>4. Keep(Append(Keep(q, S), x), R) =
              IF x \in R THEN Append(Keep(q, S \cap R), x)
                         ELSE Keep(q, S \cap R)
        BY <2>3, <2>5
      <4> QED
        BY <4>1, <4>3, <4>4
    <3>2. CASE x \notin S
      BY <2>1, <2>5, <3>2
    <3> QED
      BY <3>1, <3>2
  <2> QED
    BY <2>4, <2>6
<1>3. Seq(T) \subseteq P
  <2> HIDE DEF P
  <2> QED
    BY <1>1, <1>2, ListInduction
<1> QED
  BY <1>3

(* Two tests that agree on the elements of the list keep the same.          *)
LEMMA KeepSame ==
  ASSUME NEW T, NEW s \in Seq(T), NEW S, NEW R,
         \A y : Contains(s, y) => (y \in S <=> y \in R)
  PROVE  Keep(s, S) = Keep(s, R)
<1> DEFINE P == {q \in Seq(T) : (\A y : Contains(q, y) => (y \in S <=> y \in R))
                                  => Keep(q, S) = Keep(q, R)}
<1>1. <<>> \in P
  BY KeepEmpty
<1>2. ASSUME NEW q \in Seq(T), NEW x \in T, q \in P PROVE Append(q, x) \in P
  <2>1. /\ Keep(Append(q, x), S) =
             IF x \in S THEN Append(Keep(q, S), x) ELSE Keep(q, S)
        /\ Keep(Append(q, x), R) =
             IF x \in R THEN Append(Keep(q, R), x) ELSE Keep(q, R)
    BY KeepAppend
  <2>2. \A y : Contains(Append(q, x), y) <=> Contains(q, y) \/ y = x
    BY ContainsAppend
  <2>3. Append(q, x) \in Seq(T)
    OBVIOUS
  <2>4. (\A y : Contains(Append(q, x), y) => (y \in S <=> y \in R))
          => Keep(Append(q, x), S) = Keep(Append(q, x), R)
    <3> SUFFICES ASSUME \A y : Contains(Append(q, x), y) => (y \in S <=> y \in R)
                 PROVE  Keep(Append(q, x), S) = Keep(Append(q, x), R)
      OBVIOUS
    <3>1. x \in S <=> x \in R
      BY <2>2
    <3>2. Keep(q, S) = Keep(q, R)
      BY <1>2, <2>2
    <3> QED
      BY <2>1, <3>1, <3>2
  <2> QED
    BY <2>3, <2>4
<1>3. Seq(T) \subseteq P
  <2> HIDE DEF P
  <2> QED
    BY <1>1, <1>2, ListInduction
<1> QED
  BY <1>3

(* A test that every element passes keeps the whole list.                   *)
LEMMA KeepAll ==
  ASSUME NEW T, NEW s \in Seq(T), NEW S, \A y : Contains(s, y) => y \in S
  PROVE  Keep(s, S) = s
<1> DEFINE P == {q \in Seq(T) : Keep(q, T) = q}
<1>1. <<>> \in P
  BY KeepEmpty
<1>2. ASSUME NEW q \in Seq(T), NEW x \in T, q \in P PROVE Append(q, x) \in P
  BY <1>2, KeepAppend
<1>3. Seq(T) \subseteq P
  <2> HIDE DEF P
  <2> QED
    BY <1>1, <1>2, ListInduction
<1>4. Keep(s, T) = s
  BY <1>3
<1>5. \A y : Contains(s, y) => y \in T
  BY DEF Contains
<1> QED
  BY <1>4, <1>5, KeepSame

(* A test that no element passes keeps nothing.                             *)
LEMMA KeepNone ==
  ASSUME NEW T, NEW s \in Seq(T), NEW S, \A y : Contains(s, y) => y \notin S
  PROVE  Keep(s, S) = <<>>
<1>1. Keep(s, S) \in Seq(T)
  BY KeepType
<1>2. \A y : ~Contains(Keep(s, S), y)
  BY KeepContains
<1>3. ASSUME Keep(s, S) # <<>> PROVE FALSE
  <2>1. Len(Keep(s, S)) # 0 /\ Len(Keep(s, S)) \in Nat
    BY <1>1, <1>3
  <2>2. Contains(Keep(s, S), Keep(s, S)[1])
    BY <2>1 DEF Contains
  <2> QED
    BY <1>2, <2>2
<1> QED
  BY <1>3

(* No more is kept than there is.                                           *)
LEMMA KeepLength ==
  ASSUME NEW T, NEW s \in Seq(T), NEW S
  PROVE  Len(Keep(s, S)) \in Nat /\ Len(Keep(s, S)) <= Len(s)
<1> DEFINE P == {q \in Seq(T) : Len(Keep(q, S)) <= Len(q)}
<1>1. <<>> \in P
  BY KeepEmpty
<1>2. ASSUME NEW q \in Seq(T), NEW x \in T, q \in P PROVE Append(q, x) \in P
  <2>1. Keep(q, S) \in Seq(T)
    BY KeepType
  <2>2. Keep(Append(q, x), S) =
          IF x \in S THEN Append(Keep(q, S), x) ELSE Keep(q, S)
    BY KeepAppend
  <2>3. Len(Keep(q, S)) <= Len(q) /\ Len(Keep(q, S)) \in Nat /\ Len(q) \in Nat
    BY <1>2, <2>1
  <2>4. Len(Append(Keep(q, S), x)) = Len(Keep(q, S)) + 1
    BY <2>1
  <2>5. Len(Append(q, x)) = Len(q) + 1 /\ Append(q, x) \in Seq(T)
    OBVIOUS
  <2>6. Len(Keep(Append(q, x), S)) <= Len(Append(q, x))
    BY <2>2, <2>3, <2>4, <2>5
  <2> QED
    BY <2>5, <2>6
<1>3. Seq(T) \subseteq P
  <2> HIDE DEF P
  <2> QED
    BY <1>1, <1>2, ListInduction
<1>4. Keep(s, S) \in Seq(T)
  BY KeepType
<1> QED
  BY <1>3, <1>4

(* A list without repetitions has none in what is kept of it.               *)
LEMMA KeepDistinct ==
  ASSUME NEW T, NEW s \in Seq(T), NEW S, IsInjective(s)
  PROVE  IsInjective(Keep(s, S))
<1> DEFINE P == {q \in Seq(T) : IsInjective(q) => IsInjective(Keep(q, S))}
<1>1. <<>> \in P
  BY KeepEmpty DEF IsInjective
<1>2. ASSUME NEW q \in Seq(T), NEW x \in T, q \in P PROVE Append(q, x) \in P
  <2>0. Keep(q, S) \in Seq(T)
    BY KeepType
  <2>1. IsInjective(Append(q, x)) <=> IsInjective(q) /\ ~Contains(q, x)
    BY DistinctAppend
  <2>2. IsInjective(Append(Keep(q, S), x))
          <=> IsInjective(Keep(q, S)) /\ ~Contains(Keep(q, S), x)
    BY <2>0, DistinctAppend
  <2>3. Contains(Keep(q, S), x) => Contains(q, x)
    BY KeepContains
  <2>4. Keep(Append(q, x), S) =
          IF x \in S THEN Append(Keep(q, S), x) ELSE Keep(q, S)
    BY KeepAppend
  <2>5. IsInjective(Append(q, x)) => IsInjective(Keep(Append(q, x), S))
    BY <1>2, <2>1, <2>2, <2>3, <2>4
  <2>6. Append(q, x) \in Seq(T)
    OBVIOUS
  <2> QED
    BY <2>5, <2>6
<1>3. Seq(T) \subseteq P
  <2> HIDE DEF P
  <2> QED
    BY <1>1, <1>2, ListInduction
<1> QED
  BY <1>3

(* The lists of all the elements of a finite set, each once.                *)
LEMMA ListingHas ==
  ASSUME NEW S, IsFiniteSet(S), NEW q \in SetToSeqs(S)
  PROVE  /\ q \in Seq(S)
         /\ IsInjective(q)
         /\ \A y : Contains(q, y) <=> y \in S
<1> DEFINE n == Cardinality(S)
<1>1. n \in Nat
  BY FS_CardinalityType
<1>2. q \in [1..n -> S] /\ \A i, j \in 1..n : i # j => q[i] # q[j]
  BY DEF SetToSeqs
<1>3. q \in Seq(S) /\ Len(q) = n
  BY <1>1, <1>2
<1>4. IsInjective(q) /\ q \in Injection(1..n, S)
  BY <1>2 DEF IsInjective, Injection
<1>5. Cardinality(1..n) = n
  BY <1>1, FS_Interval
<1>6. q \in Surjection(1..n, S)
  BY <1>4, <1>5, FS_Injection
<1>7. \A y \in S : \E i \in 1..n : q[i] = y
  BY <1>6 DEF Surjection
<1>8. \A y : Contains(q, y) <=> y \in S
  BY <1>2, <1>3, <1>7 DEF Contains
<1> QED
  BY <1>3, <1>4, <1>8

(* A list of a set with each element once is one of its listings.           *)
LEMMA ListingIs ==
  ASSUME NEW S, IsFiniteSet(S), NEW q \in Seq(S), IsInjective(q),
         \A y \in S : Contains(q, y)
  PROVE  q \in SetToSeqs(S)
<1> DEFINE n == Len(q)
<1>1. n \in Nat /\ q \in [1..n -> S]
  OBVIOUS
<1>2. q \in Injection(1..n, S)
  BY <1>1 DEF Injection
<1>3. q \in Surjection(1..n, S)
  BY <1>1 DEF Surjection, Contains
<1>4. Cardinality(1..n) = n
  BY <1>1, FS_Interval
<1>5. Cardinality(S) = n
  BY <1>2, <1>3, <1>4, FS_Injection
<1>6. \A i, j \in 1..n : i # j => q[i] # q[j]
  BY <1>1 DEF IsInjective
<1> QED
  BY <1>1, <1>5, <1>6 DEF SetToSeqs

(* What a concatenation is made of.                                         *)
LEMMA ConcatFacts ==
  ASSUME NEW T, NEW s \in Seq(T), NEW r \in Seq(T)
  PROVE  /\ s \o r \in Seq(T)
         /\ Len(s \o r) = Len(s) + Len(r)
         /\ \A i \in 1..Len(s) : (s \o r)[i] = s[i]
         /\ \A i \in 1..Len(r) : (s \o r)[Len(s) + i] = r[i]
OBVIOUS

(* Membership and repetition in a concatenation.                            *)
LEMMA ContainsConcat ==
  ASSUME NEW T, NEW s \in Seq(T), NEW r \in Seq(T)
  PROVE  \A y : Contains(s \o r, y) <=> Contains(s, y) \/ Contains(r, y)
<1> DEFINE c == s \o r
<1>1. /\ Len(c) = Len(s) + Len(r) /\ Len(s) \in Nat /\ Len(r) \in Nat
      /\ \A i \in 1..Len(s) : c[i] = s[i]
      /\ \A i \in 1..Len(r) : c[Len(s) + i] = r[i]
  OBVIOUS
<1> HIDE DEF c
<1>2. \A i \in 1..Len(c) :
        i \notin 1..Len(s) =>
          i - Len(s) \in 1..Len(r) /\ c[i] = r[i - Len(s)]
  <2> SUFFICES ASSUME NEW i \in 1..Len(c), i \notin 1..Len(s)
               PROVE  i - Len(s) \in 1..Len(r) /\ c[i] = r[i - Len(s)]
    OBVIOUS
  <2>1. i - Len(s) \in 1..Len(r)
    BY <1>1
  <2>2. c[Len(s) + (i - Len(s))] = r[i - Len(s)] /\ Len(s) + (i - Len(s)) = i
    BY <1>1, <2>1
  <2> QED
    BY <2>1, <2>2
<1>3. ASSUME NEW y, Contains(c, y) PROVE Contains(s, y) \/ Contains(r, y)
  <2>1. PICK i \in 1..Len(c) : c[i] = y
    BY <1>3 DEF Contains
  <2> QED
    BY <1>1, <1>2, <2>1 DEF Contains
<1>4. ASSUME NEW y, Contains(s, y) PROVE Contains(c, y)
  <2>1. PICK i \in 1..Len(s) : s[i] = y
    BY <1>4 DEF Contains
  <2>2. i \in 1..Len(c) /\ c[i] = y
    BY <1>1, <2>1
  <2> QED
    BY <2>2 DEF Contains
<1>5. ASSUME NEW y, Contains(r, y) PROVE Contains(c, y)
  <2>1. PICK i \in 1..Len(r) : r[i] = y
    BY <1>5 DEF Contains
  <2>2. Len(s) + i \in 1..Len(c) /\ c[Len(s) + i] = y
    BY <1>1, <2>1
  <2> QED
    BY <2>2 DEF Contains
<1> QED
  BY <1>3, <1>4, <1>5 DEF c

(* Two distinct lists that share nothing make a distinct list.              *)
LEMMA DistinctConcat ==
  ASSUME NEW T, NEW s \in Seq(T), NEW r \in Seq(T),
         IsInjective(s), IsInjective(r),
         \A y : ~(Contains(s, y) /\ Contains(r, y))
  PROVE  IsInjective(s \o r)
<1> DEFINE P == {q \in Seq(T) :
                   /\ IsInjective(q)
                   /\ \A y : ~(Contains(s, y) /\ Contains(q, y))
                   => IsInjective(s \o q)}
<1>1. <<>> \in P
  <2>1. s \o <<>> = s
    OBVIOUS
  <2> QED
    BY <2>1
<1>2. ASSUME NEW q \in Seq(T), NEW x \in T, q \in P PROVE Append(q, x) \in P
  <2>1. IsInjective(Append(q, x)) <=> IsInjective(q) /\ ~Contains(q, x)
    BY DistinctAppend
  <2>2. \A y : Contains(Append(q, x), y) <=> Contains(q, y) \/ y = x
    BY ContainsAppend
  <2>3. s \o q \in Seq(T)
    OBVIOUS
  <2>4. IsInjective(Append(s \o q, x))
          <=> IsInjective(s \o q) /\ ~Contains(s \o q, x)
    BY <2>3, DistinctAppend
  <2>5. Contains(s \o q, x) <=> Contains(s, x) \/ Contains(q, x)
    BY ContainsConcat
  <2>6. s \o Append(q, x) = Append(s \o q, x)
    BY ConcatAppend
  <2>7. /\ IsInjective(Append(q, x))
        /\ \A y : ~(Contains(s, y) /\ Contains(Append(q, x), y))
        => IsInjective(s \o Append(q, x))
    BY <1>2, <2>1, <2>2, <2>4, <2>5, <2>6
  <2>8. Append(q, x) \in Seq(T)
    OBVIOUS
  <2> QED
    BY <2>7, <2>8
<1>3. Seq(T) \subseteq P
  <2> HIDE DEF P
  <2> QED
    BY <1>1, <1>2, ListInduction
<1> QED
  BY <1>3

(* A list, cut at one of its places.                                        *)
LEMMA CutList ==
  ASSUME NEW T, NEW s \in Seq(T), NEW k \in 1..Len(s)
  PROVE  LET a == SubSeq(s, 1, k - 1)
             b == SubSeq(s, k + 1, Len(s))
         IN  /\ a \in Seq(T) /\ b \in Seq(T)
             /\ s = Append(a, s[k]) \o b
             /\ \A y : Contains(a, y) <=> \E j \in 1..(k - 1) : s[j] = y
<1> DEFINE a == SubSeq(s, 1, k - 1)
           b == SubSeq(s, k + 1, Len(s))
<1>1. a \in Seq(T) /\ b \in Seq(T)
  OBVIOUS
<1>2. Len(a) = k - 1 /\ \A j \in 1..(k - 1) : a[j] = s[j]
  OBVIOUS
<1>3. s = Append(a, s[k]) \o b
  <2> DEFINE c == Append(a, s[k])
  <2>1. /\ c \in Seq(T) /\ Len(c) = k /\ k \in Nat /\ Len(s) \in Nat
        /\ \A j \in 1..k : c[j] = s[j]
    <3> HIDE DEF a
    <3>1. s[k] \in T
      OBVIOUS
    <3>2. c[k] = s[k] /\ \A j \in 1..(k - 1) : c[j] = a[j]
      BY <1>1, <1>2, <3>1
    <3>3. c \in Seq(T) /\ Len(c) = k
      BY <1>1, <1>2, <3>1
    <3> QED
      BY <1>2, <3>2, <3>3
  <2>2. Len(b) = Len(s) - k /\ \A j \in 1..(Len(s) - k) : b[j] = s[k + j]
    OBVIOUS
  <2> DEFINE d == c \o b
  <2> HIDE DEF c, b, a
  <2>3. /\ d \in Seq(T) /\ Len(d) = Len(s)
        /\ \A j \in 1..k : d[j] = c[j]
        /\ \A j \in 1..Len(b) : d[k + j] = b[j]
    <3>1. c \in Seq(T) /\ b \in Seq(T)
      BY <1>1, <2>1
    <3>2. /\ d \in Seq(T) /\ Len(d) = Len(c) + Len(b)
          /\ \A i \in 1..Len(c) : d[i] = c[i]
          /\ \A i \in 1..Len(b) : d[Len(c) + i] = b[i]
      BY <3>1, ConcatFacts
    <3>3. Len(c) = k /\ Len(b) = Len(s) - k /\ Len(s) \in Nat
      BY <2>1, <2>2
    <3> HIDE DEF d
    <3> QED
      BY <3>2, <3>3
  <2> HIDE DEF d
  <2>4. ASSUME NEW j \in 1..Len(s) PROVE d[j] = s[j]
    <3>1. CASE j <= k
      BY <2>1, <2>3, <3>1
    <3>2. CASE j > k
      <4>1. j - k \in 1..(Len(s) - k) /\ k + (j - k) = j
        BY <2>1, <3>2
      <4> QED
        BY <2>2, <2>3, <4>1
    <3> QED
      BY <2>1, <3>1, <3>2
  <2>5. d = s
    BY <2>3, <2>4
  <2> QED
    BY <2>5 DEF d, c
<1>4. \A y : Contains(a, y) <=> \E j \in 1..(k - 1) : s[j] = y
  <2> HIDE DEF a
  <2> QED
    BY <1>2 DEF Contains
<1> QED
  BY <1>1, <1>3, <1>4
==============================================================================
