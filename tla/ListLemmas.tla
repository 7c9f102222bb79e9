------------------------------ MODULE ListLemmas ------------------------------
(***************************************************************************)
(* Facts about lists that several proofs need: induction over the natural  *)
(* numbers (stated of a set, so that it can be used), the parts of a list  *)
(* that Lists picks, and the operators of SequencesExt that remove,        *)
(* insert and find.                                                        *)
(***************************************************************************)
EXTENDS Lists, SequencesExt, Integers, FiniteSetTheorems, SequenceTheorems,
        WellFoundedInduction, TLAPS

-----------------------------------------------------------------------------
(* A set of natural numbers that is not empty has a least element.          *)
LEMMA LeastNat ==
    ASSUME NEW T \in SUBSET Nat, T # {}
    PROVE  \E x \in T : \A y \in T : x <= y
<1>1. PICK x \in T : \A y \in T : ~ (<<y, x>> \in OpToRel(<, Nat))
    <2>1. IsWellFoundedOn(OpToRel(<, Nat), Nat)
        BY NatLessThanWellFounded
    <2>2. QED
        BY <2>1, WFMin
<1>2. ASSUME NEW y \in T PROVE x <= y
    <2>1. ~ (<<y, x>> \in OpToRel(<, Nat))
        BY <1>1
    <2>2. ~ (y < x)
        BY <2>1 DEF OpToRel
    <2>3. QED
        BY <2>2
<1>3. QED
    BY <1>2

(* A set of natural numbers with a bound has a greatest element, if any.    *)
LEMMA GreatestNat ==
    ASSUME NEW n \in Nat, NEW T \in SUBSET (0 .. n), T # {}
    PROVE  \E x \in T : \A y \in T : y <= x
<1> DEFINE U == {y \in 0 .. n : n - y \in T}
<1>1. U \in SUBSET Nat /\ U # {}
    <2>1. PICK x \in T : TRUE
        OBVIOUS
    <2>2. n - x \in 0 .. n /\ n - (n - x) = x
        BY <2>1
    <2>3. n - x \in U
        BY <2>1, <2>2
    <2>4. U \subseteq Nat
        OBVIOUS
    <2> HIDE DEF U
    <2>5. QED
        BY <2>3, <2>4
<1>2. PICK u \in U : \A y \in U : u <= y
    BY <1>1, LeastNat
<1>3. n - u \in T /\ u \in 0 .. n
    BY <1>2
<1>4. ASSUME NEW y \in T PROVE y <= n - u
    <2>1. n - y \in 0 .. n /\ n - (n - y) = y
        BY <1>4
    <2>2. n - y \in U
        BY <2>1, <1>4
    <2>3. u <= n - y
        BY <2>2, <1>2
    <2>4. QED
        BY <1>3, <1>4, <2>3
<1>5. QED
    BY <1>3, <1>4

(* A set that holds 0, and with n its successor, holds all of Nat.          *)
LEMMA AllNat ==
    ASSUME NEW T, 0 \in T, \A n \in Nat : n \in T => n + 1 \in T
    PROVE  Nat \subseteq T
<1> DEFINE Rest == Nat \ T
<1> SUFFICES ASSUME Rest # {} PROVE FALSE
    OBVIOUS
<1>1. PICK x \in Rest : \A y \in Rest : x <= y
    BY LeastNat
<1>2. x - 1 \in Nat
    OBVIOUS
<1>3. x - 1 \in T
    BY <1>1, <1>2
<1>4. (x - 1) + 1 \in T
    BY <1>2, <1>3
<1>5. QED
    BY <1>4

-----------------------------------------------------------------------------
(* A way through the positions at, forward, in m steps. *)
Way(m, p, at) ==
    /\ p \in [1 .. m -> at]
    /\ \A i, j \in 1 .. m : i < j => p[i] < p[j]
    /\ \A x \in at : \E k \in 1 .. m : p[k] = x

(* A way leads on to a position behind all it went through.                 *)
LEMMA WayOn ==
    ASSUME NEW k \in Nat, NEW at \in SUBSET (1 .. k + 1), k + 1 \in at,
           NEW m \in Nat, NEW p, Way(m, p, at \ {k + 1})
    PROVE  \E q : Way(m + 1, q, at)
<1> DEFINE q == [i \in 1 .. m + 1 |-> IF i = m + 1 THEN k + 1 ELSE p[i]]
<1>0. \A i \in 1 .. m : p[i] \in at /\ p[i] \in 1 .. k
    <2>1. p \in [1 .. m -> at \ {k + 1}]
        BY DEF Way
    <2>2. at \ {k + 1} \subseteq 1 .. k
        OBVIOUS
    <2>3. QED
        BY <2>1, <2>2
<1>1. q \in [1 .. m + 1 -> at]
    BY <1>0
<1>2. ASSUME NEW i \in 1 .. m + 1, NEW j \in 1 .. m + 1, i < j PROVE q[i] < q[j]
    <2>1. i \in 1 .. m /\ q[i] = p[i]
        BY <1>2
    <2>2. CASE j = m + 1
        BY <2>1, <2>2, <1>0
    <2>3. CASE j # m + 1
        <3>1. j \in 1 .. m /\ q[j] = p[j]
            BY <2>3
        <3>2. p[i] < p[j]
            BY <3>1, <2>1, <1>2 DEF Way
        <3>3. QED
            BY <3>1, <3>2, <2>1
    <2>4. QED
        BY <2>2, <2>3
<1>3. ASSUME NEW x \in at PROVE \E i \in 1 .. m + 1 : q[i] = x
    <2>1. CASE x = k + 1
        BY <2>1
    <2>2. CASE x # k + 1
        <3>1. PICK i \in 1 .. m : p[i] = x
            BY <2>2 DEF Way
        <3>2. i \in 1 .. m + 1 /\ q[i] = p[i]
            OBVIOUS
        <3>3. QED
            BY <3>1, <3>2
    <2>3. QED
        BY <2>1, <2>2
<1> HIDE DEF q
<1>4. Way(m + 1, q, at)
    BY <1>1, <1>2, <1>3 DEF Way
<1>5. QED
    BY <1>4

(* Any positions of a list can be gone through forward.                     *)
LEMMA WayExists ==
    ASSUME NEW n \in Nat, NEW at \in SUBSET (1 .. n)
    PROVE  \E m \in Nat : \E p : Way(m, p, at)
<1> DEFINE T == {k \in Nat : \A S \in SUBSET (1 .. k) : \E m \in Nat : \E p : Way(m, p, S)}
<1>1. 0 \in T
    <2>1. ASSUME NEW S \in SUBSET (1 .. 0) PROVE Way(0, [i \in 1 .. 0 |-> i], S)
        BY DEF Way
    <2>2. QED
        BY <2>1
<1>2. ASSUME NEW k \in Nat, k \in T PROVE k + 1 \in T
    <2>1. ASSUME NEW S \in SUBSET (1 .. k + 1)
          PROVE  \E m \in Nat : \E p : Way(m, p, S)
        <3>1. S \ {k + 1} \in SUBSET (1 .. k)
            OBVIOUS
        <3>2. PICK m \in Nat : \E p : Way(m, p, S \ {k + 1})
            BY <1>2, <3>1
        <3>3. PICK p : Way(m, p, S \ {k + 1})
            BY <3>2
        <3>4. CASE k + 1 \notin S
            <4>1. S \ {k + 1} = S
                BY <3>4
            <4>2. QED
                BY <3>3, <4>1
        <3>5. CASE k + 1 \in S
            BY <3>3, <3>5, WayOn
        <3>6. QED
            BY <3>4, <3>5
    <2>2. QED
        BY <2>1
<1> HIDE DEF T
<1>3. n \in T
    BY <1>1, <1>2, AllNat
<1>4. QED
    BY <1>3 DEF T

(* A way tells which of two steps came first.                               *)
Ordered(m, p) == \A i, j \in 1 .. m : (p[i] < p[j] => i < j) /\ (p[i] = p[j] => i = j)
(* So the order of the steps is the order of what they point at.            *)
LEMMA WayBack ==
    ASSUME NEW at \in SUBSET Int, NEW m \in Nat, NEW p, Way(m, p, at)
    PROVE  Ordered(m, p)
<1>1. SUFFICES ASSUME NEW i \in 1 .. m, NEW j \in 1 .. m
               PROVE  (p[i] < p[j] => i < j) /\ (p[i] = p[j] => i = j)
    BY DEF Ordered
<1>2. p[i] \in Int /\ p[j] \in Int
    BY DEF Way
<1>3. (i < j => p[i] < p[j]) /\ (j < i => p[j] < p[i])
    BY DEF Way
<1>4. QED
    BY <1>2, <1>3

(* b is s along the way p. *)
Along(b, s, p, at) == Way(Len(b), p, at) /\ \A k \in 1 .. Len(b) : b[k] = s[p[k]]

(* The way Pick goes is one.                                                *)
TheWay(at) == CHOOSE p \in Forward(at) : TRUE

(* That one goes through the positions forward.                             *)
LEMMA TheWayIs ==
    ASSUME NEW n \in Nat, NEW at \in SUBSET (1 .. n)
    PROVE  Cardinality(at) \in Nat /\ Way(Cardinality(at), TheWay(at), at)
<1>11. \A x \in at : x \in Int
    OBVIOUS
<1>0. PICK m \in Nat : \E f : Way(m, f, at)
    BY WayExists
<1>2. PICK f : Way(m, f, at)
    BY <1>0
<1>3. Cardinality(at) = m
    <2>1. ASSUME NEW i \in 1 .. m, NEW j \in 1 .. m, f[i] = f[j] PROVE i = j
        <3>1. f[i] \in Int
            BY <1>11, <1>2 DEF Way
        <3>2. ~ (f[i] < f[j]) /\ ~ (f[j] < f[i])
            BY <2>1, <3>1
        <3>3. QED
            BY <3>2, <1>2 DEF Way
    <2>2. f \in Bijection(1 .. m, at)
        BY <2>1, <1>2 DEF Way, Bijection, Injection, Surjection, IsInjective
    <2>3. ExistsBijection(1 .. m, at)
        BY <2>2 DEF ExistsBijection
    <2>4. QED
        BY <2>3, FS_CountingElements
<1>4. f \in Forward(at)
    BY <1>2, <1>3 DEF Way, Forward
<1> DEFINE p == TheWay(at)
<1>5. p \in Forward(at)
    BY <1>4 DEF TheWay
<1>6. /\ p \in [1 .. m -> at]
      /\ \A i, j \in 1 .. m : i < j => p[i] < p[j]
    BY <1>5, <1>3 DEF Forward
<1> HIDE DEF p
<1>9. ASSUME NEW x \in at PROVE \E k \in 1 .. m : p[k] = x
    <2>0. IsFiniteSet(1 .. m) /\ Cardinality(1 .. m) = m
        <3>1. 1 \in Int /\ m \in Int
            OBVIOUS
        <3>2. Cardinality(1 .. m) = IF 1 > m THEN 0 ELSE m - 1 + 1
            BY <3>1, FS_Interval
        <3>3. QED
            BY <3>1, <3>2, FS_Interval
    <2>1. IsFiniteSet(at)
        <3>1. IsFiniteSet(1 .. n)
            BY FS_Interval
        <3>2. QED
            BY <3>1, FS_Subset
    <2>2. ASSUME NEW i \in 1 .. m, NEW j \in 1 .. m, p[i] = p[j] PROVE i = j
        <3>1. p[i] \in Int
            BY <1>11, <1>6
        <3>2. ~ (p[i] < p[j]) /\ ~ (p[j] < p[i])
            BY <2>2, <3>1
        <3>3. QED
            BY <3>2, <1>6
    <2>3. p \in Injection(1 .. m, at)
        BY <2>2, <1>6 DEF Injection, IsInjective
    <2>4. p \in Surjection(1 .. m, at)
        BY <2>0, <2>1, <2>3, <1>3, FS_Injection
    <2>5. QED
        BY <2>4 DEF Surjection
<1>10. Way(m, p, at)
    BY <1>6, <1>9 DEF Way
<1>12. QED
    BY <1>3, <1>10 DEF p

(* What is picked: a list of elements of s, one for each position, in the   *)
(* order of s.                                                              *)
LEMMA PickProperties ==
    ASSUME NEW S, NEW s \in Seq(S), NEW at \in SUBSET (1 .. Len(s))
    PROVE  /\ Pick(s, at) \in Seq(S)
           /\ Len(Pick(s, at)) = Cardinality(at)
           /\ Along(Pick(s, at), s, TheWay(at), at)
           /\ \E p : Along(Pick(s, at), s, p, at)
<1>1. Len(s) \in Nat
    BY LenProperties
<1>0. Cardinality(at) \in Nat /\ Way(Cardinality(at), TheWay(at), at)
    BY <1>1, TheWayIs
<1> DEFINE p == TheWay(at)
<1>2. PICK m \in Nat : m = Cardinality(at)
    BY <1>0
<1>6. Way(m, p, at) /\ p \in [1 .. m -> at]
    BY <1>0, <1>2 DEF Way
<1>7. Pick(s, at) = [k \in 1 .. m |-> s[p[k]]]
    BY <1>2 DEF Pick, TheWay
<1> HIDE DEF p
<1>8. Pick(s, at) \in Seq(S) /\ Len(Pick(s, at)) = m
    <2>1. \A k \in 1 .. m : s[p[k]] \in S
        BY <1>6, ElementOfSeq
    <2>2. [k \in 1 .. m |-> s[p[k]]] \in [1 .. m -> S]
        BY <2>1
    <2>3. QED
        BY <1>7, <2>2
<1>12. \A k \in 1 .. m : Pick(s, at)[k] = s[p[k]]
    BY <1>7
<1>13. Along(Pick(s, at), s, p, at)
    BY <1>6, <1>8, <1>12 DEF Along
<1>14. QED
    BY <1>2, <1>8, <1>13 DEF p

(* How far the way is at a position: as many steps as lie before it, and    *)
(* one.                                                                     *)
LEMMA RankOnWay ==
    ASSUME NEW n \in Nat, NEW at \in SUBSET (1 .. n), NEW x \in at
    PROVE  LET before == {j \in at : j < x} IN
           /\ Cardinality(before) + 1 \in 1 .. Cardinality(at)
           /\ TheWay(at)[Cardinality(before) + 1] = x
<1> DEFINE before == {j \in at : j < x}
           p == TheWay(at)
<1>1. PICK m \in Nat : m = Cardinality(at)
    BY TheWayIs
<1>2. Way(m, p, at)
    BY <1>1, TheWayIs
<1>3. Ordered(m, p)
    <2>1. at \in SUBSET Int
        OBVIOUS
    <2>2. QED
        BY <1>2, <2>1, WayBack
<1> HIDE DEF p
<1>4. PICK l \in 1 .. m : p[l] = x
    BY <1>2 DEF Way
<1>5. l - 1 \in Nat
    BY <1>4
<1>6. \A k \in 1 .. m : p[k] \in at /\ (p[k] < x => k < l) /\ (k < l => p[k] < x)
    BY <1>2, <1>3, <1>4 DEF Way, Ordered
<1> DEFINE q == [k \in 1 .. l - 1 |-> p[k]]
<1>7. q \in Bijection(1 .. l - 1, before)
    <2>1. \A k \in 1 .. l - 1 : k \in 1 .. m /\ k < l
        BY <1>4
    <2>2. q \in [1 .. l - 1 -> before]
        BY <2>1, <1>6
    <2>3. \A i, j \in 1 .. l - 1 : q[i] = q[j] => i = j
        BY <2>1, <1>3 DEF Ordered
    <2>4. ASSUME NEW y \in before PROVE \E k \in 1 .. l - 1 : q[k] = y
        <3>1. PICK k \in 1 .. m : p[k] = y
            BY <1>2 DEF Way
        <3>2. k < l
            BY <3>1, <1>6
        <3>3. k \in 1 .. l - 1
            BY <3>2, <1>4
        <3>4. QED
            BY <3>1, <3>3
    <2> HIDE DEF q, before
    <2>5. QED
        BY <2>2, <2>3, <2>4 DEF Bijection, Injection, Surjection, IsInjective
<1>8. Cardinality(before) = l - 1
    <2> HIDE DEF q, before
    <2>1. ExistsBijection(1 .. l - 1, before)
        BY <1>7 DEF ExistsBijection
    <2>2. QED
        BY <2>1, <1>5, FS_CountingElements
<1>9. Cardinality(before) + 1 = l
    BY <1>8, <1>4
<1>10. QED
    BY <1>1, <1>4, <1>9 DEF p

-----------------------------------------------------------------------------
(* Lists that change at one place. *)

(* A sequence from its length and its elements.                             *)
LEMMA FunctionIsSeq ==
    ASSUME NEW S, NEW n \in Nat, NEW f, f \in [1 .. n -> S]
    PROVE  f \in Seq(S) /\ Len(f) = n
<1>1. f \in Seq(S)
    BY SeqDef
<1>2. QED
    BY <1>1, LenProperties

(* One element is gone.                                                     *)
LEMMA RemoveAtProperties ==
    ASSUME NEW S, NEW s \in Seq(S), NEW i \in 1 .. Len(s)
    PROVE  /\ RemoveAt(s, i) \in Seq(S)
           /\ Len(RemoveAt(s, i)) = Len(s) - 1
           /\ \A k \in 1 .. Len(s) - 1 : RemoveAt(s, i)[k] = IF k < i THEN s[k] ELSE s[k + 1]
<1> DEFINE a == SubSeq(s, 1, i - 1)
           b == SubSeq(s, i + 1, Len(s))
<1>1. Len(s) \in Nat /\ i \in Int
    BY LenProperties
<1>2. /\ a \in Seq(S) /\ Len(a) = i - 1
      /\ \A k \in 1 .. i - 1 : a[k] = s[k]
    <2>1. \A k \in 1 .. i - 1 : s[k] \in S
        BY <1>1, ElementOfSeq
    <2>2. 1 \in Int /\ i - 1 \in Int
        BY <1>1
    <2>3. /\ a \in Seq(S) /\ Len(a) = IF 1 <= i - 1 THEN (i - 1) - 1 + 1 ELSE 0
          /\ \A k \in 1 .. (i - 1) - 1 + 1 : a[k] = s[1 + k - 1]
        BY <2>1, <2>2, SubSeqProperties
    <2> HIDE DEF a
    <2>4. QED
        BY <2>3, <1>1
<1>3. /\ b \in Seq(S) /\ Len(b) = Len(s) - i
      /\ \A k \in 1 .. Len(s) - i : b[k] = s[i + k]
    <2>1. \A k \in i + 1 .. Len(s) : s[k] \in S
        BY <1>1, ElementOfSeq
    <2>2. i + 1 \in Int /\ Len(s) \in Int
        BY <1>1
    <2>3. /\ b \in Seq(S) /\ Len(b) = IF i + 1 <= Len(s) THEN Len(s) - (i + 1) + 1 ELSE 0
          /\ \A k \in 1 .. Len(s) - (i + 1) + 1 : b[k] = s[(i + 1) + k - 1]
        BY <2>1, <2>2, SubSeqProperties
    <2> HIDE DEF b
    <2>4. QED
        BY <2>3, <1>1
<1>4. RemoveAt(s, i) = a \o b
    BY DEF RemoveAt
<1> HIDE DEF a, b
<1>5. /\ a \o b \in Seq(S) /\ Len(a \o b) = Len(a) + Len(b)
      /\ \A k \in 1 .. Len(a) + Len(b) : (a \o b)[k] =
            IF k <= Len(a) THEN a[k] ELSE b[k - Len(a)]
    BY <1>2, <1>3, ConcatProperties
<1>6. Len(a) + Len(b) = Len(s) - 1
    BY <1>1, <1>2, <1>3
<1>7. ASSUME NEW k \in 1 .. Len(s) - 1
      PROVE  (a \o b)[k] = IF k < i THEN s[k] ELSE s[k + 1]
    <2>1. CASE k < i
        BY <2>1, <1>1, <1>2, <1>5, <1>6
    <2>2. CASE ~(k < i)
        <3>1. k - Len(a) \in 1 .. Len(s) - i /\ i + (k - Len(a)) = k + 1 /\ ~(k <= Len(a))
            BY <2>2, <1>1, <1>2
        <3>2. (a \o b)[k] = b[k - Len(a)]
            BY <3>1, <1>5, <1>6
        <3>3. QED
            BY <3>1, <3>2, <2>2, <1>3
    <2>3. QED
        BY <2>1, <2>2
<1>8. QED
    BY <1>4, <1>5, <1>6, <1>7

(* One has come in.                                                         *)
LEMMA InsertAtProperties ==
    ASSUME NEW S, NEW s \in Seq(S), NEW i \in 1 .. Len(s) + 1, NEW e \in S
    PROVE  /\ InsertAt(s, i, e) \in Seq(S)
           /\ Len(InsertAt(s, i, e)) = Len(s) + 1
           /\ \A k \in 1 .. Len(s) + 1 :
                InsertAt(s, i, e)[k] = IF k < i THEN s[k] ELSE IF k = i THEN e ELSE s[k - 1]
<1> DEFINE a == SubSeq(s, 1, i - 1)
           b == SubSeq(s, i, Len(s))
           one == <<e>>
<1>1. Len(s) \in Nat /\ i \in Int
    BY LenProperties
<1>2. /\ a \in Seq(S) /\ Len(a) = i - 1
      /\ \A k \in 1 .. i - 1 : a[k] = s[k]
    <2>1. \A k \in 1 .. i - 1 : s[k] \in S
        BY <1>1, ElementOfSeq
    <2>2. 1 \in Int /\ i - 1 \in Int
        BY <1>1
    <2>3. /\ a \in Seq(S) /\ Len(a) = IF 1 <= i - 1 THEN (i - 1) - 1 + 1 ELSE 0
          /\ \A k \in 1 .. (i - 1) - 1 + 1 : a[k] = s[1 + k - 1]
        BY <2>1, <2>2, SubSeqProperties
    <2> HIDE DEF a
    <2>4. QED
        BY <2>3, <1>1
<1>3. /\ b \in Seq(S) /\ Len(b) = Len(s) - i + 1
      /\ \A k \in 1 .. Len(s) - i + 1 : b[k] = s[i + k - 1]
    <2>1. \A k \in i .. Len(s) : s[k] \in S
        BY <1>1, ElementOfSeq
    <2>2. i \in Int /\ Len(s) \in Int
        BY <1>1
    <2>3. /\ b \in Seq(S) /\ Len(b) = IF i <= Len(s) THEN Len(s) - i + 1 ELSE 0
          /\ \A k \in 1 .. Len(s) - i + 1 : b[k] = s[i + k - 1]
        BY <2>1, <2>2, SubSeqProperties
    <2> HIDE DEF b
    <2>4. QED
        BY <2>3, <1>1
<1>4. one \in Seq(S) /\ Len(one) = 1 /\ one[1] = e
    OBVIOUS
<1>5. InsertAt(s, i, e) = a \o one \o b
    BY DEF InsertAt
<1> HIDE DEF a, b, one
<1> DEFINE c == a \o one
<1>6. /\ c \in Seq(S) /\ Len(c) = i
      /\ \A k \in 1 .. i : c[k] = IF k < i THEN s[k] ELSE e
    <2>1. /\ c \in Seq(S) /\ Len(c) = Len(a) + Len(one)
          /\ \A k \in 1 .. Len(a) + Len(one) : c[k] =
                IF k <= Len(a) THEN a[k] ELSE one[k - Len(a)]
        BY <1>2, <1>4, ConcatProperties
    <2> HIDE DEF c
    <2>2. ASSUME NEW k \in 1 .. i PROVE c[k] = IF k < i THEN s[k] ELSE e
        <3>1. CASE k < i
            BY <3>1, <2>1, <1>1, <1>2, <1>4
        <3>2. CASE k = i
            <4>1. k - Len(a) = 1 /\ ~(k <= Len(a)) /\ k \in 1 .. Len(a) + Len(one)
                BY <3>2, <1>1, <1>2, <1>4
            <4>2. QED
                BY <4>1, <3>2, <2>1, <1>4
        <3>3. QED
            BY <3>1, <3>2, <1>1
    <2>3. QED
        BY <2>1, <2>2, <1>1, <1>2, <1>4
<1>7. InsertAt(s, i, e) = c \o b
    BY <1>5
<1> HIDE DEF c
<1>8. /\ c \o b \in Seq(S) /\ Len(c \o b) = Len(c) + Len(b)
      /\ \A k \in 1 .. Len(c) + Len(b) : (c \o b)[k] =
            IF k <= Len(c) THEN c[k] ELSE b[k - Len(c)]
    BY <1>3, <1>6, ConcatProperties
<1>9. Len(c) + Len(b) = Len(s) + 1
    BY <1>1, <1>3, <1>6
<1>10. ASSUME NEW k \in 1 .. Len(s) + 1
       PROVE  (c \o b)[k] = IF k < i THEN s[k] ELSE IF k = i THEN e ELSE s[k - 1]
    <2>1. CASE k <= i
        BY <2>1, <1>1, <1>6, <1>8, <1>9
    <2>2. CASE ~(k <= i)
        <3>1. k - Len(c) \in 1 .. Len(s) - i + 1 /\ i + (k - Len(c)) - 1 = k - 1
              /\ ~(k <= Len(c))
            BY <2>2, <1>1, <1>6
        <3>2. (c \o b)[k] = b[k - Len(c)]
            <4>1. k \in 1 .. Len(c) + Len(b)
                BY <1>9
            <4>2. QED
                BY <3>1, <4>1, <1>8
        <3>3. b[k - Len(c)] = s[k - 1]
            BY <3>1, <1>3
        <3>4. ~(k < i) /\ k # i
            BY <2>2, <1>1
        <3>5. QED
            BY <3>2, <3>3, <3>4
    <2>3. QED
        BY <2>1, <2>2
<1>11. QED
    BY <1>7, <1>8, <1>9, <1>10
(* What is picked is not longer than the list.                              *)
LEMMA PickShorter ==
    ASSUME NEW S, NEW s \in Seq(S), NEW at \in SUBSET (1 .. Len(s))
    PROVE  Len(Pick(s, at)) <= Len(s)
<1>1. Len(s) \in Nat /\ Len(Pick(s, at)) = Cardinality(at)
    BY LenProperties, PickProperties
<1>2. IsFiniteSet(1 .. Len(s)) /\ Cardinality(1 .. Len(s)) = Len(s)
    <2>1. PICK n \in Nat : n = Len(s)
        BY <1>1
    <2>2. 1 \in Int /\ n \in Int
        OBVIOUS
    <2>3. Cardinality(1 .. n) = IF 1 > n THEN 0 ELSE n - 1 + 1
        BY <2>2, FS_Interval
    <2>4. IsFiniteSet(1 .. n) /\ Cardinality(1 .. n) = n
        BY <2>2, <2>3, FS_Interval
    <2>5. QED
        BY <2>1, <2>4
<1>3. Cardinality(at) <= Cardinality(1 .. Len(s))
    BY <1>2, FS_Subset
<1>4. QED
    BY <1>1, <1>2, <1>3

(* Where the element at a position comes from when one of them is moved.    *)
Source(k, from, to) ==
    IF k = to THEN from
    ELSE LET j == IF k < to THEN k ELSE k - 1 IN IF j < from THEN j ELSE j + 1

Within(n, from, to) == \A k \in 1 .. n : Source(k, from, to) \in 1 .. n
OneToOne(n, from, to) ==
    \A k, l \in 1 .. n : Source(k, from, to) = Source(l, from, to) => k = l
Onto(n, from, to) == \A k \in 1 .. n : \E l \in 1 .. n : Source(l, from, to) = k

(* It comes from one place, and every place is of one.                      *)
LEMMA SourceProperties ==
    ASSUME NEW n \in Nat, NEW from \in 1 .. n, NEW to \in 1 .. n
    PROVE  Within(n, from, to) /\ OneToOne(n, from, to) /\ Onto(n, from, to)
<1>1. \A k \in 1 .. n : Source(k, from, to) \in 1 .. n
    BY DEF Source
<1>2. \A k, l \in 1 .. n : Source(k, from, to) = Source(l, from, to) => k = l
    BY DEF Source
<1>3. ASSUME NEW k \in 1 .. n
      PROVE  \E l \in 1 .. n : Source(l, from, to) = k
    <2>1. CASE k = from
        BY <2>1 DEF Source
    <2>2. CASE k < from
        <3>1. CASE k < to
            BY <2>2, <3>1 DEF Source
        <3>2. CASE ~(k < to)
            <4>1. k + 1 \in 1 .. n /\ Source(k + 1, from, to) = k
                BY <2>2, <3>2 DEF Source
            <4>2. QED
                BY <4>1
        <3>3. QED
            BY <3>1, <3>2
    <2>3. CASE k > from
        <3>1. CASE k - 1 < to
            <4>1. k - 1 \in 1 .. n /\ Source(k - 1, from, to) = k
                BY <2>3, <3>1 DEF Source
            <4>2. QED
                BY <4>1
        <3>2. CASE ~(k - 1 < to)
            BY <2>3, <3>2 DEF Source
        <3>3. QED
            BY <3>1, <3>2
    <2>4. QED
        BY <2>1, <2>2, <2>3
<1>4. QED
    BY <1>1, <1>2, <1>3 DEF Within, OneToOne, Onto

(* An element is moved.                                                     *)
Rearranged(m, s, from, to) ==
    Len(m) = Len(s) /\ \A k \in 1 .. Len(s) : m[k] = s[Source(k, from, to)]
(* What Moved returns is the sequence read through Source.                  *)
LEMMA MovedProperties ==
    ASSUME NEW S, NEW s \in Seq(S), NEW from \in 1 .. Len(s), NEW to \in 1 .. Len(s)
    PROVE  /\ Moved(s, from, to) \in Seq(S)
           /\ Rearranged(Moved(s, from, to), s, from, to)
<1> DEFINE r == RemoveAt(s, from)
           e == s[from]
           m == InsertAt(r, to, e)
<1>1. Len(s) \in Nat /\ e \in S
    BY LenProperties, ElementOfSeq
<1>2. /\ r \in Seq(S) /\ Len(r) = Len(s) - 1
      /\ \A k \in 1 .. Len(s) - 1 : r[k] = IF k < from THEN s[k] ELSE s[k + 1]
    BY RemoveAtProperties
<1>3. Moved(s, from, to) = m
    BY DEF Moved
<1> HIDE DEF r, e
<1>4. to \in 1 .. Len(r) + 1
    BY <1>1, <1>2
<1>5. /\ m \in Seq(S) /\ Len(m) = Len(r) + 1
      /\ \A k \in 1 .. Len(r) + 1 :
            m[k] = IF k < to THEN r[k] ELSE IF k = to THEN e ELSE r[k - 1]
    BY <1>1, <1>2, <1>4, InsertAtProperties
<1> HIDE DEF m
<1>6. Len(m) = Len(s)
    BY <1>1, <1>2, <1>5
<1>7. ASSUME NEW k \in 1 .. Len(s)
      PROVE  m[k] = s[Source(k, from, to)]
    <2>0. m[k] = IF k < to THEN r[k] ELSE IF k = to THEN s[from] ELSE r[k - 1]
        BY <1>1, <1>2, <1>5 DEF e
    <2>1. CASE k < to
        <3>1. k \in 1 .. Len(s) - 1
            BY <2>1, <1>1
        <3>2. QED
            BY <3>1, <2>0, <2>1, <1>2 DEF Source
    <2>2. CASE k = to
        BY <2>0, <2>2 DEF Source
    <2>3. CASE k > to
        <3>1. k - 1 \in 1 .. Len(s) - 1 /\ ~(k < to) /\ k # to
            BY <2>3, <1>1
        <3>2. m[k] = r[k - 1]
            BY <3>1, <2>0
        <3>3. QED
            BY <3>1, <3>2, <1>2 DEF Source
    <2>4. QED
        BY <2>1, <2>2, <2>3, <1>1
<1>8. QED
    BY <1>3, <1>5, <1>6, <1>7 DEF Rearranged

-----------------------------------------------------------------------------
(* What is inserted in a list without anything twice is new in it.          *)
LEMMA InsertAtOnce ==
    ASSUME NEW S, NEW s \in Seq(S), NEW i \in 1 .. Len(s) + 1, NEW e \in S,
           IsInjective(s), e \notin ToSet(s)
    PROVE  IsInjective(InsertAt(s, i, e)) /\ ToSet(InsertAt(s, i, e)) = ToSet(s) \cup {e}
<1> DEFINE b == InsertAt(s, i, e)
<1>1. PICK n \in Nat : n = Len(s)
    BY LenProperties
<1>2. /\ b \in Seq(S) /\ Len(b) = n + 1
      /\ \A k \in 1 .. n + 1 : b[k] = IF k < i THEN s[k] ELSE IF k = i THEN e ELSE s[k - 1]
    BY <1>1, InsertAtProperties
<1> HIDE DEF b
<1>3. DOMAIN b = 1 .. n + 1 /\ DOMAIN s = 1 .. n /\ i \in 1 .. n + 1
    BY <1>1, <1>2, LenProperties
<1>4. \A k \in 1 .. n : s[k] # e
    BY <1>3 DEF ToSet
<1>5. \A k, l \in 1 .. n : s[k] = s[l] => k = l
    BY <1>3 DEF IsInjective
<1>6. ASSUME NEW k \in 1 .. n + 1, NEW l \in 1 .. n + 1, b[k] = b[l] PROVE k = l
    <2>1. b[k] = IF k < i THEN s[k] ELSE IF k = i THEN e ELSE s[k - 1]
        BY <1>2
    <2>2. b[l] = IF l < i THEN s[l] ELSE IF l = i THEN e ELSE s[l - 1]
        BY <1>2
    <2>3. /\ k < i => k \in 1 .. n
          /\ l < i => l \in 1 .. n
          /\ k > i => k - 1 \in 1 .. n
          /\ l > i => l - 1 \in 1 .. n
        BY <1>3
    <2>4. CASE k < i
        <3>1. CASE l < i
            BY <2>1, <2>2, <2>3, <2>4, <3>1, <1>5, <1>6
        <3>2. CASE l = i
            BY <2>1, <2>2, <2>3, <2>4, <3>2, <1>4, <1>6
        <3>3. CASE l > i
            <4>1. k = l - 1
                BY <2>1, <2>2, <2>3, <2>4, <3>3, <1>3, <1>5, <1>6
            <4>2. QED
                BY <4>1, <2>4, <3>3, <1>3
        <3>4. QED
            BY <3>1, <3>2, <3>3, <1>3
    <2>5. CASE k = i
        <3>1. CASE l < i
            BY <2>1, <2>2, <2>3, <2>5, <3>1, <1>4, <1>6
        <3>2. CASE l > i
            BY <2>1, <2>2, <2>3, <2>5, <3>2, <1>3, <1>4, <1>6
        <3>3. QED
            BY <3>1, <3>2, <2>5, <1>3
    <2>6. CASE k > i
        <3>1. CASE l < i
            <4>1. k - 1 = l
                BY <2>1, <2>2, <2>3, <2>6, <3>1, <1>3, <1>5, <1>6
            <4>2. QED
                BY <4>1, <2>6, <3>1, <1>3
        <3>2. CASE l = i
            BY <2>1, <2>2, <2>3, <2>6, <3>2, <1>3, <1>4, <1>6
        <3>3. CASE l > i
            <4>1. k - 1 = l - 1
                BY <2>1, <2>2, <2>3, <2>6, <3>3, <1>3, <1>5, <1>6
            <4>2. QED
                BY <4>1
        <3>4. QED
            BY <3>1, <3>2, <3>3, <1>3
    <2>7. QED
        BY <2>4, <2>5, <2>6, <1>3
<1>7. ASSUME NEW k \in 1 .. n + 1 PROVE b[k] \in ToSet(s) \cup {e}
    <2>1. b[k] = IF k < i THEN s[k] ELSE IF k = i THEN e ELSE s[k - 1]
        BY <1>2
    <2>2. (k < i => k \in 1 .. n) /\ (k > i => k - 1 \in 1 .. n)
        BY <1>3
    <2>3. QED
        BY <2>1, <2>2, <1>3 DEF ToSet
<1>8. ASSUME NEW k \in 1 .. n PROVE s[k] \in ToSet(b)
    <2>1. CASE k < i
        <3>1. k \in 1 .. n + 1 /\ b[k] = s[k]
            BY <2>1, <1>2
        <3>2. QED
            BY <3>1, <1>3 DEF ToSet
    <2>2. CASE k >= i
        <3>1. k + 1 \in 1 .. n + 1 /\ ~(k + 1 < i) /\ k + 1 # i /\ (k + 1) - 1 = k
            BY <2>2, <1>3
        <3>2. b[k + 1] = s[(k + 1) - 1]
            BY <3>1, <1>2
        <3>3. QED
            BY <3>1, <3>2, <1>3 DEF ToSet
    <2>3. QED
        BY <2>1, <2>2, <1>3
<1>9. e \in ToSet(b)
    <2>1. i \in 1 .. n + 1 /\ b[i] = e
        BY <1>2, <1>3
    <2>2. QED
        BY <2>1, <1>3 DEF ToSet
<1>10. ToSet(b) = ToSet(s) \cup {e}
    <2>1. \A x \in ToSet(b) : x \in ToSet(s) \cup {e}
        BY <1>3, <1>7 DEF ToSet
    <2>2. \A x \in ToSet(s) : x \in ToSet(b)
        BY <1>3, <1>8 DEF ToSet
    <2>3. QED
        BY <2>1, <2>2, <1>9
<1>11. IsInjective(b)
    BY <1>3, <1>6 DEF IsInjective
<1>12. QED
    BY <1>10, <1>11 DEF b

(* What is removed from such a list is not in it any more.                  *)
LEMMA RemoveAtOnce ==
    ASSUME NEW S, NEW s \in Seq(S), NEW i \in 1 .. Len(s), IsInjective(s)
    PROVE  IsInjective(RemoveAt(s, i)) /\ ToSet(RemoveAt(s, i)) = ToSet(s) \ {s[i]}
<1> DEFINE b == RemoveAt(s, i)
<1>1. PICK n \in Nat : n = Len(s)
    BY LenProperties
<1>2. /\ b \in Seq(S) /\ Len(b) = n - 1
      /\ \A k \in 1 .. n - 1 : b[k] = IF k < i THEN s[k] ELSE s[k + 1]
    BY <1>1, RemoveAtProperties
<1> HIDE DEF b
<1>3. DOMAIN b = 1 .. n - 1 /\ DOMAIN s = 1 .. n /\ i \in 1 .. n
    BY <1>1, <1>2, LenProperties
<1>4. \A k, l \in 1 .. n : s[k] = s[l] => k = l
    BY <1>3 DEF IsInjective
<1> DEFINE from(k) == IF k < i THEN k ELSE k + 1
<1>5. \A k \in 1 .. n - 1 : from(k) \in 1 .. n /\ from(k) # i /\ b[k] = s[from(k)]
    BY <1>2, <1>3
<1>6. \A k, l \in 1 .. n - 1 : from(k) = from(l) => k = l
    BY <1>3
<1>7. \A k \in 1 .. n : k # i => \E l \in 1 .. n - 1 : from(l) = k
    <2>1. SUFFICES ASSUME NEW k \in 1 .. n, k # i PROVE \E l \in 1 .. n - 1 : from(l) = k
        OBVIOUS
    <2>2. CASE k < i
        <3>1. k \in 1 .. n - 1 /\ from(k) = k
            BY <2>2, <1>3
        <3>2. QED
            BY <3>1
    <2>3. CASE k > i
        <3>1. k - 1 \in 1 .. n - 1 /\ from(k - 1) = k
            BY <2>3, <1>3
        <3>2. QED
            BY <3>1
    <2>4. QED
        BY <2>1, <2>2, <2>3, <1>3
<1> HIDE DEF from
<1>8. IsInjective(b)
    BY <1>3, <1>4, <1>5, <1>6 DEF IsInjective
<1>9. \A x \in ToSet(b) : x \in ToSet(s) \ {s[i]}
    <2>1. SUFFICES ASSUME NEW k \in 1 .. n - 1 PROVE b[k] \in ToSet(s) /\ b[k] # s[i]
        BY <1>3 DEF ToSet
    <2>2. QED
        BY <1>3, <1>4, <1>5 DEF ToSet
<1>10. \A x \in ToSet(s) \ {s[i]} : x \in ToSet(b)
    <2>1. SUFFICES ASSUME NEW k \in 1 .. n, s[k] # s[i] PROVE s[k] \in ToSet(b)
        BY <1>3 DEF ToSet
    <2>2. PICK l \in 1 .. n - 1 : from(l) = k
        BY <2>1, <1>7
    <2>3. QED
        BY <2>2, <1>3, <1>5 DEF ToSet
<1>11. QED
    BY <1>8, <1>9, <1>10 DEF b

(* A move changes the order only.                                           *)
LEMMA MovedOnce ==
    ASSUME NEW S, NEW s \in Seq(S), NEW from \in 1 .. Len(s), NEW to \in 1 .. Len(s)
    PROVE  /\ IsInjective(s) => IsInjective(Moved(s, from, to))
           /\ ToSet(Moved(s, from, to)) = ToSet(s)
<1> DEFINE b == Moved(s, from, to)
<1>1. PICK n \in Nat : n = Len(s)
    BY LenProperties
<1>2. b \in Seq(S) /\ Rearranged(b, s, from, to)
    BY MovedProperties
<1> HIDE DEF b
<1>3. DOMAIN b = 1 .. n /\ DOMAIN s = 1 .. n
    BY <1>1, <1>2, LenProperties DEF Rearranged
<1>4. \A k \in 1 .. n : b[k] = s[Source(k, from, to)]
    BY <1>1, <1>2 DEF Rearranged
<1>5. Within(n, from, to) /\ OneToOne(n, from, to) /\ Onto(n, from, to)
    BY <1>1, SourceProperties
<1>6. IsInjective(s) => IsInjective(b)
    BY <1>3, <1>4, <1>5 DEF IsInjective, Within, OneToOne
<1>7. \A k \in 1 .. n : b[k] \in ToSet(s)
    BY <1>3, <1>4, <1>5 DEF ToSet, Within
<1>8. ASSUME NEW k \in 1 .. n PROVE s[k] \in ToSet(b)
    <2>1. PICK l \in 1 .. n : Source(l, from, to) = k
        BY <1>5 DEF Onto
    <2>2. b[l] = s[k]
        BY <2>1, <1>4
    <2>3. QED
        BY <2>2, <1>3 DEF ToSet
<1>9. ToSet(b) = ToSet(s)
    <2>1. \A x \in ToSet(b) : x \in ToSet(s)
        BY <1>3, <1>7 DEF ToSet
    <2>2. \A x \in ToSet(s) : x \in ToSet(b)
        BY <1>3, <1>8 DEF ToSet
    <2>3. QED
        BY <2>1, <2>2
<1>10. QED
    BY <1>6, <1>9 DEF b

(* The elements of two lists, one after the other.                          *)
LEMMA ElementsOfBoth ==
    ASSUME NEW S, NEW s \in Seq(S), NEW t \in Seq(S)
    PROVE  ToSet(s \o t) = ToSet(s) \cup ToSet(t)
<1>1. PICK m \in Nat : m = Len(s) /\ DOMAIN s = 1 .. m
    BY LenProperties
<1>2. PICK n \in Nat : n = Len(t) /\ DOMAIN t = 1 .. n
    BY LenProperties
<1> DEFINE u == s \o t
<1>3. /\ DOMAIN u = 1 .. m + n
      /\ \A i \in 1 .. m + n : u[i] = IF i <= m THEN s[i] ELSE t[i - m]
    <2>1. /\ u \in Seq(S) /\ Len(u) = m + n
          /\ \A i \in 1 .. m + n : u[i] = IF i <= m THEN s[i] ELSE t[i - m]
        BY <1>1, <1>2, ConcatProperties
    <2> HIDE DEF u
    <2>2. QED
        BY <2>1, LenProperties
<1> HIDE DEF u
<1>4. ASSUME NEW i \in 1 .. m + n PROVE u[i] \in ToSet(s) \cup ToSet(t)
    <2>1. CASE i <= m
        <3>1. i \in DOMAIN s /\ u[i] = s[i]
            BY <1>1, <1>2, <1>3, <2>1
        <3>2. QED
            BY <3>1 DEF ToSet
    <2>2. CASE ~(i <= m)
        <3>1. i - m \in DOMAIN t /\ u[i] = t[i - m]
            BY <1>1, <1>2, <1>3, <2>2
        <3>2. QED
            BY <3>1 DEF ToSet
    <2>3. QED
        BY <2>1, <2>2
<1>5. ASSUME NEW i \in 1 .. m PROVE s[i] \in ToSet(u)
    <2>1. i \in 1 .. m + n /\ u[i] = s[i]
        BY <1>1, <1>2, <1>3
    <2>2. QED
        BY <1>3, <2>1 DEF ToSet
<1>6. ASSUME NEW i \in 1 .. n PROVE t[i] \in ToSet(u)
    <2>1. m + i \in 1 .. m + n /\ ~(m + i <= m) /\ (m + i) - m = i
        BY <1>1, <1>2
    <2>2. u[m + i] = t[i]
        BY <1>3, <2>1
    <2>3. QED
        BY <1>3, <2>1, <2>2 DEF ToSet
<1>7. ToSet(u) = ToSet(s) \cup ToSet(t)
    BY <1>1, <1>2, <1>3, <1>4, <1>5, <1>6 DEF ToSet
<1>8. QED
    BY <1>7 DEF u
=============================================================================
