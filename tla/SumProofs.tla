-------------------------------- MODULE SumProofs -------------------------------
(*****************************************************************************)
(* What Total of module Sums computes.  A recursive function is, to the      *)
(* prover, any value that satisfies its equation, so the first part shows    *)
(* that a function of the equation exists; the second derives the facts the  *)
(* proofs about money use: sums of integers are integers, sums of naturals   *)
(* are naturals, and what appending or changing entries does to a sum.       *)
(*****************************************************************************)
EXTENDS Sums, FiniteSetTheorems, WellFoundedInduction, TLAPS

-------------------------------------------------------------------------------
(* Induction over Nat, by smallest counterexample.                           *)

\* Every nonempty set of naturals has a least element.  Taken from the set of
\* intervals 0..x, of which proper inclusion is well-founded.
LEMMA LeastElement ==
  ASSUME NEW T, T \subseteq Nat, T # {}
  PROVE  \E x \in T : \A y \in T : x <= y
<1>1. PICK n \in T : TRUE OBVIOUS
<1>2. n \in Nat OBVIOUS
<1>. DEFINE S == 0..n
            R == StrictSubsetOrdering(S)
            U == {A \in SUBSET S : \E x \in T : A = 0..x}
<1>3. IsFiniteSet(S) BY <1>2, FS_Interval
<1>4. IsWellFoundedOn(R, SUBSET S)
  <2>1. FiniteSubsetsOf(S) = SUBSET S BY <1>3, FS_FiniteSubsetsOfFinite
  <2>. QED BY <2>1, FS_StrictSubsetOrderingWellFounded
<1>5. S \in U BY <1>1
<1>6. PICK A \in U : \A B \in U : ~(<< B, A >> \in R)
  <2>. HIDE DEF R
  <2>1. U \subseteq SUBSET S OBVIOUS
  <2>2. U # {} BY <1>5
  <2>. HIDE DEF U, S
  <2>. QED BY <1>4, <2>1, <2>2, WFMin
<1>7. PICK x \in T : A = 0..x BY <1>6
<1>8. ASSUME NEW y \in T, y < x PROVE FALSE
  <2>1. y \in Nat /\ x \in Nat OBVIOUS
  <2>2. 0..y \in SUBSET S /\ A \in SUBSET S BY <2>1, <1>7, <1>8
  <2>3. 0..y \in U BY <2>2
  <2>4. 0..y # 0..x BY <2>1, <1>8
  <2>5. 0..y \subseteq 0..x BY <2>1, <1>8
  <2>6. << 0..y, A >> \in R BY <2>2, <2>4, <2>5, <1>7 DEF StrictSubsetOrdering
  <2>. QED BY <2>6, <2>3, <1>6
<1>9. \A y \in T : y \in Nat OBVIOUS
<1>. QED BY <1>7, <1>8, <1>9

\* A set of naturals that has 0 and every successor has all of them.
LEMMA Induction ==
  ASSUME NEW T, 0 \in T, \A n \in Nat : n \in T => n + 1 \in T
  PROVE  Nat \subseteq T
<1>. DEFINE F == {n \in Nat : n \notin T}
<1>1. SUFFICES ASSUME F # {} PROVE FALSE OBVIOUS
<1>2. PICK x \in F : \A y \in F : x <= y
  <2>1. F \subseteq Nat OBVIOUS
  <2>. HIDE DEF F
  <2>. QED BY <1>1, <2>1, LeastElement
<1>3. x \in Nat /\ x # 0 OBVIOUS
<1>4. x - 1 \in Nat /\ x - 1 \in T BY <1>2, <1>3
<1>5. (x - 1) + 1 \in T BY <1>4
<1>. QED BY <1>3, <1>5, <1>2

-------------------------------------------------------------------------------
(* The recursive function exists.                                            *)

\* What n adds to the sum of s.
Summand(s, n) == IF n \in DOMAIN s THEN s[n] ELSE 0

\* s is a sequence of integers.
IntSeq(s) == s \in Seq(Int)

\* f holds the first n partial sums of s.
Sums0To(s, f, n) ==
  /\ f \in [0..n -> Int]
  /\ f[0] = 0
  /\ \A m \in 1..n : f[m] = f[m - 1] + Summand(s, m)

\* Summands are integers.
LEMMA SummandInt ==
  ASSUME NEW s \in Seq(Int), NEW n \in Nat
  PROVE  Summand(s, n) \in Int
BY DEF Summand

\* The first n partial sums exist.
LEMMA SumsExist ==
  ASSUME NEW s \in Seq(Int)
  PROVE  \A n \in Nat : \E f : Sums0To(s, f, n)
<1>. DEFINE T == {n \in Nat : \E f : Sums0To(s, f, n)}
<1>1. 0 \in T
  <2>1. Sums0To(s, [i \in 0..0 |-> 0], 0) BY DEF Sums0To
  <2>. QED BY <2>1
<1>2. ASSUME NEW n \in Nat, n \in T PROVE n + 1 \in T
  <2>1. PICK f : Sums0To(s, f, n) BY <1>2
  <2>. DEFINE g == [i \in 0..(n + 1) |-> IF i = n + 1 THEN f[n] + Summand(s, n + 1) ELSE f[i]]
  <2>2. f[n] \in Int BY <2>1 DEF Sums0To
  <2>3. g \in [0..(n + 1) -> Int] BY <2>1, <2>2, SummandInt DEF Sums0To
  <2>4. g[0] = 0 BY <2>1 DEF Sums0To
  <2>5. \A m \in 1..(n + 1) : g[m] = g[m - 1] + Summand(s, m)
    <3>. TAKE m \in 1..(n + 1)
    <3>1. CASE m = n + 1 BY <3>1
    <3>2. CASE m # n + 1
      <4>1. m \in 1..n BY <3>2
      <4>. QED BY <2>1, <4>1 DEF Sums0To
    <3>. QED BY <3>1, <3>2
  <2>. HIDE DEF g
  <2>6. Sums0To(s, g, n + 1) BY <2>3, <2>4, <2>5 DEF Sums0To
  <2>. QED BY <2>6
<1>. HIDE DEF T
<1>3. Nat \subseteq T BY <1>1, <1>2, Induction
<1>. QED BY <1>3 DEF T

\* Two lists of partial sums agree where both are defined.
LEMMA SumsUnique ==
  ASSUME NEW s \in Seq(Int), NEW f, NEW g, NEW k \in Nat, NEW l \in Nat,
         Sums0To(s, f, k), Sums0To(s, g, l)
  PROVE  \A n \in 0..k : n <= l => f[n] = g[n]
<1>. DEFINE T == {n \in Nat : n <= k /\ n <= l => f[n] = g[n]}
<1>1. 0 \in T BY DEF Sums0To
<1>2. ASSUME NEW n \in Nat, n \in T PROVE n + 1 \in T
  <2>1. SUFFICES ASSUME n + 1 <= k, n + 1 <= l PROVE f[n + 1] = g[n + 1]
    OBVIOUS
  <2>2. f[n] = g[n] BY <1>2, <2>1
  <2>3. n + 1 \in 1..k /\ n + 1 \in 1..l /\ (n + 1) - 1 = n BY <2>1
  <2>. QED BY <2>2, <2>3 DEF Sums0To
<1>. HIDE DEF T
<1>3. Nat \subseteq T BY <1>1, <1>2, Induction
<1>. QED BY <1>3 DEF T

\* PartialSums satisfies the equation it is defined by.
LEMMA PartialSumsEquation ==
  ASSUME NEW s \in Seq(Int)
  PROVE  /\ PartialSums(s) \in [Nat -> Int]
         /\ PartialSums(s)[0] = 0
         /\ \A n \in Nat : PartialSums(s)[n + 1] = PartialSums(s)[n] + Summand(s, n + 1)
<1>. DEFINE upTo(n) == CHOOSE f : Sums0To(s, f, n)
            h == [n \in Nat |-> upTo(n)[n]]
            IsSum(f) == f = [n \in Nat |-> IF n = 0 THEN 0
                               ELSE f[n - 1] + (IF n \in DOMAIN s THEN s[n] ELSE 0)]
<1>1. \A n \in Nat : Sums0To(s, upTo(n), n) BY SumsExist
<1>. HIDE DEF upTo
<1>2. h \in [Nat -> Int] BY <1>1 DEF Sums0To
<1>3. h[0] = 0 BY <1>1 DEF Sums0To
<1>4. ASSUME NEW n \in Nat, n # 0 PROVE h[n] = h[n - 1] + Summand(s, n)
  <2>1. n - 1 \in Nat /\ n \in 1..n /\ n - 1 \in 0..n /\ n - 1 \in 0..(n - 1) BY <1>4
  <2>2. upTo(n)[n] = upTo(n)[n - 1] + Summand(s, n) BY <1>1, <2>1 DEF Sums0To
  <2>3. upTo(n - 1)[n - 1] = upTo(n)[n - 1]
    BY <1>1, <2>1, SumsUnique
  <2>. QED BY <2>1, <2>2, <2>3
<1>5. IsSum(h)
  <2>. DEFINE k == [n \in Nat |-> IF n = 0 THEN 0
                      ELSE h[n - 1] + (IF n \in DOMAIN s THEN s[n] ELSE 0)]
  <2>1. \A n \in Nat : h[n] = k[n] BY <1>3, <1>4 DEF Summand
  <2>. HIDE DEF h
  <2>2. h = [n \in Nat |-> h[n]] BY <1>2
  <2>3. k = [n \in Nat |-> k[n]] OBVIOUS
  <2>. HIDE DEF k
  <2>4. h = k BY <2>1, <2>2, <2>3
  <2>. QED BY <2>4 DEF k
<1>. HIDE DEF h
<1>6. PartialSums(s) = CHOOSE f : IsSum(f) BY DEF PartialSums
<1>7. IsSum(PartialSums(s)) BY <1>5, <1>6
<1>. DEFINE p == PartialSums(s)
<1>8. p[0] = 0 BY <1>7
<1>9. \A n \in Nat : p[n + 1] = p[n] + Summand(s, n + 1) 
  <2>. TAKE n \in Nat
  <2>1. n + 1 # 0 /\ (n + 1) - 1 = n /\ n + 1 \in Nat OBVIOUS
  <2>2. \A m \in Nat : p[m] = IF m = 0 THEN 0
                               ELSE p[m - 1] + (IF m \in DOMAIN s THEN s[m] ELSE 0)
    BY <1>7
  <2>3. p[n + 1] = p[(n + 1) - 1] + (IF n + 1 \in DOMAIN s THEN s[n + 1] ELSE 0)
    BY <2>1, <2>2
  <2>. HIDE DEF p
  <2>. QED BY <2>1, <2>3 DEF Summand
<1>10. p = [n \in Nat |-> p[n]] BY <1>7
<1>. HIDE DEF p
<1>11. \A n \in Nat : p[n] \in Int
  <2>. DEFINE T == {n \in Nat : p[n] \in Int}
  <2>1. 0 \in T BY <1>8
  <2>2. ASSUME NEW n \in Nat, n \in T PROVE n + 1 \in T
    <3>1. p[n] \in Int BY <2>2
    <3>2. n + 1 \in Nat /\ Summand(s, n + 1) \in Int BY SummandInt
    <3>3. p[n + 1] = p[n] + Summand(s, n + 1) BY <1>9
    <3>. QED BY <3>1, <3>2, <3>3
  <2>. HIDE DEF T
  <2>3. Nat \subseteq T BY <2>1, <2>2, Induction
  <2>. QED BY <2>3 DEF T
<1>12. p \in [Nat -> Int] BY <1>10, <1>11
<1>. QED BY <1>8, <1>9, <1>12 DEF p

-------------------------------------------------------------------------------
(* Sums of sequences.                                                        *)

\* Sums of integers are integers.
LEMMA TotalInt ==
  ASSUME NEW s \in Seq(Int)
  PROVE  Total(s) \in Int
BY PartialSumsEquation DEF Total

\* Two sequences with the same first n entries have the same nth partial sum.
LEMMA PartialSumsAgree ==
  ASSUME NEW s \in Seq(Int), NEW t \in Seq(Int), NEW n \in Nat,
         n <= Len(s), n <= Len(t), \A i \in 1..n : s[i] = t[i]
  PROVE  PartialSums(s)[n] = PartialSums(t)[n]
<1>. DEFINE T == {m \in Nat : m <= n => PartialSums(s)[m] = PartialSums(t)[m]}
<1>1. 0 \in T BY PartialSumsEquation
<1>2. ASSUME NEW m \in Nat, m \in T PROVE m + 1 \in T
  <2>1. SUFFICES ASSUME m + 1 <= n PROVE PartialSums(s)[m + 1] = PartialSums(t)[m + 1]
    OBVIOUS
  <2>2. PartialSums(s)[m] = PartialSums(t)[m] BY <1>2, <2>1
  <2>3. m + 1 \in 1..n /\ m + 1 \in 1..Len(s) /\ m + 1 \in 1..Len(t) BY <2>1
  <2>4. Summand(s, m + 1) = Summand(t, m + 1) BY <2>3 DEF Summand
  <2>. QED BY <2>2, <2>4, PartialSumsEquation
<1>. HIDE DEF T
<1>3. Nat \subseteq T BY <1>1, <1>2, Induction
<1>. QED BY <1>3 DEF T

\* Sums of naturals are naturals.
LEMMA TotalNat ==
  ASSUME NEW s \in Seq(Nat)
  PROVE  Total(s) \in Nat
<1>. DEFINE p == PartialSums(s)
            T == {n \in Nat : p[n] \in Nat}
<1>1. /\ p[0] = 0
      /\ \A n \in Nat : p[n + 1] = p[n] + Summand(s, n + 1)
  <2>1. s \in Seq(Int) OBVIOUS
  <2>. QED BY <2>1, PartialSumsEquation
<1>. HIDE DEF p
<1>2. 0 \in T BY <1>1
<1>3. ASSUME NEW n \in Nat, n \in T PROVE n + 1 \in T
  <2>1. Summand(s, n + 1) \in Nat BY DEF Summand
  <2>2. p[n] \in Nat /\ p[n + 1] = p[n] + Summand(s, n + 1) BY <1>1, <1>3
  <2>3. p[n + 1] \in Nat BY <2>1, <2>2
  <2>. QED BY <2>3
<1>. HIDE DEF T
<1>4. Nat \subseteq T BY <1>2, <1>3, Induction
<1>. QED BY <1>4 DEF T, Total, p

\* Sums are monotone in their entries.
LEMMA TotalMonotone ==
  ASSUME NEW s \in Seq(Int), NEW t \in Seq(Int), Len(s) = Len(t),
         \A i \in 1..Len(s) : s[i] <= t[i]
  PROVE  Total(s) <= Total(t)
<1>. DEFINE p == PartialSums(s)
            q == PartialSums(t)
            T == {n \in Nat : p[n] <= q[n]}
<1>1. /\ p \in [Nat -> Int] /\ p[0] = 0
      /\ \A n \in Nat : p[n + 1] = p[n] + Summand(s, n + 1)
  BY PartialSumsEquation
<1>2. /\ q \in [Nat -> Int] /\ q[0] = 0
      /\ \A n \in Nat : q[n + 1] = q[n] + Summand(t, n + 1)
  BY PartialSumsEquation
<1>. HIDE DEF p, q
<1>3. 0 \in T BY <1>1, <1>2
<1>4. ASSUME NEW n \in Nat, n \in T PROVE n + 1 \in T
  <2>1. Summand(s, n + 1) <= Summand(t, n + 1) BY DEF Summand
  <2>2. Summand(s, n + 1) \in Int /\ Summand(t, n + 1) \in Int
    <3>1. n + 1 \in Nat OBVIOUS
    <3>. QED BY <3>1, SummandInt
  <2>3. p[n] \in Int /\ q[n] \in Int /\ p[n] <= q[n] BY <1>1, <1>2, <1>4
  <2>. QED BY <1>1, <1>2, <2>1, <2>2, <2>3
<1>. HIDE DEF T
<1>5. Nat \subseteq T BY <1>3, <1>4, Induction
<1>6. Len(s) \in Nat OBVIOUS
<1>. QED BY <1>5, <1>6 DEF T, Total, p, q

\* The sum of two sequences one after the other.
LEMMA TotalConcat ==
  ASSUME NEW s \in Seq(Int), NEW t \in Seq(Int)
  PROVE  Total(s \o t) = Total(s) + Total(t)
<1>. DEFINE st == s \o t
            l == Len(s)
            p == PartialSums(s)
            q == PartialSums(t)
            r == PartialSums(st)
            T == {n \in Nat : n <= Len(t) => r[l + n] = p[l] + q[n]}
<1>1. /\ st \in Seq(Int) /\ Len(st) = l + Len(t)
      /\ l \in Nat /\ Len(t) \in Nat
  OBVIOUS
<1>2. /\ \A i \in 1..l : st[i] = s[i]
      /\ \A i \in 1..Len(t) : st[l + i] = t[i]
  OBVIOUS
<1>. HIDE DEF st
<1>3. r[l] = p[l]
  <2>1. l <= Len(s) /\ l <= Len(st) BY <1>1
  <2>. HIDE DEF l
  <2>. QED BY <1>1, <1>2, <2>1, PartialSumsAgree
<1>4. p[l] \in Int
  <2>1. p \in [Nat -> Int] BY PartialSumsEquation
  <2>. QED BY <1>1, <2>1
<1>5. /\ q \in [Nat -> Int] /\ q[0] = 0
      /\ \A n \in Nat : q[n + 1] = q[n] + Summand(t, n + 1)
  BY PartialSumsEquation
<1>6. \A n \in Nat : r[n + 1] = r[n] + Summand(st, n + 1)
  BY <1>1, PartialSumsEquation
<1>. HIDE DEF p, q, r
<1>7. 0 \in T
  <2>1. l + 0 = l /\ p[l] + 0 = p[l] BY <1>1, <1>4
  <2>2. r[l + 0] = p[l] + q[0] BY <1>3, <1>5, <2>1
  <2>. QED BY <2>2
<1>8. ASSUME NEW n \in Nat, n \in T PROVE n + 1 \in T
  <2>1. SUFFICES ASSUME n + 1 <= Len(t) PROVE r[l + (n + 1)] = p[l] + q[n + 1]
    OBVIOUS
  <2>2. r[l + n] = p[l] + q[n] BY <1>8, <1>1, <2>1
  <2>3. (l + n) + 1 = l + (n + 1) /\ l + n \in Nat /\ n + 1 \in Nat BY <1>1
  <2>4. Summand(st, (l + n) + 1) = Summand(t, n + 1)
    <3>1. n + 1 \in DOMAIN t /\ (l + n) + 1 \in DOMAIN st
      BY <1>1, <2>1
    <3>2. st[l + (n + 1)] = t[n + 1] BY <1>1, <1>2, <2>1
    <3>. QED BY <2>3, <3>1, <3>2 DEF Summand
  <2>5. Summand(t, n + 1) \in Int BY <2>3, SummandInt
  <2>6. r[l + (n + 1)] = r[l + n] + Summand(t, n + 1) BY <1>6, <2>3, <2>4
  <2>7. q[n] \in Int /\ q[n + 1] = q[n] + Summand(t, n + 1) BY <1>5
  <2>. QED BY <1>4, <2>2, <2>5, <2>6, <2>7
<1>. HIDE DEF T
<1>9. Nat \subseteq T BY <1>7, <1>8, Induction
<1>10. r[l + Len(t)] = p[l] + q[Len(t)] BY <1>9, <1>1 DEF T
<1>. QED BY <1>1, <1>10 DEF Total, st, p, q, r

\* Changing one entry changes the sum by as much.
LEMMA TotalUpdate ==
  ASSUME NEW s \in Seq(Int), NEW t \in Seq(Int), Len(s) = Len(t), NEW k \in 1..Len(s),
         \A i \in 1..Len(s) : i # k => t[i] = s[i]
  PROVE  Total(t) = Total(s) + t[k] - s[k]
<1>. DEFINE p == PartialSums(s)
            q == PartialSums(t)
            d == t[k] - s[k]
            T == {n \in Nat : q[n] = p[n] + (IF n < k THEN 0 ELSE d)}
<1>1. /\ p \in [Nat -> Int] /\ p[0] = 0
      /\ \A n \in Nat : p[n + 1] = p[n] + Summand(s, n + 1)
  BY PartialSumsEquation
<1>2. /\ q \in [Nat -> Int] /\ q[0] = 0
      /\ \A n \in Nat : q[n + 1] = q[n] + Summand(t, n + 1)
  BY PartialSumsEquation
<1>3. s[k] \in Int /\ t[k] \in Int OBVIOUS
<1>4. d \in Int BY <1>3
<1>5. \A n \in Nat : Summand(t, n) = Summand(s, n) + (IF n = k THEN d ELSE 0)
  BY <1>3 DEF Summand
<1>. HIDE DEF p, q, d
<1>6. 0 \in T BY <1>1, <1>2
<1>7. ASSUME NEW n \in Nat, n \in T PROVE n + 1 \in T
  <2>1. n + 1 \in Nat OBVIOUS
  <2>2. Summand(s, n + 1) \in Int BY <2>1, SummandInt
  <2>3. Summand(t, n + 1) = Summand(s, n + 1) + (IF n + 1 = k THEN d ELSE 0)
    BY <1>5, <2>1
  <2>4. p[n] \in Int /\ q[n] = p[n] + (IF n < k THEN 0 ELSE d) BY <1>1, <1>7
  <2>5. p[n + 1] = p[n] + Summand(s, n + 1) /\ q[n + 1] = q[n] + Summand(t, n + 1)
    BY <1>1, <1>2
  <2>. QED BY <1>4, <2>1, <2>2, <2>3, <2>4, <2>5
<1>. HIDE DEF T
<1>8. Nat \subseteq T BY <1>6, <1>7, Induction
<1>9. Len(s) \in Nat OBVIOUS
<1>10. q[Len(s)] = p[Len(s)] + d BY <1>8, <1>9 DEF T
<1>11. p[Len(s)] \in Int BY <1>1, <1>9
<1>. QED BY <1>3, <1>10, <1>11 DEF Total, p, q, d

\* An entry of zero at the end adds nothing.
LEMMA TotalAppendZero ==
  ASSUME NEW s \in Seq(Int)
  PROVE  Total(Append(s, 0)) = Total(s)
<1>. DEFINE t == Append(s, 0)
            p == PartialSums(s)
            q == PartialSums(t)
<1>1. t \in Seq(Int) /\ Len(t) = Len(s) + 1 /\ Len(s) \in Nat
      /\ \A i \in 1..Len(s) : t[i] = s[i]
  OBVIOUS
<1>2. Summand(t, Len(s) + 1) = 0 BY <1>1 DEF Summand
<1>. HIDE DEF t
<1>3. q[Len(s)] = p[Len(s)]
  <2>1. Len(s) <= Len(s) /\ Len(s) <= Len(t) BY <1>1
  <2>2. \A i \in 1..Len(s) : s[i] = t[i] BY <1>1
  <2>. QED BY <1>1, <2>1, <2>2, PartialSumsAgree
<1>4. q[Len(s) + 1] = q[Len(s)] + Summand(t, Len(s) + 1) BY <1>1, PartialSumsEquation
<1>5. p[Len(s)] \in Int BY <1>1, PartialSumsEquation
<1>. QED BY <1>1, <1>2, <1>3, <1>4, <1>5 DEF Total, t

\* Nothing but zeros adds up to zero.
LEMMA TotalZeros ==
  ASSUME NEW s \in Seq(Int), \A i \in 1..Len(s) : s[i] = 0
  PROVE  Total(s) = 0
<1>. DEFINE p == PartialSums(s)
            T == {n \in Nat : p[n] = 0}
<1>1. p[0] = 0 /\ \A n \in Nat : p[n + 1] = p[n] + Summand(s, n + 1)
  BY PartialSumsEquation
<1>2. ASSUME NEW n \in Nat PROVE Summand(s, n) = 0 BY DEF Summand
<1>. HIDE DEF p
<1>3. 0 \in T BY <1>1
<1>4. ASSUME NEW n \in Nat, n \in T PROVE n + 1 \in T
  <2>1. n + 1 \in Nat OBVIOUS
  <2>2. p[n + 1] = p[n] + Summand(s, n + 1) /\ p[n] = 0 /\ Summand(s, n + 1) = 0
    BY <1>1, <1>2, <1>4, <2>1
  <2>. QED BY <2>1, <2>2
<1>. HIDE DEF T
<1>5. Nat \subseteq T BY <1>3, <1>4, Induction
<1>6. Len(s) \in Nat OBVIOUS
<1>. QED BY <1>5, <1>6 DEF T, Total, p

=================================================================================
