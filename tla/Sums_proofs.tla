----------------------------- MODULE Sums_proofs -----------------------------
(***************************************************************************)
(* Facts about SumTo.  Induction over the naturals is used in the form     *)
(* "a set that holds 0 and is closed under successor holds every natural", *)
(* which follows from the well-foundedness of < on Nat.                    *)
(***************************************************************************)
EXTENDS Sums, WellFoundedInduction, TLAPS

LOCAL NatLess == {ss \in Nat \X Nat : ss[1] < ss[2]}

\* Every non-empty set of naturals has a least element.
LEMMA LeastNat ==
  ASSUME NEW T \in SUBSET Nat, T # {}
  PROVE  \E x \in T : \A y \in T : x <= y
<1>1. IsWellFoundedOn(NatLess, Nat)
  BY NatLessThanWellFounded DEF NatLess, OpToRel
<1>2. PICK x \in T : \A y \in T : ~ (<<y, x>> \in NatLess)
  BY <1>1, WFMin
<1>3. ASSUME NEW y \in T PROVE x <= y
  <2>1. x \in Nat /\ y \in Nat /\ ~ (<<y, x>> \in NatLess)
    BY <1>2
  <2>2. ~ (y < x)
    BY <2>1 DEF NatLess
  <2>3. QED
    BY <2>1, <2>2
<1>4. QED
  BY <1>3

\* Induction over the naturals, stated for a set.
LEMMA NatSetInduction ==
  ASSUME NEW S, 0 \in S, \A n \in Nat : n \in S => n + 1 \in S
  PROVE  Nat \subseteq S
<1>1. SUFFICES ASSUME Nat \ S # {} PROVE FALSE
  OBVIOUS
<1>2. PICK m \in Nat \ S : \A y \in Nat \ S : m <= y
  BY <1>1, LeastNat
<1>3. m # 0 /\ m - 1 \in Nat
  BY <1>2
<1>4. m - 1 \in S
  BY <1>2, <1>3
<1>5. (m - 1) + 1 \in S /\ (m - 1) + 1 = m
  BY <1>2, <1>3, <1>4
<1>6. QED
  BY <1>2, <1>5

\* The recursive definition of PrefixSums has a solution, so the definition
\* may be unfolded.
LEMMA PrefixSumsDef ==
  ASSUME NEW n \in Nat, NEW f \in [1..n -> Int]
  PROVE  PrefixSums(f, n) =
           [k \in 0..n |-> IF k = 0 THEN 0 ELSE PrefixSums(f, n)[k - 1] + f[k]]
<1> DEFINE Solves(s, m) == s = [k \in 0..m |-> IF k = 0 THEN 0 ELSE s[k - 1] + f[k]]
           Solvable == {m \in Nat : m <= n => \E s : Solves(s, m)}
<1>1. 0 \in Solvable
  <2>1. Solves([k \in 0..0 |-> 0], 0)
    OBVIOUS
  <2>2. QED
    BY <2>1
<1>2. ASSUME NEW m \in Nat, m \in Solvable
      PROVE  m + 1 \in Solvable
  <2>1. SUFFICES ASSUME m + 1 <= n
                 PROVE  \E s : Solves(s, m + 1)
    OBVIOUS
  <2>2. PICK s : Solves(s, m)
    BY <1>2, <2>1
  <2> DEFINE t == [k \in 0..(m + 1) |-> IF k <= m THEN s[k] ELSE s[m] + f[m + 1]]
  <2>3. \A k \in 0..m : s[k] = IF k = 0 THEN 0 ELSE s[k - 1] + f[k]
    BY <2>2
  <2>4. \A k \in 0..(m + 1) : t[k] = IF k = 0 THEN 0 ELSE t[k - 1] + f[k]
    BY <2>3
  <2>5. Solves(t, m + 1)
    BY <2>4
  <2>6. QED
    BY <2>5
<1>3. n \in Solvable
  <2> HIDE DEF Solvable
  <2>1. Nat \subseteq Solvable
    BY <1>1, <1>2, NatSetInduction
  <2>2. QED
    BY <2>1
<1>4. PICK s : Solves(s, n)
  BY <1>3
<1>5. QED
  BY <1>4 DEF PrefixSums

\* Unfolded at one index, and typed.
LEMMA PrefixSumsStep ==
  ASSUME NEW n \in Nat, NEW f \in [1..n -> Int]
  PROVE  /\ PrefixSums(f, n)[0] = 0
         /\ \A k \in 1..n : PrefixSums(f, n)[k] = PrefixSums(f, n)[k - 1] + f[k]
<1> DEFINE s == PrefixSums(f, n)
<1>1. s = [k \in 0..n |-> IF k = 0 THEN 0 ELSE s[k - 1] + f[k]]
  BY PrefixSumsDef
<1> HIDE DEF s
<1>2. s[0] = 0 /\ \A k \in 1..n : s[k] = s[k - 1] + f[k]
  BY <1>1
<1>3. QED
  BY <1>2 DEF s

LEMMA PrefixSumsType ==
  ASSUME NEW n \in Nat, NEW f \in [1..n -> Int]
  PROVE  \A k \in 0..n : PrefixSums(f, n)[k] \in Int
<1> DEFINE s == PrefixSums(f, n)
           S == {k \in Nat : k <= n => s[k] \in Int}
<1>1. 0 \in S
  BY PrefixSumsStep
<1>2. ASSUME NEW k \in Nat, k \in S PROVE k + 1 \in S
  <2>1. SUFFICES ASSUME k + 1 <= n PROVE s[k + 1] \in Int
    OBVIOUS
  <2>2. k + 1 \in 1..n /\ (k + 1) - 1 = k /\ s[k] \in Int
    BY <1>2, <2>1
  <2>3. s[k + 1] = s[k] + f[k + 1]
    BY <2>2, PrefixSumsStep
  <2>4. QED
    BY <2>2, <2>3
<1>3. Nat \subseteq S
  <2> HIDE DEF S
  <2>1. QED BY <1>1, <1>2, NatSetInduction
<1>4. QED
  BY <1>3

\* Changing one entry of f changes the sum by the difference.
LEMMA SumToUpdate ==
  ASSUME NEW n \in Nat, NEW f \in [1..n -> Int], NEW i \in 1..n, NEW v \in Int
  PROVE  SumTo([f EXCEPT ![i] = v], n) = SumTo(f, n) + (v - f[i])
<1> DEFINE g == [f EXCEPT ![i] = v]
           s == PrefixSums(f, n)
           t == PrefixSums(g, n)
           S == {k \in Nat : k <= n => t[k] = s[k] + (IF i <= k THEN v - f[i] ELSE 0)}
<1>1. g \in [1..n -> Int] /\ \A k \in 1..n : g[k] = IF k = i THEN v ELSE f[k]
  OBVIOUS
<1>2. /\ s[0] = 0 /\ \A k \in 1..n : s[k] = s[k - 1] + f[k]
      /\ \A k \in 0..n : s[k] \in Int
  BY PrefixSumsStep, PrefixSumsType
<1> HIDE DEF g
<1>3. t[0] = 0 /\ \A k \in 1..n : t[k] = t[k - 1] + g[k]
  BY <1>1, PrefixSumsStep
<1> HIDE DEF s, t
<1>4. 0 \in S
  BY <1>2, <1>3
<1>5. ASSUME NEW k \in Nat, k \in S PROVE k + 1 \in S
  <2>1. SUFFICES ASSUME k + 1 <= n
                 PROVE  t[k + 1] = s[k + 1] + (IF i <= k + 1 THEN v - f[i] ELSE 0)
    OBVIOUS
  <2>2. k + 1 \in 1..n /\ (k + 1) - 1 = k /\ k \in 0..n
    BY <2>1
  <2>3. t[k] = s[k] + (IF i <= k THEN v - f[i] ELSE 0)
    BY <1>5, <2>1
  <2>4. t[k + 1] = t[k] + g[k + 1] /\ s[k + 1] = s[k] + f[k + 1]
    BY <1>2, <1>3, <2>2
  <2>5. s[k] \in Int /\ f[k + 1] \in Int /\ f[i] \in Int
    BY <1>2, <2>2
  <2>6. CASE k + 1 = i
    <3>1. g[k + 1] = v /\ f[k + 1] = f[i] /\ ~ (i <= k) /\ i <= k + 1
      BY <1>1, <2>2, <2>6
    <3>2. QED
      BY <3>1, <2>3, <2>4, <2>5
  <2>7. CASE k + 1 # i
    <3>1. g[k + 1] = f[k + 1] /\ (i <= k + 1 <=> i <= k)
      BY <1>1, <2>2, <2>7
    <3>2. QED
      BY <3>1, <2>3, <2>4, <2>5
  <2>8. QED
    BY <2>6, <2>7
<1>6. n \in S
  <2> HIDE DEF S
  <2>1. Nat \subseteq S
    BY <1>4, <1>5, NatSetInduction
  <2>2. QED
    BY <2>1
<1>7. t[n] = s[n] + (v - f[i])
  BY <1>6
<1>8. QED
  BY <1>7 DEF SumTo, s, t, g

\* A sum of naturals is a natural no smaller than any of its terms.
LEMMA SumToNat ==
  ASSUME NEW n \in Nat, NEW f \in [1..n -> Nat]
  PROVE  /\ SumTo(f, n) \in Nat
         /\ \A i \in 1..n : f[i] <= SumTo(f, n)
<1> DEFINE s == PrefixSums(f, n)
           S == {k \in Nat : k <= n => /\ s[k] \in Nat
                                       /\ \A i \in 1..k : f[i] <= s[k]}
<1>1. f \in [1..n -> Int]
  OBVIOUS
<1>2. s[0] = 0 /\ \A k \in 1..n : s[k] = s[k - 1] + f[k]
  BY <1>1, PrefixSumsStep
<1> HIDE DEF s
<1>3. 0 \in S
  BY <1>2
<1>4. ASSUME NEW k \in Nat, k \in S PROVE k + 1 \in S
  <2>1. SUFFICES ASSUME k + 1 <= n
                 PROVE  /\ s[k + 1] \in Nat
                        /\ \A i \in 1..(k + 1) : f[i] <= s[k + 1]
    OBVIOUS
  <2>2. k + 1 \in 1..n /\ (k + 1) - 1 = k
    BY <2>1
  <2>3. s[k] \in Nat /\ \A i \in 1..k : f[i] <= s[k]
    BY <1>4, <2>1
  <2>4. s[k + 1] = s[k] + f[k + 1] /\ f[k + 1] \in Nat
    BY <1>2, <2>2
  <2>5. ASSUME NEW i \in 1..(k + 1) PROVE f[i] <= s[k + 1]
    <3>1. i \in 1..n /\ f[i] \in Nat
      BY <2>1
    <3>2. CASE i = k + 1
      BY <2>3, <2>4, <3>2
    <3>3. CASE i \in 1..k
      BY <2>3, <2>4, <3>1, <3>3
    <3>4. QED
      BY <3>2, <3>3
  <2>6. QED
    BY <2>3, <2>4, <2>5
<1>5. n \in S
  <2> HIDE DEF S
  <2>1. Nat \subseteq S
    BY <1>3, <1>4, NatSetInduction
  <2>2. QED
    BY <2>1
<1>6. QED
  BY <1>5 DEF SumTo, s

\* The sum of the zero function is zero.
LEMMA SumToZero ==
  ASSUME NEW n \in Nat, NEW f \in [1..n -> Int], \A i \in 1..n : f[i] = 0
  PROVE  SumTo(f, n) = 0
<1> DEFINE s == PrefixSums(f, n)
           S == {k \in Nat : k <= n => s[k] = 0}
<1>1. s[0] = 0 /\ \A k \in 1..n : s[k] = s[k - 1] + f[k]
  BY PrefixSumsStep
<1> HIDE DEF s
<1>2. 0 \in S
  BY <1>1
<1>3. ASSUME NEW k \in Nat, k \in S PROVE k + 1 \in S
  <2>1. SUFFICES ASSUME k + 1 <= n PROVE s[k + 1] = 0
    OBVIOUS
  <2>2. k + 1 \in 1..n /\ (k + 1) - 1 = k /\ s[k] = 0
    BY <1>3, <2>1
  <2>3. QED
    BY <1>1, <2>2
<1>4. n \in S
  <2> HIDE DEF S
  <2>1. Nat \subseteq S
    BY <1>2, <1>3, NatSetInduction
  <2>2. QED
    BY <2>1
<1>5. QED
  BY <1>4 DEF SumTo, s

LEMMA SumToInt ==
  ASSUME NEW n \in Nat, NEW f \in [1..n -> Int]
  PROVE  SumTo(f, n) \in Int
BY PrefixSumsType DEF SumTo

LEMMA Distributes ==
  ASSUME NEW a \in Int, NEW x \in Int, NEW y \in Int
  PROVE  a * (x + y) = a * x + a * y /\ a * x \in Int /\ a * y \in Int
OBVIOUS

LEMMA BoundsAdd ==
  ASSUME NEW a \in Int, NEW b \in Int, NEW c \in Int, NEW k \in Int, NEW l \in Int,
         NEW x \in Int, NEW y \in Int, NEW u \in Int, NEW v \in Int,
         a * x <= b * u + c * k, a * y <= b * v + c * l
  PROVE  a * (x + y) <= b * (u + v) + c * (k + l)
<1>1. a * (x + y) = a * x + a * y /\ a * x \in Int /\ a * y \in Int
  BY Distributes
<1>2. b * (u + v) = b * u + b * v /\ b * u \in Int /\ b * v \in Int
  BY Distributes
<1>3. c * (k + l) = c * k + c * l /\ c * k \in Int /\ c * l \in Int
  BY Distributes
<1> QED
  BY <1>1, <1>2, <1>3

\* A linear bound on the terms is one on the sums.
LEMMA SumToBound ==
  ASSUME NEW n \in Nat, NEW f \in [1..n -> Int], NEW g \in [1..n -> Int],
         NEW h \in [1..n -> Int], NEW a \in Int, NEW b \in Int, NEW c \in Int,
         \A i \in 1..n : a * f[i] <= b * g[i] + c * h[i]
  PROVE  /\ SumTo(f, n) \in Int /\ SumTo(g, n) \in Int /\ SumTo(h, n) \in Int
         /\ a * SumTo(f, n) <= b * SumTo(g, n) + c * SumTo(h, n)
<1> DEFINE s == PrefixSums(f, n)
           t == PrefixSums(g, n)
           r == PrefixSums(h, n)
           S == {k \in Nat : k <= n => a * s[k] <= b * t[k] + c * r[k]}
<1>1. /\ s[0] = 0 /\ \A k \in 1..n : s[k] = s[k - 1] + f[k]
      /\ t[0] = 0 /\ \A k \in 1..n : t[k] = t[k - 1] + g[k]
      /\ r[0] = 0 /\ \A k \in 1..n : r[k] = r[k - 1] + h[k]
  BY PrefixSumsStep
<1>2. \A k \in 0..n : s[k] \in Int /\ t[k] \in Int /\ r[k] \in Int
  BY PrefixSumsType
<1> HIDE DEF s, t, r
<1>3. 0 \in S
  BY <1>1
<1>4. ASSUME NEW k \in Nat, k \in S PROVE k + 1 \in S
  <2>1. SUFFICES ASSUME k + 1 <= n PROVE a * s[k + 1] <= b * t[k + 1] + c * r[k + 1]
    OBVIOUS
  <2>2. k + 1 \in 1..n /\ (k + 1) - 1 = k /\ k \in 0..n
    BY <2>1
  <2>3. /\ s[k + 1] = s[k] + f[k + 1] /\ t[k + 1] = t[k] + g[k + 1]
        /\ r[k + 1] = r[k] + h[k + 1]
    BY <1>1, <2>2
  <2>4. /\ s[k] \in Int /\ t[k] \in Int /\ r[k] \in Int
        /\ f[k + 1] \in Int /\ g[k + 1] \in Int /\ h[k + 1] \in Int
    BY <1>2, <2>2
  <2>5. a * s[k] <= b * t[k] + c * r[k]
    BY <1>4, <2>1
  <2>6. a * f[k + 1] <= b * g[k + 1] + c * h[k + 1]
    BY <2>2
  <2>7. a * (s[k] + f[k + 1]) <= b * (t[k] + g[k + 1]) + c * (r[k] + h[k + 1])
    <3> HIDE DEF S
    <3> QED
      BY ONLY <2>4, <2>5, <2>6, BoundsAdd, a \in Int, b \in Int, c \in Int
  <2>8. QED
    BY <2>3, <2>7
<1>5. n \in S
  <2> HIDE DEF S
  <2>1. Nat \subseteq S
    BY <1>3, <1>4, NatSetInduction
  <2>2. QED
    BY <2>1
<1>6. QED
  BY <1>2, <1>5 DEF SumTo, s, t, r

-----------------------------------------------------------------------------
(* Repetition.                                                             *)

LEMMA IteratesDef ==
  ASSUME NEW n \in Nat, NEW step, NEW x
  PROVE  Iterates(step, x, n) =
           [k \in 0..n |-> IF k = 0 THEN x ELSE step[Iterates(step, x, n)[k - 1]]]
<1> DEFINE Solves(s, m) == s = [k \in 0..m |-> IF k = 0 THEN x ELSE step[s[k - 1]]]
           Solvable == {m \in Nat : \E s : Solves(s, m)}
<1>1. 0 \in Solvable
  <2>1. Solves([k \in 0..0 |-> x], 0)
    OBVIOUS
  <2>2. QED
    BY <2>1
<1>2. ASSUME NEW m \in Nat, m \in Solvable
      PROVE  m + 1 \in Solvable
  <2>1. PICK s : Solves(s, m)
    BY <1>2
  <2> DEFINE t == [k \in 0..(m + 1) |-> IF k <= m THEN s[k] ELSE step[s[m]]]
  <2>2. \A k \in 0..m : s[k] = IF k = 0 THEN x ELSE step[s[k - 1]]
    BY <2>1
  <2>3. \A k \in 0..(m + 1) : t[k] = IF k = 0 THEN x ELSE step[t[k - 1]]
    BY <2>2
  <2>4. Solves(t, m + 1)
    BY <2>3
  <2> HIDE DEF Solves, t
  <2>5. QED
    BY <2>4
<1>3. n \in Solvable
  <2> HIDE DEF Solvable
  <2>1. Nat \subseteq Solvable
    BY <1>1, <1>2, NatSetInduction
  <2>2. QED
    BY <2>1
<1>4. PICK s : Solves(s, n)
  BY <1>3
<1>5. QED
  BY <1>4 DEF Iterates

LEMMA IteratesStep ==
  ASSUME NEW n \in Nat, NEW step, NEW x
  PROVE  /\ Iterates(step, x, n)[0] = x
         /\ \A k \in 1..n : Iterates(step, x, n)[k] = step[Iterates(step, x, n)[k - 1]]
<1> DEFINE it == Iterates(step, x, n)
<1>1. it = [k \in 0..n |-> IF k = 0 THEN x ELSE step[it[k - 1]]]
  BY IteratesDef
<1> HIDE DEF it
<1>2. it[0] = x /\ \A k \in 1..n : it[k] = step[it[k - 1]]
  BY <1>1
<1>3. QED
  BY <1>2 DEF it

\* A loop's invariant, as a set of pairs <<passes made, value>>.
LEMMA IteratesInvariant ==
  ASSUME NEW n \in Nat, NEW step, NEW x, NEW S, <<0, x>> \in S,
         \A k \in 0..(n - 1) : \A y : <<k, y>> \in S => <<k + 1, step[y]>> \in S
  PROVE  \A k \in 0..n : <<k, Iterates(step, x, n)[k]>> \in S
<1> DEFINE it == Iterates(step, x, n)
           K == {k \in Nat : k <= n => <<k, it[k]>> \in S}
<1>1. it[0] = x /\ \A k \in 1..n : it[k] = step[it[k - 1]]
  BY IteratesStep
<1> HIDE DEF it
<1>2. 0 \in K
  BY <1>1
<1>3. ASSUME NEW k \in Nat, k \in K PROVE k + 1 \in K
  <2>1. SUFFICES ASSUME k + 1 <= n PROVE <<k + 1, it[k + 1]>> \in S
    OBVIOUS
  <2>2. k \in 0..(n - 1) /\ k + 1 \in 1..n /\ (k + 1) - 1 = k /\ <<k, it[k]>> \in S
    BY <1>3, <2>1
  <2>3. it[k + 1] = step[it[k]]
    BY <1>1, <2>2
  <2>4. QED
    BY <2>2, <2>3
<1>4. Nat \subseteq K
  <2> HIDE DEF K
  <2>1. QED BY <1>2, <1>3, NatSetInduction
<1>5. QED
  BY <1>4 DEF it

\* The k-th value does not depend on how many are taken.
LEMMA IteratesPrefix ==
  ASSUME NEW n \in Nat, NEW m \in 0..n, NEW step, NEW x
  PROVE  \A k \in 0..m : Iterates(step, x, n)[k] = Iterates(step, x, m)[k]
<1> DEFINE it == Iterates(step, x, n)
           jt == Iterates(step, x, m)
           K == {k \in Nat : k <= m => it[k] = jt[k]}
<1>1. m \in Nat
  OBVIOUS
<1>2. /\ it[0] = x /\ \A k \in 1..n : it[k] = step[it[k - 1]]
      /\ jt[0] = x /\ \A k \in 1..m : jt[k] = step[jt[k - 1]]
  BY <1>1, IteratesStep
<1> HIDE DEF it, jt
<1>3. 0 \in K
  BY <1>2
<1>4. ASSUME NEW k \in Nat, k \in K PROVE k + 1 \in K
  <2>1. SUFFICES ASSUME k + 1 <= m PROVE it[k + 1] = jt[k + 1]
    OBVIOUS
  <2>2. k + 1 \in 1..m /\ k + 1 \in 1..n /\ (k + 1) - 1 = k /\ it[k] = jt[k]
    BY <1>4, <2>1
  <2>3. QED
    BY <1>2, <2>2
<1>5. Nat \subseteq K
  <2> HIDE DEF K
  <2>1. QED BY <1>3, <1>4, NatSetInduction
<1>6. QED
  BY <1>1, <1>5 DEF it, jt

LEMMA PowerType ==
  ASSUME NEW b \in Nat, NEW n \in Nat
  PROVE  Power(b, n) \in Nat
<1> DEFINE step == [v \in Nat |-> v * b]
           S == Nat \X Nat
<1>1. <<0, 1>> \in S
  OBVIOUS
<1>2. \A k \in 0..(n - 1) : \A y : <<k, y>> \in S => <<k + 1, step[y]>> \in S
  OBVIOUS
<1> HIDE DEF step, S
<1>3. \A k \in 0..n : <<k, Iterates(step, 1, n)[k]>> \in S
  BY <1>1, <1>2, IteratesInvariant
<1>4. <<n, Iterates(step, 1, n)[n]>> \in S
  BY <1>3
<1>5. Iterates(step, 1, n)[n] \in Nat
  BY <1>4 DEF S
<1>6. QED
  BY <1>5 DEF Power, step

LEMMA PowerStep ==
  ASSUME NEW b \in Nat
  PROVE  /\ Power(b, 0) = 1
         /\ \A n \in Nat : Power(b, n) \in Nat /\ Power(b, n + 1) = Power(b, n) * b
<1> DEFINE step == [v \in Nat |-> v * b]
<1>1. Power(b, 0) = 1
  BY IteratesStep DEF Power
<1>2. ASSUME NEW n \in Nat
      PROVE  Power(b, n) \in Nat /\ Power(b, n + 1) = Power(b, n) * b
  <2>1. Power(b, n) \in Nat
    BY PowerType
  <2>2. /\ n + 1 \in Nat /\ n \in 0..(n + 1) /\ n \in 0..n
        /\ n + 1 \in 1..(n + 1) /\ (n + 1) - 1 = n
    OBVIOUS
  <2> HIDE DEF step
  <2>3. Iterates(step, 1, n + 1)[n + 1] = step[Iterates(step, 1, n + 1)[n]]
    BY <2>2, IteratesStep
  <2>4. Iterates(step, 1, n + 1)[n] = Iterates(step, 1, n)[n]
    BY <2>2, IteratesPrefix
  <2>5. Power(b, n) = Iterates(step, 1, n)[n] /\ Power(b, n + 1) = Iterates(step, 1, n + 1)[n + 1]
    BY DEF Power, step
  <2>6. Power(b, n + 1) = step[Power(b, n)]
    BY <2>3, <2>4, <2>5
  <2>7. QED
    BY <2>1, <2>6 DEF step
<1>3. QED
  BY <1>1, <1>2

\* A quantity that keeps at least the part k of t at each pass keeps k^n of t^n.
LEMMA PowerKept ==
  ASSUME NEW t \in Nat, NEW k \in Nat, NEW n \in Nat,
         NEW x \in Nat, NEW y \in Nat, NEW z \in Nat,
         y * Power(t, n) >= x * Power(k, n), z * t >= y * k
  PROVE  z * Power(t, n + 1) >= x * Power(k, n + 1)
<1> DEFINE p == Power(t, n)
           q == Power(k, n)
<1>1. p \in Nat /\ q \in Nat /\ Power(t, n + 1) = p * t /\ Power(k, n + 1) = q * k
  BY PowerStep
<1> HIDE DEF p, q
<1>2. y * p >= x * q
  BY DEF p, q
<1>3. (z * t) * p >= (y * k) * p
  <2> DEFINE a == z * t
             b == y * k
  <2>1. a \in Nat /\ b \in Nat /\ a >= b
    OBVIOUS
  <2> HIDE DEF a, b
  <2>2. a * p >= b * p
    BY <1>1, <2>1
  <2>3. QED
    BY <2>2 DEF a, b
<1>4. (y * p) * k >= (x * q) * k
  <2> DEFINE a == y * p
             b == x * q
  <2>1. a \in Nat /\ b \in Nat /\ a >= b
    BY <1>1, <1>2
  <2> HIDE DEF a, b
  <2>2. a * k >= b * k
    BY <2>1
  <2>3. QED
    BY <2>2 DEF a, b
<1>5. /\ z * (p * t) = (z * t) * p /\ (y * k) * p = (y * p) * k
      /\ x * (q * k) = (x * q) * k
      /\ (z * t) * p \in Int /\ (y * k) * p \in Int /\ (x * q) * k \in Int
  BY <1>1
<1>6. z * (p * t) >= x * (q * k)
  BY <1>3, <1>4, <1>5
<1>7. QED
  BY <1>1, <1>6

=============================================================================
