-------------------------- MODULE PowersOfTwoProofs --------------------------
(***************************************************************************)
(* Facts about powers of two and bits.  Induction is over a set in place   *)
(* of a predicate: what is to be shown is put as `Nat is a subset of the   *)
(* numbers with ...'.                                                      *)
(***************************************************************************)
EXTENDS PowersOfTwo, WellFoundedInduction

\* A set of naturals that is not empty has a least element.
LEMMA LeastNatural ==
  ASSUME NEW S \in SUBSET Nat, S # {}
  PROVE  \E m \in S : \A k \in S : m <= k
<1>1. IsWellFoundedOn(OpToRel(<,Nat), Nat)
  BY NatLessThanWellFounded
<1>2. PICK m \in S : \A k \in S : ~ (<<k, m>> \in OpToRel(<,Nat))
  BY <1>1, WFMin
<1>3. ASSUME NEW k \in S PROVE m <= k
  <2>1. ~ (k < m) /\ k \in Nat /\ m \in Nat
    BY <1>2 DEF OpToRel
  <2> QED
    BY <2>1
<1> QED
  BY <1>2, <1>3

\* A set that has 0, and with every number the next, has every number.
LEMMA SetInduction ==
  ASSUME NEW S, 0 \in S, \A n \in Nat : n \in S => n + 1 \in S
  PROVE  \A n \in Nat : n \in S
<1> DEFINE Without == {n \in Nat : n \notin S}
<1>1. SUFFICES ASSUME Without # {} PROVE FALSE
  OBVIOUS
<1>2. PICK m \in Without : \A k \in Without : m <= k
  BY <1>1, LeastNatural
<1>3. m # 0
  BY <1>2
<1>4. m - 1 \in Nat /\ (m - 1) + 1 = m /\ ~ (m <= m - 1)
  BY <1>2, <1>3
<1>5. m - 1 \in S
  BY <1>2, <1>4
<1> QED
  BY <1>2, <1>4, <1>5

-----------------------------------------------------------------------------
(* Pow2 is what its definition wants it to be. *)

\* The first powers of two, up to the one of n.
PowersUpTo(n, f) == f = [j \in 0 .. n |-> IF j = 0 THEN 1 ELSE 2 * f[j - 1]]

LEMMA PowersUpToSteps ==
  ASSUME NEW n \in Nat, NEW f, PowersUpTo(n, f)
  PROVE  /\ f = [j \in 0 .. n |-> f[j]] /\ f[0] = 1
         /\ \A j \in 0 .. n - 1 : f[j + 1] = 2 * f[j]
<1>1. PICK g : g = [j \in 0 .. n |-> IF j = 0 THEN 1 ELSE 2 * f[j - 1]]
  OBVIOUS
<1>2. f = g
  BY <1>1 DEF PowersUpTo
<1>3. g[0] = 1 /\ g = [j \in 0 .. n |-> g[j]]
  BY <1>1
<1>4. \A j \in 0 .. n - 1 : g[j + 1] = 2 * f[j]
  BY <1>1
<1> QED
  BY <1>2, <1>3, <1>4

LEMMA PowersUpToExist ==
  ASSUME NEW n \in Nat
  PROVE  \E f : PowersUpTo(n, f)
<1> DEFINE S == {m \in Nat : \E f : PowersUpTo(m, f)}
<1>1. 0 \in S
  <2>1. PowersUpTo(0, [j \in 0 .. 0 |-> 1])
    BY DEF PowersUpTo
  <2> QED
    BY <2>1
<1>2. ASSUME NEW m \in Nat, m \in S PROVE m + 1 \in S
  <2>1. PICK f : PowersUpTo(m, f)
    BY <1>2
  <2>2. f[0] = 1 /\ \A j \in 0 .. m - 1 : f[j + 1] = 2 * f[j]
    BY <2>1, PowersUpToSteps
  <2> DEFINE g == [j \in 0 .. m + 1 |-> IF j = m + 1 THEN 2 * f[m] ELSE f[j]]
  <2>3. ASSUME NEW j \in 0 .. m + 1
        PROVE  g[j] = IF j = 0 THEN 1 ELSE 2 * g[j - 1]
    <3>1. CASE j = 0
      BY <2>2, <3>1
    <3>2. CASE j = m + 1
      <4>1. g[m] = f[m] /\ g[m + 1] = 2 * f[m]
        OBVIOUS
      <4> QED
        BY <3>2, <4>1
    <3>3. CASE j # 0 /\ j # m + 1
      <4>1. j - 1 \in 0 .. m - 1 /\ (j - 1) + 1 = j
            /\ j - 1 \in 0 .. m + 1 /\ j - 1 # m + 1
        BY <3>3
      <4>2. g[j] = f[j] /\ g[j - 1] = f[j - 1]
        BY <3>3, <4>1
      <4>3. f[(j - 1) + 1] = 2 * f[j - 1]
        BY <2>2, <4>1
      <4> QED
        BY <3>3, <4>1, <4>2, <4>3
    <3> QED
      BY <3>1, <3>2, <3>3
  <2>4. g = [j \in 0 .. m + 1 |-> IF j = 0 THEN 1 ELSE 2 * g[j - 1]]
    BY <2>3
  <2> HIDE DEF g
  <2>5. PowersUpTo(m + 1, g)
    BY <2>4 DEF PowersUpTo
  <2> QED
    BY <2>5
<1> HIDE DEF S
<1>3. n \in S
  BY <1>1, <1>2, SetInduction
<1> QED
  BY <1>3 DEF S

LEMMA PowersUpToAgree ==
  ASSUME NEW n \in Nat, NEW f, NEW g, PowersUpTo(n, f), PowersUpTo(n + 1, g)
  PROVE  f[n] = g[n]
<1>1. f[0] = 1 /\ \A j \in 0 .. n - 1 : f[j + 1] = 2 * f[j]
  BY PowersUpToSteps
<1>2. g[0] = 1 /\ \A j \in 0 .. n : g[j + 1] = 2 * g[j]
  <2>1. n + 1 \in Nat /\ (n + 1) - 1 = n
    OBVIOUS
  <2> QED
    BY <2>1, PowersUpToSteps
<1> DEFINE S == {j \in Nat : j <= n => f[j] = g[j]}
<1>3. 0 \in S
  BY <1>1, <1>2
<1>4. ASSUME NEW j \in Nat, j \in S PROVE j + 1 \in S
  <2>1. SUFFICES ASSUME j + 1 <= n PROVE f[j + 1] = g[j + 1]
    OBVIOUS
  <2>2. f[j] = g[j] /\ j \in 0 .. n - 1 /\ j \in 0 .. n
    BY <1>4, <2>1
  <2> QED
    BY <1>1, <1>2, <2>2
<1> HIDE DEF S
<1>5. n \in S
  BY <1>3, <1>4, SetInduction
<1> QED
  BY <1>5 DEF S

\* The function that Pow2 chooses exists.
LEMMA Pow2Unfolds ==
  Pow2 = [n \in Nat |-> IF n = 0 THEN 1 ELSE 2 * Pow2[n - 1]]
<1> DEFINE first(n) == CHOOSE f : PowersUpTo(n, f)
           p == [n \in Nat |-> first(n)[n]]
<1>1. ASSUME NEW n \in Nat PROVE PowersUpTo(n, first(n))
  BY PowersUpToExist
<1>2. p[0] = 1
  <2>1. first(0)[0] = 1
    BY <1>1, PowersUpToSteps
  <2> QED
    BY <2>1
<1>3. ASSUME NEW n \in Nat PROVE p[n + 1] = 2 * p[n]
  <2>1. n + 1 \in Nat /\ n \in 0 .. (n + 1) - 1
    OBVIOUS
  <2>2. first(n + 1)[n + 1] = 2 * first(n + 1)[n]
    BY <1>1, <2>1, PowersUpToSteps
  <2>3. first(n)[n] = first(n + 1)[n]
    BY <1>1, <2>1, PowersUpToAgree
  <2> QED
    BY <2>1, <2>2, <2>3
<1>4. ASSUME NEW n \in Nat PROVE p[n] = IF n = 0 THEN 1 ELSE 2 * p[n - 1]
  <2>1. CASE n = 0
    BY <1>2, <2>1
  <2>2. CASE n # 0
    <3>1. n - 1 \in Nat /\ (n - 1) + 1 = n
      BY <2>2
    <3>2. p[(n - 1) + 1] = 2 * p[n - 1]
      BY <1>3, <3>1
    <3> QED
      BY <2>2, <3>1, <3>2
  <2> QED
    BY <2>1, <2>2
<1>5. p = [n \in Nat |-> p[n]]
  OBVIOUS
<1> HIDE DEF p
<1>6. p = [n \in Nat |-> IF n = 0 THEN 1 ELSE 2 * p[n - 1]]
  BY <1>4, <1>5
<1>7. \E f : f = [n \in Nat |-> IF n = 0 THEN 1 ELSE 2 * f[n - 1]]
  BY <1>6
<1> QED
  BY <1>7 DEF Pow2

LEMMA Pow2Steps ==
  Pow2[0] = 1 /\ \A n \in Nat : Pow2[n + 1] = 2 * Pow2[n]
<1> DEFINE g == [n \in Nat |-> IF n = 0 THEN 1 ELSE 2 * Pow2[n - 1]]
<1>1. g[0] = 1 /\ \A n \in Nat : g[n + 1] = 2 * Pow2[n]
  <2>1. ASSUME NEW n \in Nat PROVE n + 1 \in Nat /\ n + 1 # 0 /\ (n + 1) - 1 = n
    OBVIOUS
  <2> QED
    BY <2>1
<1>2. Pow2 = g
  BY Pow2Unfolds
<1> HIDE DEF g
<1> QED
  BY <1>1, <1>2

LEMMA Pow2Positive ==
  ASSUME NEW n \in Nat
  PROVE  Pow2[n] \in Nat \ {0}
<1> DEFINE S == {m \in Nat : Pow2[m] \in Nat \ {0}}
<1>1. 0 \in S
  BY Pow2Steps
<1>2. ASSUME NEW m \in Nat, m \in S PROVE m + 1 \in S
  <2>1. Pow2[m] \in Nat \ {0} /\ Pow2[m + 1] = 2 * Pow2[m]
    BY <1>2, Pow2Steps
  <2> QED
    BY <2>1
<1> HIDE DEF S
<1>3. n \in S
  BY <1>1, <1>2, SetInduction
<1> QED
  BY <1>3 DEF S

\* A greater power is at least twice a smaller one.
LEMMA Pow2Doubles ==
  ASSUME NEW a \in Nat, NEW b \in Nat, a < b
  PROVE  2 * Pow2[a] <= Pow2[b]
<1> DEFINE S == {c \in Nat : a < c => 2 * Pow2[a] <= Pow2[c]}
<1>1. 0 \in S
  OBVIOUS
<1>2. ASSUME NEW c \in Nat, c \in S PROVE c + 1 \in S
  <2>1. Pow2[c] \in Nat \ {0} /\ Pow2[c + 1] = 2 * Pow2[c]
        /\ Pow2[a] \in Nat \ {0}
    BY Pow2Positive, Pow2Steps
  <2>2. CASE a < c
    BY <1>2, <2>1, <2>2
  <2>3. CASE a = c
    BY <2>1, <2>3
  <2>4. CASE a > c
    BY <2>4
  <2> QED
    BY <2>2, <2>3, <2>4
<1> HIDE DEF S
<1>3. b \in S
  BY <1>1, <1>2, SetInduction
<1> QED
  BY <1>3 DEF S

LEMMA Pow2Order ==
  ASSUME NEW a \in Nat, NEW b \in Nat
  PROVE  /\ a < b <=> Pow2[a] < Pow2[b]
         /\ a <= b <=> Pow2[a] <= Pow2[b]
         /\ a = b <=> Pow2[a] = Pow2[b]
<1>1. Pow2[a] \in Nat \ {0} /\ Pow2[b] \in Nat \ {0}
  BY Pow2Positive
<1>2. CASE a < b
  BY <1>1, <1>2, Pow2Doubles
<1>3. CASE b < a
  BY <1>1, <1>3, Pow2Doubles
<1>4. CASE a = b
  BY <1>1, <1>4
<1> QED
  BY <1>2, <1>3, <1>4

LEMMA Pow2Sum ==
  ASSUME NEW a \in Nat, NEW b \in Nat
  PROVE  Pow2[a + b] = Pow2[a] * Pow2[b]
<1> DEFINE S == {c \in Nat : Pow2[a + c] = Pow2[a] * Pow2[c]}
<1>1. 0 \in S
  BY Pow2Steps, Pow2Positive
<1>2. ASSUME NEW c \in Nat, c \in S PROVE c + 1 \in S
  <2>1. Pow2[c + 1] = 2 * Pow2[c] /\ Pow2[(a + c) + 1] = 2 * Pow2[a + c]
        /\ a + (c + 1) = (a + c) + 1
    BY Pow2Steps
  <2>2. Pow2[a] \in Nat /\ Pow2[c] \in Nat
    BY Pow2Positive
  <2>3. Pow2[a] * (2 * Pow2[c]) = 2 * (Pow2[a] * Pow2[c])
    BY <2>2
  <2>4. Pow2[a + c] = Pow2[a] * Pow2[c]
    BY <1>2
  <2> QED
    BY <2>1, <2>3, <2>4
<1> HIDE DEF S
<1>3. b \in S
  BY <1>1, <1>2, SetInduction
<1> QED
  BY <1>3 DEF S

-----------------------------------------------------------------------------
(* Bits. *)

LEMMA QuotientUnique ==
  ASSUME NEW p \in Nat \ {0}, NEW q \in Nat, NEW r \in 0 .. p - 1
  PROVE  (p * q + r) \div p = q
<1> DEFINE n == p * q + r
           d == n \div p
<1>1. n \in Nat /\ d \in Nat
  OBVIOUS
<1>2. p * d <= n /\ n < p * d + p
  OBVIOUS
<1>3. p * q <= n /\ n < p * q + p
  OBVIOUS
<1> HIDE DEF n, d
<1>4. ~ (d < q)
  <2>1. SUFFICES ASSUME d < q PROVE FALSE
    OBVIOUS
  <2>2. p * (d + 1) <= p * q
    BY <1>1, <2>1
  <2> QED
    BY <1>1, <1>2, <1>3, <2>2
<1>5. ~ (q < d)
  <2>1. SUFFICES ASSUME q < d PROVE FALSE
    OBVIOUS
  <2>2. p * (q + 1) <= p * d
    BY <1>1, <2>1
  <2> QED
    BY <1>1, <1>2, <1>3, <2>2
<1>6. d = q
  BY <1>1, <1>4, <1>5
<1> QED
  BY <1>6 DEF d, n

\* To shift one bit more is to halve first.
LEMMA ShiftOnce ==
  ASSUME NEW n \in Nat, NEW b \in Nat
  PROVE  n \div Pow2[b + 1] = (n \div 2) \div Pow2[b]
<1> DEFINE p == Pow2[b]
           h == n \div 2
           q == h \div p
           r == h - p * q
<1>1. p \in Nat \ {0} /\ Pow2[b + 1] = 2 * p
  BY Pow2Positive, Pow2Steps
<1>2. h \in Nat /\ n - 2 * h \in 0 .. 1
  OBVIOUS
<1> HIDE DEF p, h
<1>3. q \in Nat /\ r \in 0 .. p - 1
  BY <1>1, <1>2
<1>4. p * q \in Nat
  BY <1>1, <1>3
<1> HIDE DEF q
<1>5. n = (2 * p) * q + (2 * r + (n - 2 * h))
  <2>1. (2 * p) * q = 2 * (p * q)
    BY <1>1, <1>3
  <2> QED
    BY <1>2, <1>4, <2>1
<1>6. 2 * r + (n - 2 * h) \in 0 .. 2 * p - 1
  BY <1>1, <1>2, <1>3
<1>7. n \div (2 * p) = q
  <2>1. 2 * p \in Nat \ {0}
    BY <1>1
  <2> HIDE DEF r
  <2> QED
    BY <1>3, <1>5, <1>6, <2>1, QuotientUnique
<1> QED
  BY <1>1, <1>7 DEF q, h, p

LEMMA BitSteps ==
  ASSUME NEW n \in Nat
  PROVE  /\ Bit(n, 0) = n % 2
         /\ \A b \in Nat : Bit(n, b + 1) = Bit(n \div 2, b)
<1>1. n \div 1 = n
  OBVIOUS
<1> QED
  BY <1>1, Pow2Steps, ShiftOnce DEF Bit

LEMMA BitType ==
  ASSUME NEW n \in Nat, NEW b \in Nat
  PROVE  Bit(n, b) \in {0, 1}
<1>1. Pow2[b] \in Nat \ {0}
  BY Pow2Positive
<1>2. n \div Pow2[b] \in Nat
  BY <1>1
<1> QED
  BY <1>2 DEF Bit

\* Whatever its bits shall be, there is such a number.
LEMMA DigitsExist ==
  ASSUME NEW n \in Nat, NEW D \in SUBSET (0 .. n - 1)
  PROVE  \E v \in 0 .. Pow2[n] - 1 :
           \A b \in 0 .. n - 1 : Bit(v, b) = 1 <=> b \in D
<1> DEFINE S == {m \in Nat : \A E \in SUBSET (0 .. m - 1) :
                   \E v \in 0 .. Pow2[m] - 1 :
                     \A b \in 0 .. m - 1 : Bit(v, b) = 1 <=> b \in E}
<1>1. 0 \in S
  <2>1. 0 \in 0 .. Pow2[0] - 1
    BY Pow2Steps
  <2> QED
    BY <2>1
<1>2. ASSUME NEW m \in Nat, m \in S PROVE m + 1 \in S
  <2>1. SUFFICES ASSUME NEW E \in SUBSET (0 .. m)
                 PROVE  \E v \in 0 .. Pow2[m + 1] - 1 :
                          \A b \in 0 .. m : Bit(v, b) = 1 <=> b \in E
    <3>1. (m + 1) - 1 = m
      OBVIOUS
    <3> QED
      BY <2>1, <3>1
  <2> DEFINE F == {b \in 0 .. m - 1 : b + 1 \in E}
  <2>2. PICK w \in 0 .. Pow2[m] - 1 :
               \A b \in 0 .. m - 1 : Bit(w, b) = 1 <=> b \in F
    BY <1>2
  <2> DEFINE d == IF 0 \in E THEN 1 ELSE 0
             v == 2 * w + d
  <2>3. Pow2[m] \in Nat /\ Pow2[m + 1] = 2 * Pow2[m]
    BY Pow2Positive, Pow2Steps
  <2>4. v \in Nat /\ v \in 0 .. Pow2[m + 1] - 1 /\ v % 2 = d /\ v \div 2 = w
    BY <2>3
  <2> HIDE DEF v
  <2>5. ASSUME NEW b \in 0 .. m PROVE Bit(v, b) = 1 <=> b \in E
    <3>1. CASE b = 0
      <4>1. Bit(v, 0) = d
        BY <2>4, BitSteps
      <4> QED
        BY <3>1, <4>1
    <3>2. CASE b # 0
      <4>1. b - 1 \in 0 .. m - 1 /\ b - 1 \in Nat /\ (b - 1) + 1 = b
        BY <3>2
      <4>2. Bit(v, (b - 1) + 1) = Bit(w, b - 1)
        BY <2>4, <4>1, BitSteps
      <4>3. Bit(w, b - 1) = 1 <=> (b - 1) + 1 \in E
        BY <2>2, <4>1
      <4> QED
        BY <4>1, <4>2, <4>3
    <3> QED
      BY <3>1, <3>2
  <2> QED
    BY <2>4, <2>5
<1> HIDE DEF S
<1>3. n \in S
  BY <1>1, <1>2, SetInduction
<1> QED
  BY <1>3 DEF S

\* and only one.
LEMMA DigitsUnique ==
  ASSUME NEW n \in Nat, NEW v \in 0 .. Pow2[n] - 1, NEW w \in 0 .. Pow2[n] - 1,
         \A b \in 0 .. n - 1 : Bit(v, b) = Bit(w, b)
  PROVE  v = w
<1> DEFINE S == {m \in Nat : \A x, y \in 0 .. Pow2[m] - 1 :
                   (\A b \in 0 .. m - 1 : Bit(x, b) = Bit(y, b)) => x = y}
<1>1. 0 \in S
  BY Pow2Steps
<1>2. ASSUME NEW m \in Nat, m \in S PROVE m + 1 \in S
  <2>1. SUFFICES ASSUME NEW x \in 0 .. Pow2[m + 1] - 1,
                        NEW y \in 0 .. Pow2[m + 1] - 1,
                        \A b \in 0 .. m : Bit(x, b) = Bit(y, b)
                 PROVE  x = y
    <3>1. (m + 1) - 1 = m
      OBVIOUS
    <3> QED
      BY <2>1, <3>1
  <2>2. Pow2[m] \in Nat /\ Pow2[m + 1] = 2 * Pow2[m]
    BY Pow2Positive, Pow2Steps
  <2>3. x \in Nat /\ y \in Nat
        /\ x \div 2 \in 0 .. Pow2[m] - 1 /\ y \div 2 \in 0 .. Pow2[m] - 1
    BY <2>2
  <2>4. ASSUME NEW b \in 0 .. m - 1 PROVE Bit(x \div 2, b) = Bit(y \div 2, b)
    <3>1. b + 1 \in 0 .. m /\ b \in Nat
      OBVIOUS
    <3>2. Bit(x, b + 1) = Bit(y, b + 1)
      BY <2>1, <3>1
    <3> QED
      BY <2>3, <3>1, <3>2, BitSteps
  <2>5. x \div 2 = y \div 2
    BY <1>2, <2>3, <2>4
  <2>6. x % 2 = y % 2
    <3>1. 0 \in 0 .. m
      OBVIOUS
    <3> QED
      BY <2>1, <2>3, <3>1, BitSteps
  <2> QED
    BY <2>3, <2>5, <2>6
<1> HIDE DEF S
<1>3. n \in S
  BY <1>1, <1>2, SetInduction
<1> QED
  BY <1>3 DEF S

\* Counting up in bits that are clear leaves the others alone.
LEMMA CountingLow ==
  ASSUME NEW v \in Nat, NEW x \in Nat, NEW j \in 0 .. Pow2[v] - 1,
         \A b \in 0 .. v - 1 : Bit(x, b) = 0
  PROVE  \A b \in Nat : v <= b => Bit(x + j, b) = Bit(x, b)
<1> DEFINE S == {u \in Nat : \A y \in Nat : \A k \in 0 .. Pow2[u] - 1 :
                   (\A b \in 0 .. u - 1 : Bit(y, b) = 0) =>
                     \A b \in Nat : u <= b => Bit(y + k, b) = Bit(y, b)}
<1>1. 0 \in S
  <2>1. \A y \in Nat : y + 0 = y
    OBVIOUS
  <2> QED
    BY <2>1, Pow2Steps
<1>2. ASSUME NEW u \in Nat, u \in S PROVE u + 1 \in S
  <2>1. SUFFICES ASSUME NEW y \in Nat, NEW k \in 0 .. Pow2[u + 1] - 1,
                        \A b \in 0 .. u : Bit(y, b) = 0,
                        NEW b \in Nat, u + 1 <= b
                 PROVE  Bit(y + k, b) = Bit(y, b)
    <3>1. (u + 1) - 1 = u
      OBVIOUS
    <3> QED
      BY <2>1, <3>1
  <2>2. Pow2[u] \in Nat /\ Pow2[u + 1] = 2 * Pow2[u]
    BY Pow2Positive, Pow2Steps
  <2>3. y % 2 = 0
    <3>1. 0 \in 0 .. u
      OBVIOUS
    <3> QED
      BY <2>1, <3>1, BitSteps
  <2> DEFINE h == y \div 2
             g == k \div 2
  <2>4. h \in Nat /\ g \in 0 .. Pow2[u] - 1 /\ (y + k) \div 2 = h + g
    BY <2>2, <2>3
  <2>5. \A c \in 0 .. u - 1 : Bit(h, c) = 0
    <3>1. ASSUME NEW c \in 0 .. u - 1 PROVE Bit(h, c) = 0
      <4>1. c \in Nat /\ c + 1 \in 0 .. u
        OBVIOUS
      <4>2. Bit(y, c + 1) = Bit(h, c)
        BY <4>1, BitSteps
      <4> QED
        BY <2>1, <4>1, <4>2
    <3> QED
      BY <3>1
  <2>6. b - 1 \in Nat /\ u <= b - 1 /\ (b - 1) + 1 = b
    BY <2>1
  <2>7. Bit(h + g, b - 1) = Bit(h, b - 1)
    BY <1>2, <2>4, <2>5, <2>6
  <2>8. y + k \in Nat
    OBVIOUS
  <2>9. Bit(y, (b - 1) + 1) = Bit(h, b - 1)
        /\ Bit(y + k, (b - 1) + 1) = Bit((y + k) \div 2, b - 1)
    BY <2>6, <2>8, BitSteps
  <2> QED
    BY <2>4, <2>6, <2>7, <2>9
<1> HIDE DEF S
<1>3. v \in S
  BY <1>1, <1>2, SetInduction
<1> QED
  BY <1>3 DEF S

\* v bits from s on, and j counted up from bit s
Field(s, v) == s .. s + v - 1

Counted(x, j, s) == x + j * Pow2[s]

\* where v bits that are clear can hold j
Counting(v, j) ==
  {t \in Nat : \A y \in Nat :
     (\A b \in t .. t + v - 1 : Bit(y, b) = 0) =>
       \A b \in Nat : b \notin t .. t + v - 1 =>
         Bit(y + j * Pow2[t], b) = Bit(y, b)}

LEMMA CountingAnywhere ==
  ASSUME NEW s \in Nat, NEW v \in Nat, NEW j \in 0 .. Pow2[v] - 1
  PROVE  s \in Counting(v, j)
<1>1. 0 \in Counting(v, j)
  <2>1. j * Pow2[0] = j
    BY Pow2Positive, Pow2Steps
  <2>2. SUFFICES ASSUME NEW y \in Nat, \A b \in 0 .. v - 1 : Bit(y, b) = 0,
                        NEW b \in Nat, b \notin 0 .. v - 1
                 PROVE  Bit(y + j, b) = Bit(y, b)
    <3>1. 0 + v - 1 = v - 1
      OBVIOUS
    <3> QED
      BY <2>1, <2>2, <3>1 DEF Counting
  <2>3. v <= b
    BY <2>2
  <2> QED
    BY <2>2, <2>3, CountingLow
<1>2. ASSUME NEW t \in Nat, t \in Counting(v, j) PROVE t + 1 \in Counting(v, j)
  <2> DEFINE p == Pow2[t]
  <2>1. p \in Nat /\ Pow2[t + 1] = 2 * p /\ j \in Nat
    <3>1. Pow2[v] \in Nat
      BY Pow2Positive
    <3> QED
      BY <3>1, Pow2Positive, Pow2Steps
  <2>2. SUFFICES ASSUME NEW y \in Nat,
                        \A b \in t + 1 .. t + v : Bit(y, b) = 0,
                        NEW b \in Nat, b \notin t + 1 .. t + v
                 PROVE  Bit(y + j * (2 * p), b) = Bit(y, b)
    <3>1. (t + 1) + v - 1 = t + v
      OBVIOUS
    <3> QED
      BY <2>1, <2>2, <3>1 DEF Counting
  <2> DEFINE h == y \div 2
             z == y + j * (2 * p)
  <2>3. h \in Nat /\ z \in Nat /\ z \div 2 = h + j * p /\ z % 2 = y % 2
    <3>1. j * (2 * p) = 2 * (j * p) /\ j * p \in Nat
      BY <2>1
    <3>2. ASSUME NEW q \in Nat
          PROVE  /\ (y + 2 * q) \div 2 = h + q
                 /\ (y + 2 * q) % 2 = y % 2
      OBVIOUS
    <3> QED
      BY <3>1, <3>2
  <2> HIDE DEF z, p
  <2>4. \A c \in t .. t + v - 1 : Bit(h, c) = 0
    <3>1. ASSUME NEW c \in t .. t + v - 1 PROVE Bit(h, c) = 0
      <4>1. c \in Nat /\ c + 1 \in t + 1 .. t + v
        OBVIOUS
      <4>2. Bit(y, c + 1) = Bit(h, c)
        BY <4>1, BitSteps
      <4> QED
        BY <2>2, <4>1, <4>2
    <3> QED
      BY <3>1
  <2>5. CASE b = 0
    BY <2>3, <2>5, BitSteps DEF z
  <2>6. CASE b # 0
    <3>1. b - 1 \in Nat /\ b - 1 \notin t .. t + v - 1 /\ (b - 1) + 1 = b
      BY <2>2, <2>6
    <3>2. Bit(h + j * p, b - 1) = Bit(h, b - 1)
      BY <1>2, <2>3, <2>4, <3>1 DEF p, Counting
    <3>3. Bit(z, (b - 1) + 1) = Bit(z \div 2, b - 1)
          /\ Bit(y, (b - 1) + 1) = Bit(h, b - 1)
      BY <2>3, <3>1, BitSteps
    <3> QED
      BY <2>3, <3>1, <3>2, <3>3 DEF z
  <2> QED
    BY <2>5, <2>6
<1> QED
  BY <1>1, <1>2, SetInduction

\* Counting j upwards from bit s changes the v bits there, if they are clear
\* and j has at most v bits, and no other.
LEMMA CountingInPlace ==
  ASSUME NEW s \in Nat, NEW v \in Nat, NEW x \in Nat,
         NEW j \in 0 .. Pow2[v] - 1,
         \A b \in Field(s, v) : Bit(x, b) = 0,
         NEW c \in Nat \ Field(s, v)
  PROVE  Bit(Counted(x, j, s), c) = Bit(x, c)
<1>1. \A y \in Nat :
        (\A b \in s .. s + v - 1 : Bit(y, b) = 0) =>
          \A b \in Nat : b \notin s .. s + v - 1 =>
            Bit(y + j * Pow2[s], b) = Bit(y, b)
  BY CountingAnywhere DEF Counting
<1>2. \A b \in s .. s + v - 1 : Bit(x, b) = 0
  BY DEF Field
<1>3. \A b \in Nat : b \notin s .. s + v - 1 =>
        Bit(x + j * Pow2[s], b) = Bit(x, b)
  BY <1>1, <1>2
<1> QED
  BY <1>3 DEF Field, Counted

\* Counting up in bits that are clear puts the count there.
LEMMA CountedLow ==
  ASSUME NEW v \in Nat, NEW x \in Nat, NEW j \in Nat,
         \A b \in 0 .. v - 1 : Bit(x, b) = 0
  PROVE  \A b \in 0 .. v - 1 : Bit(x + j, b) = Bit(j, b)
<1> DEFINE S == {u \in Nat : \A y \in Nat : \A k \in Nat :
                   (\A b \in 0 .. u - 1 : Bit(y, b) = 0) =>
                     \A b \in 0 .. u - 1 : Bit(y + k, b) = Bit(k, b)}
<1>1. 0 \in S
  OBVIOUS
<1>2. ASSUME NEW u \in Nat, u \in S PROVE u + 1 \in S
  <2>1. SUFFICES ASSUME NEW y \in Nat, NEW k \in Nat,
                        \A b \in 0 .. u : Bit(y, b) = 0,
                        NEW b \in 0 .. u
                 PROVE  Bit(y + k, b) = Bit(k, b)
    <3>1. (u + 1) - 1 = u
      OBVIOUS
    <3> QED
      BY <2>1, <3>1
  <2>2. y % 2 = 0
    <3>1. 0 \in 0 .. u
      OBVIOUS
    <3> QED
      BY <2>1, <3>1, BitSteps
  <2> DEFINE h == y \div 2
             g == k \div 2
  <2>3. h \in Nat /\ g \in Nat /\ y + k \in Nat
        /\ (y + k) \div 2 = h + g /\ (y + k) % 2 = k % 2
    BY <2>2
  <2>4. \A c \in 0 .. u - 1 : Bit(h, c) = 0
    <3>1. ASSUME NEW c \in 0 .. u - 1 PROVE Bit(h, c) = 0
      <4>1. c \in Nat /\ c + 1 \in 0 .. u
        OBVIOUS
      <4>2. Bit(y, c + 1) = Bit(h, c)
        BY <4>1, BitSteps
      <4> QED
        BY <2>1, <4>1, <4>2
    <3> QED
      BY <3>1
  <2>5. CASE b = 0
    BY <2>3, <2>5, BitSteps
  <2>6. CASE b # 0
    <3>1. b - 1 \in 0 .. u - 1 /\ b - 1 \in Nat /\ (b - 1) + 1 = b
      BY <2>6
    <3>2. Bit(h + g, b - 1) = Bit(g, b - 1)
      BY <1>2, <2>3, <2>4, <3>1
    <3>3. Bit(k, (b - 1) + 1) = Bit(g, b - 1)
          /\ Bit(y + k, (b - 1) + 1) = Bit((y + k) \div 2, b - 1)
      BY <2>3, <3>1, BitSteps
    <3> QED
      BY <2>3, <3>1, <3>2, <3>3
  <2> QED
    BY <2>5, <2>6
<1> HIDE DEF S
<1>3. v \in S
  BY <1>1, <1>2, SetInduction
<1> QED
  BY <1>3 DEF S

\* where v bits that are clear take up j
Storing(v, j) ==
  {t \in Nat : \A y \in Nat :
     (\A b \in t .. t + v - 1 : Bit(y, b) = 0) =>
       \A b \in 0 .. v - 1 : Bit(y + j * Pow2[t], t + b) = Bit(j, b)}

LEMMA StoringAnywhere ==
  ASSUME NEW s \in Nat, NEW v \in Nat, NEW j \in Nat
  PROVE  s \in Storing(v, j)
<1>1. 0 \in Storing(v, j)
  <2>1. j * Pow2[0] = j
    BY Pow2Steps
  <2>2. SUFFICES ASSUME NEW y \in Nat, \A b \in 0 .. v - 1 : Bit(y, b) = 0,
                        NEW b \in 0 .. v - 1
                 PROVE  Bit(y + j, b) = Bit(j, b)
    <3>1. 0 + v - 1 = v - 1 /\ \A b \in 0 .. v - 1 : 0 + b = b
      OBVIOUS
    <3> QED
      BY <2>1, <2>2, <3>1 DEF Storing
  <2> QED
    BY <2>2, CountedLow
<1>2. ASSUME NEW t \in Nat, t \in Storing(v, j) PROVE t + 1 \in Storing(v, j)
  <2> DEFINE p == Pow2[t]
  <2>1. p \in Nat /\ Pow2[t + 1] = 2 * p
    BY Pow2Positive, Pow2Steps
  <2>2. SUFFICES ASSUME NEW y \in Nat,
                        \A b \in t + 1 .. t + v : Bit(y, b) = 0,
                        NEW b \in 0 .. v - 1
                 PROVE  Bit(y + j * (2 * p), (t + b) + 1) = Bit(j, b)
    <3>1. (t + 1) + v - 1 = t + v
          /\ \A b \in 0 .. v - 1 : (t + 1) + b = (t + b) + 1
      OBVIOUS
    <3> QED
      BY <2>1, <2>2, <3>1 DEF Storing
  <2> DEFINE h == y \div 2
             z == y + j * (2 * p)
  <2>3. h \in Nat /\ z \in Nat /\ z \div 2 = h + j * p
    <3>1. j * (2 * p) = 2 * (j * p) /\ j * p \in Nat
      BY <2>1
    <3>2. ASSUME NEW q \in Nat PROVE (y + 2 * q) \div 2 = h + q
      OBVIOUS
    <3> QED
      BY <3>1, <3>2
  <2> HIDE DEF z, p
  <2>4. \A c \in t .. t + v - 1 : Bit(h, c) = 0
    <3>1. ASSUME NEW c \in t .. t + v - 1 PROVE Bit(h, c) = 0
      <4>1. c \in Nat /\ c + 1 \in t + 1 .. t + v
        OBVIOUS
      <4>2. Bit(y, c + 1) = Bit(h, c)
        BY <4>1, BitSteps
      <4> QED
        BY <2>2, <4>1, <4>2
    <3> QED
      BY <3>1
  <2>5. Bit(h + j * p, t + b) = Bit(j, b)
    BY <1>2, <2>3, <2>4 DEF p, Storing
  <2>6. Bit(z, (t + b) + 1) = Bit(z \div 2, t + b)
    <3>1. t + b \in Nat
      OBVIOUS
    <3> QED
      BY <2>3, <3>1, BitSteps
  <2> QED
    BY <2>3, <2>5, <2>6 DEF z
<1> QED
  BY <1>1, <1>2, SetInduction

\* v bits from s on are clear in x
Blank(x, s, v) == \A b \in Field(s, v) : Bit(x, b) = 0

\* There x can be counted up to have the bits of w.
Reaches(x, s, v, w) ==
  \E j \in 0 .. Pow2[v] - 1 :
    \A b \in Field(s, v) : Bit(Counted(x, j, s), b) = Bit(w, b)

\* Counting from bit s, v bits that are clear come to whatever they shall be.
LEMMA CountingReaches ==
  ASSUME NEW s \in Nat, NEW v \in Nat, NEW x \in Nat, NEW w \in Nat,
         Blank(x, s, v)
  PROVE  Reaches(x, s, v, w)
<1> DEFINE D == {b \in 0 .. v - 1 : Bit(w, s + b) = 1}
<1>1. PICK j \in 0 .. Pow2[v] - 1 :
        \A b \in 0 .. v - 1 : Bit(j, b) = 1 <=> b \in D
  <2>1. D \in SUBSET (0 .. v - 1)
    OBVIOUS
  <2> HIDE DEF D
  <2> QED
    BY <2>1, DigitsExist
<1>2. j \in Nat
  <2>1. Pow2[v] \in Nat
    BY Pow2Positive
  <2> QED
    BY <2>1
<1>3. \A b \in 0 .. v - 1 : Bit(x + j * Pow2[s], s + b) = Bit(j, b)
  <2>1. s \in Storing(v, j)
    BY <1>2, StoringAnywhere
  <2>2. \A b \in s .. s + v - 1 : Bit(x, b) = 0
    BY DEF Blank, Field
  <2> QED
    BY <2>1, <2>2 DEF Storing
<1>4. ASSUME NEW b \in Field(s, v)
      PROVE  Bit(Counted(x, j, s), b) = Bit(w, b)
  <2> DEFINE k == b - s
  <2>1. k \in 0 .. v - 1 /\ k \in Nat /\ b = s + k /\ b \in Nat
    BY DEF Field
  <2> HIDE DEF k
  <2>2. Bit(Counted(x, j, s), b) = Bit(j, k)
    BY <1>3, <2>1 DEF Counted
  <2>3. Bit(j, k) \in {0, 1} /\ Bit(w, b) \in {0, 1}
    BY <1>2, <2>1, BitType
  <2>4. Bit(j, k) = 1 <=> Bit(w, b) = 1
    BY <1>1, <2>1
  <2> HIDE DEF D
  <2> QED
    BY <2>2, <2>3, <2>4
<1> QED
  BY <1>4 DEF Reaches

=============================================================================
