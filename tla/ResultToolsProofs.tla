-------------------------- MODULE ResultToolsProofs --------------------------
(***************************************************************************)
(* Theorems about ResultTools, for words of any width and any ascending    *)
(* lists.                                                                  *)
(***************************************************************************)
EXTENDS ResultTools, PowersOfTwoProofs, FiniteSetTheorems, SequenceTheorems,
        TLAPS

-----------------------------------------------------------------------------
(* The numbers of the tools. *)

LEMMA MinFact ==
  ASSUME NEW S \in SUBSET Nat, S # {}
  PROVE  Min(S) \in S /\ \A k \in S : Min(S) <= k
  BY LeastNatural DEF Min

LEMMA WordFacts ==
  /\ WordBits \in Nat \ {0}
  /\ Pow2[WordBits] \in Nat \ {0}
  /\ Pow2[WordBits + 1] = 2 * Pow2[WordBits]
  /\ Words = 0 .. Pow2[WordBits] - 1
  BY ResultToolsAssumption, Pow2Positive, Pow2Steps DEF Words

\* BitLength(n) is the number of binary digits of n.
LEMMA BitLengthFacts ==
  ASSUME NEW n \in Nat, n <= Pow2[WordBits]
  PROVE  /\ BitLength(n) \in 0 .. WordBits + 1
         /\ n < Pow2[BitLength(n)]
         /\ n = 0 => BitLength(n) = 0
         /\ n # 0 => /\ BitLength(n) - 1 \in 0 .. WordBits
                     /\ Pow2[BitLength(n) - 1] <= n
<1> DEFINE S == {k \in 0 .. WordBits + 1 : n < Pow2[k]}
           m == Min(S)
<1>1. WordBits + 1 \in S
  BY WordFacts
<1>2. m \in S /\ \A k \in S : m <= k
  <2>1. S \subseteq Nat /\ S # {}
    BY <1>1, WordFacts
  <2> HIDE DEF S
  <2> QED
    BY <2>1, MinFact
<1>3. n = 0 => 0 \in S
  <2>1. 0 \in 0 .. WordBits + 1 /\ Pow2[0] = 1 /\ 0 < 1
    BY Pow2Steps, WordFacts
  <2> QED
    BY <2>1
<1>4. n # 0 => m # 0
  <2>1. ~ (n < 1) \/ n = 0
    OBVIOUS
  <2>2. Pow2[0] = 1 /\ n < Pow2[m]
    BY <1>2, Pow2Steps
  <2> HIDE DEF m
  <2> QED
    BY <2>1, <2>2
<1>5. BitLength(n) = m
  BY DEF BitLength
<1> HIDE DEF m
<1>6. m \in 0 .. WordBits + 1 /\ n < Pow2[m]
  BY <1>2
<1>7. n = 0 => m = 0
  BY <1>2, <1>3, <1>6
<1>8. ASSUME n # 0 PROVE m - 1 \in 0 .. WordBits /\ Pow2[m - 1] <= n
  <2>1. m - 1 \in 0 .. WordBits /\ m - 1 \in 0 .. WordBits + 1 /\ ~ (m <= m - 1)
    BY <1>4, <1>6, <1>8, WordFacts
  <2>2. m - 1 \notin S
    BY <1>2, <2>1
  <2>3. Pow2[m - 1] \in Nat
    BY <2>1, Pow2Positive
  <2> QED
    BY <2>1, <2>2, <2>3
<1> QED
  BY <1>5, <1>6, <1>7, <1>8

LEMMA BitLengthPow2 ==
  ASSUME NEW k \in 0 .. WordBits
  PROVE  Pow2[k] <= Pow2[WordBits] /\ BitLength(Pow2[k]) = k + 1
<1>1. Pow2[k] \in Nat \ {0} /\ Pow2[k] <= Pow2[WordBits]
  BY WordFacts, Pow2Positive, Pow2Order
<1> DEFINE m == BitLength(Pow2[k])
<1>2. m \in 0 .. WordBits + 1 /\ Pow2[k] < Pow2[m]
      /\ m - 1 \in 0 .. WordBits /\ Pow2[m - 1] <= Pow2[k]
  BY <1>1, BitLengthFacts
<1> HIDE DEF m
<1>3. k < m /\ m - 1 <= k
  BY <1>2, Pow2Order
<1>4. m = k + 1
  BY <1>2, <1>3, WordFacts
<1> QED
  BY <1>1, <1>4 DEF m

\* firstPass.py takes the largest power of two that a run holds.
LEMMA TakenFacts ==
  ASSUME NEW steps \in Nat, steps < Pow2[WordBits]
  PROVE  \E v \in 0 .. WordBits :
           /\ Taken(steps) = Pow2[v] /\ BitLength(Taken(steps)) - 1 = v
           /\ Pow2[v] <= steps + 1 /\ steps + 1 < 2 * Pow2[v]
<1>1. CASE IsPower2(steps + 1)
  <2>1. PICK v \in 0 .. WordBits : steps + 1 = Pow2[v]
    BY <1>1 DEF IsPower2
  <2>2. Taken(steps) = Pow2[v]
    BY <1>1, <2>1 DEF Taken
  <2>3. BitLength(Pow2[v]) = v + 1
    BY BitLengthPow2
  <2>4. (v + 1) - 1 = v
    OBVIOUS
  <2> QED
    BY <2>1, <2>2, <2>3, <2>4
<1>2. CASE ~ IsPower2(steps + 1)
  <2> DEFINE v == BitLength(steps) - 1
  <2>1. steps # 0
    <3>1. 0 \in 0 .. WordBits /\ 0 + 1 = Pow2[0]
      BY Pow2Steps, WordFacts
    <3> QED
      BY <1>2, <3>1 DEF IsPower2
  <2>2. v \in 0 .. WordBits /\ Pow2[v] <= steps /\ steps < Pow2[v + 1]
        /\ Taken(steps) = Pow2[v]
    <3>1. steps <= Pow2[WordBits]
      BY WordFacts
    <3>2. v + 1 = BitLength(steps)
      BY <3>1, BitLengthFacts
    <3> QED
      BY <1>2, <2>1, <3>1, <3>2, BitLengthFacts DEF Taken
  <2> HIDE DEF v
  <2>3. Pow2[v] \in Nat /\ Pow2[v + 1] = 2 * Pow2[v]
    BY <2>2, Pow2Positive, Pow2Steps
  <2>4. v < WordBits
    <3>1. Pow2[v] < Pow2[WordBits]
      BY <2>2, <2>3, WordFacts
    <3> QED
      BY <2>2, <3>1, WordFacts, Pow2Order
  <2>5. steps + 1 # Pow2[v + 1]
    BY <1>2, <2>2, <2>4, WordFacts DEF IsPower2
  <2>6. BitLength(Pow2[v]) = v + 1 /\ (v + 1) - 1 = v
    BY <2>2, BitLengthPow2
  <2> QED
    BY <2>2, <2>3, <2>5, <2>6
<1> QED
  BY <1>1, <1>2

\* word & ~mask is a word, with the mask's bits clear and the others as before;
\* it is the word itself if these are clear already.
LEMMA ClearFacts ==
  ASSUME NEW w \in Words, NEW mask \in Masks
  PROVE  /\ Clear(w, mask) \in Words
         /\ (\A b \in mask : Bit(w, b) = 0) => Clear(w, mask) = w
<1> DEFINE D == {b \in 0 .. WordBits - 1 : b \notin mask /\ Bit(w, b) = 1}
           Is(x) == \A b \in 0 .. WordBits - 1 :
                      Bit(x, b) = IF b \in mask THEN 0 ELSE Bit(w, b)
           c == CHOOSE x \in Words : Is(x)
<1>1. \A x \in Words : \A b \in 0 .. WordBits - 1 : Bit(x, b) \in {0, 1}
  BY BitType, WordFacts
<1>2. \E x \in Words : Is(x)
  <2>1. PICK x \in Words :
          \A b \in 0 .. WordBits - 1 : Bit(x, b) = 1 <=> b \in D
    <3>1. D \in SUBSET (0 .. WordBits - 1)
      OBVIOUS
    <3> HIDE DEF D
    <3> QED
      BY <3>1, DigitsExist, WordFacts
  <2>2. ASSUME NEW b \in 0 .. WordBits - 1
        PROVE  Bit(x, b) = IF b \in mask THEN 0 ELSE Bit(w, b)
    <3>1. Bit(x, b) \in {0, 1} /\ Bit(w, b) \in {0, 1}
      BY <1>1
    <3>2. Bit(x, b) = 1 <=> b \notin mask /\ Bit(w, b) = 1
      BY <2>1
    <3> HIDE DEF D
    <3> QED
      BY <3>1, <3>2
  <2> QED
    BY <2>2
<1>3. c \in Words /\ Is(c)
  BY <1>2
<1>4. Clear(w, mask) = c
  BY DEF Clear
<1> HIDE DEF c
<1>5. ASSUME \A b \in mask : Bit(w, b) = 0 PROVE c = w
  <2>1. \A b \in 0 .. WordBits - 1 : Bit(c, b) = Bit(w, b)
    BY <1>3, <1>5
  <2> QED
    BY <1>3, <2>1, DigitsUnique, WordFacts
<1> QED
  BY <1>3, <1>4, <1>5

\* The run that starts at p ends where the next element is further away.
LEMMA RunEndFacts ==
  ASSUME NEW p \in Nat, NEW list, NEW joined, Len(list) \in Nat,
         p <= Len(list), Len(list) \notin joined
  PROVE  /\ RunEnd(p, list, joined) \in p .. Len(list)
         /\ RunEnd(p, list, joined) \notin joined
         /\ \A r \in p .. RunEnd(p, list, joined) - 1 : r \in joined
<1> DEFINE S == (p .. Len(list)) \ joined
           m == Min(S)
<1>1. S \subseteq Nat /\ Len(list) \in S
  OBVIOUS
<1>2. m \in S /\ \A k \in S : m <= k
  <2> HIDE DEF S
  <2> QED
    BY <1>1, MinFact
<1>3. RunEnd(p, list, joined) = m
  BY DEF RunEnd
<1> HIDE DEF m
<1>4. ASSUME NEW r \in p .. m - 1 PROVE r \in joined
  <2>1. r \in p .. Len(list) /\ ~ (m <= r)
    BY <1>2
  <2> QED
    BY <1>2, <2>1
<1> QED
  BY <1>2, <1>3, <1>4

\* Multiplication respects the order.
LEMMA TimesOrder ==
  ASSUME NEW a \in Nat, NEW b \in Nat, NEW c \in Nat, a <= b
  PROVE  a * c \in Nat /\ b * c \in Nat /\ a * c <= b * c
  OBVIOUS

\* If one less than 2^v distances of 2^s fit into a word, s + v bits do.
LEMMA BitsFit ==
  ASSUME NEW s \in 0 .. WordBits - 1, NEW v \in 0 .. WordBits + 1,
         NEW x \in Nat, x + (Pow2[v] - 1) * Pow2[s] < Pow2[WordBits]
  PROVE  s + v <= WordBits
<1>1. CASE v = 0
  BY <1>1, WordFacts
<1>2. CASE v # 0
  <2>1. v - 1 \in Nat /\ (v - 1) + 1 = v /\ s \in Nat
    BY <1>2, WordFacts
  <2> DEFINE h == Pow2[v - 1]
             d == Pow2[s]
  <2>2. h \in Nat \ {0} /\ d \in Nat \ {0} /\ Pow2[(v - 1) + 1] = 2 * h
    BY <2>1, Pow2Positive, Pow2Steps
  <2>3. Pow2[s + (v - 1)] = d * h
    BY <2>1, Pow2Sum
  <2> HIDE DEF h, d
  <2>4. Pow2[v] - 1 \in Nat /\ h <= Pow2[v] - 1
    BY <2>1, <2>2
  <2>5. h * d <= (Pow2[v] - 1) * d /\ h * d \in Nat
        /\ (Pow2[v] - 1) * d \in Nat /\ h * d = d * h
    BY <2>2, <2>4, TimesOrder
  <2>6. x + (Pow2[v] - 1) * d < Pow2[WordBits]
    BY DEF d
  <2>7. Pow2[s + (v - 1)] < Pow2[WordBits]
    BY <2>3, <2>5, <2>6, WordFacts
  <2>8. s + (v - 1) \in Nat
    BY <2>1
  <2>9. s + (v - 1) < WordBits
    BY <2>7, <2>8, WordFacts, Pow2Order
  <2> QED
    BY <2>1, <2>9, WordFacts
<1> QED
  BY <1>1, <1>2

-----------------------------------------------------------------------------
(* firstPass.py: an iteration. *)

LEMMA InputFacts ==
  ASSUME NEW list \in Inputs
  PROVE  /\ list \in Seq(Words) /\ Len(list) \in Nat /\ Len(list) >= 2
         /\ DOMAIN list = 1 .. Len(list)
         /\ \A p \in 1 .. Len(list) : list[p] \in Words /\ list[p] \in Nat
                                      /\ list[p] < Pow2[WordBits]
         /\ \A p \in 1 .. Len(list) - 1 : list[p] < list[p + 1]
         /\ Len(list) <= Pow2[WordBits]
<1>1. /\ list \in Seq(Words) /\ Len(list) \in Nat /\ Len(list) >= 2
      /\ DOMAIN list = 1 .. Len(list)
      /\ \A p \in 1 .. Len(list) - 1 : list[p] < list[p + 1]
  BY ResultToolsAssumption
<1>2. \A p \in 1 .. Len(list) : list[p] \in Words /\ list[p] \in Nat
                                /\ list[p] < Pow2[WordBits]
  <2>1. \A p \in 1 .. Len(list) : list[p] \in Words
    BY <1>1
  <2> QED
    BY <2>1, WordFacts
<1> DEFINE S == {q \in Nat : q + 1 <= Len(list) => q <= list[q + 1]}
<1>3. 0 \in S
  BY <1>1, <1>2
<1>4. ASSUME NEW q \in Nat, q \in S PROVE q + 1 \in S
  <2>1. SUFFICES ASSUME (q + 1) + 1 <= Len(list)
                 PROVE  q + 1 <= list[(q + 1) + 1]
    OBVIOUS
  <2>2. q + 1 \in 1 .. Len(list) - 1 /\ q + 1 \in 1 .. Len(list)
        /\ (q + 1) + 1 \in 1 .. Len(list)
    BY <1>1, <2>1
  <2>3. q <= list[q + 1]
    BY <1>4, <2>2
  <2>4. list[q + 1] < list[(q + 1) + 1]
    BY <1>1, <2>2
  <2>5. list[q + 1] \in Nat /\ list[(q + 1) + 1] \in Nat
    BY <1>2, <2>2
  <2> QED
    BY <2>3, <2>4, <2>5
<1> HIDE DEF S
<1>5. Len(list) - 1 \in S
  BY <1>1, <1>3, <1>4, SetInduction
<1>6. Len(list) <= Pow2[WordBits]
  <2>1. Len(list) - 1 + 1 = Len(list) /\ Len(list) \in 1 .. Len(list)
    BY <1>1
  <2>2. Len(list) - 1 <= list[Len(list)]
    BY <1>5, <2>1 DEF S
  <2> QED
    BY <1>1, <1>2, <2>1, <2>2, WordFacts
<1> QED
  BY <1>1, <1>2, <1>6

\* 2^v numbers of the list from position p, 2^s apart.
Steps(list, p, s, v) ==
  \A j \in 0 .. Pow2[v] - 1 : list[p + j] = list[p] + j * Pow2[s]

\* The positions of which firstPass.py finds that the next is delta away.
Joined(list, p, d) ==
  {r \in p .. Len(list) - 1 : IsPower2(d) /\ list[r] + d = list[r + 1]}

\* What is taken from p on are 2^v numbers, 2^s apart, for masked bits that
\* end within the word.
TakesRun(list, p, d, taken) ==
  \E v \in 0 .. WordBits, s \in 0 .. WordBits :
    /\ taken = Pow2[v] /\ BitLength(taken) - 1 = v
    /\ p + Pow2[v] - 1 <= Len(list)
    /\ {k + (BitLength(d) - 1) : k \in 0 .. v - 1} = s .. s + v - 1
    /\ s + v <= WordBits
    /\ Steps(list, p, s, v)

LEMMA FirstPassRun ==
  ASSUME NEW list \in Inputs, NEW p \in 1 .. Len(list), NEW d \in Words,
         p < Len(list) => d = list[p + 1] - list[p],
         NEW taken, taken = Taken(RunEnd(p, list, Joined(list, p, d)) - p)
  PROVE  TakesRun(list, p, d, taken)
<1> DEFINE joined == Joined(list, p, d)
           end == RunEnd(p, list, joined)
           steps == end - p
           L == Len(list)
<1>1. /\ L \in Nat /\ L <= Pow2[WordBits]
      /\ \A r \in 1 .. L : list[r] \in Nat /\ list[r] < Pow2[WordBits]
  BY InputFacts
<1>2. d \in Nat /\ d < Pow2[WordBits]
  BY WordFacts
<1>3. /\ end \in p .. L /\ end \notin joined
      /\ \A r \in p .. end - 1 : r \in joined
  <2>1. L \notin joined
    BY <1>1 DEF Joined
  <2> HIDE DEF joined
  <2> QED
    BY <1>1, <2>1, RunEndFacts
<1>4. \A r \in Int : r \in joined <=> r \in p .. L - 1 /\ IsPower2(d)
                                       /\ list[r] + d = list[r + 1]
  BY DEF Joined
<1>5. taken = Taken(steps)
  OBVIOUS
<1> HIDE DEF joined, end
<1>6. steps \in Nat /\ steps < Pow2[WordBits] /\ p + steps = end
  BY <1>1, <1>3, WordFacts
<1> HIDE DEF steps, L
<1>7. PICK v \in 0 .. WordBits :
        /\ taken = Pow2[v] /\ BitLength(taken) - 1 = v
        /\ Pow2[v] <= steps + 1 /\ steps + 1 < 2 * Pow2[v]
  BY <1>5, <1>6, TakenFacts
<1>8. Pow2[v] \in Nat \ {0} /\ v \in Nat /\ WordBits \in Nat \ {0}
  BY <1>7, Pow2Positive, WordFacts
<1>9. p + Pow2[v] - 1 <= L
  BY <1>1, <1>3, <1>6, <1>7, <1>8
<1>10. CASE steps = 0
  <2>1. v = 0 /\ Pow2[0] = 1
    <3>1. Pow2[v] <= Pow2[0] /\ 0 \in Nat /\ Pow2[0] = 1
      BY <1>7, <1>10, Pow2Steps
    <3>2. v <= 0
      BY <1>8, <3>1, Pow2Order
    <3> QED
      BY <1>8, <3>1, <3>2
  <2>2. Steps(list, p, 0, v)
    <3>1. list[p] \in Nat /\ p + 0 = p
      BY <1>1 DEF L
    <3> QED
      BY <2>1, <3>1 DEF Steps
  <2>4. {k + (BitLength(d) - 1) : k \in 0 .. v - 1} = 0 .. 0 + v - 1
    BY <2>1
  <2>5. 0 \in 0 .. WordBits /\ 0 + v <= WordBits
    BY <1>8, <2>1
  <2> QED
    BY <1>7, <1>9, <2>2, <2>4, <2>5 DEF L, TakesRun
<1>11. CASE steps # 0
  <2>1. p \in joined
    BY <1>3, <1>6, <1>11
  <2>2. PICK s \in 0 .. WordBits : d = Pow2[s]
    BY <1>4, <2>1 DEF IsPower2
  <2>3. s \in Nat /\ s < WordBits /\ d # 0
    <3>1. s \in Nat /\ WordBits \in Nat
      BY <1>8
    <3> QED
      BY <1>2, <2>2, <3>1, Pow2Order, Pow2Positive
  <2>4. BitLength(d) - 1 = s
    <3>1. BitLength(d) = s + 1
      BY <2>2, BitLengthPow2
    <3> QED
      BY <2>3, <3>1
  <2>5. \A j \in 0 .. steps : list[p + j] = list[p] + j * d
    <3> DEFINE S == {j \in Nat : j <= steps => list[p + j] = list[p] + j * d}
    <3>1. 0 \in S
      <4>1. list[p] \in Nat /\ p + 0 = p /\ 0 * d = 0
        BY <1>1, <1>2 DEF L
      <4> QED
        BY <4>1
    <3>2. ASSUME NEW j \in Nat, j \in S PROVE j + 1 \in S
      <4>1. SUFFICES ASSUME j + 1 <= steps
                     PROVE  list[p + (j + 1)] = list[p] + (j + 1) * d
        OBVIOUS
      <4>2. p + j \in p .. end - 1 /\ (p + j) + 1 = p + (j + 1)
        BY <1>6, <4>1
      <4>3. list[p + j] + d = list[p + (j + 1)]
        BY <1>3, <1>4, <4>2
      <4>4. list[p + j] = list[p] + j * d
        BY <1>6, <3>2, <4>1
      <4>5. (j + 1) * d = j * d + d /\ j * d \in Nat
        BY <1>2
      <4>6. list[p] \in Nat
        BY <1>1 DEF L
      <4> QED
        BY <1>2, <4>3, <4>4, <4>5, <4>6
    <3>3. \A j \in Nat : j \in S
      <4> HIDE DEF S
      <4> QED
        BY <3>1, <3>2, SetInduction
    <3> QED
      BY <1>6, <3>3
  <2>6. Steps(list, p, s, v)
    <3>1. 0 .. Pow2[v] - 1 \subseteq 0 .. steps
      BY <1>6, <1>7, <1>8
    <3> QED
      BY <2>2, <2>5, <3>1 DEF Steps
  <2>9. s + v <= WordBits
    <3> DEFINE j == Pow2[v] - 1
    <3>1. j \in 0 .. Pow2[v] - 1 /\ p + j \in 1 .. L
      BY <1>1, <1>8, <1>9
    <3>2. list[p + j] = list[p] + j * Pow2[s]
      BY <2>6, <3>1 DEF Steps
    <3>3. list[p] \in Nat /\ list[p + j] < Pow2[WordBits]
      BY <1>1, <3>1 DEF L
    <3>4. s \in 0 .. WordBits - 1 /\ v \in 0 .. WordBits + 1
      BY <1>7, <1>8, <2>3
    <3> QED
      BY <3>2, <3>3, <3>4, BitsFit
  <2>10. {k + s : k \in 0 .. v - 1} = s .. s + v - 1
    <3>1. ASSUME NEW b \in s .. s + v - 1 PROVE \E k \in 0 .. v - 1 : b = k + s
      <4>1. b - s \in 0 .. v - 1 /\ b = (b - s) + s
        BY <1>8, <2>3
      <4> QED
        BY <4>1
    <3>2. ASSUME NEW k \in 0 .. v - 1 PROVE k + s \in s .. s + v - 1
      BY <1>8, <2>3
    <3> QED
      BY <3>1, <3>2
  <2> QED
    BY <1>7, <1>9, <2>4, <2>6, <2>9, <2>10 DEF L, TakesRun
<1> QED
  BY <1>10, <1>11

-----------------------------------------------------------------------------
(* What firstPass.py leaves. *)

Line == [instr : Words, mask : Masks, from : Nat, to : Nat]

\* e stands for a run of the list.
LineOf(list, e) ==
  /\ e \in Line
  /\ e.from \in 1 .. Len(list) /\ e.instr = list[e.from]
  /\ \E v \in 0 .. WordBits, s \in 0 .. WordBits :
       /\ e.mask = s .. s + v - 1 /\ s + v <= WordBits
       /\ e.to = e.from + Pow2[v] - 1 /\ e.to <= Len(list)
       /\ Steps(list, e.from, s, v)

LEMMA LineFacts ==
  ASSUME NEW list \in Inputs, NEW e, LineOf(list, e)
  PROVE  /\ e.to \in e.from .. Len(list)
         /\ e.to - e.from + 1 = Pow2[Cardinality(e.mask)]
         /\ Aligned(e) => \A q \in e.from .. e.to : Denotes(e, list[q])
<1>1. PICK v \in 0 .. WordBits, s \in 0 .. WordBits :
        /\ e.mask = s .. s + v - 1 /\ s + v <= WordBits
        /\ e.to = e.from + Pow2[v] - 1 /\ e.to <= Len(list)
        /\ Steps(list, e.from, s, v)
  BY DEF LineOf
<1>2. /\ v \in Nat /\ s \in Nat /\ e.from \in 1 .. Len(list)
      /\ Len(list) \in Nat /\ e.instr = list[e.from] /\ e.instr \in Nat
  BY WordFacts, InputFacts DEF LineOf
<1>3. Pow2[v] \in Nat \ {0}
  BY <1>2, Pow2Positive
<1>4. e.to \in e.from .. Len(list)
  BY <1>1, <1>2, <1>3
<1>5. Cardinality(e.mask) = v
  <2>1. s \in Int /\ s + v - 1 \in Int /\ (s + v - 1) - s + 1 = v
    BY <1>2
  <2>2. Cardinality(s .. s + v - 1) =
          IF s > s + v - 1 THEN 0 ELSE (s + v - 1) - s + 1
    BY <2>1, FS_Interval
  <2> QED
    BY <1>1, <1>2, <2>1, <2>2
<1>6. e.to - e.from + 1 = Pow2[v]
  <2> DEFINE m == Pow2[v]
             a == e.from
  <2>1. m \in Nat /\ a \in Nat /\ e.to = a + m - 1
    BY <1>1, <1>2, <1>3
  <2> HIDE DEF m, a
  <2>2. (a + m - 1) - a + 1 = m
    BY <2>1
  <2> QED
    BY <2>1, <2>2 DEF m, a
<1>7. ASSUME Aligned(e), NEW q \in e.from .. e.to PROVE Denotes(e, list[q])
  <2>1. PICK j \in 0 .. Pow2[v] - 1 : q = e.from + j
    <3>1. q - e.from \in 0 .. Pow2[v] - 1 /\ q = e.from + (q - e.from)
      BY <1>1, <1>2, <1>3
    <3> QED
      BY <3>1
  <2>2. list[q] = e.instr + j * Pow2[s]
    BY <1>1, <1>2, <2>1 DEF Steps
  <2>3. \A b \in e.mask : Bit(e.instr, b) = 0
    BY <1>7 DEF Aligned
  <2>4. ASSUME NEW b \in Nat, b \notin e.mask
        PROVE  Bit(list[q], b) = Bit(e.instr, b)
    <3> DEFINE x == e.instr
    <3>1. x \in Nat /\ list[q] = Counted(x, j, s) /\ e.mask = Field(s, v)
      BY <1>1, <1>2, <2>2 DEF Counted, Field
    <3>2. b \in Nat \ Field(s, v) /\ \A c \in Field(s, v) : Bit(x, c) = 0
      BY <2>3, <2>4, <3>1
    <3> HIDE DEF x
    <3>3. Bit(Counted(x, j, s), b) = Bit(x, b)
      BY <1>2, <3>1, <3>2, CountingInPlace
    <3> QED
      BY <3>1, <3>3 DEF x
  <2>5. 0 .. WordBits - 1 \subseteq Nat
    BY WordFacts
  <2> QED
    BY <1>1, <2>2, <2>4, <2>5 DEF Denotes
<1> QED
  BY <1>4, <1>5, <1>6, <1>7

\* first is what firstPass.py makes of the list.
LinesOf(list, first) ==
  /\ first \in Seq(Line)
  /\ Contiguous(first, Len(list))
  /\ \A p \in 1 .. Len(first) : LineOf(list, first[p])

\* ins is what rangeCompress makes of first.
MaskedOf(first, ins) == ins = [p \in DOMAIN first |-> Masked(first[p])]

LEMMA MaskedFacts ==
  ASSUME NEW first \in Seq(Line), NEW ins, MaskedOf(first, ins)
  PROVE  /\ Len(first) \in Nat /\ Len(ins) = Len(first)
         /\ DOMAIN ins = 1 .. Len(first)
         /\ \A p \in 1 .. Len(first) :
              /\ first[p].instr \in Words /\ first[p].mask \in Masks
              /\ ins[p].instr \in Words /\ ins[p].instr \in Nat
              /\ ins[p].instr < Pow2[WordBits]
              /\ ins[p].mask = first[p].mask
              /\ Aligned(first[p]) => ins[p].instr = first[p].instr
<1>1. Len(first) \in Nat /\ DOMAIN first = 1 .. Len(first)
      /\ \A p \in 1 .. Len(first) : first[p] \in Line
  BY ElementOfSeq, LenProperties
<1>2. DOMAIN ins = 1 .. Len(first)
      /\ \A p \in 1 .. Len(first) : ins[p] = Masked(first[p])
  BY <1>1 DEF MaskedOf
<1>3. Len(ins) = Len(first)
  <2>1. ins = [p \in 1 .. Len(first) |-> Masked(first[p])]
    BY <1>1 DEF MaskedOf
  <2> QED
    BY <1>1, <2>1
<1>4. ASSUME NEW p \in 1 .. Len(first)
      PROVE  /\ first[p].instr \in Words /\ first[p].mask \in Masks
             /\ ins[p].instr \in Words
             /\ ins[p].mask = first[p].mask
             /\ Aligned(first[p]) => ins[p].instr = first[p].instr
  <2>1. first[p].instr \in Words /\ first[p].mask \in Masks
    BY <1>1 DEF Line
  <2>2. ins[p].instr = Clear(first[p].instr, first[p].mask)
        /\ ins[p].mask = first[p].mask
    BY <1>2 DEF Masked
  <2> QED
    BY <2>1, <2>2, ClearFacts DEF Aligned
<1> QED
  BY <1>1, <1>2, <1>3, <1>4, WordFacts

-----------------------------------------------------------------------------
(* rangeCompress: an iteration. *)

LEMMA Remainders ==
  ASSUME NEW n \in Nat \ {0}, NEW x \in Int
  PROVE  /\ x % n \in 0 .. n - 1
         /\ x \in 0 .. n - 1 => x % n = x
         /\ x \in n .. 2 * n - 1 => x % n = x - n
         /\ x \in 1 - n .. -1 => x % n = x + n
<1>1. x % n \in 0 .. n - 1
  OBVIOUS
<1>2. x \in 0 .. n - 1 => x % n = x
  OBVIOUS
<1>3. x \in n .. 2 * n - 1 => x % n = x - n
  OBVIOUS
<1>4. x \in 1 - n .. -1 => x % n = x + n
  OBVIOUS
<1> QED
  BY <1>1, <1>2, <1>3, <1>4

\* If adding d leads to b, modulo 2^WordBits, d is their difference.
LEMMA DifferenceOfSum ==
  ASSUME NEW n \in Nat \ {0}, NEW a \in 0 .. n - 1, NEW d \in 0 .. n - 1
  PROVE  (((a + d) % n) - a) % n = d
<1> DEFINE x == a + d
<1>1. CASE a + d < n
  <2>1. (a + d) % n = a + d
    <3>1. x \in 0 .. n - 1 /\ x \in Int
      BY <1>1
    <3> HIDE DEF x
    <3>2. x % n = x
      BY <3>1, Remainders
    <3> QED
      BY <3>2 DEF x
  <2>2. (a + d) - a = d /\ d % n = d
    BY Remainders
  <2> QED
    BY <2>1, <2>2
<1>2. CASE a + d >= n
  <2>1. (a + d) % n = a + d - n
    <3>1. x \in n .. 2 * n - 1 /\ x \in Int
      BY <1>2
    <3> HIDE DEF x
    <3>2. x % n = x - n
      BY <3>1, Remainders
    <3> QED
      BY <3>2 DEF x
  <2>2. CASE d = 0
    BY <1>2, <2>2
  <2>3. CASE d # 0
    <3> DEFINE y == d - n
    <3>1. (a + d - n) - a = y /\ y \in Int /\ y \in 1 - n .. -1 /\ y + n = d
      BY <2>3
    <3> HIDE DEF y
    <3>2. y % n = y + n
      BY <3>1, Remainders
    <3> QED
      BY <2>1, <3>1, <3>2
  <2> QED
    BY <2>2, <2>3
<1> QED
  BY <1>1, <1>2

LEMMA BitLengthIs ==
  ASSUME NEW n \in Nat, n <= Pow2[WordBits], NEW m \in 0 .. WordBits + 1,
         n < Pow2[m], m # 0 => Pow2[m - 1] <= n
  PROVE  BitLength(n) = m
<1> DEFINE l == BitLength(n)
<1>1. /\ l \in 0 .. WordBits + 1 /\ n < Pow2[l]
      /\ n = 0 => l = 0
      /\ n # 0 => l - 1 \in 0 .. WordBits /\ Pow2[l - 1] <= n
  BY BitLengthFacts
<1> HIDE DEF l
<1>2. l \in Nat /\ m \in Nat /\ Pow2[l] \in Nat /\ Pow2[m] \in Nat
  BY <1>1, WordFacts, Pow2Positive
<1>3. CASE n = 0
  <2>1. m = 0
    <3>1. SUFFICES ASSUME m # 0 PROVE FALSE
      OBVIOUS
    <3>2. m - 1 \in Nat
      BY <1>2, <3>1
    <3>3. Pow2[m - 1] \in Nat \ {0} /\ Pow2[m - 1] <= 0
      BY <1>3, <3>1, <3>2, Pow2Positive
    <3> QED
      BY <3>3
  <2> QED
    BY <1>1, <1>3, <2>1 DEF l
<1>4. CASE n # 0
  <2>1. m # 0
    <3>1. Pow2[0] = 1
      BY Pow2Steps
    <3> QED
      BY <1>4, <3>1
  <2>2. l - 1 \in Nat /\ m - 1 \in Nat
    BY <1>1, <1>2, <1>4, <2>1
  <2>3. Pow2[l - 1] \in Nat /\ Pow2[m - 1] \in Nat
    BY <2>2, Pow2Positive
  <2>4. Pow2[l - 1] < Pow2[m] /\ Pow2[m - 1] < Pow2[l]
    BY <1>1, <1>2, <1>4, <2>1, <2>3
  <2>5. l - 1 < m /\ m - 1 < l
    BY <1>2, <2>2, <2>4, Pow2Order
  <2> QED
    BY <1>2, <2>5 DEF l
<1> QED
  BY <1>3, <1>4

AddedBits(steps) == Log2(steps) - (IF IsPower2(steps + 1) THEN 0 ELSE 1)

\* 2^c entries are taken, and c bits added, or one less for all of a run.
TakesPower(p, steps, end, variableBits) ==
  \E c \in 0 .. WordBits :
    /\ LastTaken(end, steps, variableBits) = p + Pow2[c] - 1
    /\ Pow2[c] <= steps + 1
    /\ variableBits = IF Pow2[c] = steps + 1 THEN c - 1 ELSE c

LEMMA RangeTaken ==
  ASSUME NEW p \in Nat, NEW steps \in Nat, steps < Pow2[WordBits],
         NEW variableBits, variableBits = AddedBits(steps),
         NEW end, end = p + steps
  PROVE  TakesPower(p, steps, end, variableBits)
<1>1. steps <= Pow2[WordBits] /\ WordBits \in Nat \ {0}
  BY WordFacts
<1>2. CASE IsPower2(steps + 1)
  <2>1. PICK c \in 0 .. WordBits : steps + 1 = Pow2[c]
    BY <1>2 DEF IsPower2
  <2>2. c \in Nat /\ Pow2[c] \in Nat
    BY WordFacts, Pow2Positive
  <2>3. BitLength(steps) = c
    <3>1. steps < Pow2[c] /\ c \in 0 .. WordBits + 1
      BY <1>1, <2>1, <2>2
    <3>2. ASSUME c # 0 PROVE Pow2[c - 1] <= steps
      <4>1. c - 1 \in Nat /\ (c - 1) + 1 = c
        BY <2>2, <3>2
      <4>2. Pow2[c - 1] \in Nat \ {0} /\ Pow2[(c - 1) + 1] = 2 * Pow2[c - 1]
        BY <4>1, Pow2Positive, Pow2Steps
      <4> QED
        BY <2>1, <4>1, <4>2
    <3> QED
      BY <1>1, <3>1, <3>2, BitLengthIs
  <2>4. variableBits = c - 1
    BY <1>2, <2>2, <2>3 DEF Log2, AddedBits
  <2>5. LastTaken(end, steps, variableBits) = p + Pow2[c] - 1
    <3>1. LastTaken(end, steps, variableBits) = p + steps
      BY <1>2 DEF LastTaken
    <3>2. p + steps = p + Pow2[c] - 1
      <4> DEFINE taken == Pow2[c]
      <4>1. taken \in Nat /\ steps + 1 = taken
        BY <2>1, <2>2
      <4> HIDE DEF taken
      <4>2. p + steps = p + taken - 1
        BY <4>1
      <4> QED
        BY <4>2 DEF taken
    <3> QED
      BY <3>1, <3>2
  <2> QED
    BY <2>1, <2>2, <2>4, <2>5 DEF TakesPower
<1>3. CASE ~ IsPower2(steps + 1)
  <2> DEFINE l == BitLength(steps) - 1
  <2>1. steps # 0 /\ steps # 1
    <3>1. 0 \in 0 .. WordBits /\ 1 \in 0 .. WordBits
          /\ 0 + 1 = Pow2[0] /\ 1 + 1 = Pow2[1]
      <4>1. Pow2[0] = 1 /\ Pow2[0 + 1] = 2 * Pow2[0]
        BY Pow2Steps
      <4> QED
        BY <1>1, <4>1
    <3> QED
      BY <1>3, <3>1 DEF IsPower2
  <2>2. l \in 0 .. WordBits /\ Pow2[l] <= steps /\ steps < Pow2[l + 1]
    <3>1. BitLength(steps) \in 0 .. WordBits + 1 /\ l + 1 = BitLength(steps)
      BY <1>1, BitLengthFacts
    <3> QED
      BY <1>1, <2>1, <3>1, BitLengthFacts
  <2>3. variableBits = l - 1
    BY <1>3 DEF Log2, AddedBits
  <2> HIDE DEF l
  <2>4. l # 0
    <3>1. Pow2[0] = 1 /\ Pow2[0 + 1] = 2 * Pow2[0]
      BY Pow2Steps
    <3>2. l = 0 => steps < 2
      BY <2>2, <3>1
    <3> QED
      BY <2>1, <3>2
  <2> DEFINE c == l - 1
  <2>5. c \in 0 .. WordBits /\ c \in Nat /\ c + 1 = l
    BY <1>1, <2>2, <2>4
  <2>6. Pow2[c] \in Nat /\ Pow2[c + 1] = 2 * Pow2[c]
    BY <2>5, Pow2Positive, Pow2Steps
  <2>7. variableBits = c
    BY <2>3
  <2> HIDE DEF c
  <2>8. Pow2[c] <= steps + 1 /\ Pow2[c] # steps + 1
    BY <2>2, <2>5, <2>6
  <2>9. LastTaken(end, steps, variableBits) = p + Pow2[c] - 1
    BY <1>3, <2>6, <2>7 DEF LastTaken
  <2> QED
    BY <2>5, <2>7, <2>8, <2>9 DEF TakesPower
<1> QED
  BY <1>2, <1>3

LEMMA LinesBound ==
  ASSUME NEW list \in Inputs, NEW first, LinesOf(list, first)
  PROVE  /\ first \in Seq(Line)
         /\ Len(first) \in 1 .. Len(list)
         /\ \A p \in 1 .. Len(first) : LineOf(list, first[p])
         /\ \A p \in 1 .. Len(first) - 1 : first[p + 1].from = first[p].to + 1
<1> DEFINE L == Len(first)
           S == {n \in Nat : n + 1 <= L => first[n + 1].to >= n + 1}
<1>1. /\ first \in Seq(Line) /\ L \in Nat /\ DOMAIN first = 1 .. L
      /\ \A p \in 1 .. L : first[p] \in Line /\ LineOf(list, first[p])
  BY ElementOfSeq, LenProperties DEF LinesOf
<1>2. \A p \in 1 .. L : /\ first[p].from \in Nat /\ first[p].to \in Nat
                        /\ first[p].from <= first[p].to
                        /\ first[p].from = IF p = 1 THEN 1
                                           ELSE first[p - 1].to + 1
  <2>1. \A p \in 1 .. L : first[p].from \in Nat /\ first[p].to \in Nat
    BY <1>1 DEF Line
  <2> QED
    BY <1>1, <2>1 DEF LinesOf, Contiguous
<1>3. Len(list) \in Nat /\ Len(list) >= 2
  BY InputFacts
<1>4. 0 \in S
  <2>1. 1 <= L => first[1].to >= 1
    BY <1>1, <1>2
  <2>2. 0 + 1 = 1
    OBVIOUS
  <2> QED
    BY <2>1, <2>2
<1>5. ASSUME NEW n \in Nat, n \in S PROVE n + 1 \in S
  <2>1. SUFFICES ASSUME (n + 1) + 1 <= L
                 PROVE  first[(n + 1) + 1].to >= (n + 1) + 1
    OBVIOUS
  <2> DEFINE q == (n + 1) + 1
  <2>2. q \in 1 .. L /\ q # 1 /\ q - 1 = n + 1 /\ n + 1 \in 1 .. L
    BY <1>1, <2>1
  <2>3. first[n + 1].to >= n + 1
    BY <1>1, <1>5, <2>2
  <2> HIDE DEF q
  <2>4. first[q].to >= first[n + 1].to + 1 /\ first[q].to \in Nat
        /\ first[n + 1].to \in Nat
    BY <1>2, <2>2
  <2>5. first[q].to >= (n + 1) + 1
    BY <2>3, <2>4
  <2> QED
    BY <2>5 DEF q
<1>6. L # 0
  <2>1. SUFFICES ASSUME L = 0 PROVE FALSE
    OBVIOUS
  <2>2. first = <<>>
    BY <1>1, <2>1, EmptySeq
  <2> QED
    BY <1>3, <2>2 DEF LinesOf, Contiguous
<1>7. first[L].to = Len(list)
  <2>1. first # <<>>
    BY <1>1, <1>6, EmptySeq
  <2> QED
    BY <2>1 DEF LinesOf, Contiguous
<1>8. L <= Len(list)
  <2> HIDE DEF S
  <2>1. L - 1 \in Nat /\ (L - 1) + 1 = L
    BY <1>1, <1>6
  <2>2. L - 1 \in S
    BY <1>4, <1>5, <2>1, SetInduction
  <2> HIDE DEF L
  <2>3. (L - 1) + 1 <= L => first[(L - 1) + 1].to >= (L - 1) + 1
    BY <2>2 DEF S, L
  <2> QED
    BY <1>1, <1>7, <2>1, <2>3
<1>9. \A p \in 1 .. L - 1 : first[p + 1].from = first[p].to + 1
  <2>1. SUFFICES ASSUME NEW p \in 1 .. L - 1
                 PROVE  first[p + 1].from = first[p].to + 1
    OBVIOUS
  <2>2. p + 1 \in 1 .. L /\ p + 1 # 1 /\ (p + 1) - 1 = p
    BY <1>1
  <2> DEFINE q == p + 1
  <2> HIDE DEF q
  <2>3. first[q].from = first[q - 1].to + 1
    BY <1>2, <2>2 DEF q
  <2> QED
    BY <2>2, <2>3 DEF q
<1> QED
  BY <1>1, <1>3, <1>6, <1>8, <1>9

SameRange(ins, d, r) ==
  /\ (ins[r].instr + d) % Pow2[WordBits] = ins[r + 1].instr
  /\ ins[r].mask = ins[r + 1].mask

\* The run from p to q whose elements are d apart.
IsRun(ins, p, q, d) ==
  \A r \in p .. q - 1 : IsPower2(d) /\ SameRange(ins, d, r)

\* A run has one mask and one difference.
LEMMA RunIsEven ==
  ASSUME NEW first \in Seq(Line), NEW ins, MaskedOf(first, ins),
         NEW p \in 1 .. Len(first), NEW q \in 1 .. Len(first),
         NEW d \in Words, IsRun(ins, p, q, d)
  PROVE  /\ \A r \in p .. q - 1 : Difference(ins, r) = d
         /\ \A r \in p .. q : ins[r].mask = ins[p].mask
<1> DEFINE N == Pow2[WordBits]
           S == {n \in Nat : p + n <= q => ins[p + n].mask = ins[p].mask}
<1>1. /\ Len(first) \in Nat
      /\ \A r \in 1 .. Len(first) : ins[r].instr \in 0 .. N - 1
  BY MaskedFacts, WordFacts
<1>2. N \in Nat \ {0} /\ d \in 0 .. N - 1
  BY WordFacts
<1> HIDE DEF N
<1>3. ASSUME NEW r \in p .. q - 1 PROVE Difference(ins, r) = d
  <2> DEFINE a == ins[r].instr
  <2>1. a \in 0 .. N - 1
    BY <1>1
  <2>2. ins[r + 1].instr = (a + d) % N
    BY DEF IsRun, SameRange, N
  <2>3. Difference(ins, r) = (ins[r + 1].instr - a) % N
    BY DEF Difference, N
  <2> HIDE DEF a
  <2>4. (((a + d) % N) - a) % N = d
    BY <1>2, <2>1, DifferenceOfSum
  <2> QED
    BY <2>2, <2>3, <2>4
<1>4. 0 \in S
  <2>1. p + 0 = p
    OBVIOUS
  <2> QED
    BY <2>1
<1>5. ASSUME NEW n \in Nat, n \in S PROVE n + 1 \in S
  <2>1. SUFFICES ASSUME p + (n + 1) <= q
                 PROVE  ins[p + (n + 1)].mask = ins[p].mask
    OBVIOUS
  <2> DEFINE r == p + n
  <2>2. r \in p .. q - 1 /\ p + (n + 1) = r + 1
    BY <2>1
  <2>3. ins[r].mask = ins[p].mask
    BY <1>5, <2>2
  <2> HIDE DEF r
  <2>4. ins[r].mask = ins[r + 1].mask
    BY <2>2 DEF IsRun, SameRange
  <2> QED
    BY <2>2, <2>3, <2>4
<1> HIDE DEF S
<1>6. ASSUME NEW r \in p .. q PROVE ins[r].mask = ins[p].mask
  <2>1. r - p \in Nat /\ p + (r - p) = r /\ r <= q
    OBVIOUS
  <2>2. r - p \in S
    BY <1>4, <1>5, <2>1, SetInduction
  <2> QED
    BY <2>1, <2>2 DEF S
<1> QED
  BY <1>3, <1>6

\* Conversely, their difference leads from one to the other.
LEMMA SumOfDifference ==
  ASSUME NEW n \in Nat \ {0}, NEW a \in 0 .. n - 1, NEW b \in 0 .. n - 1,
         NEW d, (b - a) % n = d
  PROVE  (a + d) % n = b
<1> DEFINE t == b - a
<1>1. t \in Int /\ d = t % n
  OBVIOUS
<1>2. CASE a <= b
  <2>1. t \in 0 .. n - 1 /\ a + t = b
    BY <1>2
  <2> HIDE DEF t
  <2>2. t % n = t
    BY <1>1, <2>1, Remainders
  <2>3. b \in Int
    OBVIOUS
  <2>4. b % n = b
    BY <2>3, Remainders
  <2> QED
    BY <1>1, <2>1, <2>2, <2>4
<1>3. CASE b < a
  <2> DEFINE y == b + n
  <2>1. t \in 1 - n .. -1 /\ a + (t + n) = y /\ y \in Int
        /\ y \in n .. 2 * n - 1 /\ y - n = b
    BY <1>3
  <2> HIDE DEF t, y
  <2>2. t % n = t + n /\ y % n = y - n
    BY <1>1, <2>1, Remainders
  <2> QED
    BY <1>1, <2>1, <2>2
<1> QED
  BY <1>2, <1>3

LEMMA ExponentIs ==
  ASSUME NEW k \in 0 .. WordBits
  PROVE  Exponent(Pow2[k]) = k
<1>1. \A l \in 0 .. WordBits : Pow2[k] = Pow2[l] => k = l
  BY WordFacts, Pow2Order
<1> QED
  BY <1>1 DEF Exponent

\* A run goes on where the element at its end is joined to the next.
Joins(ins, d, q) == q < Len(ins) /\ IsPower2(d) /\ SameRange(ins, d, q)

LEMMA WholeRun ==
  ASSUME NEW first \in Seq(Line), NEW ins, MaskedOf(first, ins),
         NEW p \in 1 .. Len(first), NEW q \in 1 .. Len(first), p < q,
         NEW d \in Words, IsRun(ins, p, q, d), NEW e, e.from = p, e.to = q
  PROVE  /\ \A r \in p .. q - 1 :
              IsPower2(Difference(ins, p)) /\ GoesOn(ins, e, r)
         /\ Difference(ins, p) = d /\ IsPower2(d)
         /\ Whole(ins, e) <=> ~ Joins(ins, d, q)
<1> DEFINE N == Pow2[WordBits]
<1>1. /\ Len(first) \in Nat /\ Len(ins) = Len(first)
      /\ \A r \in 1 .. Len(first) : ins[r].instr \in 0 .. N - 1
  BY MaskedFacts, WordFacts
<1>2. N \in Nat \ {0} /\ d \in 0 .. N - 1
  BY WordFacts
<1>3. /\ \A r \in p .. q - 1 : Difference(ins, r) = d
      /\ \A r \in p .. q : ins[r].mask = ins[p].mask
  BY RunIsEven
<1>4. p \in p .. q - 1 /\ q \in p .. q
  OBVIOUS
<1>5. Difference(ins, p) = d /\ IsPower2(d)
  BY <1>3, <1>4 DEF IsRun
<1>6. ASSUME NEW r \in p .. q - 1 PROVE GoesOn(ins, e, r)
  <2>1. r + 1 \in p .. q
    OBVIOUS
  <2> QED
    BY <1>3, <1>5, <2>1 DEF GoesOn
<1>7. ASSUME q < Len(ins)
      PROVE  GoesOn(ins, e, q) <=> SameRange(ins, d, q)
  <2> DEFINE a == ins[q].instr
             b == ins[q + 1].instr
  <2>1. a \in 0 .. N - 1 /\ b \in 0 .. N - 1
    <3>1. q + 1 \in 1 .. Len(first)
      BY <1>1, <1>7
    <3> QED
      BY <1>1, <3>1
  <2>2. Difference(ins, q) = (b - a) % N
    BY DEF Difference
  <2>3. SameRange(ins, d, q) <=>
          (a + d) % N = b /\ ins[q].mask = ins[q + 1].mask
    BY DEF SameRange
  <2> HIDE DEF a, b, N
  <2>4. (a + d) % N = b => (b - a) % N = d
    BY <1>2, <2>1, DifferenceOfSum
  <2>5. (b - a) % N = d => (a + d) % N = b
    <3>1. SUFFICES ASSUME (b - a) % N = d PROVE (a + d) % N = b
      OBVIOUS
    <3>2. N \in Nat \ {0}
      BY <1>2
    <3> HIDE DEF a, b, N
    <3> QED
      BY <3>2, <2>1, <3>1, SumOfDifference
  <2> QED
    BY <1>3, <1>4, <1>5, <2>2, <2>3, <2>4, <2>5 DEF GoesOn
<1>8. q <= Len(ins) /\ Len(ins) \in Nat
  BY <1>1
<1> HIDE DEF N
<1>9. Whole(ins, e) <=> ~ Joins(ins, d, q)
  <2>1. CASE q = Len(ins)
    BY <1>8, <2>1 DEF Whole, Joins
  <2>2. CASE q # Len(ins)
    <3>1. q < Len(ins)
      BY <1>8, <2>2
    <3> QED
      BY <1>5, <1>7, <2>2, <3>1 DEF Whole, Joins
  <2> QED
    BY <2>1, <2>2
<1> QED
  BY <1>5, <1>6, <1>9

\* A word that counts up by 2^s in c bits that are clear remains a word.
LEMMA CountedIsWord ==
  ASSUME NEW x \in Words, NEW s \in Nat, NEW c \in Nat, s + c <= WordBits,
         Blank(x, s, c), NEW j \in 0 .. Pow2[c] - 1
  PROVE  Counted(x, j, s) \in Words
<1> DEFINE N == Pow2[WordBits]
           y == Counted(x, j, s)
<1>1. WordBits \in Nat /\ N \in Nat \ {0} /\ x \in 0 .. N - 1 /\ x \in Nat
  BY WordFacts
<1>2. Pow2[s] \in Nat \ {0} /\ Pow2[c] \in Nat \ {0}
  BY Pow2Positive
<1>3. j * Pow2[s] \in Nat /\ j * Pow2[s] <= N
  <2> DEFINE d == Pow2[s]
             m == Pow2[c]
  <2>1. j \in Nat /\ j <= m /\ m \in Nat /\ d \in Nat
    BY <1>2
  <2>2. m * d = Pow2[s + c] /\ Pow2[s + c] <= N
    <3>1. s + c \in Nat
      OBVIOUS
    <3>2. Pow2[s + c] = Pow2[s] * Pow2[c] /\ Pow2[s + c] <= N
      BY <1>1, <3>1, Pow2Sum, Pow2Order
    <3> QED
      BY <1>2, <3>2
  <2> HIDE DEF d, m, N
  <2>3. j * d \in Nat /\ m * d \in Nat /\ j * d <= m * d
    BY <2>1, TimesOrder
  <2>4. N \in Nat
    BY <1>1
  <2>5. j * d \in Nat /\ j * d <= N
    BY <2>2, <2>3, <2>4
  <2> QED
    BY <2>5 DEF d
<1>4. y = x + j * Pow2[s]
  BY DEF Counted
<1> DEFINE u == j * Pow2[s]
<1>5. u \in Nat /\ u <= N /\ y = x + u
  BY <1>3, <1>4
<1>6. Bit(y, WordBits) = Bit(x, WordBits)
  <2>1. WordBits \in Nat \ Field(s, c)
    BY <1>1 DEF Field
  <2> QED
    BY <1>1, <2>1, CountingInPlace DEF Blank
<1> HIDE DEF u, y
<1>7. Bit(x, WordBits) = 0
  <2>1. N * 0 + x = x
    BY <1>1
  <2>2. (N * 0 + x) \div N = 0
    BY <1>1, QuotientUnique
  <2> QED
    BY <2>1, <2>2 DEF Bit
<1>8. ~ (y >= N)
  <2>1. SUFFICES ASSUME y >= N PROVE FALSE
    OBVIOUS
  <2> DEFINE r == y - N
  <2>2. r \in 0 .. N - 1 /\ N * 1 + r = y
    BY <1>1, <1>5, <2>1
  <2> HIDE DEF r
  <2>3. (N * 1 + r) \div N = 1
    BY <1>1, <2>2, QuotientUnique
  <2>4. Bit(y, WordBits) = 1
    BY <2>2, <2>3 DEF Bit
  <2> QED
    BY <1>6, <1>7, <2>4
<1>9. y \in 0 .. N - 1
  BY <1>1, <1>5, <1>8
<1> QED
  BY <1>9 DEF Words, y

\* The lines from p on count up by 2^s, with the mask of the first.
CountUp(ins, p, s, c) ==
  \A j \in 0 .. Pow2[c] - 1 :
    /\ ins[p + j].instr = Counted(ins[p].instr, j, s)
    /\ ins[p + j].mask = ins[p].mask

\* The lines of a run that starts in place do so.
LEMMA RunCounts ==
  ASSUME NEW first \in Seq(Line), NEW ins, MaskedOf(first, ins),
         NEW p \in 1 .. Len(first), NEW q \in 1 .. Len(first),
         NEW s \in Nat, NEW c \in Nat, s + c <= WordBits,
         Blank(ins[p].instr, s, c),
         Pow2[s] \in Words, IsRun(ins, p, q, Pow2[s]), q = p + Pow2[c] - 1
  PROVE  CountUp(ins, p, s, c)
<1> DEFINE x == ins[p].instr
           N == Pow2[WordBits]
           d == Pow2[s]
           m == Pow2[c]
           S == {n \in Nat : n < m => ins[p + n].instr = Counted(x, n, s)}
<1>1. /\ x \in Words /\ x \in Nat /\ N \in Nat \ {0}
      /\ d \in Nat /\ m \in Nat \ {0} /\ p \in Nat
  BY MaskedFacts, WordFacts, Pow2Positive
<1>2. \A n \in 0 .. m - 1 : Counted(x, n, s) \in Words
  BY <1>1, CountedIsWord
<1>3. 0 \in S
  <2>1. p + 0 = p /\ 0 * d = 0 /\ x + 0 = x
    BY <1>1
  <2> QED
    BY <2>1 DEF Counted
<1>4. ASSUME NEW n \in Nat, n \in S PROVE n + 1 \in S
  <2>1. SUFFICES ASSUME n + 1 < m
                 PROVE  ins[p + (n + 1)].instr = Counted(x, n + 1, s)
    OBVIOUS
  <2> DEFINE r == p + n
             y == Counted(x, n, s)
             z == Counted(x, n + 1, s)
  <2>2. r \in p .. q - 1 /\ p + (n + 1) = r + 1 /\ n + 1 \in 0 .. m - 1
    BY <1>1, <2>1
  <2>3. ins[r].instr = y
    BY <1>1, <1>4, <2>1
  <2>4. (ins[r].instr + d) % N = ins[r + 1].instr
    BY <2>2 DEF IsRun, SameRange
  <2>5. y + d = z
    <3>1. (n + 1) * d = n * d + d /\ n * d \in Nat
      BY <1>1
    <3> DEFINE f == n * d
               g == (n + 1) * d
    <3>2. y = x + f /\ z = x + g
      BY DEF Counted
    <3>3. f \in Nat /\ g = f + d
      BY <3>1
    <3> HIDE DEF f, g, y, z, x, d
    <3> QED
      BY <1>1, <3>2, <3>3
  <2>6. z \in 0 .. N - 1
    BY <1>2, <2>2 DEF Words
  <2>7. N \in Nat \ {0} /\ z \in Int
    BY <1>1, <2>6
  <2> HIDE DEF y, z, r, N
  <2>8. z % N = z
    BY <2>6, <2>7, Remainders
  <2>9. ins[r + 1].instr = z
    BY <2>3, <2>4, <2>5, <2>8
  <2> QED
    BY <2>2, <2>9 DEF z
<1>5. \A n \in Nat : n \in S
  <2> HIDE DEF S
  <2> QED
    BY <1>3, <1>4, SetInduction
<1>6. \A r \in p .. q : ins[r].mask = ins[p].mask
  BY RunIsEven
<1>7. ASSUME NEW j \in 0 .. m - 1
      PROVE  ins[p + j].instr = Counted(x, j, s) /\ p + j \in p .. q
  BY <1>1, <1>5, <1>7
<1> QED
  BY <1>6, <1>7 DEF CountUp

\* The words agree in the bits of the word that are not blind.
Agree(w, x, blind) == \A b \in (0 .. WordBits - 1) \ blind : Bit(w, b) = Bit(x, b)

\* What agrees with x in all bits that are not blind, but for u that are clear
\* from bit s on, agrees with x counted up in these.
LEMMA RunWords ==
  ASSUME NEW x \in Words, NEW s \in Nat, NEW u \in Nat, s + u <= WordBits,
         Blank(x, s, u), NEW blind, NEW w \in Words
  PROVE  Agree(w, x, blind \cup Field(s, u))
         <=> \E j \in 0 .. Pow2[u] - 1 : Agree(w, Counted(x, j, s), blind)
<1> DEFINE B == 0 .. WordBits - 1
<1>1. x \in Nat /\ w \in Nat /\ B \subseteq Nat
  BY WordFacts
<1>2. \A j \in 0 .. Pow2[u] - 1 : \A b \in Nat \ Field(s, u) :
        Bit(Counted(x, j, s), b) = Bit(x, b)
  BY <1>1, CountingInPlace DEF Blank
<1> HIDE DEF B
<1>3. ASSUME NEW j \in 0 .. Pow2[u] - 1,
             \A b \in B \ blind : Bit(w, b) = Bit(Counted(x, j, s), b)
      PROVE  \A b \in B \ (blind \cup Field(s, u)) : Bit(w, b) = Bit(x, b)
  BY <1>1, <1>2, <1>3
<1>4. ASSUME \A b \in B \ (blind \cup Field(s, u)) : Bit(w, b) = Bit(x, b)
      PROVE  \E j \in 0 .. Pow2[u] - 1 :
               \A b \in B \ blind : Bit(w, b) = Bit(Counted(x, j, s), b)
  <2>1. PICK j \in 0 .. Pow2[u] - 1 :
          \A b \in Field(s, u) : Bit(Counted(x, j, s), b) = Bit(w, b)
    BY <1>1, CountingReaches DEF Reaches
  <2>2. ASSUME NEW b \in B \ blind
        PROVE  Bit(w, b) = Bit(Counted(x, j, s), b)
    BY <1>1, <1>2, <1>4, <2>1, <2>2
  <2> QED
    BY <2>2
<1> QED
  BY <1>3, <1>4 DEF B, Agree

\* The bits that are masked for a run of distance d.
AddedMask(d, vb) == {(k + (Log2(d) - 1)) % WordBits : k \in 0 .. vb - 1}

LEMMA AddedInWord ==
  ASSUME NEW d \in Words, NEW vb \in Int
  PROVE  AddedMask(d, vb) \in Masks
<1>1. WordBits \in Nat \ {0} /\ d \in Nat /\ d <= Pow2[WordBits]
  BY WordFacts
<1>2. BitLength(d) \in Nat
  BY <1>1, BitLengthFacts
<1>3. ASSUME NEW k \in 0 .. vb - 1
      PROVE  (k + (Log2(d) - 1)) % WordBits \in 0 .. WordBits - 1
  <2> DEFINE x == k + (Log2(d) - 1)
  <2>1. x \in Int
    BY <1>2 DEF Log2
  <2> HIDE DEF x
  <2>2. x % WordBits \in 0 .. WordBits - 1
    BY <1>1, <2>1, Remainders
  <2> QED
    BY <2>2 DEF x
<1> QED
  BY <1>3 DEF AddedMask, Masks

\* These are the bit below the distance, and all but one of those that the
\* code counted.
LEMMA AddedFacts ==
  ASSUME NEW s \in Nat, NEW u \in Nat, s + u <= WordBits, s < WordBits
  PROVE  AddedMask(Pow2[s], u + 1) = {(s - 1) % WordBits} \cup Field(s, u)
<1>1. WordBits \in Nat \ {0} /\ s \in 0 .. WordBits
  BY WordFacts
<1>2. Log2(Pow2[s]) = s
  <2>1. BitLength(Pow2[s]) = s + 1
    BY <1>1, BitLengthPow2
  <2> QED
    BY <2>1 DEF Log2
<1>3. (u + 1) - 1 = u
  OBVIOUS
<1>4. AddedMask(Pow2[s], u + 1) = {(k + (s - 1)) % WordBits : k \in 0 .. u}
  BY <1>2, <1>3 DEF AddedMask
<1>5. ASSUME NEW k \in 1 .. u
      PROVE  (k + (s - 1)) % WordBits = s + (k - 1)
  <2> DEFINE x == k + (s - 1)
  <2>1. x \in Int /\ x \in 0 .. WordBits - 1 /\ x = s + (k - 1)
    BY <1>1
  <2> HIDE DEF x
  <2>2. x % WordBits = x
    BY <1>1, <2>1, Remainders
  <2> QED
    BY <2>1, <2>2 DEF x
<1>6. 0 + (s - 1) = s - 1
  OBVIOUS
<1>7. ASSUME NEW b \in {(k + (s - 1)) % WordBits : k \in 0 .. u}
      PROVE  b \in {(s - 1) % WordBits} \cup Field(s, u)
  <2>1. PICK k \in 0 .. u : b = (k + (s - 1)) % WordBits
    OBVIOUS
  <2>2. CASE k = 0
    BY <1>6, <2>1, <2>2
  <2>3. CASE k # 0
    <3>1. k \in 1 .. u
      BY <2>3
    <3>2. b = s + (k - 1)
      BY <1>5, <2>1, <3>1
    <3> QED
      BY <3>1, <3>2 DEF Field
  <2> QED
    BY <2>2, <2>3
<1>8. ASSUME NEW b \in {(s - 1) % WordBits} \cup Field(s, u)
      PROVE  b \in {(k + (s - 1)) % WordBits : k \in 0 .. u}
  <2>1. CASE b = (s - 1) % WordBits
    <3>1. 0 \in 0 .. u
      OBVIOUS
    <3> QED
      BY <1>6, <2>1, <3>1
  <2>2. CASE b \in Field(s, u)
    <3> DEFINE k == (b - s) + 1
    <3>1. k \in 1 .. u /\ k \in 0 .. u /\ s + (k - 1) = b
      BY <2>2 DEF Field
    <3> HIDE DEF k
    <3>2. (k + (s - 1)) % WordBits = b
      BY <1>5, <3>1
    <3> QED
      BY <3>1, <3>2
  <2> QED
    BY <2>1, <2>2
<1> QED
  BY <1>4, <1>7, <1>8

\* How many of 2^c lines stay: all but one of the vb bits that are added
\* count lines.
LEMMA KeptFacts ==
  ASSUME NEW c \in Nat, NEW share, NEW vb,
         (share = 2 /\ vb = c) \/ (share = 4 /\ vb = c - 1)
  PROVE  /\ vb <= 0 => Pow2[c] < share
         /\ vb > 0 => Pow2[c] >= share /\ Pow2[c] \div share = Pow2[vb - 1]
<1>1. Pow2[0] = 1 /\ \A k \in Nat : Pow2[k + 1] = 2 * Pow2[k] /\ Pow2[k] \in Nat \ {0}
  BY Pow2Steps, Pow2Positive
<1>2. CASE vb <= 0
  <2>1. c = 0 \/ (c = 1 /\ share = 4)
    BY <1>2
  <2>2. Pow2[0 + 1] = 2 * Pow2[0] /\ 0 + 1 = 1
    BY <1>1
  <2>3. Pow2[c] < share
    BY <1>1, <2>1, <2>2
  <2> QED
    BY <1>2, <2>3
<1>3. CASE vb > 0
  <2> DEFINE k == vb - 1
             m == Pow2[k]
  <2>1. k \in Nat /\ ((c = k + 1 /\ share = 2) \/ (c = (k + 1) + 1 /\ share = 4))
    BY <1>3
  <2> HIDE DEF k
  <2>2. m \in Nat \ {0} /\ Pow2[k + 1] = 2 * m /\ Pow2[(k + 1) + 1] = 2 * (2 * m)
    <3>1. k + 1 \in Nat
      BY <2>1
    <3> QED
      BY <1>1, <2>1, <3>1
  <2> HIDE DEF m
  <2>3. Pow2[c] = share * m + 0 /\ share \in Nat \ {0} /\ 0 \in 0 .. share - 1
    BY <2>1, <2>2
  <2>4. (share * m + 0) \div share = m
    BY <2>2, <2>3, QuotientUnique
  <2>5. Pow2[c] >= share
    BY <2>1, <2>2
  <2> QED
    BY <1>3, <2>3, <2>4, <2>5 DEF m, k
<1>4. vb \in Int
  OBVIOUS
<1> QED
  BY <1>2, <1>3, <1>4

\* The entry for 2^c lines from p to q that form a run, or for a single line.
LEMMA EntryIsExact ==
  ASSUME NEW first \in Seq(Line), NEW ins, MaskedOf(first, ins),
         NEW p \in 1 .. Len(first), NEW q \in 1 .. Len(first),
         NEW c \in 0 .. WordBits, q = p + Pow2[c] - 1,
         NEW d \in Words, IsRun(ins, p, q, d),
         NEW vb, vb = IF Joins(ins, d, q) THEN c ELSE c - 1,
         NEW e, e.from = p, e.to = q, e.instr = ins[p].instr,
         e.mask = ins[p].mask \cup AddedMask(d, vb)
  PROVE  EntryExact(ins, e) /\ e.mask \in Masks
<1> DEFINE count == e.to - e.from + 1
           share == IF Whole(ins, e) THEN 4 ELSE 2
           kept == IF count < share THEN 1 ELSE count \div share
           blurred == IF count < share THEN {}
                      ELSE {(Exponent(Difference(ins, e.from)) - 1) % WordBits}
           Of(w, r) == Denotes([instr |-> ins[r].instr,
                                mask |-> ins[r].mask \cup blurred], w)
<1>1. /\ Len(first) \in Nat /\ Len(ins) = Len(first)
      /\ \A r \in 1 .. Len(first) :
           /\ ins[r].mask \in Masks /\ ins[r].instr \in Words
  BY MaskedFacts
<1>2. /\ WordBits \in Nat \ {0} /\ c \in Nat /\ Pow2[c] \in Nat \ {0}
      /\ vb \in Int
  BY WordFacts, Pow2Positive
<1>3. count = Pow2[c] /\ p <= q /\ (c # 0 => p < q) /\ (c = 0 => p = q)
  <2> DEFINE m == Pow2[c]
  <2>1. c # 0 => m >= 2
    <3>1. 1 <= c => Pow2[1] <= Pow2[c]
      BY <1>2, Pow2Order
    <3>2. Pow2[0] = 1 /\ Pow2[0 + 1] = 2 * Pow2[0]
      BY Pow2Steps
    <3> QED
      BY <1>2, <3>1, <3>2
  <2>2. c = 0 => m = 1
    BY Pow2Steps
  <2>3. m \in Nat \ {0} /\ q = p + m - 1
    BY <1>2
  <2> HIDE DEF m
  <2>4. q - p + 1 = m /\ p <= q /\ (c # 0 => p < q) /\ (c = 0 => p = q)
    BY <2>1, <2>2, <2>3
  <2> QED
    BY <2>4 DEF m
<1>4. IsPower2(count)
  BY <1>3 DEF IsPower2
<1>5. e.mask \in Masks
  <2>1. ins[p].mask \in Masks /\ AddedMask(d, vb) \in Masks
    BY <1>1, <1>2, AddedInWord
  <2> QED
    BY <2>1 DEF Masks
<1>6. ASSUME c # 0
      PROVE  /\ \A r \in p .. q - 1 :
                  IsPower2(Difference(ins, p)) /\ GoesOn(ins, e, r)
             /\ Difference(ins, p) = d /\ IsPower2(d)
             /\ Whole(ins, e) <=> ~ Joins(ins, d, q)
  BY <1>3, <1>6, WholeRun
<1>7. \A r \in e.from .. e.to - 1 :
        IsPower2(Difference(ins, e.from)) /\ GoesOn(ins, e, r)
  <2>1. CASE c = 0
    BY <1>3, <2>1
  <2>2. CASE c # 0
    BY <1>6, <2>2
  <2> QED
    BY <2>1, <2>2
<1>8. ASSUME c # 0
      PROVE  /\ (share = 2 /\ vb = c) \/ (share = 4 /\ vb = c - 1)
             /\ vb <= 0 => count < share
             /\ vb > 0 => count >= share /\ count \div share = Pow2[vb - 1]
  <2>1. (share = 2 /\ vb = c) \/ (share = 4 /\ vb = c - 1)
    BY <1>6, <1>8
  <2> HIDE DEF share, count
  <2> HIDE DEF kept, blurred, Of
  <2>2. c \in Nat
    BY <1>2
  <2>3. /\ vb <= 0 => Pow2[c] < share
        /\ vb > 0 => Pow2[c] >= share /\ Pow2[c] \div share = Pow2[vb - 1]
    BY <2>1, <2>2, KeptFacts
  <2> QED
    BY <1>3, <2>1, <2>3
<1>9. vb > 0 => c # 0
  BY <1>2
<1>10. vb <= 0 => count < share
  <2>1. CASE c = 0
    BY <1>3, <2>1, Pow2Steps
  <2>2. CASE c # 0
    BY <1>8, <2>2
  <2> QED
    BY <2>1, <2>2
<1>11. \A w : Denotes(e, w) <=>
               Agree(w, ins[p].instr, ins[p].mask \cup AddedMask(d, vb))
  BY DEF Denotes, Agree
<1>12. \A w, r : Of(w, r) <=> Agree(w, ins[r].instr, ins[r].mask \cup blurred)
  <2> HIDE DEF blurred
  <2> QED
    BY DEF Denotes, Agree
<1>13. ASSUME vb <= 0, NEW w \in Words
       PROVE  Denotes(e, w) <=>
                \E r \in e.from .. e.from + kept - 1 : Of(w, r)
  <2>1. kept = 1 /\ blurred = {}
    BY <1>10, <1>13
  <2>2. AddedMask(d, vb) = {}
    BY <1>2, <1>13 DEF AddedMask
  <2>3. e.from .. e.from + kept - 1 = {p}
    BY <2>1
  <2> HIDE DEF kept, blurred, Of
  <2>4. Denotes(e, w) <=> Of(w, p)
    BY <1>11, <1>12, <2>1, <2>2
  <2> QED
    BY <2>3, <2>4
<1>14. ASSUME vb > 0, InPlace(ins, e), NEW w \in Words
       PROVE  Denotes(e, w) <=>
                \E r \in e.from .. e.from + kept - 1 : Of(w, r)
  <2> DEFINE u == vb - 1
             x == ins[p].instr
             mask == ins[p].mask
  <2>1. c # 0 /\ p < q
    BY <1>3, <1>9, <1>14
  <2>2. Difference(ins, p) = d /\ IsPower2(d)
    BY <1>6, <2>1
  <2>3. PICK s \in 0 .. WordBits : d = Pow2[s]
    BY <2>2 DEF IsPower2
  <2>4. Exponent(d) = s /\ Exponent(count) = c
    BY <1>3, <2>3, ExponentIs
  <2>5. s + c <= WordBits /\ \A b \in s .. s + c - 1 : Bit(x, b) = 0
    BY <2>1, <2>2, <2>4, <1>14 DEF InPlace
  <2>6. s \in Nat /\ u \in Nat /\ u + 1 = vb /\ u < c /\ s + u <= WordBits
        /\ s < WordBits
    <3>1. s \in Nat /\ vb \in Int /\ c \in Nat /\ vb <= c /\ WordBits \in Nat
      BY <1>2
    <3> QED
      BY <1>14, <2>5, <3>1
  <2>7. kept = Pow2[u] /\ blurred = {(s - 1) % WordBits}
    <3>1. ~ (count < share) /\ count \div share = Pow2[u]
      <4>1. count >= share /\ count \div share = Pow2[u]
        BY <1>8, <1>14, <2>1
      <4>2. count \in Nat /\ share \in Nat
        BY <1>2, <1>3
      <4> HIDE DEF count, share, u
      <4> QED
        BY <4>1, <4>2
    <3> HIDE DEF count, share, u
    <3> QED
      BY <2>2, <2>4, <3>1
  <2>8. AddedMask(d, vb) = blurred \cup Field(s, u)
    <3> HIDE DEF u, blurred
    <3>1. AddedMask(Pow2[s], u + 1) = {(s - 1) % WordBits} \cup Field(s, u)
      BY <2>6, AddedFacts
    <3> QED
      BY <2>3, <2>6, <2>7, <3>1
  <2>9. Blank(x, s, u)
    <3>1. Field(s, u) \subseteq s .. s + c - 1
      BY <1>2, <2>6 DEF Field
    <3> QED
      BY <2>5, <3>1 DEF Blank
  <2>10. Pow2[u] \in Nat \ {0} /\ Pow2[u] <= Pow2[c]
    BY <1>2, <2>6, Pow2Positive, Pow2Order
  <2>11. \A j \in 0 .. Pow2[u] - 1 :
           /\ ins[p + j].instr = Counted(x, j, s) /\ ins[p + j].mask = mask
           /\ p + j \in 1 .. Len(first)
    <3>1. Blank(ins[p].instr, s, c)
      BY <2>5 DEF Blank, Field
    <3>2. CountUp(ins, p, s, c)
      BY <1>2, <2>3, <2>5, <2>6, <3>1, RunCounts
    <3> HIDE DEF u
    <3>3. ASSUME NEW j \in 0 .. Pow2[u] - 1
          PROVE  j \in 0 .. Pow2[c] - 1 /\ p + j \in 1 .. Len(first)
      <4> DEFINE m == Pow2[c]
                 l == Pow2[u]
      <4>1. j \in 0 .. l - 1 /\ l \in Nat /\ m \in Nat /\ l <= m
            /\ q = p + m - 1 /\ q <= Len(first)
        BY <1>1, <1>2, <2>10
      <4> HIDE DEF m, l
      <4>2. j \in 0 .. m - 1 /\ p + j \in 1 .. Len(first)
        BY <1>1, <4>1
      <4> QED
        BY <4>2 DEF m
    <3> QED
      BY <3>2, <3>3 DEF CountUp
  <2> DEFINE blind == mask \cup blurred
  <2> HIDE DEF u, blurred, kept, Of
  <2>12. Agree(w, x, blind \cup Field(s, u))
         <=> \E j \in 0 .. Pow2[u] - 1 : Agree(w, Counted(x, j, s), blind)
    <3>1. x \in Words
      BY <1>1
    <3> HIDE DEF blind, x
    <3> QED
      BY <1>14, <2>6, <2>9, <3>1, RunWords
  <2>13. Denotes(e, w) <=> Agree(w, x, blind \cup Field(s, u))
    <3>1. blind \cup Field(s, u) = mask \cup AddedMask(d, vb)
      BY <2>8
    <3> HIDE DEF blind
    <3> QED
      BY <1>11, <3>1
  <2>14. ASSUME NEW j \in 0 .. Pow2[u] - 1
         PROVE  Of(w, p + j) <=> Agree(w, Counted(x, j, s), blind)
    BY <1>12, <2>11
  <2>15. (\E r \in e.from .. e.from + kept - 1 : Of(w, r)) <=>
           \E j \in 0 .. Pow2[u] - 1 : Of(w, p + j)
    <3> DEFINE l == Pow2[u]
    <3>1. l \in Nat /\ kept = l /\ p \in Nat
      BY <2>7, <2>10
    <3> HIDE DEF l
    <3>2. ASSUME NEW r \in p .. p + l - 1
          PROVE  \E j \in 0 .. l - 1 : r = p + j
      <4>1. r - p \in 0 .. l - 1 /\ r = p + (r - p)
        BY <3>1
      <4> QED
        BY <4>1
    <3>3. ASSUME NEW j \in 0 .. l - 1 PROVE p + j \in p .. p + l - 1
      BY <3>1
    <3> QED
      BY <3>1, <3>2, <3>3 DEF l
  <2> HIDE DEF blind, x, mask
  <2> QED
    BY <2>12, <2>13, <2>14, <2>15
<1>15. ASSUME InPlace(ins, e) PROVE WordsOfEntry(ins, e)
  <2>1. \A w \in Words : Denotes(e, w) <=>
          \E r \in e.from .. e.from + kept - 1 : Of(w, r)
    <3> HIDE DEF kept, Of
    <3> QED
      BY <1>2, <1>13, <1>14, <1>15
  <2> QED
    BY <2>1 DEF WordsOfEntry
<1> HIDE DEF count
<1> QED
  BY <1>4, <1>5, <1>7, <1>15 DEF EntryExact, count

\* The entry of an iteration stands for a run.
LEMMA TakenIsRun ==
  ASSUME NEW list \in Inputs, NEW first, LinesOf(list, first),
         NEW ins, MaskedOf(first, ins), NEW p \in 1 .. Len(ins),
         NEW d, NEW joined,
         joined = {r \in p .. Len(ins) - 1 : IsPower2(d) /\ SameRange(ins, d, r)},
         NEW end, end = RunEnd(p, ins, joined), NEW steps, steps = end - p,
         NEW vb, vb = AddedBits(steps),
         NEW q, q = LastTaken(end, steps, vb)
  PROVE  /\ \E c \in 0 .. WordBits :
              /\ q = p + Pow2[c] - 1
              /\ vb = IF Joins(ins, d, q) THEN c ELSE c - 1
         /\ q \in p .. Len(ins)
         /\ IsRun(ins, p, q, d)
<1>1. /\ first \in Seq(Line) /\ Len(first) \in 1 .. Len(list)
      /\ Len(list) \in Nat /\ Len(list) <= Pow2[WordBits]
  BY LinesBound, InputFacts
<1>2. Len(ins) = Len(first)
  BY <1>1, MaskedFacts
<1> DEFINE L == Len(ins)
<1>3. L \in Nat /\ L <= Pow2[WordBits] /\ p \in 1 .. L
  BY <1>1, <1>2, WordFacts
<1>4. /\ end \in p .. L /\ end \notin joined
      /\ \A r \in p .. end - 1 : r \in joined
  <2>1. Len(ins) \in Nat /\ p \in Nat /\ p <= Len(ins)
    BY <1>3
  <2>2. Len(ins) \notin joined
    BY <2>1
  <2> QED
    BY <2>1, <2>2, RunEndFacts
<1>5. \A r \in p .. L : r \in joined <=> Joins(ins, d, r)
  BY <1>3 DEF Joins
<1> HIDE DEF L
<1>6. steps \in Nat /\ steps < Pow2[WordBits] /\ p + steps = end /\ p \in Nat
  <2> DEFINE N == Pow2[WordBits]
  <2>1. p \in Nat \ {0} /\ end \in Nat /\ p <= end /\ end <= L /\ L <= N
        /\ N \in Nat
    BY <1>3, <1>4, WordFacts
  <2> HIDE DEF N
  <2>2. steps \in Nat /\ steps < N /\ p + steps = end
    BY <1>3, <2>1
  <2> QED
    BY <2>1, <2>2 DEF N
<1>7. PICK c \in 0 .. WordBits :
        /\ LastTaken(end, steps, vb) = p + Pow2[c] - 1
        /\ Pow2[c] <= steps + 1
        /\ vb = IF Pow2[c] = steps + 1 THEN c - 1 ELSE c
  <2>1. TakesPower(p, steps, end, vb)
    BY <1>6, RangeTaken
  <2> QED
    BY <2>1 DEF TakesPower
<1>8. q = p + Pow2[c] - 1
  BY <1>6, <1>7
<1>9. q \in p .. L /\ q <= end /\ (q = end <=> Pow2[c] = steps + 1)
  <2> DEFINE m == Pow2[c]
  <2>1. m \in Nat \ {0} /\ m <= steps + 1 /\ q = p + m - 1
    BY <1>7, <1>8, WordFacts, Pow2Positive
  <2> HIDE DEF m
  <2>2. p <= q /\ q <= end /\ q \in Int /\ (q = end <=> m = steps + 1)
    BY <1>6, <2>1
  <2> QED
    BY <1>3, <1>4, <2>2 DEF m
<1>10. IsRun(ins, p, q, d)
  <2>1. ASSUME NEW r \in p .. q - 1 PROVE r \in p .. end - 1 /\ r \in p .. L
    BY <1>3, <1>4, <1>9
  <2> QED
    BY <1>4, <1>5, <2>1 DEF IsRun, Joins
<1>11. Joins(ins, d, q) <=> q # end
  <2>1. q # end => q \in p .. end - 1
    BY <1>3, <1>4, <1>9
  <2> QED
    BY <1>4, <1>5, <1>9, <2>1
<1>12. vb = IF Joins(ins, d, q) THEN c ELSE c - 1
  BY <1>7, <1>9, <1>11
<1> QED
  BY <1>8, <1>9, <1>10, <1>12 DEF L

-----------------------------------------------------------------------------
(* The inductive invariant. *)

LEMMA ContiguousAppend ==
  ASSUME NEW entries \in Seq(Line), NEW n \in Nat, Contiguous(entries, n),
         NEW e \in Line, e.from = n + 1, e.from <= e.to
  PROVE  /\ Append(entries, e) \in Seq(Line)
         /\ Contiguous(Append(entries, e), e.to)
         /\ Len(entries) \in Nat /\ Len(Append(entries, e)) = Len(entries) + 1
         /\ \A p \in 1 .. Len(entries) : Append(entries, e)[p] = entries[p]
         /\ Append(entries, e)[Len(entries) + 1] = e
<1> DEFINE L == Len(entries)
           more == Append(entries, e)
<1>1. /\ L \in Nat /\ DOMAIN entries = 1 .. L
      /\ more \in Seq(Line) /\ Len(more) = L + 1 /\ DOMAIN more = 1 .. L + 1
      /\ \A p \in 1 .. L : more[p] = entries[p]
      /\ more[L + 1] = e
  BY LenProperties, AppendProperties
<1> HIDE DEF L, more
<1>2. more # <<>>
  <2>1. Len(<<>>) = 0
    BY EmptySeq
  <2> QED
    BY <1>1, <2>1
<1>3. n = IF L = 0 THEN 0 ELSE entries[L].to
  <2>1. entries = <<>> <=> L = 0
    BY EmptySeq DEF L
  <2> QED
    BY <2>1 DEF Contiguous, L
<1>4. ASSUME NEW p \in 1 .. L + 1
      PROVE  /\ more[p].from <= more[p].to
             /\ more[p].from = IF p = 1 THEN 1 ELSE more[p - 1].to + 1
  <2>1. CASE p = L + 1
    <3>1. p = 1 <=> L = 0
      BY <1>1, <2>1
    <3>2. L # 0 => p - 1 = L /\ L \in 1 .. L
      BY <1>1, <2>1
    <3> QED
      BY <1>1, <1>3, <2>1, <3>1, <3>2
  <2>2. CASE p # L + 1
    <3>1. p \in 1 .. L /\ (p # 1 => p - 1 \in 1 .. L)
      BY <1>1, <2>2
    <3>2. /\ entries[p].from <= entries[p].to
          /\ entries[p].from = IF p = 1 THEN 1 ELSE entries[p - 1].to + 1
      BY <1>1, <3>1 DEF Contiguous
    <3> QED
      BY <1>1, <3>1, <3>2
  <2> QED
    BY <2>1, <2>2
<1>5. more[Len(more)].to = e.to
  BY <1>1
<1> QED
  BY <1>1, <1>2, <1>4, <1>5 DEF Contiguous, L, more

\* All that was read of the input stands in a line of firstOutput.
FirstInv ==
  /\ tool \in {"firstPass", "rangeCompress", "done"}
  /\ inputData \in Inputs
  /\ delta \in Words
  /\ firstOutput \in Seq(Line)
  /\ \A p \in 1 .. Len(firstOutput) : LineOf(inputData, firstOutput[p])
  /\ IF tool = "firstPass"
       THEN /\ i \in 1 .. Len(inputData) + 1
            /\ i < Len(inputData) => delta = inputData[i + 1] - inputData[i]
            /\ Contiguous(firstOutput, i - 1)
       ELSE Contiguous(firstOutput, Len(inputData))

\* All that was read of the lines stands in an entry of the output.
RangeInv ==
  IF tool = "firstPass"
    THEN output = <<>>
    ELSE /\ MaskedOf(firstOutput, instructions)
         /\ i \in 1 .. Len(firstOutput) + 1
         /\ tool = "done" => i = Len(firstOutput) + 1
         /\ output \in Seq(Line)
         /\ Contiguous(output, i - 1)
         /\ \A p \in 1 .. Len(output) : EntryExact(instructions, output[p])

Inv == FirstInv /\ RangeInv

\* The difference of two neighbours is a word.
LEMMA GapIsWord ==
  ASSUME NEW list \in Inputs, NEW p \in 1 .. Len(list) - 1
  PROVE  list[p + 1] - list[p] \in Words
<1> DEFINE a == list[p]
           b == list[p + 1]
<1>1. Len(list) \in Nat
  BY InputFacts
<1>2. p \in 1 .. Len(list) /\ p + 1 \in 1 .. Len(list)
  BY <1>1
<1>3. a \in Nat /\ b \in Nat /\ b < Pow2[WordBits] /\ a < b
  BY <1>2, InputFacts
<1> HIDE DEF a, b
<1>4. b - a \in 0 .. Pow2[WordBits] - 1
  BY <1>3, WordFacts
<1> QED
  BY <1>4 DEF Words, a, b

LEMMA InitInv ==
  ASSUME Init
  PROVE  Inv
<1>1. /\ tool = "firstPass" /\ inputData \in Inputs /\ i = 1
      /\ delta = inputData[2] - inputData[1]
      /\ firstOutput = <<>> /\ output = <<>>
  BY DEF Init
<1>2. Len(inputData) \in Nat /\ Len(inputData) >= 2
  BY <1>1, InputFacts
<1>3. delta \in Words /\ delta = inputData[i + 1] - inputData[i]
  <2>1. 1 \in 1 .. Len(inputData) - 1 /\ 1 + 1 = 2
    BY <1>2
  <2>2. inputData[1 + 1] - inputData[1] \in Words
    BY <1>1, <2>1, GapIsWord
  <2> QED
    BY <1>1, <2>1, <2>2
<1>4. firstOutput \in Seq(Line) /\ Len(firstOutput) = 0
  BY <1>1, EmptySeq
<1>5. Contiguous(firstOutput, i - 1)
  BY <1>1, <1>4 DEF Contiguous
<1>6. i \in 1 .. Len(inputData) + 1
  BY <1>1, <1>2
<1>7. FirstInv
  BY <1>1, <1>3, <1>4, <1>5, <1>6 DEF FirstInv
<1> QED
  BY <1>1, <1>7 DEF Inv, RangeInv

LEMMA FirstPassInv ==
  ASSUME Inv, FirstPass
  PROVE  Inv' /\ tool' = tool /\ i' > i
<1> DEFINE joined == Joined(inputData, i, delta)
           taken == Taken(RunEnd(i, inputData, joined) - i)
           variableBits == BitLength(taken) - 1
           deltaBitShift == BitLength(delta) - 1
           next == i + taken
           e == [instr |-> inputData[i],
                 mask |-> {k + deltaBitShift : k \in 0 .. variableBits - 1},
                 from |-> i, to |-> next - 1]
<1>1. /\ tool = "firstPass" /\ i <= Len(inputData)
      /\ firstOutput' = Append(firstOutput, e)
      /\ i' = next
      /\ delta' = IF next < Len(inputData)
                    THEN inputData[next + 1] - inputData[next] ELSE delta
      /\ tool' = tool /\ inputData' = inputData
      /\ output' = output
  BY DEF FirstPass, Joined
<1>2. /\ inputData \in Inputs /\ delta \in Words
      /\ firstOutput \in Seq(Line)
      /\ \A p \in 1 .. Len(firstOutput) : LineOf(inputData, firstOutput[p])
      /\ i \in 1 .. Len(inputData) + 1
      /\ i < Len(inputData) => delta = inputData[i + 1] - inputData[i]
      /\ Contiguous(firstOutput, i - 1)
      /\ output = <<>>
  BY <1>1 DEF Inv, FirstInv, RangeInv
<1>3. Len(inputData) \in Nat /\ i \in 1 .. Len(inputData) /\ inputData[i] \in Words
  BY <1>1, <1>2, InputFacts
<1>4. PICK v \in 0 .. WordBits, s \in 0 .. WordBits :
        /\ taken = Pow2[v] /\ BitLength(taken) - 1 = v
        /\ i + Pow2[v] - 1 <= Len(inputData)
        /\ {k + (BitLength(delta) - 1) : k \in 0 .. v - 1} = s .. s + v - 1
        /\ s + v <= WordBits
        /\ Steps(inputData, i, s, v)
  <2>1. i < Len(inputData) => delta = inputData[i + 1] - inputData[i]
    BY <1>2
  <2>2. TakesRun(inputData, i, delta, taken)
    BY <1>2, <1>3, <2>1, FirstPassRun
  <2> HIDE DEF taken
  <2> QED
    BY <2>2 DEF TakesRun
<1>5. Pow2[v] \in Nat \ {0} /\ v \in Nat /\ s \in Nat /\ WordBits \in Nat
  BY WordFacts, Pow2Positive
<1>6. /\ e.instr = inputData[i] /\ e.mask = s .. s + v - 1
      /\ e.from = i /\ e.to = i + Pow2[v] - 1 /\ next = e.to + 1
  <2>1. e.mask = s .. s + v - 1
    BY <1>4
  <2>2. e.to = i + Pow2[v] - 1
    <3>1. taken = Pow2[v]
      BY <1>4
    <3> HIDE DEF taken
    <3>2. next = i + Pow2[v]
      BY <3>1
    <3> HIDE DEF next
    <3>3. e.to = next - 1
      OBVIOUS
    <3> HIDE DEF e
    <3> QED
      BY <1>3, <1>5, <3>2, <3>3
  <2>3. next = e.to + 1
    BY <1>3, <1>4, <1>5
  <2> QED
    BY <2>1, <2>2, <2>3
<1>7. e \in Line
  <2>1. s .. s + v - 1 \in Masks
    BY <1>4, <1>5 DEF Masks
  <2>2. e.to \in Nat
    BY <1>3, <1>5, <1>6
  <2>3. next - 1 \in Nat
    BY <2>2
  <2>4. {k + deltaBitShift : k \in 0 .. variableBits - 1} \in Masks
    BY <1>6, <2>1
  <2> QED
    BY <1>3, <2>3, <2>4 DEF Line
<1> HIDE DEF e, next, taken, joined
<1>8. LineOf(inputData, e)
  BY <1>3, <1>4, <1>6, <1>7 DEF LineOf
<1>9. e.to \in e.from .. Len(inputData) /\ e.from = (i - 1) + 1 /\ i - 1 \in Nat
      /\ e.from <= e.to /\ e.to \in Nat
  BY <1>3, <1>4, <1>5, <1>6
<1>10. /\ firstOutput' \in Seq(Line)
       /\ Contiguous(firstOutput', e.to)
       /\ Len(firstOutput) \in Nat
       /\ Len(firstOutput') = Len(firstOutput) + 1
       /\ \A p \in 1 .. Len(firstOutput) : firstOutput'[p] = firstOutput[p]
       /\ firstOutput'[Len(firstOutput) + 1] = e
  BY <1>1, <1>2, <1>7, <1>9, ContiguousAppend
<1>11. \A p \in 1 .. Len(firstOutput') : LineOf(inputData, firstOutput'[p])
  <2>1. ASSUME NEW p \in 1 .. Len(firstOutput'), p # Len(firstOutput) + 1
        PROVE  p \in 1 .. Len(firstOutput)
    BY <1>10, <2>1
  <2> QED
    BY <1>2, <1>8, <1>10, <2>1
<1>12. i' \in 1 .. Len(inputData) + 1 /\ i' - 1 = e.to /\ i' > i
  BY <1>1, <1>3, <1>6, <1>9
<1>13. delta' \in Words
       /\ (i' < Len(inputData) => delta' = inputData[i' + 1] - inputData[i'])
  <2>1. CASE next < Len(inputData)
    <3>1. next \in 1 .. Len(inputData) - 1
      BY <1>1, <1>3, <1>12, <2>1
    <3> QED
      BY <1>1, <1>2, <2>1, <3>1, GapIsWord
  <2>2. CASE ~ (next < Len(inputData))
    BY <1>1, <1>2, <2>2
  <2> QED
    BY <2>1, <2>2
<1>14. FirstInv'
  BY <1>1, <1>2, <1>10, <1>11, <1>12, <1>13 DEF FirstInv
<1>15. RangeInv'
  BY <1>1, <1>2 DEF RangeInv
<1> QED
  BY <1>1, <1>12, <1>14, <1>15 DEF Inv

LEMMA DifferenceIsWord ==
  ASSUME NEW first \in Seq(Line), NEW ins, MaskedOf(first, ins),
         NEW p \in 1 .. Len(first) - 1
  PROVE  Difference(ins, p) \in Words
<1> DEFINE x == ins[p + 1].instr - ins[p].instr
<1>1. Len(first) \in Nat
  BY MaskedFacts
<1>2. p \in 1 .. Len(first) /\ p + 1 \in 1 .. Len(first)
  BY <1>1
<1>3. ins[p].instr \in Nat /\ ins[p + 1].instr \in Nat
  BY <1>2, MaskedFacts
<1>4. x \in Int /\ Pow2[WordBits] \in Nat \ {0}
  BY <1>3, WordFacts
<1>5. Difference(ins, p) = x % Pow2[WordBits]
  BY DEF Difference
<1> HIDE DEF x
<1>6. x % Pow2[WordBits] \in 0 .. Pow2[WordBits] - 1
  BY <1>4, Remainders
<1> QED
  BY <1>5, <1>6 DEF Words

LEMMA LoadInv ==
  ASSUME Inv, Load
  PROVE  Inv'
<1>1. /\ tool = "firstPass" /\ i > Len(inputData)
      /\ tool' = "rangeCompress" /\ i' = 1
      /\ instructions' = [p \in DOMAIN firstOutput |-> Masked(firstOutput[p])]
      /\ IF Len(firstOutput) > 1
           THEN delta' = Difference(instructions', 1) ELSE delta' \in Words
      /\ inputData' = inputData /\ firstOutput' = firstOutput
      /\ output' = output
  BY DEF Load
<1>2. /\ inputData \in Inputs
      /\ firstOutput \in Seq(Line)
      /\ \A p \in 1 .. Len(firstOutput) : LineOf(inputData, firstOutput[p])
      /\ i \in 1 .. Len(inputData) + 1
      /\ Contiguous(firstOutput, i - 1)
      /\ output = <<>>
  BY <1>1 DEF Inv, FirstInv, RangeInv
<1>3. Contiguous(firstOutput, Len(inputData))
  <2>1. Len(inputData) \in Nat
    BY <1>2, InputFacts
  <2>2. i - 1 = Len(inputData)
    BY <1>1, <1>2, <2>1
  <2> QED
    BY <1>2, <2>2
<1>4. MaskedOf(firstOutput, instructions')
  BY <1>1 DEF MaskedOf
<1>5. Len(firstOutput) \in Nat
  BY <1>2, LenProperties
<1>6. delta' \in Words
  <2>1. ASSUME Len(firstOutput) > 1
        PROVE  Difference(instructions', 1) \in Words
    <3>1. 1 \in 1 .. Len(firstOutput) - 1
      BY <1>5, <2>1
    <3> QED
      BY <1>2, <1>4, <3>1, DifferenceIsWord
  <2> QED
    BY <1>1, <2>1
<1>7. FirstInv'
  BY <1>1, <1>2, <1>3, <1>6 DEF FirstInv
<1>8. RangeInv'
  <2>1. output' \in Seq(Line) /\ Len(output') = 0
    BY <1>1, <1>2, EmptySeq
  <2>2. i' \in 1 .. Len(firstOutput) + 1
    BY <1>1, <1>5
  <2>3. Contiguous(output', i' - 1)
    BY <1>1, <1>2, <2>1 DEF Contiguous
  <2> QED
    BY <1>1, <1>4, <2>1, <2>2, <2>3 DEF RangeInv
<1> QED
  BY <1>7, <1>8 DEF Inv

LEMMA RangeCompressInv ==
  ASSUME Inv, RangeCompress
  PROVE  Inv' /\ tool' = tool /\ i' > i
<1> DEFINE joined == {r \in i .. Len(instructions) - 1 :
                        IsPower2(delta) /\ SameRange(instructions, delta, r)}
           end == RunEnd(i, instructions, joined)
           steps == end - i
           vb == AddedBits(steps)
           last == LastTaken(end, steps, vb)
           added == AddedMask(delta, vb)
           e == [instr |-> instructions[i].instr,
                 mask |-> instructions[i].mask \cup added,
                 from |-> i, to |-> last]
<1>1. /\ tool = "rangeCompress" /\ i <= Len(instructions)
      /\ output' = Append(output, e)
      /\ i' = last + 1
      /\ delta' = IF last + 1 < Len(instructions)
                    THEN Difference(instructions, last + 1) ELSE delta
      /\ tool' = tool /\ inputData' = inputData /\ firstOutput' = firstOutput
      /\ instructions' = instructions
  BY DEF RangeCompress, inSameRange, SameRange, AddedBits, AddedMask
<1>2. /\ inputData \in Inputs /\ delta \in Words
      /\ firstOutput \in Seq(Line)
      /\ LinesOf(inputData, firstOutput)
      /\ MaskedOf(firstOutput, instructions)
      /\ i \in 1 .. Len(firstOutput) + 1
      /\ output \in Seq(Line)
      /\ Contiguous(output, i - 1)
      /\ \A p \in 1 .. Len(output) : EntryExact(instructions, output[p])
  BY <1>1 DEF Inv, FirstInv, RangeInv, LinesOf
<1>3. /\ Len(firstOutput) \in Nat /\ Len(instructions) = Len(firstOutput)
      /\ \A p \in 1 .. Len(firstOutput) :
           instructions[p].instr \in Words
  BY <1>2, MaskedFacts
<1>4. i \in 1 .. Len(firstOutput) /\ i \in 1 .. Len(instructions) /\ i \in Nat
  BY <1>1, <1>2, <1>3
<1>5. /\ \E c \in 0 .. WordBits :
           /\ last = i + Pow2[c] - 1
           /\ vb = IF Joins(instructions, delta, last) THEN c ELSE c - 1
      /\ last \in i .. Len(instructions)
      /\ IsRun(instructions, i, last, delta)
  <2> HIDE DEF joined
  <2>1. joined = {r \in i .. Len(instructions) - 1 :
                    IsPower2(delta) /\ SameRange(instructions, delta, r)}
    BY DEF joined
  <2> QED
    BY <1>2, <1>4, <2>1, TakenIsRun
<1> HIDE DEF last, vb
<1>6. PICK c \in 0 .. WordBits :
        /\ last = i + Pow2[c] - 1
        /\ vb = IF Joins(instructions, delta, last) THEN c ELSE c - 1
  BY <1>5
<1>7. last \in 1 .. Len(firstOutput) /\ last \in Nat /\ i <= last
  BY <1>3, <1>4, <1>5
<1>8. /\ e.from = i /\ e.to = last
      /\ e.mask = instructions[i].mask \cup added
      /\ e.instr = instructions[i].instr
  OBVIOUS
<1> HIDE DEF e
<1>9. EntryExact(instructions, e) /\ e.mask \in Masks
  BY <1>2, <1>4, <1>5, <1>6, <1>7, <1>8, EntryIsExact
<1>10. e \in Line
  <2>1. instructions[i].mask \cup added \in Masks
    BY <1>8, <1>9
  <2>2. instructions[i].instr \in Words
    BY <1>3, <1>4
  <2> QED
    BY <1>4, <1>7, <2>1, <2>2 DEF e, Line
<1>11. /\ output' \in Seq(Line)
       /\ Contiguous(output', last)
       /\ Len(output) \in Nat /\ Len(output') = Len(output) + 1
       /\ \A p \in 1 .. Len(output) : output'[p] = output[p]
       /\ output'[Len(output) + 1] = e
  <2>1. i - 1 \in Nat /\ e.from = (i - 1) + 1 /\ e.from <= e.to
    BY <1>4, <1>7, <1>8
  <2>2. Contiguous(Append(output, e), e.to)
    BY <1>2, <1>10, <2>1, ContiguousAppend
  <2> QED
    BY <1>1, <1>2, <1>8, <1>10, <2>1, <2>2, ContiguousAppend
<1>12. \A p \in 1 .. Len(output') : EntryExact(instructions, output'[p])
  <2>1. ASSUME NEW p \in 1 .. Len(output'), p # Len(output) + 1
        PROVE  p \in 1 .. Len(output)
    BY <1>11, <2>1
  <2> QED
    BY <1>2, <1>9, <1>11, <2>1
<1>13. i' \in 1 .. Len(firstOutput) + 1 /\ i' - 1 = last /\ i' > i
  BY <1>1, <1>3, <1>4, <1>7
<1>14. delta' \in Words
  <2>1. ASSUME last + 1 < Len(instructions)
        PROVE  Difference(instructions, last + 1) \in Words
    <3>1. last + 1 \in 1 .. Len(firstOutput) - 1
      BY <1>3, <1>7, <2>1
    <3> QED
      BY <1>2, <3>1, DifferenceIsWord
  <2> QED
    BY <1>1, <1>2, <2>1
<1>15. FirstInv'
  BY <1>1, <1>2, <1>14 DEF FirstInv, LinesOf
<1>16. RangeInv'
  BY <1>1, <1>2, <1>11, <1>12, <1>13 DEF RangeInv
<1> QED
  BY <1>1, <1>13, <1>15, <1>16 DEF Inv

LEMMA FinishInv ==
  ASSUME Inv, Finish
  PROVE  Inv'
<1>1. /\ tool = "rangeCompress" /\ i > Len(instructions)
      /\ tool' = "done" /\ i' = i
      /\ delta' = delta /\ inputData' = inputData
      /\ firstOutput' = firstOutput /\ instructions' = instructions
      /\ output' = output
  BY DEF Finish
<1>2. /\ firstOutput \in Seq(Line) /\ MaskedOf(firstOutput, instructions)
      /\ i \in 1 .. Len(firstOutput) + 1
  BY <1>1 DEF Inv, FirstInv, RangeInv
<1>3. i = Len(firstOutput) + 1
  BY <1>1, <1>2, MaskedFacts
<1>4. FirstInv'
  BY <1>1 DEF Inv, FirstInv
<1>5. RangeInv'
  BY <1>1, <1>3 DEF Inv, RangeInv
<1> QED
  BY <1>4, <1>5 DEF Inv

\* Inv is inductive, and the index only grows within a tool.
LEMMA NextInv ==
  ASSUME Inv, [Next]_vars
  PROVE  Inv' /\ (UNCHANGED vars \/ (tool' = tool => i' > i))
<1>1. CASE FirstPass
  BY <1>1, FirstPassInv
<1>2. CASE Load
  BY <1>2, LoadInv DEF Load
<1>3. CASE RangeCompress
  BY <1>3, RangeCompressInv
<1>4. CASE Finish
  BY <1>4, FinishInv DEF Finish
<1>5. CASE UNCHANGED vars
  BY <1>5 DEF vars, Inv, FirstInv, RangeInv
<1> QED
  BY <1>1, <1>2, <1>3, <1>4, <1>5 DEF Next, Done

LEMMA SpecInv == Spec => []Inv
<1>1. Init => Inv
  BY InitInv
<1>2. Inv /\ [Next]_vars => Inv'
  BY NextInv
<1> QED
  BY <1>1, <1>2, PTL DEF Spec

LEMMA SeqDomain ==
  ASSUME NEW entries \in Seq(Line)
  PROVE  /\ DOMAIN entries = 1 .. Len(entries)
         /\ Len(entries) \in Nat
         /\ \A p \in DOMAIN entries : entries[p] \in Line
  BY LenProperties, ElementOfSeq

LEMMA InvTypes == Inv => TypeOK
<1>1. SUFFICES ASSUME Inv PROVE TypeOK
  OBVIOUS
<1>2. /\ tool \in {"firstPass", "rangeCompress", "done"}
      /\ inputData \in Inputs /\ delta \in Words
      /\ firstOutput \in Seq(Line)
  BY <1>1 DEF Inv, FirstInv
<1>3. Len(inputData) \in Nat
  BY <1>2, InputFacts
<1>4. i \in 1 .. Len(inputData) + 1
  <2>1. CASE tool = "firstPass"
    BY <1>1, <2>1 DEF Inv, FirstInv
  <2>2. CASE tool # "firstPass"
    <3>1. LinesOf(inputData, firstOutput) /\ i \in 1 .. Len(firstOutput) + 1
      BY <1>1, <2>2 DEF Inv, FirstInv, RangeInv, LinesOf
    <3>2. Len(firstOutput) \in 1 .. Len(inputData)
      BY <1>2, <3>1, LinesBound
    <3> QED
      BY <1>3, <3>1, <3>2
  <2> QED
    BY <2>1, <2>2
<1>5. output \in Seq(Line)
  <2>1. output = <<>> \/ output \in Seq(Line)
    BY <1>1 DEF Inv, RangeInv
  <2> QED
    BY <2>1, EmptySeq
<1>6. \A p \in DOMAIN firstOutput : firstOutput[p].mask \in Masks
  BY <1>2, SeqDomain DEF Line
<1>7. \A p \in DOMAIN output :
        output[p].instr \in Words /\ output[p].mask \in Masks
  BY <1>5, SeqDomain DEF Line
<1> QED
  BY <1>2, <1>4, <1>6, <1>7 DEF TypeOK

LEMMA InvFirstPassExact == Inv => FirstPassExact
<1>1. SUFFICES ASSUME Inv PROVE FirstPassExact
  OBVIOUS
<1>2. /\ inputData \in Inputs /\ firstOutput \in Seq(Line)
      /\ \A p \in 1 .. Len(firstOutput) : LineOf(inputData, firstOutput[p])
      /\ Contiguous(firstOutput,
                    IF tool = "firstPass" THEN i - 1 ELSE Len(inputData))
  BY <1>1 DEF Inv, FirstInv
<1>3. ASSUME NEW p \in DOMAIN firstOutput
      PROVE  LET e == firstOutput[p]
                 Size == Pow2[Cardinality(e.mask)]
             IN /\ e.to - e.from + 1 = Size
                /\ Aligned(e) => \A q \in e.from .. e.to :
                                   Denotes(e, inputData[q])
  <2>1. LineOf(inputData, firstOutput[p])
    BY <1>2, SeqDomain
  <2> QED
    BY <1>2, <2>1, LineFacts
<1> QED
  BY <1>2, <1>3 DEF FirstPassExact

LEMMA InvRangeExact == Inv => RangeExact
<1>1. SUFFICES ASSUME Inv PROVE RangeExact
  OBVIOUS
<1>2. CASE tool = "firstPass"
  <2>1. output = <<>>
    BY <1>1, <1>2 DEF Inv, RangeInv
  <2>2. DOMAIN output = {}
    BY <2>1
  <2> QED
    BY <1>2, <2>2 DEF RangeExact
<1>3. CASE tool # "firstPass"
  <2>1. /\ firstOutput \in Seq(Line) /\ MaskedOf(firstOutput, instructions)
        /\ tool = "done" => i = Len(firstOutput) + 1
        /\ output \in Seq(Line)
        /\ Contiguous(output, i - 1)
        /\ \A p \in 1 .. Len(output) : EntryExact(instructions, output[p])
    BY <1>1, <1>3 DEF Inv, FirstInv, RangeInv
  <2>2. Contiguous(output, IF tool = "done" THEN Len(instructions) ELSE i - 1)
    <3>1. Len(instructions) = Len(firstOutput) /\ Len(firstOutput) \in Nat
      BY <2>1, MaskedFacts
    <3>2. tool = "done" => i - 1 = Len(instructions)
      BY <2>1, <3>1
    <3> QED
      BY <2>1, <3>2
  <2>3. \A p \in DOMAIN output : EntryExact(instructions, output[p])
    BY <2>1, SeqDomain
  <2> QED
    BY <2>2, <2>3 DEF RangeExact
<1> QED
  BY <1>2, <1>3

-----------------------------------------------------------------------------
(* The theorems. *)

\* The variables keep their types: in particular the masks that rangeCompress
\* computes with shifts by Log2(delta) - 1 stay within the word.
THEOREM TypeCorrect == Spec => []TypeOK
  BY SpecInv, InvTypes, PTL

\* firstPass.py covers the list without a gap, an entry being as many words
\* as it stands for, and just these if its run is aligned.
THEOREM FirstPassExactThm == Spec => []FirstPassExact
  BY SpecInv, InvFirstPassExact, PTL

\* rangeCompress covers its lines without a gap, takes 2^n of them together
\* that have one mask and are 2^s apart, and the entry denotes exactly the
\* words of the first half or quarter, whatever their bit s - 1, if the run
\* starts where the bits it counts in are clear; of a single line, and of the
\* few of which no bit is added, the words of the first.
THEOREM RangeExactThm == Spec => []RangeExact
  BY SpecInv, InvRangeExact, PTL

\* An iteration of either main loop moves the index on, so both end.
THEOREM AdvancesThm == Spec => Advances
<1>1. Inv /\ [Next]_vars => (tool' = tool => i' > i) \/ UNCHANGED vars
  BY NextInv
<1>2. Inv /\ [Next]_vars => [tool' = tool => i' > i]_vars
  BY <1>1
<1> QED
  BY <1>2, SpecInv, PTL DEF Spec, Advances

=============================================================================
