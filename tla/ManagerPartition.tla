-------------------------- MODULE ManagerPartition --------------------------
(***************************************************************************)
(* The division of First..Last among the units, for every range and every  *)
(* number of units: the parts lie inside the range, are never empty, do    *)
(* not overlap and leave nothing out, provided the range has more than one *)
(* instruction or there is one unit only.  And what exhaustive does on a   *)
(* part that does not wrap around.  Both scans rest on these facts.        *)
(***************************************************************************)
EXTENDS ScannerManager, TLAPS

(* Arithmetic of the constants. *)

\* There is at least one unit, and every unit gets a share of the range.
LEMMA UnitsFacts ==
  /\ numThreads \in Nat \ {0}
  /\ instrPerThread \in Nat
  /\ 0 \in Units
<1>1. /\ numThreads \in Nat \ {0}
      /\ 0 \in Units
  BY ManagerAssumption, FeederAssumption DEF numThreads, Units, instr_t
<1>2. Last - First \in Nat
  BY ManagerAssumption, FeederAssumption DEF instr_t
<1>3. \A x \in Nat, y \in Nat \ {0} : x \div y \in Nat
  OBVIOUS
<1> QED
  BY <1>1, <1>2, <1>3 DEF instrPerThread

\* instr_t arithmetic stays in instr_t.
LEMMA PlusType ==
  ASSUME NEW k \in Nat, NEW d \in Nat
  PROVE  Plus(k, d) \in instr_t
BY FeederAssumption DEF Plus, instr_t

\* basicAnalysis writes well-formed lines.
LEMMA AnalysisType ==
  ASSUME NEW k \in instr_t, NEW p, NEW c \in Causes
  PROVE  basicAnalysis(k, p, c) \subseteq Line
BY DEF basicAnalysis, Report, Line

-----------------------------------------------------------------------------
(* The parts. *)

\* Multiplication by a share, as the constructor's loop adds it up.
LEMMA MulFacts ==
  ASSUME NEW a \in Int, NEW b \in Nat
  PROVE  /\ (a + 1) * b = a * b + b
         /\ a * b \in Int
         /\ a >= 0 => a * b >= 0
OBVIOUS

LEMMA MulMonotone ==
  ASSUME NEW a \in Nat, NEW c \in Nat, NEW b \in Nat, a <= c
  PROVE  a * b <= c * b
<1>1. c * b = a * b + (c - a) * b
  OBVIOUS
<1>2. (c - a) * b >= 0
  BY c - a \in Nat, MulFacts
<1> QED
  BY <1>1, <1>2, MulFacts

\* Integer division.
LEMMA DivFacts ==
  ASSUME NEW x \in Nat, NEW n \in Nat \ {0}
  PROVE  /\ x \div n \in Nat
         /\ n * (x \div n) <= x
         /\ x < n * (x \div n) + n
         /\ n <= x => x \div n >= 1
<1>1. x \div n \in Nat
  OBVIOUS
<1>2. n * (x \div n) <= x
  OBVIOUS
<1>3. x < n * (x \div n) + n
  OBVIOUS
<1>4. n <= x => x \div n >= 1
  OBVIOUS
<1> QED
  BY <1>1, <1>2, <1>3, <1>4

\* The parts of the range, in numbers.
LEMMA ShareFacts ==
  ASSUME ProperRange
  PROVE  /\ numThreads \in Nat \ {0} /\ instrPerThread \in Nat
         /\ numThreads * instrPerThread <= Last - First
         /\ numThreads = 1 \/ instrPerThread >= 1
<1>1. First \in Nat /\ Last \in Nat /\ First <= Last /\ ReqThreads \in Nat \ {0}
  BY ManagerAssumption, FeederAssumption DEF instr_t
<1>2. Last - First \in Nat
  BY <1>1
<1>3. numThreads \in Nat \ {0}
  BY UnitsFacts
<1>4. numThreads = 1 \/ numThreads <= Last - First
  BY <1>1 DEF numThreads, ProperRange
<1> QED
  BY <1>2, <1>3, <1>4, DivFacts DEF instrPerThread

\* Every unit has a part, inside the range.
LEMMA PartFacts ==
  ASSUME ProperRange, NEW w \in Units
  PROVE  /\ UnitFirst(w) \in instr_t /\ UnitLast(w) \in instr_t
         /\ First <= UnitFirst(w) /\ UnitFirst(w) <= UnitLast(w)
         /\ UnitLast(w) <= Last
<1>1. First \in Nat /\ Last \in Nat /\ First <= Last /\ InstrMod \in Nat
      /\ Last < InstrMod
  BY ManagerAssumption, FeederAssumption DEF instr_t
<1> DEFINE n == numThreads
           q == instrPerThread
<1>2. /\ n \in Nat \ {0} /\ q \in Nat /\ n * q <= Last - First
      /\ n = 1 \/ q >= 1
  BY ShareFacts
<1>3. w \in Nat /\ w + 1 \in Nat /\ w + 1 <= n
  BY <1>2 DEF Units
<1>4. /\ (w + 1) * q = w * q + q /\ w * q \in Int /\ w * q >= 0
      /\ (w + 1) * q \in Int
  BY <1>2, <1>3, MulFacts
<1>5. (w + 1) * q <= n * q
  BY <1>2, <1>3, MulMonotone
<1>6. w # 0 => q >= 1
  BY <1>2, <1>3
<1>7. UnitFirst(w) = IF w = 0 THEN First ELSE First + w * q + 1
  BY DEF UnitFirst
<1>8. UnitLast(w) = IF w = n - 1 THEN Last ELSE First + (w + 1) * q
  BY DEF UnitLast
<1>9. n * q \in Int
  BY <1>2
<1> HIDE DEF n, q
<1>10. /\ First <= UnitFirst(w) /\ UnitFirst(w) <= UnitLast(w)
       /\ UnitLast(w) <= Last /\ UnitFirst(w) \in Int /\ UnitLast(w) \in Int
  BY <1>1, <1>2, <1>3, <1>4, <1>5, <1>6, <1>7, <1>8, <1>9
<1> QED
  BY <1>1, <1>10 DEF instr_t

\* No instruction belongs to two units.
THEOREM PartsDisjoint ==
  ASSUME ProperRange, NEW v \in Units, NEW w \in Units, v < w
  PROVE  UnitLast(v) < UnitFirst(w)
<1> DEFINE q == instrPerThread
<1>1. First \in Nat /\ q \in Nat /\ numThreads \in Nat
  BY ManagerAssumption, FeederAssumption, ShareFacts DEF instr_t
<1>2. v \in Nat /\ w \in Nat /\ v + 1 <= w /\ v + 1 \in Nat /\ v # numThreads - 1
      /\ w # 0
  BY <1>1 DEF Units
<1>3. (v + 1) * q <= w * q /\ (v + 1) * q \in Int /\ w * q \in Int
  BY <1>1, <1>2, MulMonotone, MulFacts
<1>4. UnitLast(v) = First + (v + 1) * q /\ UnitFirst(w) = First + w * q + 1
  BY <1>2 DEF UnitLast, UnitFirst
<1> HIDE DEF q
<1> QED
  BY <1>1, <1>3, <1>4

\* Every instruction of the range belongs to a unit.
THEOREM PartsCover ==
  ASSUME ProperRange, NEW k \in First .. Last
  PROVE  \E w \in Units : k \in UnitFirst(w) .. UnitLast(w)
<1> DEFINE n == numThreads
           q == instrPerThread
<1>1. First \in Nat /\ Last \in Nat /\ k \in Nat /\ First <= k /\ k <= Last
  BY ManagerAssumption, FeederAssumption DEF instr_t
<1>2. n \in Nat \ {0} /\ q \in Nat /\ (n = 1 \/ q >= 1)
  BY ShareFacts
<1>3. 0 \in Units /\ n - 1 \in Units
  BY <1>2 DEF Units
<1>4. CASE n = 1
  BY <1>1, <1>3, <1>4 DEF UnitFirst, UnitLast
<1>5. CASE n # 1 /\ k = First
  <2>1. UnitFirst(0) = First /\ UnitLast(0) = First + 1 * q
    BY <1>2, <1>5 DEF UnitFirst, UnitLast
  <2>2. 1 * q = q
    BY <1>2
  <2> HIDE DEF n, q
  <2> QED
    BY <1>1, <1>2, <1>3, <1>5, <2>1, <2>2
<1>6. CASE n # 1 /\ k # First
  <2> DEFINE x == k - First - 1
             d == x \div q
  <2>1. x \in Nat /\ q \in Nat \ {0}
    BY <1>1, <1>2, <1>6
  <2>2. d \in Nat /\ q * d <= x /\ x < q * d + q
    BY <2>1, DivFacts
  <2>3. q * d = d * q /\ (d + 1) * q = d * q + q /\ d * q \in Nat
    BY <2>1, <2>2, MulFacts
  <2>4. CASE d < n - 1
    <3>1. d \in Units
      BY <1>2, <2>2, <2>4 DEF Units
    <3>2. UnitFirst(d) = (IF d = 0 THEN First ELSE First + d * q + 1)
          /\ UnitLast(d) = First + (d + 1) * q
      BY <1>2, <2>2, <2>4 DEF UnitFirst, UnitLast
    <3> HIDE DEF d, n, q
    <3>3. k \in UnitFirst(d) .. UnitLast(d)
      BY <1>1, <2>1, <2>2, <2>3, <3>2
    <3> QED
      BY <3>1, <3>3
  <2>5. CASE d >= n - 1
    <3>1. (n - 1) * q <= d * q /\ (n - 1) * q \in Int
      BY <1>2, <2>2, <2>5, MulMonotone, MulFacts, n - 1 \in Nat
    <3>2. UnitFirst(n - 1) = First + (n - 1) * q + 1 /\ UnitLast(n - 1) = Last
      BY <1>2, <1>6 DEF UnitFirst, UnitLast
    <3> HIDE DEF d, n, q
    <3>3. k \in UnitFirst(n - 1) .. UnitLast(n - 1)
      BY <1>1, <1>2, <2>1, <2>2, <2>3, <3>1, <3>2
    <3> QED
      BY <1>3, <3>3
  <2> QED
    BY <1>2, <2>2, <2>4, <2>5
<1> QED
  BY <1>4, <1>5, <1>6

\* Parts are made of instructions.
LEMMA PartType ==
  ASSUME ProperRange, NEW w \in Units, NEW k \in UnitFirst(w) .. UnitLast(w)
  PROVE  k \in instr_t /\ k \in First .. Last
<1>1. /\ UnitFirst(w) \in instr_t /\ UnitLast(w) \in instr_t
      /\ First <= UnitFirst(w) /\ UnitLast(w) <= Last
  BY PartFacts
<1>2. First \in Nat /\ Last \in Nat /\ InstrMod \in Nat
  BY ManagerAssumption, FeederAssumption DEF instr_t
<1> QED
  BY <1>1, <1>2 DEF instr_t

\* An instruction belongs to one unit only.
LEMMA OwnPart ==
  ASSUME ProperRange, NEW v \in Units, NEW w \in Units, v # w,
         NEW k \in UnitFirst(v) .. UnitLast(v)
  PROVE  k \notin UnitFirst(w) .. UnitLast(w)
<1>1. /\ UnitFirst(v) \in Int /\ UnitLast(v) \in Int
      /\ UnitFirst(w) \in Int /\ UnitLast(w) \in Int
  BY PartFacts DEF instr_t
<1>2. v < w \/ w < v
  BY UnitsFacts DEF Units
<1> QED
  BY <1>1, <1>2, PartsDisjoint

-----------------------------------------------------------------------------
(* The search in fetchInstruction is sound and exhaustive on a part that   *)
(* does not wrap around.                                                   *)

\* A fetched instruction lies above the current one, not beyond the last one
\* of the part, and only blacklisted ones are passed over.
LEMMA YieldsFacts ==
  ASSUME NEW c \in instr_t, NEW f \in instr_t, c <= f,
         NEW s \in 0 .. InstrMod - 1, FetchYields(c, f, s)
  PROVE  /\ Plus(c, s + 1) \in c + 1 .. f
         /\ Plus(c, s + 1) \notin Blacklist
         /\ c + 1 .. Plus(c, s + 1) - 1 \subseteq Blacklist
<1>1. c \in Nat /\ f \in Nat /\ InstrMod \in Nat \ {0} /\ f < InstrMod
      /\ s \in Nat /\ s + 1 \in Nat
  BY FeederAssumption DEF instr_t
<1>2. \A e \in 1 .. f - c : Plus(c, e) = c + e
  BY <1>1 DEF Plus
<1>3. c < f
  BY <1>1 DEF FetchYields
<1>4. s + 1 <= f - c
  <2>1. ~ (f - c \in 1 .. s)
    <3>1. f - c \in 1 .. f - c /\ c + (f - c) = f
      BY <1>1, <1>3
    <3> QED
      BY <1>2, <3>1 DEF FetchYields
  <2> QED
    BY <1>1, <1>3, <2>1
<1>5. Plus(c, s + 1) = c + (s + 1)
  BY <1>1, <1>2, <1>4
<1>6. ASSUME NEW k \in c + 1 .. c + s PROVE k \in Blacklist
  <2>1. k - c \in 1 .. s /\ k - c \in 1 .. f - c /\ c + (k - c) = k
    BY <1>1, <1>4
  <2> QED
    BY <1>2, <2>1 DEF FetchYields, search
<1> QED
  BY <1>1, <1>4, <1>5, <1>6 DEF FetchYields, search

\* When there is no next instruction, the rest of the part is blacklisted.
LEMMA FinishesFacts ==
  ASSUME NEW c \in instr_t, NEW f \in instr_t, c <= f,
         NEW s \in 0 .. InstrMod - 1, FetchFinishes(c, f, s)
  PROVE  c + 1 .. f \subseteq Blacklist
<1>1. c \in Nat /\ f \in Nat /\ InstrMod \in Nat \ {0} /\ f < InstrMod
      /\ s \in Nat /\ c < InstrMod /\ s < InstrMod
  BY FeederAssumption DEF instr_t
<1>2. CASE c = f
  BY <1>1, <1>2
<1>3. CASE c # f
  <2>1. \A e \in 1 .. f - c : Plus(c, e) = c + e
    BY <1>1 DEF Plus
  <2>2. Plus(c, s + 1) = f /\ \A e \in 1 .. s + 1 : search(Plus(c, e))
    BY <1>3 DEF FetchFinishes
  <2>3. s + 1 >= f - c
    <3>1. SUFFICES ASSUME s + 1 < f - c PROVE FALSE
      BY <1>1
    <3>2. Plus(c, s + 1) = c + (s + 1)
      BY <1>1, <2>1, <3>1
    <3> QED
      BY <1>1, <2>2, <3>1, <3>2
  <2>4. ASSUME NEW k \in c + 1 .. f PROVE k \in Blacklist
    <3>1. k - c \in 1 .. s + 1 /\ k - c \in 1 .. f - c /\ c + (k - c) = k
      BY <1>1, <2>3
    <3> QED
      BY <2>1, <2>2, <3>1 DEF search
  <2> QED
    BY <2>4
<1> QED
  BY <1>2, <1>3

=============================================================================
