---------------------------- MODULE RiscvProofs ----------------------------
(***************************************************************************)
(* Theorems about RiscvUnit, for every part, blacklist, set of             *)
(* instructions and number of late SIGUSR2.                                *)
(***************************************************************************)
EXTENDS RiscvInvariant, FiniteSetTheorems, WellFoundedInduction, TLAPS

-----------------------------------------------------------------------------
(* The geometry of the memory cage. *)

\* A jump as far as the architecture has them lands in the cage, and so does
\* a read of as many bytes as the instruction has.
THEOREM LandsInCage ==
  ASSUME NEW base \in Nat, NEW bytes \in {2, 4},
         NEW d \in -maxArchOffset .. maxArchOffset - 2
  PROVE  LET target == instructionPointerOf(base, bytes) + d
         IN target .. target + bytes - 1 \subseteq Mapped(base)
<1>1. maxArchOffset \in Nat /\ bytes \in Nat
  BY CageAssumption
<1> QED
  BY <1>1 DEF instructionPointerOf, instructionPage, Mapped, pageSize

\* The filler of the ports with instructions of one length, the longest jump
\* backwards, leaves the page from wherever an instruction comes upon it, and
\* stays in the cage: it faults there.
THEOREM FillerLeavesPage ==
  ASSUME NEW base \in Nat, NEW at \in Executable(base)
  PROVE  at - maxArchOffset \in Mapped(base) \ Executable(base)
<1>1. maxArchOffset \in Nat /\ maxArchOffset >= 4096
  BY CageAssumption DEF pageSize
<1> QED
  BY <1>1 DEF Executable, instructionPage, Mapped, pageSize

\* However the kernel aligned the stack, every handler that is at most a page
\* deep finds the registers where entryHandler has put them: above the
\* handlers' stack, where no frame overwrites them, and inside the mapping.
THEOREM RegistersFound ==
  ASSUME NEW base \in Nat, base % pageSize = 0,
         NEW at \in Top(base) - pageSize .. Top(base) - 1
  PROVE  /\ RecoveryAddress(at) = RecoveryAddress(Top(base) - 1)
         /\ RecoveryAddress(at) >= Top(base)
         /\ RecoveryAddress(at) + 15 \in AltMapped(base)
<1>1. PICK n \in Nat : base = 4096 * n
  BY DEF pageSize
<1>2. PICK q \in Nat, r \in 0 .. 3 : n = 4 * q + r
  <2>1. n = 4 * (n \div 4) + (n % 4) /\ n \div 4 \in Nat /\ n % 4 \in 0 .. 3
    OBVIOUS
  <2> QED
    BY <2>1
<1>3. at \in 16384 * q + 4096 * r + 7 * 4096
             .. 16384 * q + 4096 * r + 8 * 4096 - 1
  BY <1>1, <1>2 DEF Top, pageSize
<1>4. ASSUME NEW s \in 16384 * q + 4096 * r + 7 * 4096
                        .. 16384 * q + 4096 * r + 8 * 4096 - 1
      PROVE  RecoveryAddress(s) =
               16384 * (q + IF r = 0 THEN 2 ELSE 3)
  BY <1>2 DEF RecoveryAddress, pageSize
<1> QED
  BY <1>1, <1>2, <1>3, <1>4 DEF Top, AltMapped, pageSize

-----------------------------------------------------------------------------
(* The encodings a stage visits.  Induction takes the form of a least      *)
(* counterexample.                                                         *)

\* A set of naturals that is not empty has a least element.
LEMMA LeastNatural ==
  ASSUME NEW S \in SUBSET Nat, S # {}
  PROVE  \E m \in S : \A k \in S : m <= k
<1>1. IsWellFoundedOn(OpToRel(<,Nat), Nat)
  BY NatLessThanWellFounded
<1>2. \E m \in S : \A k \in S : ~ (<<k, m>> \in OpToRel(<,Nat))
  BY <1>1, WFMin
<1>3. PICK m \in S : \A k \in S : ~ (<<k, m>> \in OpToRel(<,Nat))
  BY <1>2
<1>4. ASSUME NEW k \in S PROVE m <= k
  <2>1. ~ (k < m) /\ k \in Nat /\ m \in Nat
    BY <1>3 DEF OpToRel
  <2> QED
    BY <2>1
<1> QED
  BY <1>3, <1>4

\* The least of a set of naturals.
LEMMA MinFact ==
  ASSUME NEW S \in SUBSET Nat, S # {}
  PROVE  Min(S) \in S /\ \A k \in S : Min(S) <= k
  BY LeastNatural DEF Min

\* f begins with k and goes through the n encodings after it.
Walk(stage, k, n, f) ==
  /\ f[0] = k
  /\ \A i \in 0 .. n - 1 : f[i + 1] = NextVisited(stage, f[i])

\* The function Visited chooses.
WalkOf(stage, k, n, f) ==
  f = [i \in 0 .. n |-> IF i = 0 THEN k ELSE NextVisited(stage, f[i - 1])]

LEMMA WalkOfWalks ==
  ASSUME NEW stage, NEW k, NEW n \in Nat, NEW f, WalkOf(stage, k, n, f)
  PROVE  Walk(stage, k, n, f)
<1>1. PICK g : g = [i \in 0 .. n |-> IF i = 0 THEN k
                                    ELSE NextVisited(stage, f[i - 1])]
  OBVIOUS
<1>2. f = g
  BY <1>1 DEF WalkOf
<1>3. g[0] = k
  BY <1>1
<1>4. \A i \in 0 .. n - 1 : g[i + 1] = NextVisited(stage, f[i])
  BY <1>1
<1> QED
  BY <1>2, <1>3, <1>4 DEF Walk

LEMMA WalkExists ==
  ASSUME NEW stage, NEW k, NEW n \in Nat
  PROVE  \E f : WalkOf(stage, k, n, f)
<1> DEFINE Without == {m \in Nat : ~ \E f : WalkOf(stage, k, m, f)}
<1>1. SUFFICES ASSUME Without # {} PROVE FALSE
  OBVIOUS
<1>2. PICK m \in Without : \A j \in Without : m <= j
  BY <1>1, LeastNatural
<1>3. m # 0
  <2>1. WalkOf(stage, k, 0, [i \in 0 .. 0 |-> k])
    BY DEF WalkOf
  <2> QED
    BY <1>2, <2>1
<1>4. PICK f : WalkOf(stage, k, m - 1, f)
  <2>1. m - 1 \in Nat /\ ~ (m <= m - 1)
    BY <1>3
  <2>2. m - 1 \notin Without
    BY <1>2, <2>1
  <2> QED
    BY <2>1, <2>2
<1>5. f[0] = k /\ \A i \in 0 .. m - 2 : f[i + 1] = NextVisited(stage, f[i])
  BY <1>3, <1>4, WalkOfWalks DEF Walk
<1> DEFINE g == [i \in 0 .. m |-> IF i = m THEN NextVisited(stage, f[m - 1])
                                           ELSE f[i]]
<1>6. ASSUME NEW i \in 0 .. m
      PROVE  g[i] = IF i = 0 THEN k ELSE NextVisited(stage, g[i - 1])
  <2>1. CASE i = 0
    BY <1>3, <1>5, <2>1
  <2>2. CASE i = m
    <3>1. g[m - 1] = f[m - 1] /\ g[m] = NextVisited(stage, f[m - 1])
      BY <1>3
    <3> QED
      BY <1>3, <2>2, <3>1
  <2>3. CASE i # 0 /\ i # m
    <3>1. i - 1 \in 0 .. m - 2 /\ (i - 1) + 1 = i /\ i - 1 \in 0 .. m /\ i - 1 # m
      BY <2>3
    <3>2. g[i] = f[i] /\ g[i - 1] = f[i - 1]
      BY <2>3, <3>1
    <3>3. f[(i - 1) + 1] = NextVisited(stage, f[i - 1])
      BY <1>5, <3>1
    <3> QED
      BY <2>3, <3>1, <3>2, <3>3
  <2> QED
    BY <2>1, <2>2, <2>3
<1>7. g = [i \in 0 .. m |-> IF i = 0 THEN k ELSE NextVisited(stage, g[i - 1])]
  BY <1>6
<1> HIDE DEF g
<1>8. WalkOf(stage, k, m, g)
  BY <1>7 DEF WalkOf
<1> QED
  BY <1>2, <1>8

\* Two walks agree as far as both go.
LEMMA WalksAgree ==
  ASSUME NEW stage, NEW k, NEW n \in Nat, NEW m \in Nat, NEW f, NEW g,
         Walk(stage, k, n, f), Walk(stage, k, m, g), n <= m
  PROVE  \A i \in 0 .. n : f[i] = g[i]
<1>1. f[0] = k /\ \A i \in 0 .. n - 1 : f[i + 1] = NextVisited(stage, f[i])
  BY DEF Walk
<1>2. g[0] = k /\ \A i \in 0 .. m - 1 : g[i + 1] = NextVisited(stage, g[i])
  BY DEF Walk
<1> DEFINE Differ == {i \in Nat : i <= n /\ f[i] # g[i]}
<1>3. SUFFICES ASSUME Differ # {} PROVE FALSE
  OBVIOUS
<1>4. PICK i \in Differ : \A j \in Differ : i <= j
  BY <1>3, LeastNatural
<1>5. i # 0
  BY <1>1, <1>2, <1>4
<1>6. f[i - 1] = g[i - 1]
  <2>1. i - 1 \in Nat /\ i - 1 <= n /\ ~ (i <= i - 1)
    BY <1>5, <1>4
  <2> QED
    BY <2>1, <1>4
<1>7. i - 1 \in 0 .. n - 1 /\ i - 1 \in 0 .. m - 1 /\ (i - 1) + 1 = i
  BY <1>4, <1>5
<1>8. f[(i - 1) + 1] = g[(i - 1) + 1]
  BY <1>1, <1>2, <1>6, <1>7
<1> QED
  BY <1>4, <1>7, <1>8

LEMMA VisitedWalks ==
  ASSUME NEW stage, NEW k, NEW n \in Nat
  PROVE  \E f : Walk(stage, k, n, f) /\ Visited(stage, k, n) = f[n]
<1>1. Visited(stage, k, n) = (CHOOSE f : WalkOf(stage, k, n, f))[n]
  BY DEF Visited, WalkOf, NextVisited
<1>2. WalkOf(stage, k, n, CHOOSE f : WalkOf(stage, k, n, f))
  BY WalkExists
<1> QED
  BY <1>1, <1>2, WalkOfWalks

\* Visited is what one would have it be.
LEMMA VisitedSteps ==
  ASSUME NEW stage, NEW k, NEW n \in Nat
  PROVE  /\ Visited(stage, k, 0) = k
         /\ Visited(stage, k, n + 1) = NextVisited(stage, Visited(stage, k, n))
<1>1. PICK f : Walk(stage, k, 0, f) /\ Visited(stage, k, 0) = f[0]
  BY VisitedWalks
<1>2. PICK g : Walk(stage, k, n, g) /\ Visited(stage, k, n) = g[n]
  BY VisitedWalks
<1>3. PICK h : Walk(stage, k, n + 1, h) /\ Visited(stage, k, n + 1) = h[n + 1]
  BY VisitedWalks
<1>4. f[0] = k
  BY <1>1 DEF Walk
<1>5. h[n + 1] = NextVisited(stage, h[n])
  BY <1>3 DEF Walk
<1>6. h[n] = g[n]
  <2>1. \A i \in 0 .. n : g[i] = h[i]
    BY <1>2, <1>3, WalksAgree
  <2> QED
    BY <2>1
<1> QED
  BY <1>1, <1>2, <1>3, <1>4, <1>5, <1>6

-----------------------------------------------------------------------------
(* Words and their halves. *)

LEMMA ConstantFacts ==
  /\ HalfMod \in Nat \ {0} /\ InstrMod = HalfMod * HalfMod
  /\ InstrMod \in Nat \ {0} /\ HalfMod <= InstrMod
  /\ Filler \in 0 .. HalfMod - 1 /\ ~ IsLong(Filler)
  /\ CountMod \in Nat \ {0}
  /\ Blacklist \subseteq instr_t
<1>1. HalfMod <= HalfMod * HalfMod
  BY RiscvAssumption
<1> QED
  BY <1>1, RiscvAssumption, FeederAssumption DEF instr_t

\* A word is its prefix and the other half.
LEMMA HalvesFacts ==
  ASSUME NEW k \in instr_t
  PROVE  /\ k \in Nat
         /\ Prefix(k) \in 0 .. HalfMod - 1
         /\ Other(k) \in 0 .. HalfMod - 1
         /\ construct(Prefix(k), Other(k)) = k
         /\ k < HalfMod => Prefix(k) = k /\ Other(k) = 0
         /\ Prefix(k) <= k
<1>1. HalfMod \in Nat \ {0} /\ k \in Nat /\ k < HalfMod * HalfMod
  BY ConstantFacts DEF instr_t
<1>2. k % HalfMod \in 0 .. HalfMod - 1 /\ k \div HalfMod \in Nat
  BY <1>1
<1>3. k = HalfMod * (k \div HalfMod) + (k % HalfMod)
  BY <1>1
<1>4. k \div HalfMod < HalfMod
  <2>1. SUFFICES ASSUME k \div HalfMod >= HalfMod PROVE FALSE
    BY <1>1, <1>2
  <2>2. HalfMod * (k \div HalfMod) >= HalfMod * HalfMod
    BY <1>1, <1>2, <2>1
  <2> QED
    BY <1>1, <1>2, <1>3, <2>2
<1>5. k < HalfMod => k % HalfMod = k /\ k \div HalfMod = 0
  BY <1>1
<1>6. (k \div HalfMod) * HalfMod = HalfMod * (k \div HalfMod)
  BY <1>1, <1>2
<1>7. k % HalfMod <= k
  BY <1>1
<1> QED
  BY <1>1, <1>2, <1>3, <1>4, <1>5, <1>6, <1>7 DEF Prefix, Other, construct

LEMMA ConstructFacts ==
  ASSUME NEW p \in 0 .. HalfMod - 1, NEW o \in 0 .. HalfMod - 1
  PROVE  /\ construct(p, o) \in instr_t
         /\ Prefix(construct(p, o)) = p
         /\ Other(construct(p, o)) = o
<1>1. HalfMod \in Nat \ {0} /\ p \in Nat /\ o \in Nat /\ p < HalfMod /\ o <= HalfMod - 1
  BY ConstantFacts
<1>2. o * HalfMod \in Nat /\ o * HalfMod <= HalfMod * HalfMod - HalfMod
  <2>1. (HalfMod - 1 - o) * HalfMod >= 0
    BY <1>1
  <2>2. (HalfMod - 1 - o) * HalfMod = HalfMod * HalfMod - HalfMod - o * HalfMod
    BY <1>1
  <2> QED
    BY <1>1, <2>1, <2>2
<1>3. (p + o * HalfMod) % HalfMod = p
  BY <1>1
<1>4. (p + o * HalfMod) \div HalfMod = o
  BY <1>1
<1>5. p + o * HalfMod \in 0 .. HalfMod * HalfMod - 1
  BY <1>1, <1>2
<1> QED
  BY <1>3, <1>4, <1>5, ConstantFacts DEF construct, Prefix, Other, instr_t

LEMMA PlusType ==
  ASSUME NEW k \in Nat, NEW d \in Nat
  PROVE  Plus(k, d) \in instr_t
  BY FeederAssumption DEF Plus, instr_t

LEMMA NextVisitedType ==
  ASSUME NEW stage, NEW k \in instr_t
  PROVE  NextVisited(stage, k) \in instr_t
<1>1. k \in Nat
  BY HalvesFacts
<1> QED
  BY <1>1, PlusType DEF NextVisited, NextCompressed

LEMMA VisitedType ==
  ASSUME NEW stage, NEW k \in instr_t, NEW n \in Nat
  PROVE  Visited(stage, k, n) \in instr_t
<1> DEFINE Outside == {m \in Nat : Visited(stage, k, m) \notin instr_t}
<1>1. SUFFICES ASSUME Outside # {} PROVE FALSE
  BY <1>1
<1>2. PICK m \in Outside : \A j \in Outside : m <= j
  BY <1>1, LeastNatural
<1>3. m # 0
  BY <1>2, VisitedSteps
<1>4. m - 1 \in Nat /\ ~ (m <= m - 1) /\ (m - 1) + 1 = m
  BY <1>3
<1>5. Visited(stage, k, m - 1) \in instr_t
  BY <1>2, <1>4
<1>6. Visited(stage, k, (m - 1) + 1) \in instr_t
  BY <1>4, <1>5, VisitedSteps, NextVisitedType
<1> QED
  BY <1>2, <1>4, <1>6

-----------------------------------------------------------------------------
(* Types. *)

\* What the stages go on to.
LeftOf(p) == {q \in p + 1 .. HalfMod - 1 : ~ search(q)}

LEMMA LeftFacts ==
  ASSUME NEW p \in 0 .. HalfMod - 1, NEW f \in 0 .. HalfMod - 1,
         ~ (p + 1 .. f \subseteq Blacklist)
  PROVE  /\ Min(LeftOf(p)) \in p + 1 .. HalfMod - 1
         /\ Min(LeftOf(p)) \in instr_t /\ Min(LeftOf(p)) <= f
         /\ ~ search(Min(LeftOf(p)))
         /\ \A q \in p + 1 .. HalfMod - 1 : q < Min(LeftOf(p)) => search(q)
<1>1. HalfMod \in Nat /\ HalfMod <= InstrMod /\ InstrMod \in Nat
  BY ConstantFacts
<1>2. PICK q \in p + 1 .. f : q \notin Blacklist
  OBVIOUS
<1>3. q \in LeftOf(p) /\ LeftOf(p) \subseteq Nat
  BY <1>1, <1>2 DEF LeftOf, search
<1>4. Min(LeftOf(p)) \in LeftOf(p) /\ \A x \in LeftOf(p) : Min(LeftOf(p)) <= x
  BY <1>3, MinFact
<1>5. Min(LeftOf(p)) \in p + 1 .. HalfMod - 1 /\ ~ search(Min(LeftOf(p)))
  BY <1>4 DEF LeftOf
<1>6. Min(LeftOf(p)) <= q
  BY <1>3, <1>4
<1>7. ASSUME NEW x \in p + 1 .. HalfMod - 1, x < Min(LeftOf(p)), ~ search(x)
      PROVE  FALSE
  BY <1>1, <1>4, <1>5, <1>7 DEF LeftOf
<1> QED
  BY <1>1, <1>2, <1>5, <1>6, <1>7 DEF instr_t

LEMMA ExpansionFacts ==
  ASSUME currentInstruction \in instr_t, Expansions # {}
  PROVE  LET m == Min(Expansions)
         IN /\ m \in instr_t /\ ~ search(m) /\ m \in Expansions
            /\ Prefix(m) = Prefix(currentInstruction)
            /\ Other(m) \in Other(currentInstruction) + 1 .. HalfMod - 1
            /\ \A x \in Expansions : m <= x
<1> DEFINE p == Prefix(currentInstruction)
           m == Min(Expansions)
<1>1. /\ p \in 0 .. HalfMod - 1 /\ Other(currentInstruction) \in 0 .. HalfMod - 1
      /\ HalfMod \in Nat
  BY HalvesFacts, ConstantFacts
<1>2. \A o \in Other(currentInstruction) + 1 .. HalfMod - 1 :
        /\ construct(p, o) \in instr_t
        /\ Prefix(construct(p, o)) = p
        /\ Other(construct(p, o)) = o
  BY <1>1, ConstructFacts
<1>3. Expansions \subseteq Nat
  BY <1>2, HalvesFacts DEF Expansions
<1>4. m \in Expansions /\ \A x \in Expansions : m <= x
  BY <1>3, MinFact
<1>5. PICK o \in Other(currentInstruction) + 1 .. HalfMod - 1 :
        m = construct(p, o) /\ m \notin Blacklist
  BY <1>4 DEF Expansions
<1> QED
  BY <1>2, <1>4, <1>5 DEF search

LEMMA SetupFacts ==
  ASSUME VarInv
  PROVE  /\ fetchInstruction \in Stages
         /\ firstInstruction \in instr_t /\ finalInstruction \in instr_t
         /\ fetchInstruction # "riscvg" => finalInstruction \in 0 .. HalfMod - 1
         /\ altStack \in Nat /\ altStack % pageSize = 0
         /\ instructionSize \in {2, 4}
<1>1. <<fetchInstruction, firstInstruction, finalInstruction>>
        \in Stages \X instr_t \X instr_t
  BY RiscvAssumption DEF VarInv
<1>2. fetchInstruction # "riscvg" => finalInstruction < HalfMod
  BY RiscvAssumption DEF VarInv
<1>3. altStack \in Nat /\ altStack % pageSize = 0
  BY RiscvAssumption DEF VarInv
<1>4. finalInstruction \in Nat
  BY <1>1, HalvesFacts
<1> QED
  BY <1>1, <1>2, <1>3, <1>4, ConstantFacts DEF instructionSize

LEMMA SetupUnchanged ==
  ASSUME Next PROVE UNCHANGED setup
BY DEF Next, Unit, Execute, Hang, LateHang, EnterHangHandler, Entry, Analyse,
       Fetch, WriteInstruction, Commit, Return, Stopped, vars, setup

LEMMA CountType ==
  ASSUME NEW n \in Int, VarInv, Count(n)
  PROVE  numInstrExec' \in 0 .. CountMod - 1
BY ConstantFacts DEF Count, VarInv

LEMMA CountedType ==
  ASSUME NEW stage, NEW k \in instr_t, NEW n \in Nat
  PROVE  Counted(stage, k, n) \in Int
<1>1. Visited(stage, k, n) \in Nat /\ k \in Nat
  BY VisitedType, HalvesFacts
<1> QED
  BY <1>1 DEF Counted

\* Whatever a stage does, its results are in range.
LEMMA FetchType ==
  ASSUME VarInv, HandlerInv, Fetch
  PROVE  /\ currentInstruction' \in instr_t /\ nextInstruction' \in instr_t
         /\ currentInstructionSize' \in {2, 4} /\ instructionPointer' \in {2, 4}
         /\ sizeError' \in BOOLEAN /\ isStopped' \in BOOLEAN
         /\ numInstrExec' \in 0 .. CountMod - 1
         /\ page' \in [{2, 4} -> 0 .. HalfMod - 1]
<1> DEFINE Typed ==
         /\ currentInstruction' \in instr_t /\ nextInstruction' \in instr_t
         /\ isStopped' \in BOOLEAN
<1>1. /\ currentInstruction \in instr_t /\ nextInstruction \in instr_t
      /\ isStopped \in BOOLEAN /\ sizeError \in BOOLEAN
      /\ currentInstructionSize \in {2, 4} /\ instructionPointer \in {2, 4}
      /\ page \in [{2, 4} -> 0 .. HalfMod - 1]
      /\ numInstrExec \in Nat
  BY ConstantFacts DEF VarInv
<1>2. ASSUME NEW k \in instr_t, Result(k) PROVE Typed
  BY <1>1, <1>2 DEF Result
<1>3. stopWorker => Typed
  BY <1>1 DEF stopWorker
<1>4. UNCHANGED progress => Typed
  BY <1>1 DEF progress
<1>5. StdPage \in [{2, 4} -> 0 .. HalfMod - 1] /\ instructionSize \in {2, 4}
      /\ instructionSizeUC = 4
  BY ConstantFacts, SetupFacts DEF StdPage, instructionSizeUC
<1>6. /\ Prefix(currentInstruction) \in 0 .. HalfMod - 1
      /\ Other(currentInstruction) \in 0 .. HalfMod - 1
      /\ HalfMod \in Nat /\ CountMod \in Nat \ {0}
  BY <1>1, HalvesFacts, ConstantFacts
<1>7. CASE FetchVisited
  <2>1. PICK n \in 0 .. InstrMod :
          \/ /\ Count(Counted(fetchInstruction, currentInstruction, n + 1))
             /\ Result(Visited(fetchInstruction, currentInstruction, n + 1))
          \/ /\ Count(IF n = 0 THEN 0
                      ELSE Counted(fetchInstruction, currentInstruction, n))
             /\ stopWorker
    BY <1>7 DEF FetchVisited
  <2>2. n \in Nat /\ n + 1 \in Nat
    BY ConstantFacts
  <2>3. /\ Visited(fetchInstruction, currentInstruction, n + 1) \in instr_t
        /\ Counted(fetchInstruction, currentInstruction, n + 1) \in Int
        /\ Counted(fetchInstruction, currentInstruction, n) \in Int
    BY <1>1, <2>2, VisitedType, CountedType
  <2>4. Typed
    BY <1>2, <1>3, <2>1, <2>3
  <2>5. numInstrExec' \in 0 .. CountMod - 1
    BY <2>1, <2>3, CountType
  <2>6. UNCHANGED <<size, sizeError, page>>
    BY <1>7 DEF FetchVisited
  <2> QED
    BY <1>1, <2>4, <2>5, <2>6 DEF size
<1>8. CASE RetryLonger
  <2>1. numInstrExec' = (numInstrExec + 1) % CountMod
    BY <1>8 DEF RetryLonger
  <2>2. numInstrExec' \in 0 .. CountMod - 1
    BY <1>1, <1>6, <2>1
  <2>3. sizeError' = FALSE /\ UNCHANGED <<size, progress, page>>
    BY <1>8 DEF RetryLonger
  <2> QED
    BY <1>1, <1>4, <2>2, <2>3 DEF size
<1>9. CASE RetryPointer
  BY <1>1, <1>4, <1>5, <1>9 DEF RetryPointer, VarInv
<1>10. CASE RetrySize
  <2>1. Typed
    BY <1>1, <1>2, <1>10 DEF RetrySize
  <2>2. numInstrExec' \in 0 .. CountMod - 1
    BY <1>10, CountType DEF RetrySize
  <2> QED
    BY <1>1, <1>5, <1>10, <2>1, <2>2 DEF RetrySize
<1>11. CASE NextExpansion
  <2>1. CASE currentInstruction = finalInstruction
    <3>1. Count(0) /\ stopWorker /\ UNCHANGED page
      BY <1>11, <2>1 DEF NextExpansion
    <3>2. UNCHANGED <<size, sizeError>>
      BY <1>11 DEF NextExpansion
    <3> QED
      BY <1>1, <1>3, <3>1, <3>2, CountType DEF size
  <2>2. CASE currentInstruction # finalInstruction /\ Expansions # {}
    <3>1. /\ Count(Other(Min(Expansions)) - Other(currentInstruction))
          /\ Result(Min(Expansions)) /\ UNCHANGED page
      BY <1>11, <2>2 DEF NextExpansion
    <3>2. UNCHANGED <<size, sizeError>>
      BY <1>11 DEF NextExpansion
    <3>3. /\ Min(Expansions) \in instr_t
          /\ Other(Min(Expansions)) - Other(currentInstruction) \in Int
      BY <1>1, <1>6, <2>2, ExpansionFacts
    <3>4. Typed
      BY <1>2, <3>1, <3>3
    <3> QED
      BY <1>1, <3>1, <3>2, <3>3, <3>4, CountType DEF size
  <2>3. CASE currentInstruction # finalInstruction /\ Expansions = {}
    <3>1. /\ numInstrExec' = (numInstrExec + HalfMod - 1
                              - Other(currentInstruction)) % CountMod
          /\ page' = StdPage /\ UNCHANGED progress
      BY <1>11, <2>3 DEF NextExpansion
    <3>2. UNCHANGED <<size, sizeError>>
      BY <1>11 DEF NextExpansion
    <3>3. numInstrExec' \in 0 .. CountMod - 1
      BY <1>1, <1>6, <3>1
    <3> QED
      BY <1>1, <1>4, <1>5, <3>1, <3>2, <3>3 DEF size
  <2> QED
    BY <2>1, <2>2, <2>3
<1>12. CASE ShortenPointer
  BY <1>1, <1>4, <1>5, <1>12 DEF ShortenPointer, VarInv
<1>13. CASE ShortenSize
  BY <1>1, <1>4, <1>5, <1>13 DEF ShortenSize, VarInv
<1>14. CASE NextPrefix
  <2> DEFINE p == Prefix(currentInstruction)
  <2>1. \/ Count(finalInstruction - p) /\ stopWorker
        \/ /\ ~ (p + 1 .. finalInstruction \subseteq Blacklist)
           /\ Count(Min(LeftOf(p)) - p) /\ Result(Min(LeftOf(p)))
    BY <1>14 DEF NextPrefix, LeftOf
  <2>2. UNCHANGED <<size, sizeError, page>>
    BY <1>14 DEF NextPrefix
  <2>3. fetchInstruction = "vle"
    BY <1>14 DEF NextPrefix, HandlerInv, VlePcs, vle
  <2>4. finalInstruction \in Int /\ p \in Int
    BY <1>6, SetupFacts, HalvesFacts
  <2>5. CASE Count(finalInstruction - p) /\ stopWorker
    BY <1>1, <1>3, <2>2, <2>4, <2>5, CountType DEF size
  <2>6. CASE /\ ~ (p + 1 .. finalInstruction \subseteq Blacklist)
             /\ Count(Min(LeftOf(p)) - p) /\ Result(Min(LeftOf(p)))
    <3>1. Min(LeftOf(p)) \in instr_t /\ Min(LeftOf(p)) \in Int
      <4>1. finalInstruction \in 0 .. HalfMod - 1
        BY <2>3, SetupFacts
      <4> QED
        BY <1>6, <2>6, <4>1, LeftFacts
    <3> QED
      BY <1>1, <1>2, <2>2, <2>4, <2>6, <3>1, CountType DEF size
  <2> QED
    BY <2>1, <2>5, <2>6
<1> QED
  BY <1>7, <1>8, <1>9, <1>10, <1>11, <1>12, <1>13, <1>14 DEF Fetch, vleExhaustive

LEMMA VarNext ==
  ASSUME VarInv, HandlerInv, Next
  PROVE  VarInv'
<1>1. UNCHANGED setup
  BY SetupUnchanged
<1>2. /\ <<fetchInstruction, firstInstruction, finalInstruction>>' \in Parts
      /\ altStack' \in AltStacks
  BY <1>1 DEF setup, VarInv
<1>3. StdPage \in [{2, 4} -> 0 .. HalfMod - 1]
  BY ConstantFacts DEF StdPage
<1>4. CASE Execute
  <2>1. fault'.signo \in {"ILL", "SEGV", "TRAP"}
    BY <1>4 DEF Execute, FaultOf
  <2> QED
    BY <1>2, <1>4, <2>1 DEF Execute, VarInv, size, progress, history
<1>5. CASE Hang
  BY <1>2, <1>5 DEF Hang, EnterHangHandler, VarInv, size, progress, NoFault
<1>6. CASE LateHang
  <2>1. blocked' \subseteq {"ILL", "SEGV", "TRAP"}
    <3>1. pc # "run" /\ handler = "fault" =>
            fault.signo \in {"ILL", "SEGV", "TRAP"}
      BY DEF HandlerInv, VarInv
    <3> QED
      BY <1>6, <3>1 DEF LateHang, VarInv
  <2> QED
    BY <1>2, <1>6, <2>1
    DEF LateHang, EnterHangHandler, VarInv, size, progress, NoFault
<1>7. CASE Entry
  BY <1>2, <1>7 DEF Entry, VarInv, size, progress, entered, history
<1>8. CASE Analyse
  <2>1. hangs' \subseteq instr_t \X {2, 4}
    BY <1>8 DEF Analyse, VarInv
  <2>2. page' \in [{2, 4} -> 0 .. HalfMod - 1]
    BY <1>3, <1>8 DEF Analyse, VarInv
  <2>3. sizeError' \in BOOLEAN
    BY <1>8 DEF Analyse, analyse, VarInv
  <2> QED
    BY <1>2, <1>8, <2>1, <2>2, <2>3
    DEF Analyse, VarInv, size, progress, entered
<1>9. CASE Fetch
  <2>1. UNCHANGED <<entered, history>>
    BY <1>9 DEF Fetch
  <2> QED
    BY <1>2, <1>9, <2>1, FetchType DEF VarInv, entered, history
<1>10. CASE WriteInstruction
  <2>1. page' \in [{2, 4} -> 0 .. HalfMod - 1]
    <3> DEFINE k == IF handler = "fault" THEN nextInstruction
                                         ELSE currentInstruction
    <3>1. k \in instr_t
      BY DEF VarInv
    <3>2. Prefix(k) \in 0 .. HalfMod - 1 /\ Other(k) \in 0 .. HalfMod - 1
      BY <3>1, HalvesFacts
    <3>3. page' = [o \in {2, 4} |->
            CASE o = instructionPointer -> Prefix(k)
              [] o = instructionPointer - 2 /\ currentInstructionSize = 4 ->
                   Other(k)
              [] OTHER -> page[o]]
      BY <1>10 DEF WriteInstruction
    <3> HIDE DEF k
    <3>4. page \in [{2, 4} -> 0 .. HalfMod - 1] /\ instructionPointer \in {2, 4}
      BY DEF VarInv
    <3> QED
      BY <3>2, <3>3, <3>4
  <2>2. UNCHANGED <<setup, size, sizeError, numInstrExec, isStopped,
                    nextInstruction, recovery, blocked, history,
                    currentInstruction>>
    BY <1>10 DEF WriteInstruction, Return, entered
  <2>3. fault'.signo \in {"none", "ILL", "SEGV", "TRAP"}
    BY <1>10 DEF WriteInstruction, Return, entered, NoFault, VarInv
  <2> QED
    BY <1>2, <2>1, <2>2, <2>3 DEF VarInv, size, history
<1>11. CASE Commit
  BY <1>2, <1>11 DEF Commit, Return, VarInv, size, history, NoFault
<1>12. CASE Stopped
  BY <1>2, <1>12
  DEF Stopped, vars, VarInv, size, progress, entered, history
<1> QED
  BY <1>4, <1>5, <1>6, <1>7, <1>8, <1>9, <1>10, <1>11, <1>12 DEF Next, Unit

LEMMA HandlerNext ==
  ASSUME VarInv, HandlerInv, SizeInv, Next
  PROVE  HandlerInv'
<1>1. UNCHANGED fetchInstruction
  BY SetupUnchanged DEF setup
<1>2. CASE Execute
  <2>1. fault'.signo # "none"
    BY <1>2 DEF Execute, FaultOf
  <2> QED
    BY <1>1, <1>2, <2>1 DEF Execute, HandlerInv, VlePcs, vle
<1>3. CASE Hang
  BY <1>1, <1>3 DEF Hang, EnterHangHandler, HandlerInv, VlePcs, vle
<1>4. CASE LateHang
  BY <1>1, <1>4 DEF LateHang, EnterHangHandler, HandlerInv, VlePcs, vle
<1>5. CASE Entry
  BY <1>1, <1>5 DEF Entry, HandlerInv, VlePcs, vle, entered
<1>6. CASE Analyse
  BY <1>1, <1>6 DEF Analyse, HandlerInv, VlePcs, vle, entered
<1>7. CASE FetchVisited /\ UNCHANGED entered
  BY <1>1, <1>7
  DEF FetchVisited, Result, stopWorker, HandlerInv, VlePcs, vle, entered
<1>8. CASE vleExhaustive /\ UNCHANGED entered
  <2>1. vle
    BY <1>8
    DEF vleExhaustive, RetryLonger, RetryPointer, RetrySize, NextExpansion,
        ShortenPointer, ShortenSize, NextPrefix, HandlerInv, VlePcs, vle
  <2>2. pc \in VlePcs \cup {"fetch"}
    BY <1>8
    DEF vleExhaustive, RetryLonger, RetryPointer, RetrySize, NextExpansion,
        ShortenPointer, ShortenSize, NextPrefix, VlePcs
  <2>3. pc' \in {"retryPointer", "retrySize"} => handler \in {"fault", "hang"}
    <3>1. RetryLonger => handler \in {"fault", "hang"}
      BY <2>1 DEF RetryLonger, SizeInv, TornSize, VleSize
    <3>2. RetryPointer => handler \in {"fault", "hang"}
      BY DEF RetryPointer, HandlerInv
    <3>3. \/ RetryLonger \/ RetryPointer
          \/ pc' \notin {"retryPointer", "retrySize"}
      BY <1>8
      DEF vleExhaustive, RetrySize, NextExpansion, ShortenPointer, ShortenSize,
          NextPrefix, Result, stopWorker
    <3> QED
      BY <3>1, <3>2, <3>3
  <2>4. pc' \in VlePcs \cup {"write", "stop"}
    BY <1>8
    DEF vleExhaustive, RetryLonger, RetryPointer, RetrySize, NextExpansion,
        ShortenPointer, ShortenSize, NextPrefix, Result, stopWorker, VlePcs
  <2>5. handler' = handler /\ fault' = fault
    BY <1>8 DEF entered
  <2>6. handler \in {"entry", "fault", "hang"}
    BY <2>2 DEF HandlerInv, VlePcs
  <2> QED
    BY <1>1, <2>1, <2>3, <2>4, <2>5, <2>6 DEF HandlerInv, VlePcs, vle
<1>9. CASE WriteInstruction
  BY <1>1, <1>9 DEF WriteInstruction, Return, HandlerInv, VlePcs, vle, entered
<1>10. CASE Commit
  BY <1>1, <1>10 DEF Commit, Return, HandlerInv, VlePcs, vle
<1>11. CASE Stopped
  BY <1>1, <1>11
  DEF Stopped, vars, HandlerInv, VlePcs, vle, entered
<1> QED
  BY <1>2, <1>3, <1>4, <1>5, <1>6, <1>7, <1>8, <1>9, <1>10, <1>11
  DEF Next, Unit, Fetch


-----------------------------------------------------------------------------
(* The sizes. *)

\* The size check finds exactly what reads past the page.
LEMMA SizeCheckFacts ==
  ASSUME VarInv, fault = FaultOf
  PROVE  /\ SizeCheck <=> ReadsPastPage
         /\ ReadsPastPage => /\ instructionPointer = 2 /\ Ran.size = 4
                             /\ \/ fetchInstruction = "riscvg"
                                \/ IsLong(page[2])
<1>1. Ran.size \in {2, 4} /\ instructionPointer \in {2, 4}
  BY DEF Ran, VarInv
<1>2. ReadsPastPage => /\ instructionPointer = 2 /\ Ran.size = 4
                       /\ fetchInstruction = "riscvg" \/ IsLong(page[2])
  BY <1>1 DEF ReadsPastPage, Ran
<1>3. ReadsPastPage => SizeCheck
  BY DEF FaultOf, SizeCheck
<1>4. ~ ReadsPastPage => ~ SizeCheck
  BY <1>1 DEF FaultOf, SizeCheck, Elsewhere
<1> QED
  BY <1>2, <1>3, <1>4

\* hangHandler finds no size wrong, and faultHandler none of a unit whose
\* instruction pointer leaves four bytes.
LEMMA SizeErrorFacts ==
  ASSUME VarInv, HandlerInv, PageInv, pc = "analyse", SizeCheck
  PROVE  /\ handler = "fault" /\ instructionPointer = 2
         /\ fetchInstruction = "riscvg" \/ IsLong(page[2])
         /\ page[2] = Prefix(currentInstruction)
<1>1. handler = "fault"
  BY DEF HandlerInv, SizeCheck, NoFault
<1>2. fault = FaultOf /\ OnPage(currentInstruction)
  BY <1>1 DEF PageInv
<1> QED
  BY <1>1, <1>2, SizeCheckFacts DEF OnPage

LEMMA FixedSizeNext ==
  ASSUME VarInv, HandlerInv, SizeInv, Next
  PROVE  FixedSize'
<1>1. UNCHANGED fetchInstruction
  BY SetupUnchanged DEF setup
<1>2. SUFFICES ASSUME ~ vle PROVE UNCHANGED <<size, sizeError>>
  BY <1>1, <1>2 DEF SizeInv, FixedSize, vle, instructionSize, size
<1>3. pc \notin VlePcs
  BY <1>2 DEF HandlerInv
<1>4. ~ vleExhaustive
  BY <1>2, <1>3
  DEF vleExhaustive, RetryLonger, RetryPointer, RetrySize, NextExpansion,
      ShortenPointer, ShortenSize, NextPrefix, vle, VlePcs
<1> QED
  BY <1>2, <1>4
  DEF vle, Next, Unit, Execute, Hang, LateHang, EnterHangHandler, Entry,
      Analyse, analyse, Fetch, FetchVisited, WriteInstruction, Commit, Return,
      Stopped, vars, size

LEMMA TornUnchanged ==
  ASSUME Next PROVE LateHang \/ UNCHANGED overtaken
BY DEF Next, Unit, Execute, Hang, EnterHangHandler, Entry, Analyse, Fetch,
       WriteInstruction, Commit, Return, Stopped, vars, history

LEMMA TornSizeNext ==
  ASSUME VarInv, HandlerInv, SizeInv, PageInv, Next
  PROVE  TornSize'
<1>1. UNCHANGED fetchInstruction
  BY SetupUnchanged DEF setup
<1>2. SUFFICES ASSUME Torn' PROVE TornSize'
  BY DEF TornSize
<1>3. CASE LateHang
  <2>1. UNCHANGED <<size, sizeError>> /\ pc' = "analyse"
    BY <1>3 DEF LateHang, EnterHangHandler
  <2>2. Torn \/ (pc = "retrySize" /\ handler = "fault")
    BY <1>2, <1>3 DEF LateHang, Torn
  <2>3. CASE Torn
    BY <1>1, <2>1, <2>3 DEF SizeInv, TornSize, vle, size
  <2>4. CASE ~ Torn /\ pc = "retrySize"
    <3>1. vle
      BY <2>4 DEF HandlerInv, VlePcs
    <3>2. VleSize
      BY <2>4, <3>1 DEF SizeInv
    <3> QED
      BY <1>1, <2>1, <2>4, <3>1, <3>2 DEF VleSize, TornSize, vle, size
  <2> QED
    BY <2>2, <2>3, <2>4
<1>4. CASE Torn /\ ~ LateHang
  <2>1. /\ vle /\ instructionPointer = 4 /\ currentInstructionSize = 2
        /\ ~ sizeError
        /\ pc \notin {"retryPointer", "retrySize", "shortenPointer",
                      "shortenSize"}
    BY <1>4 DEF SizeInv, TornSize
  <2>2. CASE Analyse
    <3>1. ~ SizeCheck
      BY <2>1, <2>2, SizeErrorFacts DEF Analyse
    <3> QED
      BY <1>1, <2>1, <2>2, <3>1 DEF Analyse, analyse, TornSize, vle, size
  <2>3. CASE Fetch
    <3>1. CASE FetchVisited
      BY <2>1, <3>1 DEF FetchVisited, vle
    <3>2. CASE NextPrefix
      BY <1>1, <2>1, <3>2
      DEF NextPrefix, stopWorker, Result, TornSize, vle, size
    <3>3. ~ (RetryLonger \/ RetryPointer \/ RetrySize \/ NextExpansion
             \/ ShortenPointer \/ ShortenSize)
      BY <2>1
      DEF RetryLonger, RetryPointer, RetrySize, NextExpansion, ShortenPointer,
          ShortenSize, instructionSizeUC
    <3> QED
      BY <2>3, <3>1, <3>2, <3>3 DEF Fetch, vleExhaustive
  <2>4. CASE \/ Execute \/ Hang \/ Entry \/ WriteInstruction \/ Commit
             \/ Stopped
    BY <1>1, <2>1, <2>4
    DEF Execute, Hang, EnterHangHandler, Entry, WriteInstruction, Commit,
        Return, Stopped, vars, TornSize, vle, size
  <2> QED
    BY <1>4, <2>2, <2>3, <2>4 DEF Next, Unit
<1> QED
  BY <1>2, <1>3, <1>4, TornUnchanged DEF Torn


\* What a step leaves alone of what the sizes are about.
LEMMA VleStill ==
  ASSUME Next, vle', ~ Torn'
  PROVE  vle /\ ~ Torn
<1>1. UNCHANGED fetchInstruction
  BY SetupUnchanged DEF setup
<1>2. LateHang \/ UNCHANGED overtaken
  BY TornUnchanged
<1> QED
  BY <1>1, <1>2 DEF vle, Torn, LateHang

LEMMA SetBackStill ==
  ASSUME UNCHANGED <<currentInstruction, finalInstruction>>
  PROVE  SetBack' = SetBack
BY DEF SetBack, Expansions, Prefix, Other

LEMMA VleSizeNext ==
  ASSUME VarInv, HandlerInv, SizeInv, PageInv, Next, vle', ~ Torn'
  PROVE  VleSize'
<1>1. vle /\ ~ Torn
  BY VleStill
<1>2. VleSize
  BY <1>1 DEF SizeInv
<1>3. UNCHANGED <<fetchInstruction, finalInstruction>>
  BY SetupUnchanged DEF setup
<1>4. instructionSize = 2 /\ instructionSizeUC = 4
  BY <1>1 DEF instructionSize, instructionSizeUC, vle
<1>5. instructionPointer \in {2, 4} /\ currentInstructionSize \in {2, 4}
  BY DEF VarInv
<1>6. CASE Execute \/ Hang
  <2>1. /\ pc = "run" /\ pc' \in {"analyse", "killed"}
        /\ UNCHANGED <<size, sizeError>>
    BY <1>6 DEF Execute, Hang, EnterHangHandler
  <2> QED
    BY <1>2, <2>1 DEF VleSize, size
<1>7. CASE LateHang
  <2>1. /\ pc' = "analyse" /\ handler' = "hang" /\ pc # "lost"
        /\ UNCHANGED <<size, sizeError, currentInstruction>>
        /\ pc # "run" => handler # "hang"
    BY <1>7 DEF LateHang, EnterHangHandler, progress
  <2>2. SetBack' = SetBack
    BY <1>3, <2>1, SetBackStill
  <2>3. pc # "retrySize"
    <3>1. SUFFICES ASSUME pc = "retrySize" PROVE FALSE
      OBVIOUS
    <3>2. handler = "fault"
      BY <2>1, <3>1 DEF HandlerInv
    <3>3. Torn'
      BY <1>7, <3>1, <3>2 DEF LateHang, Torn
    <3> QED
      BY <3>3
  <2>4. \/ instructionPointer = currentInstructionSize
        \/ instructionPointer = 2 /\ currentInstructionSize = 4 /\ SetBack
    <3>1. CASE pc = "shortenPointer" \/ pc = "shortenSize"
      BY <1>2, <1>5, <3>1 DEF VleSize
    <3>2. CASE pc \notin {"shortenPointer", "shortenSize"}
      BY <1>2, <2>1, <2>3, <3>2 DEF VleSize
    <3> QED
      BY <3>1, <3>2
  <2>5. sizeError => instructionPointer = 2 /\ currentInstructionSize = 2
    BY <1>2 DEF VleSize
  <2> QED
    BY <2>1, <2>2, <2>4, <2>5 DEF VleSize, size
<1>8. CASE Entry
  <2>1. /\ pc = "entry" /\ pc' \in {"fetch", "write"}
        /\ UNCHANGED <<size, sizeError>>
    BY <1>8 DEF Entry
  <2> QED
    BY <1>2, <2>1 DEF VleSize, size
<1>9. CASE Analyse
  <2>1. /\ pc = "analyse" /\ pc' \in {"fetch", "lost"}
        /\ UNCHANGED <<size, handler, currentInstruction>>
        /\ sizeError' = IF SizeCheck THEN TRUE ELSE sizeError
    BY <1>1, <1>9 DEF Analyse, analyse, vle, progress, entered
  <2>2. SetBack' = SetBack
    BY <1>3, <2>1, SetBackStill
  <2>3. SizeCheck => handler = "fault" /\ instructionPointer = 2
                     /\ currentInstructionSize = 2
    <3>1. SizeCheck => handler = "fault" /\ instructionPointer = 2
      BY <2>1, SizeErrorFacts
    <3> QED
      BY <1>2, <2>1, <3>1 DEF VleSize
  <2> QED
    BY <1>2, <2>1, <2>2, <2>3 DEF VleSize, size
<1>10. CASE Fetch
  <2>1. UNCHANGED handler
    BY <1>10 DEF Fetch, entered
  <2>2. ~ FetchVisited
    BY <1>1 DEF FetchVisited, vle
  <2>3. CASE RetryLonger
    BY <1>2, <2>1, <2>3 DEF RetryLonger, VleSize, size
  <2>4. CASE RetryPointer
    BY <1>2, <1>4, <2>1, <2>4 DEF RetryPointer, VleSize
  <2>5. CASE RetrySize
    BY <1>2, <1>4, <2>1, <2>5 DEF RetrySize, Result, VleSize
  <2>6. CASE NextExpansion
    <3>1. /\ pc = "fetch" /\ ~ sizeError /\ currentInstructionSize = 4
          /\ UNCHANGED <<size, sizeError>>
      BY <1>4, <2>6 DEF NextExpansion
    <3>2. CASE pc' = "shortenPointer"
      <4>1. SetBack /\ UNCHANGED currentInstruction
        BY <2>6, <3>2
        DEF NextExpansion, Result, stopWorker, SetBack, progress
      <4>2. SetBack'
        BY <1>3, <4>1, SetBackStill
      <4> QED
        BY <3>1, <3>2, <4>2 DEF VleSize, size
    <3>3. CASE pc' # "shortenPointer"
      <4>1. pc' \in {"write", "stop"}
        BY <2>6, <3>3 DEF NextExpansion, Result, stopWorker
      <4>2. ~ SetBack
        BY <2>6, <3>3 DEF NextExpansion, Result, stopWorker, SetBack
      <4> QED
        BY <1>2, <3>1, <4>1, <4>2 DEF VleSize, size
    <3> QED
      BY <3>2, <3>3
  <2>7. CASE ShortenPointer
    <3>1. SetBack /\ UNCHANGED currentInstruction
      BY <1>2, <2>7 DEF ShortenPointer, VleSize, progress
    <3>2. SetBack'
      BY <1>3, <3>1, SetBackStill
    <3> QED
      BY <1>2, <1>4, <2>1, <2>7, <3>2 DEF ShortenPointer, VleSize
  <2>8. CASE ShortenSize
    BY <1>2, <1>4, <2>1, <2>8 DEF ShortenSize, VleSize
  <2>9. CASE NextPrefix
    <3>1. pc' \in {"write", "stop"} /\ UNCHANGED <<size, sizeError>>
      BY <2>9 DEF NextPrefix, Result, stopWorker
    <3>2. ~ sizeError /\ currentInstructionSize = 2
      BY <1>2, <1>4, <1>5, <2>9 DEF NextPrefix, VleSize
    <3>3. instructionPointer = 2
      BY <1>2, <1>5, <2>9, <3>2 DEF NextPrefix, VleSize
    <3> QED
      BY <3>1, <3>2, <3>3 DEF VleSize, size
  <2> QED
    BY <1>10, <2>2, <2>3, <2>4, <2>5, <2>6, <2>7, <2>8, <2>9
    DEF Fetch, vleExhaustive
<1>11. CASE WriteInstruction \/ Commit
  <2>1. /\ pc \in {"write", "commit"} /\ pc' \in {"commit", "run"}
        /\ UNCHANGED <<size, sizeError>>
    BY <1>11 DEF WriteInstruction, Commit, Return
  <2> QED
    BY <1>2, <2>1 DEF VleSize, size
<1>12. CASE Stopped
  <2>1. UNCHANGED <<size, sizeError, pc, handler, currentInstruction>>
    BY <1>12 DEF Stopped, vars, progress, entered
  <2>2. SetBack' = SetBack
    BY <1>3, <2>1, SetBackStill
  <2> QED
    BY <1>2, <2>1, <2>2 DEF VleSize, size
<1> QED
  BY <1>6, <1>7, <1>8, <1>9, <1>10, <1>11, <1>12 DEF Next, Unit


LEMMA LongWordsNext ==
  ASSUME VarInv, HandlerInv, SizeInv, PageInv, WordInv, Next, vle', ~ Torn'
  PROVE  LongWords'
<1>1. vle /\ ~ Torn
  BY VleStill
<1>2. VleSize /\ LongWords
  BY <1>1 DEF SizeInv
<1>3. instructionSize = 2 /\ instructionSizeUC = 4
  BY <1>1 DEF instructionSize, instructionSizeUC, vle
<1>4. currentInstructionSize \in {2, 4} /\ currentInstruction \in instr_t
  BY DEF VarInv
\* It is enough that nothing gets longer and the prefix stays.
<1>5. ASSUME UNCHANGED currentInstruction,
             currentInstructionSize' = 4 => currentInstructionSize = 4 \/ Retries,
             Retries' => Retries
      PROVE  LongWords'
  BY <1>2, <1>5 DEF LongWords, Prefix
<1>6. CASE Execute \/ Hang \/ LateHang \/ Entry \/ WriteInstruction \/ Stopped
  <2>1. UNCHANGED <<currentInstruction, size, sizeError>>
    BY <1>6
    DEF Execute, Hang, LateHang, EnterHangHandler, Entry, WriteInstruction,
        Return, Stopped, vars, progress
  <2>2. pc' \in {"retryPointer", "retrySize"} => pc' = pc
    BY <1>6
    DEF Execute, Hang, LateHang, EnterHangHandler, Entry, WriteInstruction,
        Return, Stopped, vars
  <2> QED
    BY <1>5, <2>1, <2>2 DEF Retries, size
<1>7. CASE Analyse
  <2>1. /\ pc = "analyse" /\ pc' \in {"fetch", "lost"}
        /\ UNCHANGED <<size, currentInstruction>>
        /\ sizeError' = IF SizeCheck THEN TRUE ELSE sizeError
    BY <1>1, <1>7 DEF Analyse, analyse, vle, progress
  <2>2. SizeCheck => IsLong(Prefix(currentInstruction))
    BY <1>1, <2>1, SizeErrorFacts DEF vle
  <2> QED
    BY <1>2, <2>1, <2>2 DEF LongWords, Retries, Prefix, size
<1>8. CASE Fetch
  <2>1. ~ FetchVisited
    BY <1>1 DEF FetchVisited, vle
  <2>2. CASE RetryLonger
    BY <1>5, <2>2 DEF RetryLonger, Retries, size, progress
  <2>3. CASE RetryPointer
    BY <1>5, <2>3 DEF RetryPointer, Retries, progress
  <2>4. CASE RetrySize
    <3>1. UNCHANGED <<currentInstruction, sizeError>> /\ pc' = "write" /\ Retries
      BY <2>4 DEF RetrySize, Result, Retries
    <3> QED
      BY <1>5, <3>1 DEF Retries
  <2>5. CASE NextExpansion
    <3>1. UNCHANGED <<size, sizeError>> /\ currentInstructionSize = 4
      BY <1>3, <2>5 DEF NextExpansion
    <3>2. Prefix(currentInstruction') = Prefix(currentInstruction)
      <4>1. \/ UNCHANGED currentInstruction
            \/ Expansions # {} /\ currentInstruction' = Min(Expansions)
        BY <2>5 DEF NextExpansion, Result, stopWorker, progress
      <4>2. CASE Expansions # {} /\ currentInstruction' = Min(Expansions)
        BY <1>4, <4>2, ExpansionFacts
      <4> QED
        BY <4>1, <4>2
    <3> QED
      BY <1>2, <3>1, <3>2 DEF LongWords
  <2>6. CASE ShortenPointer \/ ShortenSize
    BY <1>3, <1>5, <2>6 DEF ShortenPointer, ShortenSize, Retries, progress
  <2>7. CASE NextPrefix
    <3>1. /\ pc' \in {"write", "stop"} /\ UNCHANGED <<size, sizeError>>
          /\ ~ sizeError /\ currentInstructionSize # 4
      BY <1>2, <1>3, <2>7 DEF NextPrefix, Result, stopWorker, VleSize
    <3> QED
      BY <3>1 DEF LongWords, Retries, size
  <2> QED
    BY <1>8, <2>1, <2>2, <2>3, <2>4, <2>5, <2>6, <2>7 DEF Fetch, vleExhaustive
<1>9. CASE Commit
  <2>1. /\ pc = "commit" /\ pc' = "run" /\ UNCHANGED <<size, sizeError>>
        /\ currentInstruction' = nextInstruction
    BY <1>9 DEF Commit, Return
  <2>2. handler = "fault" /\ ~ sizeError
    BY <1>2, <2>1 DEF HandlerInv, VleSize
  <2>3. currentInstructionSize = 4 => IsLong(Prefix(nextInstruction))
    BY <1>1, <2>1, <2>2 DEF WordInv, Written, Pending
  <2> QED
    BY <2>1, <2>2, <2>3 DEF LongWords, Retries, size
<1> QED
  BY <1>6, <1>7, <1>8, <1>9 DEF Next, Unit

LEMMA SizeNext ==
  ASSUME VarInv, HandlerInv, SizeInv, PageInv, WordInv, Next
  PROVE  SizeInv'
BY FixedSizeNext, TornSizeNext, VleSizeNext, LongWordsNext DEF SizeInv

-----------------------------------------------------------------------------
(* The page. *)

\* writeInstruction puts an instruction where it is run.
LEMMA WrittenOnPage ==
  ASSUME VarInv, WriteInstruction, NEW k,
         k = (IF handler = "fault" THEN nextInstruction
                                  ELSE currentInstruction)
  PROVE  /\ page'[instructionPointer] = Prefix(k)
         /\ currentInstructionSize = 4 /\ instructionPointer = 4 =>
              page'[2] = Other(k)
         /\ currentInstructionSize = 2 /\ instructionPointer = 4 =>
              page'[2] = page[2]
<1>1. page' = [o \in {2, 4} |->
         CASE o = instructionPointer -> Prefix(k)
           [] o = instructionPointer - 2 /\ currentInstructionSize = 4 ->
                Other(k)
           [] OTHER -> page[o]]
  BY DEF WriteInstruction
<1>2. instructionPointer \in {2, 4}
  BY DEF VarInv
<1>3. \A o \in {2, 4} : page'[o] =
         CASE o = instructionPointer -> Prefix(k)
           [] o = instructionPointer - 2 /\ currentInstructionSize = 4 ->
                Other(k)
           [] OTHER -> page[o]
  BY <1>1
<1>4. page'[instructionPointer] = Prefix(k)
  BY <1>2, <1>3
<1>5. instructionPointer = 4 /\ currentInstructionSize = 4 => page'[2] = Other(k)
  BY <1>3
<1>6. instructionPointer = 4 /\ currentInstructionSize = 2 => page'[2] = page[2]
  BY <1>3
<1> QED
  BY <1>4, <1>5, <1>6


LEMMA PageNext ==
  ASSUME VarInv, HandlerInv, SizeInv, PageInv, Next
  PROVE  PageInv'
<1>1. UNCHANGED fetchInstruction
  BY SetupUnchanged DEF setup
<1>2. CASE Execute
  <2>1. /\ pc = "run" /\ handler' = "fault" /\ pc' \in {"analyse", "killed"}
        /\ fault' = FaultOf
        /\ UNCHANGED <<page, size, currentInstruction, overtaken>>
    BY <1>2 DEF Execute, progress, history
  <2>2. FaultOf' = FaultOf
    BY <1>1, <2>1 DEF FaultOf, ReadsPastPage, Ran, size
  <2>3. OnPage(currentInstruction) /\ (Torn => page[2] = Filler)
    BY <2>1 DEF PageInv, Written
  <2> QED
    BY <2>1, <2>2, <2>3 DEF PageInv, OnPage, Torn, Prefix, Other, size
<1>3. CASE Hang \/ LateHang
  BY <1>3 DEF Hang, LateHang, EnterHangHandler, PageInv
<1>4. CASE Entry
  <2>1. /\ pc = "entry" /\ pc' \in {"fetch", "write"}
        /\ UNCHANGED <<page, overtaken, handler>>
    BY <1>4 DEF Entry, history, entered
  <2> QED
    BY <2>1 DEF PageInv, Torn
<1>5. CASE Analyse
  <2>1. /\ pc' \in {"fetch", "lost"} /\ UNCHANGED overtaken
        /\ page' = IF handler = "hang" THEN StdPage ELSE page
    BY <1>5 DEF Analyse
  <2>2. StdPage[2] = Filler
    BY DEF StdPage
  <2> QED
    BY <2>1, <2>2 DEF PageInv, Torn
<1>6. CASE Fetch
  <2>1. UNCHANGED overtaken
    BY <1>6 DEF Fetch, history
  <2>2. pc # "analyse" /\ pc' \notin {"run", "commit", "analyse"}
    BY <1>6
    DEF Fetch, FetchVisited, vleExhaustive, RetryLonger, RetryPointer,
        RetrySize, NextExpansion, ShortenPointer, ShortenSize, NextPrefix,
        Result, stopWorker
  <2>3. UNCHANGED page \/ page' = StdPage
    BY <1>6
    DEF Fetch, FetchVisited, vleExhaustive, RetryLonger, RetryPointer,
        RetrySize, NextExpansion, ShortenPointer, ShortenSize, NextPrefix
  <2>4. StdPage[2] = Filler
    BY DEF StdPage
  <2> QED
    BY <2>1, <2>2, <2>3, <2>4 DEF PageInv, Torn
<1>7. CASE WriteInstruction
  <2>1. PICK k : k = (IF handler = "fault" THEN nextInstruction
                                           ELSE currentInstruction)
    OBVIOUS
  <2>2. /\ page'[instructionPointer] = Prefix(k)
        /\ currentInstructionSize = 4 /\ instructionPointer = 4 =>
             page'[2] = Other(k)
        /\ currentInstructionSize = 2 /\ instructionPointer = 4 =>
             page'[2] = page[2]
    BY <1>7, <2>1, WrittenOnPage
  <2>3. /\ pc = "write" /\ pc' \in {"run", "commit"}
        /\ UNCHANGED <<size, currentInstruction, nextInstruction, overtaken>>
        /\ handler = "fault" => pc' = "commit" /\ handler' = "fault"
        /\ handler # "fault" => pc' = "run"
    BY <1>7 DEF WriteInstruction, Return, history, entered
  <2>4. currentInstructionSize = 4 => instructionPointer = 4
    BY <2>3 DEF SizeInv, FixedSize, TornSize, VleSize
  <2>5. Written' = k
    BY <2>1, <2>3 DEF Written
  <2>6. OnPage(k)'
    BY <2>2, <2>3, <2>4 DEF OnPage, size, Prefix, Other
  <2>7. Torn' => page'[2] = Filler
    BY <2>2, <2>3 DEF PageInv, SizeInv, TornSize, Torn
  <2> QED
    BY <2>3, <2>5, <2>6, <2>7 DEF PageInv, OnPage
<1>8. CASE Commit
  <2>1. /\ pc = "commit" /\ pc' = "run" /\ currentInstruction' = nextInstruction
        /\ UNCHANGED <<page, size, overtaken>>
    BY <1>8 DEF Commit, Return, history
  <2>2. Written' = nextInstruction
    BY <2>1 DEF Written
  <2>3. OnPage(nextInstruction) /\ (Torn => page[2] = Filler)
    BY <2>1 DEF PageInv, Written, HandlerInv
  <2> QED
    BY <2>1, <2>2, <2>3 DEF PageInv, OnPage, Torn, size, Prefix, Other
<1>9. CASE Stopped
  <2>1. pc \in {"stop", "killed", "lost"}
        /\ UNCHANGED <<pc, page, overtaken, handler>>
    BY <1>9 DEF Stopped, vars, history, entered
  <2> QED
    BY <2>1 DEF PageInv, Torn
<1> QED
  BY <1>2, <1>3, <1>4, <1>5, <1>6, <1>7, <1>8, <1>9 DEF Next, Unit


-----------------------------------------------------------------------------
(* What a stage reaches. *)

LEMMA ReachStep ==
  ASSUME NEW stage \in {"exhaustive", "riscvg", "riscvc"}, NEW f \in instr_t,
         stage # "riscvg" => f < HalfMod,
         NEW x, Reach(stage, x, f), ~ AtEnd(stage, x, f)
  PROVE  /\ Reach(stage, NextVisited(stage, x), f)
         /\ x < f /\ x < NextVisited(stage, x)
         /\ stage = "riscvc" => ~ IsLong(NextVisited(stage, x))
         /\ stage = "riscvg" => NextVisited(stage, x) = x + 4
         /\ stage = "exhaustive" => NextVisited(stage, x) = x + 1
         /\ \A y \in Nat : x < y /\ y < NextVisited(stage, x) =>
              \/ stage = "riscvc" /\ IsLong(y)
              \/ stage = "riscvg" /\ (f - y) % 4 # 0
<1>1. x \in Nat /\ f \in Nat /\ f < InstrMod /\ InstrMod \in Nat
  BY ConstantFacts DEF Reach, instr_t
<1>2. x < f
  BY <1>1 DEF AtEnd, Reach
<1>3. \A d \in Nat : x + d < InstrMod => Plus(x, d) = x + d
  BY <1>1 DEF Plus
<1>4. CASE stage = "exhaustive"
  <2>1. NextVisited(stage, x) = x + 1
    BY <1>1, <1>2, <1>3, <1>4 DEF NextVisited
  <2> QED
    BY <1>1, <1>2, <1>4, <2>1 DEF Reach, instr_t
<1>5. CASE stage = "riscvg"
  <2>1. (f - x) % 4 = 0
    BY <1>5 DEF Reach
  <2>2. x + 4 <= f /\ (f - (x + 4)) % 4 = 0
    BY <1>1, <1>2, <2>1
  <2>3. NextVisited(stage, x) = x + 4
    BY <1>1, <1>3, <1>5, <2>2 DEF NextVisited
  <2>4. ASSUME NEW y \in Nat, x < y, y < x + 4 PROVE (f - y) % 4 # 0
    BY <1>1, <2>1, <2>4
  <2> QED
    BY <1>1, <1>2, <1>5, <2>2, <2>3, <2>4 DEF Reach, instr_t
<1>6. CASE stage = "riscvc"
  <2>1. f + 1 < InstrMod
    <3>1. f < HalfMod /\ HalfMod \in Nat /\ InstrMod = HalfMod * HalfMod
      BY <1>6, ConstantFacts
    <3>2. HalfMod >= 2
      BY <1>1, <1>2, <3>1
    <3>3. HalfMod * HalfMod >= 2 * HalfMod
      <4>1. (HalfMod - 2) * HalfMod >= 0
        BY <3>1, <3>2
      <4> QED
        BY <3>1, <4>1
    <3> QED
      BY <1>1, <3>1, <3>2, <3>3
  <2>2. Plus(x, 1) = x + 1 /\ Plus(x, 2) = x + 2
    BY <1>1, <1>2, <1>3, <2>1
  <2>3. /\ \/ NextVisited(stage, x) = x + 1
           \/ NextVisited(stage, x) = x + 2 /\ IsLong(x + 1)
        /\ ~ IsLong(NextVisited(stage, x))
    BY <1>1, <1>6, <2>2 DEF NextVisited, NextCompressed, IsLong
  <2>4. ASSUME NEW y \in Nat, x < y, y < NextVisited(stage, x)
        PROVE  IsLong(y)
    <3>1. y = x + 1 /\ NextVisited(stage, x) = x + 2
      BY <1>1, <2>3, <2>4
    <3> QED
      BY <2>3, <2>4, <3>1
  <2> QED
    BY <1>1, <1>2, <1>6, <2>1, <2>3, <2>4 DEF Reach, instr_t
<1> QED
  BY <1>4, <1>5, <1>6

\* As long as a stage is not at the end, it ascends within its part.
LEMMA ReachWalk ==
  ASSUME NEW stage \in {"exhaustive", "riscvg", "riscvc"}, NEW f \in instr_t,
         stage # "riscvg" => f < HalfMod,
         NEW k, Reach(stage, k, f), NEW n \in Nat,
         \A e \in 0 .. n - 1 : ~ AtEnd(stage, Visited(stage, k, e), f)
  PROVE  \A e \in 0 .. n : /\ Reach(stage, Visited(stage, k, e), f)
                           /\ k + e <= Visited(stage, k, e)
<1> DEFINE Good(e) == /\ Reach(stage, Visited(stage, k, e), f)
                      /\ k + e <= Visited(stage, k, e)
           Bad == {e \in Nat : e <= n /\ ~ Good(e)}
<1>1. SUFFICES ASSUME Bad # {} PROVE FALSE
  OBVIOUS
<1>2. PICK m \in Bad : \A j \in Bad : m <= j
  BY <1>1, LeastNatural
<1>3. k \in instr_t /\ k \in Nat
  BY HalvesFacts DEF Reach
<1>4. m # 0
  <2>1. Good(0)
    BY <1>3, VisitedSteps
  <2> QED
    BY <1>2, <2>1
<1>5. m \in Nat /\ m <= n /\ ~ Good(m)
  BY <1>2
<1>6. m - 1 \in Nat /\ m - 1 \in 0 .. n - 1 /\ ~ (m <= m - 1)
      /\ (m - 1) + 1 = m
  BY <1>4, <1>5
<1>7. Good(m - 1)
  BY <1>2, <1>6
<1> DEFINE x == Visited(stage, k, m - 1)
<1>8. Visited(stage, k, m) = NextVisited(stage, x)
  <2>1. Visited(stage, k, (m - 1) + 1) = NextVisited(stage, x)
    BY <1>6, VisitedSteps
  <2> QED
    BY <1>6, <2>1
<1>9. Reach(stage, NextVisited(stage, x), f) /\ x < NextVisited(stage, x)
  BY <1>6, <1>7, ReachStep
<1>10. x \in Nat /\ NextVisited(stage, x) \in Nat /\ k + (m - 1) <= x
  BY <1>7, <1>9, HalvesFacts DEF Reach
<1>11. k + m <= NextVisited(stage, x)
  BY <1>3, <1>5, <1>9, <1>10
<1> QED
  BY <1>5, <1>8, <1>9, <1>11

\* A stage visits what it does not leave out.
LEMMA NothingLeftOut ==
  ASSUME NEW stage \in {"exhaustive", "riscvg", "riscvc"}, NEW f \in instr_t,
         stage # "riscvg" => f < HalfMod,
         NEW k, Reach(stage, k, f), NEW n \in Nat,
         \A e \in 0 .. n - 1 : ~ AtEnd(stage, Visited(stage, k, e), f),
         NEW y \in Nat, k < y, y <= Visited(stage, k, n)
  PROVE  \/ \E e \in 1 .. n : y = Visited(stage, k, e)
         \/ stage = "riscvc" /\ IsLong(y)
         \/ stage = "riscvg" /\ (f - y) % 4 # 0
<1> DEFINE Beyond == {e \in Nat : e <= n /\ y <= Visited(stage, k, e)}
<1>1. n \in Beyond
  OBVIOUS
<1>2. PICK m \in Beyond : \A j \in Beyond : m <= j
  BY <1>1, LeastNatural
<1>3. k \in Nat
  BY HalvesFacts DEF Reach
<1>4. m # 0
  BY <1>2, <1>3, VisitedSteps
<1>5. m \in Nat /\ m <= n /\ y <= Visited(stage, k, m)
  BY <1>2
<1>6. m - 1 \in Nat /\ m - 1 \in 0 .. n - 1 /\ m - 1 \in 0 .. n /\ m \in 1 .. n
      /\ ~ (m <= m - 1) /\ m - 1 <= n /\ (m - 1) + 1 = m
  BY <1>4, <1>5
<1> DEFINE x == Visited(stage, k, m - 1)
<1>7. Visited(stage, k, m) = NextVisited(stage, x)
  <2>1. Visited(stage, k, (m - 1) + 1) = NextVisited(stage, x)
    BY <1>6, VisitedSteps
  <2> QED
    BY <1>6, <2>1
<1>8. Reach(stage, x, f) /\ ~ AtEnd(stage, x, f)
  BY <1>6, ReachWalk
<1>9. x < y
  <2>1. ~ (y <= x)
    BY <1>2, <1>6
  <2>2. x \in Nat
    BY <1>8, HalvesFacts DEF Reach
  <2> QED
    BY <2>1, <2>2
<1>10. CASE y = Visited(stage, k, m)
  BY <1>6, <1>10
<1>11. CASE y # Visited(stage, k, m)
  <2>1. NextVisited(stage, x) \in Nat
    BY <1>8, NextVisitedType, HalvesFacts DEF Reach
  <2>2. y < NextVisited(stage, x)
    BY <1>5, <1>7, <1>11, <2>1
  <2> QED
    BY <1>8, <1>9, <2>2, ReachStep
<1> QED
  BY <1>10, <1>11

\* What a stage yields is in reach, and beyond where it started.
LEMMA YieldsFacts ==
  ASSUME NEW stage \in {"exhaustive", "riscvg", "riscvc"}, NEW f \in instr_t,
         stage # "riscvg" => f < HalfMod,
         NEW k, Reach(stage, k, f), NEW n \in Nat, Yields(stage, k, f, n)
  PROVE  LET next == Visited(stage, k, n + 1)
         IN /\ Reach(stage, next, f) /\ ~ search(next) /\ k < next
            /\ stage = "riscvc" => ~ IsLong(next)
<1>1. \A e \in 0 .. n : ~ AtEnd(stage, Visited(stage, k, e), f)
  BY DEF Yields, PassesOver
<1>2. \A e \in 0 .. (n + 1) - 1 : ~ AtEnd(stage, Visited(stage, k, e), f)
  BY <1>1
<1>3. n + 1 \in Nat /\ n + 1 \in 0 .. n + 1
  OBVIOUS
<1>4. Reach(stage, Visited(stage, k, n + 1), f)
      /\ k + (n + 1) <= Visited(stage, k, n + 1)
  BY <1>2, <1>3, ReachWalk
<1>5. k \in Nat /\ Visited(stage, k, n + 1) \in Nat
  BY <1>4, HalvesFacts DEF Reach
<1>6. Visited(stage, k, n + 1) = NextVisited(stage, Visited(stage, k, n))
  BY VisitedSteps
<1>7. Reach(stage, Visited(stage, k, n), f) /\ ~ AtEnd(stage, Visited(stage, k, n), f)
  BY <1>1, <1>2, <1>3, ReachWalk
<1>8. stage = "riscvc" => ~ IsLong(Visited(stage, k, n + 1))
  BY <1>6, <1>7, ReachStep
<1> QED
  BY <1>4, <1>5, <1>8 DEF Yields


-----------------------------------------------------------------------------
(* What is run next. *)

LEMMA WordNext ==
  ASSUME PartsInOrder, VarInv, HandlerInv, SizeInv, PageInv, WordInv, Next
  PROVE  WordInv'
<1>1. UNCHANGED <<fetchInstruction, firstInstruction, finalInstruction>>
  BY SetupUnchanged DEF setup
<1>2. currentInstruction \in instr_t /\ currentInstructionSize \in {2, 4}
      /\ instructionPointer \in {2, 4}
  BY DEF VarInv
<1>3. vle /\ currentInstructionSize = 4 => VleSize /\ LongWords
  BY DEF SizeInv, TornSize
<1>4. pc \in {"retryPointer", "retrySize"} => vle /\ VleSize /\ LongWords
  BY DEF SizeInv, TornSize, HandlerInv, VlePcs
<1>5. sizeError => vle /\ ~ Torn /\ VleSize /\ LongWords
  BY DEF SizeInv, TornSize, FixedSize, VarInv
<1>6. CASE Execute \/ Hang \/ LateHang \/ Stopped
  <2>1. /\ UNCHANGED <<currentInstruction, size, sizeError>>
        /\ \/ pc = "run" /\ pc' \in {"analyse", "killed"}
           \/ pc' = "analyse" /\ handler' = "hang"
           \/ pc \in {"stop", "killed", "lost"} /\ UNCHANGED <<pc, handler>>
    BY <1>6
    DEF Execute, Hang, LateHang, EnterHangHandler, Stopped, vars, progress,
        entered
  <2>2. Pending' => pc = "run" /\ pc' # "entry" /\ Written' = currentInstruction
                    /\ Written = currentInstruction
    BY <2>1 DEF Pending, Written
  <2>3. pc' # "entry"
    BY <2>1
  <2>4. Retries' => Retries
    BY <2>1 DEF Retries
  <2> QED
    BY <1>1, <2>1, <2>2, <2>3, <2>4
    DEF WordInv, Pending, size, vle, Prefix, Written
<1>7. CASE Entry
  <2>1. /\ pc = "entry" /\ handler = "entry" /\ handler' = "entry"
        /\ pc' = IF search(currentInstruction) THEN "fetch" ELSE "write"
        /\ UNCHANGED <<currentInstruction, size, sizeError>>
    BY <1>7 DEF Entry, progress, entered, HandlerInv
  <2>2. Written' = currentInstruction /\ currentInstruction = firstInstruction
    BY <2>1 DEF Written, WordInv
  <2>3. vle => firstInstruction < HalfMod
    <3>1. firstInstruction <= finalInstruction
      BY DEF PartsInOrder, VarInv
    <3>2. vle => finalInstruction \in 0 .. HalfMod - 1
      BY SetupFacts DEF vle
    <3>3. firstInstruction \in Nat /\ HalfMod \in Nat
      BY SetupFacts, HalvesFacts, ConstantFacts
    <3> QED
      BY <3>1, <3>2, <3>3
  <2>4. ~ Retries'
    BY <1>5, <2>1 DEF Retries, VleSize
  <2>5. vle /\ currentInstructionSize = 4 => IsLong(Prefix(currentInstruction))
    BY <1>3 DEF LongWords
  <2> QED
    BY <1>1, <2>1, <2>2, <2>3, <2>4, <2>5
    DEF WordInv, Pending, size, vle, Prefix
<1>8. CASE Analyse
  <2>1. /\ pc = "analyse" /\ pc' \in {"fetch", "lost"}
        /\ UNCHANGED <<size, currentInstruction, handler>>
        /\ sizeError' = IF fetchInstruction = "vle" /\ SizeCheck THEN TRUE
                        ELSE sizeError
    BY <1>8 DEF Analyse, analyse, progress, entered
  <2>2. fetchInstruction = "vle" /\ SizeCheck =>
          ~ search(currentInstruction) /\ currentInstruction < HalfMod
    <3>1. SUFFICES ASSUME fetchInstruction = "vle", SizeCheck
          PROVE  ~ search(currentInstruction) /\ currentInstruction < HalfMod
      OBVIOUS
    <3>2. handler = "fault" /\ instructionPointer = 2
      BY <2>1, <3>1, SizeErrorFacts
    <3>3. currentInstructionSize = 2
      <4>1. ~ Torn
        BY <3>2 DEF SizeInv, TornSize
      <4> QED
        BY <2>1, <3>1, <3>2, <4>1 DEF SizeInv, VleSize, vle
    <3> QED
      BY <2>1, <3>1, <3>2, <3>3 DEF WordInv, Pending, Written, vle
  <2>3. Retries' => ~ search(currentInstruction) /\ currentInstruction < HalfMod
    BY <2>1, <2>2 DEF Retries, WordInv
  <2> QED
    BY <1>1, <2>1, <2>3 DEF WordInv, Pending, size, vle, Prefix
<1>9. CASE FetchVisited /\ UNCHANGED entered
  <2>1. PICK n \in 0 .. InstrMod :
          \/ /\ Yields(fetchInstruction, currentInstruction, finalInstruction, n)
             /\ Result(Visited(fetchInstruction, currentInstruction, n + 1))
          \/ stopWorker
    BY <1>9 DEF FetchVisited
  <2>2. ~ vle /\ UNCHANGED <<size, sizeError, handler>> /\ ~ Retries
    BY <1>4, <1>5, <1>9 DEF FetchVisited, entered, Retries, vle
  <2>3. CASE stopWorker
    BY <1>1, <2>2, <2>3
    DEF stopWorker, WordInv, Pending, Retries, vle, HandlerInv
  <2>4. CASE /\ Yields(fetchInstruction, currentInstruction, finalInstruction, n)
             /\ Result(Visited(fetchInstruction, currentInstruction, n + 1))
    <3>1. pc' = "write"
          /\ Written' = Visited(fetchInstruction, currentInstruction, n + 1)
      BY <2>2, <2>4 DEF Result, Written
    <3> QED
      BY <1>1, <2>2, <2>4, <3>1 DEF Yields, WordInv, Pending, Retries, vle
  <2> QED
    BY <2>1, <2>3, <2>4
<1>10. CASE vleExhaustive /\ UNCHANGED entered
  <2>1. UNCHANGED handler /\ vle
    BY <1>10
    DEF vleExhaustive, RetryLonger, RetryPointer, RetrySize, NextExpansion,
        ShortenPointer, ShortenSize, NextPrefix, HandlerInv, VlePcs, vle, entered
  <2>2. instructionSize = 2 /\ instructionSizeUC = 4
    BY <2>1 DEF instructionSize, instructionSizeUC, vle
  <2>3. CASE RetryLonger
    BY <1>1, <2>1, <2>3
    DEF RetryLonger, WordInv, Retries, Pending, size, progress, vle, Prefix
  <2>4. CASE RetryPointer
    BY <1>1, <2>1, <2>4
    DEF RetryPointer, WordInv, Retries, Pending, progress, vle, Prefix
  <2>5. CASE RetrySize
    <3>1. /\ Retries /\ pc' = "write" /\ sizeError' = sizeError
          /\ currentInstructionSize' = 4 /\ currentInstruction' = currentInstruction
          /\ Written' = currentInstruction
      BY <2>1, <2>2, <2>5 DEF RetrySize, Result, Retries, Written
    <3>2. IsLong(Prefix(currentInstruction)) /\ ~ sizeError
      BY <1>4, <2>5, <3>1 DEF LongWords, RetrySize, VleSize
    <3>3. ~ search(currentInstruction) /\ currentInstruction < HalfMod
      BY <3>1 DEF WordInv
    <3>4. Prefix(currentInstruction) = currentInstruction
      BY <1>2, <3>3, HalvesFacts
    <3> QED
      BY <1>1, <3>1, <3>2, <3>3, <3>4
      DEF WordInv, Retries, Pending, vle, Prefix
  <2>6. CASE NextExpansion
    <3>1. /\ UNCHANGED <<size, sizeError>> /\ currentInstructionSize = 4
          /\ ~ sizeError
      BY <2>2, <2>6 DEF NextExpansion
    <3>2. ~ Retries'
      BY <2>6, <3>1 DEF NextExpansion, Result, stopWorker, Retries
    <3>3. IsLong(Prefix(currentInstruction)) /\ ~ search(Prefix(currentInstruction))
      BY <1>3, <2>1, <3>1 DEF LongWords, WordInv
    <3>4. CASE Expansions # {} /\ Result(Min(Expansions))
      <4>1. pc' = "write" /\ Written' = Min(Expansions)
            /\ currentInstruction' \in {currentInstruction, Min(Expansions)}
        BY <2>1, <3>4 DEF Result, Written
      <4>2. ~ search(Min(Expansions))
            /\ Prefix(Min(Expansions)) = Prefix(currentInstruction)
        BY <1>2, <3>4, ExpansionFacts
      <4> QED
        BY <1>1, <3>1, <3>2, <3>3, <4>1, <4>2 DEF WordInv, Pending, size, vle, Prefix
    <3>5. CASE pc' \in {"stop", "shortenPointer"} /\ UNCHANGED currentInstruction
      BY <1>1, <3>1, <3>2, <3>3, <3>5 DEF WordInv, Pending, size, vle, Prefix
    <3> QED
      BY <2>6, <3>4, <3>5 DEF NextExpansion, stopWorker, progress
  <2>7. CASE ShortenPointer \/ ShortenSize
    BY <1>1, <1>3, <2>1, <2>2, <2>7
    DEF ShortenPointer, ShortenSize, WordInv, Pending, Retries, progress, vle,
        Prefix
  <2>8. CASE NextPrefix
    <3> DEFINE p == Prefix(currentInstruction)
    <3>1. /\ currentInstructionSize = 2 /\ ~ sizeError
          /\ UNCHANGED <<size, sizeError>>
      BY <1>2, <1>3, <1>5, <2>1, <2>2, <2>8 DEF NextPrefix, VleSize
    <3>2. CASE stopWorker
      BY <1>1, <2>1, <3>1, <3>2
      DEF stopWorker, WordInv, Pending, Retries, size, vle
    <3>3. CASE /\ ~ (p + 1 .. finalInstruction \subseteq Blacklist)
               /\ Result(Min(LeftOf(p)))
      <4>1. p \in 0 .. HalfMod - 1 /\ finalInstruction \in 0 .. HalfMod - 1
            /\ HalfMod \in Nat
        BY <1>2, <2>1, HalvesFacts, SetupFacts, ConstantFacts DEF vle
      <4>2. ~ search(Min(LeftOf(p))) /\ Min(LeftOf(p)) \in p + 1 .. HalfMod - 1
        BY <3>3, <4>1, LeftFacts
      <4>3. Min(LeftOf(p)) < HalfMod
        BY <4>1, <4>2
      <4>4. pc' = "write" /\ Written' = Min(LeftOf(p))
        BY <2>1, <3>3 DEF Result, Written
      <4> QED
        BY <1>1, <2>1, <3>1, <4>2, <4>3, <4>4
        DEF WordInv, Pending, Retries, size, vle
    <3> QED
      BY <2>8, <3>2, <3>3 DEF NextPrefix, LeftOf
  <2> QED
    BY <1>10, <2>3, <2>4, <2>5, <2>6, <2>7, <2>8 DEF vleExhaustive
<1>11. CASE WriteInstruction
  <2>1. /\ pc = "write" /\ pc' \in {"run", "commit"}
        /\ UNCHANGED <<size, sizeError, currentInstruction, nextInstruction>>
        /\ handler = "fault" => pc' = "commit" /\ handler' = "fault"
        /\ handler # "fault" => pc' = "run"
    BY <1>11 DEF WriteInstruction, Return, entered
  <2>2. Written' = Written /\ Pending
    BY <2>1 DEF Written, Pending
  <2>3. Retries' => Retries
    BY <2>1 DEF Retries
  <2> QED
    BY <1>1, <2>1, <2>2, <2>3 DEF WordInv, size, vle, Prefix
<1>12. CASE Commit
  <2>1. /\ pc = "commit" /\ handler = "fault" /\ pc' = "run"
        /\ UNCHANGED <<size, sizeError>>
        /\ currentInstruction' = nextInstruction
    BY <1>12 DEF Commit, Return, HandlerInv
  <2>2. Written' = Written /\ Written = nextInstruction /\ Pending
    BY <2>1 DEF Written, Pending
  <2>3. ~ Retries'
    BY <1>5, <2>1 DEF Retries, VleSize
  <2>4. vle /\ currentInstructionSize = 4 => ~ search(Prefix(nextInstruction))
    BY <2>1, <2>2 DEF WordInv
  <2> QED
    BY <1>1, <2>1, <2>2, <2>3, <2>4 DEF WordInv, size, vle, Prefix
<1> QED
  BY <1>6, <1>7, <1>8, <1>9, <1>10, <1>11, <1>12 DEF Next, Unit, Fetch


-----------------------------------------------------------------------------
(* Staying in the part. *)

LEMMA InPartStill ==
  ASSUME Next, NEW k, InPart(k) PROVE InPart(k)'
<1>1. UNCHANGED <<fetchInstruction, firstInstruction, finalInstruction>>
  BY SetupUnchanged DEF setup
<1> QED
  BY <1>1 DEF InPart, vle, Proper, Aligned, Reach, Prefix, Other

\* Only a stage brings in a new instruction.
LEMMA WrittenStill ==
  ASSUME HandlerInv, Next, ~ Fetch
  PROVE  /\ currentInstruction' \in {currentInstruction, Written}
         /\ Written' \in {currentInstruction, Written}
<1>1. CASE \/ Execute \/ Hang \/ LateHang \/ Entry \/ Analyse \/ Stopped
  <2>1. /\ UNCHANGED <<currentInstruction, nextInstruction>>
        /\ \/ pc' \notin {"write", "commit"}
           \/ handler' = "entry"
           \/ UNCHANGED <<pc, handler>>
    BY <1>1
    DEF Execute, Hang, LateHang, EnterHangHandler, Entry, Analyse, Stopped,
        vars, progress, entered, HandlerInv
  <2> QED
    BY <2>1 DEF Written
<1>2. CASE WriteInstruction
  BY <1>2 DEF WriteInstruction, Return, Written, entered
<1>3. CASE Commit
  BY <1>3 DEF Commit, Return, Written, HandlerInv
<1> QED
  BY <1>1, <1>2, <1>3 DEF Next, Unit

\* What a stage brings in.
LEMMA ResultFacts ==
  ASSUME NEW k, Result(k), UNCHANGED entered
  PROVE  /\ pc' = "write" /\ Written' = k /\ UNCHANGED handler
         /\ currentInstruction' = IF handler = "fault" THEN currentInstruction
                                                       ELSE k
BY DEF Result, Written, entered

\* A stage leaves the current instruction alone, or brings in another one.
LEMMA FetchCases ==
  ASSUME VarInv, HandlerInv, SizeInv, Fetch
  PROVE  \/ /\ UNCHANGED currentInstruction /\ pc' \notin {"write", "commit"}
         \/ Result(currentInstruction) /\ RetrySize
         \/ /\ ~ vle
            /\ \E n \in 0 .. InstrMod :
                 /\ Yields(fetchInstruction, currentInstruction,
                           finalInstruction, n)
                 /\ Result(Visited(fetchInstruction, currentInstruction, n + 1))
         \/ /\ vle /\ currentInstructionSize = 4 /\ Expansions # {}
            /\ currentInstruction # finalInstruction
            /\ Result(Min(Expansions)) /\ NextExpansion
         \/ /\ vle /\ currentInstructionSize = 2 /\ NextPrefix
            /\ ~ (Prefix(currentInstruction) + 1 .. finalInstruction
                    \subseteq Blacklist)
            /\ Result(Min(LeftOf(Prefix(currentInstruction))))
<1>1. CASE FetchVisited
  BY <1>1 DEF FetchVisited, stopWorker, vle
<1>2. CASE RetryLonger \/ RetryPointer \/ ShortenPointer \/ ShortenSize
  BY <1>2
  DEF RetryLonger, RetryPointer, ShortenPointer, ShortenSize, progress
<1>3. CASE RetrySize
  BY <1>3 DEF RetrySize
<1>4. CASE NextExpansion
  BY <1>4 DEF NextExpansion, stopWorker, progress, vle, instructionSizeUC
<1>5. CASE NextPrefix
  <2>1. vle /\ currentInstructionSize = 2
    <3>1. vle
      BY <1>5 DEF NextPrefix, HandlerInv, VlePcs, vle
    <3>2. currentInstructionSize \in {2, 4}
      BY DEF VarInv
    <3> QED
      BY <1>5, <3>1, <3>2
      DEF NextPrefix, SizeInv, TornSize, VleSize, instructionSizeUC
  <2> QED
    BY <1>5, <2>1 DEF NextPrefix, LeftOf, stopWorker
<1> QED
  BY <1>1, <1>2, <1>3, <1>4, <1>5 DEF Fetch, vleExhaustive

LEMMA RangeNext ==
  ASSUME PartsInOrder, VarInv, HandlerInv, SizeInv, RangeInv, Next
  PROVE  RangeInv'
<1>1. InPart(currentInstruction) /\ InPart(Written)
  BY DEF RangeInv
<1>2. CASE ~ Fetch
  BY <1>1, <1>2, WrittenStill, InPartStill DEF RangeInv
<1>3. CASE Fetch
  <2>1. UNCHANGED entered
    BY <1>3 DEF Fetch
  <2>2. ASSUME NEW k, Result(k), InPart(k) PROVE RangeInv'
    BY <1>1, <2>1, <2>2, ResultFacts, InPartStill DEF RangeInv
  <2>3. currentInstruction \in instr_t /\ HalfMod \in Nat
    BY ConstantFacts DEF VarInv
  <2>4. CASE UNCHANGED currentInstruction /\ pc' \notin {"write", "commit"}
    BY <1>1, <2>4, InPartStill DEF RangeInv, Written
  <2>5. CASE Result(currentInstruction)
    BY <1>1, <2>2, <2>5
  <2>6. ASSUME ~ vle, NEW n \in 0 .. InstrMod,
               Yields(fetchInstruction, currentInstruction, finalInstruction, n),
               Result(Visited(fetchInstruction, currentInstruction, n + 1))
        PROVE  RangeInv'
    <3> DEFINE next == Visited(fetchInstruction, currentInstruction, n + 1)
    <3>1. fetchInstruction \in {"exhaustive", "riscvg", "riscvc"}
      BY <2>6, SetupFacts DEF Stages, vle
    <3>2. /\ finalInstruction \in instr_t /\ n \in Nat
          /\ fetchInstruction # "riscvg" => finalInstruction < HalfMod
      BY <2>3, SetupFacts, ConstantFacts
    <3>3. SUFFICES ASSUME Proper PROVE InPart(next)
      BY <2>2, <2>6 DEF InPart
    <3>4. firstInstruction <= currentInstruction
          /\ Reach(fetchInstruction, currentInstruction, finalInstruction)
      BY <1>1, <2>6, <3>3 DEF InPart
    <3>5. /\ Reach(fetchInstruction, next, finalInstruction)
          /\ currentInstruction < next
          /\ fetchInstruction = "riscvc" => ~ IsLong(next)
      BY <2>6, <3>1, <3>2, <3>4, YieldsFacts
    <3>6. firstInstruction \in Nat /\ currentInstruction \in Nat /\ next \in Nat
      BY <2>3, <3>5, SetupFacts, HalvesFacts DEF Reach
    <3> QED
      BY <2>6, <3>4, <3>5, <3>6 DEF InPart
  <2>7. CASE /\ vle /\ Expansions # {} /\ currentInstruction # finalInstruction
             /\ Result(Min(Expansions))
    <3>1. /\ Prefix(Min(Expansions)) = Prefix(currentInstruction)
          /\ Min(Expansions) \in instr_t
      BY <2>3, <2>7, ExpansionFacts
    <3>2. Prefix(currentInstruction) # finalInstruction
      <4>1. SUFFICES ASSUME Prefix(currentInstruction) = finalInstruction
            PROVE  FALSE
        OBVIOUS
      <4>2. Other(currentInstruction) = 0
        BY <1>1, <2>7, <4>1 DEF InPart
      <4>3. construct(Prefix(currentInstruction), 0) = currentInstruction
        BY <2>3, <4>2, HalvesFacts
      <4>4. Prefix(currentInstruction) \in Nat
        BY <2>3, HalvesFacts, ConstantFacts
      <4> QED
        BY <2>3, <2>7, <4>1, <4>3, <4>4 DEF construct
    <3> QED
      BY <1>1, <2>2, <2>7, <3>1, <3>2 DEF InPart
  <2>8. CASE /\ vle
             /\ ~ (Prefix(currentInstruction) + 1 .. finalInstruction
                    \subseteq Blacklist)
             /\ Result(Min(LeftOf(Prefix(currentInstruction))))
    <3> DEFINE p == Prefix(currentInstruction)
               q == Min(LeftOf(p))
    <3>1. p \in 0 .. HalfMod - 1 /\ finalInstruction \in 0 .. HalfMod - 1
      BY <2>3, <2>8, HalvesFacts, SetupFacts DEF vle
    <3>2. q \in p + 1 .. HalfMod - 1 /\ q \in instr_t /\ q <= finalInstruction
      BY <2>8, <3>1, LeftFacts
    <3>3. Prefix(q) = q /\ Other(q) = 0
      BY <2>3, <3>1, <3>2, HalvesFacts
    <3>4. p >= firstInstruction /\ firstInstruction \in Nat
      BY <1>1, <2>8, SetupFacts, HalvesFacts DEF InPart
    <3>5. q \in firstInstruction .. finalInstruction
      BY <2>3, <3>1, <3>2, <3>4
    <3>6. InPart(q)
      BY <2>8, <3>3, <3>5 DEF InPart
    <3> QED
      BY <2>2, <2>8, <3>6
  <2> QED
    BY <1>3, <2>4, <2>5, <2>6, <2>7, <2>8, FetchCases
<1> QED
  BY <1>2, <1>3


-----------------------------------------------------------------------------
(* The registers. *)

\* On a stack that the kernel aligned to the block, the block is the same for
\* two handlers as for one.
LEMMA AlignedBlock ==
  ASSUME NEW base \in Nat, base % (4 * pageSize) = 0
  PROVE  \E b : \A g \in 1 .. 2 * pageSize :
           RecoveryAddress(Top(base) - g) = b
<1>1. PICK n \in Nat : base = 16384 * n
  BY DEF pageSize
<1>2. ASSUME NEW g \in 1 .. 2 * pageSize
      PROVE  RecoveryAddress(Top(base) - g) = 16384 * n + 32768
  <2>1. g \in 1 .. 8192
    BY DEF pageSize
  <2>2. Top(base) - g + 4 * pageSize = 16384 * (n + 2) + (16384 - g)
    BY <1>1, <2>1 DEF Top, pageSize
  <2>3. (16384 * (n + 2) + (16384 - g)) % 16384 = 16384 - g
    BY <2>1
  <2> QED
    BY <2>1, <2>2, <2>3 DEF RecoveryAddress, pageSize
<1> QED
  BY <1>2

LEMMA AlignedStack ==
  ASSUME NEW base \in Nat, base % (4 * pageSize) = 0,
         NEW f \in 1 .. 2 * pageSize
  PROVE  RecoveryAddress(Top(base) - f) = RecoveryAddress(Top(base) - 1)
<1>1. 1 \in 1 .. 2 * pageSize
  BY DEF pageSize
<1> QED
  BY <1>1, AlignedBlock

LEMMA RegistersFacts ==
  ASSUME VarInv, NEW f \in Frames
  PROVE  /\ RecoveryAddress(Top(altStack) - f)
              = RecoveryAddress(Top(altStack) - 1)
         /\ RecoveryAddress(Top(altStack) - 1) + 15 \in AltMapped(altStack)
         /\ RecoveryAddress(Top(altStack) - 1) # None
<1>1. altStack \in Nat /\ altStack % pageSize = 0 /\ f \in 1 .. pageSize
  BY SetupFacts, RiscvAssumption
<1>2. Top(altStack) \in Nat /\ Top(altStack) > 0
  BY <1>1 DEF Top, pageSize
<1>3. Top(altStack) - f \in Top(altStack) - pageSize .. Top(altStack) - 1
  <2>1. f \in Nat /\ 1 <= f /\ f <= pageSize /\ pageSize \in Nat
    BY <1>1 DEF pageSize
  <2>2. Top(altStack) \in Nat
    BY <1>2
  <2> QED
    BY <2>1, <2>2
<1>4. /\ RecoveryAddress(Top(altStack) - f) = RecoveryAddress(Top(altStack) - 1)
      /\ RecoveryAddress(Top(altStack) - f) >= Top(altStack)
      /\ RecoveryAddress(Top(altStack) - f) + 15 \in AltMapped(altStack)
  BY <1>1, <1>3, RegistersFound
<1> QED
  BY <1>2, <1>4 DEF None

LEMMA RecoveryNext ==
  ASSUME VarInv, HandlerInv, RecoveryInv, Next
  PROVE  RecoveryInv'
<1>1. UNCHANGED altStack
  BY SetupUnchanged DEF setup
<1>2. ASSUME UNCHANGED <<recovery, overtaken>>, pc = "entry" => pc' = "entry"
      PROVE  /\ recovery' \in {None, RecoveryAddress(Top(altStack) - 1)}
             /\ pc' # "entry" /\ <<"entry", "entry">> \notin overtaken' =>
                  recovery' # None
  BY <1>2 DEF RecoveryInv
<1>3. CASE Execute
  BY <1>1, <1>2, <1>3 DEF Execute, RecoveryInv, history
<1>4. CASE Hang
  BY <1>1, <1>2, <1>4 DEF Hang, EnterHangHandler, RecoveryInv
<1>5. CASE LateHang
  <2>1. /\ UNCHANGED recovery /\ pc' = "analyse" /\ handler' = "hang"
        /\ overtaken' = overtaken \cup {<<handler, pc>>}
    BY <1>5 DEF LateHang, EnterHangHandler
  <2>2. Late' /\ (pc = "entry" => <<"entry", "entry">> \in overtaken')
    BY <2>1 DEF Late, HandlerInv
  <2>3. sp' \in {Top(altStack) - f : f \in Frames}
              \cup {Top(altStack) - f : f \in NestedFrames}
    BY <1>5 DEF LateHang, EnterHangHandler
  <2> QED
    BY <1>1, <2>1, <2>2, <2>3 DEF RecoveryInv
<1>6. CASE Entry
  <2>1. /\ pc = "entry" /\ handler = "entry" /\ pc' # "run"
        /\ recovery' = RecoveryAddress(sp) /\ UNCHANGED <<sp, handler, overtaken>>
    BY <1>6 DEF Entry, entered, history, HandlerInv
  <2>2. PICK f \in Frames : sp = Top(altStack) - f
    BY <2>1 DEF RecoveryInv
  <2>3. recovery' = RecoveryAddress(Top(altStack) - 1) /\ recovery' # None
    BY <2>1, <2>2, RegistersFacts
  <2> QED
    BY <1>1, <2>1, <2>2, <2>3 DEF RecoveryInv
<1>7. CASE Analyse
  BY <1>1, <1>2, <1>7 DEF Analyse, RecoveryInv, entered, Late
<1>8. CASE Fetch
  <2>1. UNCHANGED <<sp, handler, overtaken, recovery>>
    BY <1>8 DEF Fetch, entered, history
  <2>2. pc # "run" /\ pc # "entry" /\ pc' # "entry"
    BY <1>8
    DEF Fetch, FetchVisited, vleExhaustive, RetryLonger, RetryPointer,
        RetrySize, NextExpansion, ShortenPointer, ShortenSize, NextPrefix,
        Result, stopWorker
  <2> QED
    BY <1>1, <1>2, <2>1, <2>2 DEF RecoveryInv, Late
<1>9. CASE WriteInstruction
  BY <1>1, <1>2, <1>9
  DEF WriteInstruction, Return, RecoveryInv, entered, history, Late
<1>10. CASE Commit
  BY <1>1, <1>2, <1>10 DEF Commit, Return, RecoveryInv, history
<1>11. CASE Stopped
  BY <1>1, <1>2, <1>11 DEF Stopped, vars, RecoveryInv, entered, history, Late
<1> QED
  BY <1>3, <1>4, <1>5, <1>6, <1>7, <1>8, <1>9, <1>10, <1>11 DEF Next, Unit

LEMMA RegistersRecoveredNext ==
  ASSUME VarInv, HandlerInv, RecoveryInv, RegistersRecovered, Next
  PROVE  RegistersRecovered'
<1>1. UNCHANGED altStack
  BY SetupUnchanged DEF setup
<1>2. SUFFICES ASSUME pc' = "lost", <<"entry", "entry">> \notin overtaken'
      PROVE  Late' /\ altStack % (4 * pageSize) # 0
  BY <1>1 DEF RegistersRecovered
<1>3. CASE Analyse
  <2>1. /\ pc = "analyse" /\ UNCHANGED overtaken
        /\ RecoveryAddress(sp) # recovery
    BY <1>2, <1>3 DEF Analyse
  <2>2. recovery = RecoveryAddress(Top(altStack) - 1)
    BY <1>2, <2>1 DEF RecoveryInv
  <2>3. sp \notin {Top(altStack) - f : f \in Frames}
    BY <2>1, <2>2, RegistersFacts
  <2>4. Late /\ \E f \in NestedFrames : sp = Top(altStack) - f
    BY <2>1, <2>3 DEF RecoveryInv
  <2>5. PICK f \in NestedFrames : sp = Top(altStack) - f
    BY <2>4
  <2>6. f \in 1 .. 2 * pageSize /\ altStack \in Nat
    BY SetupFacts, RiscvAssumption
  <2> QED
    BY <2>1, <2>2, <2>4, <2>5, <2>6, AlignedStack DEF Late
<1>4. CASE Stopped
  BY <1>2, <1>4 DEF Stopped, vars, RegistersRecovered, Late, history
<1>5. ~ (Execute \/ Hang \/ LateHang \/ Entry \/ WriteInstruction \/ Commit)
  BY <1>2
  DEF Execute, Hang, LateHang, EnterHangHandler, Entry, WriteInstruction,
      Commit, Return
<1>6. ~ Fetch
  BY <1>2
  DEF Fetch, FetchVisited, vleExhaustive, RetryLonger, RetryPointer, RetrySize,
      NextExpansion, ShortenPointer, ShortenSize, NextPrefix, Result, stopWorker
<1> QED
  BY <1>3, <1>4, <1>5, <1>6 DEF Next, Unit


-----------------------------------------------------------------------------
(* Stopping. *)

\* A stage either yields or finishes.
LEMMA YieldsOrFinishes ==
  ASSUME NEW stage, NEW k, NEW f, NEW n \in Nat, NEW m \in Nat,
         Yields(stage, k, f, n), Finishes(stage, k, f, m)
  PROVE  FALSE
<1>1. /\ \A e \in 1 .. m : search(Visited(stage, k, e))
      /\ \A e \in 0 .. m - 1 : ~ AtEnd(stage, Visited(stage, k, e), f)
      /\ AtEnd(stage, Visited(stage, k, m), f)
  BY DEF Finishes, PassesOver
<1>2. /\ \A e \in 0 .. n - 1 : ~ AtEnd(stage, Visited(stage, k, e), f)
      /\ ~ AtEnd(stage, Visited(stage, k, n), f)
      /\ ~ search(Visited(stage, k, n + 1))
  BY DEF Yields, PassesOver
<1>3. CASE m < n
  <2>1. m \in 0 .. n - 1
    BY <1>3
  <2> QED
    BY <1>1, <1>2, <2>1
<1>4. CASE m = n
  BY <1>1, <1>2, <1>4
<1>5. CASE m > n
  <2>1. n + 1 \in 1 .. m
    BY <1>5
  <2> QED
    BY <1>1, <1>2, <2>1
<1> QED
  BY <1>3, <1>4, <1>5

LEMMA FetchFindsStill ==
  ASSUME UNCHANGED setup, UNCHANGED <<size, sizeError, currentInstruction>>,
         FetchFinds
  PROVE  FetchFinds'
BY DEF setup, size, FetchFinds, vle, Prefix

\* What a stage does where it would find the end.
LEMMA StopsAgain ==
  ASSUME VarInv, HandlerInv, FetchFinds, pc = "fetch", Fetch
  PROVE  stopWorker /\ UNCHANGED <<size, sizeError>>
<1>1. ~ RetryPointer /\ ~ RetrySize /\ ~ ShortenPointer /\ ~ ShortenSize
  BY DEF RetryPointer, RetrySize, ShortenPointer, ShortenSize
<1>2. CASE FetchVisited
  <2>1. ~ vle /\ UNCHANGED <<size, sizeError>>
    BY <1>2 DEF FetchVisited, vle
  <2>2. PICK m \in 0 .. InstrMod :
          Finishes(fetchInstruction, currentInstruction, finalInstruction, m)
    BY <2>1 DEF FetchFinds
  <2>3. ASSUME NEW n \in 0 .. InstrMod,
               Yields(fetchInstruction, currentInstruction, finalInstruction, n)
        PROVE  FALSE
    <3>1. n \in Nat /\ m \in Nat
      BY ConstantFacts
    <3> QED
      BY <2>2, <2>3, <3>1, YieldsOrFinishes
  <2> QED
    BY <1>2, <2>1, <2>3 DEF FetchVisited
<1>3. CASE RetryLonger
  BY <1>3 DEF RetryLonger, FetchFinds, vle
<1>4. CASE NextExpansion
  BY <1>4 DEF NextExpansion, FetchFinds, vle, instructionSizeUC
<1>5. CASE NextPrefix
  <2>1. vle /\ currentInstructionSize # 4 /\ UNCHANGED <<size, sizeError>>
    BY <1>5 DEF NextPrefix, vle, instructionSizeUC
  <2>2. Prefix(currentInstruction) + 1 .. finalInstruction \subseteq Blacklist
    BY <2>1 DEF FetchFinds
  <2> QED
    BY <1>5, <2>1, <2>2 DEF NextPrefix
<1> QED
  BY <1>1, <1>2, <1>3, <1>4, <1>5 DEF Fetch, vleExhaustive

\* A stage that stops does so where it would find the end again.
LEMMA StopsFirst ==
  ASSUME VarInv, HandlerInv, SizeInv, ~ isStopped, isStopped', Next
  PROVE  /\ pc' = "stop" /\ FetchFinds
         /\ UNCHANGED <<size, sizeError, currentInstruction>>
<1>1. Fetch
  BY DEF Next, Unit, Execute, Hang, LateHang, EnterHangHandler, Entry, Analyse,
         WriteInstruction, Commit, Return, Stopped, vars, progress
<1>2. ASSUME NEW k, Result(k) PROVE FALSE
  BY <1>2 DEF Result
<1>3. ~ UNCHANGED progress
  BY DEF progress
<1>4. stopWorker => pc' = "stop" /\ UNCHANGED currentInstruction
  BY DEF stopWorker
<1>5. CASE FetchVisited
  <2>1. ~ vle /\ UNCHANGED <<size, sizeError>>
    BY <1>5 DEF FetchVisited, vle
  <2>2. /\ stopWorker
        /\ \E n \in 0 .. InstrMod :
             Finishes(fetchInstruction, currentInstruction, finalInstruction, n)
    BY <1>2, <1>5 DEF FetchVisited
  <2> QED
    BY <1>4, <2>1, <2>2 DEF FetchFinds
<1>6. CASE vleExhaustive
  <2>1. vle
    BY <1>6
    DEF vleExhaustive, RetryLonger, RetryPointer, RetrySize, NextExpansion,
        ShortenPointer, ShortenSize, NextPrefix, HandlerInv, VlePcs, vle
  <2>2. CASE NextExpansion
    <3>1. /\ stopWorker /\ currentInstruction = finalInstruction
          /\ currentInstructionSize = 4 /\ ~ sizeError
          /\ UNCHANGED <<size, sizeError>>
      BY <1>2, <1>3, <2>2 DEF NextExpansion, instructionSizeUC
    <3> QED
      BY <1>4, <2>1, <3>1 DEF FetchFinds
  <2>3. CASE NextPrefix
    <3>1. /\ stopWorker /\ UNCHANGED <<size, sizeError>>
          /\ Prefix(currentInstruction) + 1 .. finalInstruction
               \subseteq Blacklist
      BY <1>2, <2>3 DEF NextPrefix
    <3>2. ~ sizeError /\ currentInstructionSize # 4
      BY <2>1, <2>3
      DEF NextPrefix, SizeInv, TornSize, VleSize, instructionSizeUC
    <3> QED
      BY <1>4, <2>1, <3>1, <3>2 DEF FetchFinds
  <2> QED
    BY <1>2, <1>3, <1>6, <2>2, <2>3
    DEF vleExhaustive, RetryLonger, RetryPointer, RetrySize, ShortenPointer,
        ShortenSize
<1> QED
  BY <1>1, <1>5, <1>6 DEF Fetch

LEMMA StopNext ==
  ASSUME VarInv, HandlerInv, SizeInv, PageInv, StopInv, Next
  PROVE  StopInv' /\ (isStopped => pc' # "run")
<1>1. UNCHANGED setup
  BY SetupUnchanged
<1>2. CASE ~ isStopped
  <2>1. CASE isStopped'
    BY <1>1, <1>2, <2>1, StopsFirst, FetchFindsStill DEF StopInv
  <2> QED
    BY <1>2, <2>1 DEF StopInv
<1>3. CASE isStopped
  <2>1. /\ FetchFinds
        /\ pc = "stop" \/ (handler = "hang" /\ pc \in {"analyse", "fetch", "lost"})
    BY <1>3 DEF StopInv
  <2>2. ASSUME UNCHANGED <<size, sizeError, currentInstruction>>
        PROVE  FetchFinds'
    BY <1>1, <2>1, <2>2, FetchFindsStill
  <2>3. CASE LateHang
    <3>1. /\ pc' = "analyse" /\ handler' = "hang"
          /\ UNCHANGED <<size, sizeError, currentInstruction>>
      BY <2>3 DEF LateHang, EnterHangHandler, size, progress
    <3> QED
      BY <2>2, <3>1 DEF StopInv
  <2>4. CASE Analyse
    <3>1. /\ pc' \in {"fetch", "lost"} /\ handler' = "hang"
          /\ UNCHANGED <<size, currentInstruction>>
          /\ SizeCheck \/ UNCHANGED sizeError
      BY <2>1, <2>4 DEF Analyse, analyse, progress, entered
    <3>2. ~ SizeCheck
      BY <2>1, <2>4, SizeErrorFacts DEF Analyse
    <3> QED
      BY <2>2, <3>1, <3>2 DEF StopInv
  <2>5. CASE Fetch
    <3>1. pc = "fetch"
      BY <2>1, <2>5
      DEF Fetch, FetchVisited, vleExhaustive, RetryLonger, RetryPointer,
          RetrySize, NextExpansion, ShortenPointer, ShortenSize, NextPrefix
    <3>2. stopWorker /\ UNCHANGED <<size, sizeError>>
      BY <2>1, <2>5, <3>1, StopsAgain
    <3>3. pc' = "stop" /\ UNCHANGED currentInstruction
      BY <3>2 DEF stopWorker
    <3> QED
      BY <2>2, <3>2, <3>3 DEF StopInv
  <2>6. CASE Stopped
    BY <2>1, <2>2, <2>6 DEF Stopped, vars, size, progress, entered, StopInv
  <2>7. ~ (Execute \/ Hang \/ Entry \/ WriteInstruction \/ Commit)
    BY <2>1 DEF Execute, Hang, Entry, WriteInstruction, Commit
  <2> QED
    BY <2>3, <2>4, <2>5, <2>6, <2>7 DEF Next, Unit
<1> QED
  BY <1>2, <1>3


-----------------------------------------------------------------------------
(* The stride of riscvgOnlyFetch. *)

\* Wrapping around keeps what is left over of a division by four.
LEMMA StrideStep ==
  ASSUME NEW x \in instr_t, NEW f \in instr_t, (x - f) % 4 = 0
  PROVE  (NextVisited("riscvg", x) - f) % 4 = 0
<1>1. InstrMod % 4 = 0
  <2>1. PICK c \in Nat : HalfMod = 4 * c
    BY RiscvAssumption
  <2>2. HalfMod * HalfMod = 4 * (c * HalfMod) /\ c * HalfMod \in Nat
    BY <2>1, ConstantFacts
  <2>3. InstrMod = 4 * (c * HalfMod)
    BY <2>2, ConstantFacts
  <2> QED
    BY <2>2, <2>3
<1>2. x \in 0 .. InstrMod - 1 /\ f \in Nat /\ InstrMod \in Nat \ {0}
  BY ConstantFacts, HalvesFacts DEF instr_t
<1>3. (x + 4) % InstrMod = x + 4 \/ (x + 4) % InstrMod = x + 4 - InstrMod
  <2>1. InstrMod >= 4
    BY <1>1, <1>2
  <2>2. x + 4 < InstrMod => (x + 4) % InstrMod = x + 4
    BY <1>2
  <2>3. x + 4 >= InstrMod => (x + 4) % InstrMod = x + 4 - InstrMod
    BY <1>2, <2>1
  <2> QED
    BY <1>2, <2>2, <2>3
<1>4. NextVisited("riscvg", x) = (x + 4) % InstrMod
  BY DEF NextVisited, Plus
<1>5. PICK c \in Int : x = f + 4 * c
  BY <1>2
<1>6. PICK d \in Int : InstrMod = 4 * d
  <2>1. InstrMod = 4 * (InstrMod \div 4) /\ InstrMod \div 4 \in Int
    BY <1>1, <1>2
  <2> QED
    BY <2>1
<1>7. PICK y \in Int : /\ y = NextVisited("riscvg", x)
                       /\ y = x + 4 \/ y = x + 4 - InstrMod
  BY <1>2, <1>3, <1>4
<1>8. PICK e \in Int : y - f = 4 * e
  <2>1. CASE y = x + 4
    <3>1. y - f = 4 * (c + 1) /\ c + 1 \in Int
      BY <1>2, <1>5, <2>1
    <3> QED
      BY <3>1
  <2>2. CASE y = x + 4 - InstrMod
    <3>1. y - f = 4 * (c + 1 - d) /\ c + 1 - d \in Int
      BY <1>2, <1>5, <1>6, <2>2
    <3> QED
      BY <3>1
  <2> QED
    BY <1>7, <2>1, <2>2
<1>9. (y - f) % 4 = 0
  BY <1>8
<1> QED
  BY <1>7, <1>9

LEMMA StrideWalk ==
  ASSUME NEW k \in instr_t, NEW f \in instr_t, (k - f) % 4 = 0, NEW n \in Nat
  PROVE  (Visited("riscvg", k, n) - f) % 4 = 0
<1> DEFINE Off == {m \in Nat : (Visited("riscvg", k, m) - f) % 4 # 0}
<1>1. SUFFICES ASSUME Off # {} PROVE FALSE
  BY <1>1
<1>2. PICK m \in Off : \A j \in Off : m <= j
  BY <1>1, LeastNatural
<1>3. m # 0
  BY <1>2, VisitedSteps
<1>4. m - 1 \in Nat /\ ~ (m <= m - 1) /\ (m - 1) + 1 = m
  BY <1>3
<1>5. (Visited("riscvg", k, m - 1) - f) % 4 = 0
  BY <1>2, <1>4
<1>6. (Visited("riscvg", k, (m - 1) + 1) - f) % 4 = 0
  BY <1>4, <1>5, VisitedSteps, VisitedType, StrideStep
<1> QED
  BY <1>2, <1>4, <1>6

LEMMA StrideNext ==
  ASSUME VarInv, HandlerInv, SizeInv, StrideInv, Next
  PROVE  StrideInv'
<1> DEFINE OnStride(k) == (k - firstInstruction) % 4 = 0
<1>1. UNCHANGED <<fetchInstruction, firstInstruction, finalInstruction>>
  BY SetupUnchanged DEF setup
<1>2. SUFFICES ASSUME fetchInstruction = "riscvg" PROVE StrideInv'
  BY <1>1 DEF StrideInv
<1>3. OnStride(currentInstruction) /\ OnStride(Written) /\ (isStopped => Aligned)
  BY <1>2 DEF StrideInv
<1>4. Aligned' = Aligned
  BY <1>1 DEF Aligned
<1>5. ASSUME OnStride(currentInstruction'), OnStride(Written'),
             isStopped' => Aligned
      PROVE  StrideInv'
  BY <1>1, <1>4, <1>5 DEF StrideInv
<1> HIDE DEF OnStride
<1>6. CASE ~ Fetch
  <2>1. UNCHANGED isStopped
    BY <1>6
    DEF Next, Unit, Execute, Hang, LateHang, EnterHangHandler, Entry, Analyse,
        WriteInstruction, Commit, Return, Stopped, vars, progress
  <2> QED
    BY <1>3, <1>5, <1>6, <2>1, WrittenStill
<1>7. CASE Fetch
  <2>1. UNCHANGED entered /\ ~ vle
    BY <1>2, <1>7 DEF Fetch, vle
  <2>2. currentInstruction \in instr_t /\ firstInstruction \in instr_t
        /\ finalInstruction \in instr_t
    BY SetupFacts DEF VarInv
  <2>3. PICK n \in 0 .. InstrMod :
          \/ /\ Yields(fetchInstruction, currentInstruction, finalInstruction, n)
             /\ Result(Visited(fetchInstruction, currentInstruction, n + 1))
          \/ /\ Finishes(fetchInstruction, currentInstruction,
                         finalInstruction, n)
             /\ stopWorker
    BY <1>7, <2>1
    DEF Fetch, FetchVisited, vleExhaustive, HandlerInv, VlePcs, RetryLonger,
        RetryPointer, RetrySize, NextExpansion, ShortenPointer, ShortenSize,
        NextPrefix, vle
  <2>4. n \in Nat /\ n + 1 \in Nat
    BY ConstantFacts
  <2>5. /\ OnStride(Visited("riscvg", currentInstruction, n))
        /\ OnStride(Visited("riscvg", currentInstruction, n + 1))
    BY <1>3, <2>2, <2>4, StrideWalk DEF OnStride
  <2>6. CASE Result(Visited(fetchInstruction, currentInstruction, n + 1))
    <3>1. Written' = Visited("riscvg", currentInstruction, n + 1)
          /\ currentInstruction' \in {currentInstruction, Written'}
      BY <1>2, <2>1, <2>6, ResultFacts
    <3>2. UNCHANGED isStopped
      BY <2>6 DEF Result
    <3> QED
      BY <1>3, <1>5, <2>5, <3>1, <3>2
  <2>7. CASE /\ Finishes(fetchInstruction, currentInstruction,
                         finalInstruction, n)
             /\ stopWorker
    <3>1. Visited("riscvg", currentInstruction, n) = finalInstruction
      BY <1>2, <2>7 DEF Finishes, AtEnd
    <3>2. Aligned
      BY <2>5, <3>1 DEF OnStride, Aligned
    <3>3. Written' = currentInstruction' /\ UNCHANGED currentInstruction
      BY <2>7 DEF stopWorker, Written
    <3> QED
      BY <1>3, <1>5, <3>2, <3>3
  <2> QED
    BY <2>3, <2>6, <2>7
<1> QED
  BY <1>6, <1>7


-----------------------------------------------------------------------------
(* What is analysed. *)

\* Wanted, one stage at a time.
LEMMA WantedFacts ==
  ASSUME VarInv, NEW k, NEW s
  PROVE  /\ fetchInstruction = "riscvg" =>
              (<<k, s>> \in Wanted <=>
                 /\ k \in firstInstruction .. finalInstruction /\ ~ search(k)
                 /\ (k - firstInstruction) % 4 = 0 /\ s = 4)
         /\ fetchInstruction = "riscvc" =>
              (<<k, s>> \in Wanted <=>
                 /\ k \in firstInstruction .. finalInstruction /\ ~ search(k)
                 /\ ~ IsLong(k) /\ s = 2)
         /\ fetchInstruction = "exhaustive" =>
              (<<k, s>> \in Wanted <=>
                 /\ k \in firstInstruction .. finalInstruction /\ ~ search(k)
                 /\ s = IF IsLong(k) THEN 4 ELSE 2)
         /\ vle =>
              (<<k, s>> \in Wanted <=>
                 \/ /\ k \in firstInstruction .. finalInstruction /\ ~ search(k)
                    /\ ~ IsLong(k) /\ s = 2
                 \/ /\ k \in instr_t /\ ~ search(k) /\ s = 4
                    /\ IsLong(Prefix(k)) /\ ~ search(Prefix(k))
                    /\ Prefix(k) \in firstInstruction .. finalInstruction
                    /\ Prefix(k) = finalInstruction => Other(k) = 0)
<1>1. CASE fetchInstruction = "riscvg"
  <2>1. Wanted = {<<q, 4>> : q \in {q \in firstInstruction .. finalInstruction
                                            \ Blacklist :
                                      (q - firstInstruction) % 4 = 0}}
    BY <1>1 DEF Wanted
  <2> QED
    BY <1>1, <2>1 DEF search, vle
<1>2. CASE fetchInstruction = "riscvc"
  <2>1. Wanted = {<<q, 2>> : q \in {q \in firstInstruction .. finalInstruction
                                            \ Blacklist : ~ IsLong(q)}}
    BY <1>2 DEF Wanted
  <2> QED
    BY <1>2, <2>1 DEF search, vle
<1>3. CASE fetchInstruction = "exhaustive"
  <2>1. Wanted = {<<q, IF IsLong(q) THEN 4 ELSE 2>> :
                    q \in firstInstruction .. finalInstruction \ Blacklist}
    BY <1>3 DEF Wanted
  <2> QED
    BY <1>3, <2>1 DEF search, vle
<1>4. CASE vle
  <2>1. Wanted =
          {<<q, 2>> : q \in {q \in firstInstruction .. finalInstruction
                                     \ Blacklist : ~ IsLong(q)}}
          \cup {<<q, 4>> : q \in
                 {q \in instr_t \ Blacklist :
                    /\ IsLong(Prefix(q))
                    /\ Prefix(q) \in firstInstruction .. finalInstruction
                                       \ Blacklist
                    /\ Prefix(q) = finalInstruction => Other(q) = 0}}
    BY <1>4 DEF Wanted, vle
  <2> QED
    BY <1>4, <2>1 DEF search, vle
<1> QED
  BY <1>1, <1>2, <1>3, <1>4, SetupFacts DEF Stages, vle

LEMMA WantedPairs ==
  ASSUME NEW w \in Wanted
  PROVE  w = <<w[1], w[2]>> /\ w[2] \in {2, 4}
BY DEF Wanted

\* The word a stage other than vleExhaustive is at, unless it has gone astray.
LEMMA InPartFacts ==
  ASSUME VarInv, NEW k, ~ vle, Proper, InPart(k)
  PROVE  /\ k \in instr_t /\ firstInstruction <= k
         /\ ~ Astray(k) =>
              /\ k \in firstInstruction .. finalInstruction
              /\ fetchInstruction # "riscvg" => Prefix(k) = k
              /\ fetchInstruction = "riscvg" => (k - firstInstruction) % 4 = 0
         /\ Astray(k) => k \in {firstInstruction, finalInstruction + 1}
<1>1. /\ firstInstruction <= k /\ k \in instr_t
      /\ \/ k <= finalInstruction
         \/ fetchInstruction = "riscvc" /\ k = finalInstruction + 1
      /\ fetchInstruction = "riscvg" => (finalInstruction - k) % 4 = 0
      /\ fetchInstruction = "riscvc" /\ IsLong(k) => k = firstInstruction
  BY DEF InPart, Reach
<1>2. /\ firstInstruction \in Nat /\ finalInstruction \in Nat /\ k \in Nat
      /\ HalfMod \in Nat
      /\ fetchInstruction # "riscvg" => finalInstruction <= HalfMod - 1
  <2>1. firstInstruction \in instr_t /\ finalInstruction \in instr_t
    BY SetupFacts
  <2>2. fetchInstruction # "riscvg" => finalInstruction \in 0 .. HalfMod - 1
    BY SetupFacts
  <2>3. firstInstruction \in Nat /\ finalInstruction \in Nat /\ k \in Nat
    BY <1>1, <2>1, HalvesFacts
  <2> QED
    BY <2>2, <2>3, ConstantFacts
<1>3. Astray(k) => k \in {firstInstruction, finalInstruction + 1}
  BY <1>1 DEF Astray
<1>4. ASSUME ~ Astray(k) PROVE k <= finalInstruction
  BY <1>1, <1>4 DEF Astray
<1>5. ASSUME ~ Astray(k), fetchInstruction # "riscvg" PROVE Prefix(k) = k
  <2>1. k < HalfMod
    BY <1>2, <1>4, <1>5
  <2> QED
    BY <1>1, <2>1, HalvesFacts
<1>6. ASSUME fetchInstruction = "riscvg" PROVE (k - firstInstruction) % 4 = 0
  <2>1. (finalInstruction - firstInstruction) % 4 = 0
    BY <1>6 DEF Proper, Aligned
  <2> QED
    BY <1>1, <1>2, <1>6, <2>1
<1> QED
  BY <1>1, <1>2, <1>3, <1>4, <1>5, <1>6

\* What faultHandler analyses, and with what length.
LEMMA AnalysedWord ==
  ASSUME VarInv, SizeInv, PageInv, WordInv, RangeInv, ~ Torn,
         pc = "analyse", handler = "fault", ~ (vle /\ SizeCheck),
         NEW k, k = currentInstruction,
         NEW s, s = (IF fetchInstruction # "exhaustive"
                       THEN currentInstructionSize
                       ELSE IF SizeCheck THEN 4 ELSE 2)
  PROVE  \/ Astray(k) /\ k \in {firstInstruction, finalInstruction + 1}
         \/ /\ Ran.word = k /\ Ran.size = s /\ ~ search(k)
            /\ Proper => <<k, s>> \in Wanted
<1>1. k \in instr_t /\ ~ search(k) /\ InPart(k) /\ Written = k
  BY DEF VarInv, WordInv, Pending, Written, RangeInv
<1>2. /\ page[instructionPointer] = Prefix(k)
      /\ currentInstructionSize = 4 => page[2] = Other(k)
      /\ SizeCheck <=> Ran.size > instructionPointer
  BY SizeCheckFacts DEF PageInv, OnPage, ReadsPastPage
<1>3. /\ Prefix(k) \in 0 .. HalfMod - 1 /\ Other(k) \in 0 .. HalfMod - 1
      /\ construct(Prefix(k), Other(k)) = k
  BY <1>1, HalvesFacts
<1>4. fetchInstruction # "riscvg" => Proper
  BY DEF Proper
<1>5. CASE fetchInstruction = "riscvg"
  <2>1. currentInstructionSize = 4 /\ instructionPointer = 4 /\ ~ vle
    BY <1>5 DEF SizeInv, FixedSize, instructionSize, vle
  <2>2. Ran = [word |-> k, size |-> 4]
    BY <1>2, <1>3, <1>5, <2>1 DEF Ran
  <2>3. Proper => /\ k \in firstInstruction .. finalInstruction
                  /\ (k - firstInstruction) % 4 = 0
    BY <1>1, <1>5, <2>1, InPartFacts DEF Astray
  <2> QED
    BY <1>1, <1>5, <2>1, <2>2, <2>3, WantedFacts
<1>6. CASE fetchInstruction \in {"riscvc", "exhaustive"} /\ ~ Astray(k)
  <2>1. currentInstructionSize = 2 /\ instructionPointer = 2 /\ ~ vle
    BY <1>6 DEF SizeInv, FixedSize, instructionSize, vle
  <2>2. k \in firstInstruction .. finalInstruction /\ Prefix(k) = k
    BY <1>1, <1>6, <1>4, <2>1, InPartFacts
  <2>3. Ran = [word |-> k, size |-> IF IsLong(k) THEN 4 ELSE 2]
    BY <1>2, <1>6, <2>1, <2>2 DEF Ran
  <2>4. fetchInstruction = "riscvc" => ~ IsLong(k)
    BY <1>6 DEF Astray
  <2>5. Ran.word = k /\ Ran.size = s /\ s = IF IsLong(k) THEN 4 ELSE 2
    BY <1>2, <1>6, <2>1, <2>3, <2>4
  <2> QED
    BY <1>1, <1>6, <2>2, <2>4, <2>5, WantedFacts
<1>7. CASE Astray(k)
  <2>1. ~ vle
    BY <1>7 DEF Astray, vle
  <2> QED
    BY <1>1, <1>7, <1>4, <2>1, InPartFacts DEF Astray
<1>8. CASE vle
  <2>1. instructionPointer = currentInstructionSize
        /\ ~ (Ran.size > instructionPointer)
    BY <1>2, <1>8 DEF SizeInv, VleSize
  <2>2. /\ Prefix(k) \in firstInstruction .. finalInstruction
        /\ Prefix(k) = finalInstruction => Other(k) = 0
    BY <1>1, <1>8 DEF InPart
  <2>3. s = currentInstructionSize
    BY <1>8 DEF vle
  <2>4. CASE currentInstructionSize = 2
    <3>1. Prefix(k) = k
      BY <1>1, <1>8, <2>4, HalvesFacts DEF WordInv, Pending
    <3>2. Ran = [word |-> k, size |-> IF IsLong(k) THEN 4 ELSE 2]
      BY <1>2, <1>8, <2>1, <2>4, <3>1 DEF Ran, vle
    <3>3. ~ IsLong(k) /\ Ran = [word |-> k, size |-> 2]
      BY <2>1, <2>4, <3>2
    <3> QED
      BY <1>1, <1>8, <2>2, <2>3, <2>4, <3>1, <3>3, WantedFacts
  <2>5. CASE currentInstructionSize = 4
    <3>1. IsLong(Prefix(k)) /\ ~ search(Prefix(k))
      BY <1>1, <1>8, <2>5 DEF WordInv, Pending
    <3>2. Ran = [word |-> k, size |-> 4]
      BY <1>2, <1>3, <1>8, <2>1, <2>5, <3>1 DEF Ran
    <3> QED
      BY <1>1, <1>8, <2>2, <2>3, <2>5, <3>1, <3>2, WantedFacts
  <2> QED
    BY <2>4, <2>5 DEF VarInv
<1> QED
  BY <1>5, <1>6, <1>7, <1>8, SetupFacts DEF Stages, vle


\* What a step adds to what is analysed.
LEMMA AnalysedNext ==
  ASSUME VarInv, HandlerInv, SizeInv, PageInv, WordInv, RangeInv, Next,
         ~ Torn', NEW a \in analysed', a \notin analysed
  PROVE  /\ ~ Torn /\ pc = "analyse" /\ handler = "fault"
         /\ Analyse /\ ~ (vle /\ SizeCheck)
         /\ a.word = currentInstruction
         /\ fetchInstruction # "exhaustive" => a.size = currentInstructionSize
         /\ \/ Astray(a.word) /\ a.word \in {firstInstruction, finalInstruction + 1}
            \/ /\ a.ran.word = a.word /\ a.ran.size = a.size /\ ~ search(a.word)
               /\ Proper => <<a.word, a.size>> \in Wanted
<1>1. Analyse
  BY DEF Next, Unit, Execute, Hang, LateHang, EnterHangHandler, Entry, Fetch,
         WriteInstruction, Commit, Return, Stopped, vars, history
<1>2. /\ handler # "hang" /\ ~ (vle /\ SizeCheck)
      /\ a = [word |-> currentInstruction, ran |-> Ran,
              size |-> IF fetchInstruction # "exhaustive"
                         THEN currentInstructionSize
                         ELSE IF SizeCheck THEN 4 ELSE 2]
  BY <1>1 DEF Analyse, analyse, vle
<1>3. pc = "analyse" /\ handler = "fault" /\ UNCHANGED overtaken
  BY <1>1, <1>2 DEF Analyse, HandlerInv
<1>4. ~ Torn
  BY <1>3 DEF Torn
<1> QED
  BY <1>1, <1>2, <1>3, <1>4, AnalysedWord

LEMMA TornStays ==
  ASSUME Next, ~ Torn'
  PROVE  ~ Torn
BY TornUnchanged DEF LateHang, Torn

LEMMA AnalysedRightNext ==
  ASSUME VarInv, HandlerInv, SizeInv, PageInv, WordInv, RangeInv, Next,
         AnalysedRight
  PROVE  AnalysedRight'
<1>1. UNCHANGED <<fetchInstruction, finalInstruction>>
  BY SetupUnchanged DEF setup
<1>2. SUFFICES ASSUME ~ Torn', NEW a \in analysed'
      PROVE  \/ Astray(a.word)
             \/ a.ran.word = a.word /\ a.ran.size = a.size /\ ~ search(a.word)
  BY <1>1 DEF AnalysedRight, Astray
<1>3. CASE a \in analysed
  BY <1>2, <1>3, TornStays DEF AnalysedRight
<1>4. CASE a \notin analysed
  BY <1>2, <1>4, AnalysedNext
<1> QED
  BY <1>3, <1>4

LEMMA NearlyInPartNext ==
  ASSUME VarInv, HandlerInv, SizeInv, PageInv, WordInv, RangeInv, Next,
         NearlyInPart
  PROVE  NearlyInPart'
<1>1. UNCHANGED <<fetchInstruction, firstInstruction, finalInstruction>>
  BY SetupUnchanged DEF setup
<1>2. Wanted' = Wanted /\ Proper' = Proper
  BY <1>1 DEF Wanted, Proper, Aligned
<1>3. SUFFICES ASSUME ~ Torn', Proper, NEW a \in analysed'
      PROVE  \/ <<a.word, a.size>> \in Wanted
             \/ /\ Astray(a.word)
                /\ a.word \in {firstInstruction, finalInstruction + 1}
  BY <1>1, <1>2 DEF NearlyInPart, Scanned, Astray, Proper
<1>4. CASE a \in analysed
  <2>1. <<a.word, a.size>> \in Scanned
    BY <1>4 DEF Scanned
  <2> QED
    BY <1>3, <2>1, TornStays DEF NearlyInPart, Proper
<1>5. CASE a \notin analysed
  BY <1>3, <1>5, AnalysedNext
<1> QED
  BY <1>4, <1>5


-----------------------------------------------------------------------------
(* What is done. *)

\* Only faultHandler and hangHandler add to what is done.
LEMMA DoneStep ==
  ASSUME VarInv, HandlerInv, Next
  PROVE  \/ /\ Done' = Done /\ hangs' = hangs
            /\ Analyse => handler = "fault" /\ vle /\ SizeCheck
         \/ /\ Analyse /\ ~ (handler = "fault" /\ vle /\ SizeCheck)
            /\ \E s \in {2, 4} :
                 /\ fetchInstruction # "exhaustive" => s = currentInstructionSize
                 /\ Done' = Done \cup {<<currentInstruction, s>>}
                 /\ handler = "hang" =>
                      /\ hangs' = hangs \cup {<<currentInstruction, s>>}
                      /\ s = currentInstructionSize
                 /\ handler = "fault" =>
                      /\ hangs' = hangs
                      /\ fetchInstruction = "exhaustive" =>
                           s = IF SizeCheck THEN 4 ELSE 2
<1>1. CASE ~ Analyse
  <2>1. UNCHANGED <<analysed, hangs>>
    BY <1>1
    DEF Next, Unit, Execute, Hang, LateHang, EnterHangHandler, Entry, Fetch,
        WriteInstruction, Commit, Return, Stopped, vars, history
  <2> QED
    BY <1>1, <2>1 DEF Done, Scanned
<1>2. CASE Analyse
  <2> DEFINE s == IF fetchInstruction # "exhaustive"
                    THEN currentInstructionSize
                    ELSE IF SizeCheck THEN 4 ELSE 2
             a == [word |-> currentInstruction, ran |-> Ran, size |-> s]
  <2>1. handler \in {"fault", "hang"} /\ currentInstructionSize \in {2, 4}
    BY <1>2 DEF Analyse, HandlerInv, VarInv
  <2>2. CASE handler = "hang"
    <3>1. /\ analysed' = analysed
          /\ hangs' = hangs \cup {<<currentInstruction, currentInstructionSize>>}
      BY <1>2, <2>2 DEF Analyse, analyse
    <3>2. Done' = Done \cup {<<currentInstruction, currentInstructionSize>>}
      BY <3>1 DEF Done, Scanned
    <3> QED
      BY <1>2, <2>1, <2>2, <3>1, <3>2
  <2>3. CASE handler = "fault" /\ ~ (vle /\ SizeCheck)
    <3>1. analysed' = analysed \cup {a} /\ hangs' = hangs
      BY <1>2, <2>3 DEF Analyse, analyse, vle
    <3>2. a.word = currentInstruction /\ a.size = s
      OBVIOUS
    <3>3. s \in {2, 4}
      BY <2>1
    <3> HIDE DEF s, a
    <3>4. Done' = Done \cup {<<currentInstruction, s>>}
      BY <3>1, <3>2 DEF Done, Scanned
    <3> QED
      BY <1>2, <2>3, <3>1, <3>3, <3>4 DEF s
  <2>4. CASE handler = "fault" /\ vle /\ SizeCheck
    <3>1. UNCHANGED <<analysed, hangs>>
      BY <1>2, <2>4 DEF Analyse, analyse, vle
    <3> QED
      BY <2>4, <3>1 DEF Done, Scanned
  <2> QED
    BY <2>1, <2>2, <2>3, <2>4
<1> QED
  BY <1>1, <1>2

LEMMA DoneTypeNext ==
  ASSUME VarInv, HandlerInv, DoneType, Next
  PROVE  DoneType'
<1>1. currentInstruction \in instr_t
  BY DEF VarInv
<1>2. CASE Done' = Done
  BY <1>2 DEF DoneType
<1>3. CASE \E s \in {2, 4} : Done' = Done \cup {<<currentInstruction, s>>}
  BY <1>1, <1>3 DEF DoneType
<1> QED
  BY <1>2, <1>3, DoneStep

\* How instructions and lengths compare.
LEMMA OrderFacts ==
  ASSUME NEW w \in instr_t \X {2, 4}, NEW k \in instr_t, NEW s \in {2, 4}
  PROVE  /\ w[1] \in Nat /\ k \in Nat /\ w[2] \in {2, 4}
         /\ Prefix(w[1]) \in Nat /\ Prefix(k) \in Nat
         /\ Other(w[1]) \in Nat /\ Other(k) \in Nat
         /\ Before(w, k, s) => UpTo(w, k, s)
         /\ UpTo(w, k, s) => UpTo(w, k, 2)
         /\ s = 2 /\ vle => (UpTo(w, k, s) <=> Prefix(w[1]) <= Prefix(k))
         /\ s = 2 /\ vle => (Before(w, k, s) <=> Prefix(w[1]) < Prefix(k))
<1>1. w[1] \in instr_t /\ w[2] \in {2, 4}
  OBVIOUS
<1>2. /\ w[1] \in Nat /\ k \in Nat
      /\ Prefix(w[1]) \in Nat /\ Prefix(k) \in Nat
      /\ Other(w[1]) \in Nat /\ Other(k) \in Nat
  BY <1>1, HalvesFacts, ConstantFacts
<1> QED
  BY <1>1, <1>2 DEF Before, UpTo

\* A step that is not a stage's runs what was to be run.
LEMMA QuietStep ==
  ASSUME VarInv, HandlerInv, Next, ~ Fetch
  PROVE  /\ UNCHANGED size
         /\ \/ UNCHANGED currentInstruction
            \/ Pending /\ currentInstruction' = Written /\ pc' = "run"
         /\ Pending' => Pending /\ Written' = Written
         /\ Retries' => Retries \/ (Analyse /\ vle /\ SizeCheck)
<1>1. CASE Execute \/ Hang \/ LateHang
  <2>1. /\ UNCHANGED <<size, currentInstruction, sizeError>>
        /\ \/ pc = "run" /\ pc' \in {"analyse", "killed"}
           \/ pc' = "analyse" /\ handler' = "hang"
    BY <1>1 DEF Execute, Hang, LateHang, EnterHangHandler, progress
  <2> QED
    BY <2>1 DEF Pending, Written, Retries
<1>2. CASE Entry \/ Analyse
  <2>1. /\ UNCHANGED <<size, currentInstruction, handler>>
        /\ UNCHANGED sizeError \/ (Analyse /\ vle /\ SizeCheck)
        /\ \/ /\ pc = "entry" /\ handler = "entry"
              /\ pc' \in {"fetch", "write"}
           \/ pc = "analyse" /\ pc' \in {"fetch", "lost"}
    BY <1>2 DEF Entry, Analyse, analyse, progress, entered, HandlerInv, vle
  <2> QED
    BY <2>1 DEF Pending, Written, Retries
<1>3. CASE WriteInstruction
  <2>1. /\ UNCHANGED <<size, currentInstruction, nextInstruction, sizeError>>
        /\ pc = "write"
        /\ handler = "fault" => pc' = "commit" /\ handler' = "fault"
        /\ handler # "fault" => pc' = "run" /\ handler' = "none"
    BY <1>3 DEF WriteInstruction, Return, entered
  <2> QED
    BY <2>1 DEF Pending, Written, Retries
<1>4. CASE Commit
  <2>1. /\ UNCHANGED <<size, sizeError>> /\ currentInstruction' = nextInstruction
        /\ pc = "commit" /\ handler = "fault" /\ pc' = "run" /\ handler' = "none"
    BY <1>4 DEF Commit, Return, HandlerInv
  <2> QED
    BY <2>1 DEF Pending, Written, Retries
<1>5. CASE Stopped
  BY <1>5 DEF Stopped, vars, size, progress, entered, Pending, Written, Retries
<1> QED
  BY <1>1, <1>2, <1>3, <1>4, <1>5 DEF Next, Unit

\* A stage brings in what is next, or leaves things alone.
LEMMA FetchStep ==
  ASSUME VarInv, HandlerInv, SizeInv, Fetch
  PROVE  /\ \/ UNCHANGED currentInstructionSize
            \/ RetrySize /\ currentInstructionSize' = 4
            \/ ShortenSize /\ currentInstructionSize' = 2
         /\ Retries' => Retries /\ ~ RetrySize
         /\ ~ RetrySize /\ (\A k : ~ Result(k)) =>
              UNCHANGED currentInstruction /\ ~ Pending'
         /\ \A k : Result(k) =>
              /\ Pending' /\ Written' = k
              /\ currentInstruction' \in {currentInstruction, k}
         /\ UNCHANGED <<handler, hangs, analysed>>
<1>1. UNCHANGED entered /\ UNCHANGED <<hangs, analysed>>
  BY DEF Fetch, history
<1>2. ASSUME NEW k, Result(k)
      PROVE  /\ Pending' /\ Written' = k
             /\ currentInstruction' \in {currentInstruction, k}
  BY <1>1, <1>2, ResultFacts DEF Pending
<1>3. stopWorker => UNCHANGED currentInstruction /\ ~ Pending'
  BY <1>1 DEF stopWorker, Pending
<1>4. CASE FetchVisited
  <2>1. UNCHANGED <<size, sizeError>> /\ ~ vle
        /\ (stopWorker \/ \E k : Result(k))
    BY <1>4 DEF FetchVisited, vle
  <2>2. ~ RetrySize
    BY <1>4 DEF RetrySize, FetchVisited
  <2>3. Retries' => Retries
    BY <2>1, <1>4 DEF FetchVisited, Result, stopWorker, Retries
  <2> QED
    BY <1>1, <1>2, <1>3, <2>1, <2>2, <2>3 DEF size, entered
<1>5. CASE RetryLonger \/ RetryPointer \/ ShortenPointer \/ ShortenSize
  <2>1. /\ UNCHANGED currentInstruction
        /\ pc' \in {"retryPointer", "retrySize", "shortenSize", "nextPrefix"}
        /\ UNCHANGED currentInstructionSize
             \/ (ShortenSize /\ currentInstructionSize' = instructionSize)
        /\ Retries' => Retries
    BY <1>5
    DEF RetryLonger, RetryPointer, ShortenPointer, ShortenSize, size, progress,
        Retries
  <2>2. ~ RetrySize
    BY <1>5
    DEF RetryLonger, RetryPointer, ShortenPointer, ShortenSize, RetrySize
  <2>3. ShortenSize => instructionSize = 2
    BY DEF ShortenSize, HandlerInv, VlePcs, vle, instructionSize
  <2>4. ~ Pending'
    BY <1>1, <2>1 DEF Pending
  <2> QED
    BY <1>1, <1>2, <2>1, <2>2, <2>3, <2>4 DEF entered
<1>6. CASE RetrySize
  <2>1. pc = "retrySize" /\ vle /\ ~ sizeError
    BY <1>6
    DEF RetrySize, HandlerInv, VlePcs, SizeInv, TornSize, VleSize
  <2>2. currentInstructionSize' = 4 /\ pc' = "write" /\ ~ sizeError'
    BY <1>6, <2>1 DEF RetrySize, Result, instructionSizeUC
  <2> QED
    BY <1>1, <1>2, <1>6, <2>2 DEF Retries, entered
<1>7. CASE NextExpansion \/ NextPrefix
  <2>1. /\ UNCHANGED <<size, sizeError>>
        /\ pc \in {"fetch", "nextPrefix"}
        /\ pc' \in {"stop", "write", "shortenPointer"}
        /\ \/ \E k : Result(k)
           \/ stopWorker
           \/ UNCHANGED currentInstruction /\ pc' = "shortenPointer"
    BY <1>7 DEF NextExpansion, NextPrefix, Result, stopWorker, progress
  <2>2. ~ RetrySize
    BY <2>1 DEF RetrySize
  <2>3. Retries' => Retries
    BY <2>1 DEF Retries
  <2>4. pc' = "shortenPointer" => ~ Pending'
    BY <1>1 DEF Pending
  <2> QED
    BY <1>1, <1>2, <1>3, <2>1, <2>2, <2>3, <2>4 DEF size, entered
<1> QED
  BY <1>4, <1>5, <1>6, <1>7 DEF Fetch, vleExhaustive


\* What comes up to the current instruction is before what is next.
LEMMA ResultAfter ==
  ASSUME VarInv, HandlerInv, SizeInv, RangeInv, Proper, Fetch, ~ RetrySize,
         NEW k, Result(k)
  PROVE  /\ k \in instr_t
         /\ \A w \in instr_t \X {2, 4} :
              UpTo(w, currentInstruction, currentInstructionSize) =>
                Before(w, k, currentInstructionSize)
<1>1. currentInstruction \in instr_t /\ currentInstructionSize \in {2, 4}
      /\ HalfMod \in Nat
  BY ConstantFacts DEF VarInv
<1>2. ASSUME NEW l, Result(l) PROVE l = k
  <2>1. UNCHANGED entered
    BY DEF Fetch
  <2> QED
    BY <1>2, <2>1, ResultFacts
<1>3. CASE ~ vle
  <2>1. PICK n \in 0 .. InstrMod :
          /\ Yields(fetchInstruction, currentInstruction, finalInstruction, n)
          /\ k = Visited(fetchInstruction, currentInstruction, n + 1)
    <3>1. pc' = "write"
      BY DEF Result
    <3> QED
      BY <1>2, <1>3, <3>1, FetchCases
  <2>2. /\ finalInstruction \in instr_t /\ n \in Nat
        /\ fetchInstruction # "riscvg" => finalInstruction < HalfMod
        /\ fetchInstruction \in {"exhaustive", "riscvg", "riscvc"}
    BY <1>1, <1>3, SetupFacts, ConstantFacts DEF Stages, vle
  <2>3. Reach(fetchInstruction, currentInstruction, finalInstruction)
    BY <1>3 DEF RangeInv, InPart
  <2>4. k \in instr_t /\ currentInstruction < k
    BY <2>1, <2>2, <2>3, YieldsFacts DEF Reach
  <2>5. ASSUME NEW w \in instr_t \X {2, 4},
               w[1] <= currentInstruction
        PROVE  w[1] < k
    <3>1. w[1] \in Nat /\ currentInstruction \in Nat /\ k \in Nat
      BY <1>1, <2>4, OrderFacts
    <3> QED
      BY <2>4, <2>5, <3>1
  <2> QED
    BY <1>3, <2>4, <2>5 DEF UpTo, Before
<1>4. CASE vle
  <2> DEFINE p == Prefix(currentInstruction)
  <2>1. p \in 0 .. HalfMod - 1
        /\ finalInstruction \in 0 .. HalfMod - 1
    BY <1>1, <1>4, HalvesFacts, SetupFacts DEF vle
  <2>2. \/ /\ currentInstructionSize = 4 /\ Expansions # {}
           /\ k = Min(Expansions)
        \/ /\ currentInstructionSize = 2
           /\ ~ (p + 1 .. finalInstruction \subseteq Blacklist)
           /\ k = Min(LeftOf(p))
    <3>1. pc' = "write"
      BY DEF Result
    <3> QED
      BY <1>2, <1>4, <3>1, FetchCases
  <2>3. CASE currentInstructionSize = 4 /\ Expansions # {} /\ k = Min(Expansions)
    <3>1. /\ k \in instr_t /\ Prefix(k) = p
          /\ Other(k) \in Other(currentInstruction) + 1 .. HalfMod - 1
      BY <1>1, <2>3, ExpansionFacts
    <3>2. ASSUME NEW w \in instr_t \X {2, 4},
                 UpTo(w, currentInstruction, 4)
          PROVE  Before(w, k, 4)
      <4>1. /\ Other(w[1]) \in Nat /\ Other(currentInstruction) \in Nat
            /\ Other(k) \in Nat /\ Other(k) > Other(currentInstruction)
        BY <1>1, <3>1, OrderFacts
      <4>2. \/ Prefix(w[1]) < p
            \/ /\ Prefix(w[1]) = p
               /\ w[2] = 2 \/ Other(w[1]) <= Other(currentInstruction)
        BY <1>4, <3>2 DEF UpTo
      <4> QED
        BY <1>4, <3>1, <4>1, <4>2 DEF Before
    <3> QED
      BY <2>3, <3>1, <3>2
  <2>4. CASE /\ currentInstructionSize = 2
             /\ ~ (p + 1 .. finalInstruction \subseteq Blacklist)
             /\ k = Min(LeftOf(p))
    <3>1. k \in p + 1 .. HalfMod - 1 /\ k \in instr_t
      BY <2>1, <2>4, LeftFacts
    <3>2. Prefix(k) = k
      BY <1>1, <2>1, <3>1, HalvesFacts
    <3>3. ASSUME NEW w \in instr_t \X {2, 4},
                 UpTo(w, currentInstruction, 2)
          PROVE  Before(w, k, 2)
      <4>1. Prefix(w[1]) <= p /\ Prefix(w[1]) \in Nat
        BY <1>1, <1>4, <3>3, OrderFacts
      <4>2. Prefix(w[1]) < Prefix(k)
        BY <2>1, <3>1, <3>2, <4>1
      <4> QED
        BY <1>4, <4>2 DEF Before
    <3> QED
      BY <2>4, <3>1, <3>3
  <2> QED
    BY <2>2, <2>3, <2>4
<1> QED
  BY <1>3, <1>4


\* Where a retry can be on the way.
LEMMA RetriesFacts ==
  ASSUME VarInv, HandlerInv, SizeInv, Retries
  PROVE  /\ vle /\ pc \notin {"write", "run"}
         /\ currentInstructionSize = 2
BY DEF Retries, SizeInv, FixedSize, TornSize, VleSize, HandlerInv, VlePcs

LEMMA DoneNext ==
  ASSUME VarInv, HandlerInv, SizeInv, PageInv, RangeInv, DoneType, DoneInv, Next,
         VarInv', HandlerInv', SizeInv', DoneType'
  PROVE  DoneInv'
<1>1. UNCHANGED <<fetchInstruction, firstInstruction, finalInstruction>>
  BY SetupUnchanged DEF setup
<1>2. vle' = vle /\ Proper' = Proper
  BY <1>1 DEF vle, Proper, Aligned
<1>3. ASSUME NEW w, NEW k, NEW s
      PROVE  UpTo(w, k, s)' = UpTo(w, k, s) /\ Before(w, k, s)' = Before(w, k, s)
  BY <1>2 DEF UpTo, Before, Prefix, Other
<1> DEFINE After(w) ==
      /\ UpTo(w, currentInstruction', currentInstructionSize')
      /\ Pending' => Before(w, Written', currentInstructionSize')
      /\ Retries' => (Prefix(w[1]) = Prefix(currentInstruction') => w[2] = 2)
<1>4. SUFFICES ASSUME Proper, NEW w \in Done' PROVE After(w)
  BY <1>2 DEF DoneInv, UpTo, Before, Prefix, Other
<1>5. /\ currentInstruction \in instr_t /\ currentInstructionSize \in {2, 4}
      /\ nextInstruction \in instr_t /\ Written \in instr_t
      /\ w \in instr_t \X {2, 4}
  BY DEF VarInv, Written, DoneType
<1>6. ASSUME w \in Done
      PROVE  /\ UpTo(w, currentInstruction, currentInstructionSize)
             /\ Pending => Before(w, Written, currentInstructionSize)
             /\ Retries => (Prefix(w[1]) = Prefix(currentInstruction) => w[2] = 2)
  BY <1>4, <1>6 DEF DoneInv
<1>7. Retries' => /\ vle /\ pc' \notin {"write", "run"}
                  /\ currentInstructionSize' = 2
  BY <1>2
  DEF Retries, SizeInv, FixedSize, TornSize, VleSize, HandlerInv, VlePcs, vle
<1>8. CASE Fetch
  <2>1. w \in Done
    BY <1>4, <1>8, FetchStep DEF Done, Scanned
  <2>2. CASE RetrySize
    <3>1. /\ currentInstructionSize' = 4
          /\ pc = "retrySize" /\ vle /\ Retries
      BY <2>2
      DEF RetrySize, Result, instructionSizeUC, Retries, HandlerInv, VlePcs
    <3>2. currentInstructionSize = 2
      BY <3>1, RetriesFacts
    <3>3. currentInstruction' = currentInstruction /\ Written' = currentInstruction
          /\ ~ Retries'
      BY <1>8, <2>2, FetchStep DEF RetrySize
    <3>4. Prefix(w[1]) <= Prefix(currentInstruction)
          /\ Prefix(w[1]) \in Nat /\ Prefix(currentInstruction) \in Nat
      BY <1>5, <1>6, <2>1, <3>1, <3>2, OrderFacts
    <3>5. Before(w, currentInstruction, 4)
      BY <1>6, <2>1, <3>1, <3>4 DEF Before
    <3>6. UpTo(w, currentInstruction, 4)
      BY <1>5, <3>5, OrderFacts
    <3> QED
      BY <3>1, <3>3, <3>5, <3>6
  <2>3. ASSUME ~ RetrySize, NEW k, Result(k) PROVE After(w)
    <3>1. k \in instr_t /\ Before(w, k, currentInstructionSize)
      BY <1>4, <1>5, <1>6, <1>8, <2>1, <2>3, ResultAfter
    <3>2. UpTo(w, k, currentInstructionSize)
      BY <1>5, <3>1, OrderFacts
    <3>3. pc' = "write"
      BY <2>3 DEF Result
    <3>4. UNCHANGED currentInstructionSize
      BY <1>8, <2>3, <3>3, FetchStep DEF ShortenSize
    <3>5. Written' = k /\ currentInstruction' \in {currentInstruction, k}
      BY <1>8, <2>3, FetchStep
    <3> QED
      BY <1>6, <1>7, <2>1, <3>1, <3>2, <3>3, <3>4, <3>5
  <2>4. CASE ~ RetrySize /\ \A k : ~ Result(k)
    <3>1. UNCHANGED currentInstruction /\ ~ Pending' /\ (Retries' => Retries)
      BY <1>8, <2>4, FetchStep
    <3>2. currentInstructionSize' \in {currentInstructionSize, 2}
      BY <1>8, <2>4, FetchStep
    <3>3. UpTo(w, currentInstruction, currentInstructionSize')
      BY <1>5, <1>6, <2>1, <3>2, OrderFacts
    <3> QED
      BY <1>6, <2>1, <3>1, <3>3
  <2> QED
    BY <2>2, <2>3, <2>4
<1>9. CASE ~ Fetch /\ ~ Analyse
  <2>1. w \in Done
    BY <1>4, <1>9, DoneStep
  <2>2. /\ UNCHANGED currentInstructionSize
        /\ \/ UNCHANGED currentInstruction
           \/ Pending /\ currentInstruction' = Written /\ pc' = "run"
        /\ Pending' => Pending /\ Written' = Written
        /\ Retries' => Retries
    BY <1>9, QuietStep DEF size
  <2>3. Pending => UpTo(w, Written, currentInstructionSize)
    BY <1>5, <1>6, <2>1, OrderFacts
  <2>4. UpTo(w, currentInstruction', currentInstructionSize')
    BY <1>6, <2>1, <2>2, <2>3
  <2>5. Pending' => Before(w, Written', currentInstructionSize')
    BY <1>6, <2>1, <2>2
  <2>6. Retries' => (Prefix(w[1]) = Prefix(currentInstruction') => w[2] = 2)
    BY <1>6, <1>7, <2>1, <2>2
  <2> QED
    BY <2>4, <2>5, <2>6
<1>10. CASE Analyse
  <2>1. /\ pc = "analyse" /\ ~ Pending'
        /\ UNCHANGED <<currentInstruction, currentInstructionSize>>
    BY <1>10 DEF Analyse, Pending, size, progress
  <2>2. ~ Fetch
    BY <2>1
    DEF Fetch, FetchVisited, vleExhaustive, RetryLonger, RetryPointer,
        RetrySize, NextExpansion, ShortenPointer, ShortenSize, NextPrefix
  <2>3. Retries' => Retries \/ (vle /\ SizeCheck)
    BY <2>2, QuietStep
  <2>4. CASE w \in Done
    <3>1. ASSUME vle, SizeCheck PROVE Prefix(w[1]) # Prefix(currentInstruction)
      <4>1. handler = "fault" /\ instructionPointer = 2
        BY <2>1, <3>1, SizeErrorFacts
      <4>2. currentInstructionSize = 2
        BY <2>1, <3>1, <4>1 DEF SizeInv, TornSize, VleSize
      <4>3. Before(w, currentInstruction, 2)
        BY <1>6, <2>1, <2>4, <4>1, <4>2 DEF Pending, Written
      <4>4. Prefix(w[1]) < Prefix(currentInstruction)
            /\ Prefix(w[1]) \in Nat /\ Prefix(currentInstruction) \in Nat
        BY <1>5, <3>1, <4>3, OrderFacts
      <4> QED
        BY <4>4
    <3> QED
      BY <1>6, <2>1, <2>3, <2>4, <3>1
  <2>5. CASE w \notin Done
    <3>1. PICK s \in {2, 4} :
            /\ fetchInstruction # "exhaustive" => s = currentInstructionSize
            /\ w = <<currentInstruction, s>>
      BY <1>4, <2>5, DoneStep
    <3>2. w[1] = currentInstruction /\ w[2] = s
      BY <3>1
    <3>3. UpTo(w, currentInstruction, currentInstructionSize)
      BY <1>5, <3>1, <3>2, OrderFacts DEF UpTo, vle
    <3>4. Retries' => w[2] = 2
      BY <1>7, <2>1, <3>1, <3>2 DEF vle
    <3> QED
      BY <2>1, <3>3, <3>4
  <2> QED
    BY <2>4, <2>5
<1> QED
  BY <1>8, <1>9, <1>10

LEMMA NothingTwiceFact ==
  ASSUME VarInv, HandlerInv, DoneInv
  PROVE  NothingTwice
<1>1. SUFFICES ASSUME pc = "run", Proper,
                      <<currentInstruction, currentInstructionSize>> \in Done
      PROVE  FALSE
  BY DEF NothingTwice, Proper, Done
<1>2. Before(<<currentInstruction, currentInstructionSize>>,
             currentInstruction, currentInstructionSize)
  BY <1>1 DEF DoneInv, Pending, Written
<1>3. /\ currentInstruction \in Nat /\ Prefix(currentInstruction) \in Nat
      /\ Other(currentInstruction) \in Nat
  BY HalvesFacts, ConstantFacts DEF VarInv
<1> QED
  BY <1>2, <1>3 DEF Before


-----------------------------------------------------------------------------
(* What is covered. *)

LEMMA PartFacts ==
  ASSUME VarInv, NEW k \in firstInstruction .. finalInstruction
  PROVE  k \in instr_t /\ (fetchInstruction # "riscvg" => Prefix(k) = k)
<1>1. firstInstruction \in instr_t /\ finalInstruction \in instr_t
  BY SetupFacts
<1>2. firstInstruction \in Nat /\ finalInstruction \in Nat
  BY <1>1, HalvesFacts
<1>3. k \in instr_t /\ k <= finalInstruction /\ k \in Nat
  BY <1>1, <1>2, ConstantFacts DEF instr_t
<1>4. fetchInstruction # "riscvg" => finalInstruction \in 0 .. HalfMod - 1
  BY SetupFacts
<1>5. fetchInstruction # "riscvg" => k < HalfMod
  BY <1>2, <1>3, <1>4, ConstantFacts
<1> QED
  BY <1>3, <1>5, HalvesFacts

LEMMA WantedWord ==
  ASSUME VarInv, ~ vle, Proper, NEW w \in Wanted
  PROVE  /\ w \in instr_t \X {2, 4} /\ ~ search(w[1])
         /\ w[1] \in firstInstruction .. finalInstruction
         /\ fetchInstruction # "riscvg" => Prefix(w[1]) = w[1]
         /\ fetchInstruction = "riscvc" => ~ IsLong(w[1]) /\ w[2] = 2
         /\ fetchInstruction = "riscvg" =>
              (finalInstruction - w[1]) % 4 = 0 /\ w[2] = 4
         /\ fetchInstruction = "exhaustive" =>
              w[2] = IF IsLong(w[1]) THEN 4 ELSE 2
<1>1. w = <<w[1], w[2]>> /\ w[2] \in {2, 4}
  BY WantedPairs
<1>2. fetchInstruction \in {"riscvg", "riscvc", "exhaustive"}
  BY SetupFacts DEF Stages, vle
<1>3. /\ w[1] \in firstInstruction .. finalInstruction /\ ~ search(w[1])
      /\ fetchInstruction = "riscvc" => ~ IsLong(w[1]) /\ w[2] = 2
      /\ fetchInstruction = "riscvg" =>
           (w[1] - firstInstruction) % 4 = 0 /\ w[2] = 4
      /\ fetchInstruction = "exhaustive" => w[2] = IF IsLong(w[1]) THEN 4 ELSE 2
  BY <1>1, <1>2, WantedFacts
<1>4. w[1] \in instr_t /\ (fetchInstruction # "riscvg" => Prefix(w[1]) = w[1])
  BY <1>3, PartFacts
<1>5. fetchInstruction = "riscvg" => (finalInstruction - w[1]) % 4 = 0
  <2>1. w[1] \in Nat /\ firstInstruction \in Nat /\ finalInstruction \in Nat
    BY <1>4, SetupFacts, HalvesFacts
  <2>2. SUFFICES ASSUME fetchInstruction = "riscvg"
        PROVE  (finalInstruction - w[1]) % 4 = 0
    OBVIOUS
  <2>3. /\ (finalInstruction - firstInstruction) % 4 = 0
        /\ (w[1] - firstInstruction) % 4 = 0
    BY <1>3, <2>2 DEF Proper, Aligned
  <2> QED
    BY <2>1, <2>3
<1> QED
  BY <1>1, <1>3, <1>4, <1>5

LEMMA WantedVle ==
  ASSUME VarInv, vle, NEW w \in Wanted
  PROVE  /\ w \in instr_t \X {2, 4} /\ ~ search(w[1])
         /\ Prefix(w[1]) \in firstInstruction .. finalInstruction
         /\ ~ search(Prefix(w[1]))
         /\ w[2] = 2 => Prefix(w[1]) = w[1] /\ ~ IsLong(w[1])
         /\ w[2] = 4 => IsLong(Prefix(w[1]))
         /\ Prefix(w[1]) = finalInstruction => Other(w[1]) = 0
<1>1. w = <<w[1], w[2]>> /\ w[2] \in {2, 4}
  BY WantedPairs
<1>2. \/ /\ w[1] \in firstInstruction .. finalInstruction /\ ~ search(w[1])
         /\ ~ IsLong(w[1]) /\ w[2] = 2
      \/ /\ w[1] \in instr_t /\ ~ search(w[1]) /\ w[2] = 4
         /\ IsLong(Prefix(w[1])) /\ ~ search(Prefix(w[1]))
         /\ Prefix(w[1]) \in firstInstruction .. finalInstruction
         /\ Prefix(w[1]) = finalInstruction => Other(w[1]) = 0
  BY <1>1, WantedFacts
<1>3. CASE /\ w[1] \in firstInstruction .. finalInstruction /\ ~ search(w[1])
           /\ ~ IsLong(w[1]) /\ w[2] = 2
  <2>1. w[1] \in instr_t /\ Prefix(w[1]) = w[1]
    BY <1>3, PartFacts DEF vle
  <2>2. w[1] < HalfMod
    BY <2>1, HalvesFacts, ConstantFacts
  <2>3. Other(w[1]) = 0
    BY <2>1, <2>2, HalvesFacts
  <2> QED
    BY <1>1, <1>3, <2>1, <2>3
<1> QED
  BY <1>1, <1>2, <1>3

\* A stage passes over nothing that is wanted.
LEMMA NothingBetween ==
  ASSUME VarInv, HandlerInv, SizeInv, RangeInv, Proper, Fetch, ~ RetrySize,
         NEW k, Result(k), NEW w \in Wanted,
         ~ UpTo(w, currentInstruction, currentInstructionSize)
  PROVE  ~ Before(w, k, currentInstructionSize)
<1>1. currentInstruction \in instr_t /\ currentInstructionSize \in {2, 4}
      /\ HalfMod \in Nat
  BY ConstantFacts DEF VarInv
<1>2. ASSUME NEW l, Result(l) PROVE l = k
  <2>1. UNCHANGED entered
    BY DEF Fetch
  <2> QED
    BY <1>2, <2>1, ResultFacts
<1>3. pc' = "write"
  BY DEF Result
<1>4. CASE ~ vle
  <2>1. PICK n \in 0 .. InstrMod :
          /\ Yields(fetchInstruction, currentInstruction, finalInstruction, n)
          /\ k = Visited(fetchInstruction, currentInstruction, n + 1)
    BY <1>2, <1>3, <1>4, FetchCases
  <2>2. /\ finalInstruction \in instr_t /\ n \in Nat /\ n + 1 \in Nat
        /\ fetchInstruction # "riscvg" => finalInstruction < HalfMod
        /\ fetchInstruction \in {"exhaustive", "riscvg", "riscvc"}
    BY <1>1, <1>4, SetupFacts, ConstantFacts DEF Stages, vle
  <2>3. Reach(fetchInstruction, currentInstruction, finalInstruction)
    BY <1>4 DEF RangeInv, InPart
  <2>4. /\ w[1] \in Nat /\ currentInstruction \in Nat /\ ~ search(w[1])
        /\ currentInstruction < w[1]
        /\ fetchInstruction = "riscvc" => ~ IsLong(w[1])
        /\ fetchInstruction = "riscvg" => (finalInstruction - w[1]) % 4 = 0
    <3>1. w \in instr_t \X {2, 4}
      BY <1>4, WantedWord
    <3>2. w[1] \in Nat /\ currentInstruction \in Nat
      BY <1>1, <3>1, OrderFacts
    <3>3. ~ (w[1] <= currentInstruction)
      BY <1>4 DEF UpTo
    <3> QED
      BY <1>4, <3>2, <3>3, WantedWord
  <2>5. SUFFICES ASSUME w[1] < k PROVE FALSE
    BY <1>4 DEF Before
  <2>6. \A e \in 0 .. (n + 1) - 1 :
          ~ AtEnd(fetchInstruction,
                  Visited(fetchInstruction, currentInstruction, e),
                  finalInstruction)
    BY <2>1, <2>2 DEF Yields, PassesOver
  <2>7. k \in Nat
    BY <1>1, <2>1, <2>2, VisitedType, HalvesFacts
  <2>8. PICK e \in 1 .. n + 1 :
          w[1] = Visited(fetchInstruction, currentInstruction, e)
    BY <2>1, <2>2, <2>3, <2>4, <2>5, <2>6, <2>7, NothingLeftOut
  <2>9. e \in 1 .. n
    BY <2>1, <2>2, <2>4, <2>5, <2>7, <2>8
  <2> QED
    BY <2>1, <2>4, <2>8, <2>9 DEF Yields, PassesOver
<1>5. CASE vle
  <2> DEFINE p == Prefix(currentInstruction)
  <2>1. p \in 0 .. HalfMod - 1 /\ finalInstruction \in 0 .. HalfMod - 1
        /\ w \in instr_t \X {2, 4}
    BY <1>1, <1>5, HalvesFacts, SetupFacts, WantedVle DEF vle
  <2>2. \/ /\ currentInstructionSize = 4 /\ Expansions # {}
           /\ k = Min(Expansions)
        \/ /\ currentInstructionSize = 2
           /\ ~ (p + 1 .. finalInstruction \subseteq Blacklist)
           /\ k = Min(LeftOf(p))
    BY <1>2, <1>3, <1>5, FetchCases
  <2>3. CASE currentInstructionSize = 4 /\ Expansions # {} /\ k = Min(Expansions)
    <3>1. /\ k \in instr_t /\ Prefix(k) = p
          /\ Other(k) \in Other(currentInstruction) + 1 .. HalfMod - 1
          /\ \A x \in Expansions : k <= x
      BY <1>1, <2>3, ExpansionFacts
    <3>2. SUFFICES ASSUME Before(w, k, 4) PROVE FALSE
      BY <2>3
    <3>3. /\ Prefix(w[1]) = p /\ w[2] # 2
          /\ ~ (Other(w[1]) <= Other(currentInstruction))
          /\ Other(w[1]) < Other(k)
      BY <1>5, <2>3, <3>1, <3>2 DEF UpTo, Before
    <3>4. /\ Other(w[1]) \in 0 .. HalfMod - 1
          /\ Other(currentInstruction) \in 0 .. HalfMod - 1
          /\ w[1] = construct(p, Other(w[1])) /\ w[1] \in Nat
          /\ k = construct(p, Other(k)) /\ k \in Nat
      BY <1>1, <2>1, <3>1, <3>3, HalvesFacts
    <3>5. w[1] \in Expansions
      <4>1. Other(w[1]) \in Other(currentInstruction) + 1 .. HalfMod - 1
        BY <1>1, <3>3, <3>4
      <4>2. w[1] \notin Blacklist
        BY <1>5, WantedVle DEF search
      <4> QED
        BY <3>4, <4>1, <4>2 DEF Expansions
    <3>6. w[1] < k
      <4>1. (Other(k) - Other(w[1])) * HalfMod > 0
        BY <1>1, <3>1, <3>3, <3>4
      <4>2. Other(k) * HalfMod > Other(w[1]) * HalfMod
        BY <1>1, <3>1, <3>4, <4>1
      <4> QED
        BY <1>1, <2>1, <3>1, <3>4, <4>2 DEF construct
    <3> QED
      BY <3>1, <3>4, <3>5, <3>6
  <2>4. CASE /\ currentInstructionSize = 2
             /\ ~ (p + 1 .. finalInstruction \subseteq Blacklist)
             /\ k = Min(LeftOf(p))
    <3>1. /\ k \in p + 1 .. HalfMod - 1 /\ k \in instr_t
          /\ \A q \in p + 1 .. HalfMod - 1 : q < k => search(q)
      BY <2>1, <2>4, LeftFacts
    <3>2. Prefix(k) = k
      BY <1>1, <2>1, <3>1, HalvesFacts
    <3>3. SUFFICES ASSUME Before(w, k, 2) PROVE FALSE
      BY <2>4
    <3>4. Prefix(w[1]) < k /\ ~ (Prefix(w[1]) <= p) /\ Prefix(w[1]) \in Nat
      BY <1>1, <1>5, <2>1, <2>4, <3>1, <3>2, <3>3, OrderFacts
    <3>5. Prefix(w[1]) \in p + 1 .. HalfMod - 1
      BY <1>1, <2>1, <3>1, <3>4
    <3> QED
      BY <1>5, <3>1, <3>4, <3>5, WantedVle
  <2> QED
    BY <2>2, <2>3, <2>4
<1> QED
  BY <1>4, <1>5


\* When a stage stops, nothing is wanted after the current instruction.
LEMMA NothingAfter ==
  ASSUME VarInv, HandlerInv, SizeInv, RangeInv, Proper, Fetch, stopWorker,
         NEW w \in Wanted,
         ~ UpTo(w, currentInstruction, currentInstructionSize)
  PROVE  FALSE
<1>1. currentInstruction \in instr_t /\ currentInstructionSize \in {2, 4}
      /\ HalfMod \in Nat
  BY ConstantFacts DEF VarInv
<1>2. ASSUME NEW l, Result(l) PROVE FALSE
  BY <1>2 DEF Result, stopWorker
<1>3. CASE FetchVisited
  <2>1. PICK n \in 0 .. InstrMod :
          Finishes(fetchInstruction, currentInstruction, finalInstruction, n)
    BY <1>2, <1>3 DEF FetchVisited
  <2>2. ~ vle
    BY <1>3 DEF FetchVisited, vle
  <2>3. /\ finalInstruction \in instr_t /\ n \in Nat
        /\ fetchInstruction # "riscvg" => finalInstruction < HalfMod
        /\ fetchInstruction \in {"exhaustive", "riscvg", "riscvc"}
    BY <1>1, <2>2, SetupFacts, ConstantFacts DEF Stages, vle
  <2>4. Reach(fetchInstruction, currentInstruction, finalInstruction)
    BY <2>2 DEF RangeInv, InPart
  <2>5. w \in instr_t \X {2, 4}
    BY <2>2, WantedWord
  <2>6. /\ w[1] \in Nat /\ currentInstruction \in Nat
        /\ ~ (w[1] <= currentInstruction)
    BY <1>1, <2>2, <2>5, OrderFacts DEF UpTo
  <2>7. /\ ~ search(w[1]) /\ currentInstruction < w[1]
        /\ w[1] \in firstInstruction .. finalInstruction
        /\ fetchInstruction = "riscvc" => ~ IsLong(w[1])
        /\ fetchInstruction = "riscvg" => (finalInstruction - w[1]) % 4 = 0
    BY <2>2, <2>6, WantedWord
  <2>8. w[1] <= Visited(fetchInstruction, currentInstruction, n)
    <3>1. Visited(fetchInstruction, currentInstruction, n) >= finalInstruction
      <4>1. /\ Visited(fetchInstruction, currentInstruction, n) \in Nat
            /\ finalInstruction \in Nat
        BY <1>1, <2>3, VisitedType, HalvesFacts
      <4> QED
        BY <2>1, <4>1 DEF Finishes, AtEnd
    <3>2. /\ Visited(fetchInstruction, currentInstruction, n) \in Nat
          /\ finalInstruction \in Nat /\ firstInstruction \in Nat
      BY <1>1, <2>3, VisitedType, SetupFacts, HalvesFacts
    <3> QED
      BY <2>6, <2>7, <3>1, <3>2
  <2>9. \A e \in 0 .. n - 1 :
          ~ AtEnd(fetchInstruction,
                  Visited(fetchInstruction, currentInstruction, e),
                  finalInstruction)
    BY <2>1 DEF Finishes, PassesOver
  <2>10. PICK e \in 1 .. n :
           w[1] = Visited(fetchInstruction, currentInstruction, e)
    BY <2>3, <2>4, <2>6, <2>7, <2>8, <2>9, NothingLeftOut
  <2> QED
    BY <2>1, <2>7, <2>10 DEF Finishes, PassesOver
<1>4. CASE vleExhaustive
  <2>1. vle
    BY <1>4
    DEF vleExhaustive, RetryLonger, RetryPointer, RetrySize, NextExpansion,
        ShortenPointer, ShortenSize, NextPrefix, HandlerInv, VlePcs, vle
  <2>2. /\ finalInstruction \in 0 .. HalfMod - 1
        /\ w \in instr_t \X {2, 4}
    BY <2>1, SetupFacts, WantedVle DEF vle
  <2>3. /\ Prefix(currentInstruction) \in 0 .. HalfMod - 1
        /\ Prefix(w[1]) \in Nat /\ Prefix(w[1]) <= finalInstruction
        /\ Other(w[1]) \in Nat /\ Other(currentInstruction) \in Nat
        /\ ~ search(Prefix(w[1]))
    <3>1. /\ Prefix(w[1]) \in Nat
          /\ Other(w[1]) \in Nat /\ Other(currentInstruction) \in Nat
      BY <1>1, <2>2, OrderFacts
    <3>2. firstInstruction \in Nat /\ finalInstruction \in Nat
      BY SetupFacts, HalvesFacts
    <3>3. Prefix(w[1]) \in firstInstruction .. finalInstruction
          /\ ~ search(Prefix(w[1]))
      BY <2>1, WantedVle
    <3> QED
      BY <1>1, <3>1, <3>2, <3>3, HalvesFacts
  <2>4. CASE NextExpansion
    <3>1. currentInstruction = finalInstruction /\ currentInstructionSize = 4
      BY <1>2, <2>4 DEF NextExpansion, stopWorker, instructionSizeUC
    <3>2. Prefix(currentInstruction) = finalInstruction
      BY <1>1, <2>2, <3>1, HalvesFacts
    <3>3. /\ ~ (Prefix(w[1]) < finalInstruction)
          /\ Prefix(w[1]) = finalInstruction =>
               w[2] # 2 /\ ~ (Other(w[1]) <= Other(currentInstruction))
      BY <2>1, <3>1, <3>2 DEF UpTo
    <3>4. Prefix(w[1]) = finalInstruction
      BY <1>1, <2>2, <2>3, <3>3
    <3>5. Other(w[1]) = 0
      BY <2>1, <3>4, WantedVle
    <3> QED
      BY <2>3, <3>3, <3>4, <3>5
  <2>5. CASE NextPrefix
    <3>1. Prefix(currentInstruction) + 1 .. finalInstruction \subseteq Blacklist
      BY <1>2, <2>5 DEF NextPrefix
    <3>2. currentInstructionSize = 2
      BY <1>1, <2>1, <2>5
      DEF NextPrefix, SizeInv, TornSize, VleSize, instructionSizeUC
    <3>3. ~ (Prefix(w[1]) <= Prefix(currentInstruction))
      BY <1>1, <2>1, <2>2, <3>2, OrderFacts
    <3>4. Prefix(w[1]) \in Prefix(currentInstruction) + 1 .. finalInstruction
      BY <1>1, <2>2, <2>3, <3>3
    <3> QED
      BY <2>3, <3>1, <3>4 DEF search
  <2> QED
    BY <1>2, <1>4, <2>4, <2>5
    DEF vleExhaustive, RetryLonger, RetryPointer, RetrySize, ShortenPointer,
        ShortenSize, stopWorker, progress
<1> QED
  BY <1>3, <1>4 DEF Fetch


\* What is up to an instruction and not before it is the instruction, or of
\* the same prefix.
LEMMA OrderEqual ==
  ASSUME NEW w \in instr_t \X {2, 4}, NEW k \in instr_t, NEW s \in {2, 4},
         UpTo(w, k, s), ~ Before(w, k, s)
  PROVE  /\ ~ vle => w[1] = k
         /\ vle => Prefix(w[1]) = Prefix(k)
         /\ vle /\ s = 4 => w = <<k, 4>>
<1>1. /\ w[1] \in Nat /\ k \in Nat /\ w[2] \in {2, 4} /\ w = <<w[1], w[2]>>
      /\ Prefix(w[1]) \in Nat /\ Prefix(k) \in Nat
      /\ Other(w[1]) \in Nat /\ Other(k) \in Nat
      /\ w[1] \in instr_t
  <2>1. w = <<w[1], w[2]>> /\ w[1] \in instr_t
    OBVIOUS
  <2> QED
    BY <2>1, OrderFacts
<1>2. ~ vle => w[1] = k
  BY <1>1 DEF UpTo, Before
<1>3. vle => Prefix(w[1]) = Prefix(k)
  BY <1>1 DEF UpTo, Before
<1>4. ASSUME vle, s = 4 PROVE w = <<k, 4>>
  <2>1. w[2] = 4 /\ Other(w[1]) = Other(k)
    BY <1>1, <1>3, <1>4 DEF UpTo, Before
  <2>2. w[1] = construct(Prefix(k), Other(k)) /\ k = construct(Prefix(k), Other(k))
    BY <1>1, <1>3, <1>4, <2>1, HalvesFacts
  <2> QED
    BY <1>1, <2>1, <2>2
<1> QED
  BY <1>2, <1>3, <1>4

\* The analysis covers the current instruction.
LEMMA AnalysedCovers ==
  ASSUME VarInv, HandlerInv, SizeInv, PageInv, WordInv, RangeInv, Proper, Next,
         ~ Torn, Analyse, ~ sizeError',
         NEW w \in Wanted,
         UpTo(w, currentInstruction, currentInstructionSize),
         ~ Before(w, currentInstruction, currentInstructionSize),
         ~ (vle /\ currentInstructionSize = 2 /\ Other(currentInstruction) # 0)
  PROVE  w \in Done' \/ <<Prefix(w[1]), 2>> \in hangs'
<1> DEFINE k == currentInstruction
<1>1. /\ currentInstruction \in instr_t /\ currentInstructionSize \in {2, 4}
      /\ pc = "analyse" /\ handler \in {"fault", "hang"}
      /\ sizeError' = IF vle /\ SizeCheck THEN TRUE ELSE sizeError
  BY DEF VarInv, Analyse, analyse, HandlerInv, vle
<1>2. ~ (vle /\ SizeCheck)
  BY <1>1
<1>3. PICK s \in {2, 4} :
        /\ fetchInstruction # "exhaustive" => s = currentInstructionSize
        /\ <<k, s>> \in Done'
        /\ handler = "hang" =>
             <<k, s>> \in hangs' /\ s = currentInstructionSize
        /\ handler = "fault" /\ fetchInstruction = "exhaustive" =>
             s = IF SizeCheck THEN 4 ELSE 2
  BY <1>1, <1>2, DoneStep
<1>4. w \in instr_t \X {2, 4} /\ w = <<w[1], w[2]>>
  BY WantedWord, WantedVle
<1>5. ASSUME handler = "fault"
      PROVE  \/ Astray(k) \/ (Ran.size = s /\ <<k, s>> \in Wanted)
  BY <1>1, <1>2, <1>3, <1>5, AnalysedWord
<1>6. CASE ~ vle
  <2>1. w[1] = k
    BY <1>1, <1>4, <1>6, OrderEqual
  <2>2. fetchInstruction \in {"riscvg", "riscvc", "exhaustive"}
    BY <1>6, SetupFacts DEF Stages, vle
  <2>3. CASE fetchInstruction # "exhaustive"
    <3>1. currentInstructionSize = IF fetchInstruction = "riscvg" THEN 4 ELSE 2
      BY <1>6 DEF SizeInv, FixedSize, instructionSize
    <3>2. w[2] = s
      BY <1>3, <1>6, <2>2, <2>3, <3>1, WantedWord
    <3> QED
      BY <1>3, <1>4, <2>1, <3>2
  <2>4. CASE fetchInstruction = "exhaustive" /\ handler = "fault"
    <3>1. <<k, s>> \in Wanted
      BY <1>5, <2>4 DEF Astray
    <3>2. s = w[2]
      BY <1>4, <2>1, <2>4, <3>1, WantedFacts
    <3> QED
      BY <1>3, <1>4, <2>1, <3>2
  <2>5. CASE fetchInstruction = "exhaustive" /\ handler = "hang"
    <3>1. currentInstructionSize = 2
      BY <1>6, <2>5 DEF SizeInv, FixedSize, instructionSize
    <3>2. Prefix(w[1]) = k
      BY <1>6, <2>1, <2>5, WantedWord
    <3> QED
      BY <1>3, <2>5, <3>1, <3>2
  <2> QED
    BY <1>1, <2>2, <2>3, <2>4, <2>5
<1>7. CASE vle /\ currentInstructionSize = 4
  BY <1>1, <1>3, <1>4, <1>7, OrderEqual DEF vle
<1>8. CASE vle /\ currentInstructionSize = 2
  <2>1. Prefix(w[1]) = Prefix(k) /\ Other(k) = 0
    BY <1>1, <1>4, <1>8, OrderEqual
  <2>2. Prefix(k) = k
    <3>1. construct(Prefix(k), 0) = k /\ Prefix(k) \in Nat /\ HalfMod \in Nat
      BY <1>1, <2>1, HalvesFacts, ConstantFacts
    <3> QED
      BY <3>1 DEF construct
  <2>3. s = 2
    BY <1>3, <1>8 DEF vle
  <2>4. CASE handler = "hang"
    BY <1>3, <2>1, <2>2, <2>3, <2>4
  <2>5. CASE handler = "fault"
    <3>1. <<k, 2>> \in Wanted
      BY <1>5, <1>8, <2>3, <2>5 DEF Astray, vle
    <3>2. ~ IsLong(k)
      <4> DEFINE v == <<k, 2>>
      <4>1. v \in Wanted /\ v[1] = k /\ v[2] = 2
        BY <3>1
      <4> HIDE DEF v
      <4> QED
        BY <1>8, <4>1, WantedVle
    <3>3. w[2] = 2 /\ Prefix(w[1]) = w[1]
      BY <1>4, <1>8, <2>1, <2>2, <3>2, WantedVle
    <3> QED
      BY <1>3, <1>4, <2>1, <2>2, <2>3, <3>3
  <2> QED
    BY <1>1, <2>4, <2>5
<1> QED
  BY <1>1, <1>6, <1>7, <1>8


\* Retrying at the longer size passes over nothing.
LEMMA RetryCovers ==
  ASSUME VarInv, WordInv, LongWords, vle, Retries,
         NEW w \in Wanted, ~ Before(w, currentInstruction, 2)
  PROVE  ~ Before(w, currentInstruction, 4)
<1>1. /\ currentInstruction \in instr_t /\ currentInstruction < HalfMod
      /\ IsLong(Prefix(currentInstruction))
  BY DEF VarInv, WordInv, LongWords
<1>2. Prefix(currentInstruction) = currentInstruction
      /\ Other(currentInstruction) = 0
  BY <1>1, HalvesFacts
<1>3. SUFFICES ASSUME Before(w, currentInstruction, 4) PROVE FALSE
  OBVIOUS
<1>4. /\ Prefix(w[1]) = currentInstruction
      /\ w[2] = 2 \/ Other(w[1]) < 0
  BY <1>2, <1>3 DEF Before
<1>5. Other(w[1]) \in Nat /\ w \in instr_t \X {2, 4}
  <2>1. w \in instr_t \X {2, 4}
    BY WantedVle
  <2> QED
    BY <1>1, <2>1, OrderFacts
<1>6. w[2] = 2
  BY <1>4, <1>5
<1> QED
  BY <1>1, <1>2, <1>4, <1>6, WantedVle

\* Nor does setting the size back.
LEMMA SetBackCovers ==
  ASSUME VarInv, SetBack, vle,
         NEW w \in Wanted, ~ UpTo(w, currentInstruction, 4)
  PROVE  ~ UpTo(w, currentInstruction, 2)
<1>1. currentInstruction \in instr_t /\ w \in instr_t \X {2, 4}
  BY WantedVle DEF VarInv
<1>2. SUFFICES ASSUME UpTo(w, currentInstruction, 2) PROVE FALSE
  OBVIOUS
<1>3. /\ Prefix(w[1]) = Prefix(currentInstruction)
      /\ ~ (Other(w[1]) <= Other(currentInstruction))
  BY <1>2 DEF UpTo
<1>4. /\ Other(w[1]) \in 0 .. HalfMod - 1 /\ HalfMod \in Nat
      /\ Other(currentInstruction) \in 0 .. HalfMod - 1
      /\ w[1] = construct(Prefix(currentInstruction), Other(w[1]))
  <2>1. w[1] \in instr_t
    BY <1>1
  <2> QED
    BY <1>1, <1>3, <2>1, HalvesFacts, ConstantFacts
<1>5. Other(w[1]) \in Other(currentInstruction) + 1 .. HalfMod - 1
  BY <1>3, <1>4
<1>6. w[1] \notin Blacklist
  BY WantedVle DEF search
<1>7. w[1] \in Expansions
  BY <1>4, <1>5, <1>6 DEF Expansions
<1> QED
  BY <1>7 DEF SetBack

\* A unit that is set up on a blacklisted instruction misses nothing there.
LEMMA EntryCovers ==
  ASSUME VarInv, HandlerInv, SizeInv, WordInv, Proper, ~ Torn, PartsInOrder,
         pc = "entry", search(currentInstruction),
         NEW w \in Wanted,
         ~ Before(w, currentInstruction, currentInstructionSize)
  PROVE  ~ UpTo(w, currentInstruction, currentInstructionSize)
<1>1. /\ currentInstruction = firstInstruction
      /\ currentInstruction \in instr_t /\ currentInstructionSize \in {2, 4}
  BY DEF WordInv, VarInv
<1>2. SUFFICES ASSUME UpTo(w, currentInstruction, currentInstructionSize)
      PROVE  FALSE
  OBVIOUS
<1>3. w \in instr_t \X {2, 4}
  BY WantedWord, WantedVle
<1>4. CASE ~ vle
  <2>1. w[1] = currentInstruction
    BY <1>1, <1>2, <1>3, <1>4, OrderEqual
  <2> QED
    BY <1>4, <2>1, WantedWord
<1>5. CASE vle
  <2>1. Prefix(w[1]) = Prefix(currentInstruction)
    BY <1>1, <1>2, <1>3, <1>5, OrderEqual
  <2>2. firstInstruction \in firstInstruction .. finalInstruction
    <3>1. firstInstruction <= finalInstruction
      BY DEF PartsInOrder, VarInv
    <3>2. firstInstruction \in Nat /\ finalInstruction \in Nat
      BY SetupFacts, HalvesFacts
    <3> QED
      BY <3>1, <3>2
  <2>3. Prefix(currentInstruction) = currentInstruction
    BY <1>1, <1>5, <2>2, PartFacts DEF vle
  <2> QED
    BY <1>5, <2>1, <2>3, WantedVle
<1> QED
  BY <1>4, <1>5


\* When a stage looks for what is next, the current instruction is analysed.
LEMMA ResultAnalysed ==
  ASSUME VarInv, HandlerInv, SizeInv, Fetch, ~ RetrySize,
         stopWorker \/ \E k : Result(k)
  PROVE  Analysed
<1>1. CASE FetchVisited \/ NextExpansion \/ NextPrefix
  BY <1>1
  DEF FetchVisited, NextExpansion, NextPrefix, SizeInv, FixedSize, vle,
      Analysed, HandlerInv, VlePcs, TornSize, VleSize
<1>2. CASE RetryLonger \/ RetryPointer \/ ShortenPointer \/ ShortenSize
  BY <1>2
  DEF RetryLonger, RetryPointer, ShortenPointer, ShortenSize, Result, stopWorker
<1> QED
  BY <1>1, <1>2 DEF Fetch, vleExhaustive

\* What a stage does that neither stops nor brings in what is next.
LEMMA FetchMoves ==
  ASSUME VarInv, HandlerInv, SizeInv, Fetch, vle, ~ Torn,
         ~ RetrySize, ~ stopWorker, \A k : ~ Result(k),
         NEW w \in Wanted,
         ~ Before(w, currentInstruction, currentInstructionSize),
         Analysed \/ (currentInstructionSize = 2 /\ Other(currentInstruction) # 0)
           => ~ UpTo(w, currentInstruction, currentInstructionSize)
  PROVE  /\ UNCHANGED isStopped
         /\ ~ Before(w, currentInstruction, currentInstructionSize')
         /\ Analysed' \/ (currentInstructionSize' = 2
                            /\ Other(currentInstruction) # 0)
              => ~ UpTo(w, currentInstruction, currentInstructionSize')
<1>1. CASE RetryLonger \/ RetryPointer
  <2>1. /\ UNCHANGED <<currentInstructionSize, isStopped>> /\ ~ Analysed'
    BY <1>1 DEF RetryLonger, RetryPointer, size, progress, Analysed
  <2> QED
    BY <2>1
<1>2. CASE NextExpansion \/ ShortenPointer
  <2>1. /\ UNCHANGED <<currentInstructionSize, isStopped>> /\ Analysed
    BY <1>2
    DEF NextExpansion, ShortenPointer, size, progress, Analysed, SizeInv, VleSize
  <2> QED
    BY <2>1
<1>3. CASE ShortenSize
  <2>1. /\ UNCHANGED isStopped /\ Analysed /\ SetBack
        /\ currentInstructionSize = 4 /\ currentInstructionSize' = 2
    BY <1>3
    DEF ShortenSize, progress, Analysed, SizeInv, VleSize, instructionSize, vle
  <2>2. ~ UpTo(w, currentInstruction, 2)
    BY <2>1, SetBackCovers
  <2>3. ~ Before(w, currentInstruction, 2)
    <3>1. w \in instr_t \X {2, 4} /\ currentInstruction \in instr_t
      BY WantedVle DEF VarInv
    <3> QED
      BY <2>2, <3>1, OrderFacts
  <2> QED
    BY <2>1, <2>2, <2>3
<1>4. CASE FetchVisited \/ NextPrefix
  BY <1>4 DEF FetchVisited, NextPrefix
<1> QED
  BY <1>1, <1>2, <1>3, <1>4 DEF Fetch, vleExhaustive

LEMMA CoverNext ==
  ASSUME PartsInOrder, VarInv, HandlerInv, SizeInv, PageInv, WordInv, RangeInv,
         CoverInv, Next, VarInv', HandlerInv', SizeInv', WordInv'
  PROVE  CoverInv'
<1>1. UNCHANGED <<fetchInstruction, firstInstruction, finalInstruction>>
  BY SetupUnchanged DEF setup
<1>2. vle' = vle /\ Proper' = Proper /\ Wanted' = Wanted
  BY <1>1 DEF vle, Proper, Aligned, Wanted
<1> DEFINE Later(w) ==
      /\ ~ Before(w, currentInstruction', currentInstructionSize')
      /\ Pending' => ~ Before(w, Written', currentInstructionSize')
      /\ Analysed' \/ (vle /\ currentInstructionSize' = 2
                         /\ Other(currentInstruction') # 0)
           => ~ UpTo(w, currentInstruction', currentInstructionSize')
      /\ ~ isStopped'
<1>3. SUFFICES ASSUME Proper, ~ Torn', NEW w \in Wanted, ~ Covered(w)'
      PROVE  Later(w)
  BY <1>2 DEF CoverInv, UpTo, Before, Prefix, Other, Torn, Covered
<1>4. ~ Torn
  BY <1>3, TornStays
<1>5. ~ Covered(w)
  <2>1. Done \subseteq Done' /\ hangs \subseteq hangs'
    <3>1. CASE Done' = Done /\ hangs' = hangs
      BY <3>1
    <3>2. CASE ~ (Done' = Done /\ hangs' = hangs)
      <4>1. handler \in {"fault", "hang"}
        BY <3>2, DoneStep DEF Analyse, HandlerInv
      <4> QED
        BY <3>2, <4>1, DoneStep
    <3> QED
      BY <3>1, <3>2
  <2> QED
    BY <1>3, <2>1 DEF Covered, Prefix
<1>6. /\ ~ Before(w, currentInstruction, currentInstructionSize)
      /\ Pending => ~ Before(w, Written, currentInstructionSize)
      /\ Analysed \/ (vle /\ currentInstructionSize = 2
                        /\ Other(currentInstruction) # 0)
           => ~ UpTo(w, currentInstruction, currentInstructionSize)
      /\ ~ isStopped
  BY <1>3, <1>4, <1>5 DEF CoverInv
<1>7. /\ currentInstruction \in instr_t /\ currentInstructionSize \in {2, 4}
      /\ w \in instr_t \X {2, 4}
  BY <1>3, WantedWord, WantedVle DEF VarInv
\* A 16-bit instruction that is to be run has no other half.
<1>8. Pending' /\ pc' # "entry" /\ vle /\ currentInstructionSize' = 2 =>
        Other(Written') = 0
  <2>1. Written' \in instr_t
    BY DEF Written, VarInv
  <2>2. Pending' /\ pc' # "entry" /\ vle /\ currentInstructionSize' = 2 =>
          Written' < HalfMod
    BY <1>2 DEF WordInv
  <2> QED
    BY <2>1, <2>2, HalvesFacts
<1>9. CASE Fetch
  <2>1. CASE stopWorker
    <3>1. ~ RetrySize
      BY <2>1 DEF RetrySize, Result, stopWorker
    <3>2. Analysed
      BY <1>9, <2>1, <3>1, ResultAnalysed
    <3> QED
      BY <1>3, <1>6, <1>9, <2>1, <3>2, NothingAfter
  <2>2. ASSUME ~ RetrySize, NEW k, Result(k) PROVE Later(w)
    <3>1. Analysed
      BY <1>9, <2>2, ResultAnalysed
    <3>2. ~ UpTo(w, currentInstruction, currentInstructionSize)
      BY <1>6, <3>1
    <3>3. ~ Before(w, k, currentInstructionSize)
      BY <1>3, <1>9, <2>2, <3>2, NothingBetween
    <3>4. pc' = "write" /\ UNCHANGED isStopped
      BY <2>2 DEF Result
    <3>5. /\ UNCHANGED currentInstructionSize
          /\ Pending' /\ Written' = k
          /\ currentInstruction' \in {currentInstruction, k}
      BY <1>9, <2>2, <3>4, FetchStep DEF ShortenSize
    <3>6. ~ Analysed'
      BY <3>4 DEF Analysed
    <3>7. vle /\ currentInstructionSize' = 2 => Other(k) = 0
      BY <1>8, <3>4, <3>5
    <3> QED
      BY <1>6, <3>2, <3>3, <3>4, <3>5, <3>6, <3>7
  <2>3. CASE RetrySize
    <3>1. /\ vle /\ Retries /\ pc' = "write" /\ currentInstructionSize' = 4
          /\ currentInstruction' = currentInstruction /\ UNCHANGED isStopped
      BY <2>3
      DEF RetrySize, Result, Retries, HandlerInv, VlePcs, instructionSizeUC
    <3>2. Written' = currentInstruction
      BY <1>9, <2>3, FetchStep DEF RetrySize
    <3>3. currentInstructionSize = 2 /\ LongWords
      BY <1>4, <3>1, RetriesFacts DEF SizeInv
    <3>4. ~ Before(w, currentInstruction, 4)
      BY <1>6, <3>1, <3>3, RetryCovers
    <3>5. ~ Analysed'
      BY <3>1 DEF Analysed
    <3> QED
      BY <1>6, <3>1, <3>2, <3>4, <3>5
  <2>4. CASE ~ RetrySize /\ ~ stopWorker /\ \A k : ~ Result(k)
    <3>1. UNCHANGED currentInstruction /\ ~ Pending'
      BY <1>9, <2>4, FetchStep
    <3>2. vle
      BY <1>9, <2>4
      DEF Fetch, FetchVisited, vleExhaustive, RetryLonger, RetryPointer,
          NextExpansion, ShortenPointer, ShortenSize, NextPrefix, HandlerInv,
          VlePcs, vle
    <3>3. /\ UNCHANGED isStopped
          /\ ~ Before(w, currentInstruction, currentInstructionSize')
          /\ Analysed' \/ (currentInstructionSize' = 2
                             /\ Other(currentInstruction) # 0)
               => ~ UpTo(w, currentInstruction, currentInstructionSize')
      BY <1>4, <1>6, <1>9, <2>4, <3>2, FetchMoves
    <3> QED
      BY <1>6, <3>1, <3>3
  <2> QED
    BY <2>1, <2>2, <2>3, <2>4
<1>10. CASE ~ Fetch /\ ~ Analyse
  <2>1. /\ UNCHANGED currentInstructionSize
        /\ \/ UNCHANGED currentInstruction
           \/ Pending /\ currentInstruction' = Written /\ pc' = "run"
        /\ Pending' => Pending /\ Written' = Written
    BY <1>10, QuietStep DEF size
  <2>2. UNCHANGED isStopped
    BY <1>10
    DEF Next, Unit, Execute, Hang, LateHang, EnterHangHandler, Entry,
        WriteInstruction, Commit, Return, Stopped, vars, progress
  <2>3. Analysed' => UNCHANGED currentInstruction
                     /\ (Analysed \/ (pc = "entry" /\ search(currentInstruction)))
    <3>1. CASE Entry
      BY <3>1 DEF Entry, Analysed, progress
    <3>2. CASE Stopped
      BY <3>2 DEF Stopped, vars, Analysed, progress
    <3>3. CASE ~ Entry /\ ~ Stopped
      BY <1>10, <3>3
      DEF Next, Unit, Execute, Hang, LateHang, EnterHangHandler,
          WriteInstruction, Commit, Return, Analysed
    <3> QED
      BY <3>1, <3>2, <3>3
  <2>4. pc = "entry" /\ search(currentInstruction) =>
          ~ UpTo(w, currentInstruction, currentInstructionSize)
    BY <1>3, <1>4, <1>6, EntryCovers
  <2>5. CASE UNCHANGED currentInstruction
    BY <1>6, <2>1, <2>2, <2>3, <2>4, <2>5
  <2>6. CASE Pending /\ currentInstruction' = Written /\ pc' = "run"
    <3>1. Written' = Written /\ ~ Analysed' /\ Pending'
      BY <2>6 DEF Written, Analysed, Pending
    <3>2. vle /\ currentInstructionSize' = 2 => Other(currentInstruction') = 0
      BY <1>8, <2>6, <3>1
    <3> QED
      BY <1>6, <2>1, <2>2, <2>6, <3>1, <3>2
  <2> QED
    BY <2>1, <2>5, <2>6
<1>11. CASE Analyse
  <2>1. /\ pc = "analyse" /\ ~ Pending' /\ UNCHANGED isStopped
        /\ UNCHANGED <<currentInstruction, currentInstructionSize>>
    BY <1>11 DEF Analyse, Pending, size, progress
  <2>2. ~ (w \in Done' \/ <<Prefix(w[1]), 2>> \in hangs')
    BY <1>3 DEF Covered, Prefix
  <2>3. ASSUME Analysed',
               ~ (vle /\ currentInstructionSize = 2
                    /\ Other(currentInstruction) # 0)
        PROVE  ~ UpTo(w, currentInstruction, currentInstructionSize)
    <3>1. ~ sizeError'
      BY <2>3 DEF Analysed
    <3> QED
      BY <1>3, <1>4, <1>6, <1>11, <2>2, <2>3, <3>1, AnalysedCovers
  <2> QED
    BY <1>6, <2>1, <2>3
<1> QED
  BY <1>9, <1>10, <1>11


-----------------------------------------------------------------------------
(* The count. *)

\* Where the stages that leave nothing out are after n steps.
LEMMA WalkValue ==
  ASSUME NEW stage \in {"exhaustive", "riscvg"}, NEW f \in instr_t,
         stage # "riscvg" => f < HalfMod,
         NEW k, Reach(stage, k, f), NEW n \in Nat,
         \A e \in 0 .. n - 1 : ~ AtEnd(stage, Visited(stage, k, e), f)
  PROVE  Visited(stage, k, n) = IF stage = "riscvg" THEN k + 4 * n ELSE k + n
<1> DEFINE At(e) == IF stage = "riscvg" THEN k + 4 * e ELSE k + e
           Off == {e \in Nat : e <= n /\ Visited(stage, k, e) # At(e)}
<1>1. SUFFICES ASSUME Off # {} PROVE FALSE
  OBVIOUS
<1>2. PICK m \in Off : \A j \in Off : m <= j
  BY <1>1, LeastNatural
<1>3. k \in Nat
  BY HalvesFacts DEF Reach
<1>4. m # 0
  BY <1>2, <1>3, VisitedSteps
<1>5. m \in Nat /\ m <= n /\ Visited(stage, k, m) # At(m)
  BY <1>2
<1>6. m - 1 \in Nat /\ m - 1 \in 0 .. n - 1 /\ m - 1 \in 0 .. n
      /\ ~ (m <= m - 1) /\ m - 1 <= n /\ (m - 1) + 1 = m
  BY <1>4, <1>5
<1> DEFINE x == Visited(stage, k, m - 1)
<1>7. x = At(m - 1)
  BY <1>2, <1>6
<1>8. Visited(stage, k, (m - 1) + 1) = NextVisited(stage, x)
  BY <1>6, VisitedSteps
<1>9. Reach(stage, x, f) /\ ~ AtEnd(stage, x, f)
  BY <1>6, ReachWalk
<1>10. NextVisited(stage, x) = IF stage = "riscvg" THEN x + 4 ELSE x + 1
  BY <1>9, ReachStep
<1>11. NextVisited(stage, x) = At(m)
  BY <1>3, <1>5, <1>7, <1>10
<1> QED
  BY <1>5, <1>6, <1>8, <1>11

\* A stage counts what it gets past.
LEMMA CountedFacts ==
  ASSUME VarInv, ~ vle, Proper, InPart(currentInstruction), NEW n \in Nat,
         Yields(fetchInstruction, currentInstruction, finalInstruction, n),
         NEW k, k = Visited(fetchInstruction, currentInstruction, n + 1)
  PROVE  /\ Counted(fetchInstruction, currentInstruction, n + 1) \in Nat
         /\ PassedTo(currentInstruction) \in Nat
         /\ PassedTo(k) = PassedTo(currentInstruction) + 1
                + Counted(fetchInstruction, currentInstruction, n + 1)
         /\ PassedTo(k) < CountMod
<1> DEFINE c == currentInstruction
<1>1. /\ finalInstruction \in instr_t /\ firstInstruction \in Nat
      /\ fetchInstruction # "riscvg" => finalInstruction < HalfMod
      /\ fetchInstruction \in {"exhaustive", "riscvg", "riscvc"}
      /\ currentInstruction \in instr_t /\ currentInstruction \in Nat
  <2>1. fetchInstruction # "riscvg" => finalInstruction \in 0 .. HalfMod - 1
    BY SetupFacts
  <2>2. /\ finalInstruction \in instr_t /\ firstInstruction \in instr_t
        /\ currentInstruction \in instr_t /\ fetchInstruction \in Stages
    BY SetupFacts DEF VarInv
  <2> QED
    BY <2>1, <2>2, HalvesFacts, ConstantFacts DEF Stages, vle
<1>2. /\ Reach(fetchInstruction, currentInstruction, finalInstruction)
      /\ firstInstruction <= currentInstruction
  BY DEF InPart
<1>3. \A e \in 0 .. (n + 1) - 1 :
        ~ AtEnd(fetchInstruction,
                Visited(fetchInstruction, currentInstruction, e),
                finalInstruction)
  BY DEF Yields, PassesOver
<1>4. /\ Reach(fetchInstruction, k, finalInstruction)
      /\ currentInstruction < k /\ k \in Nat
  <2>1. /\ Reach(fetchInstruction, k, finalInstruction)
        /\ currentInstruction < k
    BY <1>1, <1>2, YieldsFacts
  <2>2. k \in Nat
    BY <2>1, HalvesFacts DEF Reach
  <2> QED
    BY <2>1, <2>2
<1>5. fetchInstruction # "riscvc" =>
        k = IF fetchInstruction = "riscvg"
              THEN currentInstruction + 4 * (n + 1)
              ELSE currentInstruction + (n + 1)
  BY <1>1, <1>2, <1>3, WalkValue
<1>6. CASE fetchInstruction = "riscvg"
  <2>1. /\ Counted(fetchInstruction, currentInstruction, n + 1) = n
        /\ k = c + 4 * (n + 1)
    BY <1>5, <1>6 DEF Counted
  <2>2. k - firstInstruction = (c - firstInstruction) + 4 * (n + 1)
        /\ c - firstInstruction \in Nat
    BY <1>1, <1>2, <2>1
  <2>3. (k - firstInstruction) \div 4 = (c - firstInstruction) \div 4 + (n + 1)
        /\ (c - firstInstruction) \div 4 \in Nat
    BY <2>2
  <2>4. (k - firstInstruction) \div 4 < CountMod
    <3>1. k < InstrMod /\ InstrMod \in Nat
      BY <1>4, ConstantFacts DEF Reach, instr_t
    <3>2. (k - firstInstruction) \div 4 <= InstrMod \div 4
      BY <1>1, <1>2, <1>4, <3>1
    <3>3. (k - firstInstruction) \div 4 \in Int /\ InstrMod \div 4 \in Int
      BY <1>1, <1>4, <3>1
    <3> QED
      BY <3>2, <3>3, RiscvAssumption
  <2> QED
    BY <1>6, <2>1, <2>3, <2>4 DEF PassedTo
<1>7. CASE fetchInstruction # "riscvg"
  <2>1. Counted(fetchInstruction, currentInstruction, n + 1) = k - c - 1
    BY <1>1, <1>5, <1>7 DEF Counted
  <2>2. k - firstInstruction < CountMod
    <3>1. k <= finalInstruction + 1 /\ finalInstruction \in Nat
      BY <1>1, <1>4, HalvesFacts DEF Reach
    <3>2. finalInstruction < HalfMod /\ HalfMod \in Nat
      BY <1>1, <1>7, ConstantFacts
    <3> QED
      BY <1>1, <1>4, <3>1, <3>2, RiscvAssumption
  <2> QED
    BY <1>1, <1>2, <1>4, <1>7, <2>1, <2>2 DEF PassedTo
<1> QED
  BY <1>6, <1>7

\* The list of hangs, and one more.
LEMMA HangsFacts ==
  ASSUME VarInv
  PROVE  /\ IsFiniteSet(hangs) /\ Cardinality(hangs) \in Nat
         /\ Cardinality(hangs) = 0 => hangs = {}
         /\ \A w : w \notin hangs =>
              Cardinality(hangs \cup {w}) = Cardinality(hangs) + 1
<1>1. IsFiniteSet(instr_t)
  BY ConstantFacts, FS_Interval DEF instr_t
<1>2. IsFiniteSet({2, 4})
  <2>1. IsFiniteSet({}) /\ IsFiniteSet({} \cup {2})
    BY FS_EmptySet, FS_AddElement
  <2>2. IsFiniteSet(({} \cup {2}) \cup {4}) /\ {2, 4} = ({} \cup {2}) \cup {4}
    BY <2>1, FS_AddElement
  <2> QED
    BY <2>2
<1>3. IsFiniteSet(instr_t \X {2, 4})
  BY <1>1, <1>2, FS_Product
<1>4. hangs \subseteq instr_t \X {2, 4}
  BY DEF VarInv
<1>5. IsFiniteSet(hangs)
  BY <1>3, <1>4, FS_Subset
<1> QED
  BY <1>5, FS_CardinalityType, FS_EmptySet, FS_AddElement


\* A sum that does not overflow.
LEMMA CountAdds ==
  ASSUME VarInv, NEW n \in Nat, Count(n),
         numInstrExec + n + (IF handler = "fault" THEN 1 ELSE 0) < CountMod
  PROVE  numInstrExec' =
           numInstrExec + n + (IF handler = "fault" THEN 1 ELSE 0)
<1> DEFINE d == IF handler = "fault" THEN 1 ELSE 0
<1>1. numInstrExec \in Nat /\ d \in Nat /\ CountMod \in Nat \ {0}
  BY ConstantFacts DEF VarInv
<1>2. numInstrExec' = (numInstrExec + n + d) % CountMod
  BY DEF Count
<1>3. numInstrExec + n + d < CountMod
  OBVIOUS
<1> HIDE DEF d
<1>4. (numInstrExec + n + d) % CountMod = numInstrExec + n + d
  BY <1>1, <1>3
<1> QED
  BY <1>2, <1>4 DEF d

\* What is missing from the count.
Missing == Cardinality(hangs) + (IF search(firstInstruction) THEN 1 ELSE 0)

\* A stage adds what it gets past, and faultHandler what has run.
LEMMA CountFetch ==
  ASSUME VarInv, HandlerInv, SizeInv, RangeInv, CountInv, Fetch, ~ Late, ~ vle,
         Proper, NEW k, Result(k)
  PROVE  /\ numInstrExec' + Missing = PassedTo(k) /\ Written' = k
         /\ pc' = "write" /\ UNCHANGED <<handler, hangs>>
<1>1. UNCHANGED <<entered, hangs>> /\ pc' = "write" /\ Written' = k
  <2>1. UNCHANGED entered /\ UNCHANGED hangs
    BY DEF Fetch, history
  <2> QED
    BY <2>1, ResultFacts
<1>2. FetchVisited
  BY DEF Fetch, vleExhaustive, HandlerInv, VlePcs, RetryLonger, RetryPointer,
         RetrySize, NextExpansion, ShortenPointer, ShortenSize, NextPrefix, vle
<1>3. PICK n \in 0 .. InstrMod :
        /\ Yields(fetchInstruction, currentInstruction, finalInstruction, n)
        /\ Count(Counted(fetchInstruction, currentInstruction, n + 1))
        /\ Result(Visited(fetchInstruction, currentInstruction, n + 1))
  <2>1. ~ stopWorker
    BY DEF Result, stopWorker
  <2> QED
    BY <1>2, <2>1 DEF FetchVisited
<1>4. k = Visited(fetchInstruction, currentInstruction, n + 1)
  <2>1. Written' = Visited(fetchInstruction, currentInstruction, n + 1)
    BY <1>1, <1>3, ResultFacts
  <2> QED
    BY <1>1, <2>1
<1> DEFINE c == Counted(fetchInstruction, currentInstruction, n + 1)
           d == IF handler = "fault" THEN 1 ELSE 0
<1>5. /\ c \in Nat /\ PassedTo(currentInstruction) \in Nat
      /\ PassedTo(k) = PassedTo(currentInstruction) + 1 + c
      /\ PassedTo(k) < CountMod
  <2>1. n \in Nat /\ InPart(currentInstruction)
    BY ConstantFacts DEF RangeInv
  <2> QED
    BY <1>3, <1>4, <2>1, CountedFacts
<1>6. numInstrExec + d + Missing = PassedTo(currentInstruction) + 1
  <2>1. pc = "fetch" /\ handler \in {"entry", "fault", "hang"}
    BY <1>2 DEF FetchVisited, HandlerInv
  <2>2. numInstrExec \in Nat /\ Cardinality(hangs) \in Nat
    BY HangsFacts, ConstantFacts DEF VarInv
  <2>3. CASE handler = "fault"
    <3>1. numInstrExec + Cardinality(hangs)
            + (IF search(firstInstruction) THEN 1 ELSE 0)
              = PassedTo(currentInstruction)
      BY <2>1, <2>3 DEF CountInv, Written
    <3> QED
      BY <1>5, <2>2, <2>3, <3>1 DEF Missing
  <2>4. CASE handler = "hang"
    <3>1. numInstrExec + Cardinality(hangs)
            + (IF search(firstInstruction) THEN 1 ELSE 0)
              = PassedTo(currentInstruction) + 1
      BY <2>1, <2>4 DEF CountInv
    <3> QED
      BY <1>5, <2>2, <2>4, <3>1 DEF Missing
  <2>5. CASE handler = "entry"
    <3>1. /\ numInstrExec = 0 /\ hangs = {} /\ search(firstInstruction)
          /\ currentInstruction = firstInstruction
      BY <2>1, <2>5 DEF CountInv
    <3>2. firstInstruction \in Nat
      BY SetupFacts, HalvesFacts
    <3>3. PassedTo(currentInstruction) = 0
      BY <3>1, <3>2 DEF PassedTo
    <3> QED
      BY <2>5, <3>1, <3>3, FS_EmptySet DEF Missing
  <2> QED
    BY <2>1, <2>3, <2>4, <2>5
<1>7. /\ numInstrExec \in Nat /\ d \in Nat /\ CountMod \in Nat
      /\ Missing \in Nat
  BY HangsFacts, ConstantFacts DEF VarInv, Missing
<1>8. numInstrExec + c + d + Missing = PassedTo(k)
  BY <1>5, <1>6, <1>7
<1>9. numInstrExec + c + d < CountMod
  BY <1>5, <1>7, <1>8
<1>10. numInstrExec' = numInstrExec + c + d
  BY <1>3, <1>5, <1>9, CountAdds
<1> QED
  BY <1>1, <1>8, <1>10 DEF entered

\* What comes before the instruction that hangs is done, and no more.
LEMMA HangsAfter ==
  ASSUME VarInv, HandlerInv, DoneInv, Hang, ~ vle, Proper, DoneType
  PROVE  \A w \in Done : w[1] < currentInstruction
<1>1. Pending /\ Written = currentInstruction
  BY DEF Hang, Pending, Written, HandlerInv
<1> QED
  BY <1>1 DEF DoneInv, Before

LEMMA CountNext ==
  ASSUME VarInv, HandlerInv, SizeInv, WordInv, RangeInv, DoneType, DoneInv,
         CountInv, Next
  PROVE  CountInv'
<1>1. UNCHANGED <<fetchInstruction, firstInstruction, finalInstruction>>
  BY SetupUnchanged DEF setup
<1>2. vle' = vle /\ Proper' = Proper
  BY <1>1 DEF vle, Proper, Aligned
<1>3. overtaken \subseteq overtaken'
  BY DEF Next, Unit, Execute, Hang, LateHang, Entry, Analyse, Fetch,
         WriteInstruction, Commit, Return, Stopped, vars, history
<1> DEFINE Sum == numInstrExec + Cardinality(hangs)
                    + (IF search(firstInstruction) THEN 1 ELSE 0)
           Steady == \/ pc \in {"write", "run", "commit"}
                     \/ handler = "fault" /\ pc \in {"analyse", "fetch"}
                     \/ handler = "hang" /\ pc = "analyse"
<1>5. SUFFICES ASSUME ~ Late', ~ vle, Proper PROVE CountInv'
  BY <1>2 DEF CountInv
<1>6. ~ Late /\ ~ LateHang
  BY <1>3, <1>5 DEF Late, LateHang
<1>7. Steady => Sum = PassedTo(Written)
  <2>1. Steady => pc # "entry"
    BY DEF HandlerInv
  <2> QED
    BY <1>5, <1>6, <2>1 DEF CountInv, Pending
\* Where the sum is the same as before.
<1>8. ASSUME Steady, UNCHANGED <<numInstrExec, hangs>>, Written' = Written,
             pc' # "entry",
             ~ (handler' = "hang" /\ pc' = "fetch"),
             ~ (handler' = "entry" /\ pc' = "fetch"),
             handler' = "hang" /\ pc' = "analyse" =>
               (\A w \in Done : w[1] < currentInstruction)'
      PROVE  CountInv'
  BY <1>1, <1>7, <1>8 DEF CountInv, PassedTo
\* Where nothing is claimed.
<1>9. ASSUME pc' \in {"stop", "killed", "lost"} PROVE CountInv'
  BY <1>9 DEF CountInv, Pending
<1>10. CASE Execute
  <2>1. /\ pc = "run" /\ handler = "none" /\ handler' = "fault"
        /\ pc' \in {"analyse", "killed"}
        /\ UNCHANGED <<numInstrExec, hangs, currentInstruction>>
    BY <1>10 DEF Execute, HandlerInv, progress, history
  <2>2. Written' = Written
    BY <2>1 DEF Written
  <2> QED
    BY <1>8, <1>9, <2>1, <2>2
<1>11. CASE Hang
  <2>1. /\ pc = "run" /\ handler = "none" /\ handler' = "hang"
        /\ pc' = "analyse" /\ Done' = Done
        /\ UNCHANGED <<numInstrExec, hangs, currentInstruction>>
    BY <1>11
    DEF Hang, EnterHangHandler, HandlerInv, progress, history, Done, Scanned
  <2>2. Written' = Written
    BY <2>1 DEF Written
  <2>3. \A w \in Done : w[1] < currentInstruction
    BY <1>5, <1>11, HangsAfter
  <2>4. (\A w \in Done : w[1] < currentInstruction)'
    BY <2>1, <2>3
  <2> QED
    BY <1>8, <2>1, <2>2, <2>4
<1>12. CASE Entry
  <2>1. /\ pc = "entry" /\ handler = "entry" /\ handler' = "entry"
        /\ currentInstruction = firstInstruction
        /\ pc' = IF search(firstInstruction) THEN "fetch" ELSE "write"
        /\ UNCHANGED <<numInstrExec, hangs, currentInstruction>>
    BY <1>12 DEF Entry, HandlerInv, WordInv, progress, history, entered
  <2>2. PassedTo(firstInstruction) = 0 /\ numInstrExec \in Nat
        /\ Cardinality(hangs) \in Nat
    <3>1. firstInstruction \in Nat
      BY SetupFacts, HalvesFacts
    <3> QED
      BY <3>1, HangsFacts, ConstantFacts DEF PassedTo, VarInv
  <2>3. Written = firstInstruction /\ Written' = firstInstruction
    BY <2>1 DEF Written
  <2>4. numInstrExec + Cardinality(hangs) + 0 = 0
    BY <1>5, <1>6, <2>1, <2>2, <2>3 DEF CountInv, Pending
  <2>5. numInstrExec = 0 /\ hangs = {}
    BY <2>2, <2>4, HangsFacts
  <2>6. CASE search(firstInstruction)
    BY <1>1, <2>1, <2>5, <2>6 DEF CountInv, Pending, search
  <2>7. CASE ~ search(firstInstruction)
    <3>1. numInstrExec' + Cardinality(hangs')
            + (IF pc' # "entry" /\ search(firstInstruction) THEN 1 ELSE 0) = 0
      BY <2>1, <2>4, <2>7
    <3>2. pc' = "write" /\ handler' = "entry"
      BY <2>1, <2>7
    <3> QED
      BY <1>1, <2>2, <2>3, <3>1, <3>2 DEF CountInv, PassedTo
  <2> QED
    BY <2>6, <2>7
<1>13. CASE Analyse
  <2>1. /\ pc = "analyse" /\ pc' \in {"fetch", "lost"}
        /\ handler \in {"fault", "hang"} /\ handler' = handler
        /\ UNCHANGED <<numInstrExec, currentInstruction>>
        /\ hangs' = IF handler = "hang"
             THEN hangs \cup {<<currentInstruction, currentInstructionSize>>}
             ELSE hangs
    BY <1>13 DEF Analyse, HandlerInv, progress, entered
  <2>2. Written = currentInstruction /\ Written' = currentInstruction
    BY <2>1 DEF Written
  <2>3. CASE handler = "fault"
    BY <1>8, <1>9, <2>1, <2>2, <2>3
  <2>4. CASE handler = "hang"
    <3>1. <<currentInstruction, currentInstructionSize>> \notin hangs
      <4>1. \A w \in Done : w[1] < currentInstruction
        BY <1>5, <1>6, <2>1, <2>4 DEF CountInv
      <4>2. currentInstruction \in Nat
        BY HalvesFacts DEF VarInv
      <4> QED
        BY <4>1, <4>2 DEF Done
    <3>2. Cardinality(hangs') = Cardinality(hangs) + 1
      BY <2>1, <2>4, <3>1, HangsFacts
    <3>3. Sum = PassedTo(currentInstruction)
      BY <1>7, <2>1, <2>2, <2>4
    <3>4. numInstrExec \in Nat /\ Cardinality(hangs) \in Nat
      BY HangsFacts, ConstantFacts DEF VarInv
    <3>5. numInstrExec' + Cardinality(hangs')
            + (IF search(firstInstruction) THEN 1 ELSE 0) =
              PassedTo(currentInstruction) + 1
      BY <2>1, <3>2, <3>3, <3>4
    <3>6. CASE pc' = "fetch"
      BY <1>1, <2>1, <2>4, <3>5, <3>6 DEF CountInv, PassedTo, Pending
    <3> QED
      BY <1>9, <2>1, <3>6
  <2> QED
    BY <2>1, <2>3, <2>4
<1>14. CASE Fetch
  <2>1. CASE \E k : Result(k)
    <3>1. PICK k : Result(k)
      BY <2>1
    <3>2. /\ numInstrExec' + Missing = PassedTo(k) /\ Written' = k
          /\ pc' = "write" /\ UNCHANGED <<handler, hangs>>
      BY <1>5, <1>6, <1>14, <3>1, CountFetch
    <3>3. numInstrExec' \in Int /\ Cardinality(hangs) \in Int
      <4>1. VarInv'
        BY VarNext
      <4> QED
        BY <4>1, HangsFacts, ConstantFacts DEF VarInv
    <3>4. numInstrExec' + Cardinality(hangs')
            + (IF search(firstInstruction) THEN 1 ELSE 0) = PassedTo(Written')
      BY <3>2, <3>3 DEF Missing
    <3> QED
      BY <1>1, <3>2, <3>4 DEF CountInv, PassedTo
  <2>2. CASE ~ \E k : Result(k)
    <3>1. FetchVisited
      BY <1>5, <1>14
      DEF Fetch, vleExhaustive, HandlerInv, VlePcs, RetryLonger, RetryPointer,
          RetrySize, NextExpansion, ShortenPointer, ShortenSize, NextPrefix, vle
    <3>2. pc' = "stop"
      BY <2>2, <3>1 DEF FetchVisited, stopWorker
    <3> QED
      BY <1>9, <3>2
  <2> QED
    BY <2>1, <2>2
<1>15. CASE WriteInstruction
  <2>1. /\ pc = "write" /\ pc' \in {"commit", "run"} /\ Written' = Written
        /\ handler' # "hang" /\ (pc' = "run" => handler' = "none")
        /\ UNCHANGED <<numInstrExec, hangs>>
    BY <1>15 DEF WriteInstruction, Return, Written, entered, history
  <2> QED
    BY <1>8, <2>1
<1>16. CASE Commit
  <2>1. /\ pc = "commit" /\ pc' = "run" /\ Written' = Written
        /\ UNCHANGED <<numInstrExec, hangs>>
    BY <1>16 DEF Commit, Return, Written, history, HandlerInv
  <2> QED
    BY <1>8, <2>1
<1>17. CASE Stopped
  BY <1>9, <1>17 DEF Stopped, vars
<1> QED
  BY <1>6, <1>10, <1>11, <1>12, <1>13, <1>14, <1>15, <1>16, <1>17
  DEF Next, Unit



-----------------------------------------------------------------------------
(* The whole invariant. *)

Inv ==
  /\ VarInv /\ HandlerInv /\ SizeInv /\ PageInv /\ WordInv /\ RangeInv
  /\ RecoveryInv /\ RegistersRecovered /\ StopInv /\ StrideInv
  /\ AnalysedRight /\ NearlyInPart
  /\ DoneType /\ DoneInv /\ CoverInv /\ CountInv

LEMMA InitSetup ==
  ASSUME Init
  PROVE  /\ VarInv /\ HandlerInv /\ SizeInv /\ PageInv /\ WordInv
         /\ Written = currentInstruction /\ Done = {}
<1>1. VarInv
  <2>1. \A p \in Parts : /\ p = <<p[1], p[2], p[3]>> /\ p[1] \in Stages
                         /\ p[2] \in instr_t /\ p[3] \in instr_t
    BY RiscvAssumption
  <2>2. <<fetchInstruction, firstInstruction, finalInstruction>> \in Parts
        /\ firstInstruction \in instr_t
    BY <2>1 DEF Init
  <2>3. page \in [{2, 4} -> 0 .. HalfMod - 1]
    BY ConstantFacts DEF Init, StdPage
  <2>4. 0 \in 0 .. CountMod - 1
    BY ConstantFacts
  <2> QED
    BY <2>2, <2>3, <2>4 DEF Init, VarInv, NoFault, instructionSize
<1>2. HandlerInv
  BY DEF Init, HandlerInv, NoFault, VlePcs
<1>3. ~ Torn /\ ~ Retries
  BY DEF Init, Torn, Retries
<1>4. vle => instructionSize = 2
  BY DEF vle, instructionSize
<1>5. SizeInv
  BY <1>3, <1>4 DEF Init, SizeInv, FixedSize, TornSize, VleSize, LongWords
<1>6. PageInv
  BY <1>3 DEF Init, PageInv
<1>7. WordInv
  BY <1>3, <1>4 DEF Init, WordInv
<1>8. Written = currentInstruction /\ Done = {}
  BY DEF Init, Written, Done, Scanned
<1> QED
  BY <1>1, <1>2, <1>5, <1>6, <1>7, <1>8

LEMMA InitInv ==
  ASSUME PartsInOrder, Init
  PROVE  Inv
<1>1. /\ VarInv /\ HandlerInv /\ SizeInv /\ PageInv /\ WordInv
      /\ Written = currentInstruction /\ Done = {}
      /\ pc = "entry" /\ handler = "entry" /\ ~ isStopped /\ ~ sizeError
      /\ currentInstruction = firstInstruction
      /\ vle => currentInstructionSize = 2
  BY InitSetup DEF Init, vle, instructionSize
<1>2. /\ firstInstruction \in Nat /\ finalInstruction \in Nat
      /\ firstInstruction \in instr_t
      /\ firstInstruction <= finalInstruction
      /\ fetchInstruction # "riscvg" => finalInstruction < HalfMod
  BY <1>1, SetupFacts, HalvesFacts, ConstantFacts DEF PartsInOrder, VarInv
<1>3. fetchInstruction # "riscvg" =>
        Prefix(firstInstruction) = firstInstruction
        /\ Other(firstInstruction) = 0
  <2>1. fetchInstruction # "riscvg" => firstInstruction < HalfMod
    BY <1>2, ConstantFacts
  <2> QED
    BY <1>2, <2>1, HalvesFacts
<1>4. RangeInv
  BY <1>1, <1>2, <1>3 DEF RangeInv, InPart, Reach, Proper, Aligned, vle
<1>5. RecoveryInv /\ RegistersRecovered /\ StopInv
  BY <1>1 DEF Init, RecoveryInv, RegistersRecovered, StopInv
<1>6. StrideInv
  BY <1>1, <1>2 DEF StrideInv
<1>7. AnalysedRight /\ NearlyInPart
  BY DEF Init, AnalysedRight, NearlyInPart, Scanned
<1>8. DoneType /\ DoneInv
  BY <1>1 DEF DoneType, DoneInv
<1>9. CoverInv
  <2>1. ASSUME Proper, NEW w \in Wanted
        PROVE  ~ Before(w, currentInstruction, currentInstructionSize)
    <3>1. CASE vle
      <4>1. Prefix(w[1]) \in firstInstruction .. finalInstruction
        BY <1>1, <3>1, WantedVle
      <4>2. Prefix(currentInstruction) = firstInstruction
        BY <1>1, <1>3, <3>1 DEF vle
      <4> QED
        BY <1>1, <1>2, <3>1, <4>1, <4>2 DEF Before
    <3>2. CASE ~ vle
      <4>1. w[1] \in firstInstruction .. finalInstruction
        BY <1>1, <2>1, <3>2, WantedWord
      <4> QED
        BY <1>1, <1>2, <3>2, <4>1 DEF Before
    <3> QED
      BY <3>1, <3>2
  <2>2. vle => Other(currentInstruction) = 0
    BY <1>1, <1>3 DEF vle
  <2> QED
    BY <1>1, <2>1, <2>2 DEF CoverInv, Analysed
<1>10. CountInv
  <2>1. PassedTo(firstInstruction) = 0
    BY <1>2 DEF PassedTo
  <2>2. numInstrExec = 0 /\ Cardinality(hangs) = 0
    BY FS_EmptySet DEF Init
  <2> QED
    BY <1>1, <2>1, <2>2 DEF CountInv
<1> QED
  BY <1>1, <1>4, <1>5, <1>6, <1>7, <1>8, <1>9, <1>10 DEF Inv

\* A stutter.
LEMMA StutterInv ==
  ASSUME Inv, UNCHANGED vars
  PROVE  Inv'
<1> USE DEF vars, setup, size, progress, entered, history
<1>1. /\ UNCHANGED <<fetchInstruction, firstInstruction, finalInstruction>>
      /\ UNCHANGED <<altStack, currentInstruction, nextInstruction, isStopped>>
      /\ UNCHANGED <<currentInstructionSize, instructionPointer, sizeError>>
      /\ UNCHANGED <<numInstrExec, page, recovery, pc, handler, sp, fault>>
      /\ UNCHANGED <<blocked, overtaken, analysed, hangs>>
  OBVIOUS
<1>2. /\ vle' = vle /\ Torn' = Torn /\ Late' = Late /\ Written' = Written
      /\ Done' = Done /\ Scanned' = Scanned /\ Wanted' = Wanted
      /\ Proper' = Proper /\ Retries' = Retries /\ Pending' = Pending
      /\ SetBack' = SetBack /\ instructionSize' = instructionSize
      /\ Ran' = Ran /\ Analysed' = Analysed
  <2>1. /\ vle' = vle /\ Torn' = Torn /\ Late' = Late /\ Written' = Written
        /\ Done' = Done /\ Scanned' = Scanned /\ Wanted' = Wanted
        /\ Proper' = Proper
    BY <1>1
    DEF vle, Torn, Late, Written, Done, Scanned, Wanted, Proper, Aligned
  <2>2. /\ Retries' = Retries /\ Pending' = Pending
        /\ SetBack' = SetBack /\ instructionSize' = instructionSize
        /\ Ran' = Ran
    BY <1>1
    DEF Retries, Pending, SetBack, instructionSize, Ran, Expansions
  <2>3. Analysed' = Analysed
    BY <1>1 DEF Analysed
  <2> QED
    BY <2>1, <2>2, <2>3
<1>3. VarInv' /\ HandlerInv'
  BY <1>1, <1>2 DEF Inv, VarInv, HandlerInv
<1>4. SizeInv'
  BY <1>1, <1>2 DEF Inv, SizeInv, FixedSize, TornSize, VleSize, LongWords
<1>5. PageInv'
  BY <1>1, <1>2 DEF Inv, PageInv, OnPage, FaultOf, ReadsPastPage
<1>6. WordInv'
  BY <1>1, <1>2 DEF Inv, WordInv
<1>7. RangeInv'
  BY <1>1, <1>2 DEF Inv, RangeInv, InPart, Reach
<1>8. RecoveryInv' /\ RegistersRecovered'
  BY <1>1, <1>2 DEF Inv, RecoveryInv, RegistersRecovered
<1>9. StopInv'
  BY <1>1, <1>2 DEF Inv, StopInv, FetchFinds
<1>10. StrideInv'
  BY <1>1, <1>2 DEF Inv, StrideInv, Aligned
<1>11. AnalysedRight' /\ NearlyInPart'
  BY <1>1, <1>2 DEF Inv, AnalysedRight, NearlyInPart, Astray, Aligned
<1>12. DoneType' /\ DoneInv'
  BY <1>1, <1>2 DEF Inv, DoneType, DoneInv, UpTo, Before
<1>13. CoverInv'
  BY <1>1, <1>2 DEF Inv, CoverInv, UpTo, Before, Covered
<1>14. CountInv'
  BY <1>1, <1>2 DEF Inv, CountInv, PassedTo
<1> QED
  BY <1>3, <1>4, <1>5, <1>6, <1>7, <1>8, <1>9, <1>10, <1>11, <1>12, <1>13,
     <1>14 DEF Inv


LEMMA InvNext ==
  ASSUME PartsInOrder, Inv, [Next]_vars
  PROVE  Inv'
<1>1. CASE UNCHANGED vars
  BY <1>1, StutterInv
<1>2. CASE Next
  <2>1. /\ VarInv /\ HandlerInv /\ SizeInv /\ PageInv /\ WordInv /\ RangeInv
        /\ RecoveryInv /\ RegistersRecovered /\ StopInv /\ StrideInv
        /\ AnalysedRight /\ NearlyInPart
        /\ DoneType /\ DoneInv /\ CoverInv /\ CountInv
    BY DEF Inv
  <2>2. VarInv'
    BY <1>2, <2>1, VarNext
  <2>3. HandlerInv'
    BY <1>2, <2>1, HandlerNext
  <2>4. SizeInv'
    BY <1>2, <2>1, SizeNext
  <2>5. PageInv'
    BY <1>2, <2>1, PageNext
  <2>6. WordInv'
    BY <1>2, <2>1, WordNext
  <2>7. RangeInv'
    BY <1>2, <2>1, RangeNext
  <2>8. RecoveryInv' /\ RegistersRecovered'
    BY <1>2, <2>1, RecoveryNext, RegistersRecoveredNext
  <2>9. StopInv'
    BY <1>2, <2>1, StopNext
  <2>10. StrideInv'
    BY <1>2, <2>1, StrideNext
  <2>11. AnalysedRight' /\ NearlyInPart'
    BY <1>2, <2>1, AnalysedRightNext, NearlyInPartNext
  <2>12. DoneType'
    BY <1>2, <2>1, DoneTypeNext
  <2>13. DoneInv'
    BY <1>2, <2>1, <2>2, <2>3, <2>4, <2>12, DoneNext
  <2>14. CoverInv'
    BY <1>2, <2>1, <2>2, <2>3, <2>4, <2>6, CoverNext
  <2>15. CountInv'
    BY <1>2, <2>1, CountNext
  <2> QED
    BY <2>2, <2>3, <2>4, <2>5, <2>6, <2>7, <2>8, <2>9, <2>10, <2>11, <2>12,
       <2>13, <2>14, <2>15 DEF Inv
<1> QED
  BY <1>1, <1>2

LEMMA Invariance ==
  PartsInOrder /\ Spec => []Inv
<1>1. ASSUME PartsInOrder PROVE Spec => []Inv
  <2>1. Init => Inv
    BY <1>1, InitInv
  <2>2. Inv /\ [Next]_vars => Inv'
    BY <1>1, InvNext
  <2> QED
    BY <2>1, <2>2, PTL DEF Spec
<1> QED
  BY <1>1

-----------------------------------------------------------------------------
(* What the invariant says. *)

LEMMA TypeFact ==
  ASSUME Inv
  PROVE  TypeOK
<1>1. VarInv /\ HandlerInv /\ SizeInv /\ PageInv /\ RecoveryInv
  BY DEF Inv
<1>2. recovery = None \/ recovery + 15 \in AltMapped(altStack)
  <2>1. altStack \in Nat /\ altStack % pageSize = 0
    BY <1>1, SetupFacts
  <2>2. Top(altStack) - 1 \in Top(altStack) - pageSize .. Top(altStack) - 1
    BY <2>1 DEF Top, pageSize
  <2>3. RecoveryAddress(Top(altStack) - 1) + 15 \in AltMapped(altStack)
    BY <2>1, <2>2, RegistersFound
  <2> QED
    BY <1>1, <2>3 DEF RecoveryInv
<1>3. handler \in {"entry", "fault", "hang", "none"}
  BY <1>1 DEF HandlerInv
<1>4. ASSUME pc = "run"
      PROVE  /\ Torn \/ instructionPointer = currentInstructionSize
             /\ currentInstructionSize < instructionPointer => page[2] = Filler
  <2>1. ~ Torn => instructionPointer = currentInstructionSize
    BY <1>1, <1>4 DEF SizeInv, FixedSize, VleSize
  <2>2. Torn => page[2] = Filler
    BY <1>1, <1>4 DEF PageInv
  <2>3. currentInstructionSize \in Nat
    BY <1>1 DEF VarInv
  <2> QED
    BY <2>1, <2>2, <2>3
<1> QED
  BY <1>1, <1>2, <1>3, <1>4 DEF TypeOK, VarInv

\* Where the part is one that riscvgOnlyFetch ends, all is covered; where it
\* is not, the unit does not stop.
LEMMA StoppedFact ==
  ASSUME Inv
  PROVE  StoppedCovered
<1>1. VarInv /\ StrideInv /\ CoverInv
  BY DEF Inv
<1>2. SUFFICES ASSUME isStopped, ~ Torn, NEW w \in Wanted \ Scanned
      PROVE  w \in hangs \/ <<Prefix(w[1]), 2>> \in hangs
  BY DEF StoppedCovered
<1>3. Proper
  BY <1>1, <1>2 DEF StrideInv, Proper
<1>4. Covered(w)
  BY <1>1, <1>2, <1>3 DEF CoverInv
<1> QED
  BY <1>2, <1>4 DEF Covered, Done

LEMMA CountFact ==
  ASSUME Inv
  PROVE  CountIsProgress
<1>1. HandlerInv /\ CountInv
  BY DEF Inv
<1>2. SUFFICES ASSUME pc = "run", ~ Late, ~ vle, Proper
      PROVE  numInstrExec + Cardinality(hangs)
               + (IF search(firstInstruction) THEN 1 ELSE 0) =
                 PassedTo(currentInstruction)
  BY DEF CountIsProgress, PassedTo, vle, Proper
<1>3. Written = currentInstruction
  BY <1>2 DEF Written
<1> QED
  BY <1>1, <1>2, <1>3 DEF CountInv, Pending

-----------------------------------------------------------------------------
(* The theorems. *)

\* Whenever the page of a RISC-V unit runs, size, instruction pointer and
\* page go together, and the registers are kept inside the stack's mapping.
THEOREM TypeCorrect == PartsInOrder /\ Spec => []TypeOK
<1>1. Inv => TypeOK
  BY TypeFact
<1> QED
  BY <1>1, Invariance, PTL

\* faultHandler analyses what has run, at the length the processor gave it,
\* and nothing that is blacklisted, over any number of retries at the longer
\* size and of late signals, until one tears size and pointer apart.
THEOREM AnalysedRightThm == PartsInOrder /\ Spec => []AnalysedRight
<1>1. Inv => AnalysedRight
  BY DEF Inv
<1> QED
  BY <1>1, Invariance, PTL

\* No unit that is not torn apart analyses what is outside its part, but for
\* the encoding after it and the one it starts on in riscvcOnlyFetch.
THEOREM NearlyInPartThm == PartsInOrder /\ Spec => []NearlyInPart
<1>1. Inv => NearlyInPart
  BY DEF Inv
<1> QED
  BY <1>1, Invariance, PTL

\* The prefix loop and the loop over the other half, which share the current
\* instruction, never run the same instruction twice at the same length,
\* wherever and however often SIGUSR2 makes hangHandler fetch.
THEOREM NothingTwiceThm == PartsInOrder /\ Spec => []NothingTwice
<1>1. Inv => NothingTwice
  BY NothingTwiceFact DEF Inv
<1> QED
  BY <1>1, Invariance, PTL

\* A unit that is not torn apart stops only when everything it is meant to
\* scan was analysed, or hung, or its prefix did.
THEOREM StoppedCoveredThm == PartsInOrder /\ Spec => []StoppedCovered
<1>1. Inv => StoppedCovered
  BY StoppedFact
<1> QED
  BY <1>1, Invariance, PTL

\* Without late signals, numInstrExec is the encodings that a stage got past,
\* each counted once, in the handler or in the stage.
THEOREM CountIsProgressThm == PartsInOrder /\ Spec => []CountIsProgress
<1>1. Inv => CountIsProgress
  BY CountFact
<1> QED
  BY <1>1, Invariance, PTL

\* A handler misses the registers only if SIGUSR2 cut setRecoveryData off, or
\* if hangHandler runs on top of a handler on a stack that is not aligned.
THEOREM RegistersRecoveredThm == PartsInOrder /\ Spec => []RegistersRecovered
<1>1. Inv => RegistersRecovered
  BY DEF Inv
<1> QED
  BY <1>1, Invariance, PTL

\* A late SIGUSR2 has a stopped unit fetch again, at the same place and in the
\* same state, and so it stops again.
THEOREM StopsForGoodThm == PartsInOrder /\ Spec => StopsForGood
<1>1. ASSUME PartsInOrder PROVE Spec => StopsForGood
  <2>1. Inv /\ [Next]_vars => [isStopped => pc' # "run"]_vars
    BY StopNext DEF Inv
  <2>2. Spec => []Inv
    BY <1>1, Invariance
  <2> QED
    BY <2>1, <2>2, PTL DEF Spec, StopsForGood
<1> QED
  BY <1>1

=============================================================================
