-------------------------- MODULE CommandLineProofs --------------------------
(***************************************************************************)
(* The range and the number of units the managers are built with, and the  *)
(* cores these get, for every port, every width of int and every sequence  *)
(* of options.                                                             *)
(***************************************************************************)
EXTENDS CommandLine, FiniteSetTheorems, TLAPS

\* Types, the range, and the origin of numThreads while options are read.
OptionInv ==
  /\ TypeOK
  /\ ProperRange
  /\ requestedThreads \in Args \ {0}
  /\ state = "options" => numThreads = ToInt(requestedThreads)
  /\ method = "PTRACE" => archSingleStepPtrace
  /\ RequestHonoured

\* A number that an int holds is converted to itself, any other to an int.
LEMMA ToIntRange ==
  ASSUME NEW a \in Args
  PROVE  /\ ToInt(a) \in -(IntMod \div 2) .. IntMod \div 2 - 1
         /\ a < IntMod \div 2 => ToInt(a) = a
<1> DEFINE r == a % IntMod
           h == IntMod \div 2
<1>1. IntMod \in Nat /\ IntMod > 0 /\ a \in Nat
  BY CommandLineAssumption DEF Args
<1>2. r \in 0 .. IntMod - 1 /\ (a < IntMod => r = a)
  BY <1>1
<1>3. h \in Nat /\ IntMod = 2 * h /\ h > 0
  BY CommandLineAssumption
<1> QED
  BY <1>1, <1>2, <1>3 DEF ToInt

\* What Build makes of a number that an int holds is what is meant.
LEMMA MeantByBuild ==
  ASSUME OptionInv, state = "options", requestedThreads < IntMod \div 2
  PROVE  Clamp(Limit(numThreads)) = Meant(requestedThreads)
<1> DEFINE n == requestedThreads
           h == IntMod \div 2
           length == lastInstruction - firstInstruction
           built == Clamp(Limit(n))
           limits == (IF method = "MEMCAGE" THEN {MAX_THREADS_MEMCAGE} ELSE {})
                       \cup (IF lastInstruction > firstInstruction
                              THEN {length} ELSE {})
           least(m) == \A l \in {n} \cup limits : m <= l
<1>1. /\ n \in Nat \ {0} /\ h \in Nat /\ n < h
      /\ MAX_THREADS_MEMCAGE \in 1 .. h - 1
      /\ lastInstruction \in Nat /\ firstInstruction \in Nat
      /\ firstInstruction <= lastInstruction
      /\ length \in Args /\ length \in Nat
  BY CommandLineAssumption DEF OptionInv, TypeOK, ProperRange, Args
<1>2. numThreads = n
  BY ToIntRange DEF OptionInv
<1>3. Limit(n) \in Nat \ {0} /\ Limit(n) < h /\ Limit(n) <= n
      /\ (Limit(n) = n \/ Limit(n) = MAX_THREADS_MEMCAGE)
      /\ (Limit(n) # n => method = "MEMCAGE")
      /\ (method = "MEMCAGE" => Limit(n) <= MAX_THREADS_MEMCAGE)
  BY <1>1 DEF Limit
<1>4. built = IF length > 0 /\ length < Limit(n) THEN length ELSE Limit(n)
  <2>1. length < Limit(n) => ToInt(length) = length
    BY <1>1, <1>3, ToIntRange
  <2> QED
    BY <1>1, <1>3, <2>1 DEF Clamp
<1>5. built \in {n} \cup limits /\ least(built)
  BY <1>1, <1>3, <1>4
<1>6. \A m \in {n} \cup limits : m \in Int
  BY <1>1
<1>7. Meant(n) = CHOOSE m \in {n} \cup limits : least(m)
  BY DEF Meant
<1> HIDE DEF limits
<1>8. \A m \in {n} \cup limits : least(m) => m = built
  BY <1>5, <1>6
<1> QED
  BY <1>2, <1>5, <1>7, <1>8

LEMMA OptionInit == Init => OptionInv
<1> SUFFICES ASSUME Init PROVE OptionInv
  OBVIOUS
<1>1. IntMod \in Nat /\ IntMod > 0 /\ IntMod % 2 = 0 /\ ArgMod \in Nat
      /\ IntMod < ArgMod /\ DefaultLast \in 0 .. ArgMod - 1
  BY CommandLineAssumption
<1>2. 1 \in Args /\ 1 < IntMod \div 2
  BY <1>1, CommandLineAssumption DEF Args
<1>3. ToInt(1) = 1 /\ 1 \in -(IntMod \div 2) .. IntMod \div 2 - 1
  BY <1>2, ToIntRange
<1>4. 0 \in Args /\ DefaultLast \in Args /\ 0 <= DefaultLast
  BY <1>1 DEF Args
<1>5. TypeOK /\ ProperRange
  <2>1. ProperRange
    BY <1>1, <1>4 DEF Init, ProperRange
  <2>2. TypeOK
    BY <1>3, <1>4, Zenon DEF Init, TypeOK
  <2> QED
    BY <2>1, <2>2
<1>6. requestedThreads \in Args \ {0} /\ numThreads = ToInt(requestedThreads)
  BY <1>2, <1>3 DEF Init
<1> QED
  BY <1>5, <1>6 DEF Init, OptionInv, RequestHonoured

LEMMA OptionNext == OptionInv /\ [Next]_vars => OptionInv'
<1> SUFFICES ASSUME OptionInv, [Next]_vars PROVE OptionInv'
  OBVIOUS
<1> USE DEF OptionInv, TypeOK, ProperRange
<1>1. CASE UNCHANGED vars
  BY <1>1 DEF vars, threads, range, cores, RequestHonoured, Meant
<1>2. ASSUME NEW arg \in Args, Threads(arg) PROVE OptionInv'
  <2>1. 1 \in Args /\ 1 < IntMod \div 2 /\ arg \in Nat
    BY CommandLineAssumption DEF Args
  <2>2. /\ ToInt(1) = 1
        /\ ToInt(arg) \in -(IntMod \div 2) .. IntMod \div 2 - 1
        /\ 1 \in -(IntMod \div 2) .. IntMod \div 2 - 1
    BY <2>1, ToIntRange
  <2>3. requestedThreads' \in Args \ {0}
        /\ numThreads' = ToInt(requestedThreads')
        /\ numThreads' \in -(IntMod \div 2) .. IntMod \div 2 - 1
    BY <1>2, <2>1, <2>2 DEF Threads
  <2> QED
    BY <1>2, <2>3 DEF Threads, range, cores, RequestHonoured
<1>3. ASSUME NEW arg \in Args, First(arg) PROVE OptionInv'
  <2>1. arg \in Nat /\ firstInstruction \in Nat /\ lastInstruction \in Nat
    BY CommandLineAssumption DEF Args
  <2> QED
    BY <1>3, <2>1 DEF First, threads, cores, RequestHonoured
<1>4. ASSUME NEW arg \in Args, Last(arg) PROVE OptionInv'
  <2>1. /\ arg \in Nat /\ firstInstruction \in Nat /\ lastInstruction \in Nat
        /\ DefaultLast \in Nat
    BY CommandLineAssumption DEF Args
  <2> QED
    BY <1>4, <2>1 DEF Last, threads, cores, RequestHonoured
<1>5. ASSUME NEW arg \in Args, Cores(arg) PROVE OptionInv'
  <2>1. ToInt(arg) \in -(IntMod \div 2) .. IntMod \div 2 - 1
    BY ToIntRange
  <2> QED
    BY <1>5, <2>1 DEF Cores, threads, range, RequestHonoured
<1>6. CASE MemcageMethod
  BY <1>6 DEF MemcageMethod, threads, range, cores, RequestHonoured
<1>7. CASE PtraceMethod
  BY <1>7 DEF PtraceMethod, threads, range, cores, RequestHonoured
<1>8. CASE Reporting
  BY <1>8 DEF Reporting, threads, range, cores, RequestHonoured
<1>9. CASE Build
  <2> DEFINE length == lastInstruction - firstInstruction
  <2>1. /\ MAX_THREADS_MEMCAGE \in 1 .. IntMod \div 2 - 1
        /\ IntMod \div 2 \in Nat /\ length \in Args
    BY CommandLineAssumption DEF Args
  <2>2. ToInt(length) \in -(IntMod \div 2) .. IntMod \div 2 - 1
    BY <2>1, ToIntRange
  <2>3. Limit(numThreads) \in -(IntMod \div 2) .. IntMod \div 2 - 1
    BY <2>1 DEF Limit
  <2>4. numThreads' \in -(IntMod \div 2) .. IntMod \div 2 - 1
    BY <1>9, <2>2, <2>3 DEF Build, Clamp
  <2>5. RequestHonoured'
    BY <1>9, MeantByBuild DEF Build, range, RequestHonoured, Meant
  <2> QED
    BY <1>9, <2>4, <2>5 DEF Build, range, cores
<1>10. CASE SetAffinity
  BY <1>10 DEF SetAffinity, threads, range, cores, RequestHonoured, Meant
<1>11. CASE Scanning
  BY <1>1, <1>11 DEF Scanning
<1> QED
  BY <1>1, <1>2, <1>3, <1>4, <1>5, <1>6, <1>7, <1>8, <1>9, <1>10, <1>11
  DEF Next

LEMMA Options == Spec => []OptionInv
<1> QED
  BY OptionInit, OptionNext, PTL DEF Spec

\* Every variable keeps its type, whatever the arguments: numThreads and
\* numCores stay numbers an int holds.
THEOREM TypeCorrect == Spec => []TypeOK
<1>1. OptionInv => TypeOK
  BY DEF OptionInv
<1> QED
  BY <1>1, Options, PTL

\* Whatever the options and their order, a manager is built with a range
\* that is not empty and within what the port can scan.
THEOREM ProperRangeThm == Spec => []ProperRange
<1>1. OptionInv => ProperRange
  BY DEF OptionInv
<1> QED
  BY <1>1, Options, PTL

\* As long as an int holds the number, a manager is built with as many units
\* as were asked for, or the most its method and the range allow.
THEOREM RequestHonouredThm == Spec => []RequestHonoured
<1>1. OptionInv => RequestHonoured
  BY DEF OptionInv
<1> QED
  BY <1>1, Options, PTL

-----------------------------------------------------------------------------
(* Cores. *)

\* Counting up to n in steps of q meets each remainder equally often, give
\* or take one: each number but the first with remainder c follows, at some
\* distance, one with remainder d.
LEMMA EvenRemainders ==
  ASSUME NEW n \in Int, NEW q \in Nat \ {0},
         NEW c \in 0 .. q - 1, NEW d \in 0 .. q - 1
  PROVE  Cardinality({u \in 0 .. n - 1 : u % q = c})
           <= Cardinality({u \in 0 .. n - 1 : u % q = d}) + 1
<1> DEFINE At(r) == {u \in 0 .. n - 1 : u % q = r}
           f == [u \in At(c) \ {c} |-> u - q - c + d]
<1>1. IsFiniteSet(At(c)) /\ IsFiniteSet(At(d))
  <2>1. IsFiniteSet(0 .. n - 1)
    BY FS_Interval
  <2> QED
    BY <2>1, FS_Subset
<1>2. ASSUME NEW u \in At(c) \ {c} PROVE u - q - c + d \in At(d)
  <2>1. u \in Nat /\ u % q = c /\ u # c /\ u < n
    OBVIOUS
  <2>2. u = q * (u \div q) + c /\ u \div q \in Nat
    BY <2>1
  <2>3. u \div q # 0
    BY <2>1, <2>2
  <2> DEFINE m == (u \div q) - 1
  <2>4. m \in Nat /\ u = q * (m + 1) + c
    <3>1. m \in Nat /\ m + 1 = u \div q
      BY <2>2, <2>3
    <3> QED
      BY <2>2, <3>1
  <2> HIDE DEF m
  <2>5. q * (m + 1) = q * m + q /\ q * m \in Nat
    BY <2>4
  <2>6. u - q - c + d = q * m + d
    BY <2>1, <2>4, <2>5
  <2>7. (q * m + d) % q = d
    BY <2>4
  <2> QED
    BY <2>1, <2>4, <2>5, <2>6, <2>7
<1>3. f \in Injection(At(c) \ {c}, At(d))
  <2>1. f \in [At(c) \ {c} -> At(d)]
    BY <1>2
  <2>2. \A u, v \in At(c) \ {c} : f[u] = f[v] => u = v
    OBVIOUS
  <2> QED
    BY <2>1, <2>2 DEF Injection, IsInjective
<1>4. Cardinality(At(c) \ {c}) <= Cardinality(At(d))
  BY <1>1, <1>3, FS_Injection
<1>5. Cardinality(At(c)) <= Cardinality(At(c) \ {c}) + 1
  <2>1. Cardinality(At(c)) \in Nat
    BY <1>1, FS_CardinalityType
  <2> HIDE DEF At
  <2>2. Cardinality(At(c) \ {c}) =
          IF c \in At(c) THEN Cardinality(At(c)) - 1 ELSE Cardinality(At(c))
    BY <1>1, FS_RemoveElement
  <2> QED
    BY <2>1, <2>2
<1>6. /\ Cardinality(At(c)) \in Nat /\ Cardinality(At(d)) \in Nat
      /\ Cardinality(At(c) \ {c}) \in Nat
  BY <1>1, FS_CardinalityType, FS_RemoveElement
<1> HIDE DEF At
<1>7. Cardinality(At(c)) <= Cardinality(At(d)) + 1
  BY <1>4, <1>5, <1>6
<1> QED
  BY <1>7 DEF At

\* setAffinity has given every unit its core when the scan begins.
CoreInv ==
  state = "scanning" =>
    core = [place \in 0 .. numThreads - 1 |->
              IF affinity /\ numCores > 0 /\ CoreOf(place) < Online
                THEN CoreOf(place) ELSE AnyCore]

LEMMA CoreNext == CoreInv /\ [Next]_vars => CoreInv'
<1> SUFFICES ASSUME CoreInv, [Next]_vars PROVE CoreInv'
  OBVIOUS
<1>1. CASE SetAffinity
  BY <1>1 DEF SetAffinity, threads, cores, CoreInv, CoreOf
<1>2. CASE UNCHANGED vars
  BY <1>2 DEF vars, threads, cores, CoreInv, CoreOf
<1>3. CASE ~ SetAffinity /\ ~ UNCHANGED vars
  <2>1. state' # "scanning"
    BY <1>3 DEF Next, Threads, First, Last, Cores, MemcageMethod,
       PtraceMethod, Reporting, Build, Scanning
  <2> QED
    BY <2>1 DEF CoreInv
<1> QED
  BY <1>1, <1>2, <1>3

\* With -a and a positive number every unit gets a core, or any if more are
\* asked for than there are, and the cores that are there get the same number
\* of units each, give or take one; for every number of units and of cores.
THEOREM AffinityEvenThm == Spec => []AffinityEven
<1>1. OptionInv /\ CoreInv => AffinityEven
  <2> SUFFICES ASSUME OptionInv, CoreInv, state = "scanning", affinity,
                      numCores > 0
               PROVE  AffinityEven
    BY DEF AffinityEven
  <2>1. numThreads \in Int /\ numCores \in Nat \ {0}
    BY CommandLineAssumption DEF OptionInv, TypeOK
  <2>2. ASSUME NEW e \in 0 .. numCores - 1, e < Online
        PROVE  {u \in DOMAIN core : core[u] = e} =
                 {u \in 0 .. numThreads - 1 : u % numCores = e}
    <3>1. /\ DOMAIN core = 0 .. numThreads - 1
          /\ \A u \in 0 .. numThreads - 1 :
               core[u] = IF u % numCores < Online THEN u % numCores ELSE -1
      BY <2>1 DEF CoreInv, CoreOf, AnyCore
    <3>2. ASSUME NEW u \in 0 .. numThreads - 1
          PROVE  core[u] = e <=> u % numCores = e
      <4> DEFINE r == u % numCores
      <4>1. core[u] = IF r < Online THEN r ELSE -1
        BY <3>1
      <4>2. e >= 0 /\ e < Online
        BY <2>1, <2>2
      <4> HIDE DEF r
      <4>3. core[u] = e <=> r = e
        BY <4>1, <4>2
      <4> QED
        BY <4>3 DEF r
    <3> QED
      BY <3>1, <3>2
  <2>3. ASSUME NEW c \in 0 .. numCores - 1, c < Online,
               NEW d \in 0 .. numCores - 1, d < Online
        PROVE  Cardinality({u \in DOMAIN core : core[u] = c})
                 <= Cardinality({u \in DOMAIN core : core[u] = d}) + 1
    <3>1. Cardinality({u \in 0 .. numThreads - 1 : u % numCores = c})
            <= Cardinality({u \in 0 .. numThreads - 1 : u % numCores = d}) + 1
      BY <2>1, EvenRemainders
    <3>2. /\ {u \in DOMAIN core : core[u] = c} =
               {u \in 0 .. numThreads - 1 : u % numCores = c}
          /\ {u \in DOMAIN core : core[u] = d} =
               {u \in 0 .. numThreads - 1 : u % numCores = d}
      BY <2>2, <2>3
    <3> QED
      BY <3>1, <3>2
  <2>4. /\ DOMAIN core = 0 .. numThreads - 1
        /\ \A u \in DOMAIN core :
             \/ core[u] \in 0 .. numCores - 1 /\ core[u] < Online
             \/ core[u] = AnyCore /\ numCores > Online
    <3>1. /\ DOMAIN core = 0 .. numThreads - 1
          /\ \A u \in 0 .. numThreads - 1 :
               core[u] = IF u % numCores < Online THEN u % numCores ELSE AnyCore
      BY <2>1 DEF CoreInv, CoreOf
    <3>2. \A u \in 0 .. numThreads - 1 : u % numCores \in 0 .. numCores - 1
      BY <2>1
    <3> QED
      BY <2>1, <3>1, <3>2, CommandLineAssumption
  <2> QED
    BY <2>3, <2>4 DEF AffinityEven
<1>2. Init => CoreInv
  BY DEF Init, CoreInv
<1>3. Spec => []CoreInv
  BY <1>2, CoreNext, PTL DEF Spec
<1> QED
  BY <1>1, <1>3, Options, PTL

=============================================================================
