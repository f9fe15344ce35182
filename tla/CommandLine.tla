---------------------------- MODULE CommandLine ----------------------------
(***************************************************************************)
(* main(): the loop over the options and what becomes of them when the     *)
(* manager is built: how many units it makes, and which cores they run on. *)
(* Options come in any order and any number of times.                      *)
(* Values are scaled down: an argument is an unsigned 64-bit number, below *)
(* ArgMod here, and an int holds a number of IntMod values, half of them   *)
(* negative.                                                               *)
(***************************************************************************)
EXTENDS Integers, FiniteSets

CONSTANTS
  ArgMod, IntMod,        \* 2^64 and 2^32
  DefaultLast,           \* the last instruction the port can scan by default
  MAX_THREADS_MEMCAGE,
  Online                 \* the number of cores the machine has

ASSUME CommandLineAssumption ==
  /\ IntMod \in Nat /\ IntMod > 0 /\ IntMod % 2 = 0
  /\ ArgMod \in Nat /\ IntMod < ArgMod
  /\ DefaultLast \in 0 .. ArgMod - 1
  /\ Online \in Nat \ {0}
  /\ MAX_THREADS_MEMCAGE \in 1 .. IntMod \div 2 - 1

VARIABLES
  archSingleStepPtrace,   \* can the port's processor be single-stepped?
  state,       \* "options", "built", "scanning" or "exited"
  numThreads, firstInstruction, lastInstruction, method,
  affinity, numCores,    \* setAffinity and its argument
  analyse, debugMode,
  core,              \* of each unit, by its place in threadDataMap
  requestedThreads   \* the last -j that was accepted (history)

threads == <<numThreads, requestedThreads>>
range == <<firstInstruction, lastInstruction>>
cores == <<affinity, numCores>>
report == <<analyse, debugMode>>
vars == <<archSingleStepPtrace, state, threads, range, method, cores, report,
          core>>

AnyCore == -1

Args == 0 .. ArgMod - 1

Init ==
  /\ archSingleStepPtrace \in BOOLEAN
  /\ state = "options"
  /\ numThreads = 1 /\ requestedThreads = 1
  /\ firstInstruction = 0 /\ lastInstruction = DefaultLast
  /\ method = "MEMCAGE"
  /\ affinity = FALSE /\ numCores = 1
  /\ analyse = "basicAnalysis" /\ debugMode = FALSE
  /\ core = <<>>

-----------------------------------------------------------------------------
\* Mutant: the conversion to an unsigned number of that size.
ToIntMutant(a) == a % IntMod

\* the conversion of an unsigned 64-bit number to an int
ToInt(a) ==
  LET r == a % IntMod IN IF r < IntMod \div 2 THEN r ELSE r - IntMod

\* -j
Threads(arg) ==
  /\ state = "options"
  /\ numThreads' = IF arg < 1 THEN 1 ELSE ToInt(arg)
  /\ requestedThreads' = IF arg < 1 THEN 1 ELSE arg
  /\ UNCHANGED <<archSingleStepPtrace, state, method, cores, report, core,
                 range>>

\* Mutant: -b is not checked against the -e seen before.
FirstMutant(arg) ==
  /\ state = "options"
  /\ firstInstruction' = IF arg <= DefaultLast THEN arg ELSE firstInstruction
  /\ UNCHANGED <<archSingleStepPtrace, state, lastInstruction,
                 method, cores, report, core, threads>>

\* -b: ignored when it lies after the end known so far
First(arg) ==
  /\ state = "options"
  /\ firstInstruction' =
       IF arg <= lastInstruction THEN arg ELSE firstInstruction
  /\ UNCHANGED <<archSingleStepPtrace, state, lastInstruction,
                 method, cores, report, core, threads>>

\* -e: ignored when it lies before the beginning known so far, or after the
\* end
Last(arg) ==
  /\ state = "options"
  /\ lastInstruction' =
       IF arg <= lastInstruction /\ arg >= firstInstruction
         THEN arg ELSE lastInstruction
  /\ UNCHANGED <<archSingleStepPtrace, state, firstInstruction,
                 method, cores, report, core, threads>>

\* -a
Cores(arg) ==
  /\ state = "options"
  /\ affinity' = TRUE /\ numCores' = ToInt(arg)
  /\ UNCHANGED <<archSingleStepPtrace, state, method, report, core, range,
                 threads>>

\* -m, -k
MemcageMethod ==
  /\ state = "options"
  /\ method' \in {"MEMCAGE", "KERNELMOD"}
  /\ UNCHANGED <<archSingleStepPtrace, state, cores, report, core, range,
                 threads>>

\* -p
PtraceMethod ==
  /\ state = "options"
  /\ IF archSingleStepPtrace
       THEN method' = "PTRACE" /\ UNCHANGED state
       ELSE state' = "exited" /\ UNCHANGED method
  /\ UNCHANGED <<archSingleStepPtrace, cores, report, core, range, threads>>

\* -i, -d
Reporting ==
  /\ state = "options"
  /\ \/ analyse' = "insnAnalysis" /\ UNCHANGED debugMode
     \/ debugMode' = TRUE /\ UNCHANGED analyse
  /\ UNCHANGED <<archSingleStepPtrace, state, method, cores, core, range,
                 threads>>

\* Mutant: the limit is that of -k only.
LimitMutant(n) ==
  IF method = "KERNELMOD" /\ n > MAX_THREADS_MEMCAGE
    THEN MAX_THREADS_MEMCAGE ELSE n

\* Only the memory cage has a limit.
Limit(n) ==
  IF method = "MEMCAGE" /\ n > MAX_THREADS_MEMCAGE
    THEN MAX_THREADS_MEMCAGE ELSE n

\* Both constructors make no more units than the range is long, save when it
\* is one instruction.  A negative n is a large unsigned number there.
Clamp(n) ==
  LET length == lastInstruction - firstInstruction
  IN IF length > 0 /\ (n < 0 \/ length < n) THEN ToInt(length) ELSE n

\* The manager is built.  It divides by the number of units: where that
\* traps there is no manager, and elsewhere one without units.
Build ==
  /\ state = "options"
  /\ numThreads' = Clamp(Limit(numThreads))
  /\ \/ state' = "built"
     \/ numThreads' = 0 /\ state' = "exited"
  /\ UNCHANGED <<archSingleStepPtrace, requestedThreads, method, cores,
                 report, core, range>>

\* Mutant: i goes back to 0 once and for all.
CoreOfMutant(place) == IF place < numCores THEN place ELSE 0

\* i, for the unit at this place of threadDataMap
CoreOf(place) == place % numCores

\* setAffinity, if -a was given.  With no core, or fewer, the calls fail or
\* the manager dies, as the processor and the C library have it.
SetAffinity ==
  /\ state = "built"
  /\ core' = [place \in 0 .. numThreads - 1 |->
                IF affinity /\ numCores > 0
                     /\ CoreOf(place) < Online
                  THEN CoreOf(place) ELSE AnyCore]
  /\ \/ state' = "scanning"
     \/ affinity /\ numCores <= 0 /\ state' = "exited"
  /\ UNCHANGED <<archSingleStepPtrace, method, cores, report, range, threads>>

\* The rest of main() only waits.
Scanning ==
  /\ state \in {"scanning", "exited"}
  /\ UNCHANGED vars

Next ==
  \/ \E arg \in Args : Threads(arg) \/ First(arg) \/ Last(arg) \/ Cores(arg)
  \/ MemcageMethod \/ PtraceMethod \/ Reporting
  \/ Build \/ SetAffinity \/ Scanning

Spec == Init /\ [][Next]_vars

-----------------------------------------------------------------------------
(* Properties. *)

\* Every variable keeps its type: numThreads stays an int, whatever -j says.
TypeOK ==
  /\ archSingleStepPtrace \in BOOLEAN
  /\ state \in {"options", "built", "scanning", "exited"}
  /\ numThreads \in -(IntMod \div 2) .. IntMod \div 2 - 1
  /\ firstInstruction \in Args /\ lastInstruction \in Args
  /\ method \in {"MEMCAGE", "KERNELMOD", "PTRACE"}
  /\ affinity \in BOOLEAN
  /\ numCores \in -(IntMod \div 2) .. IntMod \div 2 - 1

\* Whatever the options and their order, the range is not empty and within
\* what the port can scan: the managers divide and subtract without looking.
ProperRange ==
  0 <= firstInstruction /\ firstInstruction <= lastInstruction
    /\ lastInstruction <= DefaultLast

\* What should become of n units asked for: at most the limit of the memory
\* cage, and no more than the range is long.
Meant(n) ==
  LET limits ==
        (IF method = "MEMCAGE" THEN {MAX_THREADS_MEMCAGE} ELSE {})
          \cup (IF lastInstruction > firstInstruction
                 THEN {lastInstruction - firstInstruction} ELSE {})
  IN CHOOSE m \in {n} \cup limits : \A l \in {n} \cup limits : m <= l

\* A manager is built with the number of units asked for, or the most its
\* method and the range allow, as long as an int holds the number; and never
\* with a method the port does not have.
RequestHonoured ==
  state \in {"built", "scanning"} =>
    /\ requestedThreads < IntMod \div 2 =>
         numThreads = Meant(requestedThreads)
    /\ method = "PTRACE" => archSingleStepPtrace

\* With -a and a positive number, the scan begins with every unit placed on
\* a core that was asked for, and that the machine has, or left on any core,
\* which happens only if more cores are asked for than the machine has; and
\* the cores that are there get the same number of units each, give or take
\* one, whatever order the map has the units in.
AffinityEven ==
  LET Load(c) == Cardinality({u \in DOMAIN core : core[u] = c})
      Used == {c \in 0 .. numCores - 1 : c < Online}
  IN state = "scanning" /\ affinity /\ numCores > 0 =>
       /\ DOMAIN core = 0 .. numThreads - 1
       /\ \A u \in DOMAIN core :
            core[u] \in Used \/ (core[u] = AnyCore /\ numCores > Online)
       /\ \A c, d \in Used : Load(c) <= Load(d) + 1

=============================================================================
