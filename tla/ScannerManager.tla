--------------------------- MODULE ScannerManager ---------------------------
(***************************************************************************)
(* The manager process: the constructor that splits the range and forks    *)
(* one scanner unit per part, runScanners, and the alarm handler.  The     *)
(* memcage and the ptrace manager share this code: their constructors and  *)
(* runScanners are identical up to the unit's start routine, and both      *)
(* register the same alarmHandler.                                         *)
(*                                                                         *)
(* The Scanner structs live in memory shared with the units (mmap          *)
(* MAP_SHARED), so every field of them is read and written by two          *)
(* processes with no synchronisation.  Each step below contains at most    *)
(* one access to a field of a struct that the unit may change meanwhile,   *)
(* or accesses between which such a change makes no difference.            *)
(***************************************************************************)
EXTENDS Analyser

CONSTANTS
  ReqThreads,     \* the -j option
  First, Last,    \* the -b and -e options
  CheckForHang,   \* checkForHang: TRUE in memcage, ssHang in ptrace
  SlowFactor      \* performanceLogSlowFactor

ASSUME ManagerAssumption ==
  /\ ReqThreads \in Nat \ {0}
  /\ First \in instr_t /\ Last \in instr_t /\ First <= Last
  /\ CheckForHang \in BOOLEAN
  /\ SlowFactor \in Nat \ {0}

VARIABLES
  mgr,                  \* where the manager is
  idx,                  \* the constructor's loop counter i
  startInstruction,     \* the constructor's locals
  lastOfPart,           \* (the local called finalInstruction)
  threadDataMap,        \* the units the manager knows
  todo,                 \* units the current for-loop has still to visit
  visiting,             \* the unit whose loop body is under way
  allStopped,           \* alarmHandler's local `finished'
  performanceLogCount,
  logged,               \* per unit, the sum of the counts in the performance log
  \* the fields of the Scanner structs
  currentInstruction, finalInstruction, isReady, isStopped,
  numInstrExec, oldNumInstrExec, lastPerformanceExec,
  pc,                   \* where each unit is
  pending               \* the signals sent to each unit and not yet delivered

ctorVars == <<idx, startInstruction, lastOfPart, threadDataMap>>
structVars == <<currentInstruction, finalInstruction, isReady, isStopped,
                numInstrExec, oldNumInstrExec, lastPerformanceExec>>

-----------------------------------------------------------------------------
(* The constructor. *)

\* numThreads after the constructor has clamped it to the size of the range
numThreads ==
  IF Last - First < ReqThreads /\ Last - First > 0
    THEN Last - First ELSE ReqThreads

Units == 0 .. numThreads - 1

instrPerThread == (Last - First) \div numThreads

\* The part of the range that unit w is given: the closed form of what the
\* constructor's loop computes.
UnitFirst(w) == IF w = 0 THEN First ELSE First + w * instrPerThread + 1
UnitLast(w) ==
  IF w = numThreads - 1 THEN Last ELSE First + (w + 1) * instrPerThread

\* What the partition of the range needs to be one: more than one
\* instruction, or a single unit (main's default).
ProperRange == First < Last \/ ReqThreads = 1

MgrInit ==
  /\ mgr = "fork" /\ idx = 0
  /\ startInstruction = First
  /\ lastOfPart = First + instrPerThread
  /\ threadDataMap = {} /\ todo = {} /\ visiting = 0
  /\ allStopped = FALSE
  /\ performanceLogCount = 0
  /\ logged = [w \in Units |-> 0]
  /\ currentInstruction = [w \in Units |-> 0]
  /\ finalInstruction = [w \in Units |-> 0]
  /\ isReady = [w \in Units |-> FALSE]
  /\ isStopped = [w \in Units |-> FALSE]
  /\ numInstrExec = [w \in Units |-> 0]
  /\ oldNumInstrExec = [w \in Units |-> 0]
  /\ lastPerformanceExec = [w \in Units |-> 0]
  /\ pc = [w \in Units |-> "none"]
  /\ pending = [w \in Units |-> {}]

\* localScannerInit: a fresh struct counts from zero
LocalScannerInit(w) ==
  /\ isReady' = [isReady EXCEPT ![w] = FALSE]
  /\ isStopped' = [isStopped EXCEPT ![w] = FALSE]
  /\ numInstrExec' = [numInstrExec EXCEPT ![w] = 0]
  /\ oldNumInstrExec' = [oldNumInstrExec EXCEPT ![w] = 0]
  /\ lastPerformanceExec' = [lastPerformanceExec EXCEPT ![w] = 0]

\* One iteration up to and including fork(): the struct is filled in and the
\* unit comes to life.
Fork ==
  /\ mgr = "fork"
  /\ currentInstruction' =
       [currentInstruction EXCEPT ![idx] = startInstruction % InstrMod]
  /\ finalInstruction' =
       [finalInstruction EXCEPT ![idx] = lastOfPart % InstrMod]
  /\ LocalScannerInit(idx)
  /\ pc' = [pc EXCEPT ![idx] = "init"]
  /\ mgr' = "insert"
  /\ UNCHANGED <<ctorVars, todo, visiting, allStopped, performanceLogCount,
                 logged, pending>>

\* An output file cannot be opened or fork() fails: exit(-1).  The units
\* forked so far stay behind, waiting for a start signal.
CtorFails ==
  /\ mgr = "fork"
  /\ mgr' = "failed"
  /\ UNCHANGED <<ctorVars, todo, visiting,
                 allStopped, performanceLogCount, logged, structVars, pc,
                 pending>>

\* Mutant: the test for the last unit is off by one and never true.
LastUnitMutant(i) == i = numThreads

LastUnit(i) == i = numThreads - 1

\* The rest of the iteration, while the new unit is already running.  The
\* last unit's upper bound is corrected only now.
Insert ==
  /\ mgr = "insert"
  /\ threadDataMap' = threadDataMap \cup {idx}
  /\ startInstruction' = lastOfPart + 1
  /\ lastOfPart' = lastOfPart + instrPerThread
  /\ finalInstruction' = IF LastUnit(idx)
                           THEN [finalInstruction EXCEPT ![idx] = Last]
                           ELSE finalInstruction
  /\ idx' = idx + 1
  /\ mgr' = IF idx + 1 < numThreads THEN "fork" ELSE "wait"
  /\ UNCHANGED <<todo, visiting, allStopped, performanceLogCount, logged,
                 currentInstruction, isReady, isStopped, numInstrExec,
                 oldNumInstrExec, lastPerformanceExec, pc, pending>>

-----------------------------------------------------------------------------
(* runScanners: poll until every unit is ready, signal them all, arm the   *)
(* alarm.  isReady is never reset, so polling the units one by one sees    *)
(* what one look at all of them sees.                                      *)

runScanners ==
  /\ mgr = "wait"
  /\ \A w \in threadDataMap : isReady[w]
  /\ pending' = [w \in Units |->
                  IF w \in threadDataMap THEN pending[w] \cup {"USR1"}
                  ELSE pending[w]]
  /\ mgr' = "run"
  /\ UNCHANGED <<ctorVars, todo, visiting,
                 allStopped, performanceLogCount, logged, structVars, pc>>

-----------------------------------------------------------------------------
(* alarmHandler.  SIGALRM interrupts main's pause loop; it stays blocked   *)
(* while its handler runs.                                                 *)

\* Mutant: the counter is not reduced modulo the slow factor.
NextLogCountMutant(c) == c + 1

NextLogCount(c) == (c + 1) % SlowFactor

\* The alarm goes off; decide whether this one also logs performance.
Alarm ==
  /\ mgr = "run"
  /\ mgr' = IF performanceLogCount = SlowFactor - 1 THEN "perf" ELSE "check"
  /\ performanceLogCount' = NextLogCount(performanceLogCount)
  /\ todo' = threadDataMap
  /\ allStopped' = TRUE
  /\ UNCHANGED <<ctorVars, visiting, logged,
                 structVars, pc, pending>>

\* First read of numInstrExec: the count that is written to the log.
PerfRead(w) ==
  /\ mgr = "perf" /\ w \in todo
  /\ todo' = todo \ {w}
  /\ IF isStopped[w]
       THEN UNCHANGED <<mgr, visiting, logged>>
       ELSE /\ logged' = [logged EXCEPT ![w] =
                            @ + numInstrExec[w] - lastPerformanceExec[w]]
            /\ visiting' = w
            /\ mgr' = "perfStore"
  /\ UNCHANGED <<ctorVars, allStopped, performanceLogCount, structVars, pc,
                 pending>>

\* Mutant: lastPerformanceExec is not brought up to date.
PerfStoreMutant ==
  /\ mgr = "perfStore"
  /\ mgr' = "perf"
  /\ UNCHANGED <<ctorVars, todo, visiting, allStopped, performanceLogCount,
                 logged, structVars, pc, pending>>

\* Second read of numInstrExec: the unit may have moved on since the first.
PerfStore ==
  /\ mgr = "perfStore"
  /\ lastPerformanceExec' =
       [lastPerformanceExec EXCEPT ![visiting] = numInstrExec[visiting]]
  /\ mgr' = "perf"
  /\ UNCHANGED <<ctorVars, todo, visiting, allStopped, performanceLogCount,
                 logged, currentInstruction, finalInstruction, isReady,
                 isStopped, numInstrExec, oldNumInstrExec, pc, pending>>

PerfDone ==
  /\ mgr = "perf" /\ todo = {}
  /\ mgr' = "check"
  /\ todo' = threadDataMap
  /\ UNCHANGED <<ctorVars, visiting, allStopped, performanceLogCount, logged,
                 structVars, pc, pending>>

\* Mutant: `finished' is the state of the unit visited last.
FinishedAfterMutant(fin, w) == isStopped[w]

\* the local `finished' after a look at unit w
FinishedAfter(fin, w) == fin /\ isStopped[w]

\* First read of isStopped: is the run finished?
CheckStopped(w) ==
  /\ mgr = "check" /\ w \in todo
  /\ allStopped' = FinishedAfter(allStopped, w)
  /\ todo' = todo \ {w}
  /\ visiting' = w
  /\ mgr' = "checkHang"
  /\ UNCHANGED <<ctorVars, performanceLogCount, logged, structVars, pc,
                 pending>>

\* Mutant: the counters are not compared.
TakenToHangMutant(w) == CheckForHang /\ ~ isStopped[w]

\* A unit that has not counted an instruction since the last alarm is taken
\* to hang.
TakenToHang(w) ==
  /\ CheckForHang
  /\ numInstrExec[w] = oldNumInstrExec[w]
  /\ ~ isStopped[w]

\* A signal is pending until the unit takes it (Memcage), so a
\* kill() that comes late is one whose delivery comes late.
CheckHang ==
  /\ mgr = "checkHang"
  /\ pending' = IF TakenToHang(visiting)
                  THEN [pending EXCEPT ![visiting] = @ \cup {"USR2"}]
                  ELSE pending
  /\ oldNumInstrExec' =
       [oldNumInstrExec EXCEPT ![visiting] = numInstrExec[visiting]]
  /\ mgr' = "check"
  /\ UNCHANGED <<ctorVars, todo, visiting, allStopped, performanceLogCount,
                 logged, currentInstruction, finalInstruction, isReady,
                 isStopped, numInstrExec, lastPerformanceExec, pc>>

\* Either "finished run" and exit(0), or re-arm the alarm.
AlarmReturn ==
  /\ mgr = "check" /\ todo = {}
  /\ mgr' = IF allStopped THEN "finished" ELSE "run"
  /\ UNCHANGED <<ctorVars, todo, visiting,
                 allStopped, performanceLogCount, logged, structVars, pc,
                 pending>>

=============================================================================
