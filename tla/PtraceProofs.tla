----------------------------- MODULE PtraceProofs -----------------------------
(***************************************************************************)
(* Safety of the ptrace scan for every number of units, every range, every *)
(* blacklist and every behaviour of the processor, and that it implements  *)
(* ScanJob.                                                                *)
(***************************************************************************)
EXTENDS PtraceInvariant, ManagerPartition

(* Types, and the constructor's loop counter. *)

\* Types hold initially.
LEMMA TypingInit == Init => TypeOK /\ CtorInv
<1> SUFFICES ASSUME Init PROVE TypeOK /\ CtorInv
  OBVIOUS
<1>1. First + instrPerThread \in Nat /\ First \in Nat
  BY UnitsFacts, ManagerAssumption, FeederAssumption DEF instr_t
<1>2. 0 \in 0 .. numThreads /\ 0 \in 0 .. SlowFactor - 1 /\ 0 \in instr_t
  BY UnitsFacts, ManagerAssumption, FeederAssumption DEF instr_t
<1>3. /\ mgr = "fork" /\ idx = 0 /\ startInstruction = First
      /\ lastOfPart = First + instrPerThread
      /\ threadDataMap = {} /\ todo = {} /\ visiting = 0
      /\ allStopped = FALSE /\ performanceLogCount = 0
  BY DEF Init, MgrInit
<1>4. CtorInv
  BY <1>3, UnitsFacts DEF CtorInv
<1>5. /\ mgr \in ManagerPCs /\ idx \in 0 .. numThreads
      /\ startInstruction \in Nat /\ lastOfPart \in Nat
      /\ threadDataMap \subseteq Units /\ todo \subseteq Units
      /\ visiting \in Units /\ allStopped \in BOOLEAN
      /\ performanceLogCount \in 0 .. SlowFactor - 1
  BY <1>1, <1>2, <1>3, UnitsFacts DEF ManagerPCs
<1>6. /\ logged \in [Units -> Int]
      /\ currentInstruction \in [Units -> instr_t]
      /\ finalInstruction \in [Units -> instr_t]
      /\ isReady \in [Units -> BOOLEAN] /\ isStopped \in [Units -> BOOLEAN]
      /\ numInstrExec \in [Units -> Nat]
      /\ oldNumInstrExec \in [Units -> Nat]
      /\ lastPerformanceExec \in [Units -> Nat]
      /\ pc \in [Units -> UnitPCs] /\ pending \in [Units -> SUBSET {"USR1"}]
  BY <1>2 DEF Init, MgrInit, UnitPCs
<1>7. /\ tracee \in [Units -> {"none", "alive", "killed"}]
      /\ results \subseteq Line /\ analysed \in [instr_t -> Nat]
      /\ endOfRun \in [Units -> BOOLEAN]
  BY DEF Init
<1> QED
  BY <1>4, <1>5, <1>6, <1>7 DEF TypeOK

\* The manager keeps the types.
LEMMA TypingManager ==
  ASSUME TypeOK, CtorInv, ManagerStep
  PROVE  TypeOK' /\ CtorInv'
<1>1. UNCHANGED <<tracee, results, analysed, endOfRun>>
  BY DEF ManagerStep, unitVars
<1>0. startInstruction \in Nat /\ lastOfPart \in Nat
  BY DEF TypeOK
<1>2. CASE Fork
  <2>1. idx \in Units
    BY <1>2 DEF Fork, CtorInv
  <2>2. startInstruction % InstrMod \in instr_t /\ lastOfPart % InstrMod \in instr_t
    BY <1>0, FeederAssumption DEF instr_t
  <2>3. UNCHANGED <<ctorVars, todo, visiting, allStopped, performanceLogCount,
                    logged, pending>> /\ mgr' = "insert"
    BY <1>2 DEF Fork
  <2>4. /\ currentInstruction' \in [Units -> instr_t]
        /\ finalInstruction' \in [Units -> instr_t]
        /\ pc' \in [Units -> UnitPCs]
    BY <1>2, <2>1, <2>2 DEF Fork, UnitPCs, TypeOK
  <2>5. /\ isReady' \in [Units -> BOOLEAN] /\ isStopped' \in [Units -> BOOLEAN]
        /\ numInstrExec' \in [Units -> Nat]
        /\ oldNumInstrExec' \in [Units -> Nat]
        /\ lastPerformanceExec' \in [Units -> Nat]
    BY <1>2, <2>1 DEF Fork, LocalScannerInit, TypeOK
  <2> QED
    BY <1>1, <2>1, <2>3, <2>4, <2>5 DEF ctorVars, ManagerPCs, TypeOK, CtorInv
<1>3. CASE Insert
  <2>1. idx \in Units
    BY <1>3 DEF Insert, CtorInv
  <2>2. idx + 1 \in 0 .. numThreads /\ (idx + 1 < numThreads => idx + 1 \in Units)
    BY <2>1, UnitsFacts DEF Units
  <2>3. lastOfPart + 1 \in Nat /\ lastOfPart + instrPerThread \in Nat
    BY <1>0, UnitsFacts
  <2>4. /\ threadDataMap' = threadDataMap \cup {idx} /\ idx' = idx + 1
        /\ startInstruction' = lastOfPart + 1
        /\ lastOfPart' = lastOfPart + instrPerThread
        /\ mgr' = IF idx + 1 < numThreads THEN "fork" ELSE "wait"
        /\ UNCHANGED <<todo, visiting, allStopped, performanceLogCount, logged,
                       currentInstruction, isReady, isStopped, numInstrExec,
                       oldNumInstrExec, lastPerformanceExec, pc, pending>>
    BY <1>3 DEF Insert
  <2>5. finalInstruction' \in [Units -> instr_t]
    BY <1>3, <2>1, ManagerAssumption DEF Insert, TypeOK
  <2>6. CtorInv'
    BY <2>1, <2>2, <2>4, UnitsFacts DEF Units, CtorInv
  <2> QED
    BY <1>1, <2>1, <2>2, <2>3, <2>4, <2>5, <2>6 DEF ManagerPCs, TypeOK, CtorInv
<1>4. CASE CtorFails \/ Polling
  BY <1>1, <1>4 DEF CtorFails, Polling, ctorVars, structVars, ManagerPCs, Exited, TypeOK,
     CtorInv
<1>5. CASE runScanners
  BY <1>1, <1>5 DEF runScanners, ctorVars, structVars, ManagerPCs, TypeOK, CtorInv
<1>6. CASE Alarm
  <2>1. performanceLogCount' \in 0 .. SlowFactor - 1
    BY <1>6, ManagerAssumption DEF Alarm, NextLogCount, TypeOK
  <2> QED
    BY <1>1, <1>6, <2>1 DEF Alarm, ctorVars, structVars, ManagerPCs, TypeOK, CtorInv
<1>7. CASE PerfStore
  BY <1>1, <1>7 DEF PerfStore, ctorVars, ManagerPCs, TypeOK, CtorInv
<1>8. CASE PerfDone \/ AlarmReturn
  BY <1>1, <1>8 DEF PerfDone, AlarmReturn, ctorVars, structVars, ManagerPCs, TypeOK, CtorInv,
     Exited
<1>9. CASE CheckHang
  <2>1. UNCHANGED pending
    BY <1>9, PtraceAssumption DEF CheckHang, TakenToHang
  <2> QED
    BY <1>1, <1>9, <2>1 DEF CheckHang, ctorVars, ManagerPCs, TypeOK, CtorInv
<1>10. ASSUME NEW w \in Units, PerfRead(w) PROVE TypeOK' /\ CtorInv'
  <2>1. /\ logged' \in [Units -> Int] /\ visiting' \in Units
        /\ mgr' \in {"perf", "perfStore"}
    BY <1>10 DEF PerfRead, TypeOK
  <2>2. /\ todo' = todo \ {w} /\ mgr = "perf"
        /\ UNCHANGED <<ctorVars, allStopped, performanceLogCount, structVars, pc,
                       pending>>
    BY <1>10 DEF PerfRead
  <2> QED
    BY <1>1, <2>1, <2>2 DEF ctorVars, structVars, ManagerPCs, TypeOK, CtorInv
<1>11. ASSUME NEW w \in Units, CheckStopped(w) PROVE TypeOK' /\ CtorInv'
  BY <1>1, <1>11
  DEF CheckStopped, FinishedAfter, ctorVars, structVars, ManagerPCs, TypeOK, CtorInv
<1> QED
  BY <1>2, <1>3, <1>4, <1>5, <1>6, <1>7, <1>8, <1>9, <1>10, <1>11
  DEF ManagerStep, Constructor, runScannersPtrace, AlarmHandler


\* A fetch that counts n and goes to `done' when there is no next instruction.
LEMMA FetchType ==
  ASSUME TypeOK, NEW w \in Units, NEW n \in Nat, NEW done \in UnitPCs,
         FetchIntoCurrent(w, n, done)
  PROVE  /\ currentInstruction' \in [Units -> instr_t]
         /\ numInstrExec' \in [Units -> Nat]
         /\ pc' \in [Units -> UnitPCs]
         /\ \A v \in Units \ {w} : /\ pc'[v] = pc[v]
                                   /\ currentInstruction'[v] = currentInstruction[v]
         /\ \/ /\ pc'[w] = "step"
               /\ \E s \in 0 .. InstrMod - 1 :
                    /\ FetchYields(currentInstruction[w], finalInstruction[w], s)
                    /\ currentInstruction'[w] = Plus(currentInstruction[w], s + 1)
            \/ /\ pc'[w] = done /\ UNCHANGED currentInstruction
               /\ \E s \in 0 .. InstrMod - 1 :
                    FetchFinishes(currentInstruction[w], finalInstruction[w], s)
<1>1. PICK s \in 0 .. InstrMod - 1 :
        /\ numInstrExec' = [numInstrExec EXCEPT ![w] = @ + n + s]
        /\ \/ /\ FetchYields(currentInstruction[w], finalInstruction[w], s)
              /\ currentInstruction' = [currentInstruction EXCEPT
                                          ![w] = Plus(currentInstruction[w], s + 1)]
              /\ pc' = [pc EXCEPT ![w] = "step"]
           \/ /\ FetchFinishes(currentInstruction[w], finalInstruction[w], s)
              /\ pc' = [pc EXCEPT ![w] = done]
              /\ UNCHANGED currentInstruction
  BY DEF FetchIntoCurrent
<1>2. /\ currentInstruction \in [Units -> instr_t] /\ pc \in [Units -> UnitPCs]
      /\ numInstrExec \in [Units -> Nat]
  BY DEF TypeOK
<1>3. s \in Nat /\ s + 1 \in Nat /\ currentInstruction[w] \in Nat
  BY <1>2, FeederAssumption DEF instr_t
<1>4. Plus(currentInstruction[w], s + 1) \in instr_t /\ "step" \in UnitPCs
  BY <1>3, PlusType DEF UnitPCs
<1>5. numInstrExec' \in [Units -> Nat]
  BY <1>1, <1>2, <1>3
<1> QED
  BY <1>1, <1>2, <1>4, <1>5

\* A unit writes nothing of the manager's and nothing of another unit's.
LEMMA UnitFrame ==
  ASSUME TypeOK, NEW w \in Units, UnitStep(w)
  PROVE  /\ UNCHANGED managerVars
         /\ \A v \in Units \ {w} :
              /\ pc'[v] = pc[v] /\ pending'[v] = pending[v]
              /\ currentInstruction'[v] = currentInstruction[v]
              /\ isReady'[v] = isReady[v] /\ isStopped'[v] = isStopped[v]
              /\ tracee'[v] = tracee[v] /\ endOfRun'[v] = endOfRun[v]
         /\ UNCHANGED <<results, analysed>> \/ StepTracee(w)
<1>1. CASE \/ InitScannerPtrace(w) \/ InitFails(w) \/ Pause(w)
           \/ startHandlerPtrace(w) \/ TraceeSetup(w) \/ StepTracee(w)
           \/ KillTracee(w) \/ Stop(w) \/ EndOfRun(w)
  BY <1>1 DEF InitScannerPtrace, InitFails, Pause, startHandlerPtrace,
     TraceeSetup, StepTracee, KillTracee, Stop, EndOfRun, unitVars, TypeOK
<1>2. CASE SearchFirst(w)
  <2>1. UNCHANGED <<managerVars, isReady, isStopped, pending, unitVars>>
    BY <1>2 DEF SearchFirst
  <2>2. CASE search(currentInstruction[w])
    BY <1>2, <2>1, <2>2, FetchType DEF SearchFirst, unitVars, UnitPCs
  <2>3. CASE ~ search(currentInstruction[w])
    BY <1>2, <2>1, <2>3 DEF SearchFirst, unitVars, TypeOK
  <2> QED
    BY <2>2, <2>3
<1>3. CASE Fetch(w)
  BY <1>3, FetchType DEF Fetch, unitVars, UnitPCs
<1> QED
  BY <1>1, <1>2, <1>3 DEF UnitStep

\* The units keep the types.
LEMMA TypingUnit ==
  ASSUME TypeOK, CtorInv, NEW w \in Units, UnitStep(w)
  PROVE  TypeOK' /\ CtorInv'
<1>1. UNCHANGED managerVars
  BY UnitFrame
<1>2. CtorInv'
  BY <1>1 DEF CtorInv, managerVars, ctorVars
<1>3. CASE \/ InitScannerPtrace(w) \/ InitFails(w) \/ Pause(w)
           \/ startHandlerPtrace(w) \/ TraceeSetup(w)
  <2>1. /\ pc' \in [Units -> UnitPCs] /\ isReady' \in [Units -> BOOLEAN]
        /\ tracee' \in [Units -> {"none", "alive", "killed"}]
        /\ pending' \in [Units -> SUBSET {"USR1"}]
    <3>1. CASE startHandlerPtrace(w)
      <4>1. /\ pending' = [pending EXCEPT ![w] = pending[w] \ {"USR1"}]
            /\ UNCHANGED <<isReady, unitVars>>
            /\ \E p \in UnitPCs : pc' = [pc EXCEPT ![w] = p]
        BY <3>1 DEF startHandlerPtrace, UnitPCs
      <4> QED
        BY <4>1 DEF TypeOK, unitVars
    <3>2. CASE InitScannerPtrace(w) \/ InitFails(w)
      BY <3>2 DEF InitScannerPtrace, InitFails, unitVars, TypeOK, UnitPCs
    <3>3. CASE Pause(w) \/ TraceeSetup(w)
      BY <3>3 DEF Pause, TraceeSetup, unitVars, TypeOK, UnitPCs
    <3> QED
      BY <1>3, <3>1, <3>2, <3>3
  <2>2. UNCHANGED <<currentInstruction, isStopped, numInstrExec, results,
                    analysed, endOfRun>>
    BY <1>3 DEF InitScannerPtrace, InitFails, Pause, startHandlerPtrace,
       TraceeSetup, unitVars
  <2> QED
    BY <1>1, <1>2, <2>1, <2>2 DEF TypeOK, managerVars, ctorVars
<1>4. CASE KillTracee(w) \/ Stop(w) \/ EndOfRun(w)
  <2>1. /\ pc' \in [Units -> UnitPCs] /\ isStopped' \in [Units -> BOOLEAN]
        /\ tracee' \in [Units -> {"none", "alive", "killed"}]
        /\ endOfRun' \in [Units -> BOOLEAN]
    BY <1>4 DEF KillTracee, Stop, EndOfRun, unitVars, TypeOK, UnitPCs
  <2>2. UNCHANGED <<currentInstruction, isReady, numInstrExec, pending, results,
                    analysed>>
    BY <1>4 DEF KillTracee, Stop, EndOfRun, unitVars
  <2> QED
    BY <1>1, <1>2, <2>1, <2>2 DEF TypeOK, managerVars, ctorVars
<1>5. CASE StepTracee(w)
  <2> DEFINE k == currentInstruction[w]
  <2>1. k \in instr_t /\ Outcome[k] \in Causes
    BY AnalyserAssumption, PtraceAssumption DEF TypeOK, Outcomes, Causes
  <2>2. Report(disassemblePtrace(k), k, Outcome[k]) \subseteq Line
    BY <2>1 DEF Report, Line
  <2>3. /\ results' = results \cup Report(disassemblePtrace(k), k, Outcome[k])
        /\ analysed' = [analysed EXCEPT ![k] = @ + 1]
        /\ pc' = [pc EXCEPT ![w] = "fetch"]
        /\ UNCHANGED <<currentInstruction, isReady, isStopped, numInstrExec,
                       pending, tracee, endOfRun>>
    BY <1>5 DEF StepTracee
  <2> HIDE DEF k
  <2> QED
    BY <1>1, <1>2, <2>1, <2>2, <2>3 DEF TypeOK, managerVars, ctorVars, UnitPCs
<1>6. CASE SearchFirst(w) \/ Fetch(w)
  <2>1. UNCHANGED <<isReady, isStopped, pending, unitVars>>
    BY <1>6 DEF SearchFirst, Fetch
  <2>2. /\ currentInstruction' \in [Units -> instr_t]
        /\ numInstrExec' \in [Units -> Nat]
        /\ pc' \in [Units -> UnitPCs]
    <3>1. CASE SearchFirst(w) /\ ~ search(currentInstruction[w])
      BY <3>1 DEF SearchFirst, TypeOK, UnitPCs
    <3>2. CASE SearchFirst(w) /\ search(currentInstruction[w])
      BY <3>2, FetchType DEF SearchFirst, UnitPCs
    <3>3. CASE Fetch(w)
      BY <3>3, FetchType DEF Fetch, UnitPCs
    <3> QED
      BY <1>6, <3>1, <3>2, <3>3
  <2> QED
    BY <1>1, <1>2, <2>1, <2>2 DEF TypeOK, managerVars, ctorVars, unitVars
<1> QED
  BY <1>2, <1>3, <1>4, <1>5, <1>6 DEF UnitStep

LEMMA TypingNext ==
  ASSUME TypeOK, CtorInv, [Next]_vars
  PROVE  TypeOK' /\ CtorInv'
<1>1. CASE UNCHANGED vars
  BY <1>1 DEF vars, ctorVars, structVars, unitVars, TypeOK, CtorInv
<1> QED
  BY <1>1, TypingManager, TypingUnit DEF Next, Terminated

\* Types, for every number of units, range, blacklist and processor.
THEOREM TypeCorrect == Spec => []TypeOK
<1>1. TypeOK /\ CtorInv /\ [Next]_vars => TypeOK' /\ CtorInv'
  BY TypingNext
<1> QED
  BY <1>1, TypingInit, PTL DEF Spec

-----------------------------------------------------------------------------
(* Setting up: who is up, who has a tracee, and who has run anything. *)

LEMMA SetupInit == Init => StartInv /\ TraceeInv
BY DEF Init, MgrInit, StartInv, TraceeInv, Running, SettingUp

\* Except when it forks, the manager writes nothing that a unit writes; only
\* runScanners sends a signal, and only it leaves the set-up.
LEMMA ManagerFrame ==
  ASSUME TypeOK, CtorInv, ManagerStep
  PROVE  /\ UNCHANGED unitVars
         /\ Fork \/ UNCHANGED <<pc, currentInstruction, isReady, isStopped>>
         /\ Fork \/ Insert \/ UNCHANGED finalInstruction
         /\ \/ /\ UNCHANGED pending
               /\ mgr' \in SettingUp <=> mgr \in SettingUp
            \/ runScanners
<1>1. UNCHANGED unitVars
  BY DEF ManagerStep
<1>2. CASE Fork
  BY <1>1, <1>2 DEF Fork, SettingUp
<1>3. CASE Insert
  BY <1>1, <1>3 DEF Insert, SettingUp
<1>4. CASE CtorFails \/ Polling
  BY <1>1, <1>4 DEF CtorFails, Polling, structVars, SettingUp
<1>5. CASE runScanners
  BY <1>1, <1>5 DEF runScanners, structVars
<1>6. CASE CheckHang
  BY <1>1, <1>6, PtraceAssumption DEF CheckHang, TakenToHang, SettingUp
<1>7. CASE Alarm \/ PerfStore \/ PerfDone \/ AlarmReturn
  BY <1>1, <1>7 DEF Alarm, PerfStore, PerfDone, AlarmReturn, structVars,
     SettingUp
<1>8. ASSUME NEW w \in Units, PerfRead(w) \/ CheckStopped(w)
      PROVE  /\ UNCHANGED <<pc, currentInstruction, isReady, isStopped,
                            finalInstruction, pending>>
             /\ mgr' \in SettingUp <=> mgr \in SettingUp
  BY <1>8 DEF PerfRead, CheckStopped, structVars, SettingUp
<1> QED
  BY <1>1, <1>2, <1>3, <1>4, <1>5, <1>6, <1>7, <1>8
  DEF ManagerStep, Constructor, runScannersPtrace, AlarmHandler

LEMMA StartManager ==
  ASSUME TypeOK, CtorInv, StartInv, ManagerStep
  PROVE  StartInv'
<1>1. UNCHANGED analysed
  BY DEF ManagerStep, unitVars
<1>2. CASE runScanners
  <2>1. /\ threadDataMap = Units /\ mgr = "wait" /\ mgr' = "run"
        /\ UNCHANGED <<isReady, pc>>
        /\ \A w \in threadDataMap : isReady[w]
    BY <1>2 DEF runScanners, CtorInv, Units, structVars
  <2> QED
    BY <2>1 DEF StartInv, SettingUp
<1>3. CASE Fork
  <2>1. /\ pc' = [pc EXCEPT ![idx] = "init"] /\ UNCHANGED pending
        /\ isReady' = [isReady EXCEPT ![idx] = FALSE]
        /\ mgr = "fork" /\ mgr' = "insert"
    BY <1>3 DEF Fork, LocalScannerInit
  <2> QED
    BY <1>1, <2>1 DEF StartInv, SettingUp, Running, TypeOK
<1>4. CASE ~ runScanners /\ ~ Fork
  <2>1. /\ UNCHANGED <<pc, isReady, pending>>
        /\ mgr' \in SettingUp <=> mgr \in SettingUp
    BY <1>4, ManagerFrame
  <2> QED
    BY <1>1, <2>1 DEF StartInv
<1> QED
  BY <1>2, <1>3, <1>4

LEMMA StartUnit ==
  ASSUME TypeOK, StartInv, NEW w \in Units, UnitStep(w)
  PROVE  StartInv'
<1>1. /\ UNCHANGED managerVars
      /\ \A v \in Units \ {w} : /\ pc'[v] = pc[v] /\ isReady'[v] = isReady[v]
                                /\ pending'[v] = pending[v]
  BY UnitFrame
<1>2. /\ isReady'[w] => pc'[w] \notin {"none", "init", "dead"}
      /\ pc'[w] \in Running => pc[w] \in Running \/ pending[w] # {}
      /\ pending'[w] # {} => pending[w] # {}
      /\ isReady[w] => isReady'[w]
  <2> USE DEF TypeOK, StartInv, Running, UnitPCs
  <2>1. CASE InitScannerPtrace(w) \/ InitFails(w) \/ Pause(w)
    BY <2>1 DEF InitScannerPtrace, InitFails, Pause
  <2>2. CASE startHandlerPtrace(w)
    BY <2>2 DEF startHandlerPtrace
  <2>3. CASE TraceeSetup(w) \/ StepTracee(w) \/ KillTracee(w)
    BY <2>3 DEF TraceeSetup, StepTracee, KillTracee
  <2>4. CASE Stop(w) \/ EndOfRun(w)
    BY <2>4 DEF Stop, EndOfRun
  <2>5. CASE SearchFirst(w) \/ Fetch(w)
    <3>1. pc[w] \in {"search", "fetch"} /\ UNCHANGED <<isReady, pending>>
          /\ pc'[w] \in {"step", "stopWorker", "kill"}
      <4>1. CASE SearchFirst(w) /\ ~ search(currentInstruction[w])
        BY <4>1 DEF SearchFirst
      <4>2. CASE SearchFirst(w) /\ search(currentInstruction[w])
        BY <4>2, FetchType DEF SearchFirst
      <4>3. CASE Fetch(w)
        BY <4>3, FetchType DEF Fetch
      <4> QED
        BY <2>5, <4>1, <4>2, <4>3
    <3> QED
      BY <3>1
  <2> QED
    BY <2>1, <2>2, <2>3, <2>4, <2>5 DEF UnitStep
<1>3. mgr \in SettingUp => UNCHANGED analysed
  <2>1. StepTracee(w) => pc[w] \in Running
    BY DEF StepTracee, Running, UnitPCs
  <2> QED
    BY <2>1, UnitFrame DEF StartInv
<1>4. mgr' = mgr
  BY <1>1 DEF managerVars
<1> QED
  BY <1>1, <1>2, <1>3, <1>4 DEF StartInv, Running

LEMMA TraceeManager ==
  ASSUME TypeOK, CtorInv, StartInv, TraceeInv, ManagerStep
  PROVE  TraceeInv'
<1>1. UNCHANGED <<tracee, endOfRun>>
  BY DEF ManagerStep, unitVars
<1>2. CASE Fork \/ Insert
  <2>1. mgr \in SettingUp
    BY <1>2 DEF Fork, Insert, SettingUp
  <2>2. \A w \in Units : pc[w] \notin Running
    BY <2>1 DEF StartInv
  <2>3. \A w \in Units : pc'[w] \notin Running
    BY <1>2, <2>2, ManagerFrame DEF Fork, Insert, Running, TypeOK
  <2>4. \A w \in Units : ~ isStopped'[w]
    BY <1>2, <2>2 DEF TraceeInv, Fork, LocalScannerInit, Insert, TypeOK,
       Running, Ended, UnitPCs
  <2> QED
    BY <1>1, <2>2, <2>3, <2>4 DEF TraceeInv, Running, Ended, UnitPCs
<1>3. CASE ~ Fork /\ ~ Insert
  <2>1. UNCHANGED <<pc, currentInstruction, isStopped, finalInstruction>>
    BY <1>3, ManagerFrame
  <2> QED
    BY <1>1, <2>1 DEF TraceeInv
<1> QED
  BY <1>2, <1>3

\* If there is nothing to be fetched after a blacklisted instruction, the
\* rest of the part is blacklisted too.
LEMMA BlacklistedPart ==
  ASSUME NEW c \in instr_t, NEW f \in instr_t, search(c),
         NEW s \in 0 .. InstrMod - 1, FetchFinishes(c, f, s)
  PROVE  \A k \in c .. f : search(k)
<1>1. c \in Nat /\ f \in Nat
  BY DEF instr_t
<1>2. CASE c <= f
  <2>1. c + 1 .. f \subseteq Blacklist
    BY <1>2, FinishesFacts
  <2> QED
    BY <1>1, <2>1 DEF search
<1>3. CASE c > f
  BY <1>1, <1>3
<1> QED
  BY <1>1, <1>2, <1>3

LEMMA TraceeUnit ==
  ASSUME TypeOK, TraceeInv, NEW w \in Units, UnitStep(w)
  PROVE  TraceeInv'
<1>1. /\ UNCHANGED finalInstruction
      /\ \A v \in Units \ {w} :
           /\ pc'[v] = pc[v] /\ currentInstruction'[v] = currentInstruction[v]
           /\ isStopped'[v] = isStopped[v]
           /\ tracee'[v] = tracee[v] /\ endOfRun'[v] = endOfRun[v]
  BY UnitFrame DEF managerVars
<1>2. /\ tracee'[w] # "none" => pc'[w] \in Running
      /\ pc'[w] \in {"stop", "exit", "exited"} => tracee'[w] = "killed"
      /\ isStopped'[w] => pc'[w] \in Ended
      /\ endOfRun'[w] => pc'[w] \in Ended
      /\ pc'[w] \in {"stopWorker", "waitForever", "stopped"} =>
           \A k \in currentInstruction'[w] .. finalInstruction[w] : search(k)
  <2>1. CASE InitScannerPtrace(w) \/ InitFails(w) \/ Pause(w)
             \/ startHandlerPtrace(w)
    BY <2>1 DEF InitScannerPtrace, InitFails, Pause, startHandlerPtrace,
       unitVars, TypeOK, TraceeInv, Running, Ended, UnitPCs
  <2>2. CASE TraceeSetup(w) \/ StepTracee(w)
    BY <2>2 DEF TraceeSetup, StepTracee, TypeOK, TraceeInv, Running, Ended,
       UnitPCs
  <2>3. CASE KillTracee(w) \/ Stop(w) \/ EndOfRun(w)
    BY <2>3 DEF KillTracee, Stop, EndOfRun, unitVars, TypeOK, TraceeInv,
       Running, Ended, UnitPCs
  <2>4. CASE Fetch(w)
    <3>1. /\ pc[w] = "fetch" /\ pc'[w] \in {"step", "kill"}
          /\ UNCHANGED <<isStopped, tracee, endOfRun>>
      BY <2>4, FetchType DEF Fetch, unitVars, UnitPCs
    <3> QED
      BY <3>1 DEF TraceeInv, Running, Ended, UnitPCs
  <2>5. CASE SearchFirst(w)
    <3> DEFINE c == currentInstruction[w]
    <3>1. pc[w] = "search" /\ UNCHANGED <<isStopped, tracee, endOfRun>>
      BY <2>5 DEF SearchFirst, unitVars
    <3>2. CASE pc'[w] = "step"
      BY <3>1, <3>2 DEF TraceeInv, Running, Ended, UnitPCs
    <3>3. CASE pc'[w] # "step"
      <4>1. search(c) /\ FetchIntoCurrent(w, 0, "stopWorker")
        BY <2>5, <3>3 DEF SearchFirst, TypeOK
      <4>2. /\ pc'[w] = "stopWorker" /\ UNCHANGED currentInstruction
            /\ \E s \in 0 .. InstrMod - 1 : FetchFinishes(c, finalInstruction[w], s)
        BY <3>3, <4>1, FetchType DEF UnitPCs
      <4>3. c \in instr_t /\ finalInstruction[w] \in instr_t
        BY DEF TypeOK
      <4>4. \A k \in c .. finalInstruction[w] : search(k)
        BY <4>1, <4>2, <4>3, BlacklistedPart
      <4> QED
        BY <3>1, <4>2, <4>4 DEF TraceeInv, Running, Ended, UnitPCs
    <3> QED
      BY <3>2, <3>3
  <2> QED
    BY <2>1, <2>2, <2>3, <2>4, <2>5 DEF UnitStep
<1> QED
  BY <1>1, <1>2 DEF TraceeInv

LEMMA SetupNext == SetupInv /\ [Next]_vars => SetupInv'
<1> SUFFICES ASSUME SetupInv, [Next]_vars PROVE SetupInv'
  OBVIOUS
<1>1. TypeOK' /\ CtorInv'
  BY TypingNext DEF SetupInv
<1>2. CASE UNCHANGED vars
  <2>1. StartInv' /\ TraceeInv'
    BY <1>2 DEF SetupInv, vars, structVars, unitVars, StartInv, TraceeInv
  <2> QED
    BY <1>1, <2>1 DEF SetupInv
<1>3. CASE ManagerStep
  BY <1>1, <1>3, StartManager, TraceeManager DEF SetupInv
<1>4. ASSUME NEW w \in Units, UnitStep(w) PROVE SetupInv'
  BY <1>1, <1>4, StartUnit, TraceeUnit DEF SetupInv
<1> QED
  BY <1>2, <1>3, <1>4 DEF Next, Terminated

THEOREM Setup == Spec => []SetupInv
<1>1. Init => SetupInv
  BY TypingInit, SetupInit DEF SetupInv
<1> QED
  BY <1>1, SetupNext, PTL DEF Spec

\* When anything fails in the set-up, nothing is run: the manager sends the
\* start signal only when every unit is up, and what is up does not fail.
THEOREM NoPartialRunThm == Spec => []NoPartialRun
<1>1. SetupInv => NoPartialRun
  <2> SUFFICES ASSUME SetupInv, mgr = "failed" \/ \E w \in Units : pc[w] = "dead"
               PROVE  /\ \A k \in instr_t : analysed[k] = 0
                      /\ \A w \in Units : tracee[w] = "none" /\ ~ endOfRun[w]
    BY DEF NoPartialRun
  <2>1. mgr \in SettingUp
    BY DEF SetupInv, StartInv, SettingUp
  <2>2. \A w \in Units : pc[w] \notin Running
    BY <2>1 DEF SetupInv, StartInv
  <2> QED
    BY <2>1, <2>2 DEF SetupInv, StartInv, TraceeInv, Running, Ended, UnitPCs
<1> QED
  BY <1>1, Setup, PTL

\* A tracee that outlives its unit's scan was never stepped: the unit found
\* its whole part blacklisted and went to stopWorker.
THEOREM NoIdleTraceeThm == Spec => []NoIdleTracee
<1>1. SetupInv => NoIdleTracee
  BY DEF SetupInv, TraceeInv, NoIdleTracee, Ended
<1> QED
  BY <1>1, Setup, PTL

-----------------------------------------------------------------------------
(* The constructor, on a range that is one. *)

LEMMA PartInit == Init => PartInv
<1> SUFFICES ASSUME Init PROVE PartInv
  OBVIOUS
<1>1. (0 + 1) * instrPerThread = instrPerThread
  BY UnitsFacts
<1> QED
  BY <1>1 DEF Init, MgrInit, PartInv, UnitFirst

\* Insert is the only step that moves the constructor's locals on.
LEMMA PartInsert ==
  ASSUME TypeOK, CtorInv, PartInv, ProperRange, Insert
  PROVE  PartInv'
<1> DEFINE q == instrPerThread
<1>1. /\ idx \in Units /\ idx \in Nat /\ q \in Nat /\ numThreads \in Nat \ {0}
      /\ First \in Nat
  BY UnitsFacts, ManagerAssumption, FeederAssumption
  DEF Insert, CtorInv, Units, instr_t
<1>2. lastOfPart = First + (idx + 1) * q
  BY DEF PartInv
<1>3. ((idx + 1) + 1) * q = (idx + 1) * q + q /\ (idx + 1) * q \in Int
  BY <1>1, MulFacts
<1>4. threadDataMap' = threadDataMap \cup {idx} /\ idx' = idx + 1
  BY DEF Insert
<1>5. startInstruction' = UnitFirst(idx')
  BY <1>1, <1>2 DEF Insert, UnitFirst
<1>6. lastOfPart' = First + (idx' + 1) * q
  <2>1. lastOfPart' = lastOfPart + q
    BY DEF Insert
  <2> HIDE DEF q
  <2> QED
    BY <1>1, <1>2, <1>3, <1>4, <2>1
<1>7. ASSUME NEW w \in threadDataMap' PROVE finalInstruction'[w] = UnitLast(w)
  <2>1. CASE w = idx
    <3>1. CASE idx = numThreads - 1
      BY <1>1, <2>1, <3>1 DEF Insert, LastUnit, UnitLast, TypeOK
    <3>2. CASE idx # numThreads - 1
      <4>1. UnitLast(idx) = lastOfPart
        BY <1>2, <3>2 DEF UnitLast
      <4>2. lastOfPart % InstrMod = lastOfPart
        <5>1. lastOfPart \in 0 .. InstrMod - 1
          BY <1>1, <4>1, PartFacts DEF instr_t
        <5> QED
          BY <5>1, FeederAssumption
      <4> QED
        BY <2>1, <3>2, <4>1, <4>2 DEF Insert, LastUnit, PartInv
    <3> QED
      BY <3>1, <3>2
  <2>2. CASE w # idx
    <3>1. w \in threadDataMap
      BY <1>4, <2>2
    <3> QED
      BY <1>1, <2>2, <3>1 DEF Insert, PartInv, TypeOK
  <2> QED
    BY <2>1, <2>2
<1>8. mgr' # "insert"
  BY DEF Insert
<1> QED
  BY <1>5, <1>6, <1>7, <1>8 DEF PartInv

\* The closed form of the partition is kept.
LEMMA PartNext ==
  ASSUME TypeOK, CtorInv, PartInv, ProperRange, [Next]_vars
  PROVE  PartInv'
<1>1. CASE UNCHANGED managerVars
  BY <1>1 DEF managerVars, ctorVars, PartInv, UnitFirst, UnitLast
<1>2. CASE Fork
  <2>1. idx \notin threadDataMap /\ idx \in Units
    BY <1>2 DEF Fork, CtorInv, Units
  <2>2. UNCHANGED ctorVars
        /\ finalInstruction' = [finalInstruction EXCEPT ![idx] = lastOfPart % InstrMod]
    BY <1>2 DEF Fork
  <2> QED
    BY <2>1, <2>2 DEF PartInv, ctorVars, TypeOK, UnitFirst, UnitLast
<1>3. CASE Insert
  BY <1>3, PartInsert
<1>4. CASE ManagerStep /\ ~ Fork /\ ~ Insert
  <2>1. UNCHANGED finalInstruction
    BY <1>4, ManagerFrame
  <2>2. UNCHANGED ctorVars /\ mgr' # "insert"
    BY <1>4 DEF ManagerStep, Constructor, runScannersPtrace, AlarmHandler,
       CtorFails, Polling, runScanners, Alarm, PerfStore, PerfDone, CheckHang,
       AlarmReturn, PerfRead, CheckStopped
  <2> QED
    BY <2>1, <2>2 DEF PartInv, ctorVars, UnitFirst, UnitLast
<1>5. CASE \E w \in Units : UnitStep(w)
  BY <1>1, <1>5, UnitFrame
<1>6. CASE UNCHANGED vars
  BY <1>1, <1>6 DEF vars, managerVars, structVars
<1> QED
  BY <1>2, <1>3, <1>4, <1>5, <1>6 DEF Next, Terminated

-----------------------------------------------------------------------------
(* Where the units are in their parts. *)

LEMMA RangeInit == Init => RangeInv
BY DEF Init, MgrInit, RangeInv, InPart

\* A running unit's bound is the corrected one.
LEMMA RunningBound ==
  ASSUME SetupInv, PartInv, NEW w \in Units, pc[w] \in Running
  PROVE  finalInstruction[w] = UnitLast(w)
<1>1. mgr \notin SettingUp
  BY DEF SetupInv, StartInv
<1>2. threadDataMap = Units
  BY <1>1 DEF SetupInv, CtorInv, SettingUp, Units
<1> QED
  BY <1>2 DEF PartInv

\* What a running unit's fetch does, in terms of its part: it either moves to
\* a later instruction, passing over blacklisted ones only, or finds the rest
\* of the part blacklisted.
LEMMA FetchInPart ==
  ASSUME SetupInv, PartInv, RangeInv, ProperRange, NEW w \in Units,
         pc[w] \in Running, NEW n \in Nat, NEW done \in UnitPCs,
         FetchIntoCurrent(w, n, done)
  PROVE  \/ /\ pc'[w] = "step"
            /\ currentInstruction'[w] \in currentInstruction[w] + 1 .. UnitLast(w)
            /\ ~ search(currentInstruction'[w])
            /\ currentInstruction[w] + 1 .. currentInstruction'[w] - 1
                 \subseteq Blacklist
         \/ /\ pc'[w] = done
            /\ currentInstruction'[w] = currentInstruction[w]
            /\ currentInstruction[w] + 1 .. UnitLast(w) \subseteq Blacklist
<1> DEFINE c == currentInstruction[w]
<1>1. finalInstruction[w] = UnitLast(w)
  BY RunningBound
<1>2. c \in instr_t /\ UnitLast(w) \in instr_t /\ c <= UnitLast(w)
  BY PartFacts DEF SetupInv, TypeOK, RangeInv, InPart, Running
<1>3. CASE /\ pc'[w] = "step"
           /\ \E s \in 0 .. InstrMod - 1 :
                /\ FetchYields(c, finalInstruction[w], s)
                /\ currentInstruction'[w] = Plus(c, s + 1)
  BY <1>1, <1>2, <1>3, YieldsFacts DEF search
<1>4. CASE /\ pc'[w] = done /\ UNCHANGED currentInstruction
           /\ \E s \in 0 .. InstrMod - 1 :
                FetchFinishes(c, finalInstruction[w], s)
  BY <1>1, <1>2, <1>4, FinishesFacts
<1> QED
  BY <1>3, <1>4, FetchType DEF SetupInv

\* A unit stays inside its part and stops for nothing but the end of it.
LEMMA RangeUnit ==
  ASSUME SetupInv, PartInv, RangeInv, ProperRange, NEW w \in Units, UnitStep(w)
  PROVE  RangeInv'
<1> DEFINE c == currentInstruction[w]
<1>1. ASSUME NEW v \in Units \ {w} PROVE InPart(v)'
  BY UnitFrame DEF InPart, RangeInv, SetupInv, UnitFirst, UnitLast
<1>2. InPart(w)
  BY DEF RangeInv
<1>3. UnitFirst(w) \in Int /\ UnitLast(w) \in Int /\ UnitFirst(w) <= UnitLast(w)
  BY PartFacts, FeederAssumption DEF instr_t
<1>4. c \in Int /\ pc \in [Units -> UnitPCs]
  BY FeederAssumption DEF SetupInv, TypeOK, instr_t
<1>5. UnitFirst(w)' = UnitFirst(w) /\ UnitLast(w)' = UnitLast(w)
  BY DEF UnitFirst, UnitLast
<1>6. InPart(w)'
  <2>1. CASE \/ InitScannerPtrace(w) \/ InitFails(w) \/ Pause(w)
             \/ startHandlerPtrace(w) \/ TraceeSetup(w) \/ StepTracee(w)
    <3>1. /\ pc[w] # "none" /\ pc'[w] \notin {"step"} \cup Halted
          /\ UNCHANGED currentInstruction
      BY <1>4, <2>1 DEF InitScannerPtrace, InitFails, Pause,
         startHandlerPtrace, TraceeSetup, StepTracee, Halted, Ended
    <3> QED
      BY <1>2, <1>5, <3>1 DEF InPart
  <2>2. CASE KillTracee(w) \/ Stop(w) \/ EndOfRun(w)
    <3>1. /\ pc[w] \in Halted /\ pc'[w] \in Halted
          /\ UNCHANGED currentInstruction
      BY <1>4, <2>2 DEF KillTracee, Stop, EndOfRun, Halted, Ended
    <3> QED
      BY <1>2, <1>5, <3>1 DEF InPart, Halted, Ended
  <2>3. CASE SearchFirst(w) /\ ~ search(c)
    <3>1. pc[w] = "search" /\ pc'[w] = "step" /\ UNCHANGED currentInstruction
      BY <1>4, <2>3 DEF SearchFirst
    <3> QED
      BY <1>2, <1>5, <2>3, <3>1 DEF InPart, Halted, Ended
  <2>4. ASSUME NEW n \in Nat, NEW done \in Halted, FetchIntoCurrent(w, n, done),
               pc[w] \in {"search", "fetch"}
        PROVE  InPart(w)'
    <3>1. pc[w] \in Running /\ done \in UnitPCs
      BY <2>4 DEF Running, UnitPCs, Halted, Ended
    <3>2. c \in UnitFirst(w) .. UnitLast(w)
      BY <1>2, <2>4 DEF InPart
    <3> QED
      BY <1>3, <1>4, <1>5, <2>4, <3>1, <3>2, FetchInPart
      DEF InPart, Halted, Ended
  <2>5. CASE (SearchFirst(w) /\ search(c)) \/ Fetch(w)
    BY <2>4, <2>5 DEF SearchFirst, Fetch, Halted
  <2> QED
    BY <2>1, <2>2, <2>3, <2>5 DEF UnitStep
<1> QED
  BY <1>1, <1>6 DEF RangeInv

\* The constructor starts every unit at the beginning of its part.
LEMMA ForkFacts ==
  ASSUME SetupInv, PartInv, ProperRange, Fork
  PROVE  /\ idx \in Units /\ pc' = [pc EXCEPT ![idx] = "init"]
         /\ UnitFirst(idx) \in UnitFirst(idx) .. UnitLast(idx)
         /\ currentInstruction' = [currentInstruction EXCEPT ![idx] = UnitFirst(idx)]
<1>1. idx \in Units /\ startInstruction = UnitFirst(idx)
  BY DEF Fork, SetupInv, CtorInv, PartInv
<1>2. /\ UnitFirst(idx) \in instr_t
      /\ UnitFirst(idx) \in UnitFirst(idx) .. UnitLast(idx)
  BY <1>1, PartFacts, FeederAssumption DEF instr_t
<1>3. startInstruction % InstrMod = UnitFirst(idx)
  BY <1>1, <1>2, FeederAssumption DEF instr_t
<1> QED
  BY <1>1, <1>2, <1>3 DEF Fork

LEMMA RangeNext ==
  ASSUME SetupInv, PartInv, RangeInv, ProperRange, [Next]_vars
  PROVE  RangeInv'
<1>1. CASE UNCHANGED <<pc, currentInstruction>>
  BY <1>1 DEF RangeInv, InPart, UnitFirst, UnitLast
<1>2. CASE Fork
  <2>1. ASSUME NEW v \in Units PROVE InPart(v)'
    <3>1. UnitFirst(v)' = UnitFirst(v) /\ UnitLast(v)' = UnitLast(v)
      BY DEF UnitFirst, UnitLast
    <3> QED
      BY <1>2, <3>1, ForkFacts
      DEF InPart, RangeInv, SetupInv, TypeOK, Halted, Ended
  <2> QED
    BY <2>1 DEF RangeInv
<1>3. CASE UNCHANGED vars
  BY <1>1, <1>3 DEF vars, structVars
<1>4. CASE ManagerStep
  BY <1>1, <1>2, <1>4, ManagerFrame DEF SetupInv
<1> QED
  BY <1>3, <1>4, RangeUnit DEF Next, Terminated

-----------------------------------------------------------------------------
(* What has been analysed. *)

LEMMA CountInit == ProperRange /\ Init => CountInv
<1> SUFFICES ASSUME ProperRange, Init,
                    NEW w \in Units, NEW k \in UnitFirst(w) .. UnitLast(w)
             PROVE  analysed[k] = IF Passed(w, k) /\ ~ search(k) THEN 1 ELSE 0
  BY DEF CountInv
<1> QED
  BY PartType DEF Init, MgrInit, Passed

\* CountInv for one unit
Counted(w) ==
  \A k \in UnitFirst(w) .. UnitLast(w) :
    analysed[k] = IF Passed(w, k) /\ ~ search(k) THEN 1 ELSE 0

\* What a unit passes it has analysed, just once, or it is blacklisted.
LEMMA CountUnit ==
  ASSUME SetupInv, PartInv, RangeInv, CountInv, ProperRange,
         NEW w \in Units, UnitStep(w)
  PROVE  CountInv'
<1> DEFINE c == currentInstruction[w]
<1>1. \A v \in Units : UnitFirst(v)' = UnitFirst(v) /\ UnitLast(v)' = UnitLast(v)
  BY DEF UnitFirst, UnitLast
<1>2. /\ pc \in [Units -> UnitPCs] /\ analysed \in [instr_t -> Nat]
      /\ currentInstruction \in [Units -> instr_t]
  BY DEF SetupInv, TypeOK
<1>3. c \in Int /\ c \in instr_t
  BY <1>2 DEF instr_t
<1>4. StepTracee(w) => /\ pc[w] = "step" /\ pc' = [pc EXCEPT ![w] = "fetch"]
                       /\ UNCHANGED currentInstruction
                       /\ analysed' = [analysed EXCEPT ![c] = @ + 1]
  BY DEF StepTracee
<1>5. pc[w] = "step" => c \in UnitFirst(w) .. UnitLast(w) /\ ~ search(c)
  BY DEF RangeInv, InPart
<1>6. ASSUME NEW v \in Units \ {w} PROVE Counted(v)'
  <2>1. ASSUME NEW k \in UnitFirst(v) .. UnitLast(v) PROVE analysed'[k] = analysed[k]
    <3>1. StepTracee(w) => k # c
      BY <1>4, <1>5, OwnPart
    <3>2. k \in instr_t
      BY PartType
    <3>3. UNCHANGED analysed \/ StepTracee(w)
      BY UnitFrame DEF SetupInv
    <3> QED
      BY <1>2, <1>3, <1>4, <3>1, <3>2, <3>3
  <2>2. \A k : Passed(v, k)' <=> Passed(v, k)
    BY UnitFrame DEF SetupInv, Passed
  <2> QED
    BY <1>1, <2>1, <2>2 DEF Counted, CountInv
<1>7. Counted(w)
  BY DEF CountInv, Counted
<1>8. UnitFirst(w) \in Int /\ UnitLast(w) \in Int
  BY PartFacts DEF instr_t
<1>9. Counted(w)'
  <2>1. CASE StepTracee(w)
    <3>1. pc[w] = "step" /\ pc'[w] = "fetch" /\ currentInstruction'[w] = c
      BY <1>2, <1>4, <2>1
    <3>2. ASSUME NEW k \in UnitFirst(w) .. UnitLast(w)
          PROVE  analysed'[k] = IF Passed(w, k)' /\ ~ search(k) THEN 1 ELSE 0
      <4>1. CASE k = c
        <5>1. ~ Passed(w, k) /\ Passed(w, k)'
          BY <1>3, <3>1, <4>1 DEF Passed, Halted, Ended
        <5>2. analysed[k] = 0
          BY <1>7, <5>1 DEF Counted
        <5> QED
          BY <1>2, <1>3, <1>4, <1>5, <2>1, <3>1, <4>1, <5>1, <5>2
      <4>2. CASE k # c
        <5>1. Passed(w, k)' <=> Passed(w, k)
          BY <3>1, <4>2 DEF Passed
        <5>2. analysed'[k] = analysed[k]
          BY <1>2, <1>3, <1>4, <2>1, <4>2, PartType
        <5> QED
          BY <1>7, <5>1, <5>2 DEF Counted
      <4> QED
        BY <4>1, <4>2
    <3> QED
      BY <1>1, <3>2 DEF Counted
  <2>2. CASE \/ InitScannerPtrace(w) \/ InitFails(w) \/ Pause(w)
             \/ startHandlerPtrace(w) \/ TraceeSetup(w)
    <3>1. /\ pc[w] # "none" /\ pc[w] \notin {"fetch"} \cup Halted
          /\ pc'[w] # "none" /\ pc'[w] \notin {"fetch"} \cup Halted
          /\ UNCHANGED <<currentInstruction, analysed>>
      BY <1>2, <2>2 DEF InitScannerPtrace, InitFails, Pause,
         startHandlerPtrace, TraceeSetup, unitVars, Halted, Ended
    <3>2. \A k : Passed(w, k)' <=> Passed(w, k)
      BY <3>1 DEF Passed
    <3> QED
      BY <1>1, <1>7, <3>1, <3>2 DEF Counted
  <2>3. CASE KillTracee(w) \/ Stop(w) \/ EndOfRun(w)
    <3>1. /\ pc[w] \in Halted /\ pc'[w] \in Halted
          /\ UNCHANGED <<currentInstruction, analysed>>
      BY <1>2, <2>3 DEF KillTracee, Stop, EndOfRun, unitVars, Halted, Ended
    <3>2. \A k : Passed(w, k)' <=> Passed(w, k)
      BY <3>1 DEF Passed, Halted, Ended
    <3> QED
      BY <1>1, <1>7, <3>1, <3>2 DEF Counted
  <2>4. CASE SearchFirst(w) /\ ~ search(c)
    <3>1. /\ pc[w] = "search" /\ pc'[w] = "step"
          /\ UNCHANGED <<currentInstruction, analysed>>
      BY <1>2, <2>4 DEF SearchFirst, unitVars
    <3>2. \A k : Passed(w, k)' <=> Passed(w, k)
      BY <3>1 DEF Passed, Halted, Ended
    <3> QED
      BY <1>1, <1>7, <3>1, <3>2 DEF Counted
  <2>5. ASSUME NEW n \in Nat, NEW done \in Halted, FetchIntoCurrent(w, n, done),
               UNCHANGED analysed,
               pc[w] = "fetch" \/ (pc[w] = "search" /\ search(c))
        PROVE  Counted(w)'
    <3>1. pc[w] \in Running /\ done \in UnitPCs
      BY <2>5 DEF Running, UnitPCs, Halted, Ended
    <3>2. ASSUME NEW k \in UnitFirst(w) .. UnitLast(w)
          PROVE  analysed'[k] = IF Passed(w, k)' /\ ~ search(k) THEN 1 ELSE 0
      <4>1. analysed[k] = IF Passed(w, k) /\ ~ search(k) THEN 1 ELSE 0
        BY <1>7 DEF Counted
      <4>2. k \in Int
        BY <1>8
      <4>3. CASE /\ pc'[w] = "step"
                 /\ currentInstruction'[w] \in c + 1 .. UnitLast(w)
                 /\ c + 1 .. currentInstruction'[w] - 1 \subseteq Blacklist
        <5>1. Passed(w, k)' <=> k < currentInstruction'[w]
          BY <4>3 DEF Passed, Halted, Ended
        <5>2. CASE k < c \/ k = c
          BY <1>3, <1>8, <2>5, <4>1, <4>2, <4>3, <5>1, <5>2 DEF Passed
        <5>3. CASE k > c
          <6>1. ~ Passed(w, k)
            BY <1>3, <4>2, <5>3 DEF Passed
          <6>2. k < currentInstruction'[w] => k \in Blacklist
            BY <1>3, <1>8, <4>2, <4>3, <5>3
          <6> QED
            BY <2>5, <4>1, <5>1, <6>1, <6>2 DEF search
        <5> QED
          BY <1>3, <4>2, <5>2, <5>3
      <4>4. CASE pc'[w] = done /\ currentInstruction'[w] = c
        <5>1. Passed(w, k)' <=> k < c \/ k = c
          BY <2>5, <4>4 DEF Passed, Halted, Ended
        <5>2. pc[w] = "fetch" => (Passed(w, k) <=> k < c \/ k = c)
          BY DEF Passed
        <5>3. pc[w] = "search" => (Passed(w, k) <=> k < c)
          BY DEF Passed, Halted, Ended
        <5> QED
          BY <2>5, <4>1, <5>1, <5>2, <5>3
      <4> QED
        BY <2>5, <3>1, <4>3, <4>4, FetchInPart
    <3> QED
      BY <1>1, <3>2 DEF Counted
  <2>6. CASE (SearchFirst(w) /\ search(c)) \/ Fetch(w)
    <3>1. UNCHANGED analysed
      BY <2>6 DEF SearchFirst, Fetch, unitVars
    <3> QED
      BY <2>5, <2>6, <3>1 DEF SearchFirst, Fetch, Halted
  <2> QED
    BY <2>1, <2>2, <2>3, <2>4, <2>6 DEF UnitStep
<1> QED
  BY <1>6, <1>9 DEF Counted, CountInv

LEMMA CountNext ==
  ASSUME SetupInv, PartInv, RangeInv, CountInv, ProperRange, [Next]_vars
  PROVE  CountInv'
<1>1. CASE UNCHANGED <<pc, currentInstruction, analysed>>
  BY <1>1 DEF CountInv, Passed, UnitFirst, UnitLast
<1>2. CASE ManagerStep /\ Fork
  <2>1. UNCHANGED analysed /\ \A v \in Units : pc[v] \notin Running
    BY <1>2 DEF ManagerStep, unitVars, Fork, SetupInv, StartInv, SettingUp
  <2>2. ASSUME NEW v \in Units, NEW k \in UnitFirst(v) .. UnitLast(v)
        PROVE  analysed'[k] = IF Passed(v, k)' /\ ~ search(k) THEN 1 ELSE 0
    <3>1. analysed[k] = 0
      <4>1. k \in instr_t
        BY PartType
      <4> QED
        BY <1>2, <4>1 DEF Fork, SetupInv, StartInv, SettingUp
    <3>2. CASE v = idx
      <4>1. pc'[v] = "init" /\ currentInstruction'[v] = UnitFirst(v)
        BY <1>2, <3>2, ForkFacts DEF SetupInv, TypeOK
      <4>2. ~ Passed(v, k)'
        <5>1. UnitFirst(v) \in Int /\ UnitLast(v) \in Int
          BY PartFacts DEF instr_t
        <5> QED
          BY <4>1, <5>1 DEF Passed, Halted, Ended
      <4> QED
        BY <2>1, <3>1, <4>2
    <3>3. CASE v # idx
      <4>1. pc'[v] = pc[v] /\ currentInstruction'[v] = currentInstruction[v]
        BY <1>2, <3>3, ForkFacts DEF SetupInv, TypeOK
      <4>2. Passed(v, k)' <=> Passed(v, k)
        BY <4>1 DEF Passed
      <4> QED
        BY <2>1, <4>2 DEF CountInv
    <3> QED
      BY <3>2, <3>3
  <2>3. \A v \in Units : UnitFirst(v)' = UnitFirst(v) /\ UnitLast(v)' = UnitLast(v)
    BY DEF UnitFirst, UnitLast
  <2> QED
    BY <2>2, <2>3 DEF CountInv
<1>3. CASE UNCHANGED vars
  BY <1>1, <1>3 DEF vars, structVars, unitVars
<1>4. CASE ManagerStep
  BY <1>1, <1>2, <1>4, ManagerFrame DEF SetupInv, unitVars
<1> QED
  BY <1>3, <1>4, CountUnit DEF Next, Terminated

-----------------------------------------------------------------------------
(* Stopping. *)

LEMMA StopInit == Init => StopInv
BY DEF Init, MgrInit, StopInv

LEMMA StopNext ==
  ASSUME SetupInv, StopInv, [Next]_vars
  PROVE  StopInv'
<1>1. CASE UNCHANGED vars
  BY <1>1 DEF vars, structVars, ctorVars, StopInv
<1>2. ASSUME NEW w \in Units, UnitStep(w) PROVE StopInv'
  <2>1. UNCHANGED <<mgr, allStopped, threadDataMap, todo>>
    BY <1>2, UnitFrame DEF SetupInv, managerVars, ctorVars
  <2>2. \A v \in Units : isStopped[v] => isStopped'[v]
    <3>1. isStopped[w] => isStopped'[w]
      BY <1>2 DEF UnitStep, InitScannerPtrace, InitFails, Pause,
         startHandlerPtrace, TraceeSetup, SearchFirst, StepTracee, Fetch,
         KillTracee, Stop, EndOfRun, SetupInv, TypeOK
    <3> QED
      BY <1>2, <3>1, UnitFrame DEF SetupInv
  <2>3. threadDataMap \subseteq Units
    BY DEF SetupInv, TypeOK
  <2> QED
    BY <2>1, <2>2, <2>3 DEF StopInv
<1>3. CASE Fork
  BY <1>3 DEF Fork, StopInv
<1>4. CASE ManagerStep /\ ~ Fork
  <2>1. UNCHANGED isStopped
    BY <1>4, ManagerFrame DEF SetupInv
  <2>2. CASE CtorFails \/ Insert \/ runScanners \/ Polling \/ PerfStore
    BY <2>1, <2>2 DEF CtorFails, Insert, runScanners, Polling, PerfStore, StopInv
  <2>3. CASE Alarm \/ PerfDone
    BY <2>1, <2>3 DEF Alarm, PerfDone, ctorVars, StopInv
  <2>4. CASE CheckHang
    BY <2>1, <2>4 DEF CheckHang, ctorVars, StopInv
  <2>5. CASE AlarmReturn
    <3>1. threadDataMap = Units
      BY <2>5 DEF AlarmReturn, SetupInv, CtorInv, Units
    <3> QED
      BY <2>1, <2>5, <3>1 DEF AlarmReturn, ctorVars, StopInv
  <2>6. CASE \E w \in Units : PerfRead(w)
    BY <2>1, <2>6 DEF PerfRead, StopInv
  <2>7. ASSUME NEW w \in Units, CheckStopped(w) PROVE StopInv'
    <3>1. /\ allStopped' => allStopped /\ isStopped[w]
          /\ mgr = "check" /\ mgr' = "checkHang"
          /\ todo' = todo \ {w} /\ UNCHANGED threadDataMap
      BY <2>7 DEF CheckStopped, FinishedAfter, ctorVars
    <3> QED
      BY <2>1, <3>1 DEF StopInv
  <2> QED
    BY <1>4, <2>2, <2>3, <2>4, <2>5, <2>6, <2>7
    DEF ManagerStep, Constructor, runScannersPtrace, AlarmHandler
<1> QED
  BY <1>1, <1>2, <1>3, <1>4 DEF Next, Terminated

-----------------------------------------------------------------------------
(* The invariant. *)

LEMMA JobInvNext == ProperRange /\ JobInv /\ [Next]_vars => JobInv'
<1> SUFFICES ASSUME ProperRange, JobInv, [Next]_vars PROVE JobInv'
  OBVIOUS
<1> USE DEF JobInv
<1>1. SetupInv' /\ StopInv'
  BY SetupNext, StopNext
<1>2. PartInv'
  BY PartNext DEF SetupInv
<1>3. RangeInv' /\ CountInv'
  BY RangeNext, CountNext
<1> QED
  BY <1>1, <1>2, <1>3

\* The inductive invariant holds, for every range that is one.
THEOREM Invariant == ProperRange /\ Spec => []JobInv
<1>1. ASSUME ProperRange PROVE Spec => []JobInv
  <2>1. Init => JobInv
    BY <1>1, TypingInit, SetupInit, PartInit, RangeInit, CountInit, StopInit
    DEF JobInv, SetupInv
  <2>2. JobInv /\ [Next]_vars => JobInv'
    BY <1>1, JobInvNext
  <2> QED
    BY <2>1, <2>2, PTL DEF Spec
<1> QED
  BY <1>1

-----------------------------------------------------------------------------
(* The ptrace scan implements ScanJob. *)

\* A unit that has stopped has put its whole part behind it.
LEMMA StoppedPart ==
  ASSUME JobInv, ProperRange, NEW w \in Units, isStopped[w],
         NEW k \in UnitFirst(w) .. UnitLast(w), ~ search(k)
  PROVE  analysed[k] = 1
<1>1. pc[w] \in Ended /\ pc[w] # "none"
  BY DEF JobInv, SetupInv, TraceeInv, Ended
<1>2. /\ currentInstruction[w] \in UnitFirst(w) .. UnitLast(w)
      /\ currentInstruction[w] + 1 .. UnitLast(w) \subseteq Blacklist
  BY <1>1 DEF JobInv, RangeInv, InPart, Halted
<1>3. UnitFirst(w) \in Int /\ UnitLast(w) \in Int
  BY PartFacts DEF instr_t
<1>4. k \notin currentInstruction[w] + 1 .. UnitLast(w)
  BY <1>2 DEF search
<1>5. Passed(w, k)
  BY <1>1, <1>2, <1>3, <1>4 DEF Passed, Halted
<1> QED
  BY <1>5 DEF JobInv, CountInv

\* What a unit reports of the instruction it has stepped is the verdict.
LEMMA VerdictFacts ==
  ASSUME NEW k \in instr_t
  PROVE  Report(disassemblePtrace(k), k, Outcome[k]) = Job!Verdict(k)
<1>1. Outcome[k] # "HANG"
  BY PtraceAssumption
<1>2. ~ disassemblePtrace(k)
  BY DEF disassemblePtrace, currentInstructionSize, instructionSize
<1>3. ~ Job!disassemble(k)
  <2>1. k # InstrMod
    BY FeederAssumption DEF instr_t
  <2> QED
    BY <2>1 DEF Job!disassemble, Job!Filler
<1> QED
  BY <1>1, <1>2, <1>3 DEF Job!Verdict, Job!basicAnalysis, Job!Report, Report

\* Stepping the tracee is classifying the instruction.
LEMMA StepClassifies ==
  ASSUME JobInv, ProperRange, NEW w \in Units, StepTracee(w)
  PROVE  Job!Classify(currentInstruction[w]) /\ currentInstruction[w] \in instr_t
<1> DEFINE c == currentInstruction[w]
<1>1. pc[w] = "step" /\ UNCHANGED managerVars
  BY DEF StepTracee
<1>2. c \in UnitFirst(w) .. UnitLast(w) /\ ~ search(c)
  BY <1>1 DEF JobInv, RangeInv, InPart
<1>3. c \in instr_t /\ c \in First .. Last
  BY <1>2, PartType
<1>4. analysed[c] = 0
  <2>1. ~ Passed(w, c)
    BY <1>1, <1>3 DEF Passed, Halted, Ended, instr_t
  <2> QED
    BY <1>2, <2>1 DEF JobInv, CountInv
<1>5. analysed' = [analysed EXCEPT ![c] = 1]
  BY <1>3, <1>4 DEF StepTracee, JobInv, SetupInv, TypeOK
<1>6. results' = results \cup Job!Verdict(c)
  BY <1>3, VerdictFacts DEF StepTracee
<1>7. Status = "scanning" /\ Status' = Status
  <2>1. mgr # "failed"
    BY <1>1 DEF JobInv, SetupInv, StartInv, Running, UnitPCs, SettingUp
  <2>2. mgr # "finished"
    BY <1>1 DEF JobInv, StopInv, SetupInv, TraceeInv, Ended
  <2> QED
    BY <1>1, <2>1, <2>2 DEF Status, managerVars
<1>8. Outcome[c] # "HANG"
  BY <1>3, PtraceAssumption
<1>9. c \in Job!Scope
  BY <1>2, <1>3 DEF Job!Scope, search
<1> QED
  BY <1>3, <1>4, <1>5, <1>6, <1>7, <1>8, <1>9 DEF Job!Classify

\* Every step is a step of ScanJob or none.
LEMMA JobStep ==
  ASSUME JobInv, ProperRange, [Next]_vars
  PROVE  [Job!JobNext]_<<Status, analysed, results, {}>>
<1>1. CASE UNCHANGED <<mgr, analysed, results>>
  BY <1>1 DEF Status
<1>2. CASE UNCHANGED vars
  BY <1>1, <1>2 DEF vars, unitVars
<1>3. ASSUME NEW w \in Units, UnitStep(w)
      PROVE  [Job!JobNext]_<<Status, analysed, results, {}>>
  <2>1. CASE StepTracee(w)
    BY <2>1, StepClassifies DEF Job!JobNext, Job!instr_t, instr_t
  <2>2. CASE ~ StepTracee(w)
    BY <1>1, <1>3, <2>2, UnitFrame DEF JobInv, SetupInv, managerVars
  <2> QED
    BY <2>1, <2>2
<1>4. CASE ManagerStep
  <2>1. UNCHANGED <<analysed, results>>
    BY <1>4 DEF ManagerStep, unitVars
  <2>2. CASE CtorFails
    <3>1. Status = "scanning" /\ Status' = "aborted"
      BY <2>2 DEF CtorFails, Status
    <3>2. \A k \in instr_t : analysed[k] = 0
      BY <2>2 DEF CtorFails, JobInv, SetupInv, StartInv, SettingUp
    <3>3. Job!Abort
      BY <2>1, <3>1, <3>2 DEF Job!Abort, Job!instr_t, instr_t
    <3> QED
      BY <3>3 DEF Job!JobNext
  <2>3. CASE AlarmReturn /\ allStopped
    <3>1. Status = "scanning" /\ Status' = "finished"
      BY <2>3 DEF AlarmReturn, Status
    <3>2. \A w \in Units : isStopped[w]
      BY <2>3 DEF AlarmReturn, JobInv, SetupInv, CtorInv, StopInv, Units
    <3>3. ASSUME NEW k \in Job!Scope PROVE analysed[k] = 1
      <4>1. k \in First .. Last /\ ~ search(k)
        BY DEF Job!Scope, search
      <4> QED
        BY <3>2, <4>1, PartsCover, StoppedPart
    <3>4. Job!Finish
      BY <2>1, <3>1, <3>3 DEF Job!Finish
    <3> QED
      BY <3>4 DEF Job!JobNext
  <2>4. CASE AlarmReturn /\ ~ allStopped
    BY <2>1, <2>4 DEF AlarmReturn, Status
  <2>5. CASE ~ CtorFails /\ ~ AlarmReturn
    <3>1. mgr' \notin Exited /\ mgr \notin Exited
      BY <1>4, <2>5 DEF ManagerStep, Constructor, runScannersPtrace,
         AlarmHandler, Fork, Insert, runScanners, Polling, Alarm, PerfRead,
         PerfStore, PerfDone, CheckStopped, CheckHang, Exited
    <3> QED
      BY <2>1, <3>1 DEF Status, Exited
  <2> QED
    BY <2>2, <2>3, <2>4, <2>5
<1> QED
  BY <1>2, <1>3, <1>4 DEF Next, Terminated

\* The ptrace scan does what ScanJob says a scan does, with a disassembler
\* that accepts nothing: each instruction of the range that is not
\* blacklisted is analysed once, by one unit, and "finished run" comes when
\* all are.
THEOREM ImplementsScanJobThm == ProperRange /\ Spec => ImplementsScanJob
<1>1. Init => Job!JobInit
  BY DEF Init, MgrInit, Job!JobInit, Status, Job!instr_t, instr_t
<1>2. ASSUME ProperRange PROVE Spec => ImplementsScanJob
  <2>1. JobInv /\ [Next]_vars => [Job!JobNext]_<<Status, analysed, results, {}>>
    BY <1>2, JobStep
  <2>2. Spec => []JobInv
    BY <1>2, Invariant
  <2> QED
    BY <1>1, <2>1, <2>2, PTL DEF Spec, ImplementsScanJob, Job!JobSpec
<1> QED
  BY <1>2

=============================================================================
