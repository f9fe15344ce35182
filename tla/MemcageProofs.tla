---------------------------- MODULE MemcageProofs ----------------------------
(***************************************************************************)
(* Theorems about Memcage, for every number of units, every range, every   *)
(* blacklist and every behaviour of the processor.                         *)
(*                                                                         *)
(*  - Types, the inductive invariant IInv, part by part, and the safety    *)
(*    properties it implies.  These proofs assume no timing: SIGUSR2 may   *)
(*    reach a unit at any moment, OneSecondIsLong may be FALSE.            *)
(*  - What the scan does besides when one second is long enough for every  *)
(*    unit to count an instruction (OneSecondIsLong): SIGUSR2 reaches a    *)
(*    unit only where it is stuck, no unit that came up dies, every        *)
(*    instruction is analysed at most once, and the scan implements        *)
(*    ScanJob.                                                             *)
(***************************************************************************)
EXTENDS MemcageInvariant, ManagerPartition

-----------------------------------------------------------------------------
(* Types.  That the cause faultHandler records is one of Causes needs the  *)
(* agreement between the page and the struct, PageInv.                     *)

\* Types hold initially.
LEMMA TypingInit == Init => TypeOK /\ PageInv
<1> SUFFICES ASSUME Init PROVE TypeOK /\ PageInv
  OBVIOUS
<1>1. ManagerTypeOK
  <2>1. First + instrPerThread \in Nat /\ First \in Nat
    BY UnitsFacts, ManagerAssumption, FeederAssumption DEF instr_t
  <2>2. 0 \in 0 .. numThreads /\ 0 \in 0 .. SlowFactor - 1
    BY UnitsFacts, ManagerAssumption
  <2>3. logged \in [Units -> Int]
    BY DEF Init, MgrInit
  <2>4. /\ mgr = "fork" /\ idx = 0 /\ startInstruction = First
        /\ lastOfPart = First + instrPerThread
        /\ threadDataMap = {} /\ todo = {} /\ visiting = 0
        /\ allStopped = FALSE /\ performanceLogCount = 0
    BY DEF Init, MgrInit
  <2> QED
    BY <2>1, <2>2, <2>3, <2>4, UnitsFacts DEF ManagerTypeOK, ManagerPCs
<1>2. 0 \in instr_t
  BY FeederAssumption DEF instr_t
<1>3. StructTypeOK
  BY <1>2 DEF Init, MgrInit, StructTypeOK
<1>4. UnitTypeOK
  BY <1>2 DEF Init, MgrInit, UnitTypeOK, UnitPCs
<1>5. PageInv
  BY DEF Init, MgrInit, PageInv
<1> QED
  BY <1>1, <1>3, <1>4, <1>5 DEF TypeOK


\* The manager keeps the types.
LEMMA TypingManager == TypeOK /\ PageInv /\ ManagerStep => TypeOK' /\ PageInv'
<1> SUFFICES ASSUME TypeOK, PageInv, ManagerStep PROVE TypeOK' /\ PageInv'
  OBVIOUS
<1> USE DEF TypeOK
<1>1. CASE ChildDeath
  <2>1. ManagerTypeOK'
    BY <1>1 DEF ChildDeath, ManagerTypeOK, ctorVars, ManagerPCs, Exited
  <2>2. StructTypeOK' /\ UnitTypeOK' /\ PageInv'
    BY <1>1 DEF ChildDeath, StructTypeOK, UnitTypeOK, PageInv, structVars,
                unitVars
  <2> QED
    BY <2>1, <2>2
<1>2. CASE Fork /\ UNCHANGED unitVars
  <2>1. idx \in Units
    BY <1>2 DEF Fork, ManagerTypeOK
  <2>2. startInstruction % InstrMod \in instr_t /\ lastOfPart % InstrMod \in instr_t
    BY FeederAssumption DEF ManagerTypeOK, instr_t
  <2>3. ManagerTypeOK'
    BY <1>2, <2>1 DEF Fork, ManagerTypeOK, ctorVars, ManagerPCs
  <2>4. StructTypeOK'
    BY <1>2, <2>1, <2>2 DEF Fork, StructTypeOK, LocalScannerInit
  <2>5. UnitTypeOK'
    BY <1>2, <2>1 DEF Fork, UnitTypeOK, unitVars, UnitPCs
  <2>6. PageInv'
    BY <1>2, <2>1 DEF Fork, UnitTypeOK, StructTypeOK, PageInv, unitVars
  <2> QED
    BY <2>3, <2>4, <2>5, <2>6
<1>3. CASE CtorFails /\ UNCHANGED unitVars
  <2>1. ManagerTypeOK'
    BY <1>3 DEF CtorFails, ManagerTypeOK, ctorVars, ManagerPCs, Exited
  <2>2. StructTypeOK' /\ UnitTypeOK' /\ PageInv'
    BY <1>3 DEF CtorFails, StructTypeOK, UnitTypeOK, PageInv, structVars,
                unitVars
  <2> QED
    BY <2>1, <2>2
<1>4. CASE Insert /\ UNCHANGED unitVars
  <2>1. idx \in Units
    BY <1>4 DEF Insert, ManagerTypeOK
  <2>2. idx + 1 \in 0 .. numThreads /\ (idx + 1 < numThreads => idx + 1 \in Units)
    BY <2>1, UnitsFacts DEF Units
  <2>3. ManagerTypeOK'
    BY <1>4, <2>1, <2>2, UnitsFacts DEF Insert, ManagerTypeOK, ManagerPCs
  <2>4. StructTypeOK'
    BY <1>4, <2>1, ManagerAssumption DEF Insert, StructTypeOK
  <2>5. UnitTypeOK' /\ PageInv'
    BY <1>4 DEF Insert, UnitTypeOK, PageInv, unitVars
  <2> QED
    BY <2>3, <2>4, <2>5
<1>5. CASE runScanners /\ UNCHANGED unitVars
  <2>1. ManagerTypeOK'
    BY <1>5 DEF runScanners, ManagerTypeOK, ctorVars, ManagerPCs
  <2>2. StructTypeOK'
    BY <1>5 DEF runScanners, StructTypeOK, structVars
  <2>3. UnitTypeOK' /\ PageInv'
    BY <1>5 DEF runScanners, UnitTypeOK, PageInv, unitVars, structVars
  <2> QED
    BY <2>1, <2>2, <2>3
<1>6. CASE TimelyAlarm /\ UNCHANGED unitVars
  <2>1. performanceLogCount' \in 0 .. SlowFactor - 1
    BY <1>6, ManagerAssumption
    DEF TimelyAlarm, Alarm, NextLogCount, ManagerTypeOK
  <2>2. ManagerTypeOK'
    BY <1>6, <2>1
    DEF TimelyAlarm, Alarm, ManagerTypeOK, ctorVars, ManagerPCs
  <2>3. StructTypeOK' /\ UnitTypeOK' /\ PageInv'
    BY <1>6 DEF TimelyAlarm, Alarm, StructTypeOK, UnitTypeOK, PageInv,
                structVars, unitVars
  <2> QED
    BY <2>2, <2>3
<1>7. CASE PerfStore /\ UNCHANGED unitVars
  <2>1. ManagerTypeOK'
    BY <1>7 DEF PerfStore, ManagerTypeOK, ctorVars, ManagerPCs
  <2>2. StructTypeOK'
    BY <1>7 DEF PerfStore, StructTypeOK, ManagerTypeOK
  <2>3. UnitTypeOK' /\ PageInv'
    BY <1>7 DEF PerfStore, UnitTypeOK, PageInv, unitVars
  <2> QED
    BY <2>1, <2>2, <2>3
<1>8. CASE PerfDone /\ UNCHANGED unitVars
  <2>1. ManagerTypeOK'
    BY <1>8 DEF PerfDone, ManagerTypeOK, ctorVars, ManagerPCs
  <2>2. StructTypeOK' /\ UnitTypeOK' /\ PageInv'
    BY <1>8 DEF PerfDone, StructTypeOK, UnitTypeOK, PageInv, structVars,
                unitVars
  <2> QED
    BY <2>1, <2>2
<1>9. CASE CheckHang /\ UNCHANGED unitVars
  <2>1. ManagerTypeOK'
    BY <1>9 DEF CheckHang, ManagerTypeOK, ctorVars, ManagerPCs
  <2>2. StructTypeOK'
    BY <1>9 DEF CheckHang, StructTypeOK, ManagerTypeOK
  <2>3. UnitTypeOK' /\ PageInv'
    BY <1>9 DEF CheckHang, UnitTypeOK, ManagerTypeOK, PageInv, unitVars
  <2> QED
    BY <2>1, <2>2, <2>3
<1>10. CASE AlarmReturn /\ UNCHANGED unitVars
  <2>1. ManagerTypeOK'
    BY <1>10 DEF AlarmReturn, ManagerTypeOK, ctorVars, ManagerPCs, Exited
  <2>2. StructTypeOK' /\ UnitTypeOK' /\ PageInv'
    BY <1>10 DEF AlarmReturn, StructTypeOK, UnitTypeOK, PageInv, structVars,
                unitVars
  <2> QED
    BY <2>1, <2>2
<1>11. ASSUME NEW w \in Units, PerfRead(w), UNCHANGED unitVars
       PROVE  TypeOK' /\ PageInv'
  <2>1. ManagerTypeOK'
    BY <1>11 DEF PerfRead, ManagerTypeOK, StructTypeOK, ctorVars, ManagerPCs
  <2>2. StructTypeOK' /\ UnitTypeOK' /\ PageInv'
    BY <1>11 DEF PerfRead, StructTypeOK, UnitTypeOK, PageInv, structVars,
                 unitVars
  <2> QED
    BY <2>1, <2>2
<1>12. ASSUME NEW w \in Units, CheckStopped(w), UNCHANGED unitVars
       PROVE  TypeOK' /\ PageInv'
  <2>1. FinishedAfter(allStopped, w) \in BOOLEAN
    BY DEF FinishedAfter
  <2>2. ManagerTypeOK'
    BY <1>12, <2>1 DEF CheckStopped, ManagerTypeOK, ctorVars, ManagerPCs
  <2>3. StructTypeOK' /\ UnitTypeOK' /\ PageInv'
    BY <1>12 DEF CheckStopped, StructTypeOK, UnitTypeOK, PageInv, structVars,
                 unitVars
  <2> QED
    BY <2>2, <2>3
<1> QED
  BY <1>1, <1>2, <1>3, <1>4, <1>5, <1>6, <1>7, <1>8, <1>9, <1>10, <1>11, <1>12
  DEF ManagerStep


\* What fetchInstruction does to the types when it stores into
\* currentInstruction.
LEMMA FetchIntoCurrentType ==
  ASSUME StructTypeOK, UnitTypeOK, NEW w \in Units, NEW next \in UnitPCs,
         FetchIntoCurrent(w, next)
  PROVE  /\ currentInstruction' \in [Units -> instr_t]
         /\ numInstrExec' \in [Units -> Nat]
         /\ pc' \in [Units -> UnitPCs]
         /\ pc'[w] \in {next, "stop"}
         /\ \A v \in Units \ {w} : /\ pc'[v] = pc[v]
                                   /\ currentInstruction'[v] = currentInstruction[v]
                                   /\ numInstrExec'[v] = numInstrExec[v]
<1>1. PICK s \in 0 .. InstrMod - 1 :
        /\ numInstrExec' = [numInstrExec EXCEPT ![w] = @ + s]
        /\ \/ /\ currentInstruction' = [currentInstruction EXCEPT
                                          ![w] = Plus(currentInstruction[w], s + 1)]
              /\ pc' = [pc EXCEPT ![w] = next]
           \/ /\ pc' = [pc EXCEPT ![w] = "stop"]
              /\ UNCHANGED currentInstruction
  BY DEF FetchIntoCurrent
<1>2. Plus(currentInstruction[w], s + 1) \in instr_t
  <2>1. currentInstruction[w] \in Nat /\ s + 1 \in Nat
    BY FeederAssumption DEF StructTypeOK, instr_t
  <2> QED
    BY <2>1, PlusType
<1>3. s \in Nat
  BY FeederAssumption
<1>4. "stop" \in UnitPCs
  BY DEF UnitPCs
<1> QED
  BY <1>1, <1>2, <1>3, <1>4 DEF StructTypeOK, UnitTypeOK

\* The units keep the types.
LEMMA TypingUnit ==
  ASSUME TypeOK, PageInv, NEW w \in Units, UnitStep(w)
  PROVE  TypeOK' /\ PageInv'
<1> USE DEF TypeOK
<1>1. CASE InitScanner(w)
  <2>1. ManagerTypeOK'
    BY <1>1 DEF InitScanner, ManagerTypeOK, managerVars, ctorVars
  <2>2. StructTypeOK'
    BY <1>1 DEF InitScanner, StructTypeOK, managerVars
  <2>3. UnitTypeOK'
    BY <1>1 DEF InitScanner, UnitTypeOK, unitVars, UnitPCs, Signals
  <2>4. PageInv'
    BY <1>1 DEF InitScanner, UnitTypeOK, StructTypeOK, PageInv, unitVars
  <2> QED
    BY <2>1, <2>2, <2>3, <2>4
<1>2. CASE InitFails(w)
  <2>1. ManagerTypeOK'
    BY <1>2 DEF InitFails, ManagerTypeOK, managerVars, ctorVars
  <2>2. StructTypeOK'
    BY <1>2 DEF InitFails, StructTypeOK, managerVars
  <2>3. UnitTypeOK'
    BY <1>2 DEF InitFails, UnitTypeOK, unitVars, UnitPCs, Signals
  <2>4. PageInv'
    BY <1>2 DEF InitFails, UnitTypeOK, StructTypeOK, PageInv, unitVars
  <2> QED
    BY <2>1, <2>2, <2>3, <2>4
<1>3. CASE StartSignal(w)
  <2>1. ManagerTypeOK'
    BY <1>3 DEF StartSignal, ManagerTypeOK, managerVars, ctorVars
  <2>2. StructTypeOK'
    BY <1>3 DEF StartSignal, StructTypeOK, managerVars
  <2>3. UnitTypeOK'
    BY <1>3 DEF StartSignal, UnitTypeOK, unitVars, UnitPCs, Signals
  <2>4. PageInv'
    BY <1>3 DEF StartSignal, UnitTypeOK, StructTypeOK, PageInv, unitVars
  <2> QED
    BY <2>1, <2>2, <2>3, <2>4
<1>4. CASE EntryHandler(w)
  <2>1. ManagerTypeOK'
    BY <1>4 DEF EntryHandler, ManagerTypeOK, managerVars, ctorVars
  <2>2. /\ currentInstruction' \in [Units -> instr_t]
        /\ numInstrExec' \in [Units -> Nat]
        /\ pc' \in [Units -> UnitPCs]
        /\ pc'[w] \in {"entryWrite", "stop"}
        /\ \A v \in Units \ {w} : /\ pc'[v] = pc[v]
                                  /\ currentInstruction'[v] = currentInstruction[v]
    <3>1. "entryWrite" \in UnitPCs
      BY DEF UnitPCs
    <3>2. CASE search(currentInstruction[w])
      BY <1>4, <3>1, <3>2, FetchIntoCurrentType DEF EntryHandler
    <3>3. CASE ~ search(currentInstruction[w])
      BY <1>4, <3>1, <3>3 DEF EntryHandler, StructTypeOK, UnitTypeOK
    <3> QED
      BY <3>2, <3>3
  <2>3. StructTypeOK' /\ UnitTypeOK'
    BY <1>4, <2>2
    DEF EntryHandler, StructTypeOK, UnitTypeOK, managerVars, unitVars
  <2>4. PageInv'
    BY <1>4, <2>2 DEF EntryHandler, PageInv, unitVars
  <2> QED
    BY <2>1, <2>3, <2>4
<1>5. CASE EntryReturn(w)
  <2>1. ManagerTypeOK'
    BY <1>5 DEF EntryReturn, ManagerTypeOK, managerVars, ctorVars
  <2>2. StructTypeOK'
    BY <1>5 DEF EntryReturn, StructTypeOK, managerVars
  <2>3. UnitTypeOK'
    BY <1>5 DEF EntryReturn, UnitTypeOK, StructTypeOK, UnitPCs
  <2>4. PageInv'
    BY <1>5 DEF EntryReturn, UnitTypeOK, StructTypeOK, PageInv, unitVars
  <2> QED
    BY <2>1, <2>2, <2>3, <2>4
<1>6. CASE Execute(w)
  <2>1. ManagerTypeOK'
    BY <1>6 DEF Execute, ManagerTypeOK, managerVars, ctorVars
  <2>2. StructTypeOK'
    BY <1>6 DEF Execute, StructTypeOK, managerVars
  <2>3. UnitTypeOK'
    <3> DEFINE sig == SignalOf(Outcome[page[w]])
    <3>1. sig \in Signals
      BY DEF SignalOf, Signals
    <3>2. /\ pc' \in [Units -> UnitPCs]
          /\ mask' \in [Units -> SUBSET Signals]
          /\ saved' \in [Units -> SUBSET Signals]
      <4>1. CASE sig \in mask[w]
        BY <1>6, <4>1 DEF Execute, UnitTypeOK, UnitPCs
      <4>2. CASE sig \notin mask[w]
        <5>1. /\ pc' = [pc EXCEPT ![w] = "fault"]
              /\ saved' = [saved EXCEPT ![w] = mask[w]]
              /\ mask' = [mask EXCEPT ![w] = @ \cup {sig}]
          BY <1>6, <4>2 DEF Execute
        <5> HIDE DEF sig
        <5> QED
          BY <3>1, <5>1 DEF UnitTypeOK, UnitPCs
      <4> QED
        BY <4>1, <4>2
    <3> QED
      BY <1>6, <3>2 DEF Execute, UnitTypeOK
  <2>4. PageInv'
    BY <1>6 DEF Execute, UnitTypeOK, StructTypeOK, PageInv, unitVars
  <2> QED
    BY <2>1, <2>2, <2>3, <2>4
<1>7. CASE Analyse(w)
  <2>1. ManagerTypeOK' /\ StructTypeOK'
    BY <1>7 DEF Analyse, ManagerTypeOK, StructTypeOK, managerVars, ctorVars
  <2>2. currentInstruction[w] \in instr_t /\ page[w] = currentInstruction[w]
    BY <1>7 DEF Analyse, StructTypeOK, PageInv
  <2>3. Outcome[page[w]] \in Causes
    BY <1>7, <2>2, AnalyserAssumption
    DEF Analyse, PageInv, Outcomes, Causes
  <2>4. results' \subseteq Line
    BY <1>7, <2>2, <2>3, AnalysisType DEF Analyse, UnitTypeOK
  <2>5. UnitTypeOK'
    BY <1>7, <2>2, <2>4 DEF Analyse, UnitTypeOK, UnitPCs
  <2>6. PageInv'
    BY <1>7 DEF Analyse, UnitTypeOK, PageInv
  <2> QED
    BY <2>1, <2>5, <2>6
<1>8. CASE Fetch(w)
  <2>1. PICK s \in 0 .. InstrMod - 1 :
          /\ numInstrExec' = [numInstrExec EXCEPT ![w] = @ + s + 1]
          /\ \/ /\ nextInstruction' = [nextInstruction EXCEPT
                                   ![w] = Plus(currentInstruction[w], s + 1)]
                /\ pc' = [pc EXCEPT ![w] = "write"]
             \/ /\ pc' = [pc EXCEPT ![w] = "stop"]
                /\ UNCHANGED nextInstruction
    BY <1>8 DEF Fetch
  <2>2. s \in Nat /\ Plus(currentInstruction[w], s + 1) \in instr_t
    <3>1. s + 1 \in Nat /\ s \in Nat /\ currentInstruction[w] \in Nat
      BY FeederAssumption DEF StructTypeOK, instr_t
    <3> QED
      BY <3>1, PlusType
  <2>3. ManagerTypeOK'
    BY <1>8 DEF Fetch, ManagerTypeOK, managerVars, ctorVars
  <2>4. StructTypeOK'
    BY <1>8, <2>1, <2>2 DEF Fetch, StructTypeOK, managerVars
  <2>5. UnitTypeOK'
    BY <1>8, <2>1, <2>2 DEF Fetch, UnitTypeOK, UnitPCs
  <2>6. PageInv'
    BY <1>8, <2>1 DEF Fetch, UnitTypeOK, PageInv
  <2> QED
    BY <2>3, <2>4, <2>5, <2>6
<1>9. CASE WriteInstruction(w)
  <2>1. ManagerTypeOK'
    BY <1>9 DEF WriteInstruction, ManagerTypeOK, managerVars, ctorVars
  <2>2. StructTypeOK'
    BY <1>9 DEF WriteInstruction, StructTypeOK, managerVars
  <2>3. UnitTypeOK'
    BY <1>9 DEF WriteInstruction, UnitTypeOK, unitVars, UnitPCs, Signals
  <2>4. PageInv'
    BY <1>9 DEF WriteInstruction, UnitTypeOK, StructTypeOK, PageInv, unitVars
  <2> QED
    BY <2>1, <2>2, <2>3, <2>4
<1>10. CASE Commit(w)
  <2>1. ManagerTypeOK'
    BY <1>10 DEF Commit, ManagerTypeOK, managerVars, ctorVars
  <2>2. StructTypeOK'
    BY <1>10 DEF Commit, StructTypeOK, UnitTypeOK, managerVars
  <2>3. UnitTypeOK'
    BY <1>10 DEF Commit, UnitTypeOK, unitVars, UnitPCs, Signals
  <2>4. PageInv'
    BY <1>10 DEF Commit, UnitTypeOK, StructTypeOK, PageInv, unitVars
  <2> QED
    BY <2>1, <2>2, <2>3, <2>4
<1>11. CASE FaultReturn(w)
  <2>1. ManagerTypeOK'
    BY <1>11 DEF FaultReturn, ManagerTypeOK, managerVars, ctorVars
  <2>2. StructTypeOK'
    BY <1>11 DEF FaultReturn, StructTypeOK, managerVars
  <2>3. UnitTypeOK'
    BY <1>11 DEF FaultReturn, UnitTypeOK, unitVars, UnitPCs, Signals
  <2>4. PageInv'
    BY <1>11 DEF FaultReturn, UnitTypeOK, StructTypeOK, PageInv, unitVars
  <2> QED
    BY <2>1, <2>2, <2>3, <2>4
<1>12. CASE HangHandler(w)
  <2>1. ManagerTypeOK'
    BY <1>12 DEF HangHandler, ManagerTypeOK, managerVars, ctorVars
  <2>2. /\ currentInstruction' \in [Units -> instr_t]
        /\ numInstrExec' \in [Units -> Nat]
        /\ pc' \in [Units -> UnitPCs]
        /\ pc'[w] \in {"exec", "stop"}
        /\ \A v \in Units \ {w} : /\ pc'[v] = pc[v]
                                  /\ currentInstruction'[v] = currentInstruction[v]
    <3>1. "exec" \in UnitPCs
      BY DEF UnitPCs
    <3> QED
      BY <1>12, <3>1, FetchIntoCurrentType DEF HangHandler
  <2>3. StructTypeOK'
    BY <1>12, <2>2 DEF HangHandler, StructTypeOK, managerVars
  <2>4. results' \subseteq Line /\ hangs' \subseteq instr_t
    <3>1. currentInstruction[w] \in instr_t /\ "USER" \in Causes
      BY DEF StructTypeOK, Causes
    <3>2. basicAnalysis(currentInstruction[w], page[w], "USER") \subseteq Line
      BY <3>1, AnalysisType
    <3> QED
      BY <1>12, <3>1, <3>2 DEF HangHandler, UnitTypeOK
  <2>5. analysed' \in [instr_t -> Nat]
    BY <1>12 DEF HangHandler, UnitTypeOK, StructTypeOK
  <2>6. /\ page' \in [Units -> instr_t \cup {Filler}]
        /\ mask' \in [Units -> SUBSET Signals]
        /\ pending' \in [Units -> SUBSET {"USR1", "USR2"}]
        /\ pc'[w] = "exec" => page'[w] = currentInstruction'[w]
        /\ \A v \in Units \ {w} : page'[v] = page[v]
    <3>1. pending' \in [Units -> SUBSET {"USR1", "USR2"}]
      BY <1>12 DEF HangHandler, UnitTypeOK
    <3>2. CASE pc'[w] = "stop"
      BY <1>12, <2>2, <3>1, <3>2 DEF HangHandler, UnitTypeOK, Signals
    <3>3. CASE pc'[w] # "stop"
      <4>1. /\ page' = [page EXCEPT ![w] = currentInstruction'[w]]
            /\ mask' = mask
        BY <1>12, <3>3 DEF HangHandler
      <4> QED
        BY <2>2, <3>1, <4>1 DEF UnitTypeOK
    <3> QED
      BY <3>2, <3>3
  <2>7. UnitTypeOK'
    BY <1>12, <2>2, <2>4, <2>5, <2>6 DEF HangHandler, UnitTypeOK
  <2>8. PageInv'
    BY <1>12, <2>2, <2>6 DEF HangHandler, PageInv
  <2> QED
    BY <2>1, <2>3, <2>7, <2>8
<1>13. CASE StopWorker(w)
  <2>1. ManagerTypeOK'
    BY <1>13 DEF StopWorker, ManagerTypeOK, managerVars, ctorVars
  <2>2. StructTypeOK'
    BY <1>13 DEF StopWorker, StructTypeOK, managerVars
  <2>3. UnitTypeOK'
    BY <1>13 DEF StopWorker, UnitTypeOK, unitVars, UnitPCs, Signals
  <2>4. PageInv'
    BY <1>13 DEF StopWorker, UnitTypeOK, StructTypeOK, PageInv, unitVars
  <2> QED
    BY <2>1, <2>2, <2>3, <2>4
<1>14. CASE EndOfRun(w)
  <2>1. ManagerTypeOK'
    BY <1>14 DEF EndOfRun, ManagerTypeOK, managerVars, ctorVars
  <2>2. StructTypeOK'
    BY <1>14 DEF EndOfRun, StructTypeOK, managerVars
  <2>3. UnitTypeOK'
    BY <1>14 DEF EndOfRun, UnitTypeOK, unitVars, UnitPCs, Signals
  <2>4. PageInv'
    BY <1>14 DEF EndOfRun, UnitTypeOK, StructTypeOK, PageInv, unitVars
  <2> QED
    BY <2>1, <2>2, <2>3, <2>4
<1> QED
  BY <1>1, <1>2, <1>3, <1>4, <1>5, <1>6, <1>7, <1>8, <1>9, <1>10, <1>11, <1>12, <1>13, <1>14 DEF UnitStep

\* Types are kept by every step.
LEMMA TypingNext == TypeOK /\ PageInv /\ [Next]_vars => TypeOK' /\ PageInv'
<1> SUFFICES ASSUME TypeOK, PageInv, [Next]_vars PROVE TypeOK' /\ PageInv'
  OBVIOUS
<1>1. CASE UNCHANGED vars
  BY <1>1 DEF vars, TypeOK, ManagerTypeOK, StructTypeOK, UnitTypeOK, PageInv,
              ctorVars, structVars, unitVars
<1>2. CASE ManagerStep
  BY <1>2, TypingManager
<1>3. CASE \E w \in Units : UnitStep(w)
  BY <1>3, TypingUnit
<1> QED
  BY <1>1, <1>2, <1>3 DEF Next, Terminated

\* Every variable keeps its type, and the page a unit runs is the instruction
\* its struct names.
THEOREM Typing == Spec => [](TypeOK /\ PageInv)
<1>1. Init => TypeOK /\ PageInv
  BY TypingInit
<1>2. TypeOK /\ PageInv /\ [Next]_vars => (TypeOK /\ PageInv)'
  BY TypingNext
<1> QED
  BY <1>1, <1>2, PTL DEF Spec

\* Every variable keeps its type: no counter becomes negative, no struct
\* holds what is not an instruction, every line is well-formed.
THEOREM TypeCorrect == Spec => []TypeOK
BY Typing, PTL

-----------------------------------------------------------------------------
(* What a step leaves alone. *)

\* A unit writes nothing of the manager's and nothing of another unit's.
LEMMA UnitFrame ==
  ASSUME TypeOK, NEW w \in Units, UnitStep(w)
  PROVE  /\ UNCHANGED managerVars
         /\ \A v \in Units \ {w} :
              /\ pc'[v] = pc[v] /\ pending'[v] = pending[v]
              /\ currentInstruction'[v] = currentInstruction[v]
              /\ nextInstruction'[v] = nextInstruction[v]
              /\ numInstrExec'[v] = numInstrExec[v]
              /\ isStopped'[v] = isStopped[v]
         /\ isStopped'[w] = isStopped[w] \/ StopWorker(w)
<1> USE DEF TypeOK, StructTypeOK, UnitTypeOK
<1>1. CASE InitScanner(w)
  BY <1>1 DEF InitScanner
<1>2. CASE InitFails(w)
  BY <1>2 DEF InitFails, unitVars
<1>3. CASE StartSignal(w)
  BY <1>3 DEF StartSignal
<1>4. CASE EntryHandler(w)
  <2>1. CASE search(currentInstruction[w])
    <3>1. "entryWrite" \in UnitPCs /\ FetchIntoCurrent(w, "entryWrite")
      BY <1>4, <2>1 DEF EntryHandler, UnitPCs
    <3> QED
      BY <1>4, <3>1, FetchIntoCurrentType DEF EntryHandler, unitVars
  <2>2. CASE ~ search(currentInstruction[w])
    BY <1>4, <2>2 DEF EntryHandler, unitVars
  <2> QED
    BY <2>1, <2>2
<1>5. CASE EntryReturn(w)
  BY <1>5 DEF EntryReturn
<1>6. CASE Execute(w)
  <2>1. \A v \in Units \ {w} : pc'[v] = pc[v]
    BY <1>6 DEF Execute
  <2> QED
    BY <1>6, <2>1 DEF Execute
<1>7. CASE Analyse(w)
  BY <1>7 DEF Analyse
<1>8. CASE Fetch(w)
  BY <1>8 DEF Fetch
<1>9. CASE WriteInstruction(w)
  BY <1>9 DEF WriteInstruction
<1>10. CASE Commit(w)
  BY <1>10 DEF Commit, unitVars
<1>11. CASE FaultReturn(w)
  BY <1>11 DEF FaultReturn
<1>12. CASE HangHandler(w)
  <2>1. "exec" \in UnitPCs /\ FetchIntoCurrent(w, "exec")
    BY <1>12 DEF HangHandler, UnitPCs
  <2> QED
    BY <1>12, <2>1, FetchIntoCurrentType DEF HangHandler
<1>13. CASE StopWorker(w)
  BY <1>13 DEF StopWorker, unitVars
<1>14. CASE EndOfRun(w)
  BY <1>14 DEF EndOfRun
<1> QED
  BY <1>1, <1>2, <1>3, <1>4, <1>5, <1>6, <1>7, <1>8, <1>9, <1>10, <1>11,
     <1>12, <1>13, <1>14 DEF UnitStep

\* Except when it forks, the manager writes nothing that a unit writes, but
\* for the signals it sends.
LEMMA ManagerFrame ==
  ASSUME ManagerStep
  PROVE  /\ UNCHANGED unitVars
         /\ \/ Fork
            \/ UNCHANGED <<pc, currentInstruction, numInstrExec, isStopped>>
BY DEF ManagerStep, ChildDeath, Fork, CtorFails, Insert, runScanners,
       TimelyAlarm, Alarm, PerfStore, PerfDone, CheckHang, AlarmReturn,
       PerfRead, CheckStopped, structVars


-----------------------------------------------------------------------------
(* The constructor. *)

LEMMA CtorInit == Init => CtorInv
<1> SUFFICES ASSUME Init PROVE CtorInv
  OBVIOUS
<1>1. (0 + 1) * instrPerThread = instrPerThread
  BY UnitsFacts
<1> QED
  BY <1>1 DEF Init, MgrInit, CtorInv, UnitFirst, Exited

\* Insert is the only step that moves the constructor's locals on.
LEMMA CtorInsert ==
  ASSUME TypeOK, CtorInv, ProperRange, Insert
  PROVE  CtorInv'
<1> DEFINE q == instrPerThread
<1>1. /\ idx \in Units /\ idx \in Nat /\ q \in Nat /\ numThreads \in Nat \ {0}
      /\ First \in Nat
  BY UnitsFacts, ManagerAssumption, FeederAssumption
  DEF Insert, TypeOK, ManagerTypeOK, Units, instr_t
<1>2. lastOfPart = First + (idx + 1) * q
  BY DEF CtorInv
<1>3. ((idx + 1) + 1) * q = (idx + 1) * q + q /\ (idx + 1) * q \in Int
  BY <1>1, MulFacts
<1>4. threadDataMap' = 0 .. idx' - 1
  BY <1>1 DEF Insert, CtorInv
<1>5. startInstruction' = UnitFirst(idx')
  BY <1>1, <1>2 DEF Insert, UnitFirst
<1>6. lastOfPart' = First + (idx' + 1) * q
  <2>1. lastOfPart' = lastOfPart + q /\ idx' = idx + 1
    BY DEF Insert
  <2> HIDE DEF q
  <2> QED
    BY <1>1, <1>2, <1>3, <2>1
<1>7. ASSUME NEW w \in threadDataMap' PROVE finalInstruction'[w] = UnitLast(w)
  <2>1. CASE w = idx
    <3>1. CASE idx = numThreads - 1
      BY <1>1, <2>1, <3>1 DEF Insert, LastUnit, UnitLast, TypeOK, StructTypeOK
    <3>2. CASE idx # numThreads - 1
      <4>1. UnitLast(idx) = lastOfPart
        BY <1>2, <3>2 DEF UnitLast
      <4>2. lastOfPart % InstrMod = lastOfPart
        <5>1. lastOfPart \in 0 .. InstrMod - 1
          BY <1>1, <4>1, PartFacts DEF instr_t
        <5> QED
          BY <5>1, FeederAssumption
      <4> QED
        BY <2>1, <3>2, <4>1, <4>2 DEF Insert, LastUnit, CtorInv
    <3> QED
      BY <3>1, <3>2
  <2>2. CASE w # idx
    <3>1. w \in threadDataMap
      BY <1>1, <1>4, <2>2 DEF CtorInv, Insert
    <3> QED
      BY <1>1, <2>2, <3>1 DEF Insert, CtorInv, TypeOK, StructTypeOK
  <2> QED
    BY <2>1, <2>2
<1>8. /\ mgr' \in {"fork", "insert"} \cup Exited \/ idx' = numThreads
      /\ mgr' # "finished" /\ mgr' # "insert"
  BY <1>1 DEF Insert, Units
<1> QED
  BY <1>4, <1>5, <1>6, <1>7, <1>8 DEF CtorInv

\* The closed form of the partition is kept.
LEMMA CtorNext ==
  ASSUME TypeOK, CtorInv, ProperRange, [Next]_vars
  PROVE  CtorInv'
<1>1. CASE UNCHANGED managerVars
  BY <1>1 DEF managerVars, ctorVars, CtorInv, UnitFirst, UnitLast
<1>2. CASE Fork
  <2>1. idx \notin threadDataMap /\ idx \in Units
    BY <1>2 DEF Fork, CtorInv, TypeOK, ManagerTypeOK, Units
  <2>2. UNCHANGED ctorVars /\ mgr' = "insert"
        /\ finalInstruction' = [finalInstruction EXCEPT ![idx] = lastOfPart % InstrMod]
    BY <1>2 DEF Fork
  <2> QED
    BY <2>1, <2>2
    DEF CtorInv, ctorVars, TypeOK, StructTypeOK, UnitFirst, UnitLast
<1>3. CASE Insert
  BY <1>3, CtorInsert
<1>4. CASE ManagerStep /\ ~ Fork /\ ~ Insert
  <2>1. /\ UNCHANGED <<ctorVars, finalInstruction>>
        /\ mgr' # "insert"
        /\ mgr' = "fork" => FALSE
        /\ mgr' \in Exited \/ mgr \notin {"fork", "insert"} \cup Exited
        /\ mgr' = "finished" => mgr = "check"
    BY <1>4 DEF ManagerStep, ChildDeath, CtorFails, runScanners, TimelyAlarm,
       Alarm, PerfStore, PerfDone, CheckHang, AlarmReturn, PerfRead,
       CheckStopped, structVars, Exited
  <2> QED
    BY <2>1 DEF CtorInv, ctorVars, UnitFirst, UnitLast, Exited
<1>5. CASE \E w \in Units : UnitStep(w)
  BY <1>1, <1>5, UnitFrame
<1>6. CASE UNCHANGED vars
  BY <1>1, <1>6 DEF vars, managerVars, structVars
<1> QED
  BY <1>2, <1>3, <1>4, <1>5, <1>6 DEF Next, Terminated

-----------------------------------------------------------------------------
(* Start signals. *)

LEMMA StartInit == Init => StartInv
BY DEF Init, MgrInit, StartInv, Scanning

\* Only what the manager has inserted is ever signalled or logged.
LEMMA StartManager ==
  ASSUME TypeOK, StartInv, ManagerStep
  PROVE  StartInv'
<1> USE DEF StartInv, TypeOK, ManagerTypeOK, StructTypeOK, UnitTypeOK
<1>1. CASE ChildDeath
  BY <1>1 DEF ChildDeath, ctorVars
<1>2. CASE Fork
  BY <1>2 DEF Fork, ctorVars, Scanning
<1>3. CASE CtorFails
  BY <1>3 DEF CtorFails, ctorVars
<1>4. CASE Insert
  BY <1>4 DEF Insert
<1>5. CASE runScanners
  BY <1>5 DEF runScanners, ctorVars
<1>6. CASE TimelyAlarm
  BY <1>6 DEF TimelyAlarm, Alarm, ctorVars
<1>7. CASE PerfStore
  BY <1>7 DEF PerfStore, ctorVars
<1>8. CASE PerfDone
  BY <1>8 DEF PerfDone, ctorVars
<1>9. CASE CheckHang
  BY <1>9 DEF CheckHang, ctorVars
<1>10. CASE AlarmReturn
  BY <1>10 DEF AlarmReturn, ctorVars
<1>11. CASE \E w \in Units : PerfRead(w)
  BY <1>11 DEF PerfRead, ctorVars
<1>12. CASE \E w \in Units : CheckStopped(w)
  BY <1>12 DEF CheckStopped, ctorVars
<1> QED
  BY <1>1, <1>2, <1>3, <1>4, <1>5, <1>6, <1>7, <1>8, <1>9, <1>10, <1>11, <1>12
  DEF ManagerStep

\* A unit begins to scan on a signal only.
LEMMA StartUnit ==
  ASSUME TypeOK, StartInv, NEW w \in Units, UnitStep(w)
  PROVE  StartInv'
<1>1. /\ UNCHANGED managerVars
      /\ \A v \in Units \ {w} : pc'[v] = pc[v] /\ pending'[v] = pending[v]
  BY UnitFrame
<1>2. /\ pending'[w] # {} => pending[w] # {}
      /\ pc'[w] \in Scanning => pc[w] \in Scanning \/ pending[w] # {}
  <2> USE DEF TypeOK, UnitTypeOK, StructTypeOK, Scanning, UnitPCs
  <2>1. CASE InitScanner(w) \/ InitFails(w)
    BY <2>1 DEF InitScanner, InitFails
  <2>2. CASE StartSignal(w) \/ HangHandler(w)
    BY <2>2 DEF StartSignal, HangHandler
  <2>3. CASE \/ EntryHandler(w) \/ EntryReturn(w) \/ Execute(w) \/ Analyse(w)
             \/ Fetch(w) \/ WriteInstruction(w) \/ Commit(w) \/ FaultReturn(w)
             \/ StopWorker(w) \/ EndOfRun(w)
    BY <2>3 DEF EntryHandler, EntryReturn, Execute, Analyse, Fetch,
       WriteInstruction, Commit, FaultReturn, StopWorker, EndOfRun
  <2> QED
    BY <2>1, <2>2, <2>3 DEF UnitStep
<1>3. ASSUME NEW v \in Units
      PROVE  pc'[v] \in Scanning \/ pending'[v] # {} => v \in threadDataMap
  BY <1>1, <1>2 DEF StartInv
<1> QED
  BY <1>1, <1>3 DEF StartInv, managerVars, ctorVars

LEMMA StartNext ==
  ASSUME TypeOK, StartInv, [Next]_vars
  PROVE  StartInv'
<1>1. CASE UNCHANGED vars
  BY <1>1 DEF vars, ctorVars, StartInv
<1> QED
  BY <1>1, StartManager, StartUnit DEF Next, Terminated


-----------------------------------------------------------------------------
(* Where the units are in their parts. *)

Frame == TypeOK /\ PageInv /\ CtorInv /\ StartInv

\* What a scanning unit's fetch does, in terms of its part: it either moves
\* to a later instruction or finds the rest of the part blacklisted.
LEMMA FetchInPart ==
  ASSUME Frame, RangeInv, ProperRange, NEW w \in Units, w \in threadDataMap,
         pc[w] # "none", NEW s \in 0 .. InstrMod - 1
  PROVE  /\ FetchYields(currentInstruction[w], finalInstruction[w], s) =>
              /\ Plus(currentInstruction[w], s + 1)
                   \in currentInstruction[w] + 1 .. UnitLast(w)
              /\ Plus(currentInstruction[w], s + 1) \notin Blacklist
              /\ currentInstruction[w] + 1 ..
                   Plus(currentInstruction[w], s + 1) - 1 \subseteq Blacklist
         /\ FetchFinishes(currentInstruction[w], finalInstruction[w], s) =>
              currentInstruction[w] + 1 .. UnitLast(w) \subseteq Blacklist
<1>1. finalInstruction[w] = UnitLast(w)
  BY DEF Frame, CtorInv
<1>2. /\ currentInstruction[w] \in instr_t /\ UnitLast(w) \in instr_t
      /\ currentInstruction[w] <= UnitLast(w)
  BY PartFacts DEF Frame, TypeOK, StructTypeOK, RangeInv
<1> QED
  BY <1>1, <1>2, YieldsFacts, FinishesFacts

\* FetchIntoCurrent for a scanning unit.
LEMMA FetchIntoInPart ==
  ASSUME Frame, RangeInv, ProperRange, NEW w \in Units, w \in threadDataMap,
         pc[w] # "none", NEW next \in UnitPCs, FetchIntoCurrent(w, next)
  PROVE  \/ /\ pc'[w] = next
            /\ currentInstruction'[w] \in currentInstruction[w] + 1 .. UnitLast(w)
            /\ currentInstruction'[w] \notin Blacklist
            /\ currentInstruction[w] + 1 .. currentInstruction'[w] - 1
                 \subseteq Blacklist
         \/ /\ pc'[w] = "stop"
            /\ currentInstruction'[w] = currentInstruction[w]
            /\ currentInstruction[w] + 1 .. UnitLast(w) \subseteq Blacklist
<1>1. pc'[w] \in {next, "stop"}
  BY FetchIntoCurrentType DEF Frame, TypeOK
<1>2. PICK s \in 0 .. InstrMod - 1 :
        \/ /\ FetchYields(currentInstruction[w], finalInstruction[w], s)
           /\ currentInstruction' = [currentInstruction EXCEPT
                                       ![w] = Plus(currentInstruction[w], s + 1)]
           /\ pc' = [pc EXCEPT ![w] = next]
        \/ /\ FetchFinishes(currentInstruction[w], finalInstruction[w], s)
           /\ pc' = [pc EXCEPT ![w] = "stop"]
           /\ UNCHANGED currentInstruction
  BY DEF FetchIntoCurrent
<1>3. pc \in [Units -> UnitPCs] /\ currentInstruction \in [Units -> instr_t]
  BY DEF Frame, TypeOK, StructTypeOK, UnitTypeOK
<1> QED
  BY <1>2, <1>3, FetchInPart

\* fetchInstruction in faultHandler, for a scanning unit.
LEMMA FetchNextInPart ==
  ASSUME Frame, RangeInv, ProperRange, NEW w \in Units, Fetch(w)
  PROVE  /\ currentInstruction'[w] = currentInstruction[w]
         /\ \/ /\ pc'[w] = "write"
               /\ nextInstruction'[w] \in currentInstruction[w] + 1 .. UnitLast(w)
               /\ nextInstruction'[w] \notin Blacklist
               /\ currentInstruction[w] + 1 .. nextInstruction'[w] - 1
                    \subseteq Blacklist
            \/ /\ pc'[w] = "stop"
               /\ currentInstruction[w] + 1 .. UnitLast(w) \subseteq Blacklist
<1>1. PICK s \in 0 .. InstrMod - 1 :
        \/ /\ FetchYields(currentInstruction[w], finalInstruction[w], s)
           /\ nextInstruction' = [nextInstruction EXCEPT
                                    ![w] = Plus(currentInstruction[w], s + 1)]
           /\ pc' = [pc EXCEPT ![w] = "write"]
        \/ /\ FetchFinishes(currentInstruction[w], finalInstruction[w], s)
           /\ pc' = [pc EXCEPT ![w] = "stop"]
           /\ UNCHANGED nextInstruction
  BY DEF Fetch
<1>2. /\ pc \in [Units -> UnitPCs] /\ nextInstruction \in [Units -> instr_t]
      /\ pc[w] = "fetch" /\ UNCHANGED currentInstruction
  BY DEF Frame, TypeOK, UnitTypeOK, Fetch
<1>3. w \in threadDataMap
  BY <1>2 DEF Frame, StartInv, Scanning, UnitPCs
<1> QED
  BY <1>1, <1>2, <1>3, FetchInPart

LEMMA RangeInit == Init => RangeInv
BY DEF Init, MgrInit, RangeInv

\* RangeInv for one unit
InRange(w) ==
  pc[w] # "none" =>
    /\ currentInstruction[w] \in UnitFirst(w) .. UnitLast(w)
    /\ pc[w] \in {"write", "commit"} =>
         /\ nextInstruction[w] \in currentInstruction[w] + 1 .. UnitLast(w)
         /\ currentInstruction[w] + 1 .. nextInstruction[w] - 1 \subseteq Blacklist
    /\ pc[w] \in Halted =>
         currentInstruction[w] + 1 .. UnitLast(w) \subseteq Blacklist

\* A unit stays inside its part.
LEMMA RangeUnit ==
  ASSUME Frame, RangeInv, ProperRange, NEW w \in Units, UnitStep(w)
  PROVE  RangeInv'
<1> DEFINE c == currentInstruction[w]
<1>1. ASSUME NEW v \in Units \ {w} PROVE InRange(v)'
  BY UnitFrame DEF InRange, RangeInv, Frame, UnitFirst, UnitLast
<1>2. InRange(w)
  BY DEF RangeInv, InRange
<1>3. UnitFirst(w) \in Int /\ UnitLast(w) \in Int /\ UnitFirst(w) <= UnitLast(w)
  BY PartFacts, FeederAssumption DEF instr_t
<1>4. c \in Int
  BY FeederAssumption DEF Frame, TypeOK, StructTypeOK, instr_t
<1>5. pc \in [Units -> UnitPCs]
      /\ currentInstruction \in [Units -> instr_t]
      /\ nextInstruction \in [Units -> instr_t]
  BY DEF Frame, TypeOK, StructTypeOK, UnitTypeOK
<1>6. InRange(w)'
  <2> USE DEF InRange
  <2>1. CASE \/ InitScanner(w) \/ InitFails(w) \/ StartSignal(w)
             \/ EntryReturn(w) \/ Execute(w) \/ Analyse(w)
             \/ FaultReturn(w)
    <3>1. pc[w] # "none" /\ pc'[w] \notin {"write", "commit"} \cup Halted
      BY <2>1, <1>5
      DEF InitScanner, InitFails, StartSignal, EntryReturn, Execute, Analyse,
          FaultReturn, Halted
    <3>2. UNCHANGED <<currentInstruction, nextInstruction>>
      BY <2>1
      DEF InitScanner, InitFails, StartSignal, EntryReturn, Execute, Analyse,
          FaultReturn, unitVars
    <3> QED
      BY <1>2, <3>1, <3>2 DEF UnitFirst, UnitLast
  <2>2. CASE EntryHandler(w)
    <3>1. w \in threadDataMap /\ pc[w] = "entry"
      BY <2>2 DEF EntryHandler, Frame, StartInv, Scanning, UnitPCs
    <3>2. CASE search(c)
      <4>1. FetchIntoCurrent(w, "entryWrite") /\ "entryWrite" \in UnitPCs
        BY <2>2, <3>2 DEF EntryHandler, UnitPCs
      <4> QED
        BY <1>2, <1>3, <1>4, <3>1, <4>1, FetchIntoInPart
        DEF Halted, UnitFirst, UnitLast
    <3>3. CASE ~ search(c)
      BY <1>2, <1>5, <2>2, <3>1, <3>3
      DEF EntryHandler, Halted, UnitFirst, UnitLast
    <3> QED
      BY <3>2, <3>3
  <2>3. CASE HangHandler(w)
    <3>1. w \in threadDataMap /\ pc[w] # "none"
      BY <2>3 DEF HangHandler, Frame, StartInv
    <3>2. FetchIntoCurrent(w, "exec") /\ "exec" \in UnitPCs
      BY <2>3 DEF HangHandler, UnitPCs
    <3> QED
      BY <1>2, <1>3, <1>4, <3>1, <3>2, FetchIntoInPart
      DEF Halted, UnitFirst, UnitLast
  <2>4. CASE Fetch(w)
    <3>1. pc[w] = "fetch"
      BY <2>4 DEF Fetch
    <3> QED
      BY <1>2, <1>3, <1>4, <2>4, <3>1, FetchNextInPart
      DEF Halted, UnitFirst, UnitLast
  <2>5. CASE WriteInstruction(w)
    BY <1>2, <1>5, <2>5 DEF WriteInstruction, Halted, UnitFirst, UnitLast
  <2>6. CASE Commit(w)
    <3>1. /\ pc[w] = "commit" /\ pc'[w] = "return"
          /\ currentInstruction'[w] = nextInstruction[w]
      BY <1>5, <2>6 DEF Commit
    <3>2. nextInstruction[w] \in UnitFirst(w) .. UnitLast(w)
      BY <1>2, <1>3, <1>4, <3>1
    <3> QED
      BY <3>1, <3>2 DEF Halted, UnitFirst, UnitLast
  <2>7. CASE StopWorker(w) \/ EndOfRun(w)
    <3>1. pc[w] \in Halted /\ pc'[w] \in Halted /\ UNCHANGED currentInstruction
      BY <1>5, <2>7 DEF StopWorker, EndOfRun, Halted
    <3> QED
      BY <1>2, <3>1 DEF Halted, UnitFirst, UnitLast
  <2> QED
    BY <2>1, <2>2, <2>3, <2>4, <2>5, <2>6, <2>7 DEF UnitStep
<1> QED
  BY <1>1, <1>6 DEF InRange, RangeInv

\* The constructor starts every unit at the beginning of its part.
LEMMA RangeManager ==
  ASSUME Frame, RangeInv, ProperRange, ManagerStep
  PROVE  RangeInv'
<1>1. CASE UNCHANGED <<pc, currentInstruction, numInstrExec, isStopped>>
  BY <1>1, ManagerFrame DEF RangeInv, unitVars, UnitFirst, UnitLast
<1>2. CASE Fork
  <2>1. idx \in Units /\ startInstruction = UnitFirst(idx)
    BY <1>2 DEF Fork, Frame, TypeOK, ManagerTypeOK, CtorInv
  <2>2. /\ UnitFirst(idx) \in instr_t
        /\ UnitFirst(idx) \in UnitFirst(idx) .. UnitLast(idx)
    BY <2>1, PartFacts, FeederAssumption DEF instr_t
  <2>3. startInstruction % InstrMod = UnitFirst(idx)
    BY <2>1, <2>2, FeederAssumption DEF instr_t
  <2>4. /\ pc' = [pc EXCEPT ![idx] = "init"]
        /\ currentInstruction' = [currentInstruction EXCEPT ![idx] = UnitFirst(idx)]
        /\ UNCHANGED nextInstruction
    BY <1>2, <2>3, ManagerFrame DEF Fork, unitVars
  <2>5. pc \in [Units -> UnitPCs] /\ currentInstruction \in [Units -> instr_t]
    BY DEF Frame, TypeOK, StructTypeOK, UnitTypeOK
  <2>6. ASSUME NEW v \in Units PROVE InRange(v)'
    <3>1. CASE v = idx
      BY <2>1, <2>2, <2>4, <2>5, <3>1 DEF InRange, Halted, UnitFirst, UnitLast
    <3>2. CASE v # idx
      BY <2>4, <2>5, <3>2 DEF InRange, RangeInv, UnitFirst, UnitLast
    <3> QED
      BY <3>1, <3>2
  <2> QED
    BY <2>6 DEF InRange, RangeInv
<1> QED
  BY <1>1, <1>2, ManagerFrame

LEMMA RangeNext ==
  ASSUME Frame, RangeInv, ProperRange, [Next]_vars
  PROVE  RangeInv'
<1>1. CASE UNCHANGED vars
  BY <1>1 DEF vars, structVars, unitVars, RangeInv, UnitFirst, UnitLast
<1> QED
  BY <1>1, RangeManager, RangeUnit DEF Next, Terminated


-----------------------------------------------------------------------------
(* What is run is not blacklisted. *)

LEMMA CleanInit == Init => CleanInv
BY DEF Init, MgrInit, CleanInv

\* CleanInv for one unit
Clean(w) ==
  /\ pc[w] \in {"entryWrite", "exec", "fault", "return"}
       => currentInstruction[w] \notin Blacklist
  /\ pc[w] \in {"write", "commit"} => nextInstruction[w] \notin Blacklist

LEMMA CleanUnit ==
  ASSUME Frame, RangeInv, CleanInv, ProperRange, NEW w \in Units, UnitStep(w)
  PROVE  CleanInv'
<1>1. ASSUME NEW v \in Units \ {w} PROVE Clean(v)'
  BY UnitFrame DEF Clean, CleanInv, Frame
<1>2. Clean(w)
  BY DEF CleanInv, Clean
<1>3. pc \in [Units -> UnitPCs]
      /\ currentInstruction \in [Units -> instr_t]
      /\ nextInstruction \in [Units -> instr_t]
  BY DEF Frame, TypeOK, StructTypeOK, UnitTypeOK
<1>4. Clean(w)'
  <2> USE DEF Clean
  <2>1. CASE \/ InitScanner(w) \/ InitFails(w) \/ StartSignal(w)
             \/ Analyse(w) \/ StopWorker(w) \/ EndOfRun(w)
    BY <2>1, <1>3
    DEF InitScanner, InitFails, StartSignal, Analyse, StopWorker, EndOfRun
  <2>2. CASE EntryHandler(w)
    <3>1. w \in threadDataMap /\ pc[w] = "entry"
      BY <2>2 DEF EntryHandler, Frame, StartInv, Scanning, UnitPCs
    <3>2. CASE search(currentInstruction[w])
      <4>1. FetchIntoCurrent(w, "entryWrite") /\ "entryWrite" \in UnitPCs
        BY <2>2, <3>2 DEF EntryHandler, UnitPCs
      <4> QED
        BY <3>1, <4>1, FetchIntoInPart
    <3>3. CASE ~ search(currentInstruction[w])
      BY <1>3, <2>2, <3>1, <3>3 DEF EntryHandler, search
    <3> QED
      BY <3>2, <3>3
  <2>3. CASE HangHandler(w)
    <3>1. w \in threadDataMap /\ pc[w] # "none"
      BY <2>3 DEF HangHandler, Frame, StartInv
    <3>2. FetchIntoCurrent(w, "exec") /\ "exec" \in UnitPCs
      BY <2>3 DEF HangHandler, UnitPCs
    <3> QED
      BY <3>1, <3>2, FetchIntoInPart
  <2>4. CASE Fetch(w)
    BY <2>4, FetchNextInPart
  <2>5. CASE EntryReturn(w) \/ WriteInstruction(w) \/ FaultReturn(w)
    BY <1>2, <1>3, <2>5 DEF EntryReturn, WriteInstruction, FaultReturn
  <2>6. CASE Commit(w)
    BY <1>2, <1>3, <2>6 DEF Commit
  <2>7. CASE Execute(w)
    <3>1. /\ pc[w] = "exec" /\ pc'[w] \in {"dead", "fault"}
          /\ UNCHANGED currentInstruction
      BY <1>3, <2>7 DEF Execute
    <3> QED
      BY <1>2, <3>1
  <2> QED
    BY <2>1, <2>2, <2>3, <2>4, <2>5, <2>6, <2>7 DEF UnitStep
<1> QED
  BY <1>1, <1>4 DEF Clean, CleanInv

LEMMA CleanNext ==
  ASSUME Frame, RangeInv, CleanInv, ProperRange, [Next]_vars
  PROVE  CleanInv'
<1>1. CASE UNCHANGED vars
  BY <1>1 DEF vars, structVars, unitVars, CleanInv
<1>2. CASE Fork
  <2>1. /\ pc' = [pc EXCEPT ![idx] = "init"]
        /\ UNCHANGED nextInstruction
        /\ \E k : currentInstruction' = [currentInstruction EXCEPT ![idx] = k]
        /\ idx \in Units
    <3>1. UNCHANGED nextInstruction
      BY <1>2, ManagerFrame, UnitFrame DEF Next, Fork, vars, unitVars,
         Terminated, ManagerStep, Frame, ChildDeath, managerVars, Exited
    <3> QED
      BY <1>2, <3>1 DEF Fork, Frame, TypeOK, ManagerTypeOK
  <2>2. pc \in [Units -> UnitPCs] /\ currentInstruction \in [Units -> instr_t]
    BY DEF Frame, TypeOK, StructTypeOK, UnitTypeOK
  <2> QED
    BY <2>1, <2>2 DEF CleanInv
<1>3. CASE ManagerStep /\ ~ Fork
  BY <1>3, ManagerFrame DEF CleanInv, unitVars
<1> QED
  BY <1>1, <1>2, <1>3, CleanUnit DEF Next, Terminated

-----------------------------------------------------------------------------
(* What has been passed is done. *)

LEMMA CoverInit == Init => CoverInv
BY DEF Init, MgrInit, CoverInv

\* What is done stays done.
LEMMA DoneStays ==
  ASSUME TypeOK, NEW w \in Units, UnitStep(w), NEW k \in instr_t, Done(k)
  PROVE  Done(k)'
<1>1. analysed \in [instr_t -> Nat]
  BY DEF TypeOK, UnitTypeOK
<1>2. \/ UNCHANGED analysed
      \/ \E i \in instr_t : analysed' = [analysed EXCEPT ![i] = @ + 1]
  BY DEF UnitStep, InitScanner, InitFails, StartSignal, EntryHandler,
     EntryReturn, Execute, Analyse, Fetch, WriteInstruction, Commit,
     FaultReturn, HangHandler, StopWorker, EndOfRun, unitVars, TypeOK,
     StructTypeOK
<1> QED
  BY <1>1, <1>2 DEF Done

\* CoverInv for one unit
Covered(w) ==
  pc[w] # "none" =>
    /\ \A k \in UnitFirst(w) .. currentInstruction[w] - 1 : Done(k)
    /\ pc[w] \in {"fetch", "write", "commit"} \cup Halted
         => Done(currentInstruction[w])

\* All steps of one unit: what it passes is blacklisted or was analysed.
LEMMA CoverUnit ==
  ASSUME Frame, RangeInv, CoverInv, ProperRange, NEW w \in Units, UnitStep(w)
  PROVE  CoverInv'
<1> DEFINE c == currentInstruction[w]
           \* for the old value of c, of which Done(c)' does not speak
           DoneAfter(k) == k \in Blacklist \/ analysed'[k] > 0
<1>1. \A v \in Units : /\ UnitFirst(v) \in Nat /\ UnitLast(v) \in Nat
                       /\ UnitLast(v) \in instr_t
  BY PartFacts, FeederAssumption DEF instr_t
<1>2. \A v \in Units : currentInstruction[v] \in instr_t
  BY DEF Frame, TypeOK, StructTypeOK
<1>3. \A v \in Units :
        \A k \in UnitFirst(v) .. currentInstruction[v] - 1 : k \in instr_t
  BY <1>1, <1>2, FeederAssumption DEF instr_t
<1>4. \A k \in instr_t : Done(k) => Done(k)'
  BY DoneStays DEF Frame
<1>5. ASSUME NEW v \in Units \ {w} PROVE Covered(v)'
  <2>1. /\ pc'[v] = pc[v] /\ currentInstruction'[v] = currentInstruction[v]
        /\ UnitFirst(v)' = UnitFirst(v)
    BY UnitFrame DEF Frame, UnitFirst
  <2>2. Covered(v)
    BY DEF CoverInv, Covered
  <2> QED
    BY <1>2, <1>3, <1>4, <2>1, <2>2 DEF Covered
<1>6. Covered(w)
  BY DEF CoverInv, Covered
<1>7. pc \in [Units -> UnitPCs]
      /\ currentInstruction \in [Units -> instr_t]
      /\ nextInstruction \in [Units -> instr_t]
      /\ analysed \in [instr_t -> Nat]
  BY DEF Frame, TypeOK, StructTypeOK, UnitTypeOK
<1>8. c \in Nat /\ nextInstruction[w] \in Nat
  BY <1>7 DEF instr_t
<1>9. UnitFirst(w)' = UnitFirst(w)
  BY DEF UnitFirst
<1>10. Covered(w)'
  <2>1. CASE \/ InitScanner(w) \/ InitFails(w) \/ StartSignal(w)
             \/ EntryReturn(w) \/ Execute(w) \/ FaultReturn(w)
    <3>1. /\ pc[w] # "none" /\ UNCHANGED currentInstruction
          /\ pc'[w] \notin {"fetch", "write", "commit"} \cup Halted
      BY <2>1, <1>7
      DEF InitScanner, InitFails, StartSignal, EntryReturn, Execute,
          FaultReturn, unitVars, Halted
    <3> QED
      BY <1>2, <1>3, <1>4, <1>6, <1>9, <3>1 DEF Covered
  <2>2. CASE EntryHandler(w)
    <3>1. w \in threadDataMap /\ pc[w] = "entry"
      BY <2>2 DEF EntryHandler, Frame, StartInv, Scanning, UnitPCs
    <3>2. CASE search(c)
      <4>1. FetchIntoCurrent(w, "entryWrite") /\ "entryWrite" \in UnitPCs
        BY <2>2, <3>2 DEF EntryHandler, UnitPCs
      <4>2. DoneAfter(c)
        BY <3>2 DEF search
      <4>3. CASE /\ pc'[w] = "entryWrite"
                 /\ currentInstruction'[w] \in c + 1 .. UnitLast(w)
                 /\ c + 1 .. currentInstruction'[w] - 1 \subseteq Blacklist
        <5>1. ASSUME NEW k \in UnitFirst(w) .. currentInstruction'[w] - 1
              PROVE  Done(k)'
          <6>1. k \in UnitFirst(w) .. c - 1 \/ k = c
                \/ k \in c + 1 .. currentInstruction'[w] - 1
            BY <1>1, <1>8, <4>3
          <6> QED
            BY <1>3, <1>4, <1>6, <3>1, <4>2, <4>3, <6>1 DEF Covered, Done
        <5> QED
          BY <1>9, <4>3, <5>1 DEF Covered, Halted
      <4>4. CASE pc'[w] = "stop" /\ currentInstruction'[w] = c
        BY <1>3, <1>4, <1>6, <1>9, <3>1, <4>2, <4>4 DEF Covered, Done
      <4> QED
        BY <3>1, <4>1, <4>3, <4>4, FetchIntoInPart
    <3>3. CASE ~ search(c)
      BY <1>3, <1>4, <1>6, <1>7, <1>9, <2>2, <3>1, <3>3
      DEF EntryHandler, Covered, Halted
    <3> QED
      BY <3>2, <3>3
  <2>3. CASE HangHandler(w)
    <3>1. w \in threadDataMap /\ pc[w] # "none"
      BY <2>3 DEF HangHandler, Frame, StartInv
    <3>2. FetchIntoCurrent(w, "exec") /\ "exec" \in UnitPCs
      BY <2>3 DEF HangHandler, UnitPCs
    <3>3. DoneAfter(c)
      BY <1>7, <2>3 DEF HangHandler
    <3>4. CASE /\ pc'[w] = "exec"
               /\ currentInstruction'[w] \in c + 1 .. UnitLast(w)
               /\ c + 1 .. currentInstruction'[w] - 1 \subseteq Blacklist
      <4>1. ASSUME NEW k \in UnitFirst(w) .. currentInstruction'[w] - 1
            PROVE  Done(k)'
        <5>1. k \in UnitFirst(w) .. c - 1 \/ k = c
              \/ k \in c + 1 .. currentInstruction'[w] - 1
          BY <1>1, <1>8, <3>4
        <5> QED
          BY <1>3, <1>4, <1>6, <3>1, <3>3, <3>4, <5>1 DEF Covered, Done
      <4> QED
        BY <1>9, <3>4, <4>1 DEF Covered, Halted
    <3>5. CASE pc'[w] = "stop" /\ currentInstruction'[w] = c
      BY <1>3, <1>4, <1>6, <1>9, <3>1, <3>3, <3>5 DEF Covered, Done
    <3> QED
      BY <3>1, <3>2, <3>4, <3>5, FetchIntoInPart
  <2>4. CASE Analyse(w)
    <3>1. Done(c)'
      BY <1>7, <2>4 DEF Analyse, Done
    <3>2. pc[w] = "fault" /\ UNCHANGED currentInstruction
      BY <2>4 DEF Analyse
    <3> QED
      BY <1>3, <1>4, <1>6, <1>9, <3>1, <3>2 DEF Covered
  <2>5. CASE Fetch(w) \/ WriteInstruction(w)
    <3>1. pc[w] \in {"fetch", "write"} /\ UNCHANGED currentInstruction
      BY <2>5 DEF Fetch, WriteInstruction
    <3>2. Done(c)'
      BY <1>4, <1>6, <1>7, <3>1 DEF Covered
    <3> QED
      BY <1>3, <1>4, <1>6, <1>9, <3>1, <3>2 DEF Covered
  <2>6. CASE Commit(w)
    <3>1. /\ pc[w] = "commit" /\ pc'[w] = "return"
          /\ currentInstruction'[w] = nextInstruction[w]
      BY <1>7, <2>6 DEF Commit
    <3>2. /\ nextInstruction[w] \in c + 1 .. UnitLast(w)
          /\ c + 1 .. nextInstruction[w] - 1 \subseteq Blacklist
      BY <3>1 DEF RangeInv
    <3>3. DoneAfter(c)
      BY <1>4, <1>6, <1>7, <3>1 DEF Covered, Done
    <3>4. ASSUME NEW k \in UnitFirst(w) .. nextInstruction[w] - 1
          PROVE  Done(k)'
      <4>1. k \in UnitFirst(w) .. c - 1 \/ k = c
            \/ k \in c + 1 .. nextInstruction[w] - 1
        BY <1>1, <1>8, <3>2
      <4> QED
        BY <1>3, <1>4, <1>6, <3>1, <3>2, <3>3, <4>1 DEF Covered, Done
    <3> QED
      BY <1>9, <3>1, <3>4 DEF Covered, Halted
  <2>7. CASE StopWorker(w) \/ EndOfRun(w)
    <3>1. pc[w] \in Halted /\ UNCHANGED currentInstruction
      BY <2>7 DEF StopWorker, EndOfRun, Halted
    <3>2. Done(c)'
      BY <1>4, <1>6, <1>7, <3>1 DEF Covered, Halted
    <3> QED
      BY <1>3, <1>4, <1>6, <1>9, <3>1, <3>2 DEF Covered, Halted
  <2> QED
    BY <2>1, <2>2, <2>3, <2>4, <2>5, <2>6, <2>7 DEF UnitStep
<1> QED
  BY <1>5, <1>10 DEF Covered, CoverInv

\* A part that has just been handed out has nothing behind it.
LEMMA CoverNext ==
  ASSUME Frame, RangeInv, CoverInv, ProperRange, [Next]_vars
  PROVE  CoverInv'
<1>1. CASE UNCHANGED vars
  BY <1>1 DEF vars, structVars, unitVars, CoverInv, UnitFirst, Done
<1>2. CASE ManagerStep /\ UNCHANGED <<pc, currentInstruction>>
  BY <1>2, ManagerFrame DEF CoverInv, unitVars, UnitFirst, Done
<1>3. CASE ManagerStep /\ Fork
  <2>1. /\ pc' = [pc EXCEPT ![idx] = "init"] /\ UNCHANGED analysed
        /\ idx \in Units
        /\ currentInstruction' =
             [currentInstruction EXCEPT ![idx] = startInstruction % InstrMod]
    BY <1>3, ManagerFrame DEF Fork, unitVars, Frame, TypeOK, ManagerTypeOK
  <2>2. startInstruction % InstrMod = UnitFirst(idx)
    <3>1. startInstruction = UnitFirst(idx) /\ UnitFirst(idx) \in instr_t
      BY <2>1, PartFacts DEF Frame, CtorInv
    <3> QED
      BY <3>1, FeederAssumption DEF instr_t
  <2>3. UnitFirst(idx) \in Nat
    BY <2>1, PartFacts DEF instr_t
  <2>4. pc \in [Units -> UnitPCs] /\ currentInstruction \in [Units -> instr_t]
    BY DEF Frame, TypeOK, StructTypeOK, UnitTypeOK
  <2>5. ASSUME NEW v \in Units PROVE Covered(v)'
    <3>1. CASE v = idx
      <4>1. /\ currentInstruction'[v] = UnitFirst(v) /\ pc'[v] = "init"
            /\ UnitFirst(v)' = UnitFirst(v)
        BY <2>1, <2>2, <2>4, <3>1 DEF UnitFirst
      <4>2. UnitFirst(v) .. UnitFirst(v) - 1 = {}
        BY <2>3, <3>1
      <4> QED
        BY <4>1, <4>2 DEF Covered, Halted
    <3>2. CASE v # idx
      BY <2>1, <2>4, <3>2 DEF Covered, CoverInv, UnitFirst, Done
    <3> QED
      BY <3>1, <3>2
  <2> QED
    BY <2>5 DEF Covered, CoverInv
<1> QED
  BY <1>1, <1>2, <1>3, ManagerFrame, CoverUnit DEF Next, Terminated


-----------------------------------------------------------------------------
(* The start signal. *)

LEMMA SignalInit == Init => SignalInv
BY DEF Init, MgrInit, SignalInv, Scanning

\* SIGUSR1 is gone before a unit scans.
LEMMA SignalUnit ==
  ASSUME TypeOK, SignalInv, NEW w \in Units, UnitStep(w)
  PROVE  SignalInv'
<1>1. /\ mgr' = mgr
      /\ \A v \in Units \ {w} : pc'[v] = pc[v] /\ pending'[v] = pending[v]
  BY UnitFrame DEF managerVars
<1>2. \A v \in Units \ {w} : mask'[v] = mask[v]
  <2> USE DEF TypeOK, UnitTypeOK
  <2>1. CASE Execute(w)
    BY <2>1 DEF Execute
  <2>2. CASE HangHandler(w)
    BY <2>2 DEF HangHandler
  <2>3. CASE StartSignal(w) \/ EntryReturn(w) \/ FaultReturn(w)
    BY <2>3 DEF StartSignal, EntryReturn, FaultReturn
  <2>4. CASE ~ (\/ Execute(w) \/ HangHandler(w) \/ StartSignal(w)
                \/ EntryReturn(w) \/ FaultReturn(w))
    BY <2>4 DEF UnitStep, InitScanner, InitFails, EntryHandler, Analyse,
       Fetch, WriteInstruction, Commit, StopWorker, EndOfRun, unitVars
  <2> QED
    BY <2>1, <2>2, <2>3, <2>4
<1>3. /\ "USR1" \in pending'[w] => pc'[w] \notin Scanning
      /\ mgr \in {"fork", "insert", "wait"} =>
           pc'[w] \notin Scanning /\ pending'[w] = {} /\ mask'[w] = {}
      /\ pc'[w] \in {"none", "init", "ready"} => mask'[w] = {}
  <2> USE DEF TypeOK, UnitTypeOK, SignalInv, Scanning, UnitPCs
  <2>1. CASE InitScanner(w)
    BY <2>1 DEF InitScanner
  <2>2. CASE InitFails(w)
    BY <2>2 DEF InitFails, unitVars
  <2>3. CASE StartSignal(w)
    <3>1. /\ pending'[w] = pending[w] \ {"USR1"} /\ pc'[w] = "entry"
          /\ "USR1" \in pending[w]
      BY <2>3 DEF StartSignal
    <3> QED
      BY <3>1
  <2>4. CASE HangHandler(w)
    <3>1. pc[w] \in Scanning \/ mask[w] = {} \/ pc[w] = "dead"
      OBVIOUS
    <3>2. "USR1" \notin pending'[w] /\ pending[w] # {} /\ pc[w] \notin {"none", "dead"}
      BY <2>4, <3>1 DEF HangHandler
    <3>3. pc'[w] \in {"exec", "stop"}
      BY <2>4, FetchIntoCurrentType DEF HangHandler
    <3> QED
      BY <3>2, <3>3
  <2>5. CASE EntryHandler(w)
    <3>1. pc[w] = "entry" /\ pc'[w] \in {"entryWrite", "stop"}
          /\ UNCHANGED <<pending, mask>>
      <4>1. CASE search(currentInstruction[w])
        BY <2>5, <4>1, FetchIntoCurrentType DEF EntryHandler, unitVars
      <4>2. CASE ~ search(currentInstruction[w])
        BY <2>5, <4>2 DEF EntryHandler, unitVars
      <4> QED
        BY <4>1, <4>2
    <3> QED
      BY <3>1
  <2>6. CASE Execute(w)
    <3>1. /\ pc[w] = "exec" /\ UNCHANGED pending
          /\ pc'[w] \in {"dead", "fault"}
      BY <2>6 DEF Execute
    <3> QED
      BY <3>1
  <2>7. CASE \/ EntryReturn(w) \/ Analyse(w) \/ Fetch(w)
             \/ WriteInstruction(w) \/ Commit(w) \/ FaultReturn(w)
             \/ StopWorker(w) \/ EndOfRun(w)
    <3>1. /\ pc[w] \in Scanning /\ pc'[w] \in Scanning /\ UNCHANGED pending
          /\ pc'[w] \notin {"none", "init", "ready"}
      BY <2>7 DEF EntryReturn, Analyse, Fetch, WriteInstruction, Commit,
         FaultReturn, StopWorker, EndOfRun
    <3> QED
      BY <3>1
  <2> QED
    BY <2>1, <2>2, <2>3, <2>4, <2>5, <2>6, <2>7 DEF UnitStep
<1> QED
  BY <1>1, <1>2, <1>3 DEF SignalInv

\* The manager sends SIGUSR1 only before any unit scans.
LEMMA SignalManager ==
  ASSUME TypeOK, SignalInv, ManagerStep
  PROVE  SignalInv'
<1> USE DEF SignalInv, TypeOK, ManagerTypeOK, UnitTypeOK
<1>1. UNCHANGED mask
  BY ManagerFrame DEF unitVars
<1>2. CASE Fork
  BY <1>1, <1>2 DEF Fork, Scanning
<1>3. CASE runScanners
  BY <1>1, <1>3 DEF runScanners, structVars
<1>4. CASE CheckHang
  BY <1>1, <1>4 DEF CheckHang
<1>5. CASE Insert \/ CtorFails
  BY <1>1, <1>5 DEF Insert, CtorFails
<1>6. CASE ManagerStep /\ ~ (Fork \/ runScanners \/ CheckHang \/ Insert \/ CtorFails)
  <2>1. UNCHANGED <<pc, pending>> /\ mgr' \notin {"fork", "insert", "wait"}
    BY <1>6 DEF ManagerStep, ChildDeath, TimelyAlarm, Alarm, PerfStore,
       PerfDone, AlarmReturn, PerfRead, CheckStopped
  <2> QED
    BY <1>1, <2>1
<1> QED
  BY <1>2, <1>3, <1>4, <1>5, <1>6

LEMMA SignalNext ==
  ASSUME TypeOK, SignalInv, [Next]_vars
  PROVE  SignalInv'
<1>1. CASE UNCHANGED vars
  BY <1>1 DEF vars, unitVars, SignalInv
<1> QED
  BY <1>1, SignalManager, SignalUnit DEF Next, Terminated

-----------------------------------------------------------------------------
(* Stopping. *)

\* A unit that has halted stays halted, whatever signal reaches it: nothing
\* is left in its part to be fetched.
LEMMA HaltedStays ==
  ASSUME Frame, SignalInv, RangeInv, ProperRange, NEW w \in Units,
         UnitStep(w), pc[w] \in Halted
  PROVE  pc'[w] \in Halted /\ currentInstruction'[w] = currentInstruction[w]
<1>1. pc \in [Units -> UnitPCs] /\ w \in threadDataMap /\ pc[w] # "none"
  BY DEF Frame, TypeOK, UnitTypeOK, StartInv, Scanning, UnitPCs, Halted
<1>2. currentInstruction[w] + 1 .. UnitLast(w) \subseteq Blacklist
  BY <1>1 DEF RangeInv
<1>3. ~ StartSignal(w)
  BY DEF StartSignal, SignalInv, Scanning, UnitPCs, Halted
<1>4. CASE HangHandler(w)
  <2>1. FetchIntoCurrent(w, "exec") /\ "exec" \in UnitPCs
    BY <1>4 DEF HangHandler, UnitPCs
  <2> QED
    BY <1>1, <1>2, <2>1, FetchIntoInPart DEF Halted
<1>5. CASE StopWorker(w) \/ EndOfRun(w)
  BY <1>1, <1>5 DEF StopWorker, EndOfRun, Halted
<1> QED
  BY <1>3, <1>4, <1>5
  DEF UnitStep, InitScanner, InitFails, EntryHandler, EntryReturn, Execute,
      Analyse, Fetch, WriteInstruction, Commit, FaultReturn, Halted

LEMMA StopInit == Init => StopInv
BY DEF Init, MgrInit, StopInv

LEMMA StopNext ==
  ASSUME Frame, SignalInv, RangeInv, StopInv, ProperRange, [Next]_vars
  PROVE  StopInv'
<1> USE DEF StopInv
<1>1. CASE UNCHANGED vars
  BY <1>1 DEF vars, structVars, ctorVars
<1>2. ASSUME NEW w \in Units, UnitStep(w) PROVE StopInv'
  <2>1. /\ UNCHANGED <<mgr, allStopped, threadDataMap, todo>>
        /\ \A v \in Units \ {w} : pc'[v] = pc[v] /\ isStopped'[v] = isStopped[v]
        /\ isStopped'[w] = isStopped[w] \/ StopWorker(w)
    BY <1>2, UnitFrame DEF Frame, managerVars, ctorVars
  <2>2. isStopped[w] => pc'[w] \in Halted
    BY <1>2, HaltedStays
  <2>3. StopWorker(w) => isStopped'[w] /\ pc'[w] \in Halted
    BY DEF StopWorker, Halted, Frame, TypeOK, StructTypeOK, UnitTypeOK
  <2>4. threadDataMap \subseteq Units
    BY DEF Frame, TypeOK, ManagerTypeOK
  <2> QED
    BY <2>1, <2>2, <2>3, <2>4
<1>3. CASE Fork
  BY <1>3 DEF Fork, LocalScannerInit, Frame, TypeOK, StructTypeOK, UnitTypeOK
<1>4. CASE ManagerStep /\ ~ Fork
  <2>1. UNCHANGED <<pc, isStopped>>
    BY <1>4, ManagerFrame
  <2>2. CASE ChildDeath
    BY <2>1, <2>2 DEF ChildDeath
  <2>3. CASE CtorFails \/ Insert \/ runScanners \/ PerfStore
    BY <2>1, <2>3 DEF CtorFails, Insert, runScanners, PerfStore
  <2>4. CASE TimelyAlarm \/ PerfDone
    BY <2>1, <2>4 DEF TimelyAlarm, Alarm, PerfDone, ctorVars
  <2>5. CASE CheckHang \/ AlarmReturn
    BY <2>1, <2>5 DEF CheckHang, AlarmReturn, ctorVars, structVars
  <2>6. CASE \E w \in Units : PerfRead(w)
    BY <2>1, <2>6 DEF PerfRead
  <2>7. CASE \E w \in Units : CheckStopped(w)
    <3>1. PICK w \in Units : CheckStopped(w)
      BY <2>7
    <3>2. allStopped' => allStopped /\ isStopped[w]
      BY <3>1 DEF CheckStopped, FinishedAfter
    <3> QED
      BY <2>1, <3>1, <3>2 DEF CheckStopped, ctorVars
  <2> QED
    BY <1>4, <2>2, <2>3, <2>4, <2>5, <2>6, <2>7 DEF ManagerStep
<1> QED
  BY <1>1, <1>2, <1>3, <1>4 DEF Next, Terminated


-----------------------------------------------------------------------------
(* The performance log. *)

LEMMA LogInit == Init => LogInv
BY DEF Init, MgrInit, LogInv

\* numInstrExec only grows while a unit runs.
LEMMA CountGrows ==
  ASSUME TypeOK, NEW w \in Units, UnitStep(w)
  PROVE  numInstrExec'[w] >= numInstrExec[w] /\ numInstrExec'[w] \in Nat
<1> USE DEF TypeOK, StructTypeOK
<1>1. ASSUME NEW next, FetchIntoCurrent(w, next)
      PROVE  numInstrExec'[w] >= numInstrExec[w] /\ numInstrExec'[w] \in Nat
  BY <1>1, FeederAssumption DEF FetchIntoCurrent
<1>2. CASE Fetch(w)
  BY <1>2, FeederAssumption DEF Fetch
<1>3. CASE EntryHandler(w) \/ HangHandler(w)
  <2>1. UNCHANGED numInstrExec \/ \E next : FetchIntoCurrent(w, next)
    BY <1>3 DEF EntryHandler, HangHandler
  <2> QED
    BY <1>1, <2>1
<1>4. CASE ~ (Fetch(w) \/ EntryHandler(w) \/ HangHandler(w))
  BY <1>4 DEF UnitStep, InitScanner, InitFails, StartSignal, EntryReturn,
     Execute, Analyse, WriteInstruction, Commit, FaultReturn, StopWorker,
     EndOfRun
<1> QED
  BY <1>2, <1>3, <1>4

LEMMA LogNext ==
  ASSUME Frame, LogInv, [Next]_vars
  PROVE  LogInv'
<1> USE DEF LogInv, Frame, TypeOK, ManagerTypeOK, StructTypeOK
<1>1. CASE UNCHANGED vars
  BY <1>1 DEF vars, structVars
<1>2. ASSUME NEW w \in Units, UnitStep(w) PROVE LogInv'
  <2>1. UNCHANGED <<mgr, visiting, logged, lastPerformanceExec>>
    BY <1>2, UnitFrame DEF managerVars
  <2>2. \A v \in Units : numInstrExec'[v] >= numInstrExec[v]
                         /\ numInstrExec'[v] \in Nat
    BY <1>2, UnitFrame, CountGrows
  <2> QED
    BY <2>1, <2>2
<1>3. CASE Fork
  <2>1. /\ numInstrExec' = [numInstrExec EXCEPT ![idx] = 0]
        /\ lastPerformanceExec' = [lastPerformanceExec EXCEPT ![idx] = 0]
        /\ UNCHANGED logged /\ idx \in Units /\ mgr = "fork"
    BY <1>3 DEF Fork, LocalScannerInit
  <2>2. logged[idx] = 0
    <3>1. idx \notin threadDataMap
      BY <2>1 DEF CtorInv, Units
    <3> QED
      BY <2>1, <3>1 DEF StartInv
  <2> QED
    BY <2>1, <2>2 DEF Exited
<1>4. CASE ManagerStep /\ ~ Fork
  <2>1. UNCHANGED numInstrExec
    BY <1>4, ManagerFrame
  <2>2. CASE \E w \in Units : PerfRead(w)
    <3>1. PICK w \in Units : PerfRead(w)
      BY <2>2
    <3>2. UNCHANGED lastPerformanceExec /\ mgr = "perf"
      BY <3>1 DEF PerfRead, structVars
    <3>3. CASE isStopped[w]
      BY <2>1, <3>1, <3>2, <3>3 DEF PerfRead, Exited
    <3>4. CASE ~ isStopped[w]
      <4>1. /\ logged' = [logged EXCEPT ![w] =
                            @ + numInstrExec[w] - lastPerformanceExec[w]]
            /\ visiting' = w /\ mgr' = "perfStore"
        BY <3>1, <3>4 DEF PerfRead
      <4>2. logged[w] <= lastPerformanceExec[w]
        BY <3>2 DEF Exited
      <4> QED
        BY <2>1, <3>2, <4>1, <4>2 DEF Exited
    <3> QED
      BY <3>3, <3>4
  <2>3. CASE PerfStore
    BY <2>1, <2>3 DEF PerfStore, Exited
  <2>4. CASE ManagerStep /\ ~ (Fork \/ PerfStore \/ \E w \in Units : PerfRead(w))
    <3>1. UNCHANGED <<logged, lastPerformanceExec>>
          /\ (mgr \in Exited => mgr' \in Exited)
          /\ (mgr = "perfStore" => mgr' \in Exited)
      BY <2>4 DEF ManagerStep, ChildDeath, CtorFails, Insert, runScanners,
         TimelyAlarm, Alarm, PerfDone, CheckHang, AlarmReturn, CheckStopped,
         structVars, Exited
    <3> QED
      BY <2>1, <3>1
  <2> QED
    BY <1>4, <2>2, <2>3, <2>4
<1> QED
  BY <1>1, <1>2, <1>3, <1>4 DEF Next, Terminated

-----------------------------------------------------------------------------
(* The result lines. *)

LEMMA LineInit == Init => LineInv
BY DEF Init, LineInv, FaultLinesTrue

\* faultHandler describes the instruction the page holds.
LEMMA LineNext ==
  ASSUME TypeOK, PageInv, LineInv, [Next]_vars
  PROVE  LineInv'
<1> USE DEF LineInv, FaultLinesTrue
<1>0. \A l : Job!Verdict(l)' = Job!Verdict(l)
  BY DEF Job!Verdict, Job!basicAnalysis, Job!Report, Job!disassemble, Job!Filler
<1>1. CASE UNCHANGED results
  BY <1>0, <1>1
<1>2. ASSUME NEW w \in Units, Analyse(w) PROVE LineInv'
  <2> DEFINE c == currentInstruction[w]
  <2>1. /\ page[w] = c /\ Outcome[c] # "HANG"
        /\ results' = results \cup basicAnalysis(c, c, Outcome[c])
    BY <1>2 DEF Analyse, PageInv
  <2>2. basicAnalysis(c, c, Outcome[c]) = Job!Verdict(c)
    BY <2>1 DEF basicAnalysis, Report, disassemble, Filler, Job!Verdict,
       Job!basicAnalysis, Job!Report, Job!disassemble, Job!Filler
  <2>3. \A l \in Job!Verdict(c) : l[2] = c
    BY DEF Job!Verdict, Job!basicAnalysis, Job!Report
  <2> QED
    BY <1>0, <2>1, <2>2, <2>3
<1>3. ASSUME NEW w \in Units, HangHandler(w) PROVE LineInv'
  <2> DEFINE new == basicAnalysis(currentInstruction[w], page[w], "USER")
  <2>1. results' = results \cup new
    BY <1>3 DEF HangHandler
  <2>2. \A l \in new : l[3] = "USER"
    BY DEF basicAnalysis, Report
  <2> QED
    BY <1>0, <2>1, <2>2
<1>4. CASE UNCHANGED vars \/ ManagerStep
  BY <1>1, <1>4, ManagerFrame DEF vars, unitVars
<1>5. ASSUME NEW w \in Units, UnitStep(w), ~ Analyse(w), ~ HangHandler(w)
      PROVE  LineInv'
  <2>1. UNCHANGED results
    BY <1>5 DEF UnitStep, InitScanner, InitFails, StartSignal, EntryHandler,
       EntryReturn, Execute, Fetch, WriteInstruction, Commit, FaultReturn,
       StopWorker, EndOfRun, unitVars
  <2> QED
    BY <1>1, <2>1
<1> QED
  BY <1>2, <1>3, <1>4, <1>5 DEF Next, Terminated

-----------------------------------------------------------------------------
(* All of it. *)

LEMMA IInvInit == Init => IInv
BY TypingInit, CleanInit, CtorInit, StartInit, SignalInit, RangeInit,
   CoverInit, StopInit, LogInit, LineInit DEF IInv

LEMMA IInvNext == ProperRange /\ IInv /\ [Next]_vars => IInv'
<1> SUFFICES ASSUME ProperRange, IInv, [Next]_vars PROVE IInv'
  OBVIOUS
<1>1. Frame /\ RangeInv /\ SignalInv
  BY DEF IInv, Frame
<1>2. TypeOK' /\ PageInv'
  BY TypingNext DEF IInv
<1>3. CtorInv' /\ StartInv' /\ SignalInv'
  BY CtorNext, StartNext, SignalNext DEF IInv
<1>4. CleanInv' /\ RangeInv' /\ CoverInv'
  BY <1>1, CleanNext, RangeNext, CoverNext DEF IInv
<1>5. StopInv' /\ LogInv' /\ LineInv'
  BY <1>1, StopNext, LogNext, LineNext DEF IInv
<1> QED
  BY <1>2, <1>3, <1>4, <1>5 DEF IInv

\* The inductive invariant holds, for every range that is one.
THEOREM Invariant == ProperRange /\ Spec => []IInv
<1>1. ProperRange => (IInv /\ [Next]_vars => IInv')
  BY IInvNext
<1>2. Init => IInv
  BY IInvInit
<1>3. ASSUME ProperRange PROVE Spec => []IInv
  <2>1. IInv /\ [Next]_vars => IInv'
    BY <1>1, <1>3
  <2> QED
    BY <1>2, <2>1, PTL DEF Spec
<1> QED
  BY <1>3


-----------------------------------------------------------------------------
(* The properties of Memcage. *)

\* What a unit runs is the instruction its struct names: the line that the
\* fault leads to is about the instruction that caused it.
THEOREM PageMatchesCurrentThm == Spec => []PageMatchesCurrent
<1>1. PageInv => PageMatchesCurrent
  BY DEF PageInv, PageMatchesCurrent
<1> QED
  BY <1>1, Typing, PTL

\* No blacklisted instruction is ever run.
THEOREM NeverRunsBlacklistedThm ==
  ProperRange /\ Spec => []NeverRunsBlacklisted
<1>1. IInv => NeverRunsBlacklisted
  BY DEF IInv, PageInv, CleanInv, NeverRunsBlacklisted, search
<1> QED
  BY <1>1, Invariant, PTL

\* A unit runs instructions of its own part only.
THEOREM StaysInOwnPartThm == ProperRange /\ Spec => []StaysInOwnPart
<1>1. IInv => StaysInOwnPart
  BY DEF IInv, PageInv, RangeInv, StaysInOwnPart
<1> QED
  BY <1>1, Invariant, PTL

\* "finished run" means that nothing is left to analyse: when every unit
\* reports isStopped, each has passed the whole of its part, and the parts
\* make up the range.
THEOREM FinishedCoveredThm == ProperRange /\ Spec => []FinishedCovered
<1>1. ProperRange /\ IInv => FinishedCovered
  <2> SUFFICES ASSUME ProperRange, IInv, mgr = "finished",
                      NEW k \in (First .. Last) \ Blacklist
               PROVE  analysed[k] > 0
    BY DEF FinishedCovered
  <2>1. PICK w \in Units : k \in UnitFirst(w) .. UnitLast(w)
    BY PartsCover
  <2>2. threadDataMap = Units
    BY DEF IInv, CtorInv, Units
  <2>3. pc[w] \in Halted
    BY <2>2 DEF IInv, StopInv
  <2>4. pc[w] # "none"
    BY <2>3 DEF Halted
  <2>5. currentInstruction[w] \in UnitFirst(w) .. UnitLast(w)
        /\ currentInstruction[w] + 1 .. UnitLast(w) \subseteq Blacklist
    BY <2>3, <2>4 DEF IInv, RangeInv
  <2>6. /\ \A i \in UnitFirst(w) .. currentInstruction[w] - 1 : Done(i)
        /\ Done(currentInstruction[w])
    BY <2>3, <2>4 DEF IInv, CoverInv
  <2>7. \/ k \in UnitFirst(w) .. currentInstruction[w] - 1
        \/ k = currentInstruction[w]
        \/ k \in currentInstruction[w] + 1 .. UnitLast(w)
    <3>1. UnitFirst(w) \in Int /\ UnitLast(w) \in Int
      BY PartFacts DEF instr_t
    <3> QED
      BY <2>1, <2>5, <3>1
  <2> QED
    BY <2>5, <2>6, <2>7 DEF Done
<1>2. ASSUME ProperRange PROVE Spec => []FinishedCovered
  <2>1. IInv => FinishedCovered
    BY <1>1, <1>2
  <2>2. Spec => []IInv
    BY <1>2, Invariant
  <2> QED
    BY <2>1, <2>2, PTL
<1> QED
  BY <1>2

\* The performance log never counts an instruction twice.
THEOREM LogNeverOverstatesThm == ProperRange /\ Spec => []LogNeverOverstates
<1>1. IInv => LogNeverOverstates
  BY DEF IInv, LogInv, LogNeverOverstates
<1> QED
  BY <1>1, Invariant, PTL

\* A line that a fault led to is true of the instruction it names.
THEOREM FaultLinesTrueThm == ProperRange /\ Spec => []FaultLinesTrue
<1>1. IInv => FaultLinesTrue
  BY DEF IInv, LineInv
<1> QED
  BY <1>1, Invariant, PTL

\* A unit that has reported isStopped never scans on.
THEOREM StoppedForGoodThm == ProperRange /\ Spec => StoppedForGood
<1> DEFINE A == \A w \in Units : isStopped[w] =>
                  /\ isStopped'[w]
                  /\ currentInstruction'[w] = currentInstruction[w]
                  /\ pc'[w] # "exec"
<1>1. ProperRange /\ IInv /\ [Next]_vars => [A]_vars
  <2> SUFFICES ASSUME ProperRange, IInv, Next PROVE A
    OBVIOUS
  <2>1. \A w \in Units : isStopped[w] => pc[w] \in Halted
    BY DEF IInv, StopInv
  <2>2. Frame /\ SignalInv /\ RangeInv
    BY DEF IInv, Frame
  <2>3. ASSUME NEW w \in Units, UnitStep(w) PROVE A
    <3>1. /\ \A v \in Units \ {w} :
               /\ pc'[v] = pc[v]
               /\ isStopped'[v] = isStopped[v]
               /\ currentInstruction'[v] = currentInstruction[v]
          /\ isStopped'[w] = isStopped[w] \/ StopWorker(w)
      BY <2>2, <2>3, UnitFrame DEF Frame
    <3>2. isStopped[w] => /\ pc'[w] \in Halted
                          /\ currentInstruction'[w] = currentInstruction[w]
      BY <2>1, <2>2, <2>3, HaltedStays
    <3>3. StopWorker(w) => isStopped'[w]
      BY <2>2 DEF StopWorker, Frame, TypeOK, StructTypeOK
    <3> QED
      BY <2>1, <3>1, <3>2, <3>3 DEF Halted
  <2>4. CASE Fork
    <3>1. idx \in Units /\ idx \notin threadDataMap /\ mgr = "fork"
      BY <2>4 DEF Fork, IInv, CtorInv, TypeOK, ManagerTypeOK, Units
    <3>2. ~ isStopped[idx]
      BY <2>1, <3>1 DEF IInv, StartInv, Scanning, Halted, UnitPCs
    <3>3. \A v \in Units \ {idx} :
            /\ pc'[v] = pc[v] /\ isStopped'[v] = isStopped[v]
            /\ currentInstruction'[v] = currentInstruction[v]
      BY <2>4 DEF Fork, LocalScannerInit, IInv, TypeOK, StructTypeOK, UnitTypeOK
    <3> QED
      BY <2>1, <3>2, <3>3 DEF Halted
  <2>5. CASE UNCHANGED <<pc, currentInstruction, isStopped>>
    BY <2>1, <2>5 DEF Halted
  <2>6. CASE Terminated
    BY <2>5, <2>6 DEF Terminated, vars, structVars
  <2> QED
    BY <2>3, <2>4, <2>5, <2>6, ManagerFrame DEF Next
<1>2. ASSUME ProperRange PROVE Spec => [][A]_vars
  <2>1. IInv /\ [Next]_vars => [A]_vars
    BY <1>1, <1>2
  <2>2. Spec => []IInv
    BY <1>2, Invariant
  <2> QED
    BY <2>1, <2>2, PTL DEF Spec
<1> QED
  BY <1>2 DEF StoppedForGood

-----------------------------------------------------------------------------
(* With prompt alarms: what a step leaves alone, continued. *)

LEMMA UnitFrame2 ==
  ASSUME TypeOK, NEW w \in Units, UnitStep(w)
  PROVE  \A v \in Units \ {w} :
           /\ page'[v] = page[v] /\ isReady'[v] = isReady[v]
           /\ mask'[v] = mask[v] /\ saved'[v] = saved[v]
<1> USE DEF TypeOK, StructTypeOK, UnitTypeOK
<1>1. CASE InitScanner(w) \/ InitFails(w) \/ StartSignal(w)
  BY <1>1 DEF InitScanner, InitFails, StartSignal, unitVars
<1>2. CASE EntryHandler(w)
  BY <1>2 DEF EntryHandler, unitVars
<1>3. CASE EntryReturn(w)
  BY <1>3 DEF EntryReturn
<1>4. CASE Execute(w)
  BY <1>4 DEF Execute
<1>5. CASE HangHandler(w)
  <2>1. \A v \in Units \ {w} : page'[v] = page[v] /\ mask'[v] = mask[v]
    BY <1>5 DEF HangHandler
  <2> QED
    BY <1>5, <2>1 DEF HangHandler
<1>6. CASE \/ Analyse(w) \/ Fetch(w) \/ WriteInstruction(w) \/ Commit(w)
           \/ FaultReturn(w) \/ StopWorker(w) \/ EndOfRun(w)
  BY <1>6 DEF Analyse, Fetch, WriteInstruction, Commit, FaultReturn,
     StopWorker, EndOfRun, unitVars
<1> QED
  BY <1>1, <1>2, <1>3, <1>4, <1>5, <1>6 DEF UnitStep

\* Where each step of a unit takes it.
LEMMA UnitGoes ==
  ASSUME TypeOK, NEW w \in Units
  PROVE  /\ InitScanner(w) => pc[w] = "init" /\ pc'[w] = "ready"
         /\ InitFails(w) => pc[w] = "init" /\ pc'[w] = "dead"
         /\ StartSignal(w) => pc[w] \notin {"none", "dead"} /\ pc'[w] = "entry"
         /\ EntryHandler(w) => pc[w] = "entry" /\ pc'[w] \in {"entryWrite", "stop"}
         /\ EntryReturn(w) => pc[w] = "entryWrite" /\ pc'[w] = "exec"
         /\ Execute(w) => pc[w] = "exec" /\ pc'[w] \in {"fault", "dead"}
         /\ Analyse(w) => pc[w] = "fault" /\ pc'[w] = "fetch"
         /\ Fetch(w) => pc[w] = "fetch" /\ pc'[w] \in {"write", "stop"}
         /\ WriteInstruction(w) => pc[w] = "write" /\ pc'[w] = "commit"
         /\ Commit(w) => pc[w] = "commit" /\ pc'[w] = "return"
         /\ FaultReturn(w) => pc[w] = "return" /\ pc'[w] = "exec"
         /\ HangHandler(w) => pc[w] \notin {"none", "dead"}
                              /\ pc'[w] \in {"exec", "stop"}
         /\ StopWorker(w) => pc[w] = "stop" /\ pc'[w] = "stopping"
         /\ EndOfRun(w) => pc[w] = "stopping" /\ pc'[w] = "stopped"
<1>1. pc \in [Units -> UnitPCs]
  BY DEF TypeOK, UnitTypeOK
<1>2. EntryHandler(w) => pc[w] = "entry" /\ pc'[w] \in {"entryWrite", "stop"}
  <2> SUFFICES ASSUME EntryHandler(w)
               PROVE  pc[w] = "entry" /\ pc'[w] \in {"entryWrite", "stop"}
    OBVIOUS
  <2>1. CASE search(currentInstruction[w])
    <3>1. FetchIntoCurrent(w, "entryWrite") /\ "entryWrite" \in UnitPCs
          /\ pc[w] = "entry"
      BY <2>1 DEF EntryHandler, UnitPCs
    <3> QED
      BY <3>1, FetchIntoCurrentType DEF TypeOK
  <2>2. CASE ~ search(currentInstruction[w])
    BY <1>1, <2>2 DEF EntryHandler
  <2> QED
    BY <2>1, <2>2
<1>3. HangHandler(w) => pc[w] \notin {"none", "dead"} /\ pc'[w] \in {"exec", "stop"}
  <2> SUFFICES ASSUME HangHandler(w)
               PROVE  pc[w] \notin {"none", "dead"} /\ pc'[w] \in {"exec", "stop"}
    OBVIOUS
  <2>1. FetchIntoCurrent(w, "exec") /\ "exec" \in UnitPCs
        /\ pc[w] \notin {"none", "dead"}
    BY DEF HangHandler, UnitPCs
  <2> QED
    BY <2>1, FetchIntoCurrentType DEF TypeOK
<1>4. Fetch(w) => pc[w] = "fetch" /\ pc'[w] \in {"write", "stop"}
  BY <1>1 DEF Fetch
<1> QED
  BY <1>1, <1>2, <1>3, <1>4
  DEF InitScanner, InitFails, StartSignal, EntryReturn, Execute, Analyse,
      WriteInstruction, Commit, FaultReturn, StopWorker, EndOfRun

-----------------------------------------------------------------------------
(* SIGUSR2. *)

LEMMA PromptInit == Init => PromptInv
BY DEF Init, MgrInit, PromptInv, Uncompared, HangOnlyWhenStuck

\* A unit that is stuck takes no step, and one that a SIGUSR2 waits for
\* takes only that signal.
LEMMA StuckStays ==
  ASSUME TypeOK, SignalInv, NEW w \in Units, UnitStep(w),
         pc[w] = "exec", Outcome[page[w]] = "HANG"
  PROVE  HangHandler(w)
<1>1. ~ StartSignal(w)
  BY DEF StartSignal, SignalInv, Scanning, UnitPCs
<1>2. ~ Execute(w)
  BY DEF Execute
<1> QED
  BY <1>1, <1>2, UnitGoes DEF UnitStep

\* A unit's own steps do not make it look as if it hung.
LEMMA PromptUnit ==
  ASSUME TypeOK, PageInv, SignalInv, PromptInv, NEW w \in Units, UnitStep(w)
  PROVE  PromptInv'
<1>1. UNCHANGED managerVars /\ UNCHANGED Uncompared
  BY UnitFrame DEF managerVars, ctorVars, Uncompared
<1>2. UNCHANGED <<mgr, todo, visiting, oldNumInstrExec>>
  BY <1>1 DEF managerVars
<1>3. HangHandler(w) => /\ pc[w] = "exec" /\ page[w] = currentInstruction[w]
                        /\ Outcome[currentInstruction[w]] = "HANG"
                        /\ "USR2" \in pending[w] /\ "USR2" \notin mask[w]
                        /\ "USR2" \notin pending'[w]
  BY DEF HangHandler, PromptInv, PageInv, TypeOK, UnitTypeOK
<1>4. pending'[w] \subseteq pending[w]
  <2> USE DEF TypeOK, UnitTypeOK
  <2>1. CASE StartSignal(w) \/ HangHandler(w)
    BY <2>1 DEF StartSignal, HangHandler
  <2>2. CASE ~ (StartSignal(w) \/ HangHandler(w))
    BY <2>2 DEF UnitStep, InitScanner, InitFails, EntryHandler, EntryReturn,
       Execute, Analyse, Fetch, WriteInstruction, Commit, FaultReturn,
       StopWorker, EndOfRun
  <2> QED
    BY <2>1, <2>2
<1>5. /\ numInstrExec \in [Units -> Nat] /\ oldNumInstrExec \in [Units -> Nat]
      /\ isStopped \in [Units -> BOOLEAN]
  BY DEF TypeOK, StructTypeOK
<1>6. \A v \in Units : oldNumInstrExec'[v] <= numInstrExec'[v]
  <2>1. numInstrExec'[w] >= numInstrExec[w] /\ numInstrExec'[w] \in Nat
    BY CountGrows
  <2> QED
    BY <1>2, <1>5, <2>1, UnitFrame DEF PromptInv
<1>7. ASSUME NEW v \in Units, Prompt(v) PROVE Prompt(v)'
  <2>1. CASE v # w
    BY <1>2, <1>7, <2>1, UnitFrame, UnitFrame2 DEF Prompt, Stuck
  <2>2. CASE v = w /\ isStopped[w]
    <3>1. isStopped'[w]
      BY <1>5, <2>2, UnitFrame DEF StopWorker
    <3> QED
      BY <2>2, <3>1 DEF Prompt
  <2>3. CASE v = w /\ numInstrExec[w] # oldNumInstrExec[w]
    <3>1. numInstrExec'[w] >= numInstrExec[w] /\ numInstrExec'[w] \in Nat
      BY CountGrows
    <3>2. oldNumInstrExec[w] <= numInstrExec[w]
      BY DEF PromptInv
    <3>3. numInstrExec'[w] # oldNumInstrExec'[w]
      BY <1>2, <1>5, <2>3, <3>1, <3>2
    <3> QED
      BY <2>3, <3>3 DEF Prompt
  <2>4. ~ Stuck(w)
    BY <1>3, StuckStays DEF Stuck
  <2> QED
    BY <1>7, <2>1, <2>2, <2>3, <2>4 DEF Prompt
<1>8. \A v \in Uncompared' : Prompt(v)'
  <2>1. Uncompared \subseteq Units
    BY DEF Uncompared, TypeOK, ManagerTypeOK
  <2> QED
    BY <1>1, <1>7, <2>1 DEF PromptInv
<1>9. ASSUME NEW v \in Units, "USR2" \in pending'[v]
      PROVE  pc'[v] = "exec" /\ Outcome[page'[v]] = "HANG"
  <2>1. CASE v # w
    BY <1>9, <2>1, UnitFrame, UnitFrame2 DEF PromptInv
  <2>2. v # w
    <3>1. "USR2" \in pending[w] => HangHandler(w)
      BY StuckStays DEF PromptInv
    <3> QED
      BY <1>3, <1>4, <1>9, <3>1
  <2> QED
    BY <2>1, <2>2
<1>10. HangOnlyWhenStuck'
  <2>1. HangHandler(w) \/ UNCHANGED hangs
    BY DEF UnitStep, InitScanner, InitFails, StartSignal, EntryHandler,
       EntryReturn, Execute, Analyse, Fetch, WriteInstruction, Commit,
       FaultReturn, StopWorker, EndOfRun, unitVars
  <2> QED
    BY <1>3, <2>1 DEF HangHandler, PromptInv, HangOnlyWhenStuck
<1> QED
  BY <1>2, <1>6, <1>8, <1>9, <1>10 DEF PromptInv

\* alarmHandler finds, of the units it has yet to compare, only those not
\* counting that are stuck: the alarm was not early, and they stay so.
LEMMA PromptManager ==
  ASSUME OneSecondIsLong, TypeOK, SignalInv, PromptInv, ManagerStep
  PROVE  PromptInv'
<1>1. UNCHANGED <<page, mask, hangs>>
  BY ManagerFrame DEF unitVars
<1>2. /\ \A w \in Units : oldNumInstrExec[w] <= numInstrExec[w]
      /\ mgr = "checkHang" => visiting \notin todo
      /\ \A w \in Uncompared : Prompt(w)
      /\ \A w \in Units :
           "USR2" \in pending[w] => pc[w] = "exec" /\ Outcome[page[w]] = "HANG"
      /\ HangOnlyWhenStuck
  BY DEF PromptInv
<1>3. HangOnlyWhenStuck'
  BY <1>1, <1>2 DEF HangOnlyWhenStuck
<1>4. /\ numInstrExec \in [Units -> Nat] /\ oldNumInstrExec \in [Units -> Nat]
      /\ pending \in [Units -> SUBSET {"USR1", "USR2"}]
      /\ pc \in [Units -> UnitPCs]
      /\ threadDataMap \subseteq Units /\ todo \subseteq Units /\ visiting \in Units
  BY DEF TypeOK, ManagerTypeOK, StructTypeOK, UnitTypeOK
<1>5. CASE Fork
  <2>1. idx \in Units
    BY <1>5 DEF Fork, TypeOK, ManagerTypeOK
  <2>2. /\ numInstrExec' = [numInstrExec EXCEPT ![idx] = 0]
        /\ oldNumInstrExec' = [oldNumInstrExec EXCEPT ![idx] = 0]
        /\ UNCHANGED pending /\ mgr = "fork" /\ mgr' = "insert"
    BY <1>5 DEF Fork, LocalScannerInit
  <2>3. \A w \in Units : oldNumInstrExec'[w] <= numInstrExec'[w]
    BY <1>2, <1>4, <2>1, <2>2
  <2>4. \A w \in Units : pending'[w] = {}
    BY <2>2 DEF SignalInv
  <2> QED
    BY <1>3, <2>2, <2>3, <2>4 DEF PromptInv, Uncompared
<1>6. CASE Insert \/ CtorFails \/ AlarmReturn \/ ChildDeath
  <2>1. /\ UNCHANGED <<pc, pending, numInstrExec, oldNumInstrExec>>
        /\ mgr' \notin {"perf", "perfStore", "check", "checkHang"}
    BY <1>6 DEF Insert, CtorFails, AlarmReturn, ChildDeath, structVars
  <2> QED
    BY <1>1, <1>2, <1>3, <2>1 DEF PromptInv, Uncompared
<1>7. CASE runScanners
  <2>1. /\ UNCHANGED <<pc, numInstrExec, oldNumInstrExec>>
        /\ mgr = "wait" /\ mgr' = "run"
        /\ \A w \in Units : pending'[w] \subseteq pending[w] \cup {"USR1"}
    BY <1>7 DEF runScanners, structVars
  <2>2. \A w \in Units : "USR2" \notin pending'[w]
    BY <2>1 DEF SignalInv
  <2> QED
    BY <1>1, <1>2, <1>3, <2>1, <2>2 DEF PromptInv, Uncompared
<1>8. CASE \/ TimelyAlarm \/ PerfStore \/ PerfDone
           \/ \E w \in Units : PerfRead(w) \/ CheckStopped(w)
  <2>1. UNCHANGED <<pc, pending, isStopped, numInstrExec, oldNumInstrExec,
                    threadDataMap>>
    BY <1>8 DEF TimelyAlarm, Alarm, PerfStore, PerfDone, PerfRead,
       CheckStopped, structVars, ctorVars
  <2>2. \A w \in Units : Prompt(w)' <=> Prompt(w)
    BY <1>1, <2>1 DEF Prompt, Stuck
  <2>3. /\ mgr' = "checkHang" => visiting' \notin todo'
        /\ \A w \in Uncompared' : Prompt(w)
    <3>1. CASE TimelyAlarm
      BY <1>4, <2>1, <3>1 DEF TimelyAlarm, Alarm, Uncompared
    <3>2. CASE PerfStore \/ PerfDone
      BY <1>2, <2>1, <3>2 DEF PerfStore, PerfDone, Uncompared
    <3>3. CASE \E w \in Units : PerfRead(w)
      BY <1>2, <2>1, <3>3 DEF PerfRead, Uncompared
    <3>4. CASE \E w \in Units : CheckStopped(w)
      BY <1>2, <3>4 DEF CheckStopped, Uncompared
    <3> QED
      BY <1>8, <3>1, <3>2, <3>3, <3>4
  <2>4. Uncompared' \subseteq Units
    <3>1. threadDataMap' \subseteq Units /\ todo' \subseteq Units
          /\ visiting' \in Units
      BY <1>4, <1>8 DEF TimelyAlarm, Alarm, PerfStore, PerfDone, PerfRead,
         CheckStopped, ctorVars
    <3> QED
      BY <3>1 DEF Uncompared
  <2> QED
    BY <1>1, <1>2, <1>3, <2>1, <2>2, <2>3, <2>4 DEF PromptInv
<1>9. CASE CheckHang
  <2>1. /\ oldNumInstrExec' =
             [oldNumInstrExec EXCEPT ![visiting] = numInstrExec[visiting]]
        /\ mgr = "checkHang" /\ mgr' = "check"
        /\ UNCHANGED <<pc, isStopped, numInstrExec, todo, visiting>>
        /\ \A w \in Units \ {visiting} : pending'[w] = pending[w]
        /\ \/ UNCHANGED pending
           \/ /\ TakenToHang(visiting)
              /\ pending'[visiting] = pending[visiting] \cup {"USR2"}
    BY <1>4, <1>9 DEF CheckHang
  <2>2. TakenToHang(visiting) => Stuck(visiting)
    BY <1>2, <2>1 DEF TakenToHang, Uncompared, Prompt
  <2>3. \A w \in Units :
          "USR2" \in pending'[w] => pc'[w] = "exec" /\ Outcome[page'[w]] = "HANG"
    BY <1>1, <1>2, <2>1, <2>2 DEF Stuck
  <2>4. \A w \in Units : oldNumInstrExec'[w] <= numInstrExec'[w]
    BY <1>2, <1>4, <2>1
  <2>5. \A w \in todo : Prompt(w)'
    <3>1. \A w \in todo : Prompt(w) /\ w \in Units \ {visiting}
      BY <1>2, <1>4, <2>1 DEF Uncompared
    <3> QED
      BY <1>1, <1>4, <2>1, <3>1 DEF Prompt, Stuck
  <2> QED
    BY <1>3, <2>1, <2>3, <2>4, <2>5 DEF PromptInv, Uncompared
<1> QED
  BY <1>5, <1>6, <1>7, <1>8, <1>9 DEF ManagerStep

LEMMA PromptNext ==
  ASSUME OneSecondIsLong, TypeOK, PageInv, SignalInv, PromptInv, [Next]_vars
  PROVE  PromptInv'
<1>1. CASE UNCHANGED vars
  <2>1. UNCHANGED <<mgr, threadDataMap, todo, visiting, isStopped, numInstrExec,
                    oldNumInstrExec, pc, pending, page, mask, hangs>>
    BY <1>1 DEF vars, structVars, ctorVars, unitVars
  <2> QED
    BY <2>1 DEF PromptInv, Uncompared, Prompt, Stuck, HangOnlyWhenStuck
<1> QED
  BY <1>1, PromptManager, PromptUnit DEF Next, Terminated

-----------------------------------------------------------------------------
(* Signal masks. *)

LEMMA MaskInit == Init => MaskInv
BY DEF Init, MgrInit, MaskInv

\* Every handler gives back the mask it found.
LEMMA MaskUnit ==
  ASSUME TypeOK, SignalInv, PromptInv, MaskInv, NEW w \in Units, UnitStep(w)
  PROVE  MaskInv' /\ (pc'[w] = "dead" => pc[w] = "init")
<1>1. /\ pc \in [Units -> UnitPCs]
      /\ mask \in [Units -> SUBSET Signals] /\ saved \in [Units -> SUBSET Signals]
  BY DEF TypeOK, UnitTypeOK
<1>2. /\ pc[w] \in {"none", "init", "ready", "exec"} => mask[w] \cap Faults = {}
      /\ pc[w] \in {"entry", "entryWrite", "fault", "fetch", "write", "commit",
                    "return"} => saved[w] \cap Faults = {}
  BY DEF MaskInv
<1>3. /\ pc'[w] \in {"none", "init", "ready", "exec"} => mask'[w] \cap Faults = {}
      /\ pc'[w] \in {"entry", "entryWrite", "fault", "fetch", "write", "commit",
                     "return"} => saved'[w] \cap Faults = {}
      /\ pc'[w] = "dead" => pc[w] = "init"
  <2>1. CASE InitScanner(w) \/ InitFails(w)
    BY <1>1, <1>2, <2>1 DEF InitScanner, InitFails, unitVars
  <2>2. CASE StartSignal(w)
    <3>1. pc[w] \in {"init", "ready"} /\ pc'[w] = "entry" /\ saved'[w] = mask[w]
      BY <1>1, <2>2 DEF StartSignal, SignalInv, Scanning, UnitPCs
    <3> QED
      BY <1>2, <3>1
  <2>3. CASE EntryHandler(w)
    <3>1. /\ pc[w] = "entry" /\ pc'[w] \in {"entryWrite", "stop"}
          /\ UNCHANGED <<mask, saved>>
      BY <2>3, UnitGoes DEF EntryHandler, unitVars
    <3> QED
      BY <1>2, <3>1
  <2>4. CASE EntryReturn(w) \/ FaultReturn(w)
    <3>1. /\ pc[w] \in {"entryWrite", "return"} /\ pc'[w] = "exec"
          /\ mask'[w] = saved[w]
      BY <1>1, <2>4 DEF EntryReturn, FaultReturn
    <3> QED
      BY <1>2, <3>1
  <2>5. CASE Execute(w)
    <3>1. SignalOf(Outcome[page[w]]) \notin mask[w] /\ pc[w] = "exec"
      BY <1>2, <2>5 DEF Execute, SignalOf, Faults
    <3>2. pc'[w] = "fault" /\ saved'[w] = mask[w]
      BY <1>1, <2>5, <3>1 DEF Execute
    <3> QED
      BY <1>2, <3>1, <3>2
  <2>6. CASE Analyse(w) \/ Fetch(w) \/ WriteInstruction(w) \/ Commit(w)
    <3>1. /\ pc[w] \in {"fault", "fetch", "write", "commit"} /\ UNCHANGED saved
          /\ pc'[w] \in {"fetch", "write", "commit", "return", "stop"}
      BY <1>1, <2>6 DEF Analyse, Fetch, WriteInstruction, Commit, unitVars
    <3> QED
      BY <1>2, <3>1
  <2>7. CASE HangHandler(w)
    <3>1. pc[w] = "exec" /\ pc'[w] \in {"exec", "stop"}
      BY <2>7, UnitGoes DEF HangHandler, PromptInv
    <3>2. pc'[w] = "exec" => UNCHANGED mask
      BY <2>7 DEF HangHandler
    <3> QED
      BY <1>2, <3>1, <3>2
  <2>8. CASE StopWorker(w) \/ EndOfRun(w)
    BY <1>1, <2>8 DEF StopWorker, EndOfRun
  <2> QED
    BY <2>1, <2>2, <2>3, <2>4, <2>5, <2>6, <2>7, <2>8 DEF UnitStep
<1>4. \A v \in Units \ {w} :
        pc'[v] = pc[v] /\ mask'[v] = mask[v] /\ saved'[v] = saved[v]
  BY UnitFrame, UnitFrame2
<1> QED
  BY <1>3, <1>4 DEF MaskInv

LEMMA MaskNext ==
  ASSUME TypeOK, SignalInv, PromptInv, MaskInv, [Next]_vars
  PROVE  MaskInv' /\ \A w \in Units : pc'[w] = "dead" => pc[w] \in {"init", "dead"}
<1>1. CASE UNCHANGED <<pc, mask, saved>>
  BY <1>1 DEF MaskInv
<1>2. CASE Fork /\ ManagerStep
  <2>1. /\ pc' = [pc EXCEPT ![idx] = "init"] /\ UNCHANGED <<mask, saved>>
        /\ mgr = "fork"
    BY <1>2, ManagerFrame DEF Fork, unitVars
  <2>2. \A w \in Units : mask[w] = {}
    BY <2>1 DEF SignalInv
  <2>3. \A w \in Units : pc'[w] = pc[w] \/ pc'[w] = "init"
    BY <2>1 DEF TypeOK, UnitTypeOK
  <2> QED
    BY <2>1, <2>2, <2>3 DEF MaskInv
<1>3. CASE ManagerStep
  BY <1>1, <1>2, <1>3, ManagerFrame DEF unitVars
<1>4. ASSUME NEW w \in Units, UnitStep(w)
      PROVE  /\ MaskInv'
             /\ \A v \in Units : pc'[v] = "dead" => pc[v] \in {"init", "dead"}
  BY <1>4, MaskUnit, UnitFrame
<1>5. CASE UNCHANGED vars
  BY <1>1, <1>5 DEF vars, unitVars
<1> QED
  BY <1>3, <1>4, <1>5 DEF Next, Terminated

-----------------------------------------------------------------------------
(* SIGUSR2 and the masks need no assumption on the range. *)

TimelyInv == TypeOK /\ PageInv /\ SignalInv /\ PromptInv /\ MaskInv

THEOREM Timely == OneSecondIsLong /\ Spec => []TimelyInv
<1>1. Init => TimelyInv
  BY TypingInit, SignalInit, PromptInit, MaskInit DEF TimelyInv
<1>2. ASSUME OneSecondIsLong PROVE Spec => []TimelyInv
  <2>1. TimelyInv /\ [Next]_vars => TimelyInv'
    BY <1>2, TypingNext, SignalNext, PromptNext, MaskNext DEF TimelyInv
  <2> QED
    BY <1>1, <2>1, PTL DEF Spec
<1> QED
  BY <1>2

\* Only an instruction that hangs is ever reported to hang.
THEOREM HangOnlyWhenStuckThm ==
  OneSecondIsLong /\ Spec => []HangOnlyWhenStuck
<1>1. TimelyInv => HangOnlyWhenStuck
  BY DEF TimelyInv, PromptInv
<1> QED
  BY <1>1, Timely, PTL

\* No unit that came up dies: SIGUSR2 never leaves a fault blocked.
THEOREM NobodyDiesThm == OneSecondIsLong /\ Spec => NobodyDies
<1> DEFINE A == \A w \in Units : pc[w] \notin {"init", "dead"} => pc'[w] # "dead"
<1>1. TimelyInv /\ [Next]_vars => [A]_vars
  BY MaskNext DEF TimelyInv
<1>2. ASSUME OneSecondIsLong PROVE Spec => [][A]_vars
  <2>1. Spec => []TimelyInv
    BY <1>2, Timely
  <2> QED
    BY <1>1, <2>1, PTL DEF Spec
<1> QED
  BY <1>2 DEF NobodyDies

-----------------------------------------------------------------------------
(* The set-up. *)

LEMMA SetupInit == Init => SetupInv
BY DEF Init, MgrInit, SetupInv, Scanning, SettingUp

\* A unit is ready once and for all, and does nothing before the signal.
LEMMA SetupUnit ==
  ASSUME TimelyInv, SetupInv, NEW w \in Units, UnitStep(w)
  PROVE  SetupInv'
<1>1. /\ mgr' = mgr
      /\ \A v \in Units \ {w} : /\ pc'[v] = pc[v] /\ pending'[v] = pending[v]
                                /\ isReady'[v] = isReady[v]
  BY UnitFrame, UnitFrame2 DEF TimelyInv, managerVars
<1>2. /\ pc \in [Units -> UnitPCs] /\ isReady \in [Units -> BOOLEAN]
      /\ pending \in [Units -> SUBSET {"USR1", "USR2"}]
  BY DEF TimelyInv, TypeOK, StructTypeOK, UnitTypeOK
<1>3. CASE InitScanner(w)
  <2>1. /\ pc[w] = "init" /\ pc'[w] = "ready" /\ isReady'[w]
        /\ UNCHANGED <<pending, analysed>>
    BY <1>2, <1>3 DEF InitScanner
  <2> QED
    BY <1>1, <2>1 DEF SetupInv, Scanning, UnitPCs
<1>4. CASE InitFails(w)
  <2>1. /\ pc[w] = "init" /\ pc'[w] = "dead"
        /\ UNCHANGED <<isReady, pending, analysed>>
    BY <1>2, <1>4 DEF InitFails, unitVars
  <2> QED
    BY <1>1, <2>1 DEF SetupInv, Scanning, UnitPCs
<1>5. CASE ~ InitScanner(w) /\ ~ InitFails(w)
  <2>1. UNCHANGED isReady
    BY <1>5 DEF UnitStep, StartSignal, EntryHandler, EntryReturn, Execute,
       Analyse, Fetch, WriteInstruction, Commit, FaultReturn, HangHandler,
       StopWorker, EndOfRun
  <2>2. pc[w] \in Scanning \/ pending[w] # {}
    <3>1. pending[w] # {} \/ ~ (StartSignal(w) \/ HangHandler(w))
      BY DEF StartSignal, HangHandler
    <3>2. \/ pending[w] # {}
          \/ pc[w] \in {"entry", "entryWrite", "exec", "fault", "fetch",
                        "write", "commit", "return", "stop", "stopping"}
      BY <1>5, <3>1, UnitGoes DEF UnitStep, TimelyInv
    <3> QED
      BY <3>2 DEF Scanning, UnitPCs
  <2>3. mgr \notin SettingUp
    BY <2>2 DEF SetupInv
  <2>4. pc'[w] \notin {"none", "init", "dead"}
    <3>1. pc'[w] \notin {"none", "init"}
      BY <1>5, UnitGoes DEF UnitStep, TimelyInv
    <3>2. isReady[w]
      BY <2>3 DEF SetupInv
    <3>3. pc'[w] # "dead"
      BY <3>2, MaskUnit DEF SetupInv, TimelyInv
    <3> QED
      BY <3>1, <3>3
  <2> QED
    BY <1>1, <2>1, <2>3, <2>4 DEF SetupInv
<1> QED
  BY <1>3, <1>4, <1>5

\* The manager signals only a full set of units that are ready, and dies of
\* a child only before.
LEMMA SetupManager ==
  ASSUME TypeOK, CtorInv, SignalInv, SetupInv, ManagerStep
  PROVE  SetupInv'
<1>1. UNCHANGED analysed
  BY ManagerFrame DEF unitVars
<1>2. /\ pc \in [Units -> UnitPCs] /\ isReady \in [Units -> BOOLEAN]
      /\ pending \in [Units -> SUBSET {"USR1", "USR2"}]
  BY DEF TypeOK, StructTypeOK, UnitTypeOK
<1>3. CASE Fork
  <2>1. /\ pc' = [pc EXCEPT ![idx] = "init"]
        /\ isReady' = [isReady EXCEPT ![idx] = FALSE]
        /\ UNCHANGED pending /\ mgr = "fork" /\ mgr' = "insert"
    BY <1>3 DEF Fork, LocalScannerInit
  <2>2. \A w \in Units : pc[w] \notin Scanning /\ pending[w] = {}
    BY <2>1 DEF SignalInv
  <2>3. \A w \in Units : pc'[w] \notin Scanning /\ pending'[w] = {}
    BY <1>2, <2>1, <2>2 DEF Scanning
  <2>4. \A w \in Units : isReady'[w] => pc'[w] \notin {"none", "init", "dead"}
    BY <1>2, <2>1 DEF SetupInv
  <2> QED
    BY <1>1, <2>1, <2>3, <2>4 DEF SetupInv, SettingUp
<1>4. CASE runScanners
  <2>1. /\ UNCHANGED <<pc, isReady>> /\ mgr = "wait" /\ mgr' = "run"
        /\ \A w \in threadDataMap : isReady[w]
    BY <1>4 DEF runScanners, structVars
  <2>2. threadDataMap = Units
    BY <2>1 DEF CtorInv, Exited, Units
  <2> QED
    BY <1>1, <2>1, <2>2 DEF SetupInv, SettingUp
<1>5. CASE ChildDeath
  <2>1. UNCHANGED <<pc, pending, isReady>> /\ mgr' = "crashed"
        /\ \E w \in Units : pc[w] = "dead"
    BY <1>5 DEF ChildDeath, structVars
  <2>2. mgr \in SettingUp
    BY <2>1 DEF SetupInv
  <2> QED
    BY <1>1, <2>1, <2>2 DEF SetupInv, SettingUp
<1>6. CASE Insert \/ CtorFails
  <2>1. /\ UNCHANGED <<pc, pending, isReady>>
        /\ mgr \in SettingUp /\ mgr' \in SettingUp
    BY <1>6 DEF Insert, CtorFails, structVars, SettingUp
  <2> QED
    BY <1>1, <2>1 DEF SetupInv
<1>7. CASE CheckHang
  <2>1. /\ UNCHANGED <<pc, isReady>>
        /\ mgr \notin SettingUp /\ mgr' \notin SettingUp
    BY <1>7 DEF CheckHang, SettingUp
  <2> QED
    BY <2>1 DEF SetupInv
<1>8. CASE \/ TimelyAlarm \/ PerfStore \/ PerfDone \/ AlarmReturn
           \/ \E w \in Units : PerfRead(w) \/ CheckStopped(w)
  <2>1. /\ UNCHANGED <<pc, pending, isReady>>
        /\ mgr \notin SettingUp /\ mgr' \notin SettingUp
    BY <1>8 DEF TimelyAlarm, Alarm, PerfStore, PerfDone, AlarmReturn,
       PerfRead, CheckStopped, structVars, SettingUp
  <2> QED
    BY <2>1 DEF SetupInv
<1> QED
  BY <1>3, <1>4, <1>5, <1>6, <1>7, <1>8 DEF ManagerStep

LEMMA SetupNext ==
  ASSUME TimelyInv, CtorInv, SetupInv, [Next]_vars
  PROVE  SetupInv'
<1>1. CASE UNCHANGED vars
  <2>1. UNCHANGED <<mgr, pc, pending, isReady, analysed>>
    BY <1>1 DEF vars, structVars, unitVars
  <2> QED
    BY <2>1 DEF SetupInv
<1> QED
  BY <1>1, SetupManager, SetupUnit DEF Next, Terminated, TimelyInv

-----------------------------------------------------------------------------
(* What has been analysed. *)

LEMMA CountInit == ProperRange /\ Init => CountInv
<1> SUFFICES ASSUME ProperRange, Init,
                    NEW w \in Units, NEW k \in UnitFirst(w) .. UnitLast(w)
             PROVE  analysed[k] = IF Passed(w, k) /\ ~ search(k) THEN 1 ELSE 0
  BY DEF CountInv
<1> QED
  BY PartType DEF Init, MgrInit, Passed

\* What analyse() finds, in faultHandler and in hangHandler: an instruction
\* of the unit's part, on the page, that was not analysed before.
LEMMA AnalysisFacts ==
  ASSUME JobInv, ProperRange, NEW w \in Units, Analyse(w) \/ HangHandler(w)
  PROVE  LET c == currentInstruction[w]
         IN  /\ pc[w] \in {"fault", "exec"} /\ page[w] = c
             /\ HangHandler(w) <=> Outcome[c] = "HANG"
             /\ c \in UnitFirst(w) .. UnitLast(w) /\ ~ search(c)
             /\ analysed[c] = 0
             /\ analysed' = [analysed EXCEPT ![c] = 1]
<1> DEFINE c == currentInstruction[w]
<1>1. pc[w] \in {"fault", "exec"} /\ page[w] = c
  BY DEF Analyse, HangHandler, JobInv, IInv, PageInv, PromptInv
<1>2. HangHandler(w) <=> Outcome[c] = "HANG"
  <2>1. Analyse(w) => pc[w] = "fault" /\ Outcome[c] # "HANG"
    BY <1>1 DEF Analyse, JobInv, IInv, PageInv
  <2>2. HangHandler(w) => pc[w] = "exec" /\ Outcome[c] = "HANG"
    BY <1>1 DEF HangHandler, JobInv, PromptInv
  <2> QED
    BY <2>1, <2>2
<1>3. c \in UnitFirst(w) .. UnitLast(w) /\ ~ search(c)
  BY <1>1 DEF JobInv, IInv, RangeInv, CleanInv, search
<1>4. c \in instr_t /\ c \in Int
  BY <1>3, PartType DEF instr_t
<1>5. analysed[c] = 0
  <2>1. ~ Passed(w, c)
    BY <1>1, <1>4 DEF Passed, Halted
  <2> QED
    BY <1>3, <2>1 DEF JobInv, CountInv
<1>6. analysed' = [analysed EXCEPT ![c] = @ + 1]
  BY DEF Analyse, HangHandler
<1>7. analysed' = [analysed EXCEPT ![c] = 1]
  BY <1>4, <1>5, <1>6 DEF JobInv, IInv, TypeOK, UnitTypeOK
<1> QED
  BY <1>1, <1>2, <1>3, <1>5, <1>7

\* CountInv for one unit
Counted(w) ==
  \A k \in UnitFirst(w) .. UnitLast(w) :
    analysed[k] = IF Passed(w, k) /\ ~ search(k) THEN 1 ELSE 0

\* What a unit passes it has analysed, just once, or it is blacklisted.
LEMMA CountUnit ==
  ASSUME JobInv, ProperRange, NEW w \in Units, UnitStep(w)
  PROVE  CountInv'
<1> DEFINE c == currentInstruction[w]
           Past == {"fetch", "write", "commit"} \cup Halted
<1>1. \A v \in Units : UnitFirst(v)' = UnitFirst(v) /\ UnitLast(v)' = UnitLast(v)
  BY DEF UnitFirst, UnitLast
<1>2. TypeOK /\ Frame /\ RangeInv
  BY DEF JobInv, IInv, Frame
<1>3. /\ pc \in [Units -> UnitPCs] /\ analysed \in [instr_t -> Nat]
      /\ currentInstruction \in [Units -> instr_t] /\ c \in Int
  BY <1>2 DEF TypeOK, StructTypeOK, UnitTypeOK, instr_t
<1>4. UNCHANGED analysed \/ Analyse(w) \/ HangHandler(w)
  BY DEF UnitStep, InitScanner, InitFails, StartSignal, EntryHandler,
     EntryReturn, Execute, Fetch, WriteInstruction, Commit, FaultReturn,
     StopWorker, EndOfRun, unitVars
<1>5. ASSUME NEW v \in Units \ {w} PROVE Counted(v)'
  <2>1. ASSUME NEW k \in UnitFirst(v) .. UnitLast(v) PROVE analysed'[k] = analysed[k]
    <3>1. Analyse(w) \/ HangHandler(w) =>
            k # c /\ analysed' = [analysed EXCEPT ![c] = 1]
      BY AnalysisFacts, OwnPart
    <3>2. k \in instr_t
      BY PartType
    <3> QED
      BY <1>3, <1>4, <3>1, <3>2
  <2>2. \A k : Passed(v, k)' <=> Passed(v, k)
    BY <1>2, UnitFrame DEF Passed
  <2> QED
    BY <1>1, <2>1, <2>2 DEF Counted, JobInv, CountInv
<1>6. Counted(w)
  BY DEF JobInv, CountInv, Counted
<1>7. /\ UnitFirst(w) \in Int /\ UnitLast(w) \in Int
      /\ pc[w] # "none" => c \in UnitFirst(w) .. UnitLast(w)
  BY <1>2, PartFacts DEF instr_t, RangeInv
<1>8. ASSUME /\ pc[w] # "none" /\ pc'[w] # "none"
             /\ \A k \in UnitFirst(w) .. UnitLast(w) :
                  analysed'[k] = IF k <= c /\ ~ search(k) THEN 1 ELSE 0,
             \/ pc'[w] \in Past /\ currentInstruction'[w] = c
             \/ /\ pc'[w] \notin Past
                /\ currentInstruction'[w] \in c + 1 .. UnitLast(w)
                /\ c + 1 .. currentInstruction'[w] - 1 \subseteq Blacklist
      PROVE  Counted(w)'
  <2>1. ASSUME NEW k \in UnitFirst(w) .. UnitLast(w)
        PROVE  \/ Passed(w, k)' <=> k <= c
               \/ search(k) /\ (k <= c => Passed(w, k)')
    <3>1. k \in Int
      BY <1>7
    <3>2. CASE pc'[w] \in Past /\ currentInstruction'[w] = c
      BY <1>3, <1>8, <3>1, <3>2 DEF Passed
    <3>3. CASE /\ pc'[w] \notin Past
               /\ currentInstruction'[w] \in c + 1 .. UnitLast(w)
               /\ c + 1 .. currentInstruction'[w] - 1 \subseteq Blacklist
      <4>1. Passed(w, k)' <=> k < currentInstruction'[w]
        BY <1>8, <3>3 DEF Passed
      <4>2. k <= c \/ k >= currentInstruction'[w] \/ k \in Blacklist
        BY <1>3, <1>7, <3>1, <3>3
      <4>3. currentInstruction'[w] \in Int /\ currentInstruction'[w] > c
        BY <1>3, <1>7, <3>3
      <4> QED
        BY <1>3, <3>1, <4>1, <4>2, <4>3 DEF search
    <3> QED
      BY <1>8, <3>2, <3>3
  <2> QED
    BY <1>1, <1>8, <2>1 DEF Counted
<1>9. ASSUME UNCHANGED analysed, pc[w] # "none",
             pc[w] \in Past \/ search(c)
      PROVE  \A k \in UnitFirst(w) .. UnitLast(w) :
               analysed'[k] = IF k <= c /\ ~ search(k) THEN 1 ELSE 0
  <2> SUFFICES ASSUME NEW k \in UnitFirst(w) .. UnitLast(w)
               PROVE  analysed[k] = IF k <= c /\ ~ search(k) THEN 1 ELSE 0
    BY <1>9
  <2>1. k \in Int
    BY <1>7
  <2>2. Passed(w, k) <=> k < c \/ (k = c /\ pc[w] \in Past)
    BY <1>9 DEF Passed
  <2> QED
    BY <1>3, <1>6, <1>9, <2>1, <2>2 DEF Counted
<1>10. ASSUME Analyse(w) \/ HangHandler(w)
       PROVE  \A k \in UnitFirst(w) .. UnitLast(w) :
                analysed'[k] = IF k <= c /\ ~ search(k) THEN 1 ELSE 0
  <2> SUFFICES ASSUME NEW k \in UnitFirst(w) .. UnitLast(w)
               PROVE  analysed'[k] = IF k <= c /\ ~ search(k) THEN 1 ELSE 0
    OBVIOUS
  <2>1. k \in Int /\ k \in instr_t /\ c \in instr_t
    BY <1>3, <1>7, PartType
  <2>2. /\ pc[w] \in {"fault", "exec"} /\ ~ search(c)
        /\ analysed' = [analysed EXCEPT ![c] = 1]
    BY <1>10, AnalysisFacts
  <2>3. Passed(w, k) <=> k < c
    BY <2>2 DEF Passed, Halted
  <2>4. analysed[k] = IF k < c /\ ~ search(k) THEN 1 ELSE 0
    BY <1>6, <2>3 DEF Counted
  <2>5. CASE k = c
    BY <1>3, <2>1, <2>2, <2>5
  <2>6. CASE k # c
    BY <1>3, <2>1, <2>2, <2>4, <2>6
  <2> QED
    BY <2>5, <2>6
<1>11. ASSUME UNCHANGED <<currentInstruction, analysed>>,
              pc[w] # "none", pc'[w] # "none", pc[w] \in Past <=> pc'[w] \in Past
       PROVE  Counted(w)'
  <2>1. \A k : Passed(w, k)' <=> Passed(w, k)
    BY <1>11 DEF Passed
  <2> QED
    BY <1>1, <1>6, <1>11, <2>1 DEF Counted
<1>12. ASSUME NEW next \in UnitPCs \ (Past \cup {"none"}),
              FetchIntoCurrent(w, next), pc[w] # "none", w \in threadDataMap,
              \A k \in UnitFirst(w) .. UnitLast(w) :
                analysed'[k] = IF k <= c /\ ~ search(k) THEN 1 ELSE 0
       PROVE  Counted(w)'
  <2>1. \/ pc'[w] = "stop" /\ currentInstruction'[w] = c
        \/ /\ pc'[w] = next
           /\ currentInstruction'[w] \in c + 1 .. UnitLast(w)
           /\ c + 1 .. currentInstruction'[w] - 1 \subseteq Blacklist
    BY <1>2, <1>12, FetchIntoInPart
  <2>2. "stop" \in Past /\ next \notin Past /\ next # "none" /\ "stop" # "none"
    BY <1>12 DEF Halted
  <2> QED
    BY <1>8, <1>12, <2>1, <2>2
<1>13. Counted(w)'
  <2>1. CASE Analyse(w)
    <3>1. pc[w] = "fault" /\ pc'[w] = "fetch" /\ UNCHANGED currentInstruction
      BY <1>2, <2>1, UnitGoes DEF Analyse
    <3> QED
      BY <1>8, <1>10, <2>1, <3>1
  <2>2. CASE HangHandler(w)
    <3>1. /\ FetchIntoCurrent(w, "exec") /\ "exec" \in UnitPCs \ (Past \cup {"none"})
          /\ pc[w] # "none"
      BY <2>2 DEF HangHandler, UnitPCs, Halted
    <3>2. w \in threadDataMap
      BY <1>2, <2>2 DEF HangHandler, Frame, StartInv
    <3> QED
      BY <1>10, <1>12, <2>2, <3>1, <3>2
  <2>3. CASE EntryHandler(w) /\ search(c)
    <3>1. /\ FetchIntoCurrent(w, "entryWrite") /\ UNCHANGED analysed
          /\ "entryWrite" \in UnitPCs \ (Past \cup {"none"})
          /\ pc[w] = "entry"
      BY <2>3 DEF EntryHandler, UnitPCs, Halted, unitVars
    <3>2. w \in threadDataMap
      BY <1>2, <3>1 DEF Frame, StartInv, Scanning, UnitPCs
    <3> QED
      BY <1>9, <1>12, <2>3, <3>1, <3>2
  <2>4. CASE Commit(w)
    <3>1. /\ pc[w] = "commit" /\ pc'[w] = "return" /\ UNCHANGED analysed
          /\ currentInstruction'[w] = nextInstruction[w]
      BY <1>3, <2>4 DEF Commit, unitVars
    <3>2. /\ nextInstruction[w] \in c + 1 .. UnitLast(w)
          /\ c + 1 .. nextInstruction[w] - 1 \subseteq Blacklist
      BY <1>2, <3>1 DEF RangeInv
    <3>3. "return" \notin Past /\ "commit" \in Past
      BY DEF Halted
    <3>4. \A k \in UnitFirst(w) .. UnitLast(w) :
            analysed'[k] = IF k <= c /\ ~ search(k) THEN 1 ELSE 0
      BY <1>9, <3>1, <3>3
    <3> QED
      BY <1>8, <3>1, <3>2, <3>3, <3>4
  <2>5. CASE \/ InitScanner(w) \/ InitFails(w) \/ StartSignal(w)
             \/ (EntryHandler(w) /\ ~ search(c)) \/ EntryReturn(w)
             \/ Execute(w) \/ FaultReturn(w)
    <3>1. UNCHANGED <<currentInstruction, analysed>>
      BY <2>5 DEF InitScanner, InitFails, StartSignal, EntryHandler,
         EntryReturn, Execute, FaultReturn, unitVars
    <3>2. /\ pc[w] # "none" /\ pc[w] \notin Past
          /\ pc'[w] # "none" /\ pc'[w] \notin Past
      <4>1. StartSignal(w) => pc[w] \in {"init", "ready"}
        BY <1>3 DEF StartSignal, JobInv, IInv, SignalInv, Scanning, UnitPCs
      <4>2. EntryHandler(w) /\ ~ search(c) => pc[w] = "entry" /\ pc'[w] = "entryWrite"
        BY <1>3 DEF EntryHandler
      <4> QED
        BY <1>2, <2>5, <4>1, <4>2, UnitGoes DEF Halted
    <3> QED
      BY <1>11, <3>1, <3>2
  <2>6. CASE Fetch(w) \/ WriteInstruction(w) \/ StopWorker(w) \/ EndOfRun(w)
    <3>1. UNCHANGED <<currentInstruction, analysed>>
      BY <2>6 DEF Fetch, WriteInstruction, StopWorker, EndOfRun, unitVars
    <3>2. /\ pc[w] # "none" /\ pc[w] \in Past
          /\ pc'[w] # "none" /\ pc'[w] \in Past
      BY <1>2, <2>6, UnitGoes DEF Halted
    <3> QED
      BY <1>11, <3>1, <3>2
  <2> QED
    BY <2>1, <2>2, <2>3, <2>4, <2>5, <2>6 DEF UnitStep
<1> QED
  BY <1>5, <1>13 DEF Counted, CountInv

\* Nothing is counted while the units are being set up.
LEMMA CountNext ==
  ASSUME JobInv, ProperRange, [Next]_vars
  PROVE  CountInv'
<1>1. CASE UNCHANGED <<pc, currentInstruction, analysed>>
  BY <1>1 DEF JobInv, CountInv, Passed, UnitFirst, UnitLast
<1>2. CASE ManagerStep /\ Fork
  <2>1. /\ UNCHANGED analysed /\ mgr = "fork" /\ idx \in Units
        /\ pc' = [pc EXCEPT ![idx] = "init"]
        /\ currentInstruction' =
             [currentInstruction EXCEPT ![idx] = startInstruction % InstrMod]
    BY <1>2, ManagerFrame
    DEF Fork, unitVars, JobInv, IInv, TypeOK, ManagerTypeOK
  <2>2. startInstruction % InstrMod = UnitFirst(idx)
    <3>1. startInstruction = UnitFirst(idx) /\ UnitFirst(idx) \in instr_t
      BY <2>1, PartFacts DEF JobInv, IInv, CtorInv
    <3> QED
      BY <3>1, FeederAssumption DEF instr_t
  <2>3. /\ pc \in [Units -> UnitPCs] /\ currentInstruction \in [Units -> instr_t]
    BY DEF JobInv, IInv, TypeOK, StructTypeOK, UnitTypeOK
  <2>4. ASSUME NEW v \in Units, NEW k \in UnitFirst(v) .. UnitLast(v)
        PROVE  analysed'[k] = IF Passed(v, k)' /\ ~ search(k) THEN 1 ELSE 0
    <3>1. analysed[k] = 0
      BY <2>1, PartType DEF JobInv, SetupInv, SettingUp
    <3>2. CASE v = idx
      <4>1. pc'[v] = "init" /\ currentInstruction'[v] = UnitFirst(v)
        BY <2>1, <2>2, <2>3, <3>2
      <4>2. ~ Passed(v, k)'
        <5>1. UnitFirst(v) \in Int /\ UnitLast(v) \in Int
          BY PartFacts DEF instr_t
        <5> QED
          BY <4>1, <5>1 DEF Passed, Halted
      <4> QED
        BY <2>1, <3>1, <4>2
    <3>3. CASE v # idx
      <4>1. pc'[v] = pc[v] /\ currentInstruction'[v] = currentInstruction[v]
        BY <2>1, <2>3, <3>3
      <4>2. Passed(v, k)' <=> Passed(v, k)
        BY <4>1 DEF Passed
      <4> QED
        BY <2>1, <4>2 DEF JobInv, CountInv
    <3> QED
      BY <3>2, <3>3
  <2>5. \A v \in Units : UnitFirst(v)' = UnitFirst(v) /\ UnitLast(v)' = UnitLast(v)
    BY DEF UnitFirst, UnitLast
  <2> QED
    BY <2>4, <2>5 DEF CountInv
<1>3. CASE UNCHANGED vars
  BY <1>1, <1>3 DEF vars, structVars, unitVars
<1>4. CASE ManagerStep
  BY <1>1, <1>2, <1>4, ManagerFrame DEF unitVars
<1> QED
  BY <1>3, <1>4, CountUnit DEF Next, Terminated

-----------------------------------------------------------------------------
(* All of it. *)

LEMMA JobInvNext ==
  OneSecondIsLong /\ ProperRange /\ JobInv /\ [Next]_vars => JobInv'
<1> SUFFICES ASSUME OneSecondIsLong, ProperRange, JobInv, [Next]_vars
             PROVE  JobInv'
  OBVIOUS
<1>1. TimelyInv /\ CtorInv
  BY DEF JobInv, IInv, TimelyInv
<1>2. IInv'
  BY IInvNext DEF JobInv
<1>3. PromptInv' /\ MaskInv'
  BY <1>1, PromptNext, MaskNext DEF TimelyInv
<1>4. SetupInv' /\ CountInv'
  BY <1>1, SetupNext, CountNext DEF JobInv
<1> QED
  BY <1>2, <1>3, <1>4 DEF JobInv

\* The whole invariant holds when the range is one and alarms are not early.
THEOREM JobInvariant == ProperRange /\ OneSecondIsLong /\ Spec => []JobInv
<1>1. ASSUME ProperRange, OneSecondIsLong PROVE Spec => []JobInv
  <2>1. Init => JobInv
    BY <1>1, IInvInit, PromptInit, MaskInit, SetupInit, CountInit DEF JobInv
  <2>2. JobInv /\ [Next]_vars => JobInv'
    BY <1>1, JobInvNext
  <2> QED
    BY <2>1, <2>2, PTL DEF Spec
<1> QED
  BY <1>1

-----------------------------------------------------------------------------
(* The memory-cage scan implements ScanJob. *)

\* A unit that has stopped has put its whole part behind it.
LEMMA StoppedPart ==
  ASSUME JobInv, ProperRange, NEW w \in Units, isStopped[w],
         NEW k \in UnitFirst(w) .. UnitLast(w), ~ search(k)
  PROVE  analysed[k] = 1
<1>1. pc[w] \in Halted /\ pc[w] # "none"
  BY DEF JobInv, IInv, StopInv, Halted
<1>2. /\ currentInstruction[w] \in UnitFirst(w) .. UnitLast(w)
      /\ currentInstruction[w] + 1 .. UnitLast(w) \subseteq Blacklist
  BY <1>1 DEF JobInv, IInv, RangeInv
<1>3. UnitFirst(w) \in Int /\ UnitLast(w) \in Int
  BY PartFacts DEF instr_t
<1>4. k \notin currentInstruction[w] + 1 .. UnitLast(w)
  BY <1>2 DEF search
<1>5. Passed(w, k)
  BY <1>1, <1>2, <1>3, <1>4 DEF Passed
<1> QED
  BY <1>5 DEF JobInv, CountInv

\* analyse() in either handler classifies the current instruction.
LEMMA AnalysisClassifies ==
  ASSUME JobInv, ProperRange, NEW w \in Units, Analyse(w) \/ HangHandler(w)
  PROVE  /\ Job!Classify(currentInstruction[w])
         /\ currentInstruction[w] \in instr_t
<1> DEFINE c == currentInstruction[w]
<1>1. /\ pc[w] \in {"fault", "exec"} /\ page[w] = c
      /\ HangHandler(w) <=> Outcome[c] = "HANG"
      /\ c \in UnitFirst(w) .. UnitLast(w) /\ ~ search(c)
      /\ analysed[c] = 0
      /\ analysed' = [analysed EXCEPT ![c] = 1]
  BY AnalysisFacts
<1>2. c \in instr_t /\ c \in First .. Last
  BY <1>1, PartType
<1>3. \A cause : basicAnalysis(c, c, cause) = Job!basicAnalysis(c, c, cause)
  BY DEF basicAnalysis, Report, disassemble, Filler,
         Job!basicAnalysis, Job!Report, Job!disassemble, Job!Filler
<1>4. /\ results' = results \cup Job!Verdict(c)
      /\ hangs' = IF Outcome[c] = "HANG" THEN hangs \cup {c} ELSE hangs
  <2>1. CASE HangHandler(w)
    BY <1>1, <1>3, <2>1 DEF HangHandler, Job!Verdict
  <2>2. CASE ~ HangHandler(w)
    BY <1>1, <1>3, <2>2 DEF Analyse, Job!Verdict
  <2> QED
    BY <2>1, <2>2
<1>5. Status = "scanning" /\ Status' = Status
  <2>1. UNCHANGED mgr /\ pc[w] \in Scanning /\ pc[w] \notin Halted
    BY <1>1 DEF Analyse, HangHandler, managerVars, Scanning, UnitPCs, Halted
  <2>2. mgr \notin {"failed", "crashed"}
    BY <2>1 DEF JobInv, SetupInv, SettingUp
  <2>3. mgr # "finished"
    BY <2>1 DEF JobInv, IInv, StopInv, StartInv
  <2> QED
    BY <2>1, <2>2, <2>3 DEF Status
<1>6. c \in Job!Scope
  BY <1>1, <1>2 DEF Job!Scope, search
<1> QED
  BY <1>1, <1>2, <1>4, <1>5, <1>6 DEF Job!Classify

\* Every step is a step of ScanJob or none.
LEMMA JobStep ==
  ASSUME JobInv, ProperRange, [Next]_vars
  PROVE  [Job!JobNext]_<<Status, analysed, results, hangs>>
<1>1. CASE UNCHANGED <<mgr, analysed, results, hangs>>
  BY <1>1 DEF Status
<1>2. CASE UNCHANGED vars
  BY <1>1, <1>2 DEF vars, unitVars
<1>3. ASSUME NEW w \in Units, UnitStep(w)
      PROVE  [Job!JobNext]_<<Status, analysed, results, hangs>>
  <2>1. CASE Analyse(w) \/ HangHandler(w)
    BY <2>1, AnalysisClassifies DEF Job!JobNext, Job!instr_t, instr_t
  <2>2. CASE ~ (Analyse(w) \/ HangHandler(w))
    <3>1. UNCHANGED <<mgr, analysed, results, hangs>>
      BY <1>3, <2>2
      DEF UnitStep, InitScanner, InitFails, StartSignal, EntryHandler,
          EntryReturn, Execute, Fetch, WriteInstruction, Commit, FaultReturn,
          StopWorker, EndOfRun, unitVars, managerVars
    <3> QED
      BY <1>1, <3>1
  <2> QED
    BY <2>1, <2>2
<1>4. CASE ManagerStep
  <2>1. UNCHANGED <<analysed, results, hangs>>
    BY <1>4, ManagerFrame DEF unitVars
  <2>2. CASE CtorFails \/ ChildDeath
    <3>1. Status = "scanning" /\ Status' = "aborted"
      BY <2>2 DEF CtorFails, ChildDeath, Exited, Status
    <3>2. mgr \in SettingUp
      BY <2>2 DEF CtorFails, ChildDeath, JobInv, SetupInv, SettingUp
    <3>3. Job!Abort
      BY <2>1, <3>1, <3>2
      DEF Job!Abort, Job!instr_t, instr_t, JobInv, SetupInv
    <3> QED
      BY <3>3 DEF Job!JobNext
  <2>3. CASE AlarmReturn /\ allStopped
    <3>1. Status = "scanning" /\ Status' = "finished"
      BY <2>3 DEF AlarmReturn, Status
    <3>2. \A w \in Units : isStopped[w]
      <4>1. mgr = "check" /\ todo = {}
        BY <2>3 DEF AlarmReturn
      <4>2. threadDataMap = Units
        BY <4>1 DEF JobInv, IInv, CtorInv, Exited, Units
      <4> QED
        BY <2>3, <4>1, <4>2 DEF JobInv, IInv, StopInv
    <3>3. ASSUME NEW k \in Job!Scope PROVE analysed[k] = 1
      <4>1. k \in First .. Last /\ ~ search(k)
        BY DEF Job!Scope, search
      <4> QED
        BY <3>2, <4>1, PartsCover, StoppedPart
    <3>4. Job!Finish
      BY <2>1, <3>1, <3>3 DEF Job!Finish
    <3> QED
      BY <3>4 DEF Job!JobNext
  <2>4. CASE AlarmReturn /\ ~ allStopped
    BY <2>1, <2>4 DEF AlarmReturn, Status
  <2>5. CASE ~ CtorFails /\ ~ ChildDeath /\ ~ AlarmReturn
    <3>1. mgr' \notin Exited /\ mgr \notin Exited
      BY <1>4, <2>5 DEF ManagerStep, Fork, Insert, runScanners, TimelyAlarm,
         Alarm, PerfRead, PerfStore, PerfDone, CheckStopped, CheckHang, Exited
    <3> QED
      BY <2>1, <3>1 DEF Status, Exited
  <2> QED
    BY <2>2, <2>3, <2>4, <2>5
<1> QED
  BY <1>2, <1>3, <1>4 DEF Next, Terminated

\* The memory-cage scan does what ScanJob says a scan does, when alarms are
\* not early: each instruction of the range that is not blacklisted is
\* analysed once, by one unit, the lines and the hangs are true, "finished
\* run" comes when all is done, and a scan that is given up has not begun.
THEOREM ImplementsScanJobThm ==
  ProperRange /\ OneSecondIsLong /\ Spec => ImplementsScanJob
<1>1. Init => Job!JobInit
  BY DEF Init, MgrInit, Job!JobInit, Status, Job!instr_t, instr_t
<1>2. ASSUME ProperRange, OneSecondIsLong PROVE Spec => ImplementsScanJob
  <2>1. JobInv /\ [Next]_vars
          => [Job!JobNext]_<<Status, analysed, results, hangs>>
    BY <1>2, JobStep
  <2>2. Spec => []JobInv
    BY <1>2, JobInvariant
  <2> QED
    BY <1>1, <2>1, <2>2, PTL DEF Spec, ImplementsScanJob, Job!JobSpec
<1> QED
  BY <1>2

=============================================================================
