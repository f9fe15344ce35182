------------------------------- MODULE Ptrace -------------------------------
(***************************************************************************)
(* The ptrace scan (-p): the manager of module ScannerManager together     *)
(* with units that single-step a tracee through the instruction on their   *)
(* page.  A unit is a sequential program; signals matter to it only        *)
(* between isReady and the start signal, and the manager observes only     *)
(* isReady, numInstrExec and isStopped.                                    *)
(*                                                                         *)
(* ScannerManagerPtrace repeats the constructor and runScanners of         *)
(* ScannerManagerMC, and registers the same alarmHandler.  It does not     *)
(* handle SIGCHLD, so that a unit's end goes unnoticed, and it sends no    *)
(* SIGUSR2: CheckForHang is ssHang, which every port sets to FALSE on the  *)
(* ground that nothing can hang when it is single-stepped.                 *)
(***************************************************************************)
EXTENDS ScannerManager

ASSUME PtraceAssumption ==
  /\ CheckForHang = FALSE
  /\ \A k \in instr_t : Outcome[k] # "HANG"

VARIABLES
  tracee,     \* the unit's tracee: "none", "alive" or "killed"
  results,    \* the lines of the results/thread files
  analysed,   \* how often each instruction was analysed (history)
  endOfRun    \* has the unit written its end-of-run line?

unitVars == <<tracee, results, analysed, endOfRun>>
\* what only the manager writes
managerVars == <<mgr, ctorVars, todo, visiting, allStopped,
                 performanceLogCount, logged, finalInstruction,
                 oldNumInstrExec, lastPerformanceExec>>
vars == <<mgr, ctorVars, todo, visiting, allStopped, performanceLogCount,
          logged, structVars, pc, pending, unitVars>>

Init ==
  /\ MgrInit
  /\ tracee = [w \in Units |-> "none"]
  /\ results = {}
  /\ analysed = [k \in instr_t |-> 0]
  /\ endOfRun = [w \in Units |-> FALSE]

\* localScannerInit of this manager leaves currentInstructionSize alone: it
\* stays what mmap made it.
currentInstructionSize == 0
instructionSize == 4

\* disassemble reads currentInstructionSize bytes; fewer than an instruction
\* has are no instruction.
disassemblePtrace(onPage) ==
  currentInstructionSize = instructionSize /\ onPage \in Valid

-----------------------------------------------------------------------------
(* initScannerPtrace *)

\* The disassembler is open, isReady is set; the unit is on its way to pause.
InitScannerPtrace(w) ==
  /\ pc[w] = "init"
  /\ isReady' = [isReady EXCEPT ![w] = TRUE]
  /\ pc' = [pc EXCEPT ![w] = "ready"]
  /\ UNCHANGED <<managerVars, currentInstruction, isStopped, numInstrExec,
                 pending, unitVars>>

\* The disassembler cannot be opened: exit(-1)
InitFails(w) ==
  /\ pc[w] = "init"
  /\ pc' = [pc EXCEPT ![w] = "dead"]
  /\ UNCHANGED <<managerVars, currentInstruction, isReady, isStopped,
                 numInstrExec, pending, unitVars>>

Pause(w) ==
  /\ pc[w] = "ready"
  /\ pc' = [pc EXCEPT ![w] = "paused"]
  /\ UNCHANGED <<managerVars, currentInstruction, isReady, isStopped,
                 numInstrExec, pending, unitVars>>

\* startHandlerPtrace does nothing.  The signal ends pause() if the unit is
\* there, and is forgotten if it is not there yet.
startHandlerPtrace(w) ==
  /\ pc[w] \in {"ready", "paused"}
  /\ "USR1" \in pending[w]
  /\ pending' = [pending EXCEPT ![w] = @ \ {"USR1"}]
  /\ pc' = [pc EXCEPT ![w] = IF pc[w] = "paused" THEN "setup" ELSE "ready"]
  /\ UNCHANGED <<managerVars, currentInstruction, isReady, isStopped,
                 numInstrExec, unitVars>>

\* clone, and the tracee's SIGSTOP
TraceeSetup(w) ==
  /\ pc[w] = "setup"
  /\ tracee' = [tracee EXCEPT ![w] = "alive"]
  /\ pc' = [pc EXCEPT ![w] = "search"]
  /\ UNCHANGED <<managerVars, currentInstruction, isReady, isStopped,
                 numInstrExec, pending, results, analysed, endOfRun>>

-----------------------------------------------------------------------------
(* ptraceLoop *)

\* fetchInstruction(data, &data->currentInstruction), having counted n
FetchIntoCurrent(w, n, whenFinished) ==
  \E s \in 0 .. InstrMod - 1 :
    /\ numInstrExec' = [numInstrExec EXCEPT ![w] = @ + n + s]
    /\ \/ /\ FetchYields(currentInstruction[w], finalInstruction[w], s)
          /\ currentInstruction' = [currentInstruction EXCEPT
                                      ![w] = Plus(currentInstruction[w], s + 1)]
          /\ pc' = [pc EXCEPT ![w] = "step"]
       \/ /\ FetchFinishes(currentInstruction[w], finalInstruction[w], s)
          /\ pc' = [pc EXCEPT ![w] = whenFinished]
          /\ UNCHANGED currentInstruction

\* Mutant: the first instruction is not looked up in the blacklist.
SearchFirstMutant(w) ==
  /\ pc[w] = "search"
  /\ pc' = [pc EXCEPT ![w] = "step"]
  /\ UNCHANGED <<managerVars, currentInstruction, numInstrExec, isReady,
                 isStopped, pending, unitVars>>

\* A part that starts on a blacklisted instruction.  If there is no other
\* the result goes to a second `finished', and the unit to stopWorker.
SearchFirst(w) ==
  /\ pc[w] = "search"
  /\ IF search(currentInstruction[w])
       THEN FetchIntoCurrent(w, 0, "stopWorker")
       ELSE /\ pc' = [pc EXCEPT ![w] = "step"]
            /\ UNCHANGED <<currentInstruction, numInstrExec>>
  /\ UNCHANGED <<managerVars, isReady, isStopped, pending, unitVars>>

\* Write the instruction, step the tracee twice, analyse what came back.
StepTracee(w) ==
  /\ pc[w] = "step"
  /\ LET k == currentInstruction[w]
     IN /\ results' =
             results \cup Report(disassemblePtrace(k), k, Outcome[k])
        /\ analysed' = [analysed EXCEPT ![k] = @ + 1]
  /\ pc' = [pc EXCEPT ![w] = "fetch"]
  /\ UNCHANGED <<managerVars, currentInstruction, isReady, isStopped,
                 numInstrExec, pending, tracee, endOfRun>>

\* numInstrExec++; finished = fetchInstruction(...)
Fetch(w) ==
  /\ pc[w] = "fetch"
  /\ FetchIntoCurrent(w, 1, "kill")
  /\ UNCHANGED <<managerVars, isReady, isStopped, pending, unitVars>>

\* Mutant: the tracee is not killed.
KillTraceeMutant(w) ==
  /\ pc[w] = "kill"
  /\ pc' = [pc EXCEPT ![w] = "stop"]
  /\ UNCHANGED <<managerVars, currentInstruction, isReady, isStopped,
                 numInstrExec, pending, unitVars>>

KillTracee(w) ==
  /\ pc[w] = "kill"
  /\ tracee' = [tracee EXCEPT ![w] = "killed"]
  /\ pc' = [pc EXCEPT ![w] = "stop"]
  /\ UNCHANGED <<managerVars, currentInstruction, isReady, isStopped,
                 numInstrExec, pending, results, analysed, endOfRun>>

\* Mutant: isStopped is left to stopWorker.
StopMutant(w) ==
  /\ pc[w] \in {"stop", "stopWorker"}
  /\ isStopped' = [isStopped EXCEPT ![w] = pc[w] = "stopWorker"]
  /\ pc' = [pc EXCEPT ![w] = IF @ = "stop" THEN "exit" ELSE "waitForever"]
  /\ UNCHANGED <<managerVars, currentInstruction, isReady, numInstrExec,
                 pending, unitVars>>

\* isStopped is set, at the end of the loop or in stopWorker ...
Stop(w) ==
  /\ pc[w] \in {"stop", "stopWorker"}
  /\ isStopped' = [isStopped EXCEPT ![w] = TRUE]
  /\ pc' = [pc EXCEPT ![w] = IF @ = "stop" THEN "exit" ELSE "waitForever"]
  /\ UNCHANGED <<managerVars, currentInstruction, isReady, numInstrExec,
                 pending, unitVars>>

\* ... then the end-of-run line is written, and the unit exits or, in
\* stopWorker, waits forever.
EndOfRun(w) ==
  /\ pc[w] \in {"exit", "waitForever"}
  /\ endOfRun' = [endOfRun EXCEPT ![w] = TRUE]
  /\ pc' = [pc EXCEPT ![w] = IF @ = "exit" THEN "exited" ELSE "stopped"]
  /\ UNCHANGED <<managerVars, currentInstruction, isReady, isStopped,
                 numInstrExec, pending, tracee, results, analysed>>

-----------------------------------------------------------------------------
(* The whole system. *)

Exited == {"finished", "failed"}

\* ScannerManagerPtrace::ScannerManagerPtrace
Constructor == Fork \/ CtorFails \/ Insert

\* runScanners polls on while a unit is not ready.
Polling ==
  /\ mgr = "wait"
  /\ \E w \in threadDataMap : ~ isReady[w]
  /\ UNCHANGED <<mgr, ctorVars, todo, visiting, allStopped,
                 performanceLogCount, logged, structVars, pc, pending>>

\* Mutant: one unit that is ready is enough.
runScannersPtraceMutant ==
  \/ Polling
  \/ /\ mgr = "wait"
     /\ \E w \in threadDataMap : isReady[w]
     /\ pending' = [w \in Units |-> pending[w] \cup {"USR1"}]
     /\ mgr' = "run"
     /\ UNCHANGED <<ctorVars, todo, visiting, allStopped,
                    performanceLogCount, logged, structVars, pc>>

runScannersPtrace == runScanners \/ Polling

\* the handler registered for SIGALRM
AlarmHandler ==
  \/ Alarm \/ PerfStore \/ PerfDone \/ CheckHang \/ AlarmReturn
  \/ \E w \in Units : PerfRead(w) \/ CheckStopped(w)

ManagerStep ==
  /\ Constructor \/ runScannersPtrace \/ AlarmHandler
  /\ UNCHANGED unitVars

UnitStep(w) ==
  \/ InitScannerPtrace(w) \/ InitFails(w) \/ Pause(w)
  \/ startHandlerPtrace(w) \/ TraceeSetup(w)
  \/ SearchFirst(w) \/ StepTracee(w) \/ Fetch(w)
  \/ KillTracee(w) \/ Stop(w) \/ EndOfRun(w)

\* Once the manager has exited and no unit has a step left, nothing happens.
Terminated ==
  /\ mgr \in Exited
  /\ UNCHANGED vars

Next ==
  \/ ManagerStep
  \/ \E w \in Units : UnitStep(w)
  \/ Terminated

Spec == Init /\ [][Next]_vars

\* The processes are scheduled, and the alarm goes off again and again.
FairSpec ==
  /\ Spec
  /\ WF_vars(ManagerStep)
  /\ \A w \in Units : WF_vars(UnitStep(w))

-----------------------------------------------------------------------------
(* Properties. *)

UnitPCs == {"none", "init", "ready", "paused", "setup", "search", "step",
            "fetch", "kill", "stop", "stopWorker", "exit", "waitForever",
            "exited", "stopped", "dead"}
ManagerPCs == {"fork", "insert", "wait", "run", "perf", "perfStore", "check",
               "checkHang"} \cup Exited

\* Every variable keeps its type; the counters never become negative.
TypeOK ==
  /\ mgr \in ManagerPCs /\ idx \in 0 .. numThreads
  /\ startInstruction \in Nat /\ lastOfPart \in Nat
  /\ threadDataMap \subseteq Units /\ todo \subseteq Units
  /\ visiting \in Units /\ allStopped \in BOOLEAN
  /\ performanceLogCount \in 0 .. SlowFactor - 1
  /\ logged \in [Units -> Int]
  /\ currentInstruction \in [Units -> instr_t]
  /\ finalInstruction \in [Units -> instr_t]
  /\ isReady \in [Units -> BOOLEAN] /\ isStopped \in [Units -> BOOLEAN]
  /\ numInstrExec \in [Units -> Nat]
  /\ oldNumInstrExec \in [Units -> Nat]
  /\ lastPerformanceExec \in [Units -> Nat]
  /\ pc \in [Units -> UnitPCs]
  /\ pending \in [Units -> SUBSET {"USR1"}]
  /\ tracee \in [Units -> {"none", "alive", "killed"}]
  /\ results \subseteq Line
  /\ analysed \in [instr_t -> Nat]
  /\ endOfRun \in [Units -> BOOLEAN]

\* What a ptrace scan looks like from outside.
Status ==
  CASE mgr = "finished" -> "finished"
    [] mgr = "failed"   -> "aborted"
    [] OTHER            -> "scanning"

\* The ptrace scan is the scan ScanJob describes with a disassembler that
\* accepts nothing: each instruction is analysed once, none is reported to
\* hang, and "finished run" comes last.
Job == INSTANCE ScanJob WITH Valid <- {}, hangs <- {}, status <- Status
ImplementsScanJob == Job!JobSpec

\* A unit's tracee outlives its scan only if the unit never stepped it:
\* every instruction of its part is blacklisted.
NoIdleTracee ==
  \A w \in Units :
    isStopped[w] /\ tracee[w] = "alive" =>
      \A k \in currentInstruction[w] .. finalInstruction[w] : search(k)

\* If setting up fails, in the manager or in any unit, no other unit runs an
\* instruction or reports the end of its run: there is no run of a part of
\* the range.
NoPartialRun ==
  mgr = "failed" \/ (\E w \in Units : pc[w] = "dead") =>
    /\ \A k \in instr_t : analysed[k] = 0
    /\ \A w \in Units : tracee[w] = "none" /\ ~ endOfRun[w]

\* Once every unit has taken its start signal, the run ends.
StartedRunEnds ==
  (mgr \notin Exited /\ \A w \in Units : pc[w] \notin
     {"none", "init", "ready", "paused", "dead"}) ~> (mgr = "finished")

\* A unit waits for the start signal at pause(); once the signal is sent it
\* gets going.
StartSignalTaken ==
  \A w \in Units :
    "USR1" \in pending[w] ~> pc[w] \notin {"ready", "paused"}

\* basicAnalysis determines whether an instruction is hidden from what the
\* disassembler says and from the signal: what it accepts is not hidden.
HiddenIsInvalid == \A l \in results : l[1] = "H" => l[2] \notin Valid

=============================================================================
