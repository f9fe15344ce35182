------------------------------ MODULE Memcage ------------------------------
(***************************************************************************)
(* The memory-cage scan: the manager of module ScannerManager together     *)
(* with its scanner units.  A unit is a process that never leaves its      *)
(* signal handlers except to run the one instruction on its page:          *)
(*                                                                         *)
(*   SIGUSR1  entryHandler   the start signal of runScanners               *)
(*   a fault  faultHandler   analyse, fetch the next instruction, write it *)
(*                           to the page, return to the page               *)
(*   SIGUSR2  hangHandler    sent by alarmHandler when nothing was counted *)
(*                                                                         *)
(* Handlers run with only their own signal blocked (empty sa_mask), so     *)
(* SIGUSR2 interrupts the other two at any point; and each of them returns *)
(* by setState to the start of the page, so a handler that was interrupted *)
(* is never resumed.  hangHandler cannot be interrupted, hence one step.   *)
(* The signal mask is part of the state: the mask that is restored when a  *)
(* handler returns is the one saved when it was entered.                   *)
(***************************************************************************)
EXTENDS ScannerManager

CONSTANT
  OneSecondIsLong   \* no alarm goes off before every unit that is not stuck
                    \* has counted an instruction since the previous one

ASSUME MemcageAssumption == OneSecondIsLong \in BOOLEAN

VARIABLES
  page,             \* the word at instructionPointer
  nextInstruction,  \* faultHandler's local
  mask,             \* the blocked signals
  saved,            \* the mask saved by the frame of faultHandler/entryHandler
  results,          \* the lines of the results/thread files
  hangs,            \* the instructions in the results/hangs files
  analysed,         \* how often each instruction was analysed (history)
  endOfRun          \* has the unit written its end-of-run line?

unitVars == <<page, nextInstruction, mask, saved, results, hangs, analysed,
              endOfRun>>
\* what only the manager writes
managerVars == <<mgr, ctorVars, todo, visiting, allStopped,
                 performanceLogCount, logged, finalInstruction,
                 oldNumInstrExec, lastPerformanceExec>>
vars == <<mgr, ctorVars, todo, visiting, allStopped, performanceLogCount,
          logged, structVars, pc, pending, unitVars>>

Signals == {"ILL", "SEGV", "USR1", "USR2"}

\* the signal the kernel sends for a fault
SignalOf(outcome) == IF outcome = "SEGV" THEN "SEGV" ELSE "ILL"

Init ==
  /\ MgrInit
  /\ page = [w \in Units |-> Filler]
  /\ nextInstruction = [w \in Units |-> 0]
  /\ mask = [w \in Units |-> {}]
  /\ saved = [w \in Units |-> {}]
  /\ results = {} /\ hangs = {}
  /\ analysed = [k \in instr_t |-> 0]
  /\ endOfRun = [w \in Units |-> FALSE]

-----------------------------------------------------------------------------
(* initScanner *)

\* The page is filled, the disassembler opened, isReady set; then pause().
InitScanner(w) ==
  /\ pc[w] = "init"
  /\ page' = [page EXCEPT ![w] = Filler]
  /\ isReady' = [isReady EXCEPT ![w] = TRUE]
  /\ pc' = [pc EXCEPT ![w] = "ready"]
  /\ UNCHANGED <<managerVars, currentInstruction, isStopped, numInstrExec,
                 pending, nextInstruction, mask, saved, results, hangs,
                 analysed, endOfRun>>

\* initDisassembler cannot open the disassembler: exit(-1)
InitFails(w) ==
  /\ pc[w] = "init"
  /\ pc' = [pc EXCEPT ![w] = "dead"]
  /\ UNCHANGED <<managerVars, currentInstruction, isReady, isStopped,
                 numInstrExec, pending, unitVars>>

-----------------------------------------------------------------------------
(* entryHandler *)

\* The kernel pushes the frame of entryHandler.
StartSignal(w) ==
  /\ pc[w] \notin {"none", "dead"}
  /\ "USR1" \in pending[w] /\ "USR1" \notin mask[w]
  /\ pending' = [pending EXCEPT ![w] = @ \ {"USR1"}]
  /\ saved' = [saved EXCEPT ![w] = mask[w]]
  /\ mask' = [mask EXCEPT ![w] = @ \cup {"USR1"}]
  /\ pc' = [pc EXCEPT ![w] = "entry"]
  /\ UNCHANGED <<managerVars, currentInstruction, isReady, isStopped,
                 numInstrExec, page, nextInstruction, results, hangs,
                 analysed, endOfRun>>

\* Mutant: the result is stored even when there is none.
FetchIntoCurrentMutant(w, next) ==
  \E s \in 0 .. InstrMod - 1 :
    /\ numInstrExec' = [numInstrExec EXCEPT ![w] = @ + s]
    /\ \/ /\ FetchYields(currentInstruction[w], finalInstruction[w], s)
          /\ pc' = [pc EXCEPT ![w] = next]
       \/ /\ FetchFinishes(currentInstruction[w], finalInstruction[w], s)
          /\ pc' = [pc EXCEPT ![w] = "stop"]
    /\ currentInstruction' = [currentInstruction EXCEPT
                                ![w] = Plus(currentInstruction[w], s + 1)]

\* fetchInstruction(data, &data->currentInstruction): the result goes
\* straight to currentInstruction, and the passed-over instructions count.
FetchIntoCurrent(w, next) ==
  \E s \in 0 .. InstrMod - 1 :
    /\ numInstrExec' = [numInstrExec EXCEPT ![w] = @ + s]
    /\ \/ /\ FetchYields(currentInstruction[w], finalInstruction[w], s)
          /\ currentInstruction' = [currentInstruction EXCEPT
                                      ![w] = Plus(currentInstruction[w], s + 1)]
          /\ pc' = [pc EXCEPT ![w] = next]
       \/ /\ FetchFinishes(currentInstruction[w], finalInstruction[w], s)
          /\ pc' = [pc EXCEPT ![w] = "stop"]
          /\ UNCHANGED currentInstruction

\* Mutant: the first instruction is not looked up in the blacklist.
EntryHandlerMutant(w) ==
  /\ pc[w] = "entry"
  /\ pc' = [pc EXCEPT ![w] = "entryWrite"]
  /\ UNCHANGED <<managerVars, currentInstruction, numInstrExec, isReady,
                 isStopped, pending, unitVars>>

\* A range that starts on a blacklisted instruction starts at the next one.
EntryHandler(w) ==
  /\ pc[w] = "entry"
  /\ IF search(currentInstruction[w])
       THEN FetchIntoCurrent(w, "entryWrite")
       ELSE /\ pc' = [pc EXCEPT ![w] = "entryWrite"]
            /\ UNCHANGED <<currentInstruction, numInstrExec>>
  /\ UNCHANGED <<managerVars, isReady, isStopped, pending, unitVars>>

\* The instruction is written and the handler returns to the page.
EntryReturn(w) ==
  /\ pc[w] = "entryWrite"
  /\ page' = [page EXCEPT ![w] = currentInstruction[w]]
  /\ mask' = [mask EXCEPT ![w] = saved[w]]
  /\ pc' = [pc EXCEPT ![w] = "exec"]
  /\ UNCHANGED <<managerVars, currentInstruction, isReady, isStopped,
                 numInstrExec, pending, nextInstruction, saved, results,
                 hangs, analysed, endOfRun>>

-----------------------------------------------------------------------------
(* The instruction runs. *)

\* A fault whose signal is blocked kills the process.
Execute(w) ==
  /\ pc[w] = "exec"
  /\ Outcome[page[w]] # "HANG"
  /\ LET sig == SignalOf(Outcome[page[w]])
     IN IF sig \in mask[w]
          THEN /\ pc' = [pc EXCEPT ![w] = "dead"]
               /\ UNCHANGED <<mask, saved>>
          ELSE /\ pc' = [pc EXCEPT ![w] = "fault"]
               /\ saved' = [saved EXCEPT ![w] = mask[w]]
               /\ mask' = [mask EXCEPT ![w] = @ \cup {sig}]
  /\ UNCHANGED <<managerVars, currentInstruction, isReady, isStopped,
                 numInstrExec, pending, page, nextInstruction, results,
                 hangs, analysed, endOfRun>>

-----------------------------------------------------------------------------
(* faultHandler *)

\* Mutant: the line is written for the instruction fetched last.
AnalyseMutant(w) ==
  /\ pc[w] = "fault"
  /\ results' = results \cup basicAnalysis(nextInstruction[w], page[w],
                                           Outcome[page[w]])
  /\ analysed' = [analysed EXCEPT ![currentInstruction[w]] = @ + 1]
  /\ pc' = [pc EXCEPT ![w] = "fetch"]
  /\ UNCHANGED <<managerVars, currentInstruction, isReady, isStopped,
                 numInstrExec, pending, page, nextInstruction, mask, saved,
                 hangs, endOfRun>>

\* analyse(data)
Analyse(w) ==
  /\ pc[w] = "fault"
  /\ results' = results \cup basicAnalysis(currentInstruction[w], page[w],
                                           Outcome[page[w]])
  /\ analysed' = [analysed EXCEPT ![currentInstruction[w]] = @ + 1]
  /\ pc' = [pc EXCEPT ![w] = "fetch"]
  /\ UNCHANGED <<managerVars, currentInstruction, isReady, isStopped,
                 numInstrExec, pending, page, nextInstruction, mask, saved,
                 hangs, endOfRun>>

\* fetchInstruction(data, &nextInstruction); numInstrExec++
Fetch(w) ==
  /\ pc[w] = "fetch"
  /\ \E s \in 0 .. InstrMod - 1 :
       /\ numInstrExec' = [numInstrExec EXCEPT ![w] = @ + s + 1]
       /\ \/ /\ FetchYields(currentInstruction[w], finalInstruction[w], s)
             /\ nextInstruction' = [nextInstruction EXCEPT
                                      ![w] = Plus(currentInstruction[w], s + 1)]
             /\ pc' = [pc EXCEPT ![w] = "write"]
          \/ /\ FetchFinishes(currentInstruction[w], finalInstruction[w], s)
             /\ pc' = [pc EXCEPT ![w] = "stop"]
             /\ UNCHANGED nextInstruction
  /\ UNCHANGED <<managerVars, currentInstruction, isReady, isStopped, pending,
                 page, mask, saved, results, hangs, analysed, endOfRun>>

\* writeInstruction(data->instructionPointer, nextInstruction)
WriteInstruction(w) ==
  /\ pc[w] = "write"
  /\ page' = [page EXCEPT ![w] = nextInstruction[w]]
  /\ pc' = [pc EXCEPT ![w] = "commit"]
  /\ UNCHANGED <<managerVars, currentInstruction, isReady, isStopped,
                 numInstrExec, pending, nextInstruction, mask, saved, results,
                 hangs, analysed, endOfRun>>

\* Mutant: currentInstruction is left behind.
CommitMutant(w) ==
  /\ pc[w] = "commit"
  /\ pc' = [pc EXCEPT ![w] = "return"]
  /\ UNCHANGED <<managerVars, currentInstruction, isReady, isStopped,
                 numInstrExec, pending, unitVars>>

\* data->currentInstruction = nextInstruction
Commit(w) ==
  /\ pc[w] = "commit"
  /\ currentInstruction' =
       [currentInstruction EXCEPT ![w] = nextInstruction[w]]
  /\ pc' = [pc EXCEPT ![w] = "return"]
  /\ UNCHANGED <<managerVars, isReady, isStopped, numInstrExec, pending,
                 unitVars>>

\* Mutant: the handler is left by a jump, the signal mask stays.
FaultReturnMutant(w) ==
  /\ pc[w] = "return"
  /\ pc' = [pc EXCEPT ![w] = "exec"]
  /\ UNCHANGED <<managerVars, currentInstruction, isReady, isStopped,
                 numInstrExec, pending, unitVars>>

\* setState, and the return from the handler
FaultReturn(w) ==
  /\ pc[w] = "return"
  /\ mask' = [mask EXCEPT ![w] = saved[w]]
  /\ pc' = [pc EXCEPT ![w] = "exec"]
  /\ UNCHANGED <<managerVars, currentInstruction, isReady, isStopped,
                 numInstrExec, pending, page, nextInstruction, saved, results,
                 hangs, analysed, endOfRun>>

-----------------------------------------------------------------------------
(* hangHandler.  The kernel delivers SIGUSR1 before SIGUSR2; the frame of  *)
(* the latter is then on top and runs first.  When the handler returns the *)
(* mask is what it was, the signals of an abandoned handler included.      *)

\* Mutant: the handler is left by a jump, SIGUSR2 stays blocked.
HangHandlerMutant(w) ==
  /\ pc[w] \notin {"none", "dead"}
  /\ "USR2" \in pending[w] /\ "USR2" \notin mask[w]
  /\ "USR1" \in pending[w] => "USR1" \in mask[w]
  /\ pending' = [pending EXCEPT ![w] = @ \ {"USR2"}]
  /\ hangs' = hangs \cup {currentInstruction[w]}
  /\ results' = results \cup basicAnalysis(currentInstruction[w], page[w],
                                           "USER")
  /\ analysed' = [analysed EXCEPT ![currentInstruction[w]] = @ + 1]
  /\ FetchIntoCurrent(w, "exec")
  /\ mask' = [mask EXCEPT ![w] = @ \cup {"USR2"}]
  /\ page' = [page EXCEPT ![w] = IF pc'[w] = "stop" THEN Filler
                                                   ELSE currentInstruction'[w]]
  /\ UNCHANGED <<managerVars, isReady, isStopped, nextInstruction, saved,
                 endOfRun>>

\* Its analysis sees the page as it is, and SIGSEGV with the si_code of
\* kill().  The page is then refilled; on the way out it holds the fetched
\* instruction, or the filler if the unit stops, which it does inside the
\* handler, with SIGUSR2 blocked.
HangHandler(w) ==
  /\ pc[w] \notin {"none", "dead"}
  /\ "USR2" \in pending[w] /\ "USR2" \notin mask[w]
  /\ "USR1" \in pending[w] => "USR1" \in mask[w]
  /\ pending' = [pending EXCEPT ![w] = @ \ {"USR2"}]
  /\ hangs' = hangs \cup {currentInstruction[w]}
  /\ results' = results \cup basicAnalysis(currentInstruction[w], page[w],
                                           "USER")
  /\ analysed' = [analysed EXCEPT ![currentInstruction[w]] = @ + 1]
  /\ FetchIntoCurrent(w, "exec")
  /\ IF pc'[w] = "stop"
       THEN /\ page' = [page EXCEPT ![w] = Filler]
            /\ mask' = [mask EXCEPT ![w] = @ \cup {"USR2"}]
       ELSE /\ page' = [page EXCEPT ![w] = currentInstruction'[w]]
            /\ UNCHANGED mask
  /\ UNCHANGED <<managerVars, isReady, isStopped, nextInstruction, saved,
                 endOfRun>>

-----------------------------------------------------------------------------
(* stopWorker *)

\* Mutant: the unit waits before it writes the end-of-run line.
StopWorkerMutant(w) ==
  /\ pc[w] = "stop"
  /\ isStopped' = [isStopped EXCEPT ![w] = TRUE]
  /\ pc' = [pc EXCEPT ![w] = "stopped"]
  /\ UNCHANGED <<managerVars, currentInstruction, isReady, numInstrExec,
                 pending, unitVars>>

\* isStopped is set first ...
StopWorker(w) ==
  /\ pc[w] = "stop"
  /\ isStopped' = [isStopped EXCEPT ![w] = TRUE]
  /\ pc' = [pc EXCEPT ![w] = "stopping"]
  /\ UNCHANGED <<managerVars, currentInstruction, isReady, numInstrExec,
                 pending, unitVars>>

\* ... then the end-of-run line is written, and the unit waits forever.
EndOfRun(w) ==
  /\ pc[w] = "stopping"
  /\ endOfRun' = [endOfRun EXCEPT ![w] = TRUE]
  /\ pc' = [pc EXCEPT ![w] = "stopped"]
  /\ UNCHANGED <<managerVars, currentInstruction, isReady, isStopped,
                 numInstrExec, pending, page, nextInstruction, mask, saved,
                 results, hangs, analysed>>

-----------------------------------------------------------------------------
(* The whole system. *)

Exited == {"finished", "failed", "crashed"}

\* A child dies: SIGCHLD runs faultHandler in the manager, whose `data' is
\* NULL; the manager dies of the fault.
ChildDeath ==
  /\ mgr \notin Exited
  /\ \E w \in Units : pc[w] = "dead"
  /\ mgr' = "crashed"
  /\ UNCHANGED <<ctorVars, todo, visiting, allStopped, performanceLogCount,
                 logged, structVars, pc, pending, unitVars>>

\* The unit runs an instruction that never ends and has no signal to take.
Stuck(w) ==
  pc[w] = "exec" /\ pending[w] \subseteq mask[w] /\ Outcome[page[w]] = "HANG"

\* One second was enough for unit w.
Prompt(w) ==
  isStopped[w] \/ numInstrExec[w] # oldNumInstrExec[w] \/ Stuck(w)

TimelyAlarm ==
  /\ OneSecondIsLong => \A w \in threadDataMap : Prompt(w)
  /\ Alarm

ManagerStep ==
  \/ ChildDeath
  \/ /\ \/ Fork \/ CtorFails \/ Insert \/ runScanners
        \/ TimelyAlarm \/ PerfStore \/ PerfDone \/ CheckHang \/ AlarmReturn
        \/ \E w \in Units : PerfRead(w) \/ CheckStopped(w)
     /\ UNCHANGED unitVars

UnitStep(w) ==
  \/ InitScanner(w) \/ InitFails(w)
  \/ StartSignal(w) \/ EntryHandler(w) \/ EntryReturn(w)
  \/ Execute(w) \/ Analyse(w) \/ Fetch(w) \/ WriteInstruction(w)
  \/ Commit(w) \/ FaultReturn(w)
  \/ HangHandler(w)
  \/ StopWorker(w) \/ EndOfRun(w)

\* Once the manager has exited and no unit has a step left, nothing happens.
Terminated ==
  /\ mgr \in Exited
  /\ UNCHANGED vars

Next ==
  \/ ManagerStep
  \/ \E w \in Units : UnitStep(w)
  \/ Terminated

Spec == Init /\ [][Next]_vars

\* The processes are scheduled, and the alarm goes off again and again.
FairSpec ==
  /\ Spec
  /\ WF_vars(ManagerStep)
  /\ \A w \in Units : WF_vars(UnitStep(w))

-----------------------------------------------------------------------------
(* Properties. *)

UnitPCs == {"none", "init", "ready", "entry", "entryWrite", "exec", "fault",
            "fetch", "write", "commit", "return", "stop", "stopping",
            "stopped", "dead"}
ManagerPCs == {"fork", "insert", "wait", "run", "perf", "perfStore", "check",
               "checkHang"} \cup Exited

\* the manager's own variables
ManagerTypeOK ==
  /\ mgr \in ManagerPCs
  /\ idx \in 0 .. numThreads
  /\ mgr \in {"fork", "insert"} => idx \in Units
  /\ startInstruction \in Nat /\ lastOfPart \in Nat
  /\ threadDataMap \subseteq Units /\ todo \subseteq Units
  /\ visiting \in Units /\ allStopped \in BOOLEAN
  /\ performanceLogCount \in 0 .. SlowFactor - 1
  /\ logged \in [Units -> Int]

\* the Scanner structs
StructTypeOK ==
  /\ currentInstruction \in [Units -> instr_t]
  /\ finalInstruction \in [Units -> instr_t]
  /\ isReady \in [Units -> BOOLEAN] /\ isStopped \in [Units -> BOOLEAN]
  /\ numInstrExec \in [Units -> Nat]
  /\ oldNumInstrExec \in [Units -> Nat]
  /\ lastPerformanceExec \in [Units -> Nat]

\* the unit processes and their files
UnitTypeOK ==
  /\ pc \in [Units -> UnitPCs]
  /\ pending \in [Units -> SUBSET {"USR1", "USR2"}]
  /\ page \in [Units -> instr_t \cup {Filler}]
  /\ nextInstruction \in [Units -> instr_t]
  /\ mask \in [Units -> SUBSET Signals] /\ saved \in [Units -> SUBSET Signals]
  /\ results \subseteq Line /\ hangs \subseteq instr_t
  /\ analysed \in [instr_t -> Nat]
  /\ endOfRun \in [Units -> BOOLEAN]

\* Every variable keeps its type; the counters never become negative.
TypeOK == ManagerTypeOK /\ StructTypeOK /\ UnitTypeOK

\* When a unit runs its page, the page holds currentInstruction, the
\* instruction the fault will be attributed to, wherever hangHandler cut
\* into entryHandler or faultHandler before.
PageMatchesCurrent ==
  \A w \in Units : pc[w] = "exec" => page[w] = currentInstruction[w]

\* No blacklisted instruction is ever run: not as the first of a part, not
\* after a hang, not when a handler was abandoned half-way.
NeverRunsBlacklisted ==
  \A w \in Units : pc[w] = "exec" => ~ search(page[w])

\* A unit runs instructions of its own part only, so no instruction is run
\* by two units and none outside the range that was asked for.
StaysInOwnPart ==
  \A w \in Units :
    pc[w] = "exec" => page[w] \in UnitFirst(w) .. UnitLast(w)

\* "finished run" is only logged when every instruction of the range that is
\* not blacklisted has been analysed by some unit.
FinishedCovered ==
  mgr = "finished" =>
    \A k \in (First .. Last) \ Blacklist : analysed[k] > 0

\* A unit that has reported isStopped never scans on, not even when a late
\* SIGUSR2 reaches it inside stopWorker.
StoppedForGood ==
  [][\A w \in Units : isStopped[w] =>
       /\ isStopped'[w]
       /\ currentInstruction'[w] = currentInstruction[w]
       /\ pc'[w] # "exec"]_vars

\* The performance log reads numInstrExec twice while the unit counts on:
\* instructions may be missing from the log, but none is logged twice.
LogNeverOverstates ==
  \A w \in Units : logged[w] <= numInstrExec[w]

\* Only an instruction that hangs ends up in a hangs file: hangHandler is
\* executed when the scanner gets stuck (Handlers.h).
HangOnlyWhenStuck == \A k \in hangs : Outcome[k] = "HANG"

\* No unit that came up dies: no fault arrives while its signal is blocked.
NobodyDies ==
  [][\A w \in Units : pc[w] \notin {"init", "dead"} => pc'[w] # "dead"]_vars

\* The scan as a whole: see module ScanJob.
Status ==
  CASE mgr = "finished"              -> "finished"
    [] mgr \in {"failed", "crashed"} -> "aborted"
    [] OTHER                         -> "scanning"

Job == INSTANCE ScanJob WITH status <- Status
ImplementsScanJob == Job!JobSpec

\* Every line that a fault led to says what the processor and the
\* disassembler say about the instruction it names, even when SIGUSR2 comes
\* at the wrong moment.
FaultLinesTrue ==
  \A l \in results : l[3] # "USER" => l \in Job!Verdict(l[2])

\* No instruction after the one given by -e is run.
NothingAfterEnd == \A w \in Units : pc[w] = "exec" => page[w] <= Last

\* The run ends, and once the units were started it is finished, however many
\* instructions hang, in a row too: a unit is got out of each, scans on behind
\* it, and all of them come to the end of their parts.
RunEnds ==
  /\ <>(mgr \in Exited)
  /\ mgr = "run" ~> mgr = "finished"

\* A unit that stops also writes its end-of-run line.
StopIsRecorded ==
  \A w \in Units : isStopped[w] ~> endOfRun[w]

=============================================================================
