--------------------------- MODULE PtraceInvariant ---------------------------
(***************************************************************************)
(* The inductive invariants behind the safety properties of Ptrace.        *)
(* SetupInv says how the manager and the units keep step; it needs nothing *)
(* of the range.  JobInv says where the units are in their parts and what  *)
(* they have analysed, of a range that is one (ProperRange).               *)
(***************************************************************************)
EXTENDS Ptrace

\* The units that have taken the start signal.
Running == UnitPCs \ {"none", "init", "ready", "paused", "dead"}

\* The manager has not sent the start signal, and may never.
SettingUp == {"fork", "insert", "wait", "failed"}

\* The units that have set isStopped; those that have nothing left to run.
Ended  == {"exit", "waitForever", "exited", "stopped"}
Halted == {"kill", "stop", "stopWorker"} \cup Ended

\* The constructor inserts the units one after the other.
CtorInv ==
  /\ mgr \in {"fork", "insert"} => idx \in Units
  /\ threadDataMap = 0 .. idx - 1
  /\ mgr \in {"fork", "insert", "failed"} \/ idx = numThreads

\* The start signal is sent when every unit is up, so that none can fail
\* afterwards, and nothing is run before.
StartInv ==
  /\ \A w \in Units :
       /\ isReady[w] => pc[w] \notin {"none", "init", "dead"}
       /\ pc[w] \in Running \/ pending[w] # {} => mgr \notin SettingUp
  /\ mgr \notin SettingUp => \A w \in Units : isReady[w]
  /\ mgr \in SettingUp => \A k \in instr_t : analysed[k] = 0

\* The tracee lives from the set-up until the end of the loop; stopWorker is
\* reached only from a part in which everything is blacklisted.
TraceeInv ==
  \A w \in Units :
    /\ tracee[w] # "none" => pc[w] \in Running
    /\ pc[w] \in {"stop", "exit", "exited"} => tracee[w] = "killed"
    /\ isStopped[w] => pc[w] \in Ended
    /\ endOfRun[w] => pc[w] \in Ended
    /\ pc[w] \in {"stopWorker", "waitForever", "stopped"} =>
         \A k \in currentInstruction[w] .. finalInstruction[w] : search(k)

SetupInv == TypeOK /\ CtorInv /\ StartInv /\ TraceeInv

\* The constructor's locals and the structs filled in so far are the closed
\* form of the partition; the last unit is corrected before it is inserted.
PartInv ==
  /\ startInstruction = UnitFirst(idx)
  /\ lastOfPart = First + (idx + 1) * instrPerThread
  /\ \A w \in threadDataMap : finalInstruction[w] = UnitLast(w)
  /\ mgr = "insert" => finalInstruction[idx] = lastOfPart % InstrMod

\* A unit is inside its part, at an instruction that may be run, and when it
\* halts the rest of the part is blacklisted.
InPart(w) ==
  pc[w] # "none" =>
    /\ currentInstruction[w] \in UnitFirst(w) .. UnitLast(w)
    /\ pc[w] = "step" => ~ search(currentInstruction[w])
    /\ pc[w] \in Halted =>
         currentInstruction[w] + 1 .. UnitLast(w) \subseteq Blacklist

RangeInv == \A w \in Units : InPart(w)

\* unit w has put instruction k of its part behind it
Passed(w, k) ==
  /\ pc[w] # "none"
  /\ \/ k < currentInstruction[w]
     \/ k = currentInstruction[w] /\ pc[w] \in {"fetch"} \cup Halted

\* Whether an instruction has been analysed, and how often, can be told from
\* where the unit is that it belongs to.
CountInv ==
  \A w \in Units : \A k \in UnitFirst(w) .. UnitLast(w) :
    analysed[k] = IF Passed(w, k) /\ ~ search(k) THEN 1 ELSE 0

\* The manager's `finished' speaks of the units it has visited.
StopInv ==
  /\ mgr \in {"check", "checkHang"} /\ allStopped =>
       \A w \in threadDataMap \ todo : isStopped[w]
  /\ mgr = "finished" => \A w \in Units : isStopped[w]

JobInv == SetupInv /\ PartInv /\ RangeInv /\ CountInv /\ StopInv

=============================================================================
