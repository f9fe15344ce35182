-------------------------- MODULE MemcageInvariant --------------------------
(***************************************************************************)
(* The inductive invariant behind the safety properties of Memcage.  Each  *)
(* part is one idea about how the manager and the units keep step; none    *)
(* of the properties is inductive without them.                            *)
(***************************************************************************)
EXTENDS Memcage

\* The units whose process has taken the start signal and is scanning.
Scanning == UnitPCs \ {"none", "init", "ready", "dead"}

Halted == {"stop", "stopping", "stopped"}

\* The page, the struct and the local of faultHandler agree where the code
\* relies on it, and only an instruction that faults gets to faultHandler.
PageInv ==
  \A w \in Units :
    /\ pc[w] \in {"exec", "fault", "return"} => page[w] = currentInstruction[w]
    /\ pc[w] = "commit" => page[w] = nextInstruction[w]
    /\ pc[w] = "fault" => Outcome[page[w]] # "HANG"

\* What is about to be run, or has just been run, is not blacklisted.
CleanInv ==
  \A w \in Units :
    /\ pc[w] \in {"entryWrite", "exec", "fault", "return"}
         => currentInstruction[w] \notin Blacklist
    /\ pc[w] \in {"write", "commit"} => nextInstruction[w] \notin Blacklist

\* The constructor's locals and the structs filled in so far are the closed
\* form of the partition; the last unit is corrected before it is inserted.
CtorInv ==
  /\ threadDataMap = 0 .. idx - 1
  /\ startInstruction = UnitFirst(idx)
  /\ lastOfPart = First + (idx + 1) * instrPerThread
  /\ \A w \in threadDataMap : finalInstruction[w] = UnitLast(w)
  /\ mgr \in {"fork", "insert"} \cup Exited \/ idx = numThreads
  /\ mgr = "finished" => idx = numThreads
  /\ mgr = "insert" => finalInstruction[idx] = lastOfPart % InstrMod

\* Nothing happens to a unit that the manager has not inserted, and nothing
\* is recorded about it.
StartInv ==
  /\ todo \subseteq threadDataMap
  /\ mgr \in {"checkHang", "perfStore"} => visiting \in threadDataMap
  /\ \A w \in Units :
       /\ pc[w] \in Scanning \/ pending[w] # {} => w \in threadDataMap
       /\ w \notin threadDataMap => logged[w] = 0

\* The start signal comes once, before the unit scans, and finds nothing
\* blocked.
SignalInv ==
  \A w \in Units :
    /\ "USR1" \in pending[w] => pc[w] \notin Scanning
    /\ mgr \in {"fork", "insert", "wait"} =>
         pc[w] \notin Scanning /\ pending[w] = {} /\ mask[w] = {}
    /\ pc[w] \in {"none", "init", "ready"} => mask[w] = {}

\* A unit is inside its part, and so is the instruction it has fetched; what
\* lies between the two is blacklisted.
RangeInv ==
  \A w \in Units : pc[w] # "none" =>
    /\ currentInstruction[w] \in UnitFirst(w) .. UnitLast(w)
    /\ pc[w] \in {"write", "commit"} =>
         /\ nextInstruction[w] \in currentInstruction[w] + 1 .. UnitLast(w)
         /\ currentInstruction[w] + 1 .. nextInstruction[w] - 1 \subseteq Blacklist
    /\ pc[w] \in Halted =>
         currentInstruction[w] + 1 .. UnitLast(w) \subseteq Blacklist

Done(k) == k \in Blacklist \/ analysed[k] > 0

\* All that a unit has passed is done.
CoverInv ==
  \A w \in Units : pc[w] # "none" =>
    /\ \A k \in UnitFirst(w) .. currentInstruction[w] - 1 : Done(k)
    /\ pc[w] \in {"fetch", "write", "commit"} \cup Halted
         => Done(currentInstruction[w])

\* A unit reports isStopped only when it has halted, and the manager's
\* `finished' speaks of the units it has visited.
StopInv ==
  /\ \A w \in Units : isStopped[w] => pc[w] \in Halted
  /\ mgr \in {"check", "checkHang"} /\ allStopped =>
       \A w \in threadDataMap \ todo : isStopped[w]
  /\ mgr = "finished" => \A w \in threadDataMap : isStopped[w]

\* The performance log lags behind the counter.
LogInv ==
  \A w \in Units :
    /\ lastPerformanceExec[w] <= numInstrExec[w]
    /\ logged[w] <= numInstrExec[w]
    /\ \/ logged[w] <= lastPerformanceExec[w]
       \/ mgr = "perfStore" /\ visiting = w
       \/ mgr \in Exited

\* Lines that a fault led to are true.
LineInv == FaultLinesTrue

IInv ==
  /\ TypeOK
  /\ PageInv
  /\ CleanInv
  /\ CtorInv
  /\ StartInv
  /\ SignalInv
  /\ RangeInv
  /\ CoverInv
  /\ StopInv
  /\ LogInv
  /\ LineInv

-----------------------------------------------------------------------------
(* What holds besides when one second is long enough (OneSecondIsLong):    *)
(* SIGUSR2 reaches a unit only where it is stuck.                          *)

Faults == {"ILL", "SEGV"}

\* the units that the present round of alarmHandler has yet to compare
Uncompared ==
  CASE mgr \in {"perf", "perfStore"} -> threadDataMap
    [] mgr = "check"                 -> todo
    [] mgr = "checkHang"             -> todo \cup {visiting}
    [] OTHER                         -> {}

\* A unit that alarmHandler is going to take to hang is stuck already, and
\* stays so until the signal comes.
PromptInv ==
  /\ \A w \in Units : oldNumInstrExec[w] <= numInstrExec[w]
  /\ mgr = "checkHang" => visiting \notin todo
  /\ \A w \in Uncompared : Prompt(w)
  /\ \A w \in Units :
       "USR2" \in pending[w] => pc[w] = "exec" /\ Outcome[page[w]] = "HANG"
  /\ HangOnlyWhenStuck

\* No fault is blocked where one may come, nor in the mask that a handler
\* gives back.
MaskInv ==
  \A w \in Units :
    /\ pc[w] \in {"none", "init", "ready", "exec"} => mask[w] \cap Faults = {}
    /\ pc[w] \in {"entry", "entryWrite", "fault", "fetch", "write", "commit",
                  "return"} => saved[w] \cap Faults = {}

\* The manager has not sent the start signal, and may never.
SettingUp == {"fork", "insert", "wait", "failed", "crashed"}

\* The start signal is sent when every unit is up; only a unit that does not
\* come up dies, so that nothing has been run when the manager crashes.
SetupInv ==
  /\ \A w \in Units :
       /\ isReady[w] => pc[w] \notin {"none", "init", "dead"}
       /\ pc[w] \in Scanning \/ pending[w] # {} => mgr \notin SettingUp
  /\ mgr \notin SettingUp => \A w \in Units : isReady[w]
  /\ mgr \in SettingUp => \A k \in instr_t : analysed[k] = 0

\* unit w has put instruction k of its part behind it
Passed(w, k) ==
  /\ pc[w] # "none"
  /\ \/ k < currentInstruction[w]
     \/ /\ k = currentInstruction[w]
        /\ pc[w] \in {"fetch", "write", "commit"} \cup Halted

\* Whether an instruction has been analysed, and how often, can be told from
\* where the unit is that it belongs to.
CountInv ==
  \A w \in Units : \A k \in UnitFirst(w) .. UnitLast(w) :
    analysed[k] = IF Passed(w, k) /\ ~ search(k) THEN 1 ELSE 0

JobInv == IInv /\ PromptInv /\ MaskInv /\ SetupInv /\ CountInv

=============================================================================
