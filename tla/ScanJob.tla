------------------------------ MODULE ScanJob ------------------------------
(***************************************************************************)
(* What a scan promises, however the work is divided: every instruction of *)
(* the range that is not blacklisted is analysed exactly once, the result  *)
(* files hold what the processor and the disassembler say about it and     *)
(* nothing else, the instructions that hang are listed, and "finished run" *)
(* is only reported when nothing is left.  The range is First..Last, the   *)
(* options -b and -e.                                                      *)
(***************************************************************************)
EXTENDS Analyser

CONSTANTS First, Last

VARIABLES
  status,     \* "scanning", "finished" or "aborted"
  analysed,   \* how often each instruction was analysed
  results,    \* the result lines
  hangs       \* the instructions reported to hang

Scope == (First .. Last) \ Blacklist

\* What is recorded about instruction k when all goes well.
Verdict(k) ==
  basicAnalysis(k, k, IF Outcome[k] = "HANG" THEN "USER" ELSE Outcome[k])

JobInit ==
  /\ status = "scanning"
  /\ analysed = [k \in instr_t |-> 0]
  /\ results = {} /\ hangs = {}

Classify(k) ==
  /\ status = "scanning"
  /\ k \in Scope /\ analysed[k] = 0
  /\ analysed' = [analysed EXCEPT ![k] = 1]
  /\ results' = results \cup Verdict(k)
  /\ hangs' = IF Outcome[k] = "HANG" THEN hangs \cup {k} ELSE hangs
  /\ UNCHANGED status

Finish ==
  /\ status = "scanning"
  /\ \A k \in Scope : analysed[k] = 1
  /\ status' = "finished"
  /\ UNCHANGED <<analysed, results, hangs>>

\* The set-up failed: nothing has been scanned.
Abort ==
  /\ status = "scanning"
  /\ \A k \in instr_t : analysed[k] = 0
  /\ status' = "aborted"
  /\ UNCHANGED <<analysed, results, hangs>>

JobNext == (\E k \in instr_t : Classify(k)) \/ Finish \/ Abort

JobSpec == JobInit /\ [][JobNext]_<<status, analysed, results, hangs>>

=============================================================================
