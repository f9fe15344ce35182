------------------------------ MODULE Analyser ------------------------------
(***************************************************************************)
(* The analysis stage main() selects (src/Analyser.cpp, basicAnalysis).    *)
(*                                                                         *)
(* What the processor does with an instruction, as far as the scanner can  *)
(* tell, is one of                                                         *)
(*   "ILLOPC"    SIGILL with si_code ILL_ILLOPC: not recognised            *)
(*   "ILLOTHER"  SIGILL with another si_code                               *)
(*   "SEGV"      any other synchronous fault (the usual end of a valid     *)
(*               instruction: the fetch after it hits the guard page)      *)
(*   "HANG"      no fault at all: the unit is stuck on it                  *)
(* A result line carries the cause that was recorded; "USER" is what the   *)
(* hang handler records: SIGSEGV with the si_code of kill(), SI_USER.      *)
(***************************************************************************)
EXTENDS Feeder

CONSTANTS
  Outcome,   \* what the processor does with each instruction
  Valid      \* the instructions the disassembler accepts

Outcomes == {"ILLOPC", "ILLOTHER", "SEGV", "HANG"}
Causes   == {"ILLOPC", "ILLOTHER", "SEGV", "USER"}

ASSUME AnalyserAssumption ==
  /\ Outcome \in [instr_t -> Outcomes]
  /\ Valid \subseteq instr_t

\* What the page holds where no instruction has been written: the filler
\* branch, which every disassembler accepts.
Filler == InstrMod

\* The disassembler reads the bytes at instructionPointer, not its opcode
\* argument.
disassemble(onPage) == onPage \in Valid \cup {Filler}

Line == {"D", "H"} \X instr_t \X Causes

\* The lines basicAnalysis appends for the instruction `insn' when the
\* disassembler says isValid and the fault recorded is `cause'.
Report(isValid, insn, cause) ==
  IF cause = "ILLOPC"
    THEN IF isValid THEN {<<"D", insn, cause>>} ELSE {}
    ELSE IF isValid THEN {} ELSE {<<"H", insn, cause>>}

\* The whole stage, when the page holds `onPage'.
basicAnalysis(insn, onPage, cause) == Report(disassemble(onPage), insn, cause)

=============================================================================
