----------------------------- MODULE MCPtrace -----------------------------
(***************************************************************************)
(* The small instances of Ptrace that TLC checks.                          *)
(***************************************************************************)
EXTENDS Ptrace

\* Every outcome but hanging, for valid and for invalid instructions.
MCOutcome ==
  [k \in instr_t |->
     CASE k \in {0, 4} -> "ILLOPC"
       [] k \in {1, 5} -> "SEGV"
       [] OTHER        -> "ILLOTHER"]

=============================================================================
