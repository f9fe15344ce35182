------------------------------- MODULE Feeder -------------------------------
(***************************************************************************)
(* The fetch stage main() selects (src/Feeder.cpp, exhaustive) and the     *)
(* blacklist it consults.  An instruction is an unsigned word; its width   *)
(* is scaled down: instr_t has InstrMod values instead of 2^32, and        *)
(* arithmetic wraps around modulo InstrMod as it does in the code.         *)
(***************************************************************************)
EXTENDS Integers

CONSTANTS
  InstrMod,    \* number of values of instr_t
  Blacklist    \* the instructions that must never be executed

ASSUME FeederAssumption ==
  /\ InstrMod \in Nat \ {0}
  /\ Blacklist \subseteq 0 .. InstrMod - 1

instr_t == 0 .. InstrMod - 1

search(k) == k \in Blacklist

\* tempInstruction d increments after k
Plus(k, d) == (k + d) % InstrMod

\* exhaustive returns true, having passed over s blacklisted instructions.
\* The two cases are its two "return true" statements.
FetchFinishes(c, f, s) ==
  \/ c = f /\ s = 0
  \/ /\ c # f
     /\ Plus(c, s + 1) = f
     /\ \A e \in 1 .. s + 1 : search(Plus(c, e))

\* Mutant: finalInstruction is not looked for among the blacklisted ones.
FetchYieldsMutant(c, f, s) ==
  /\ c # f
  /\ ~ search(Plus(c, s + 1))
  /\ \A e \in 1 .. s : search(Plus(c, e))

\* exhaustive returns false with *nextInstruction = Plus(c, s + 1).
FetchYields(c, f, s) ==
  /\ c # f
  /\ ~ search(Plus(c, s + 1))
  /\ \A e \in 1 .. s : search(Plus(c, e)) /\ Plus(c, e) # f

=============================================================================
