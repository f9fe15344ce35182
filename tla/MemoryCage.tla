----------------------------- MODULE MemoryCage -----------------------------
(***************************************************************************)
(* The memory of a memory-cage unit: the instruction page between its      *)
(* guards, and the stack its handlers run on, above which the RISC-V ports *)
(* keep the registers that an instruction may have overwritten.            *)
(***************************************************************************)
EXTENDS Integers

CONSTANT maxArchOffset   \* how far an instruction can reach relative to pc

pageSize == 4096

ASSUME CageAssumption == maxArchOffset \in Nat /\ maxArchOffset >= pageSize

\* What initScanner maps at base, and the page it makes executable.
Mapped(base) == base .. base + 2 * maxArchOffset + pageSize - 1
instructionPage(base) == base + maxArchOffset
Executable(base) ==
  instructionPage(base) .. instructionPage(base) + pageSize - 1

instructionPointerOf(base, size) == instructionPage(base) + pageSize - size

\* What setAltStack maps at base, and where the handlers' stack begins.
AltMapped(base) == base .. base + 16 * pageSize - 1
Top(base) == base + 8 * pageSize

\* Mutant: the block is a page.
RecoveryAddressMutant(at) == LET i == at + pageSize IN i - (i % pageSize)

\* Where setRecoveryData and recoverState, called with sp at this address,
\* keep the two registers.
RecoveryAddress(at) ==
  LET i == at + 4 * pageSize IN i - (i % (4 * pageSize))

=============================================================================
