---------------------------- MODULE RiscvStages ----------------------------
(***************************************************************************)
(* The fetch stages that visit a sequence of encodings: exhaustive, and    *)
(* the restricted stages of the RISC-V ports, which main() can be set to:  *)
(*                                                                         *)
(*   riscvg   riscvgOnlyFetch (RV64G)   every fourth encoding, the 32-bit  *)
(*                                      ones                               *)
(*   riscvc   riscvcOnlyFetch (RV64GC)  the 16-bit encodings, whose two    *)
(*                                      low bits are not both set          *)
(*                                                                         *)
(* Each passes over the blacklisted encodings, and looks for the end of    *)
(* the part at the current instruction and at those it passes over.        *)
(***************************************************************************)
EXTENDS Feeder

IsLong(k) == k % 4 = 3

\* riscvcOnlyFetch steps over an encoding with both low bits set.
NextCompressed(k) ==
  IF IsLong(Plus(k, 1)) THEN Plus(k, 2) ELSE Plus(k, 1)

NextVisited(stage, k) ==
  CASE stage = "riscvc" -> NextCompressed(k)
    [] stage = "riscvg" -> Plus(k, 4)
    [] OTHER            -> Plus(k, 1)

\* the n-th encoding after k that a stage visits
Visited(stage, k, n) ==
  LET at[i \in 0 .. n] ==
        IF i = 0 THEN k ELSE NextVisited(stage, at[i - 1])
  IN at[n]

\* Mutant: the test for the end is an equality in every stage.
AtEndMutant(stage, k, final) == k = final

\* the test for the end of the part: >= in one stage, = in the others
AtEnd(stage, k, final) == IF stage = "riscvc" THEN k >= final ELSE k = final

\* Mutant: what is passed over is not looked up in the blacklist.
PassesOverMutant(stage, k, final, n) ==
  \A e \in 0 .. n - 1 : ~ AtEnd(stage, Visited(stage, k, e), final)

\* The stage passes over the n encodings after k, short of the end.
PassesOver(stage, k, final, n) ==
  /\ \A e \in 1 .. n : search(Visited(stage, k, e))
  /\ \A e \in 0 .. n - 1 : ~ AtEnd(stage, Visited(stage, k, e), final)

\* The stage returns true, having passed over n encodings.
Finishes(stage, k, final, n) ==
  /\ PassesOver(stage, k, final, n)
  /\ AtEnd(stage, Visited(stage, k, n), final)

\* The stage returns false and the encoding after the n passed over.
Yields(stage, k, final, n) ==
  /\ PassesOver(stage, k, final, n)
  /\ ~ AtEnd(stage, Visited(stage, k, n), final)
  /\ ~ search(Visited(stage, k, n + 1))

\* Mutant: riscvcOnlyFetch does not count what it steps over.
CountedMutant(stage, k, n) == n - 1

\* What the stage has added to numInstrExec when it is n > 0 encodings
\* further: riscvcOnlyFetch also counts each encoding it steps over.
Counted(stage, k, n) ==
  IF stage = "riscvc" THEN Visited(stage, k, n) - k - 1 ELSE n - 1

=============================================================================
