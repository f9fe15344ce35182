---------------------------- MODULE MCRiscvUnit ----------------------------
(***************************************************************************)
(* The instances of RiscvUnit that TLC checks: 16 bits have 8 values.      *)
(***************************************************************************)
EXTENDS RiscvUnit

\* Every part of the 16-bit stages, ranges of up to five prefixes, and parts
\* whose ends are, and are not, a multiple of the stride of four apart.
Within(stage, n) ==
  {p \in {stage} \X (0 .. 7) \X (0 .. 7) : p[3] - p[2] \in 0 .. n}
Strided ==
  {<<"riscvg", f, f + d>> : f \in {0, 3, 48, 51}, d \in {0, 8, 12}}

MCParts ==
  Within("exhaustive", 7) \cup Within("riscvc", 7) \cup Within("vle", 4)
    \cup Strided \cup {<<"riscvg", 56, 63>>}

MCAltStacks == {0, pageSize}
MCFrames == {1500}
MCNestedFrames == {3000, 6000}

=============================================================================
