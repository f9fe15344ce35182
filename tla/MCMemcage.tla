----------------------------- MODULE MCMemcage -----------------------------
(***************************************************************************)
(* The small instances of Memcage that TLC checks.                         *)
(***************************************************************************)
EXTENDS Memcage

\* Of the parts 1-3 and 4-6, with 3 blacklisted, 2 hangs as the last that the
\* one unit runs, 4 as the first of the other, which goes on with 5 and 6.
MCOutcome ==
  [k \in instr_t |->
     CASE k \in {0, 5} -> "ILLOPC"
       [] k \in {1, 7} -> "SEGV"
       [] k \in {2, 4} -> "HANG"
       [] OTHER        -> "ILLOTHER"]

\* A hang in the middle of a part (1 of 0-3), one at the end (6 of 4-6), and
\* two in a row with an instruction after them (7 and 8 of 7-11).
HangingOutcome ==
  [k \in instr_t |->
     CASE k \in {0, 3}       -> "ILLOPC"
       [] k \in {2, 9}       -> "SEGV"
       [] k \in {1, 6, 7, 8} -> "HANG"
       [] OTHER              -> "ILLOTHER"]

=============================================================================
