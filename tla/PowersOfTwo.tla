----------------------------- MODULE PowersOfTwo -----------------------------
(***************************************************************************)
(* What shifts and masks need: powers of two and the bits of a number.     *)
(* The powers are a function, of which the provers can unfold the          *)
(* recursion; they know nothing of 2 ^ n.                                  *)
(***************************************************************************)
EXTENDS Integers

\* 1 << n
Pow2[n \in Nat] == IF n = 0 THEN 1 ELSE 2 * Pow2[n - 1]

\* (n >> b) & 1
Bit(n, b) == (n \div Pow2[b]) % 2

=============================================================================
