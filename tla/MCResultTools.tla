---------------------------- MODULE MCResultTools ----------------------------
(***************************************************************************)
(* The lists for TLC: every set of small words; every union of pairs of    *)
(* neighbours, next to each other or four apart, of which rangeCompress    *)
(* makes runs of its own, of up to 12 lines; all words; and four runs that *)
(* do not start where their masked bits are clear.                         *)
(***************************************************************************)
EXTENDS ResultTools

CONSTANTS SmallWord, LastPair, LastFour

AllWords == [w \in 1 .. Pow2[WordBits] |-> w - 1]

Ascending(S) == LET In(w) == w \in S IN SelectSeq(AllWords, In)

\* the words k * distance and k * distance + 1 for every k of S
Pairs(S, distance) == Ascending({k * distance + j : k \in S, j \in 0 .. 1})

MCInputs ==
  {Ascending(S) : S \in {T \in SUBSET (0 .. SmallWord) : Cardinality(T) > 1}}
  \cup {Pairs(S, 2) : S \in SUBSET (0 .. LastPair) \ {{}}}
  \cup {Pairs(S, 4) : S \in SUBSET (0 .. LastFour) \ {{}}}
  \cup {AllWords, Ascending({5 * k + j : k \in 0 .. 3, j \in 0 .. 3})}

=============================================================================
