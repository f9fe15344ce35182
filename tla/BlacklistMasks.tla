--------------------------- MODULE BlacklistMasks ---------------------------
(***************************************************************************)
(* The two representations of the blacklist (src/Blacklist.cpp).  Both are *)
(* given instruction masks: a value and the bits of it that do not matter. *)
(* Blacklist stores every instruction a mask stands for; the ports with    *)
(* little memory use LowMemoryBlacklist, which stores the masks and tries  *)
(* each of them when it searches.                                          *)
(*                                                                         *)
(* A word is the set of its bits that are 1.                               *)
(***************************************************************************)
EXTENDS PowersOfTwo, FiniteSets

CONSTANTS
  Width,      \* bits of instr_t
  MaxMasks    \* bound: how many masks are added

ASSUME MasksAssumption == Width \in Nat \ {0} /\ MaxMasks \in Nat

Bits == 0 .. Width - 1
Word == SUBSET Bits
InstructionMask == [valueMask : Word, dontCareMask : Word]

VARIABLES
  added,        \* the masks added so far
  expanding,    \* the mask Blacklist::add is expanding, or NoMask
  i,            \* its loop counter
  searchSet,    \* Blacklist::searchSet
  lowSearchSet  \* LowMemoryBlacklist::searchSet

vars == <<added, expanding, i, searchSet, lowSearchSet>>

NoMask == [valueMask |-> {}, dontCareMask |-> Bits]

Init ==
  /\ added = {} /\ expanding = NoMask /\ i = 0
  /\ searchSet = {} /\ lowSearchSet = {}

-----------------------------------------------------------------------------
(* Blacklist *)

\* the d-th don't-care bit, from the lowest
DontCareBit(m, d) ==
  CHOOSE b \in m.dontCareMask :
    Cardinality({c \in m.dontCareMask : c < b}) = d

numDontCares(m) == Cardinality(m.dontCareMask)

\* the bits of the loop counter, of which there are numDontCares
CounterBits(m, n) == {d \in 0 .. numDontCares(m) - 1 : Bit(n, d) = 1}

\* Mutant: the value's bits in the don't-care fields are kept.
ExpansionMutant(m, n) ==
  m.valueMask \cup
    {DontCareBit(m, d) : d \in CounterBits(m, n)}

\* The bits of the counter go to the don't-care fields.
Expansion(m, n) ==
  (m.valueMask \ m.dontCareMask) \cup
    {DontCareBit(m, d) : d \in CounterBits(m, n)}

\* The number of iterations, (instr_t)(1 << numDontCares).
Iterations(m) == Pow2[numDontCares(m)]

search(k) == k \in searchSet

-----------------------------------------------------------------------------
(* LowMemoryBlacklist *)

\* Mutant: the value is stored as it is.
LowEntryMutant(m) == <<m.valueMask, Bits \ m.dontCareMask>>

\* what add stores: the value without the don't-care bits, and the care mask
LowEntry(m) == <<m.valueMask \ m.dontCareMask, Bits \ m.dontCareMask>>

lowSearch(k) == \E entry \in lowSearchSet : k \cap entry[2] = entry[1]

-----------------------------------------------------------------------------
\* add(InstructionMask) of both classes is entered.  A mask without a bit
\* that matters would be shifted out of an int and blacklist everything; no
\* port has one.
Add(m) ==
  /\ expanding = NoMask /\ Cardinality(added) < MaxMasks
  /\ m.dontCareMask # Bits
  /\ expanding' = m /\ i' = 0
  /\ lowSearchSet' = lowSearchSet \cup {LowEntry(m)}
  /\ UNCHANGED <<added, searchSet>>

\* one iteration of Blacklist::add
Insert ==
  /\ expanding # NoMask /\ i < Iterations(expanding)
  /\ searchSet' = searchSet \cup {Expansion(expanding, i)}
  /\ i' = i + 1
  /\ UNCHANGED <<added, expanding, lowSearchSet>>

Added ==
  /\ expanding # NoMask /\ i = Iterations(expanding)
  /\ added' = added \cup {expanding}
  /\ expanding' = NoMask /\ i' = 0
  /\ UNCHANGED <<searchSet, lowSearchSet>>

\* No more masks: the scan begins.
Built ==
  /\ expanding = NoMask /\ Cardinality(added) = MaxMasks
  /\ UNCHANGED vars

Next == (\E m \in InstructionMask : Add(m)) \/ Insert \/ Added \/ Built

Spec == Init /\ [][Next]_vars

-----------------------------------------------------------------------------
(* Properties. *)

\* The instructions a mask stands for.
Matches(m, k) == k \ m.dontCareMask = m.valueMask \ m.dontCareMask

\* Between two additions the expanded set holds exactly the instructions
\* that match a mask: scattered don't-care bits, a value with bits set in
\* its don't-care fields and overlapping masks make no difference.
ExpandedExactly ==
  expanding = NoMask =>
    \A k \in Word : search(k) <=> \E m \in added : Matches(m, k)

\* A port may use either class: both find the same instructions.
SearchesAgree ==
  expanding = NoMask => \A k \in Word : search(k) <=> lowSearch(k)

=============================================================================
