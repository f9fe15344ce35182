--------------------------- MODULE BlacklistProofs ---------------------------
(***************************************************************************)
(* Theorems about BlacklistMasks, for words of any width and any number of *)
(* masks.                                                                  *)
(***************************************************************************)
EXTENDS BlacklistMasks, PowersOfTwoProofs, FiniteSetTheorems, TLAPS

\* What the mask being expanded has added so far.
Partial ==
  IF expanding = NoMask THEN {}
  ELSE {Expansion(expanding, n) : n \in 0 .. i - 1}

\* The expanded set is what the masks added mean, and what the loop has made
\* of the next one.
SearchInv ==
  searchSet = {k \in Word : \E m \in added : Matches(m, k)} \cup Partial

\* The stored masks are those added and the one being added.
LowInv ==
  lowSearchSet =
    {LowEntry(m) : m \in added \cup ({expanding} \ {NoMask})}

\* Every variable keeps its type; the loop counter stays in its range.
TypeInv ==
  /\ added \in SUBSET InstructionMask
  /\ expanding \in InstructionMask
  /\ expanding # NoMask => expanding.dontCareMask # Bits
  /\ i \in 0 .. Iterations(expanding)

Inv == TypeInv /\ SearchInv /\ LowInv

-----------------------------------------------------------------------------
(* The don't-care bits, by their rank. *)

\* how many don't-care bits are below b
Rank(D, b) == Cardinality({c \in D : c < b})

LEMMA RankFacts ==
  ASSUME NEW D, D \subseteq Nat, IsFiniteSet(D)
  PROVE  /\ Cardinality(D) \in Nat
         /\ \A b \in D : Rank(D, b) \in 0 .. Cardinality(D) - 1
         /\ \A a, b \in D : a < b => Rank(D, a) < Rank(D, b)
<1>1. Cardinality(D) \in Nat
  BY FS_CardinalityType
<1> DEFINE Below(b) == {c \in D : c < b}
<1>2. ASSUME NEW b \in Nat
      PROVE  IsFiniteSet(Below(b)) /\ Cardinality(Below(b)) \in Nat
  BY FS_Subset, FS_CardinalityType
<1>3. ASSUME NEW b \in D PROVE Rank(D, b) \in 0 .. Cardinality(D) - 1
  <2>1. Below(b) \subseteq D /\ Below(b) # D
    OBVIOUS
  <2>2. Cardinality(Below(b)) < Cardinality(D)
    <3>1. /\ Cardinality(Below(b)) \in Nat /\ Cardinality(D) \in Nat
          /\ Cardinality(Below(b)) <= Cardinality(D)
          /\ Cardinality(Below(b)) = Cardinality(D) => Below(b) = D
      BY <2>1, FS_Subset, FS_CardinalityType
    <3> QED
      BY <2>1, <3>1
  <2> QED
    BY <1>1, <1>2, <2>2 DEF Rank
<1>4. ASSUME NEW a \in D, NEW b \in D, a < b PROVE Rank(D, a) < Rank(D, b)
  <2>1. a \notin Below(a) /\ Below(a) \cup {a} \subseteq Below(b)
    <3>1. a \in Nat /\ b \in Nat /\ \A c \in D : c \in Nat
      OBVIOUS
    <3>2. ~ (a < a) /\ \A c \in D : c < a => c < b
      BY <1>4, <3>1
    <3> QED
      BY <1>4, <3>2
  <2>2. Cardinality(Below(a) \cup {a}) = Cardinality(Below(a)) + 1
    BY <1>2, <2>1, FS_AddElement
  <2>3. Cardinality(Below(a) \cup {a}) <= Cardinality(Below(b))
    BY <1>2, <2>1, FS_Subset
  <2>4. Cardinality(Below(a)) \in Nat /\ Cardinality(Below(b)) \in Nat
    BY <1>2
  <2> HIDE DEF Below
  <2>5. Cardinality(Below(a)) < Cardinality(Below(b))
    BY <2>2, <2>3, <2>4
  <2> QED
    BY <2>5 DEF Rank, Below
<1> QED
  BY <1>1, <1>3, <1>4

\* Every rank up to the number of bits is taken, and by one bit.
LEMMA RankOnto ==
  ASSUME NEW D, D \subseteq Nat, IsFiniteSet(D),
         NEW d \in 0 .. Cardinality(D) - 1
  PROVE  \E b \in D : Rank(D, b) = d
<1> DEFINE n == Cardinality(D)
           rank == [b \in D |-> Rank(D, b)]
           Taken == {rank[b] : b \in D}
<1>1. n \in Nat /\ Taken \subseteq 0 .. n - 1
  BY RankFacts
<1>2. IsFiniteSet(0 .. n - 1) /\ Cardinality(0 .. n - 1) = n
  BY <1>1, FS_Interval
<1>3. rank \in Injection(D, Taken)
  <2>1. ASSUME NEW a \in D, NEW b \in D, Rank(D, a) = Rank(D, b) PROVE a = b
    <3>1. Rank(D, a) \in Nat /\ a \in Nat /\ b \in Nat
      <4>1. Rank(D, a) \in 0 .. Cardinality(D) - 1 /\ Cardinality(D) \in Nat
        BY RankFacts
      <4> QED
        BY <4>1
    <3>2. ~ (Rank(D, a) < Rank(D, b)) /\ ~ (Rank(D, b) < Rank(D, a))
      BY <2>1, <3>1
    <3>3. ~ (a < b) /\ ~ (b < a)
      BY <3>2, RankFacts
    <3> QED
      BY <3>1, <3>3
  <2> QED
    BY <2>1 DEF Injection, IsInjective
<1>4. IsFiniteSet(Taken) /\ Cardinality(Taken) <= n
  BY <1>1, <1>2, FS_Subset
<1>5. Cardinality(D) <= Cardinality(Taken)
  BY <1>3, <1>4, FS_Injection
<1>6. Cardinality(Taken) = Cardinality(0 .. n - 1)
  <2>1. Cardinality(Taken) \in Nat
    BY <1>4, FS_CardinalityType
  <2> QED
    BY <1>1, <1>2, <1>4, <1>5, <2>1
<1>7. Taken = 0 .. n - 1
  BY <1>1, <1>2, <1>6, FS_Subset
<1> QED
  BY <1>7

LEMMA MaskFacts ==
  ASSUME NEW m \in InstructionMask
  PROVE  /\ m.dontCareMask \subseteq Bits /\ m.valueMask \subseteq Bits
         /\ m.dontCareMask \subseteq Nat /\ IsFiniteSet(m.dontCareMask)
         /\ numDontCares(m) \in Nat
<1>1. m.dontCareMask \subseteq Bits /\ m.valueMask \subseteq Bits
  BY DEF InstructionMask, Word
<1>2. IsFiniteSet(Bits) /\ Bits \subseteq Nat
  BY MasksAssumption, FS_Interval DEF Bits
<1>3. IsFiniteSet(m.dontCareMask)
  BY <1>1, <1>2, FS_Subset
<1> QED
  BY <1>1, <1>2, <1>3, FS_CardinalityType DEF numDontCares

\* DontCareBit goes through the don't-care bits, each once.
LEMMA DontCareBits ==
  ASSUME NEW m \in InstructionMask
  PROVE  /\ \A d \in 0 .. numDontCares(m) - 1 :
              DontCareBit(m, d) \in m.dontCareMask
         /\ \A b \in m.dontCareMask :
              \E d \in 0 .. numDontCares(m) - 1 : DontCareBit(m, d) = b
<1> DEFINE D == m.dontCareMask
<1>1. D \subseteq Nat /\ IsFiniteSet(D)
  BY MaskFacts
<1>2. ASSUME NEW d \in 0 .. numDontCares(m) - 1
      PROVE  DontCareBit(m, d) \in D /\ Rank(D, DontCareBit(m, d)) = d
  <2>1. \E b \in D : Cardinality({c \in D : c < b}) = d
    BY <1>1, <1>2, RankOnto DEF Rank, numDontCares
  <2> QED
    BY <2>1 DEF DontCareBit, Rank
<1>3. ASSUME NEW b \in D
      PROVE  \E d \in 0 .. numDontCares(m) - 1 : DontCareBit(m, d) = b
  <2> DEFINE d == Rank(D, b)
  <2>1. d \in 0 .. numDontCares(m) - 1
    BY <1>1, RankFacts DEF numDontCares
  <2>2. DontCareBit(m, d) \in D /\ Rank(D, DontCareBit(m, d)) = d
    BY <1>2, <2>1
  <2> DEFINE a == DontCareBit(m, d)
  <2>3. a \in Nat /\ b \in Nat /\ Rank(D, a) = Rank(D, b) /\ Rank(D, a) \in Nat
    BY <1>1, <2>1, <2>2
  <2> HIDE DEF a, d
  <2>4. ~ (a < b) /\ ~ (b < a)
    BY <1>1, <2>2, <2>3, RankFacts DEF a
  <2>5. a = b
    BY <2>3, <2>4
  <2> QED
    BY <2>1, <2>5 DEF a
<1> QED
  BY <1>2, <1>3

\* The loop of Blacklist::add makes all the instructions a mask stands for,
\* and no others.
LEMMA ExpansionsExact ==
  ASSUME NEW m \in InstructionMask
  PROVE  {Expansion(m, n) : n \in 0 .. Iterations(m) - 1}
           = {k \in Word : Matches(m, k)}
<1> DEFINE D == m.dontCareMask
           N == numDontCares(m)
<1>1. N \in Nat /\ D \subseteq Bits /\ m.valueMask \subseteq Bits
  BY MaskFacts
<1>2. ASSUME NEW n \in 0 .. Iterations(m) - 1
      PROVE  Expansion(m, n) \in Word /\ Matches(m, Expansion(m, n))
  <2>1. {DontCareBit(m, d) : d \in CounterBits(m, n)} \subseteq D
    BY DontCareBits DEF CounterBits
  <2> QED
    BY <1>1, <2>1 DEF Expansion, Matches, Word
<1>3. ASSUME NEW k \in Word, Matches(m, k)
      PROVE  \E n \in 0 .. Iterations(m) - 1 : k = Expansion(m, n)
  <2> DEFINE E == {d \in 0 .. N - 1 : DontCareBit(m, d) \in k}
  <2>1. PICK n \in 0 .. Pow2[N] - 1 : \A d \in 0 .. N - 1 : Bit(n, d) = 1 <=> d \in E
    BY <1>1, DigitsExist
  <2>2. CounterBits(m, n) = E
    BY <2>1 DEF CounterBits
  <2>3. {DontCareBit(m, d) : d \in E} = k \cap D
    BY DontCareBits
  <2>4. k = (m.valueMask \ D) \cup (k \cap D)
    BY <1>3 DEF Matches
  <2> QED
    BY <2>1, <2>2, <2>3, <2>4 DEF Expansion, Iterations
<1> QED
  BY <1>2, <1>3

\* The low-memory search compares the bits that matter.
LEMMA LowEntryMatches ==
  ASSUME NEW m \in InstructionMask, NEW k \in Word
  PROVE  k \cap LowEntry(m)[2] = LowEntry(m)[1] <=> Matches(m, k)
<1>1. k \subseteq Bits
  BY DEF Word
<1>2. k \cap (Bits \ m.dontCareMask) = k \ m.dontCareMask
  BY <1>1
<1> QED
  BY <1>2 DEF LowEntry, Matches

-----------------------------------------------------------------------------
(* The invariant. *)

LEMMA IterationsPositive ==
  ASSUME NEW m \in InstructionMask
  PROVE  Iterations(m) \in Nat \ {0}
  BY MaskFacts, Pow2Positive DEF Iterations

LEMMA InvInit == Init => Inv
<1> SUFFICES ASSUME Init PROVE Inv
  OBVIOUS
<1> USE DEF Init
<1>1. NoMask \in InstructionMask
  BY DEF NoMask, InstructionMask, Word
<1>2. TypeInv
  BY <1>1, IterationsPositive DEF TypeInv
<1>3. SearchInv
  BY DEF SearchInv, Partial
<1>4. LowInv
  BY DEF LowInv
<1> QED
  BY <1>2, <1>3, <1>4 DEF Inv

LEMMA InvNext ==
  ASSUME Inv, [Next]_vars
  PROVE  Inv'
<1> USE DEF Inv
<1>1. ASSUME NEW m \in InstructionMask, Add(m) PROVE Inv'
  <2> USE <1>1 DEF Add
  <2>1. expanding' # NoMask
    BY DEF NoMask
  <2>2. TypeInv'
    BY IterationsPositive DEF TypeInv
  <2>3. SearchInv'
    <3>1. Partial = {} /\ Partial' = {}
      BY <2>1 DEF Partial
    <3> QED
      BY <3>1 DEF SearchInv
  <2>4. LowInv'
    <3>1. added' \cup ({expanding'} \ {NoMask}) = added \cup {m}
          /\ added \cup ({expanding} \ {NoMask}) = added
      BY <2>1
    <3> QED
      BY <3>1 DEF LowInv
  <2> QED
    BY <2>2, <2>3, <2>4
<1>2. ASSUME Insert PROVE Inv'
  <2> USE <1>2 DEF Insert
  <2>1. TypeInv'
    <3>1. Iterations(expanding) \in Nat
      BY IterationsPositive DEF TypeInv
    <3> QED
      BY <3>1 DEF TypeInv
  <2>2. SearchInv'
    <3>1. i \in Nat
      BY DEF TypeInv
    <3>2. 0 .. (i + 1) - 1 = (0 .. i - 1) \cup {i}
      BY <3>1
    <3>3. Partial' = Partial \cup {Expansion(expanding, i)}
      BY <3>2 DEF Partial
    <3> QED
      BY <3>3 DEF SearchInv
  <2>3. LowInv'
    BY DEF LowInv
  <2> QED
    BY <2>1, <2>2, <2>3
<1>3. ASSUME Added PROVE Inv'
  <2> USE <1>3 DEF Added
  <2>1. NoMask \in InstructionMask
    BY DEF NoMask, InstructionMask, Word
  <2>2. TypeInv'
    BY <2>1, IterationsPositive DEF TypeInv
  <2>3. SearchInv'
    <3>1. Partial = {k \in Word : Matches(expanding, k)}
      BY ExpansionsExact DEF Partial, TypeInv
    <3>2. Partial' = {}
      BY DEF Partial
    <3> QED
      BY <3>1, <3>2 DEF SearchInv
  <2>4. LowInv'
    <3>1. added' \cup ({expanding'} \ {NoMask})
            = added \cup ({expanding} \ {NoMask})
      OBVIOUS
    <3> QED
      BY <3>1 DEF LowInv
  <2> QED
    BY <2>2, <2>3, <2>4
<1>4. ASSUME UNCHANGED vars PROVE Inv'
  BY <1>4 DEF vars, TypeInv, SearchInv, LowInv, Partial
<1> QED
  BY <1>1, <1>2, <1>3, <1>4 DEF Next, Built

LEMMA AlwaysInv == Spec => []Inv
<1>1. Inv /\ [Next]_vars => Inv'
  BY InvNext
<1> QED
  BY <1>1, InvInit, PTL DEF Spec

\* Blacklist::search finds exactly the instructions that match a mask added,
\* however the masks overlap and whatever their don't-care fields hold.
THEOREM ExpandedExactlyThm == Spec => []ExpandedExactly
<1>1. Inv => ExpandedExactly
  BY DEF Inv, SearchInv, Partial, ExpandedExactly, search
<1> QED
  BY <1>1, AlwaysInv, PTL

\* Blacklist and LowMemoryBlacklist find the same instructions.
THEOREM SearchesAgreeThm == Spec => []SearchesAgree
<1>1. ASSUME Inv, expanding = NoMask, NEW k \in Word
      PROVE  search(k) <=> lowSearch(k)
  <2>1. lowSearchSet = {LowEntry(m) : m \in added}
    BY <1>1 DEF Inv, LowInv
  <2>2. \A m \in added : k \cap LowEntry(m)[2] = LowEntry(m)[1] <=> Matches(m, k)
    BY <1>1, LowEntryMatches DEF Inv, TypeInv
  <2>3. lowSearch(k) <=> \E m \in added : Matches(m, k)
    BY <2>1, <2>2 DEF lowSearch
  <2> QED
    BY <1>1, <2>3 DEF Inv, SearchInv, Partial, search
<1>2. Inv => SearchesAgree
  BY <1>1 DEF SearchesAgree
<1> QED
  BY <1>2, AlwaysInv, PTL

=============================================================================
