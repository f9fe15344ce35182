----------------------------- MODULE ResultTools -----------------------------
(***************************************************************************)
(* The tools of analysis/ that shorten a list of result instructions:      *)
(* firstPass.py makes a list of masked instructions of it, which           *)
(* rangeCompress.cpp shortens further.  An iteration of either main loop   *)
(* is a step.  Positions count from 1 here.                                *)
(***************************************************************************)
EXTENDS PowersOfTwo, Sequences, FiniteSetsExt

CONSTANTS
  WordBits,        \* 32
  Inputs           \* lists of instructions, ascending, at least two

Words == 0 .. Pow2[WordBits] - 1
Masks == SUBSET (0 .. WordBits - 1)

ASSUME ResultToolsAssumption ==
  /\ WordBits \in Nat \ {0}
  /\ \A list \in Inputs :
       /\ list \in Seq(Words) /\ Len(list) >= 2
       /\ \A p \in 1 .. Len(list) - 1 : list[p] < list[p + 1]

VARIABLES
  tool,          \* "firstPass", "rangeCompress" or "done"
  inputData,
  i, delta,      \* of the main loop of either tool
  firstOutput,   \* fpOutput.txt: instructions, with the set of masked bits
  instructions,  \* of rangeCompress
  output         \* of rangeCompress; `from' and `to' of an entry say which
                 \* part of its input it stands for (history)

vars == <<tool, inputData, i, delta, firstOutput, instructions, output>>

-----------------------------------------------------------------------------
\* No number here is beyond 2^WordBits, how many words there are.
IsPower2(n) == \E k \in 0 .. WordBits : n = Pow2[k]

BitLength(n) == Min({k \in 0 .. WordBits + 1 : n < Pow2[k]})

\* word & ~mask
Clear(word, mask) ==
  CHOOSE w \in Words : \A b \in 0 .. WordBits - 1 :
    Bit(w, b) = IF b \in mask THEN 0 ELSE Bit(word, b)

\* The masked instruction stands for w: they differ in masked bits only.
Denotes(e, w) ==
  \A b \in (0 .. WordBits - 1) \ e.mask : Bit(w, b) = Bit(e.instr, b)

\* The last position of the run that starts at p, when the elements at the
\* positions `joined' are one step away from their successors.
RunEnd(p, list, joined) == Min((p .. Len(list)) \ joined)

-----------------------------------------------------------------------------
Init ==
  /\ tool = "firstPass"
  /\ inputData \in Inputs
  /\ i = 1 /\ delta = inputData[2] - inputData[1]
  /\ firstOutput = <<>> /\ instructions = <<>> /\ output = <<>>

\* Mutant: a run of any length is taken whole.
TakenMutant(steps) == steps + 1

\* How many numbers of a run of so many steps firstPass.py takes: the
\* largest power of two
Taken(steps) ==
  IF IsPower2(steps + 1) THEN steps + 1 ELSE Pow2[BitLength(steps) - 1]

FirstPass ==
  LET joined == {r \in i .. Len(inputData) - 1 :
                   IsPower2(delta) /\ inputData[r] + delta = inputData[r + 1]}
      taken == Taken(RunEnd(i, inputData, joined) - i)
      variableBits == BitLength(taken) - 1
      deltaBitShift == BitLength(delta) - 1
      next == i + taken
  IN /\ tool = "firstPass" /\ i <= Len(inputData)
     /\ firstOutput' =
          Append(firstOutput,
                 [instr |-> inputData[i],
                  mask |-> {k + deltaBitShift : k \in 0 .. variableBits - 1},
                  from |-> i, to |-> next - 1])
     /\ i' = next
     /\ delta' = IF next < Len(inputData)
                   THEN inputData[next + 1] - inputData[next] ELSE delta
     /\ UNCHANGED <<tool, inputData, instructions, output>>

\* What rangeCompress makes of a line.
Masked(e) == [instr |-> Clear(e.instr, e.mask), mask |-> e.mask]

\* Mutant: the difference as a signed number.
DifferenceMutant(list, p) == list[p + 1].instr - list[p].instr

\* The difference of two instructions, as isPower2 and the sum take it.
Difference(list, p) == (list[p + 1].instr - list[p].instr) % Pow2[WordBits]

\* With a single entry the second is read from behind the vector.
Load ==
  /\ tool = "firstPass" /\ i > Len(inputData)
  /\ tool' = "rangeCompress" /\ i' = 1
  /\ instructions' = [p \in DOMAIN firstOutput |-> Masked(firstOutput[p])]
  /\ IF Len(firstOutput) > 1
       THEN delta' = Difference(instructions', 1) ELSE delta' \in Words
  /\ UNCHANGED <<inputData, firstOutput, output>>

\* Mutant: the logarithm is rounded up.
Log2Mutant(n) == IF IsPower2(n) THEN BitLength(n) - 1 ELSE BitLength(n)

\* (int)log2(n); of 0 it is some number below every count
Log2(n) == BitLength(n) - 1

inSameRange(p) ==
  /\ (instructions[p].instr + delta) % Pow2[WordBits] = instructions[p + 1].instr
  /\ instructions[p].mask = instructions[p + 1].mask

\* Mutant: the step back is one too far.
LastTakenMutant(end, steps, variableBits) ==
  IF IsPower2(steps + 1) THEN end ELSE end - (steps + 2 - Pow2[variableBits])

\* where a run is left: the step back, unless its length is a power of two
LastTaken(end, steps, variableBits) ==
  IF IsPower2(steps + 1) THEN end ELSE end - (steps + 1 - Pow2[variableBits])

\* The bits lie one below delta's; a shift by -1 is one by WordBits - 1.
RangeCompress ==
  LET joined == {r \in i .. Len(instructions) - 1 :
                   IsPower2(delta) /\ inSameRange(r)}
      end == RunEnd(i, instructions, joined)
      steps == end - i
      variableBits == Log2(steps) - (IF IsPower2(steps + 1) THEN 0 ELSE 1)
      deltaBitShift == Log2(delta) - 1
      last == LastTaken(end, steps, variableBits)
      added == {(k + deltaBitShift) % WordBits : k \in 0 .. variableBits - 1}
  IN /\ tool = "rangeCompress" /\ i <= Len(instructions)
     /\ output' = Append(output, [instr |-> instructions[i].instr,
                                  mask |-> instructions[i].mask \cup added,
                                  from |-> i, to |-> last])
     /\ i' = last + 1
     /\ delta' = IF last + 1 < Len(instructions)
                   THEN Difference(instructions, last + 1) ELSE delta
     /\ UNCHANGED <<tool, inputData, firstOutput, instructions>>

Finish ==
  /\ tool = "rangeCompress" /\ i > Len(instructions)
  /\ tool' = "done"
  /\ UNCHANGED <<inputData, i, delta, firstOutput, instructions, output>>

Done == tool = "done" /\ UNCHANGED vars

Next == FirstPass \/ Load \/ RangeCompress \/ Finish \/ Done

Spec == Init /\ [][Next]_vars

-----------------------------------------------------------------------------
(* Properties. *)

\* Every variable keeps its type; a mask never reaches beyond a word.
TypeOK ==
  /\ tool \in {"firstPass", "rangeCompress", "done"}
  /\ i \in 1 .. Len(inputData) + 1
  /\ delta \in Words
  /\ \A p \in DOMAIN firstOutput : firstOutput[p].mask \in Masks
  /\ \A p \in DOMAIN output :
       output[p].instr \in Words /\ output[p].mask \in Masks

\* The entries stand for all of the list that was read, one after the other.
Contiguous(entries, read) ==
  /\ \A p \in DOMAIN entries :
       /\ entries[p].from <= entries[p].to
       /\ entries[p].from = IF p = 1 THEN 1 ELSE entries[p - 1].to + 1
  /\ (IF entries = <<>> THEN 0 ELSE entries[Len(entries)].to) = read

\* The run of a line of firstPass.py starts where the masked bits are clear.
Aligned(e) == \A b \in e.mask : Bit(e.instr, b) = 0

\* firstPass.py loses nothing: it leaves no number out, an entry is as many
\* words as it stands for, and exactly these if its run starts where the
\* masked bits are clear.
FirstPassExact ==
  LET read == IF tool = "firstPass" THEN i - 1 ELSE Len(inputData)
  IN /\ Contiguous(firstOutput, read)
     /\ \A p \in DOMAIN firstOutput :
          LET e == firstOutput[p]
              Size == Pow2[Cardinality(e.mask)]
          IN /\ e.to - e.from + 1 = Size
             /\ Aligned(e) => \A q \in e.from .. e.to : Denotes(e, inputData[q])

\* The k of 2^k
Exponent(n) == CHOOSE k \in 0 .. WordBits : n = Pow2[k]

\* At position q of the list the run of the entry goes on: the next line has
\* the mask and the distance of the entry's first two.
GoesOn(list, e, q) ==
  /\ list[q + 1].mask = list[e.from].mask
  /\ Difference(list, q) = Difference(list, e.from)

\* The entry takes a run to its end, rather than 2^n lines of a longer one.
Whole(list, e) == e.to = Len(list) \/ ~ GoesOn(list, e, e.to)

\* The first of 2^n lines that are 2^s apart has the bits s to s + n - 1 clear:
\* the lines count in these bits.
InPlace(list, e) ==
  e.from < e.to =>
    LET s == Exponent(Difference(list, e.from))
        n == Exponent(e.to - e.from + 1)
    IN  /\ s + n <= WordBits
        /\ \A b \in s .. s + n - 1 : Bit(list[e.from].instr, b) = 0

\* The words of an entry are those of the first half of its lines, or of the
\* first quarter if it takes its run to the end, with the bit below the
\* distance either way; of fewer than two or four lines they are those of the
\* first.
WordsOfEntry(list, e) ==
  LET count == e.to - e.from + 1
      share == IF Whole(list, e) THEN 4 ELSE 2
      kept == IF count < share THEN 1 ELSE count \div share
      blurred == IF count < share THEN {}
                 ELSE {(Exponent(Difference(list, e.from)) - 1) % WordBits}
  IN  \A w \in Words :
        Denotes(e, w) <=>
          \E q \in e.from .. e.from + kept - 1 :
            Denotes([instr |-> list[q].instr,
                     mask |-> list[q].mask \cup blurred], w)

\* The entry stands for 2^n lines of one mask, a power of two apart, and its
\* words are these.
EntryExact(list, e) ==
  /\ IsPower2(e.to - e.from + 1)
  /\ \A q \in e.from .. e.to - 1 :
       IsPower2(Difference(list, e.from)) /\ GoesOn(list, e, q)
  /\ InPlace(list, e) => WordsOfEntry(list, e)

\* rangeCompress reads all of its lines, and takes 2^n of them together only
\* when they have one mask and one distance, a power of two. Which words the
\* entry then denotes: not those of all its lines, as was meant. The code
\* places the bits one too low (line 92 of rangeCompress.cpp), so that half of
\* the lines go and words come that no line had; and where the run ends with
\* these lines it counts the bits one too few (line 87), so that another
\* quarter goes. Nothing else goes or comes. (Of 0, 1, 4, 5, 8, 9, 12, 13
\* firstPass.py makes four lines, and rangeCompress 0 to 3 of these.) As in
\* firstPass.py this needs a run in place.
RangeExact ==
  /\ tool # "firstPass" =>
       Contiguous(output, IF tool = "done" THEN Len(instructions) ELSE i - 1)
  /\ \A p \in DOMAIN output : EntryExact(instructions, output[p])

\* Both tools come to the end of the list, although either steps its index
\* back: an iteration of a main loop leaves the index further than it was.
Advances == [][tool' = tool => i' > i]_vars

=============================================================================
