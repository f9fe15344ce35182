--------------------------- MODULE RiscvInvariant ---------------------------
(***************************************************************************)
(* The inductive invariant of RiscvUnit: how size, instruction pointer,    *)
(* page, registers and progress go together at each step of a handler, for *)
(* any number of late SIGUSR2.                                             *)
(***************************************************************************)
EXTENDS RiscvUnit

\* The stages of 16-bit encodings are given parts that are not empty.  The
\* manager's are (StaysInOwnPart of Memcage), save with more units than
\* instructions (run single_instruction).
PartsInOrder == \A p \in Parts : p[2] <= p[3]

VlePcs == {"retryPointer", "retrySize", "shortenPointer", "shortenSize",
           "nextPrefix"}

vle == fetchInstruction = "vle"

\* What a unit is set up as, and what every variable can hold.
VarInv ==
  /\ <<fetchInstruction, firstInstruction, finalInstruction>> \in Parts
  /\ altStack \in AltStacks
  /\ currentInstruction \in instr_t /\ nextInstruction \in instr_t
  /\ currentInstructionSize \in {2, 4} /\ instructionPointer \in {2, 4}
  /\ sizeError \in BOOLEAN /\ isStopped \in BOOLEAN
  /\ numInstrExec \in 0 .. CountMod - 1
  /\ page \in [{2, 4} -> 0 .. HalfMod - 1]
  /\ blocked \subseteq {"ILL", "SEGV", "TRAP"}
  /\ fault.signo \in {"none", "ILL", "SEGV", "TRAP"}
  /\ hangs \subseteq instr_t \X {2, 4}

\* Which handler runs, and how far it can be.
HandlerInv ==
  /\ pc \in VlePcs \cup {"entry", "write", "run", "analyse", "fetch", "commit",
                         "stop", "killed", "lost"}
  /\ pc = "run" => handler = "none"
  /\ pc # "run" => handler \in {"entry", "fault", "hang"}
  /\ pc = "entry" => handler = "entry"
  /\ pc \in {"analyse", "lost"} => handler \in {"fault", "hang"}
  /\ pc \in {"commit", "killed"} => handler = "fault"
  /\ pc \in VlePcs => vle
  /\ pc \in {"retryPointer", "retrySize"} => handler \in {"fault", "hang"}
  /\ handler = "fault" => fault.signo # "none"
  /\ handler # "fault" => fault = NoFault

\* A SIGUSR2 that comes while the size is set back finds no expansions left,
\* and starts over.
SetBack == currentInstruction # finalInstruction /\ Expansions = {}

\* The current prefix is to be run as the start of 32 bits.
Retries == sizeError \/ pc \in {"retryPointer", "retrySize"}

\* The size and the instruction pointer are fixed save with vleExhaustive.
FixedSize ==
  ~ vle => /\ currentInstructionSize = instructionSize
           /\ instructionPointer = instructionSize
           /\ ~ sizeError

\* A unit that was torn apart stays so.
TornSize ==
  Torn => /\ vle /\ instructionPointer = 4 /\ currentInstructionSize = 2
          /\ ~ sizeError
          /\ pc \notin {"retryPointer", "retrySize", "shortenPointer",
                        "shortenSize"}

\* Size and instruction pointer at each step of vleExhaustive.
VleSize ==
  /\ sizeError => /\ instructionPointer = 2 /\ currentInstructionSize = 2
                  /\ pc \in {"analyse", "fetch", "lost"}
                  /\ handler \in {"fault", "hang"}
  /\ pc = "retryPointer" =>
       instructionPointer = 2 /\ currentInstructionSize = 2
  /\ pc = "retrySize" => instructionPointer = 4 /\ currentInstructionSize = 2
  /\ pc = "shortenPointer" => currentInstructionSize = 4 /\ SetBack
  /\ pc = "shortenSize" =>
       instructionPointer = 2 /\ currentInstructionSize = 4 /\ SetBack
  /\ pc = "nextPrefix" => currentInstructionSize = 2
  /\ pc \notin {"retrySize", "shortenPointer", "shortenSize"} =>
       \/ instructionPointer = currentInstructionSize
       \/ /\ pc \in {"analyse", "fetch", "lost"} /\ handler = "hang"
          /\ instructionPointer = 2 /\ currentInstructionSize = 4
          /\ SetBack

\* What is run at the longer size, or is to be, starts 32 bits.
LongWords ==
  currentInstructionSize = 4 \/ Retries => IsLong(Prefix(currentInstruction))

SizeInv ==
  /\ FixedSize
  /\ TornSize
  /\ vle /\ ~ Torn => VleSize /\ LongWords

\* The instruction that is written to the page, or has been.
Written == IF handler = "fault" /\ pc \in {"write", "commit"}
             THEN nextInstruction ELSE currentInstruction

OnPage(k) ==
  /\ page[instructionPointer] = Prefix(k)
  /\ currentInstructionSize = 4 => page[2] = Other(k)

PageInv ==
  /\ pc \in {"run", "commit"} => OnPage(Written)
  /\ handler = "fault" /\ pc = "analyse" =>
       OnPage(currentInstruction) /\ fault = FaultOf
  /\ Torn => page[2] = Filler \/ (handler = "hang" /\ pc = "analyse")

\* The instruction that Written stands for is to be run, or runs.
Pending ==
  \/ pc \in {"entry", "write", "run", "commit"}
  \/ handler = "fault" /\ pc = "analyse"

\* What is run next is to be run, and is one that the size goes with.
WordInv ==
  /\ pc = "entry" => currentInstruction = firstInstruction
  /\ Pending /\ pc # "entry" =>
       /\ ~ search(Written)
       /\ vle /\ currentInstructionSize = 2 => Written < HalfMod
       /\ vle /\ currentInstructionSize = 4 =>
            IsLong(Prefix(Written)) /\ ~ search(Prefix(Written))
  /\ Retries => ~ search(currentInstruction) /\ currentInstruction < HalfMod
  /\ vle /\ currentInstructionSize = 4 => ~ search(Prefix(currentInstruction))

\* x can be reached in a part that ends at f: the restricted 16-bit stage
\* can step beyond the end.
Reach(stage, x, f) ==
  /\ x \in instr_t
  /\ x <= f \/ (stage = "riscvc" /\ x = f + 1)
  /\ stage = "riscvg" => (f - x) % 4 = 0

\* A part riscvgOnlyFetch ends.
Proper == fetchInstruction = "riscvg" => Aligned

\* k is in the part, or where riscvcOnlyFetch steps beyond it.
InPart(k) ==
  /\ vle => /\ Prefix(k) \in firstInstruction .. finalInstruction
            /\ Prefix(k) = finalInstruction => Other(k) = 0
  /\ ~ vle /\ Proper =>
       /\ firstInstruction <= k
       /\ Reach(fetchInstruction, k, finalInstruction)
       /\ fetchInstruction = "riscvc" /\ IsLong(k) => k = firstInstruction

\* What is current or next is in the part.
RangeInv == InPart(currentInstruction) /\ InPart(Written)

\* The instruction and length w comes before k at size s ...
Before(w, k, s) ==
  IF vle
    THEN \/ Prefix(w[1]) < Prefix(k)
         \/ /\ s = 4 /\ Prefix(w[1]) = Prefix(k)
            /\ w[2] = 2 \/ Other(w[1]) < Other(k)
    ELSE w[1] < k

\* ... or is not after it.
UpTo(w, k, s) ==
  IF vle
    THEN \/ Prefix(w[1]) < Prefix(k)
         \/ /\ Prefix(w[1]) = Prefix(k)
            /\ s = 2 \/ w[2] = 2 \/ Other(w[1]) <= Other(k)
    ELSE w[1] <= k

Done == Scanned \cup hangs

DoneType == Done \subseteq instr_t \X {2, 4}

\* Nothing after the current instruction is done, nor is what is next.
DoneInv ==
  Proper =>
    /\ \A w \in Done : UpTo(w, currentInstruction, currentInstructionSize)
    /\ Pending =>
         \A w \in Done : Before(w, Written, currentInstructionSize)
    /\ Retries =>
         \A w \in Done : Prefix(w[1]) = Prefix(currentInstruction) => w[2] = 2

Covered(w) == w \in Done \/ <<Prefix(w[1]), 2>> \in hangs

\* The current instruction has been analysed, and is not run once more.
Analysed ==
  /\ pc \in {"fetch", "stop", "shortenPointer", "shortenSize", "nextPrefix"}
  /\ ~ sizeError

\* What is wanted and before the current instruction is covered.
CoverInv ==
  Proper /\ ~ Torn =>
    /\ \A w \in Wanted :
         Before(w, currentInstruction, currentInstructionSize) => Covered(w)
    /\ Pending => \A w \in Wanted :
         Before(w, Written, currentInstructionSize) => Covered(w)
    /\ Analysed \/ (vle /\ currentInstructionSize = 2
                      /\ Other(currentInstruction) # 0) =>
         \A w \in Wanted :
           UpTo(w, currentInstruction, currentInstructionSize) => Covered(w)
    /\ isStopped => \A w \in Wanted : Covered(w)

\* riscvgOnlyFetch keeps its stride, and so does not stop where it cannot.
StrideInv ==
  fetchInstruction = "riscvg" =>
    /\ \A k \in {currentInstruction, Written} : (k - firstInstruction) % 4 = 0
    /\ isStopped => Aligned

\* How many encodings k is into the part.
PassedTo(k) == IF fetchInstruction = "riscvg" THEN (k - firstInstruction) \div 4
                                              ELSE k - firstInstruction

\* Without late signals, every encoding counts, hung, or started blacklisted.
CountInv ==
  ~ Late /\ ~ vle /\ Proper =>
    /\ Pending \/ (handler = "fault" /\ pc = "fetch")
         \/ (handler = "hang" /\ pc = "analyse") =>
         numInstrExec + Cardinality(hangs)
           + (IF pc # "entry" /\ search(firstInstruction) THEN 1 ELSE 0) =
             PassedTo(Written)
    /\ handler = "hang" /\ pc = "fetch" =>
         numInstrExec + Cardinality(hangs)
           + (IF search(firstInstruction) THEN 1 ELSE 0) =
             PassedTo(currentInstruction) + 1
    /\ handler = "entry" /\ pc = "fetch" =>
         /\ numInstrExec = 0 /\ hangs = {} /\ search(firstInstruction)
         /\ currentInstruction = firstInstruction
    /\ handler = "hang" /\ pc = "analyse" =>
         \A w \in Done : w[1] < currentInstruction

RecoveryInv ==
  /\ recovery \in {None, RecoveryAddress(Top(altStack) - 1)}
  /\ pc # "entry" /\ <<"entry", "entry">> \notin overtaken =>
       recovery # None
  /\ \/ pc = "run"
     \/ sp \in {Top(altStack) - f : f \in Frames}
     \/ /\ handler = "hang" /\ Late
        /\ sp \in {Top(altStack) - f : f \in NestedFrames}

\* A fetch from where the unit is finds the end.
FetchFinds ==
  LET p == Prefix(currentInstruction)
  IN IF vle
       THEN /\ ~ sizeError
            /\ IF currentInstructionSize = 4
                 THEN currentInstruction = finalInstruction
                 ELSE p + 1 .. finalInstruction \subseteq Blacklist
       ELSE \E n \in 0 .. InstrMod :
              Finishes(fetchInstruction, currentInstruction,
                       finalInstruction, n)

StopInv ==
  isStopped => /\ \/ pc = "stop"
                  \/ handler = "hang" /\ pc \in {"analyse", "fetch", "lost"}
               /\ FetchFinds

=============================================================================
