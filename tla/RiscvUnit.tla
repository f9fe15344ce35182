------------------------------ MODULE RiscvUnit ------------------------------
(***************************************************************************)
(* One memory-cage unit of a RISC-V port: its three signal handlers, its   *)
(* page and its handlers' stack, with any of the stages main() can be set  *)
(* to.                                                                     *)
(*                                                                         *)
(* With the stages for variable length, basicAnalysisAndSizeCheckRiscv and *)
(* vleExhaustive, an instruction is a 16-bit prefix, alone or with the 16  *)
(* bits after it, and a part is a range of prefixes.  A prefix is run at   *)
(* the very end of the page; if the processor tries to read past the page, *)
(* it is run again, two bytes earlier, with each value of the other half.  *)
(*                                                                         *)
(* The manager is one signal here: SIGUSR2, for a unit that is stuck, and   *)
(* at up to MaxLate places for one that is not (see OneSecondIsLong of     *)
(* ScannerManager).  Bytes are counted from the end of the page backwards. *)
(***************************************************************************)
EXTENDS RiscvStages, MemoryCage, FiniteSets, FiniteSetsExt

CONSTANTS
  Parts,       \* the set-ups looked at: <<stage, first, final>>
  AltStacks,   \* where the kernel may put the handlers' stack
  Frames, NestedFrames,   \* the stack a handler needs, alone and in another
  HalfMod,     \* number of values of 16 bits
  Filler,      \* the 16 bits of fillerInstruction
  CountMod,    \* number of values of numInstrExec, 2^64 in the code
  Traps, Loads, Loops,    \* instructions that raise SIGILL, that fault on
                          \* their data, that never end; others fall through
  MaxLate      \* bound: in how many places SIGUSR2 reaches a unit that is
               \* not stuck

Stages == {"exhaustive", "riscvg", "riscvc", "vle"}

\* 16 bits hold whole strides of riscvgOnlyFetch; a handler needs less than a
\* page of stack, and two of them less than two; the counter, of 64 bits, does
\* not overflow in a pass over the encodings.
ASSUME RiscvAssumption ==
  /\ HalfMod \in Nat \ {0} /\ HalfMod % 4 = 0
  /\ InstrMod = HalfMod * HalfMod
  /\ Filler \in 0 .. HalfMod - 1 /\ ~ IsLong(Filler)
  /\ Parts \subseteq Stages \X instr_t \X instr_t
  /\ \A p \in Parts : p[1] # "riscvg" => p[3] < HalfMod
  /\ AltStacks \subseteq {b \in Nat : b % pageSize = 0}
  /\ Frames \subseteq 1 .. pageSize
  /\ NestedFrames \subseteq 1 .. 2 * pageSize
  /\ CountMod \in Nat /\ CountMod > HalfMod /\ CountMod > InstrMod \div 4
  /\ MaxLate \in Nat

VARIABLES
  fetchInstruction, firstInstruction, altStack,   \* how the unit is set up
  currentInstruction, finalInstruction, currentInstructionSize, sizeError,
  instructionPointer, numInstrExec, isStopped,    \* the unit's Scanner
  nextInstruction,   \* local to faultHandler
  page,              \* the two halves that end the page
  recovery,          \* where setRecoveryData has put the registers, or none
  handler, pc,       \* "entry", "fault" or "hang", and how far it is
  sp, fault,         \* what a handler is entered with
  blocked,           \* the signals blocked while the page runs
  overtaken,         \* where a SIGUSR2 for no reason has cut in (history)
  analysed, hangs    \* what faultHandler analysed, HANG lines (history)

setup == <<fetchInstruction, firstInstruction, finalInstruction, altStack>>
size == <<currentInstructionSize, instructionPointer>>
progress == <<currentInstruction, nextInstruction, isStopped>>
entered == <<handler, sp, fault, blocked>>
history == <<overtaken, analysed, hangs>>
vars == <<setup, size, progress, sizeError, numInstrExec, page, recovery, pc,
          entered, history>>

None == 0
Elsewhere == -1
NoFault == [signo |-> "none", pc |-> 0, addr |-> Elsewhere]
StdPage == [o \in {2, 4} |-> Filler]

Prefix(k) == k % HalfMod
Other(k) == k \div HalfMod
construct(p, o) == p + o * HalfMod

\* the ports' constants
instructionSize == IF fetchInstruction = "riscvg" THEN 4 ELSE 2
instructionSizeUC == 4

\* initScanner and localScannerInit; the start signal is on its way.
Init ==
  /\ \E p \in Parts : /\ fetchInstruction = p[1]
                      /\ firstInstruction = p[2]
                      /\ finalInstruction = p[3]
  /\ altStack \in AltStacks
  /\ currentInstruction = firstInstruction
  /\ nextInstruction = firstInstruction
  /\ currentInstructionSize = instructionSize
  /\ instructionPointer = currentInstructionSize
  /\ sizeError = FALSE /\ isStopped = FALSE
  /\ numInstrExec = 0
  /\ page = StdPage
  /\ recovery = None
  /\ handler = "entry" /\ pc = "entry"
  /\ sp \in {Top(altStack) - f : f \in Frames}
  /\ fault = NoFault
  /\ blocked = {} /\ overtaken = {} /\ analysed = {} /\ hangs = {}

-----------------------------------------------------------------------------
(* The processor. *)

\* What is at the instruction pointer, as the processor reads it: a word and
\* the length it takes it to have.
Ran ==
  LET h == page[instructionPointer]
  IN IF fetchInstruction = "riscvg" \/ IsLong(h)
       THEN [word |-> IF instructionPointer = 4
                        THEN construct(h, page[2]) ELSE h,
             size |-> 4]
       ELSE [word |-> h, size |-> 2]

ReadsPastPage == Ran.size > instructionPointer

\* The signal, and the pc and the address it comes with, relative to the
\* instruction.  What falls through runs into filler, or off the page.
FaultOf ==
  CASE ReadsPastPage -> [signo |-> "SEGV", pc |-> 0, addr |-> 2]
    [] ~ ReadsPastPage /\ Ran.word \in Traps ->
         [signo |-> "ILL", pc |-> 0, addr |-> 0]
    [] ~ ReadsPastPage /\ Ran.word \in Loads ->
         [signo |-> "SEGV", pc |-> 0, addr |-> Elsewhere]
    [] OTHER ->
         [signo |-> IF Ran.size < instructionPointer THEN "TRAP" ELSE "SEGV",
          pc |-> Ran.size, addr |-> Ran.size]

Hangs == ~ ReadsPastPage /\ Ran.word \in Loops

\* The page runs into a fault.  A blocked one ends the process.
Execute ==
  /\ pc = "run" /\ ~ Hangs
  /\ fault' = FaultOf
  /\ handler' = "fault"
  /\ pc' = IF FaultOf.signo \in blocked THEN "killed" ELSE "analyse"
  /\ sp' \in {Top(altStack) - f : f \in Frames}
  /\ UNCHANGED <<setup, size, progress, sizeError, numInstrExec, page,
                 recovery, blocked, history>>

EnterHangHandler(frames) ==
  /\ handler' = "hang" /\ pc' = "analyse" /\ fault' = NoFault
  /\ sp' \in {Top(altStack) - f : f \in frames}
  /\ UNCHANGED <<setup, size, progress, sizeError, numInstrExec, page,
                 recovery, analysed, hangs>>

\* SIGUSR2 reaches a unit that is stuck ...
Hang ==
  /\ pc = "run" /\ Hangs
  /\ EnterHangHandler(Frames)
  /\ UNCHANGED <<blocked, overtaken>>

\* ... or one that is not.  A handler that is cut short never goes on, and
\* its signal stays blocked.
LateHang ==
  /\ Cardinality(overtaken) < MaxLate
  /\ pc \notin {"killed", "lost"} /\ ~ (pc = "run" /\ Hangs)
  /\ pc # "run" => handler # "hang"
  /\ overtaken' = overtaken \cup {<<handler, pc>>}
  /\ blocked' = IF pc # "run" /\ handler = "fault"
                  THEN blocked \cup {fault.signo} ELSE blocked
  /\ EnterHangHandler(IF pc = "run" THEN Frames ELSE NestedFrames)

-----------------------------------------------------------------------------
(* Stages *)

\* Mutant: pc is not looked at.
SizeCheckMutant == fault.signo = "SEGV" /\ fault.addr = 2

\* the condition basicAnalysisAndSizeCheckRiscv and riscvLengthLogAnalysis
\* share (hangHandler passes the siginfo of SIGUSR2)
SizeCheck == fault.signo = "SEGV" /\ fault.pc = 0 /\ fault.addr = 2

\* (*analyse)(data): the length logged with exhaustive is what the analysis
\* found out, with the other stages it is what the unit is set to.
analyse ==
  /\ sizeError' =
       IF fetchInstruction = "vle" /\ SizeCheck THEN TRUE ELSE sizeError
  /\ analysed' =
       IF handler = "hang" \/ (fetchInstruction = "vle" /\ SizeCheck)
         THEN analysed
         ELSE analysed \cup
                {[word |-> currentInstruction, ran |-> Ran,
                  size |-> IF fetchInstruction # "exhaustive"
                             THEN currentInstructionSize
                             ELSE IF SizeCheck THEN 4 ELSE 2]}

\* numInstrExec, of which faultHandler adds one to what the stage adds
Count(n) ==
  numInstrExec' =
    (numInstrExec + n + IF handler = "fault" THEN 1 ELSE 0) % CountMod

\* The stage returns false and k; only faultHandler keeps it to itself.
Result(k) ==
  /\ pc' = "write"
  /\ IF handler = "fault"
       THEN nextInstruction' = k /\ UNCHANGED currentInstruction
       ELSE currentInstruction' = k /\ UNCHANGED nextInstruction
  /\ UNCHANGED isStopped

\* Mutant: stopWorker returns, and the handler goes on.
stopWorkerMutant ==
  /\ isStopped' = TRUE
  /\ pc' = "write"
  /\ UNCHANGED <<currentInstruction, nextInstruction>>

\* The stage returns true, and the handler goes to stopWorker.
stopWorker ==
  /\ isStopped' = TRUE
  /\ pc' = "stop"
  /\ UNCHANGED <<currentInstruction, nextInstruction>>

\* exhaustive, riscvgOnlyFetch, riscvcOnlyFetch
FetchVisited ==
  /\ pc = "fetch" /\ fetchInstruction # "vle"
  /\ LET k == currentInstruction
         stage == fetchInstruction
     IN \/ \E n \in {m \in 0 .. InstrMod :
                       Yields(stage, k, finalInstruction, m)} :
             /\ Count(Counted(stage, k, n + 1))
             /\ Result(Visited(stage, k, n + 1))
        \/ \E n \in {m \in 0 .. InstrMod :
                       Finishes(stage, k, finalInstruction, m)} :
             /\ Count(IF n = 0 THEN 0 ELSE Counted(stage, k, n))
             /\ stopWorker
  /\ UNCHANGED <<size, sizeError, page>>

-----------------------------------------------------------------------------
(* vleExhaustive, cut where SIGUSR2 makes a difference. *)

\* Mutant: sizeError stays set.
RetryLongerMutant ==
  /\ pc = "fetch" /\ fetchInstruction = "vle" /\ sizeError
  /\ numInstrExec' = (numInstrExec + 1) % CountMod
  /\ pc' = "retryPointer"
  /\ UNCHANGED <<size, progress, sizeError, page>>

\* The unit is to run the same prefix again, as the start of 32 bits.
RetryLonger ==
  /\ pc = "fetch" /\ fetchInstruction = "vle" /\ sizeError
  /\ numInstrExec' = (numInstrExec + 1) % CountMod
  /\ sizeError' = FALSE
  /\ pc' = "retryPointer"
  /\ UNCHANGED <<size, progress, page>>

RetryPointer ==
  /\ pc = "retryPointer"
  /\ instructionPointer' = instructionSizeUC
  /\ pc' = "retrySize"
  /\ UNCHANGED <<currentInstructionSize, progress, numInstrExec, sizeError,
                 page>>

RetrySize ==
  /\ pc = "retrySize"
  /\ currentInstructionSize' = instructionSizeUC
  /\ Count(0)
  /\ Result(currentInstruction)
  /\ UNCHANGED <<instructionPointer, sizeError, page>>

\* Mutant: the current instruction counts as one that is left.
ExpansionsMutant ==
  {construct(Prefix(currentInstruction), o) :
     o \in Other(currentInstruction) .. HalfMod - 1} \ Blacklist

\* The 32-bit instructions that are left of the current prefix.
Expansions ==
  {construct(Prefix(currentInstruction), o) :
     o \in Other(currentInstruction) + 1 .. HalfMod - 1} \ Blacklist

\* The loop over the other half.  It sees the end of the part only at its
\* start: an end is a prefix.
NextExpansion ==
  /\ pc = "fetch" /\ fetchInstruction = "vle" /\ ~ sizeError
  /\ currentInstructionSize = instructionSizeUC
  /\ \/ /\ currentInstruction = finalInstruction
        /\ Count(0)
        /\ stopWorker
        /\ UNCHANGED page
     \/ /\ currentInstruction # finalInstruction /\ Expansions # {}
        /\ Count(Other(Min(Expansions)) - Other(currentInstruction))
        /\ Result(Min(Expansions))
        /\ UNCHANGED page
     \/ /\ currentInstruction # finalInstruction /\ Expansions = {}
        /\ numInstrExec' = (numInstrExec + HalfMod - 1
                              - Other(currentInstruction)) % CountMod
        /\ page' = StdPage
        /\ pc' = "shortenPointer"
        /\ UNCHANGED <<progress>>
  /\ UNCHANGED <<size, sizeError>>

\* Back to the end of the page.
ShortenPointer ==
  /\ pc = "shortenPointer"
  /\ instructionPointer' = instructionSize
  /\ pc' = "shortenSize"
  /\ UNCHANGED <<currentInstructionSize, progress, numInstrExec, sizeError,
                 page>>

\* Mutant: the size is not reset.
ShortenSizeMutant ==
  /\ pc = "shortenSize"
  /\ pc' = "nextPrefix"
  /\ UNCHANGED <<size, progress, numInstrExec, sizeError, page>>

ShortenSize ==
  /\ pc = "shortenSize"
  /\ currentInstructionSize' = instructionSize
  /\ pc' = "nextPrefix"
  /\ UNCHANGED <<instructionPointer, progress, numInstrExec, sizeError, page>>

\* The loop over the prefixes.
NextPrefix ==
  LET p == Prefix(currentInstruction)
      left == {q \in p + 1 .. HalfMod - 1 : ~ search(q)}
      AtLast == p + 1 .. finalInstruction \subseteq Blacklist
  IN /\ \/ pc = "nextPrefix"
        \/ /\ pc = "fetch" /\ fetchInstruction = "vle" /\ ~ sizeError
           /\ currentInstructionSize # instructionSizeUC
     /\ \/ AtLast /\ Count(finalInstruction - p) /\ stopWorker
        \/ ~ AtLast /\ Count(Min(left) - p) /\ Result(Min(left))
     /\ UNCHANGED <<size, sizeError, page>>

vleExhaustive ==
  \/ RetryLonger \/ RetryPointer \/ RetrySize \/ NextExpansion
  \/ ShortenPointer \/ ShortenSize \/ NextPrefix

-----------------------------------------------------------------------------
(* The handlers. *)

\* entryHandler: setRecoveryData, and the first instruction
Entry ==
  /\ pc = "entry"
  /\ recovery' = RecoveryAddress(sp)
  /\ pc' = IF search(currentInstruction) THEN "fetch" ELSE "write"
  /\ UNCHANGED <<setup, size, progress, sizeError, numInstrExec, page, entered,
                 history>>

\* recoverState, and (*analyse)(data); hangHandler writes its line and
\* refills the page.  With the wrong registers anything the handler calls
\* may end it.
Analyse ==
  /\ pc = "analyse"
  /\ \/ pc' = "fetch"
     \/ RecoveryAddress(sp) # recovery /\ pc' = "lost"
  /\ analyse
  /\ IF handler = "hang"
       THEN /\ hangs' = hangs \cup
                          {<<currentInstruction, currentInstructionSize>>}
            /\ page' = StdPage
       ELSE UNCHANGED <<hangs, page>>
  /\ UNCHANGED <<setup, size, progress, numInstrExec, recovery, entered,
                 overtaken>>

\* (*fetchInstruction)(data, ...)
Fetch ==
  /\ FetchVisited \/ vleExhaustive
  /\ UNCHANGED <<setup, recovery, entered, history>>

\* return to the page
Return ==
  /\ pc' = "run"
  /\ handler' = "none" /\ fault' = NoFault /\ sp' = Top(altStack)
  /\ UNCHANGED <<setup, size, sizeError, numInstrExec, isStopped,
                 nextInstruction, recovery, blocked, history>>

\* writeInstruction(instructionPointer, ...) copies as many bytes as the size.
WriteInstruction ==
  LET k == IF handler = "fault" THEN nextInstruction ELSE currentInstruction
  IN /\ pc = "write"
     /\ page' = [o \in {2, 4} |->
          CASE o = instructionPointer -> Prefix(k)
            [] o = instructionPointer - 2 /\ currentInstructionSize = 4 ->
                 Other(k)
            [] OTHER -> page[o]]
     /\ IF handler = "fault"
          THEN /\ pc' = "commit"
               /\ UNCHANGED <<setup, size, sizeError, numInstrExec, isStopped,
                              nextInstruction, recovery,
                              entered, history>>
          ELSE Return
     /\ UNCHANGED currentInstruction

\* faultHandler makes what it has written the current instruction.
Commit ==
  /\ pc = "commit"
  /\ currentInstruction' = nextInstruction
  /\ Return
  /\ UNCHANGED page

Unit ==
  \/ Execute \/ Hang
  \/ Entry \/ Analyse \/ Fetch \/ WriteInstruction \/ Commit

\* stopWorker waits forever; a dead process does nothing.
Stopped == pc \in {"stop", "killed", "lost"} /\ UNCHANGED vars

Next == Unit \/ LateHang \/ Stopped

Spec == Init /\ [][Next]_vars

\* The unit is scheduled, and is sent SIGUSR2 when it is stuck.
FairSpec == Spec /\ WF_vars(Unit)

-----------------------------------------------------------------------------
(* Properties. *)

\* The part's ends are a whole number of strides apart.
Aligned == (finalInstruction - firstInstruction) % 4 = 0

Late == overtaken # {}

\* SIGUSR2 came between the two assignments that set the longer size.
Torn == <<"fault", "retrySize">> \in overtaken

\* Every variable keeps its type; whenever the page runs, the instruction
\* pointer leaves as many bytes as the size says, and what follows a shorter
\* instruction on the page is filler.
TypeOK ==
  /\ currentInstruction \in instr_t /\ nextInstruction \in instr_t
  /\ sizeError \in BOOLEAN /\ isStopped \in BOOLEAN
  /\ numInstrExec \in 0 .. CountMod - 1
  /\ handler \in {"entry", "fault", "hang", "none"}
  /\ blocked \subseteq {"ILL", "SEGV", "TRAP"}
  /\ recovery = None \/ recovery + 15 \in AltMapped(altStack)
  /\ hangs \subseteq instr_t \X {2, 4}
  /\ pc = "run" =>
       /\ Torn \/ instructionPointer = currentInstructionSize
       /\ currentInstructionSize < instructionPointer => page[2] = Filler

\* A 16-bit stage that steps beyond its part, or is started on a prefix.
Astray(k) ==
  fetchInstruction = "riscvc" /\ (IsLong(k) \/ k = finalInstruction + 1)

\* What faultHandler analyses is what has run, at the length the processor
\* gives it, and is not blacklisted: over any number of retries at another
\* length, and wherever SIGUSR2 cuts in, save where it tears size and
\* instruction pointer apart for good.
AnalysedRight ==
  ~ Torn =>
    \A a \in analysed :
      \/ Astray(a.word)
      \/ /\ a.ran.word = a.word /\ a.ran.size = a.size
         /\ ~ search(a.word)

\* What a stage is meant to scan of its part: instructions and their lengths.
\* vleExhaustive leaves out the 32-bit instructions of the last prefix beyond
\* the first, and of blacklisted prefixes.
Wanted ==
  LET part == firstInstruction .. finalInstruction \ Blacklist
  IN CASE fetchInstruction = "riscvg" ->
            {<<k, 4>> : k \in {q \in part : (q - firstInstruction) % 4 = 0}}
       [] fetchInstruction = "riscvc" ->
            {<<k, 2>> : k \in {q \in part : ~ IsLong(q)}}
       [] fetchInstruction = "exhaustive" ->
            {<<k, IF IsLong(k) THEN 4 ELSE 2>> : k \in part}
       [] OTHER ->
            {<<k, 2>> : k \in {q \in part : ~ IsLong(q)}}
            \cup {<<k, 4>> : k \in
                   {q \in instr_t \ Blacklist :
                      /\ IsLong(Prefix(q)) /\ Prefix(q) \in part
                      /\ Prefix(q) = finalInstruction => Other(q) = 0}}

Scanned == {<<a.word, a.size>> : a \in analysed}

\* When a unit stops, everything it is meant to scan was analysed or is on
\* the list of hangs, the 32-bit instructions of a prefix with the prefix.
\* SIGUSR2 for no reason costs no more than that, unless it tears.
StoppedCovered ==
  isStopped /\ ~ Torn =>
    \A w \in Wanted \ Scanned :
      w \in hangs \/ <<Prefix(w[1]), 2>> \in hangs

\* Nothing is run twice at the same length, in spite of the retries, of the
\* two loops that share the current instruction, and of late signals.
NothingTwice ==
  pc = "run" /\ (fetchInstruction = "riscvg" => Aligned) =>
    <<currentInstruction, currentInstructionSize>> \notin Scanned \cup hangs

\* A unit that SIGUSR2 has not torn apart stays in its part, save that
\* riscvcOnlyFetch can run the encoding after it, and the one it starts on,
\* and that riscvgOnlyFetch never ends a part that is not aligned.
NearlyInPart ==
  ~ Torn /\ (fetchInstruction = "riscvg" => Aligned) =>
    \A w \in Scanned :
      \/ w \in Wanted
      \/ Astray(w[1]) /\ w[1] \in {firstInstruction, finalInstruction + 1}

\* numInstrExec, which the performance log and the hang check go by, counts
\* every encoding a stage got past once, except the first fetch of
\* entryHandler and what hung: hangHandler does not count.
CountIsProgress ==
  pc = "run" /\ ~ Late /\ fetchInstruction # "vle"
      /\ (fetchInstruction = "riscvg" => Aligned) =>
    LET passed == currentInstruction - firstInstruction
    IN numInstrExec + Cardinality(hangs)
         + (IF search(firstInstruction) THEN 1 ELSE 0) =
         IF fetchInstruction = "riscvg" THEN passed \div 4 ELSE passed

\* A handler loses the registers the unit needs only if SIGUSR2 overtook
\* setRecoveryData, or if hangHandler ran on top of another handler on a
\* stack that the kernel did not align to the block.
RegistersRecovered ==
  pc = "lost" =>
    \/ <<"entry", "entry">> \in overtaken
    \/ Late /\ altStack % (4 * pageSize) # 0

\* A unit that has stopped runs no more instructions, although a late
\* SIGUSR2 has it fetch again.
StopsForGood == [][isStopped => pc' # "run"]_vars

\* The unit gets to the end of its part or dies of a late signal; not so
\* riscvgOnlyFetch on a part that is not aligned.
Ends ==
  (fetchInstruction = "riscvg" => Aligned)
    ~> (isStopped \/ (Late /\ pc \in {"killed", "lost"}))

\* A fetch stage "must return true if finished": every part comes to its end.
AlwaysEnds == <>isStopped

=============================================================================
