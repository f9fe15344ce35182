# iScanU: models, checks and proofs

iScanU searches the instruction space of a processor for instructions that the
processor executes although the disassembler rejects them ("hidden", `H`
lines) and for instructions that the processor refuses although the
disassembler accepts them (`D` lines). It runs every encoding of a range, on a
page of its own, and looks at the signal that comes back. This directory holds
TLA+ modules of the scanner, the TLC configurations that check them on small
instances, and theorems about them with proofs checked by TLAPS.

Paths below are relative to the directory that holds the code's own `README`.

## 1. The system

### Components

| Component | Code | State it keeps | Operations | Right when |
|---|---|---|---|---|
| Command line | `src/main.cpp` | the options | parse, pick fetch and analysis stage, build the blacklist, start a manager | the options a manager gets describe a non-empty range and a positive number of units |
| Scanner manager, memory cage | `src/ScannerManagerMC.cpp`, `src/Handlers.cpp` (`alarmHandler`) | `threadDataMap`, `performanceLogCount`, the shared `Scanner` structs | constructor (split, fork), `runScanners`, `alarmHandler` every second | parts disjoint and complete; "finished run" only when everything was analysed; a hang is fixed; the run ends |
| Scanner unit, memory cage | `src/Scanner.cpp` (`initScanner`), `src/Handlers.cpp` (`entryHandler`, `faultHandler`, `hangHandler`), `src/Utility.cpp` (`stopWorker`) | its page, its `Scanner` struct, its signal mask, its result files | analyse the fault, fetch the next instruction, write it, return to it | a fault is attributed to the instruction that caused it; nothing blacklisted runs; nothing is skipped or run twice |
| Scanner manager and unit, ptrace | `src/ScannerManagerPtrace.cpp`, `src/Scanner.cpp` (`initScannerPtrace`, `ptraceLoop`) | the same structs; the tracee | as above, but the unit traces a child that runs the page | as above; every unit starts and stops |
| Feeder (fetch stage) | `src/Feeder.cpp` | none (`numInstrExec`) | `exhaustive` | ascends, passes over the blacklist, stops at the end of the part |
| Analyser (analysis stage) | `src/Analyser.cpp` | none (appends to the result file) | `basicAnalysis`, `insnAnalysis` | a line exactly when processor and disassembler disagree |
| Blacklist | `src/Blacklist.cpp` | sorted set, or the mask list | expand masks, `search` | `search` finds exactly the encodings that match a mask |
| Ports | `arch/*/ArchFunctions.cpp` | the disassembler handle, the register recovery area | disassemble, get and set processor state, port-specific fetch stages | as the component that uses them needs |
| Page geometry | `src/Scanner.cpp`, `src/ScannerManagerMC.cpp` (`initStdPage`) | the mmapped cage | fill, place the instruction | a jump from the page lands in the cage |
| Result analysis | `analysis/` | none | filters, range compression, passes over result files | outside the running system |
| Experiment scripts | `exp/` | none | start scanner, compare files | outside the running system |
| Disassemblers | `disas/` | | vendored | not part of the project |

### How they interact

`main` builds a manager. Its constructor splits the range and forks one unit
per part; manager and unit share one `Scanner` struct per unit (`mmap` with
`MAP_SHARED`), and nothing else but signals. No lock protects the structs.

    manager --- SIGUSR1 (runScanners) ---> unit: entryHandler
    manager --- SIGUSR2 (alarmHandler) --> unit: hangHandler
    unit    --- struct: isReady, numInstrExec, isStopped ---> manager
    manager --- struct: finalInstruction (late, for the last unit) ---> unit
    kernel  --- SIGILL, SIGSEGV, ... ----> unit: faultHandler
    kernel  --- SIGCHLD -----------------> manager: faultHandler

A memory-cage unit spends its life in signal handlers. It runs one
instruction on its page; the fault enters `faultHandler`, which records what
happened, fetches the next instruction, writes it to the page and rewrites the
saved context so that returning from the handler runs it.

### What is hard

* Handlers are installed with an empty `sa_mask`: `hangHandler` may interrupt
  `faultHandler` and `entryHandler` at any instruction, and, because it
  returns to the page, the interrupted handler never continues.
* The manager decides that a unit hangs by comparing a counter with its value
  one alarm ago.
* Every field of a struct is read by one process while another writes it.
* The last unit is corrected after it was forked.
* Fork or set-up may fail in the middle; a unit may die.
* The boundaries: blacklisted first and last instructions, wrap-around of
  `instr_t`, more units than instructions, a range of one instruction.

`PROJECT.json` lists the hazards line by line with the properties that cover
them.

## 2. The modules

| Module | Models | Uses |
|---|---|---|
| `Feeder` | `exhaustive`, `Blacklist::search` | |
| `Analyser` | `basicAnalysis`, `disassemble` as it sees it | `Feeder` |
| `ScanJob` | abstract specification: what a scan promises | `Analyser` |
| `ScannerManager` | manager process: constructor, `runScanners`, `alarmHandler` | `Analyser` |
| `Memcage` | the memory-cage unit, composed with the manager; the properties | `ScannerManager`, instance of `ScanJob` |
| `MCMemcage` | the instances TLC checks | `Memcage` |
| `ManagerPartition` | arithmetic of the parts the manager makes | `ScannerManager`, TLAPS |
| `MemcageInvariant` | the inductive invariants | `Memcage` |
| `MemcageProofs` | type correctness, the invariant and the safety theorems; the theorems for prompt alarms, and that the scan implements `ScanJob` | `MemcageInvariant`, `ManagerPartition` |
| `Ptrace` | the ptrace unit, composed with the manager; the properties | `ScannerManager`, instance of `ScanJob` |
| `MCPtrace` | the instance TLC checks | `Ptrace` |
| `PtraceInvariant` | the inductive invariants | `Ptrace` |
| `PtraceProofs` | its theorems, and that the scan implements `ScanJob` | `PtraceInvariant`, `ManagerPartition` |
| `MemoryCage` | the mappings of `initScanner` and `setAltStack`, the register recovery area | |
| `RiscvStages` | `riscvgOnlyFetch`, `riscvcOnlyFetch` | `Feeder` |
| `RiscvUnit` | a memory-cage unit of a RISC-V port: the handlers with `vleExhaustive` and the other stages | `RiscvStages`, `MemoryCage` |
| `MCRiscvUnit` | the instances TLC checks | `RiscvUnit` |
| `RiscvInvariant` | the inductive invariant | `RiscvUnit` |
| `RiscvProofs` | the theorems about `MemoryCage` and about every run of a unit | `RiscvInvariant`, TLAPS |
| `PowersOfTwo` | shifts by a variable, and the bits of a number | |
| `PowersOfTwoProofs` | what the other proofs need of them: digits, order, sums | `PowersOfTwo`, TLAPS |
| `BlacklistMasks` | `Blacklist`, `LowMemoryBlacklist` | `PowersOfTwo` |
| `BlacklistProofs` | its theorems | `BlacklistMasks`, `PowersOfTwoProofs` |
| `CommandLine` | `main`, `setAffinity` | |
| `CommandLineProofs` | theorems about `CommandLine` | `CommandLine`, TLAPS |
| `ResultTools` | `firstPass.py`, `rangeCompress.cpp` | `PowersOfTwo` |
| `MCResultTools` | the lists TLC checks | `ResultTools` |
| `ResultToolsProofs` | its theorems | `ResultTools`, `PowersOfTwoProofs` |

Two compositions share the manager: `Memcage` and `Ptrace` are each
`ScannerManager` with one kind of unit, and each is mapped to `ScanJob`. The
modules below `PtraceProofs` in the table stand alone: a unit of a RISC-V port with
the manager reduced to its SIGUSR2, and the sequential parts in which a
blacklist, the options or a result list are worked out. `Feeder` is where the
scans use what the blacklist promises.

### State of the memory-cage scan

`currentInstruction`, `finalInstruction`, `isReady`, `isStopped`,
`numInstrExec`, `oldNumInstrExec` and `lastPerformanceExec` are the fields of
`struct Scanner`, one value per unit. `threadDataMap`, `performanceLogCount`,
`startInstruction` and `lastOfPart` (the constructor's `finalInstruction`) are
the manager's variables of these names. `page`, `nextInstruction`, `mask`,
`saved` and `pc` are a unit's page, the local of `faultHandler`, the kernel's
blocked-signal set, the mask in the top signal frame, and where the unit is.
`pending` is what has been sent to a unit and not been delivered. `results`,
`hangs`, `endOfRun` and `logged` are the files. `analysed` is a history
variable: how often `analyse` ran for an instruction.

### Actions of the memory-cage scan

Manager: `Fork`, `CtorFails`, `Insert` (constructor); `runScanners`; `Alarm`
(entry of `alarmHandler`), `PerfRead`, `PerfStore`, `PerfDone` (performance
log), `CheckStopped`, `CheckHang`, `AlarmReturn`; `ChildDeath` (SIGCHLD runs
`faultHandler` in the manager, which dereferences its null `data`).

Unit: `InitScanner`, `InitFails`; `StartSignal`, `EntryHandler`,
`EntryReturn`; `Execute` (the instruction faults); `Analyse`, `Fetch`,
`WriteInstruction`, `Commit`, `FaultReturn` (`faultHandler`, cut where
`hangHandler` can tell the difference); `HangHandler`; `StopWorker`,
`EndOfRun`.

A handler is split where another process, or `hangHandler`, can observe the
difference, and nowhere else. `hangHandler` is one action, because it blocks
its own signal, nothing else is sent to a unit after the start signal, and the
manager sees of it only its additions to `numInstrExec`.

### The ptrace scan

`Ptrace` adds to the manager's state `tracee`, and leaves out the page and the
signal masks: a ptrace unit is a sequential program, to which signals matter
only while it waits for the start signal. `InitScannerPtrace`, `InitFails`,
`Pause`, `startHandlerPtrace` and `TraceeSetup` are `initScannerPtrace`;
`SearchFirst`, `StepTracee`, `Fetch`, `KillTracee`, `Stop` and `EndOfRun` are
`ptraceLoop`, the last two also `stopWorker`, which a wholly blacklisted part
ends in. `Polling` is the round of `runScanners` that finds a unit not ready
(`Memcage` needs no such step, since its `runScanners` waits by not being
enabled; here it keeps the wait for a unit that failed from counting as a
deadlock). What the kernel does between two `wait`s is one step. The manager
is the one of `ScannerManager`, since `ScannerManagerPtrace` repeats the code
of `ScannerManagerMC`; it differs in `ssHang`, which is `FALSE` in every port
(`CheckForHang`), in not handling SIGCHLD, and in `localScannerInit`, which
leaves `currentInstructionSize` at 0, so that `disassemblePtrace` accepts
nothing. No instruction hangs when it is single-stepped.

### The stages of the RISC-V ports

`RiscvUnit` is one memory-cage unit whose part and stage are chosen in `Init`.
`Memcage` has the handlers with the exhaustive stage and instructions of one
length, and the manager; `RiscvUnit` has what these ports add, and of the
manager only SIGUSR2: `Hang` for a unit that is stuck, `LateHang` for one that
is not, at every point where it makes a difference.

* A word is a 16-bit prefix and another half. `instructionPointer` and `page`
  are counted backwards from the end of the page, so that a processor that
  wants more bytes reads past it (`ReadsPastPage`), which is how the analysis
  finds a wrong size (`SizeCheck`).
* `vleExhaustive` is cut into `RetryLonger`, `RetryPointer` and `RetrySize`
  (the retry at the longer size), `NextExpansion` (first loop),
  `ShortenPointer` and `ShortenSize` (back to the shorter size), `NextPrefix`
  (second loop). The two pairs are two assignments each, between which
  `hangHandler` can come. `finalInstruction` is a prefix, which is what `main`
  limits `-e` to in this port.
* `FetchVisited` is any of the other stages; `Yields` and `Finishes` of
  `RiscvStages` say what its loop returns after it has passed over `n`
  encodings.
* `analyse` is the size check, or, with the exhaustive stage, the length that
  `riscvLengthLogAnalysis` writes.
* `sp`, `altStack` and `recovery` are addresses. `Entry` stores the registers
  (`setRecoveryData`); `Analyse` begins with `recoverState`, and a handler that
  finds something else there may be lost (`pc = "lost"`).
* `blocked` are the signals that stay blocked when `hangHandler` has cut
  `faultHandler` short.
* `overtaken` (history) says where late signals came.

### The memory cage

`MemoryCage` has the addresses: the instruction page with `maxArchOffset`
bytes of guard on either side, the handlers' stack, of which the upper half of
the mapping is not part, and the place the two registers are kept at, which
`recoverState` finds by rounding the stack pointer up to a block of four
pages. `CageAssumption` is what the ports' constants have in common.

### Blacklist and options

`BlacklistMasks` builds both representations from the same masks, a word being
the set of its bits. `Insert` is an iteration of the loop in `Blacklist::add`.
A mask in which no bit matters is excluded: `1 << 32` is undefined, and no
port has such a mask.

`CommandLine` has an action per option that changes what a manager is built
with. `ToInt` is the conversion of an unsigned 64-bit number to `int`, scaled.
`archSingleStepPtrace` is a constant of the port, chosen in `Init`. `Limit` is
the limit of `main`, `Clamp` that of the managers' constructors. `SetAffinity`
gives the unit at each place of `threadDataMap` its core; a core the machine
does not have leaves the unit where it may be (`AnyCore`), since
`sched_setaffinity` then fails, and with `-a 0`, or a number that an `int`
makes negative, what happens is left open (`i % 0`). The parsing of numbers is
left out, and `-c`, which `getopt` is not told of.

### Result tools

`ResultTools` runs `firstPass.py` on an ascending list of instructions and
`rangeCompress` on its output, an iteration of either main loop being a step.
A mask is a set of bit positions. A list of one number makes `firstPass.py`
fail and is excluded; one output line makes `rangeCompress` read behind its
vector, so that `delta` is anything (`Load`). `(int)log2(0)` and a shift by -1
are undefined in C++; the model takes a negative number and the last bit, as
the compilers for these ports do.

### Abstractions of the scans

* An instruction is a number below `InstrMod`, with the wrap-around of
  `instr_t`; what the processor does with it is one of four outcomes, given by
  the constant `Outcome`, and the disassembler is the constant set `Valid`.
  The kernel and the processor are deterministic here: the same instruction
  has the same outcome each time.
* A result line is its letter, its instruction and the recorded cause; the
  rest of its text is left out. Hexadecimal formatting, log wording and
  timestamps are left out.
* `maxPcRelativeWriteOffset` is 0 in every port, so the branch of
  `faultHandler` that refills the page is dead and not modelled.
* The structs' fields are word-sized and aligned: an access is one step.

## 3. What TLC checks

| Run | Question | Instance |
|---|---|---|
| `prompt` | Provided one second is enough for a unit to count an instruction, does the scan do its whole job? | 3 units, range 0..11 of 13 instructions, in parts 0-3, 4-6 and 7-11; 2 blacklisted (4, and 11, the last), 4 that hang (1, 6, and 7 and 8 in a row) |
| `async` | SIGUSR2 at any moment: what still holds? | 2 units, range 1..6 of 8, 1 (the first) and 3 blacklisted, 2 and 4 that hang |
| `late_hang_death` | Does a SIGUSR2 ever cost a unit its life? | 1 or 2 units, no timing |
| `single_instruction` | Does a range of one instruction stay in it? | 2 units, `-b` = `-e` |
| `ptrace_scan` | What does a ptrace scan promise, and when does it end? | 2 units, range 1..8 of 10; a part that starts on a blacklisted instruction (1, 3) and one that is wholly blacklisted (5..8) |
| `ptrace_lost_start` | Does a unit take its start signal? | 2 units, range 1..6 of 8 |
| `ptrace_hidden` | Is only what the disassembler rejects reported as hidden? | 2 units, range 1..6 of 8 |
| `riscv_unit` | What does a RISC-V unit run, at which length, what does it count, when does it end? | every part of 8 prefixes for the 16-bit stages (up to five prefixes for `vleExhaustive`), 13 parts of 64 words for `riscvgOnlyFetch`; 8 words blacklisted, 3 that hang, 1 late SIGUSR2, both alignments of the stack |
| `riscvg_endless` | Does every part come to its end? | as `riscv_unit`, no late SIGUSR2 |
| `blacklist_masks` | Do the expanded set, the stored masks and the meaning of a mask agree? | every pair of masks of 4 bits |
| `options` | Do the options end in what the managers rely on? | every sequence of options with 13 arguments, an `int` of 10 values, 2 cores |
| `result_tools` | What do the two passes lose, what do they add, and do they end? | words of 6 bits: every set of two or more up to 10, every union of pairs (11 pairs at distance 2, 12 at distance 4); all words; four runs that do not start in place |

`prompt` checks
* `ImplementsScanJob`: the composed system refines `ScanJob`: every
  instruction that is not blacklisted is analysed exactly once, the result
  lines are those the processor and the disassembler call for, exactly the
  hanging ones are listed as hanging, and the run is reported finished only
  then. The mapping is the identity on `analysed`, `results`, `hangs`; the
  manager's control state gives the status.
* `HangOnlyWhenStuck`, `NobodyDies`: SIGUSR2 is only used on stuck units and
  kills none.
* `RunEnds`: the run ends, and once the units were started it ends as
  finished; `StopIsRecorded`: a unit that stops writes its end-of-run line.

`async` drops the timing assumption and checks `TypeOK`,
`PageMatchesCurrent`, `NeverRunsBlacklisted`, `StaysInOwnPart`,
`FinishedCovered`, `LogNeverOverstates`, `FaultLinesTrue`, `StoppedForGood`.
These hold in every interleaving, including those in which healthy
instructions are recorded as hanging, or a unit dies.

`ptrace_scan` checks `TypeOK`, that the system implements `ScanJob` with a
disassembler that accepts nothing and without hangs, that the run ends once
every unit has taken its start signal (`StartedRunEnds`), and that only a unit
that never stepped its tracee leaves it behind (`NoIdleTracee`). `NoPartialRun`:
no unit scans, or has scanned, unless all of them were ready. The other two
ptrace runs show why `ImplementsScanJob` and `StartedRunEnds` cannot say more.

`riscv_unit` checks that what faultHandler analyses is what the processor ran
and at the length it ran it (`AnalysedRight`), that a unit that stops has
analysed, or listed as hanging, what its stage is meant to scan
(`StoppedCovered`), and nearly no more (`NearlyInPart`: one encoding after the
end, see section 5), and nothing twice (`NothingTwice`), which the retries at
another length and the two nested loops over one variable put at risk. These
hold for a late SIGUSR2 too, save where it tears size and instruction pointer
apart (`Torn`, section 5). `CountIsProgress`: `numInstrExec` is the distance
covered, although a stage that passes over encodings adds to it in several
places; the performance log and the hang check go by it. (`vleExhaustive`
counts candidates it finds, which `faultHandler` then counts again.)
`RegistersRecovered`: a handler finds the saved registers, save in two cases
of a late signal. `StopsForGood` and `Ends` say that no signal brings a
stopped unit back to the page and that it stops.

`options` also checks `AffinityEven`: with `-a` and a positive number, every
unit is on one of the cores asked for that the machine has, or on any if more
were asked for than it has, and of the former each gets the same number of
units, give or take one. For 0 or a negative number nothing is claimed: the
index is then taken modulo that number, and what the program should do is
written nowhere.

`result_tools` checks that `firstPass.py` leaves no number out and that a line
is as many words as it stands for, exactly these if the run starts where the
masked bits are clear (`FirstPassExact`). `RangeExact` says which words an
entry of `rangeCompress` denotes, against the lines it stands for: these are
`2^n` of one mask and `2^s` apart, none is left out between two entries, and the
words are those of the first half of the lines, or of the first quarter where
the entry takes its run to the end, whatever their bit `s - 1`, provided the
run is in place (the first line has the bits `s` to `s + n - 1` clear). With
fewer lines than two, or four, they are those of the first line. Either index
advances in spite of the steps back (`Advances`), so that both tools end.

Every property has a mutant (`PROJECT.json`): a plausible mistake in a mapped
definition which makes TLC refute it. Mutants stand beside the definition they
mutate.

### Bounds

In the scans the instruction space, the blacklist and the number of units are
the only bounds; no counter is capped. They are chosen so that the first and
the last instruction of a part is blacklisted, or one inside a part; that
instructions with which the processor and the disassembler agree, or disagree
in either way, occur, so every kind of line and of missing line does; that the
last share differs from the others; and that performance logging is on for some
alarms (`SlowFactor` 2 or 1). In `prompt` an instruction hangs in the middle of
a part (1 of 0-3), at the end of one (6 of 4-6), and two hang in a row with
another to run after them (7 and 8 of 7-11): the unit goes on from
`hangHandler`, straight into the next hang and then to an instruction that
counts. In `async` the one unit's last instruction hangs, and the other's
first. Units interact only through the manager, one unit at a time, so two
units show the interference between them; the third in `prompt` gives the
partition a first, a middle and a last part.

The sequential modules are checked over every input of their size rather than
one. In `riscv_unit` 16 bits have 8 values and 32 bits 64. Prefixes 3 and 7
start 32-bit instructions; there are a blacklisted prefix (2, 4) at the start,
in the middle and at the end of parts, blacklisted expansions (11, 27, 59) of
prefix 3, and one prefix whose last expansion is blacklisted; words of both
lengths that trap, that load, that hang, and that fall through. A part of
`riscvgOnlyFetch` can start, end and be blacklisted anywhere in a stride; in
`riscvcOnlyFetch` a part can end on an encoding that is stepped over.
`CountMod` is there to make `riscvgOnlyFetch` on a part it never ends a finite
graph. `MaxLate` is 1: a late SIGUSR2 at any one place. The properties that
except `Torn` or `overtaken` are stated, and but for `Ends` proved, for any
number; the state space with two is too large for a run of minutes. The
assumptions on the constants are the code's: a handler's frame fits a page and
two frames fit two (`Frames`, `NestedFrames`), 16 bits hold whole strides of
`riscvgOnlyFetch`, and a 64-bit counter does not overflow in a pass over the
32-bit encodings (`CountMod`). `maxArchOffset` is the ports' own. Four bits hold
don't-care fields that are apart, adjacent, low and high, and a pair of masks
can overlap, be equal in what they match, or contain one another. The pairs of
`result_tools` are there because `rangeCompress` sees runs only of lines that
`firstPass.py` could not join: up to 12 pairs, of which it takes 8 together,
or 4 and then some. All words are the longest run there can be; 0-3, 5-8, 10-13,
15-18 are lines that do not start in place. `options`
has arguments on both sides of every limit: 0, `MAX_THREADS_MEMCAGE` (3),
half an `int` (5), the end of the range (8), an `int` (10);
four units on two cores make two rounds of `setAffinity`, and `-a 3` and
`-a 4` ask for cores that are not there.

### Time

`OneSecondIsLong` is the only timing assumption: when the alarm goes off,
every unit that is not stuck has counted an instruction since the alarm
before. It is what the code relies on (`alarmHandler`). It is on in `prompt`
and a hypothesis of three theorems of `MemcageProofs`, and off in all other runs
and proofs. `late_hang_death` shows what depends on it.

### Fairness

`FairSpec` asks for weak fairness of the manager and of each unit, no more:
they are processes, and the operating system schedules each of them. Weak
fairness of the manager includes the alarm, which `alarmHandler` re-arms each
time. A hanging instruction is a unit without a step, so fairness does not
help it along; only SIGUSR2 does. `Ptrace` assumes the same of its processes.
`RiscvUnit` assumes weak fairness of the unit (`Unit`), and, in it, that a
stuck unit is sent SIGUSR2 (`Hang`); a SIGUSR2 for no reason (`LateHang`) has
none. `CommandLine` and `ResultTools` have no liveness property; that the
result tools end follows from `Advances`.

## 4. What is proved

For every number of units, range, blacklist, instruction width, processor and
disassembler. The memory-cage scan, without `OneSecondIsLong`:

| Theorem | States |
|---|---|
| `TypeCorrect` (`MemcageProofs`) | `TypeOK` |
| `PartsDisjoint`, `PartsCover` | the parts neither overlap nor leave a gap |
| `PageMatchesCurrentThm` | a fault is attributed to the instruction that caused it |
| `NeverRunsBlacklistedThm` | nothing blacklisted runs |
| `StaysInOwnPartThm` | a unit runs instructions of its part only |
| `FinishedCoveredThm` | "finished run" means everything was analysed |
| `LogNeverOverstatesThm` | the performance log counts nothing twice |
| `FaultLinesTrueThm` | a line that a fault led to is true |
| `StoppedForGoodThm` | a unit that reported `isStopped` scans no further |

The memory-cage scan, with `OneSecondIsLong`:

| Theorem | States |
|---|---|
| `HangOnlyWhenStuckThm` | only what hangs is listed as hanging |
| `NobodyDiesThm` | no unit dies of a blocked signal |
| `ImplementsScanJobThm` (`MemcageProofs`) | the scan does what `ScanJob` promises |

The ptrace scan, without any timing:

| Theorem | States |
|---|---|
| `TypeCorrect` (`PtraceProofs`) | `TypeOK` |
| `NoPartialRunThm` | no unit scans before all are ready |
| `NoIdleTraceeThm` | a unit that stops leaves a tracee only if it never stepped it |
| `ImplementsScanJobThm` (`PtraceProofs`) | the scan does what `ScanJob` promises, with an empty disassembler and no hangs |

All but the type theorems, `PageMatchesCurrentThm`, `HangOnlyWhenStuckThm`,
`NobodyDiesThm`, `NoPartialRunThm` and `NoIdleTraceeThm` assume `ProperRange`
of `ScannerManager`: `First < Last` or one unit. `single_instruction` shows
why.

A unit of a RISC-V port, for every stage, part, blacklist, program, place of
the stack and number of late SIGUSR2, provided the part is not empty
(`PartsInOrder` of `RiscvInvariant`; the manager's parts are not, by
lemma `PartFacts` of `ManagerPartition`, under `ProperRange`):

| Theorem | States |
|---|---|
| `TypeCorrect` (`RiscvProofs`) | `TypeOK`: size, instruction pointer and page go together when the page runs |
| `AnalysedRightThm` | what is analysed is what ran, at the length it ran at, and not blacklisted |
| `NothingTwiceThm` | nothing runs twice at one length |
| `NearlyInPartThm` | nothing beyond the part is analysed, save one encoding at either end of `riscvcOnlyFetch` |
| `StoppedCoveredThm` | a unit stops only when all is analysed or listed as hanging |
| `CountIsProgressThm` | without late signals, `numInstrExec` counts each encoding once |
| `RegistersRecoveredThm` | a handler finds the saved registers, save in two cases of a late signal |
| `StopsForGoodThm` | a stopped unit never runs its page again |

For every set of argument values, width of `int`, default range and limit:

| Theorem | States |
|---|---|
| `TypeCorrect` (`CommandLineProofs`) | `TypeOK`: the numbers of units and of cores stay what an `int` holds |
| `ProperRangeThm` | whatever the options and their order, the range is not empty and the port can scan it |
| `RequestHonouredThm` | a manager is built with the number of units asked for, or the most its method and the range allow |
| `AffinityEvenThm` | with `-a` and a positive number, every unit is on a core asked for that exists (or on any, if more were asked for than exist), and none of these gets two units more than another |

For every `maxArchOffset` of a page or more, and every place of the mappings:

| Theorem | States |
|---|---|
| `LandsInCage` | a jump as far as the architecture allows, and a read there, stays between the guards |
| `FillerLeavesPage` | the filler's jump leaves the page from anywhere on it, into the guard |
| `RegistersFound` | a handler at most a page deep finds the saved registers, above its stack and inside the mapping, however the kernel aligned it |

For words of any width, any number of blacklist masks, and every ascending list
of two or more instructions:

| Theorem | States |
|---|---|
| `ExpandedExactlyThm` | the expanded blacklist holds exactly what matches a mask |
| `SearchesAgreeThm` | both representations of the blacklist are searched alike |
| `TypeCorrect` (`ResultToolsProofs`) | `TypeOK`: no mask reaches beyond the word, no index beyond the list |
| `FirstPassExactThm` | `firstPass.py` loses nothing |
| `RangeExactThm` | which words an entry of `rangeCompress` denotes: those of the first half or quarter of its lines, one bit blurred, if the run is in place |
| `AdvancesThm` | `Advances`, so both tools end |

`ProperRangeThm` discharges what the managers assume of `First` and `Last`
(`First <= Last`); it does not give `First < Last`. `RequestHonouredThm` rests
on an invariant of the option loop: `numThreads` is the conversion of the last
number asked for. `MeantByBuild` shows that the two limits the code applies
one after the other, the second on a difference that it converts to `int`,
come to the least of the three numbers. `AffinityEvenThm` rests on
`EvenRemainders`: of the numbers below `n`, those with remainder `c`, but for
the first, follow at a fixed distance one with remainder `d`, which is an
injection of one set into the other.

`RegistersFound` is the closed form behind `RegistersRecovered` of
`RiscvUnit`: the block is four pages, the stack two blocks, and the page below
its top lies in one block whatever the page it starts on. It needs the bound
of a page on the handler's depth; a handler on top of another one may need
more, which is the exception in `RegistersRecovered`.

### The argument for the memory cage

`IInv` (module `MemcageInvariant`) is inductive relative to `TypeOK`:

* `PageInv`: from the moment an instruction has been written until the unit
  is back on the page, the page and `currentInstruction` (or, between
  `WriteInstruction` and `Commit`, the page and `nextInstruction`) agree.
  Without its intermediate stages, `PageMatchesCurrent` is not inductive:
  nothing would rule out that `Commit` brings a wrong instruction.
* `CleanInv`: what is current or fetched is not blacklisted, except the first
  instruction before `entryHandler` has looked at it.
* `CtorInv`: closed form of the constructor's loop.
* `StartInv`, `SignalInv`: a unit that is not yet forked has no signals, and
  SIGUSR2 is only sent once the start signal was. This is what saves a unit
  whose `hangHandler` runs on top of its `entryHandler`: its fetch still
  checks the blacklist.
* `RangeInv`: current and fetched instructions lie in the part, and below the
  end of the part when another one was fetched.
* `CoverInv`: every instruction of the part that is below the current one, and
  not blacklisted, has been analysed; all of them when the unit stops.
* `StopInv`: `isStopped` is set only in `stopWorker`, from where no path
  leads back to the page. The case of a late SIGUSR2 rests on `fetch` finding
  the end of the part again.
* `LogInv`: `logged <= lastPerformanceExec <= numInstrExec`.
* `LineInv`: lines with a cause other than `USER` agree with `Verdict`.

`MemcageProofs` has one lemma per conjunct and one step per action in each.
The lemmas about fetching (`Feeder`'s two relations) reduce wrap-around to the
case in which it does not happen, by `RangeInv`.

For prompt alarms, `MemcageInvariant` adds

* `PromptInv`: a unit that this round of `alarmHandler` is going to compare,
  and whose counter has not moved, is stuck on an instruction that hangs, and
  so is one that SIGUSR2 is on its way to;
* `MaskInv`: then `hangHandler` never interrupts a handler, so that no signal
  is left blocked where a fault may come;
* `SetupInv`: a unit dies only before the start signal, when nothing has run;
* `CountInv`: how often an instruction has been analysed can be told from where
  its unit is. This turns "everything was analysed" into the exactly once of
  `ScanJob`.

Each step then maps to one of `ScanJob`: `Analyse` and `HangHandler` to the
analysis of one instruction, the last `AlarmReturn` to the end, a failure to
`Abort`, and all others to a stutter.

### The argument for the ptrace scan

`SetupInv` holds without `ProperRange`: the manager's `insert` and `wait`
rounds see a unit ready before it starts any, and where the tracee is follows
from where its unit is. `JobInv` adds `PartInv` and `RangeInv` (the unit is
inside its part, by `ManagerPartition`), `CountInv` and `StopInv`, as for the
memory cage, but with no page and no late signals to reckon with.

### The argument for the RISC-V ports

`Inv` of `RiscvProofs` is the conjunction of the parts of `RiscvInvariant` with
`AnalysedRight`, `NearlyInPart` and `RegistersRecovered`. None of these is
inductive without the following.

* `SizeInv`: the size and the instruction pointer at each step of
  `vleExhaustive`, and where a late SIGUSR2 can leave them apart: for good
  (`Torn`), or between the two assignments that set them back, after which
  there are no expansions left (`SetBack`), so that the next fetch comes to the
  same assignments.
* `PageInv`, `WordInv`: what is on the page is what is about to be analysed;
  it is not blacklisted, and starts 32 bits just when it is run at that size.
* `RangeInv`, `StrideInv`: where in the part a unit can be, for each stage.
* `DoneInv`: nothing at or after what is run next is done; the order (`Before`,
  `UpTo`) is that of prefixes, of the two lengths of one prefix, and of the
  other halves. `NothingTwice` follows.
* `CoverInv`: everything wanted before it is covered. It speaks separately of
  what is current, what is about to be written, and what has been analysed but
  not passed, since a handler that is cut short falls back from one to another.
* `CountInv`: the sum of what was counted, what hung, and the first encoding if
  it is blacklisted is the distance covered, in each handler at each step.
* `RecoveryInv`: where the registers were saved, and at which stack pointers a
  handler can look for them; `RegistersFound` does the arithmetic.
* `StopInv`: a stopped unit is where a fetch finds the end again.

What a stage visits (`Visited`) is a recursive function. `VisitedWalks` gives
its defining equations, from a walk that is shown to exist and to be unique;
all that is said of it "after `n` steps" is proved by looking at the least `n`
for which it fails (`LeastNatural`), which the library's induction theorem
would do if the provers could instantiate it. `WantedFacts`, `NothingBetween`
and `NothingAfter` are where the loops meet what is wanted: what a loop passes
over is blacklisted or not meant to be scanned.

### The argument for masks and result lists

These proofs are inductions over data: over the bits of a word, the digits of a
number, the elements of a list. The library's induction theorems take a
predicate, which none of the provers can instantiate; `SetInduction` of
`PowersOfTwoProofs` says the same of a set (`0 \in S`, and `n + 1 \in S` with
`n`), which they can. From it follow the defining equation of `Pow2`
(`Pow2Unfolds`), that powers of two are ordered and add up in the exponent, that
every set of bits is the digits of exactly one number below `Pow2[n]`
(`DigitsExist`, `DigitsUnique`), and `CountingInPlace`: where `v` bits are
clear from bit `s` on, adding `j * Pow2[s]` for a `j` of at most `v` bits
changes none but these.

`BlacklistProofs`: the don't-care bits of a mask are ranked from the lowest
(`RankOnto`), so that `DontCareBit` is a one-to-one map of the ranks to the
don't-care fields. With the two facts about digits, the expansions for the
counter values below `Iterations` are all words that match the mask, and
nothing else (`ExpansionsExact`). The invariant says of the set that it is what
the masks added mean, and what the loop has made so far of the next one.

`ResultToolsProofs`: the invariant has a part for either tool.

* Of `firstOutput` it says what run of the list each line stands for
  (`LineOf`): `2^v` numbers `2^s` apart. `FirstPassExact` follows with
  `CountingInPlace`.
* Of the output it says that each entry is as `EntryExact` has it, whatever
  `delta` was. This is where the arithmetic is: the lines taken are a power of
  two in number (`RangeTaken`) and a run (`TakenIsRun`); the entry takes its run
  to the end just when the step back did not shorten it (`WholeRun`; the
  differences are modulo `2^32`). In place, the lines count up in the
  bits from `s` on without wrapping around (`RunCounts`), and the words that
  agree with one of the first `2^u` of them are those that agree with the first
  but for `u` bits (`RunWords`): that each setting of these bits comes up is
  `CountingReaches`, the converse of `CountingInPlace`. The mask that is
  added is these bits moved down by one (`AddedFacts`), which is the first
  `u` and the blurred one, and how `u` follows from the number of lines is
  `KeptFacts`. `EntryIsExact` puts the pieces together.

Nothing in this needs the lines to come from `firstPass.py`. That the bits
added lie within the word (`TypeOK`) is so because a processor takes the shift
modulo the width of the word.

### Only model-checked

`RunEnds`, `StopIsRecorded`, `StartedRunEnds` and `Ends`: liveness under
fairness is out of the prover's reach. Every other property of a passing run is
also a theorem.

## 5. What the runs say about the code

Runs that are expected to find a violation, each against a statement of the
repository's own:

1. `hangHandler` on top of `faultHandler` returns with the fault's signal
   blocked; the next such fault kills the unit, and SIGCHLD the manager
   (`late_hang_death`, `src/Handlers.cpp:124`).
2. With `-b x -e x` and several units, every unit but the first starts after
   the end and goes on until `instr_t` wraps around (`single_instruction`,
   `src/ScannerManagerMC.cpp:28`).
3. A ptrace unit sets `isReady` before it calls `pause()`: a start signal that
   comes in between is forgotten, and the run never ends (`ptrace_lost_start`,
   `src/Scanner.cpp:74`).
4. The ptrace manager does not set `currentInstructionSize`, so that the
   disassembler is given no bytes and rejects everything (`ptrace_hidden`,
   `src/ScannerManagerPtrace.cpp:67`). The recorded results agree:
   `exp/verificationPT` has 43 `H` lines where `exp/verificationMC` has 8.
5. `riscvgOnlyFetch` advances by four and compares with the end of the part
   for equality: unless the ends are a multiple of four apart, which they are
   not by default, it never ends (`riscvg_endless`,
   `arch/RV64G/ArchFunctions.cpp:67`).

Seen while modelling, and part of the modules rather than of a run:

* A unit that is merely slow has a healthy instruction recorded as a hang and
  skipped (`src/Handlers.cpp:73`): without `OneSecondIsLong`,
  `HangOnlyWhenStuck` and `ImplementsScanJob` do not hold.
* `riscvcOnlyFetch` steps over an encoding with both low bits set without
  comparing it with the end of the part, and then yields the one after it
  (`arch/RV64GC/ArchFunctions.cpp:113`): the exception in `NearlyInPart`.
* `vleExhaustive` compares with the end of the part when the last prefix has
  been run as the start of a 32-bit instruction, before its other expansions
  (`arch/RV64GC/ArchFunctions.cpp:158`): the exception in `StoppedCovered`.
* `vleExhaustive` sets `instructionPointer` and `currentInstructionSize` one
  after the other (`arch/RV64GC/ArchFunctions.cpp:144`). A SIGUSR2 in between
  leaves a pointer four bytes before the end and a size of two, and nothing
  puts that right: every prefix is then run in front of the filler that
  `hangHandler` has put on the page, so that one that starts 32 bits is run
  with the filler as its other half, whether that word is blacklisted or not,
  and its result is attributed to the prefix, until a blocked SIGSEGV kills the
  unit. It is the exception `Torn` in `TypeOK`, `AnalysedRight`,
  `StoppedCovered` and `NearlyInPart`. The pair that sets both back (line 163)
  is harmless: `hangHandler` comes to the same assignments.
* A SIGUSR2 before `setRecoveryData` leaves nothing to recover
  (`src/Handlers.cpp:88`), and a nested handler deeper than the slack of its
  stack's alignment reads the wrong block: the two exceptions in
  `RegistersRecovered`.
* `firstPass.py` masks a run that starts where a masked bit is set as if it
  started at the multiple below (`analysis/firstPass.py:36`): the precondition
  in `FirstPassExact`. `rangeCompress` places the masked bits one below
  the distance of the lines (`analysis/rangeCompress.cpp:92`), and counts them
  one too few if the run ends with the lines it takes (line 87). So the later
  lines are lost, half or three quarters of them, and words come in that were on
  no line, unless the lines' masks cover the lowest of these bits: of 0, 1, 4, 5,
  8, 9, 12, 13, which are four lines, it makes one entry that denotes 0 to 3. 2 and 3 were
  never listed, 4 to 13 are gone. `RangeExact` says just this, for runs in
  place; lines that are not, such as 0-3, 5-8, 10-13 and 15-18, count through
  other bits than the mask has. No document says what these tools promise, so no
  run calls it a violation.
* `-j` is checked as an unsigned 64-bit number and stored in an `int`
  (`src/main.cpp:40`): the precondition in `RequestHonoured`. A number that
  becomes negative passes `MAX_THREADS_MEMCAGE`, and the constructor, which
  compares it as an unsigned number, makes as many units as the range is long:
  for the range 0..2^32-1 that is again negative, and it makes none; for a short
  range it can be more than `MAX_THREADS_MEMCAGE`.
* Memory-cage units that have stopped are not ended, although a comment says
  that they are cleaned up in the alarm handler (`src/Utility.cpp:47`).
* A ptrace unit whose part is wholly blacklisted leaves its tracee alive
  (`src/Scanner.cpp:114`): the exception in `NoIdleTracee`.

## 6. What is left

### Not modelled

* `insnAnalysis`, which writes the verdict of `basicAnalysis` with more
  detail and keeps no state. It writes a record in three calls, so that a late
  SIGUSR2 can cut one short, which the scans, with `basicAnalysis`, do not
  show.
* The filters of `analysis/` (tables of encodings, one call per line),
  `process.py`, the plots, and the scripts in `exp/`: they reformat.
* The disassemblers in `disas/` and `exp/translate-a64.c`: vendored. They are
  most of the source lines here (some 85,000 of 90,000), and stay a constant
  of the models, which instructions are valid; what the project itself
  contains, some 2,400 lines, is modelled but for the items of this list.
* The branch of `faultHandler` for `maxPcRelativeWriteOffset` (0 in every
  port), `hangHandlerPtrace` (`ssHang` is false in every port), and the kernel
  module, of which there is only the option.
* A torn unit's further life is modelled, but `TypeOK` alone is claimed of it.
* The whole of manager and RISC-V unit composed: `Memcage` has the manager
  with the exhaustive stage, `RiscvUnit` the other stages with every SIGUSR2
  the manager could send.

### To be proved

Of the properties the passing runs check, the four of liveness.
