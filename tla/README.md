# PARISCV v2 in TLA+

PARISCV v2 finds instructions worth adding to a RISC-V core and confirms the
gain on the real RTL. It has two halves that share an assumption: that the
cycle counts of a fast Python model and of a Verilator simulation mean the same
thing. This directory specifies both halves where they are hard to get right,
the OBI memory of the testbench with its peripherals, the CV-X-IF coprocessors,
the two cycle models, the candidate finder, the Xpulp predictor and the
acceleration flow, and the programs on which all of it is measured.

Contents: [inventory](#inventory) · [modules](#modules) ·
[runs](#runs-bounds-and-what-they-show) · [disagreements](#what-the-violation-runs-show) ·
[fairness](#fairness) · [proofs](#proofs) · [limits](#not-modelled) · [plan](#plan)

## Inventory

Sizes are lines of source. "Peers" are the components it interacts with.

| part (under `src/`) | state it keeps | operations | peers | correct when |
|---|---|---|---|---|
| `tb/core_custom/tb_riscv/riscv_rvalid_stall.sv` (184) | 8 slots, two wrapping pointers, slot and flag of a late value | push on grant, late write of read data, countdown of the front slot, answer | one per OBI port, between RAM and core | every access is answered once, in order, with its own value |
| `.../riscv_gnt_stall.sv` (143) | request and grant of the last cycle, counter | draw a stall for a new request, wait, grant; random grant when idle | one per OBI port | every request is granted, whatever settings change meanwhile |
| `tb/core_custom/mm_ram.sv` (906) + `dp_ram.sv` (82) | RAM, stall registers, read-source register, random number, timer, debug request, cycle counter | address decode, remap of the debug window, RAM access, peripheral registers | core (two OBI buses), the four stall instances, firmware | both ports together are one in-order memory |
| `rtl/pg_xif_mac.sv` (128), `rtl/pg_xif_tinyml.sv` (160) | one result with its id | decode and accept, compute, offer, hand over, drop on kill | core, over CV-X-IF issue, commit and result | the core gets exactly the result of the instruction it has in flight, and the unit never blocks |
| `rtl/pg_xif_swpi.sv` (126) | four-state FSM, address, data, id | accept, store, wait for the memory result, hand back rs1+4 | the same and xif_mem | the store happens once, before the write-back; the unit never blocks |
| `model/cv32e40x_model.py` (434) | parsed trace, replayed register file, stall counters | parse, replay, cut out the region, charge | trace from Spike, the other tools import it | totals decompose into their causes; operands are those of the program |
| `model/cv32e40p_model.py` (186) | as above | the other core's table | imports the former | differs from the former exactly as its table says |
| `model/find_candidates.py` (238) | counters by signature | enumerate windows, liveness, signature, hazard slack, score | both cycle models | what it counts can be one instruction, and the band it reports is reachable |
| `model/predict_xpulp.py` (321) | set of removable instructions | loop bodies, induction variable, address chains, multiply-accumulate | cycle models | removes nothing whose effect is still needed |
| `pariscv_flow.py` (311) and `tools/idiom_detector.py`, `c_rewriter.py`, `firmware_builder.py`, `verilator_runner.py` (726) | files: accelerated source, two images, one log | detect, rewrite, build twice, simulate twice, report | compiler, simulator, file system | the report compares two runs that really happened |
| `riscv_random_interrupt_generator.sv` (177), timer, debug request and cycle counter of `mm_ram.sv` | counters, pending bits | arm, count down, raise, acknowledge | firmware, core (not connected in this wrapper) | a request that is armed is raised once, for as long as asked |
| `cv32e40x_tb_wrapper.sv`, `tb_top*.sv`, `tb_riscv_core.sv` | clock, reset, watchdog | wiring | all RTL | – |
| `riscv_perturbation.sv`, `riscv_simchecker.sv`, `riscv_random_stall.sv` | – | – | only `tb_riscv_core.sv`, which nothing instantiates | – |
| `tb/core/*` | second testbench tree: the wrapper that instantiates the coprocessors, an earlier `mm_ram`, identical stall modules | – | – | – |
| `tb/uvmt/*` (about 3,000) | vendored assertions on the core's internals | – | the core (absent) | – |
| profiler, decoder, classifier, reports, root `cv32e40x_model.py` (an older copy) | – | batch: read, count, print | – | – |
| `model/bench/embench` and the originals in `bench/embench-iot` | the heap of `beebsc.c`, the nets, charts, trees, lists, tables and buffers of the programs | one `benchmark_body` each, the library functions it calls | simulator, cycle model, `verify_benchmark` | each computes what its name and its own check say, for other inputs too |
| `model/bench/bench_*.c`, `custom_intrinsics.h` | – | the kernel with and without its instruction | coprocessors, rewriter | both forms compute the same |
| `rtl-tests`, `Makefile`, `setup.sh`, `patches`, `docs` | inputs | – | – | – |

The CV32E40X itself is not in the repository. How the sources use its signals is
all that is modelled of it.

### Hard behaviours

The full list, each at its line, is `hazards` in `PROJECT.json`. In short:

* **The response FIFO has no back-pressure.** `fifo_full` is computed and never
  used (`riscv_rvalid_stall.sv:122`); the core's limit on accesses in flight is
  what keeps a push from overwriting an owed answer. Read data comes a cycle
  after the push, possibly while the next push or the answer itself happens, and
  two of the registers involved have no reset.
* **Stalls are switched by the traffic they delay.** The settings are memory-
  mapped: a store changes mode and enable while a request waits or answers are
  outstanding. With stalls on, an ungranted request already enables the RAM.
* **A coprocessor and a speculative pipeline.** Offers are withdrawn, accepted
  instructions killed, results wait for a core that is ready only when it has
  committed; all in one chain of registers.
* **A model that reads text.** The timing model recovers register dependencies
  and divisors from disassembly and from a second kind of trace line; a silent
  loss of either changes the cycle count and nothing else.
* **A score that must be achievable.** The candidate finder multiplies the
  saving of one window by a count; the Xpulp predictor takes instructions out of
  a trace in several passes that depend on one another.
* **Peripherals that share registers with their users.** The timer, the debug
  request and the interrupt generator count down while firmware rewrites them
  and the core acknowledges what they raised.
* **A flow over files.** Two builds, two simulations and a log, named after the
  source and the directory, which by default is the same one for every flow;
  every stage may fail, hang, crash or be interrupted and leave its files behind.
* **Data structures that need a history.** Deleting from a red-black tree,
  merging in place, cutting a message into updates or allocating from a bump
  allocator go wrong only after particular sequences of legal calls.

## Modules

| module | models | notes |
|---|---|---|
| `ResponseQueue` | what a bus port promises | abstract: a queue of owed values, one of which may still be arriving |
| `RvalidStall` | `riscv_rvalid_stall.sv` | state variables are its registers; `FifoTick` is one clock edge; refines `ResponseQueue` |
| `GntStall` | `riscv_gnt_stall.sv` | one action per branch of its `if` chain |
| `InOrderMemory` | what `mm_ram` promises | abstract: accesses take effect at their grants; built from two `ResponseQueue`s |
| `MmRam` | `mm_ram.sv`, `dp_ram.sv` | two `RvalidStall`s, two `GntStall`s, RAM, remap, stall registers, random number; refines `InOrderMemory` |
| `XifCore` | the core's side of CV-X-IF (external) | offers, withdrawals, commits, kills, readiness |
| `XifDatapath` | the arithmetic of both units | every intermediate register width, and the exact dot product to compare with |
| `XifResult` | `pg_xif_mac.sv`, `pg_xif_tinyml.sv` | the controller they share; constants for what differs |
| `XifSwpi` | `pg_xif_swpi.sv` | the FSM, one action per arc, and the memory interface of the core |
| `Timing` | both timing tables and `decode_regs` | pure operators: no state |
| `CycleModel` | `parse_trace`, `slice_region`, `run` of both models | both cores charged side by side over one trace |
| `Candidates` | `find_candidates.py` | one step per iteration of the inner loop |
| `Xpulp` | `predict_xpulp.py` | operators, and what the extension replaces, found from the uses of each value |
| `Peripherals` | timer, debug request, cycle counter of `mm_ram.sv`, `riscv_random_interrupt_generator.sv` | one clock edge with at most one register write and one acknowledgement |
| `Rewriter` | `idiom_detector.py`, `c_rewriter.py`, the defines of `pariscv_flow.py` | sources as sequences of line shapes, with their meaning |
| `Flow` | `pariscv_flow.py`, `firmware_builder.py`, `verilator_runner.py` | one action per stage and outcome, and the interrupt; several flows on shared files; the history `crossed` tells which of them were active together on the same files |
| `Heap` | allocator of `beebsc.c` | one action per function and the program's writes |
| `MdBuffer` | `MD_UPDATE`, `MD_PAD` of `nettle-sha256.c` | any compression function, block size and width of the length |
| `Nsichneu` | `libnsichneu.c` | one step per block; the table of the 126 blocks is a parameter, `Unrolled`, and the code's own is in `Benchmarks` |
| `Statemate` | `libstatemate.c` | one step per pass of `FH_DU` |
| `RbTree`, `DlList` | `sglib.h` | with their links as state; the list's sort is a parameter of `DlList`, and the code's own is in `Benchmarks` |
| `WikiSort`, `Slre`, `Huffbench` | `libwikisort.c`, `libslre.c`, `libhuffbench.c` | operators against reference definitions |
| `Benchmarks`, `Mont64` | `matmult-int.c`, `libud.c`, `primecount.c`, `libedn.c`, `tarfind.c`, `combined.c` with the other containers of `sglib.h`; `mont64.c` | operators |
| `Kernels` | `model/bench/bench_*.c`, `custom_intrinsics.h`, `libc_min.c`; compression of SHA-256, `md5.c`, `crc_32.c`, `nettle-aes.c` | each kernel in both forms; operators |
| `Words` | – | 32-bit words in two halves; loops that TLC evaluates turn by turn |
| `MC*` | – | constants for TLC |
| `*_proofs` | – | the theorems of the module they are named after; `Programs_proofs`: of `Heap`, `Flow`, `MdBuffer`, `Nsichneu` and `DlList` |

`RvalidStall` is checked on its own and instantiated twice in `MmRam`.
`XifResult` and `XifSwpi` extend `XifCore`; `CycleModel`, `Candidates` and `Xpulp`
extend `Timing`. `MCPrograms` puts the programs under one specification: an
execution is that of one program, whose variables run while those of the others
stand still; `Flow` gets there what the detector finds, the programs and their
results from `Rewriter`. It extends the five modules that `Programs_proofs` is
about, so that their assumptions on constants are evaluated and their properties
are the very definitions that are proved, and instantiates the rest.

### How state corresponds to code

* **RTL.** One step is one clock edge. A state holds the registers and, for the
  buses, what the core drives during the cycle; wires are operators. Blocking
  and non-blocking assignments matter in `riscv_rvalid_stall`: the push into the
  FIFO is blocking, the late write and the countdown follow and see it
  (`CountedDown(Arrived(Pushed(...)))`). The grant generator acts 100 ps after
  the edge, so `GntTick` is given the *next* cycle's request and settings.
* **Randomness** (`$urandom`, randomised delays) is a choice from the range the
  code draws from. Registers without reset start anywhere in `PowerUp`.
* **`MmRam`'s locations** are one byte lane each; `be` says whether the lane is
  enabled. The virtual printer, status, exit and signature registers only print
  or stop and are left out; an address outside every window is fatal in the
  code and never used here.
* **The core** keeps a request until it is granted and respects its limit of
  accesses in flight. On CV-X-IF it has one offloaded instruction in flight,
  commits or kills it once and later than its issue, and takes a result only
  for an instruction it committed.
* **Datapaths** are computed at a reduced lane width (2 bits, words of 8): every
  register of the RTL keeps its width relative to the lane. The accumulated
  sums are modelled after their last truncation; widening the intermediate sums
  does not change a result modulo the word.
* **The trace.** An instruction carries what the parser sees (`ops`, the printed
  registers) and what the program does (`writes`, `reads`, which the code never
  looks at). Properties compare the two. Register values are members of a small
  set; a value's cost matters only through its leading zeros. Immediates,
  addresses beyond alignment and the text itself are abstracted.
* **Peripherals** (`mm_ram.sv`). One step is one edge. Firmware writes at most one register
  per edge, `MaxWrites` times in all, the interrupt mask at any time; the core
  acknowledges one interrupt. The history `owed` holds the interrupts an expiry
  has raised, until they are acknowledged or taken out of the mask.
  The generator's two processes are their program counters. Counters stop at
  `CountLimit` bits' worth of values, which is where they wrap.
* **The flow.** A file holds whose contents it has and from which build; the
  source file of a flow may be edited before the next flow begins. A simulation
  may print what its program computes, fail, crash or hang; the shell command
  that runs it is timed out, and opens the log anew. That a log exists and its
  reading are one step. A source line is a shape, and the
  meaning of a source is what its functions compute in the shapes' terms.
* **Programs in steps** (`Heap`, `MdBuffer`, `Nsichneu`, `Statemate`, `RbTree`, `DlList`)
  have the globals of the C file as variables, pointers as numbers and 0 for
  NULL. History variables (`blocks`, `message`, `members`, `marking`) say what
  the program was asked to keep.
* **Programs that are one computation** are operators on the inputs `Computations`
  lists. `kernel` is the input, the step `Compute` runs it, and the properties are
  action properties of that step, so that a result is computed once.
* **Words** are pairs of 16-bit halves, because TLC's integers are 32 bits wide
  and signed. `Mont64` is taken at 4 and 6 bits a word, WikiSort's cache at 0, 8
  and 512 items, the Huffman coder also at 3-bit bytes.
* **Candidates.** `i` and `len` are the loop variables, counted from one. The
  region is chosen among the given ones by `Init`; the costs come from either
  table.

## Runs: bounds and what they show

| run | instance | distinct states | shows |
|---|---|---|---|
| `rvalid_stall` | `Depth` 4, up to 3 in flight, delays 0–2, two values, any power-up value | 60,938 | `AnswersInOrder` (refinement of `ResponseQueue`), `EveryAccessAnswered` |
| `mm_ram_data` | data bus only, 2 in flight, random stalls ≤ 1 cycle switched by firmware, random-number reads | about 345,000 | `OneMemory` with the read source and the RAM port racing the grants |
| `mm_ram_both` | both buses, random stalls on one and fixed on the other, stores to the word that is fetched through the debug window, and to the register that switches the stalls of the fetches, also while a fetch waits | 135,707 | `OneMemory` across ports, `StallRunning`, `EveryRequestGranted` |
| `xif_tinyml` | two ids, three operand triples at the extremes | 2,650 | the core gets its own, exact result; the unit is busy exactly while it must be and becomes ready again |
| `xif_swpi` | the same, the core never kills | 2,628 | one store, then the pointer; ready again |
| `cycle_model` | 18 instruction kinds (every class, three alignments, compressed or not), regions of up to 3 | about 154,000 | decomposition, the two cores' differences, the boundary of the region, exact divisors |
| `candidates` | all 7,776 regions of 5 instructions of 6 kinds, windows of 2–3, two operands, memory allowed, horizon 2 | about 68,000 | counted windows are fusable, all fusable windows are counted, stalls are covered |
| `peripherals` | two interrupts, counters to 4, timer values 0–2, four kinds of debug request, 4 writes, simulator build | 127,872 | the debug line does what was asked, the counter tells the time or its overflow, no interrupt that stays enabled is lost, triggers are taken, everything comes to rest |
| `programs` | one execution per program (below) | 279,900 | what each program promises |
| three `violation` runs | | | [below](#what-the-violation-runs-show) |

The executions of `programs`:

| property | instance |
|---|---|
| `BlocksKept`, `CheckTellsRefusal` | a heap of 6 cells at two addresses, alignment 2, requests of 0–3 cells, any sequence of calls and writes until 11 cells are requested |
| `DigestOfMessage` | blocks of 4 bytes with a length of one byte, messages of up to 5 bytes cut in all ways, several in a row |
| `NetFiresWhatItCan` | members 0 and 1, all markings, two passes over all 126 blocks |
| `RedBlack` | 7 elements with colliding keys, any sequence of additions and deletions; walks in all orders |
| `LinkedBothWays` | 4 elements, every operation of the list, the list pointer anywhere; second lists of up to three elements, given at any of them |
| `CallsEnd` | the window lift under all signals with terminal 50 low, call after call; two flows |
| `VerdictIsBacked` | two flows, at once or after one another, in one simulation directory and on one source file, which rotates left for one and right, hence is rewritten wrongly, for the other; all outcomes of every simulation, interrupts anywhere |
| `RewritesAreExact` | sources of one or two idioms behind different beginnings of a file |
| `PredictionIsBacked` | 4,313 loop bodies: all orders of the counting with up to three of eleven instructions, behind a guard and in an outer loop, aligned or not |
| `FindsMatch` | all 1,056 patterns of up to two of eight items (three of them brackets) with quantifiers, on all texts of up to four letters; completeness where nothing is committed too early. A bracket behind one with a quantifier is read as the code numbers it (`AsRead`), which is not what it says ([below](#observed-while-modelling)) |
| `SortsStably` | arrays of 33 to 70 items (the shortest that are split into several blocks) with few and many equal keys, three cache sizes; arrays of up to 6 for the other sorts |
| `KernelsAgree`, `ResultsAsSpecified` | the benchmarks' own inputs and constants, and small inputs against reference definitions |

Why the bounds are enough:

* A FIFO of four slots wraps its pointers after eight pushes and can be filled to
  the limit of three; the code's eight slots add no case, and the proof covers
  every depth. A delay of two is the least that tells "counting" from "done in
  the next cycle".
* `mm_ram`'s data bus has two accesses in flight in one run (what the CV32E40X
  allows), one per bus in the other, where the question is about two ports.
  Two locations suffice: the one under test and location 0, which ungranted
  requests read. Firmware may switch the stalls of the fetches by a store while a
  fetch waits for its grant, and its own bus's by the store that waits itself.
  `MaxDelay` stays 15 because the code cuts delays to four bits.
* One offloaded instruction is in flight at a time by construction of the units
  (`issue_ready`), so two ids cover "this one" and "another".
* Hazards look at two neighbouring instructions and the region's boundary at
  its ends: three instructions between two markers cover a first, an inner and
  a last one. A word of four bits has all the cases of a leading-zero count.
* The four-cell writes of `peripherals` cover a request that is rewritten before,
  during and after its delay, with one write left for another register.
* Two flows are what a file can be confused between; the theorem covers any number
  and any sharing. Both programs of either build, so a build that fails, which ends
  a flow like an interrupt, is left to the proof.
* Seven elements are what a deletion needs to meet all eight cases of the
  rebalancing; the arrays of `SortsStably` reach the internal buffers, the rolling
  of blocks and the local merges.
* A block of four bytes with one for the length leaves room for the length behind
  messages of up to two bytes and none behind three; five bytes reach into a second
  block. Members 0 and 1 put every pattern of equal and lesser members into the
  slots that a transition can tell apart. The proofs cover all sizes and members.
* A window has at most three instructions, its producer up to two in front and
  its consumer up to two behind; with a horizon of two, values beyond the
  horizon occur.

Deadlock is checked for the RTL runs, whose clock never stops. It is off for
the trace tools and the benchmark programs, which end.

Every property is kept honest by a mutant: a definition of the model is
replaced by a plausible bug (named `Mutant:` in the modules) and the property
must fail.

### What the violation runs show

| run | disagreement |
|---|---|
| `xif_swpi_kill` | `pg_xif_swpi` ignores the commit interface. A killed instruction runs to `DO_RESULT` and waits there for a core that never takes the result. The README of the project reports that the unit hangs and suspects `xif_mem`; this is a way to hang that does not involve it. |
| `cycle_model_jalr` | A compressed call prints its source where the parser expects a destination, and `ret` prints no register: the hazard of a jump behind the instruction that computes its target is not charged. |
| `raw_rewrite` | The rewriter puts its banner in front of the source (`c_rewriter.py:244`) and then looks for the loop from a line number of the source without it (`:143`): the wrong loop is replaced, or none is found and the accumulation becomes a comment. `model/bench/bench_single_loop.c` is such a source. |

### Observed while modelling

Facts about the code that no run states as a disagreement, because no line of
the repository says otherwise, or because the core would have to decide:

* `pg_xif_mac.sv:67` decodes only when all three `rs_valid` bits are set; the project
  summary says that the CV32E40X asserts two, and `pg_xif_tinyml` follows that.
* Without commit lines the divisor is read from a register file that is all
  zero, so `--div-cycles` never has an effect.
* The candidate finder counts overlapping windows as if each could be replaced.
* The Xpulp predictor does not look for control flow in the body, although its
  docstring excludes it, nor for uses of a product in front of its addition. It
  keeps the second address addition of two accesses that share a scaled index,
  and charges a branch that falls through to a removed instruction as taken.
* With `VERILATOR` defined, the random width of a debug pulse goes into the start
  counter (`mm_ram.sv:701`) and the pulse does not end.
* An expiry of the timer replaces whatever is pending by the mask, so an interrupt
  that firmware took out of the mask while it was pending is dropped; the monitor
  process of the interrupt generator serves one trigger and is over.
* The detector also takes `(x >> n) | (x << (32 - n))`, a rotate to the right, for a
  rotate and notes that it is swapped (`idiom_detector.py:189-204`); the rewriter does
  not read the note (`c_rewriter.py:203`) and rotates to the left by the same amount.
  `RewritesAreExact` says so of every such source, and that nothing else is changed.
* A simulation that prints no result has the result 0 (`verilator_runner.py:51`). When
  both crash, 0 is compared with 0 and the report says SUCCESS (100% Bit-Exact)
  (`pariscv_flow.py:87`, `:100`), whatever the two programs compute; two other lines
  say that neither ended with success. `VerdictIsBacked` has this as its second case.
* Flows that are active at the same time in one simulation directory, the default,
  share one log: each may read and remove the other's, and the verdict of either
  then means nothing. The core that a match names is never compared with `--core`.
* The matcher of `libslre.c` counts the number of the bracket at hand up only at one
  without a quantifier; the calls for what follows a quantifier (`:286`, `:299`) hand on
  the old number. The next bracket is then read with the length and the branches of the
  one before (`:240`): `(a|b)*(ab)` is reported in the text `a`, and `(ab)*(a|b)` misses
  the match in `b`. `FindsMatch` is about every pattern as it is read (`AsRead`).
* In `libslre.c`, line 209 ignores case exactly when it should not, branches are
  sorted by a sort that is not stable, and a negated set accepts the NUL behind
  the end of the text.
* `SGLIB_DL_LIST_CONCAT` links only the element its second list is given at: what
  stands in front of and behind it is lost, unless the first list is empty. The parent and
  child indices of sglib's array heap (`sglib.h:229-237`) do not belong together.
* `tarfind.c` does not check its allocations; on a heap whose start is not
  aligned the last one is refused.
* `libnsichneu.c` has 24 blocks for four members that leave the fifth slot alone.
* `libstatemate.c` would not return from a call if its environment set the step
  bits that a `default` branch makes unstable.

## Fairness

Liveness needs little, and each assumption is one of the environment's or of a
program that simply goes on running:

* the clock keeps running (`WF` of the step), in the memory system, the
  coprocessors and the peripherals;
* the core decides on every instruction that is speculative, and becomes ready
  for the result of one that it committed; neither waits for the coprocessor;
* the memory behind `xif_mem` accepts a request that is held and answers it;
* the core takes an interrupt that stays enabled and pending (`WF` of `Take`);
* a call of `FH_DU` goes on with its next pass (`WF` of `Statemate!Pass`): the
  loop has no other way to stop than to become stable, which is what is checked;
* a flow goes on with its next stage, and `timeout` ends a simulation that has
  run out of its time (`WF` of `Progress`). That the simulated program ends is
  not assumed: it may hang.

Nothing is assumed of the hardware under study. `GntStall` and `RvalidStall`
need only the clock: their delays are bounded.

## Proofs

Eight modules, checked by TLAPS. The constants are arbitrary subject to the
named assumptions of the modules, which say what the code's types and ranges are
(`RamAssumption`, `LineAssumption`, `RegionsAssumption`, `HashAssumption`,
`NetAssumption`, `ListAssumption`, ...); every run evaluates those of its module.
Each proof has the same shape: an inductive invariant, `Init` establishes it, one
lemma per action or per branch of the code keeps it, and the properties are its
consequences. Where TLC can evaluate an invariant it was given to it first.

| module | states | needs |
|---|---|---|
| `RvalidStall_proofs` | `AnswersInOrder` | the core's limit is below the depth |
| `MmRam_proofs` | `OneMemory`, `StallRunning` | the same limit on either bus |
| `XifResult_proofs` | `TakesOwnResult`, `BusyIffInFlight`, `ResultHeld`, `ExactDotProduct` | the last: `LaneBits = 8`, the code's |
| `XifSwpi_proofs` | `StoredOnceThenPointer`, `ResultAfterStore` | |
| `CycleModel_proofs` | `Decomposition`, `CoresDifferAsDocumented`, `RegionWithinBoundary`, `DivisorExact` | the last: commit lines are logged |
| `Candidates_proofs` | `ScanComplete`, `FusableAsOne`, `StallsWithinExpected` | the second: `AllPrinted`; the third: `TableOfACore` |
| `Peripherals_proofs` | `TicksOrOverflow`, `PendingUntilTaken`, `DebugLineAsAsked` | the last: `NoneAstray` |
| `Programs_proofs` | `BlocksKept`, `CheckTellsRefusal`; `VerdictIsBacked`; `DigestOfMessage`; `NetFiresWhatItCan`; `LinkedBothWays` | |

**`RvalidStall_proofs`**, for every depth, delay range, set of values, power-up
value and number of accesses in flight below the depth. The inductive invariant
is `TypeOK /\ Occupied <= MaxOutstanding`; the second conjunct is what replaces
the unused `fifo_full`. From it, lemmas on the wrapping pointers (`SlotsDiffer`:
fewer than `Depth` consecutive pointers have different slots) give that a push
never hits an occupied slot, and `Implements` proves the refinement: every step
of the FIFO is a step of `ResponseQueue` under the mapping from slots to owed
values, the late value and the bypass included. `EdgeInv` and the lemma behind
`Implements` are stated for one `FifoTick` with any push, so that they can be
used of a FIFO that is part of a larger design.

**`MmRam_proofs`**, for every set of locations and values, every program of the
firmware and every setting it writes. It instantiates `RvalidStall_proofs` once
for each bus. The inductive invariant adds to the invariants of the two FIFOs
the ranges of the grant stalls, `StallRunning` (a request that waits has a stall
left to count down; it is inductive together with the range of the counter) and
`RoomForRequest`: the core, which limits what it has in flight, never has a
request on the bus that the FIFO could not take, even when its grant is delayed.
`Implements` then shows every edge to be a step of `InOrderMemory`: the grants of
both ports take effect on one memory, the debug window's addresses included, and
the answers follow by `ResponseQueue`, port by port. The crux is the late value:
the word the RAM puts out a cycle after the grant is the one the granted access
asked for, although an ungranted request already enables the RAM, and the
read-source register that selects between RAM and random number is that of the
granted access.

**`XifResult_proofs`**, for every set of ids, instructions and operands and every
width of the datapath. `BusyIffInFlight` is not inductive by itself: that a kill of the
instruction in flight also drops the waiting result needs the identifiers to
agree, which is part of `HoldsFlight`. The three together are inductive, and
`TakesOwnResult` and the action property `ResultHeld` follow. `ExactDotProduct`,
which TLC checks at lanes of 2 bits, is proved of all operands of 32 bits: a
lane is within its signed range (`LaneRange`), the product of two lanes fits the
register it is kept in (`ProductFits`, `SignedFits`), multiples of the modulus do
not change the low word (`ModAdd`; for `pg.mac`, which multiplies unsigned words),
and the sum over the lanes is the one the adders form, in whichever order the
fold of the definition takes them (`FoldExists`, `FoldIsSum`). The widths are
those of the code because the prover evaluates powers of two of numbers only.

**`XifSwpi_proofs`**, for every set of ids, operands and addresses, with kills and
without (safety survives them; it is readiness that does not). `Progress` relates
the FSM to what the memory owes: nothing is stored up to `DO_MEM`, exactly one
store is from `WAIT_RES` on, and it is answered in `DO_RESULT`. `HoldsFlight`
says that the registers are those of the instruction in flight, as long as
there is one, and `ReadyForFlight` that the core is ready for no other.

**`CycleModel_proofs`**, for every trace, word width, divider latency and length of
region. `Book` adds a cost to a tally; each table's cost is shown to book its
stall under one cause, and the two tables' costs to be related cause by cause.
The conjunction of types, `Decomposition` and `CoresDifferAsDocumented` is then
inductive; the history `met` counts how often the region met each row of the table,
and the property says what each row costs either core. `RegionLosesAtMostFour` needs `GapInv`, which bounds the difference
between charging the region alone and charging it within the whole trace: never
negative, nothing up to the first instruction of the region, at most one cycle
(the hazard of a jump that reads what the first marker wrote) inside it, and the
other three only at the marker that closes it. `DivisorsRecovered` rests on `Replayed`: with commit lines
the replayed register file is the program's at every instruction. Without them
the property says nothing of the code, which then reads zeros
([above](#observed-while-modelling)).

**`Candidates_proofs`**, for every region, cost table and option. `ScanInv` says
that the counters are those of the fusable windows behind the cursor. Its proof
has to justify the early exits: when the inner loop breaks, no longer window at
the same start is fusable (`StopPassesAll`), and a window that is skipped is not
fusable either. With it `ScanComplete` is immediate. `FusableAsOne` compares what
the code reads off the text with what the program really does, so it holds
where the disassembly is honest: `AllPrinted` says that every instruction reads
only registers it prints and writes the one it prints first. The instructions of
the run satisfy it; the calls of `cycle_model_jalr` do not. The proof finds the
last writer of a register (`ProducerLast`, by well-founded induction) and shows
that a value that is read behind a window is in `LiveOut`, also behind the
lookahead, where the code assumes that every value is. `StallsWithinExpected` needs
`StallInv`: the counters for stalls are the numbers of the windows behind the scan
that a load exposes, and that a load feeds. `TableOfACore` says that the penalties are those of
one of the two cores, which is what `--core` chooses from; with it, a window in
front of which the fused instruction stalls has the load right before it, and the
look back finds that load (`LoadInFront`). The penalties are added by a fold over a
set; that the fold exists and is within the number of exposed windows is shown
from the least size of a set for which it would not (`StallSumExists`, `SumWithin`).

**`Peripherals_proofs`**, for every number of lines, width of the counter, set of
masks, timer values, debug requests and settings of the generator, and both
builds. `TypeOK` holds the three relations that carry the properties: the interrupts
the timer owes are pending and within the mask (`TimerInv`, from which
`PendingUntilTaken`: an expiry puts the mask in the place of what is pending, so it
drops only what firmware took out of the mask meanwhile), the counter is the elapsed time or
has overflowed (`TicksInv`), and the value driven is that of the request accepted
last (`DebugTypeOK`). `DebugProgress` says how far that request is. It is inductive as
long as no random width goes into the start counter (`NoneAstray`), which
`SimulationBuild` shows of every build without `VERILATOR`; with it, only requests
that do not ask for a random width keep the property.

**`Programs_proofs`**, about the allocator, for every array, alignment, set of sizes and length of the
requests. `BlocksKept` is the conjunction of `InHeap` (blocks lie between the
start of the array and the pointer), `Apart` and `Kept`: a new block starts at or
behind the pointer, so it misses the others, and a write stays inside its block,
so it changes no other's bytes. `CheckTellsRefusal` needs `Counted`: until the
first refusal the requested total is the way the pointer has gone, and a refusal
takes it past the end for good. `IInv == HeapTypeOK /\ InHeap /\ Apart /\ Kept /\
Counted` is inductive, with a lemma for each operation; `BlocksAreKept` and
`CheckIsExact` follow.

The same module proves `VerdictIsBacked` of `Flow`, for every set of flows, source
names, directories and programs, whatever the flows share and wherever they are
interrupted. It says of a flow that was never active together with another one on
its files that equal results are those of its own two programs and that these
compute the same, or that a simulation printed nothing and the report tells that not
both were a success. `FlowInv` follows the files of such a flow: the rewritten source and
the images are its own from their building to its end (`OwnBuilds`), the simulator
runs its image and the log holds only what that run printed (`OwnSimulation`), because
the shell empties a log that an interrupted flow left behind, so a result that was
printed is its own (`OwnResults`). A step of another flow keeps all this (`OthersKept`):
either the two share nothing, or the other is not active, since `Told` says that
active flows that share a file are told, and can only detect (`InactiveDetects`). Of a
flow that has ended nothing is said but its results.

`DigestOfMessage` is proved of every compression function, size of block, width of
the length field, set of bytes and greatest length of a message; `HashAssumption`
says only that a block is not empty, that the length field fits into one, and that
the length is written in that many bytes. The
property speaks of `ctx` only through the digest, so it is not inductive. The
invariant behind it is `Represents(ctx, message)`: the state is the chain over the
whole blocks of the message so far, `count` is their number, and the front of the
buffer holds the `index` bytes that are left over; what an earlier message left
behind them does not matter. An update keeps it in each of its three cases (it does
not fill the buffer, fills it, or finds it empty: `ShortUpdate`, `FillingUpdate`,
`WholeBlocksTake`). `Chain` is a recursive function on the number of blocks: it is
shown to exist and to go on from where a prefix ends (`ChainExists`, `ChainGoesOn`) by
the least number for which it would not (`AllNaturals`). `RoomPads` and `NoRoomPads`
then show, byte by byte, that what `MD_PAD` and the digest compress is the end of
`Padded(message)`: one block when the mark leaves room for the length, two when
not.

`NetFiresWhatItCan` is proved of every set of integers as members, every number of
passes and every table of blocks that satisfies `NetAssumption`: each block is an order
of three slots of P1 or of four of P2, and no such order is missing. TLC evaluates that
assumption of the code's own 126 blocks. `NetInv` says at each block that a transition
has fired exactly if an earlier block of this pass allowed it (`T1Fired`, `T2Fired`) and
that P3 holds a triple for each that has (`Triples`), which is why the test for room
never stops one (`RoomLeft`). Until it fires, T2 looks at the members the pass began
with; that is what the history variable `marking` is for. At the end every order has
been tried (`AllOrders`), and that one of them fits says the same as the numbers of
equal members in the property (`T1Takes`, `T2Takes`), by adding up the slots one at
a time (`HoldingAdd`). `T2Balances` is the action property: what a firing takes and
the member in the slot it does not take are the five there were.

`LinkedBothWays` is proved of every finite set of elements, every key and every sort
that returns a permutation of the elements it is given (`ListAssumption`; TLC evaluates
it of the code's merge sort and every list of up to four elements). `Along`, the walk
along the pointers, is a recursive function over a number of turns, and a list has no
more members than there are elements (`ListSize`), so the bound never cuts the walk
short (`AlongIs`). The invariant, `Linked`, names the order: there is a
sequence of the members without repetition whose neighbours are what both pointers of
each hold, and the list pointer is on one of them. Each operation is shown to give the
next such sequence: `LinkedIn` for an element at any place, from which `AddedBefore`,
`AddedAfter` and, for any second list and any place its pointer is at, `ConcatLinked`
follow, `LinkedOut` and `DeletedLinked` with the four ways
the list pointer can go, `SortedLinked`, and `TurnedRound` for the exchange of the
pointers. `SearchedIs` and `ForwardIs` turn the sequence into what is met from the list
pointer, from the first and from the last element.

Only model-checked:

* every liveness property (`CallsEnd`, `EveryAccessAnswered`, ...), and whatever needs
  `ENABLED`;
* `RedBlack`: what it says of heights and order is an induction over the tree, and its
  module walks trees by recursive operators; `SortRises` of the list, the order that the
  recursive `LIST_SORT` makes;
* the computations (`SortsStably`, `FindsMatch`, `KernelsAgree`, `ResultsAsSpecified`,
  `RewritesAreExact`, `PredictionIsBacked`): what would be proved is what a recursive
  definition computes, by induction over the data.

## Not modelled

* The **core**, except for its side of the interfaces.
* **The second testbench tree** (`tb/core`) where it differs from `core_custom`:
  an earlier address map, and a file `pg_xif_mac.sv` that holds an earlier
  `pg_xif_tinyml` (its result is cast to one bit; nothing builds it).
* **Testbench tops and the wiring of the wrapper**, except for what the wiring
  decides about a model.
* **UVM assertions**: about the core's internals.
* **Checkers and perturbation modules** that no top instantiates.
* **Profiler and reports**: batch programs over a dump or a trace that print.
* **Of the Xpulp predictor**, the counts by reason, the band of alignments and
  the comparison with measurements: they are printed and used for nothing.
* **Floating-point benchmarks**: without IEEE arithmetic a model of them says
  nothing. **picojpeg and qrduino**: vendored with Embench and not among the
  programs of `model/bench/embench`.
* **Printing, plotting, argument parsing, compilers and simulators**, start-up
  code, linker scripts and the set-up.

## Plan

1. *Done:* the memory system (`ResponseQueue`, `RvalidStall`, `GntStall`,
   `InOrderMemory`, `MmRam`), the coprocessors (`XifCore`, `XifDatapath`,
   `XifResult`, `XifSwpi`), the models (`Timing`, `CycleModel`), the candidate
   finder (`Candidates`), and three proof modules.
2. *Done:* the peripherals (`Peripherals`), the predictor (`Xpulp`), the rewriter
   and the flow (`Rewriter`, `Flow`), the programs under measurement, and
   proofs about the allocator and the flow (`Programs_proofs`).
3. *Done:* proofs of the memory system as a whole (`MmRam_proofs`), of the store
   unit (`XifSwpi_proofs`), the peripherals (`Peripherals_proofs`), the candidate
   finder (`Candidates_proofs`), and of the region and the divisors of the cycle
   models, of the coprocessors' arithmetic, of the hash, of the net and of the list.
   Left: the red-black tree, whose operations are recursive.
4. Left, models: the composition of `Peripherals` with the data port of `MmRam`,
   and the classifier of the profiler, if its rules are wanted as a specification.
