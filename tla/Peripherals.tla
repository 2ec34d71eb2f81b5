---------------------------- MODULE Peripherals ----------------------------
(***************************************************************************)
(* The peripherals behind the data bus of the testbench memory             *)
(* (tb/core_custom/mm_ram.sv): the interrupt timer, the cycle counter, the *)
(* debug request, and the random interrupt generator that mm_ram puts on   *)
(* the last interrupt line.  One step is one clock edge, at which the bus  *)
(* may carry one granted write and the core may acknowledge one interrupt. *)
(***************************************************************************)
EXTENDS Integers

CONSTANTS
  Irq,           \* The interrupt lines.
  RndIrqId,      \* RND_IRQ_ID, the line of the random generator.
  CountLimit,    \* Values of the cycle counter, 2^32 in the code.
  Verilator,     \* Whether this is the build with VERILATOR defined.
  Masks,         \* What firmware writes to the timer's mask register,
  TimerVals,     \*   to its counter,
  DebugRequests, \*   to the debug request register,
  IrqModes,      \*   and to the generator's settings (rnd_stall_regs 10-13).
  RandomDebug(_),   \* What $urandom_range(1, n) returns, n the default 128 too.
  MaxWrites      \* Bound on the writes of one execution.

(* The fields of the two registers with fields, wide enough for any value.  *)
DebugRequest ==
  [value : BOOLEAN, pulse : BOOLEAN, randomWidth : BOOLEAN, width : Nat,
   randomStart : BOOLEAN, delay : Nat]
IrqMode == [mode : {"OFF", "RANDOM", "PC_TRIG"}, min : Nat, max : Nat]

ASSUME LineAssumption == RndIrqId \in Irq /\ Masks \subseteq SUBSET Irq
ASSUME CountLimitAssumption == CountLimit \in Nat \ {0}
ASSUME WriteAssumption ==
  /\ TimerVals \subseteq Nat /\ MaxWrites \in Nat
  /\ DebugRequests \subseteq DebugRequest /\ IrqModes \subseteq IrqMode
(* $urandom_range(1, n) is at least one, also with the default for n.       *)
ASSUME RandomAssumption ==
  \A d \in DebugRequests :
    RandomDebug(d.delay) \cup RandomDebug(d.width) \subseteq Nat \ {0}

VARIABLES
  timer_irq_mask_q, timer_cnt_q, irq_q,
  cycle_count_q, cycle_count_overflow_q,
  debugger_start_cnt_q, debug_req_value_q, debug_req_duration_q, debug_req_o,
  settings,  \* The generator's settings, rnd_stall_regs[10 .. 13].
  irq_mode_q,
  random,    \* The generator's random process: where it waits, and how long,
  monitor,   \*   and its monitor process.
  pcHit,     \* irq_pc_id_i = irq_pc_trig_i.
  writes,    \* Writes so far.
  asked,     \* History: the debug request accepted last,
  elapsed,   \*   the cycles since the counter was cleared, up to CountLimit,
  owed       \*   and the lines the timer raised that have since neither been
             \*   acknowledged nor left out of the mask.

timer == <<timer_irq_mask_q, timer_cnt_q, irq_q, owed>>
ticks == <<cycle_count_q, cycle_count_overflow_q, elapsed>>
debugger == <<debugger_start_cnt_q, debug_req_value_q, debug_req_duration_q,
              debug_req_o, asked>>
generator == <<settings, irq_mode_q, random, monitor, pcHit>>
vars == <<timer, ticks, debugger, generator, writes>>

-----------------------------------------------------------------------------
(* What a clock edge sees on the bus: a write of one of these, or nothing.  *)
NoWrite == [reg |-> "none"]
Write ==
  [reg : {"TIMERREG"}, wdata : Masks]
    \cup [reg : {"TIMERVAL"}, wdata : TimerVals]
    \cup [reg : {"DBG"}, wdata : DebugRequests]
    \cup [reg : {"TICKS"}]
    \cup [reg : {"RNDSTALL"}, wdata : IrqModes]

rnd_irq ==
  /\ ~Verilator
  /\ \/ irq_mode_q = "RANDOM" /\ random.at = "raised"
     \/ irq_mode_q = "PC_TRIG" /\ monitor \in {"raised", "acked"}

irq_o == irq_q \cup (IF rnd_irq THEN {RndIrqId} ELSE {})

-----------------------------------------------------------------------------
(* The interrupt timer.  acked is the set of lines acknowledged this cycle. *)

(* Mutant: an acknowledge clears the whole vector. *)
AcknowledgedAll(irqs, acked) == IF acked = {} THEN irqs ELSE {}
Acknowledged(irqs, acked) == irqs \ acked

(* An expiry raises the lines of the mask as it was; whatever an edge       *)
(* acknowledges or disables the timer no longer owes.                       *)
OwedEdge(acked) ==
  owed' = ((owed \ acked) \cup (IF timer_cnt_q = 1 THEN timer_irq_mask_q ELSE {}))
            \cap timer_irq_mask_q'

(* Mutant: the counter also stops at one. *)
TimerEdgeStuck(w, acked) ==
  /\ timer_irq_mask_q' = IF w.reg = "TIMERREG" THEN w.wdata ELSE timer_irq_mask_q
  /\ timer_cnt_q' = IF w.reg = "TIMERVAL" THEN w.wdata
                    ELSE IF timer_cnt_q > 1 THEN timer_cnt_q - 1 ELSE timer_cnt_q
  /\ irq_q' = IF timer_cnt_q = 1 THEN timer_irq_mask_q
              ELSE Acknowledged(irq_q, acked)
  /\ OwedEdge(acked)

TimerEdge(w, acked) ==
  /\ timer_irq_mask_q' = IF w.reg = "TIMERREG" THEN w.wdata ELSE timer_irq_mask_q
  /\ timer_cnt_q' = IF w.reg = "TIMERVAL" THEN w.wdata
                    ELSE IF timer_cnt_q > 0 THEN timer_cnt_q - 1 ELSE timer_cnt_q
  /\ irq_q' = IF timer_cnt_q = 1 THEN timer_irq_mask_q
              ELSE Acknowledged(irq_q, acked)
  /\ OwedEdge(acked)

(* The cycle counter. *)
(* Mutant: the flag waits for a count the counter never has. *)
WrapsNever == cycle_count_q = CountLimit
Wraps == cycle_count_q + 1 = CountLimit

TickEdge(w) ==
  /\ cycle_count_q' = IF w.reg = "TICKS" THEN 0 ELSE (cycle_count_q + 1) % CountLimit
  /\ cycle_count_overflow_q' = (cycle_count_overflow_q \/ Wraps)
  /\ elapsed' = IF w.reg = "TICKS" THEN 0
                ELSE IF elapsed < CountLimit THEN elapsed + 1 ELSE elapsed

-----------------------------------------------------------------------------
(* The debug request.  A request is [value, pulse, randomWidth, width,      *)
(* randomStart, delay], the fields of wdata.                                *)

Idle == debugger_start_cnt_q = 0 /\ debug_req_duration_q = 0

AtLeastOne(n) == IF n = 0 THEN 1 ELSE n
Random(n) == IF Verilator THEN {1} ELSE RandomDebug(n)

StartDelays(d) == IF d.randomStart THEN Random(d.delay) ELSE {AtLeastOne(d.delay)}
Widths(d) ==
  IF ~d.pulse THEN {0}
  ELSE IF d.randomWidth THEN Random(d.width) ELSE {AtLeastOne(d.width)}

(* Mutant: both builds assign the wrong counter. *)
WidthAlwaysAstray(d) == d.pulse /\ d.randomWidth

(* Under Verilator a random width is written to the start counter instead:  *)
(* the later assignment wins, and the width stays what it was, zero.        *)
WidthGoesAstray(d) == Verilator /\ d.pulse /\ d.randomWidth

Accept(d) ==
  /\ \E n \in StartDelays(d) :
       debugger_start_cnt_q' = IF WidthGoesAstray(d) THEN 1 ELSE n
  /\ \E n \in Widths(d) :
       debug_req_duration_q' = IF WidthGoesAstray(d) THEN debug_req_duration_q ELSE n
  /\ debug_req_value_q' = d.value
  /\ asked' = d
  /\ UNCHANGED debug_req_o

CountDown ==
  /\ debugger_start_cnt_q' = IF debugger_start_cnt_q > 0
                             THEN debugger_start_cnt_q - 1 ELSE debugger_start_cnt_q
  /\ debug_req_duration_q' = IF debugger_start_cnt_q = 0 /\ debug_req_duration_q > 0
                             THEN debug_req_duration_q - 1 ELSE debug_req_duration_q
  /\ debug_req_o' = IF debugger_start_cnt_q = 1 THEN debug_req_value_q
                    ELSE IF debugger_start_cnt_q = 0 /\ debug_req_duration_q = 1
                    THEN ~debug_req_value_q ELSE debug_req_o
  /\ UNCHANGED <<debug_req_value_q, asked>>

(* A request that comes while one is under way is ignored.                  *)
DebugEdge(w) ==
  IF w.reg = "DBG" /\ Idle THEN Accept(w.wdata) ELSE CountDown

-----------------------------------------------------------------------------
(* The random interrupt generator; there is none under Verilator.  Settings *)
(* are [mode, min, max].  A process that waits for a level resumes after    *)
(* the edge that makes it true, so the waits look at the primed values.     *)

(* Random process: an interrupt for max + 1 cycles after a random wait,     *)
(* with the settings of when the wait began.  It waits for its mode, and    *)
(* goes on at the edge itself when the mode is there already.               *)
Raised(max) == [at |-> "raised", left |-> max, max |-> max]
Waiting == [at |-> "waiting", left |-> 0, max |-> 0]
Draw(s) ==
  \E n \in s.min .. s.max :
    random' = IF n = 0 THEN Raised(s.max)
              ELSE [at |-> "counting", left |-> n, max |-> s.max]

RandomDraw ==
  IF irq_mode_q = "RANDOM" THEN Draw(settings)
  ELSE IF irq_mode_q' = "RANDOM" THEN Draw(settings')
  ELSE random' = Waiting

RandomProcess ==
  CASE random.at = "lowered" \/ random.at = "waiting" -> RandomDraw
    [] random.at = "counting" ->
         random' = IF random.left = 1 THEN Raised(random.max)
                   ELSE [random EXCEPT !.left = @ - 1]
    [] random.at = "raised" ->
         random' = IF random.left = 0
                   THEN [Waiting EXCEPT !.at = "lowered"]
                   ELSE [random EXCEPT !.left = @ - 1]

(* The monitor's first two waits follow each other: the trigger is looked   *)
(* at once the mode has been seen.                                          *)
MonitorReady(state) ==
  IF state = "mode" /\ irq_mode_q' = "PC_TRIG" THEN "pc" ELSE state

(* Mutant: the request is lowered at the trigger's next edge, acknowledged  *)
(* or not.                                                                  *)
MonitorProcessUnheld(acked) ==
  monitor' =
    CASE monitor \in {"mode", "pc"} ->
           IF MonitorReady(monitor) = "pc" /\ pcHit' THEN "raised"
           ELSE MonitorReady(monitor)
      [] monitor = "raised" -> "acked"
      [] monitor = "acked"  -> "mode"
      [] monitor = "done"   -> "done"

(* Monitor process: one interrupt, held until it is acknowledged and for    *)
(* one edge more, after which the process is over.                          *)
MonitorProcess(acked) ==
  monitor' =
    CASE monitor \in {"mode", "pc"} ->
           IF MonitorReady(monitor) = "pc" /\ pcHit' THEN "raised"
           ELSE MonitorReady(monitor)
      [] monitor = "raised" -> IF RndIrqId \in acked THEN "acked" ELSE monitor
      [] monitor = "acked"  -> "done"
      [] monitor = "done"   -> "done"

GeneratorEdge(w, acked) ==
  IF Verilator THEN UNCHANGED generator
  ELSE /\ settings' = IF w.reg = "RNDSTALL" THEN w.wdata ELSE settings
       /\ irq_mode_q' = settings.mode
       /\ pcHit' \in BOOLEAN
       /\ RandomProcess
       /\ MonitorProcess(acked)

-----------------------------------------------------------------------------
Edge(w, acked) ==
  /\ TimerEdge(w, acked)
  /\ TickEdge(w)
  /\ DebugEdge(w)
  /\ GeneratorEdge(w, acked)
  /\ writes' = IF w = NoWrite THEN writes ELSE writes + 1

Quiet == Edge(NoWrite, {})
WriteRegister == writes < MaxWrites /\ \E w \in Write : Edge(w, {})
Take(i) == i \in irq_o /\ Edge(NoWrite, {i})
WriteAndTake ==
  /\ writes < MaxWrites
  /\ \E w \in Write, i \in irq_o : Edge(w, {i})

NoDebug == [value |-> FALSE, pulse |-> FALSE, randomWidth |-> FALSE, width |-> 0,
            randomStart |-> FALSE, delay |-> 0]

Init ==
  /\ timer_irq_mask_q = {} /\ timer_cnt_q = 0 /\ irq_q = {} /\ owed = {}
  /\ cycle_count_q = 0 /\ cycle_count_overflow_q = FALSE /\ elapsed = 0
  /\ debugger_start_cnt_q = 0 /\ debug_req_value_q = FALSE
  /\ debug_req_duration_q = 0 /\ debug_req_o = FALSE /\ asked = NoDebug
  /\ settings = [mode |-> "OFF", min |-> 0, max |-> 0] /\ irq_mode_q = "OFF"
  /\ random = Waiting
  /\ monitor = "mode" /\ pcHit = FALSE
  /\ writes = 0

Next == Quiet \/ WriteRegister \/ WriteAndTake \/ \E i \in Irq : Take(i)

(* The clock runs, and the core takes an interrupt that stays pending.      *)
Spec == Init /\ [][Next]_vars
Fairness == WF_vars(Next) /\ \A i \in Irq : WF_vars(Take(i))
FairSpec == Spec /\ Fairness

-----------------------------------------------------------------------------
(* Once nothing is counting any more, the debug request line carries what   *)
(* the request accepted last asked for: its value for a level, the opposite *)
(* for a pulse, which has ended (comment above tb_debugger).                *)
DebugLineAsAsked ==
  Idle => debug_req_o = (IF asked.pulse THEN ~asked.value ELSE asked.value)

(* Unless the overflow flag says otherwise, which makes a read of the       *)
(* counter fatal, the counter is the number of cycles since its last clear. *)
TicksOrOverflow == cycle_count_overflow_q \/ cycle_count_q = elapsed

(* A timer interrupt stays pending until the core acknowledges it, however  *)
(* firmware restarts the timer and rewrites its mask meanwhile, as long as  *)
(* it stays enabled: an expiry overwrites irq_q, and so drops what firmware *)
(* disabled while it was pending, but nothing else, and an acknowledge      *)
(* clears one line.                                                         *)
PendingUntilTaken == owed \subseteq irq_q

(* When the writes are over, the timer runs out, the debug request ends and *)
(* every timer interrupt is taken, also one whose acknowledge was lost      *)
(* because the timer expired in the same cycle.                             *)
ComesToRest == <>[](Idle /\ timer_cnt_q = 0 /\ irq_q = {})

(* The interrupt of the PC trigger is delivered: when the core passes the   *)
(* trigger in that mode and the mode stays, the core takes the interrupt.   *)
TriggerTaken ==
  []([](irq_mode_q = "PC_TRIG") /\ monitor # "done" /\ pcHit => <>(monitor = "done"))
=============================================================================
