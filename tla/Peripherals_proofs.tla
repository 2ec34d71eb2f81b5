------------------------- MODULE Peripherals_proofs -------------------------
(***************************************************************************)
(* Proofs about the peripherals of mm_ram, for every number of interrupt   *)
(* lines, width of the cycle counter, mask, timer value, debug request and *)
(* setting of the generator, in both builds.                               *)
(***************************************************************************)
EXTENDS Peripherals, TLAPS

(* The interrupt timer, with the property itself: what it owes is pending,  *)
(* and enabled, so that the mask that an expiry writes over irq_q holds it. *)
TimerInv ==
  /\ timer_irq_mask_q \in SUBSET Irq
  /\ timer_cnt_q \in Nat
  /\ irq_q \in SUBSET Irq
  /\ owed \subseteq timer_irq_mask_q
  /\ PendingUntilTaken

(* The cycle counter, with the property itself.                             *)
TicksInv ==
  /\ cycle_count_q \in Nat /\ cycle_count_q < CountLimit
  /\ cycle_count_overflow_q \in BOOLEAN
  /\ elapsed \in Nat
  /\ TicksOrOverflow

(* The debug request: both counters and the line keep their types, and the  *)
(* value is that of the request accepted last.                              *)
DebugTypeOK ==
  /\ debugger_start_cnt_q \in Nat
  /\ debug_req_duration_q \in Nat
  /\ debug_req_o \in BOOLEAN
  /\ asked \in DebugRequest
  /\ debug_req_value_q = asked.value

(* How far the request is: a width is pending behind the start delay        *)
(* exactly for a pulse, and during the width the line has the value.        *)
DebugProgress ==
  /\ debug_req_duration_q > 0 => asked.pulse
  /\ debugger_start_cnt_q > 0 /\ asked.pulse => debug_req_duration_q > 0
  /\ debugger_start_cnt_q = 0 /\ debug_req_duration_q > 0 => debug_req_o = asked.value
  /\ DebugLineAsAsked

(* The generator: an interrupt that is counted down to, or is raised, has   *)
(* at most the maximum of the settings it was drawn with before it.         *)
GeneratorInv ==
  /\ settings \in IrqMode
  /\ irq_mode_q \in {"OFF", "RANDOM", "PC_TRIG"}
  /\ random \in [at : {"waiting", "counting", "raised", "lowered"}, left : Nat, max : Nat]
  /\ random.left <= random.max
  /\ random.at = "counting" => random.left > 0
  /\ monitor \in {"mode", "pc", "raised", "acked", "done"}
  /\ pcHit \in BOOLEAN

TypeOK == TimerInv /\ TicksInv /\ DebugTypeOK /\ GeneratorInv /\ writes \in Nat

Inv == TypeOK /\ DebugProgress

-----------------------------------------------------------------------------
(* What the bus carries at an edge, and that every step is an edge.         *)

Bus == Write \cup {NoWrite}

(* A write carries data of its register's kind.                             *)
LEMMA BusData ==
  ASSUME NEW w \in Bus
  PROVE  /\ w.reg = "TIMERREG" => w.wdata \in SUBSET Irq
         /\ w.reg = "TIMERVAL" => w.wdata \in Nat
         /\ w.reg = "DBG" => w.wdata \in DebugRequests
         /\ w.reg = "RNDSTALL" => w.wdata \in IrqMode
<1>1. CASE w = NoWrite
  BY <1>1 DEF NoWrite
<1>2. CASE w \in [reg : {"TIMERREG"}, wdata : Masks]
  BY <1>2, LineAssumption
<1>3. CASE w \in [reg : {"TIMERVAL"}, wdata : TimerVals]
  BY <1>3, WriteAssumption
<1>4. CASE w \in [reg : {"DBG"}, wdata : DebugRequests]
  BY <1>4
<1>5. CASE w \in [reg : {"TICKS"}]
  BY <1>5
<1>6. CASE w \in [reg : {"RNDSTALL"}, wdata : IrqModes]
  BY <1>6, WriteAssumption
<1>7. QED
  BY <1>1, <1>2, <1>3, <1>4, <1>5, <1>6 DEF Bus, Write

(* A step is an edge at which the bus carries something, and the core       *)
(* acknowledges some lines.                                                 *)
LEMMA StepIsEdge ==
  ASSUME Next
  PROVE  \E w \in Bus, acked \in SUBSET (Irq \cup irq_o) : Edge(w, acked)
<1>1. NoWrite \in Bus
  BY DEF Bus
<1>2. CASE Quiet
  BY <1>1, <1>2 DEF Quiet
<1>3. CASE WriteRegister
  BY <1>3 DEF WriteRegister, Bus
<1>4. CASE WriteAndTake
  <2>1. PICK w \in Write, i \in irq_o : Edge(w, {i})
    BY <1>4 DEF WriteAndTake
  <2>2. w \in Bus /\ {i} \in SUBSET (Irq \cup irq_o)
    BY DEF Bus
  <2>3. QED
    BY <2>1, <2>2
<1>5. ASSUME NEW i \in Irq, Take(i)
      PROVE  {i} \in SUBSET (Irq \cup irq_o) /\ Edge(NoWrite, {i})
  BY <1>5 DEF Take
<1>6. QED
  BY <1>1, <1>2, <1>3, <1>4, <1>5 DEF Next

-----------------------------------------------------------------------------
(* The timer. *)

(* An edge keeps what the timer owes pending and enabled, whatever it       *)
(* writes and acknowledges.                                                 *)
LEMMA TimerStep ==
  ASSUME TimerInv, NEW w \in Bus, NEW acked, TimerEdge(w, acked)
  PROVE  TimerInv'
<1>1. timer_cnt_q' \in Nat
  BY BusData DEF TimerEdge, TimerInv
<1>2. timer_irq_mask_q' \in SUBSET Irq
  BY BusData DEF TimerEdge, TimerInv
<1>3. owed' \subseteq timer_irq_mask_q'
  BY DEF TimerEdge, OwedEdge
<1>4. CASE timer_cnt_q = 1
  <2>1. irq_q' = timer_irq_mask_q
    BY <1>4 DEF TimerEdge
  <2>2. owed' \subseteq timer_irq_mask_q
    BY <1>4 DEF TimerEdge, OwedEdge, TimerInv
  <2>3. QED
    BY <1>1, <1>2, <1>3, <2>1, <2>2 DEF TimerInv, PendingUntilTaken
<1>5. CASE timer_cnt_q # 1
  <2>1. irq_q' = irq_q \ acked
    BY <1>5 DEF TimerEdge, Acknowledged
  <2>2. owed' \subseteq owed \ acked
    BY <1>5 DEF TimerEdge, OwedEdge
  <2>3. QED
    BY <1>1, <1>2, <1>3, <2>1, <2>2 DEF TimerInv, PendingUntilTaken
<1>6. QED
  BY <1>4, <1>5

-----------------------------------------------------------------------------
(* The cycle counter. *)

(* The counter wraps exactly at the edge that sets the flag.                *)
LEMMA CountUp ==
  ASSUME NEW c \in Nat, c < CountLimit
  PROVE  /\ c + 1 < CountLimit => (c + 1) % CountLimit = c + 1
         /\ (c + 1) % CountLimit \in Nat
         /\ (c + 1) % CountLimit < CountLimit
<1>1. CASE c + 1 < CountLimit
  BY <1>1, CountLimitAssumption
<1>2. CASE c + 1 = CountLimit
  <2>1. CountLimit % CountLimit = 0
    BY CountLimitAssumption
  <2>2. QED
    BY <1>2, <2>1, CountLimitAssumption
<1>3. QED
  BY <1>1, <1>2, CountLimitAssumption

(* An edge keeps the counter the time since its clear, or raises the flag.  *)
LEMMA TickStep ==
  ASSUME TicksInv, NEW w, TickEdge(w)
  PROVE  TicksInv'
<1>1. elapsed' \in Nat /\ cycle_count_overflow_q' \in BOOLEAN
  BY CountLimitAssumption DEF TicksInv, TickEdge
<1>2. cycle_count_q' \in Nat /\ cycle_count_q' < CountLimit
  BY CountUp, CountLimitAssumption DEF TicksInv, TickEdge
<1>3. CASE cycle_count_overflow_q \/ Wraps
  BY <1>1, <1>2, <1>3 DEF TicksInv, TickEdge, TicksOrOverflow
<1>4. CASE ~cycle_count_overflow_q /\ ~Wraps
  <2>1. cycle_count_q = elapsed /\ cycle_count_q + 1 < CountLimit
    BY <1>4, CountLimitAssumption DEF TicksInv, TicksOrOverflow, Wraps
  <2>2. cycle_count_q' = elapsed'
    BY <2>1, CountUp DEF TicksInv, TickEdge
  <2>3. QED
    BY <1>1, <1>2, <2>2 DEF TicksInv, TicksOrOverflow
<1>5. QED
  BY <1>3, <1>4

-----------------------------------------------------------------------------
(* The debug request. *)

(* A request draws a start delay of at least one cycle, and a width of at   *)
(* least one for a pulse and of none for a level.                           *)
LEMMA Drawn ==
  ASSUME NEW d \in DebugRequests
  PROVE  /\ StartDelays(d) \subseteq Nat \ {0}
         /\ d.pulse => Widths(d) \subseteq Nat \ {0}
         /\ ~d.pulse => Widths(d) = {0}
<1>1. d \in DebugRequest
  BY WriteAssumption
<1>2. Random(d.delay) \subseteq Nat \ {0} /\ Random(d.width) \subseteq Nat \ {0}
  BY RandomAssumption DEF Random
<1>3. AtLeastOne(d.delay) \in Nat \ {0} /\ AtLeastOne(d.width) \in Nat \ {0}
  BY <1>1 DEF DebugRequest, AtLeastOne
<1>4. QED
  BY <1>2, <1>3 DEF StartDelays, Widths

(* An edge keeps the types, whatever build and requests.                    *)
LEMMA DebugTypes ==
  ASSUME DebugTypeOK, NEW w \in Bus, DebugEdge(w)
  PROVE  DebugTypeOK'
<1>1. CASE w.reg = "DBG" /\ Idle
  <2>1. w.wdata \in DebugRequests /\ w.wdata \in DebugRequest
    BY <1>1, BusData, WriteAssumption
  <2>2. Accept(w.wdata)
    BY <1>1 DEF DebugEdge
  <2>3. debugger_start_cnt_q' \in Nat
    BY <2>1, <2>2, Drawn DEF Accept
  <2>4. debug_req_duration_q' \in Nat
    BY <2>1, <2>2, Drawn DEF Accept, DebugTypeOK
  <2>5. QED
    BY <2>1, <2>2, <2>3, <2>4 DEF Accept, DebugTypeOK
<1>2. CASE ~(w.reg = "DBG" /\ Idle)
  <2>1. CountDown
    BY <1>2 DEF DebugEdge
  <2>2. asked' = asked /\ debug_req_value_q' = debug_req_value_q
    BY <2>1 DEF CountDown
  <2>3. debug_req_value_q \in BOOLEAN
    BY DEF DebugTypeOK, DebugRequest
  <2>4. debug_req_o' \in BOOLEAN
    BY <2>1, <2>3 DEF CountDown, DebugTypeOK
  <2>5. debugger_start_cnt_q' \in Nat /\ debug_req_duration_q' \in Nat
    BY <2>1 DEF CountDown, DebugTypeOK
  <2>6. QED
    BY <2>2, <2>4, <2>5 DEF DebugTypeOK
<1>3. QED
  BY <1>1, <1>2

(* An accepted request leaves its width to count exactly when it is a       *)
(* pulse, unless the width went to the start counter.                       *)
LEMMA AcceptProgress ==
  ASSUME NEW d \in DebugRequests, ~WidthGoesAstray(d), Accept(d)
  PROVE  DebugProgress'
<1>1. debugger_start_cnt_q' \in Nat \ {0}
  BY Drawn DEF Accept
<1>2. debug_req_duration_q' \in Widths(d)
  BY DEF Accept
<1>3. asked' = d
  BY DEF Accept
<1>4. CASE d.pulse
  BY <1>1, <1>2, <1>3, <1>4, Drawn DEF DebugProgress, DebugLineAsAsked, Idle
<1>5. CASE ~d.pulse
  BY <1>1, <1>2, <1>3, <1>5, Drawn DEF DebugProgress, DebugLineAsAsked, Idle
<1>6. QED
  BY <1>4, <1>5

(* Counting down keeps the progress: the line takes the value when the      *)
(* delay ends, and the opposite when the width of a pulse does.             *)
LEMMA CountDownProgress ==
  ASSUME DebugTypeOK, DebugProgress, CountDown
  PROVE  DebugProgress'
<1>1. asked' = asked /\ debug_req_value_q = asked.value
  BY DEF CountDown, DebugTypeOK
<1> DEFINE start == debugger_start_cnt_q
           width == debug_req_duration_q
<1>2. start \in Nat /\ width \in Nat
  BY DEF DebugTypeOK
<1>3. CASE start > 1
  <2>1. start' > 0 /\ width' = width /\ start' \in Nat
    BY <1>2, <1>3 DEF CountDown
  <2>2. start > 0 /\ start' # 0
    BY <1>2, <1>3, <2>1
  <2>3. QED
    BY <1>1, <2>1, <2>2 DEF DebugProgress, DebugLineAsAsked, Idle
<1>4. CASE start = 1
  <2>1. start' = 0 /\ width' = width
    BY <1>2, <1>4 DEF CountDown
  <2>2. debug_req_o' = asked.value
    BY <1>1, <1>4 DEF CountDown
  <2>3. start > 0 /\ ~(start' > 0)
    BY <1>4, <2>1
  <2>4. asked.pulse => width' # 0
    BY <1>2, <2>1, <2>3 DEF DebugProgress
  <2>5. QED
    BY <1>1, <2>1, <2>2, <2>3, <2>4 DEF DebugProgress, DebugLineAsAsked, Idle
<1>5. CASE start = 0 /\ width > 1
  <2>1. start' = 0 /\ width' > 0 /\ width' \in Nat /\ width > 0
    BY <1>2, <1>5 DEF CountDown
  <2>2. debug_req_o' = debug_req_o
    BY <1>2, <1>5 DEF CountDown
  <2>3. width' # 0 /\ ~(start' > 0)
    BY <2>1
  <2>4. QED
    BY <1>1, <1>5, <2>1, <2>2, <2>3 DEF DebugProgress, DebugLineAsAsked, Idle
<1>6. CASE start = 0 /\ width = 1
  <2>1. start' = 0 /\ width' = 0
    BY <1>2, <1>6 DEF CountDown
  <2>2. debug_req_o' = ~asked.value
    BY <1>1, <1>6 DEF CountDown
  <2>3. width > 0 /\ ~(start' > 0) /\ ~(width' > 0)
    BY <1>6, <2>1
  <2>4. asked.pulse
    BY <2>3 DEF DebugProgress
  <2>5. QED
    BY <1>1, <2>1, <2>2, <2>3, <2>4 DEF DebugProgress, DebugLineAsAsked, Idle
<1>7. CASE start = 0 /\ width = 0
  <2>1. start' = 0 /\ width' = 0
    BY <1>7 DEF CountDown
  <2>2. debug_req_o' = debug_req_o
    BY <1>7 DEF CountDown
  <2>3. QED
    BY <1>1, <1>7, <2>1, <2>2 DEF DebugProgress, DebugLineAsAsked, Idle
<1>8. QED
  BY <1>2, <1>3, <1>4, <1>5, <1>6, <1>7

-----------------------------------------------------------------------------
(* The interrupt generator. *)

(* A draw waits for at most the maximum, and raises at once for no wait.    *)
LEMMA DrawTypes ==
  ASSUME NEW s \in IrqMode, Draw(s)
  PROVE  /\ random' \in [at : {"waiting", "counting", "raised", "lowered"},
                         left : Nat, max : Nat]
         /\ random'.left <= random'.max
         /\ random'.at = "counting" => random'.left > 0
<1>1. PICK k \in s.min .. s.max :
         random' = IF k = 0 THEN Raised(s.max)
                   ELSE [at |-> "counting", left |-> k, max |-> s.max]
  BY DEF Draw
<1>2. s.min \in Nat /\ s.max \in Nat
  BY DEF IrqMode
<1>3. k \in Nat /\ k <= s.max
  BY <1>2
<1>4. CASE k = 0
  BY <1>1, <1>2, <1>4 DEF Raised
<1>5. CASE k # 0
  BY <1>1, <1>2, <1>3, <1>5
<1>6. QED
  BY <1>4, <1>5

(* An edge keeps the generator's types and its count within the maximum.    *)
LEMMA GeneratorStep ==
  ASSUME GeneratorInv, NEW w \in Bus, NEW acked, GeneratorEdge(w, acked)
  PROVE  GeneratorInv'
<1>1. CASE Verilator
  BY <1>1 DEF GeneratorEdge, GeneratorInv, generator
<1>2. CASE ~Verilator
  <2>1. /\ settings' = IF w.reg = "RNDSTALL" THEN w.wdata ELSE settings
        /\ irq_mode_q' = settings.mode
        /\ pcHit' \in BOOLEAN
        /\ RandomProcess
        /\ MonitorProcess(acked)
    BY <1>2 DEF GeneratorEdge
  <2>2. settings' \in IrqMode
    BY <2>1, BusData DEF GeneratorInv
  <2>3. irq_mode_q' \in {"OFF", "RANDOM", "PC_TRIG"}
    BY <2>1 DEF GeneratorInv, IrqMode
  <2>4. monitor' \in {"mode", "pc", "raised", "acked", "done"}
    <3>1. CASE monitor \in {"mode", "pc"}
      BY <2>1, <3>1 DEF MonitorProcess, MonitorReady
    <3>2. CASE monitor = "raised"
      BY <2>1, <3>2 DEF MonitorProcess
    <3>3. CASE monitor \in {"acked", "done"}
      BY <2>1, <3>3 DEF MonitorProcess
    <3>4. QED
      BY <3>1, <3>2, <3>3 DEF GeneratorInv
  <2>5. /\ random' \in [at : {"waiting", "counting", "raised", "lowered"},
                        left : Nat, max : Nat]
        /\ random'.left <= random'.max
        /\ random'.at = "counting" => random'.left > 0
    <3>1. CASE random.at \in {"lowered", "waiting"}
      <4>1. RandomDraw
        BY <2>1, <3>1 DEF RandomProcess
      <4>2. CASE Draw(settings)
        BY <4>2, DrawTypes DEF GeneratorInv
      <4>3. CASE Draw(settings')
        BY <4>3, <2>2, DrawTypes
      <4>4. CASE random' = Waiting
        BY <4>4 DEF Waiting
      <4>5. QED
        BY <4>1, <4>2, <4>3, <4>4 DEF RandomDraw
    <3>2. CASE random.at = "counting"
      BY <2>1, <3>2 DEF RandomProcess, GeneratorInv, Raised
    <3>3. CASE random.at = "raised"
      BY <2>1, <3>3 DEF RandomProcess, GeneratorInv, Waiting
    <3>4. QED
      BY <3>1, <3>2, <3>3 DEF GeneratorInv
  <2>6. QED
    BY <2>1, <2>2, <2>3, <2>4, <2>5 DEF GeneratorInv
<1>3. QED
  BY <1>1, <1>2

-----------------------------------------------------------------------------
(* The theorems.  A random width is astray only under Verilator.            *)

NoneAstray == \A d \in DebugRequests : ~WidthGoesAstray(d)

(* The reset establishes the invariant. *)
LEMMA InitInv == Init => Inv
<1>1. SUFFICES ASSUME Init PROVE Inv
  OBVIOUS
<1>2. TimerInv
  BY <1>1 DEF Init, TimerInv, PendingUntilTaken
<1>3. TicksInv
  <2>1. cycle_count_q = 0 /\ elapsed = 0
    BY <1>1 DEF Init
  <2>2. cycle_count_overflow_q \in BOOLEAN
    BY <1>1 DEF Init
  <2>3. QED
    BY <2>1, <2>2, CountLimitAssumption DEF TicksInv, TicksOrOverflow
<1>4. DebugTypeOK
  BY <1>1 DEF Init, DebugTypeOK, DebugRequest, NoDebug
<1>5. GeneratorInv
  <2>1. settings = [mode |-> "OFF", min |-> 0, max |-> 0] /\ irq_mode_q = "OFF"
    BY <1>1 DEF Init
  <2>2. random = [at |-> "waiting", left |-> 0, max |-> 0]
    BY <1>1 DEF Init, Waiting
  <2>3. monitor = "mode" /\ pcHit \in BOOLEAN
    BY <1>1 DEF Init
  <2>4. QED
    BY <2>1, <2>2, <2>3 DEF GeneratorInv, IrqMode
<1>6. DebugProgress
  <2>1. debugger_start_cnt_q = 0 /\ debug_req_duration_q = 0
    BY <1>1 DEF Init
  <2>2. ~asked.pulse /\ asked.value = FALSE /\ debug_req_o = FALSE
    BY <1>1 DEF Init, NoDebug
  <2>3. ~(debugger_start_cnt_q > 0) /\ ~(debug_req_duration_q > 0)
    BY <2>1
  <2>4. QED
    BY <2>1, <2>2, <2>3 DEF DebugProgress, DebugLineAsAsked, Idle
<1>7. writes \in Nat
  BY <1>1 DEF Init
<1>8. QED
  BY <1>2, <1>3, <1>4, <1>5, <1>6, <1>7 DEF Inv, TypeOK

(* A step keeps the part of the invariant that holds in both builds.        *)
LEMMA StepTypeOK ==
  ASSUME TypeOK, [Next]_vars
  PROVE  TypeOK'
<1>1. CASE Next
  <2>1. PICK w \in Bus, acked \in SUBSET (Irq \cup irq_o) : Edge(w, acked)
    BY <1>1, StepIsEdge
  <2>2. TimerInv'
    BY <2>1, TimerStep DEF TypeOK, Edge
  <2>3. TicksInv'
    BY <2>1, TickStep DEF TypeOK, Edge
  <2>4. DebugTypeOK'
    BY <2>1, DebugTypes DEF TypeOK, Edge
  <2>5. GeneratorInv'
    BY <2>1, GeneratorStep DEF TypeOK, Edge
  <2>6. writes' \in Nat
    BY <2>1 DEF TypeOK, Edge
  <2>7. QED
    BY <2>2, <2>3, <2>4, <2>5, <2>6 DEF TypeOK
<1>2. CASE UNCHANGED vars
  BY <1>2 DEF vars, timer, ticks, debugger, generator, TypeOK, TimerInv, PendingUntilTaken, TicksInv,
              TicksOrOverflow, DebugTypeOK, GeneratorInv
<1>3. QED
  BY <1>1, <1>2

(* A step keeps the progress of the debug request when no width goes astray.*)
LEMMA StepProgress ==
  ASSUME NoneAstray, TypeOK, DebugProgress, [Next]_vars
  PROVE  DebugProgress'
<1>1. CASE Next
  <2>1. PICK w \in Bus, acked \in SUBSET (Irq \cup irq_o) : Edge(w, acked)
    BY <1>1, StepIsEdge
  <2>2. DebugEdge(w)
    BY <2>1 DEF Edge
  <2>3. CASE w.reg = "DBG" /\ Idle
    <3>1. w.wdata \in DebugRequests /\ Accept(w.wdata)
      BY <2>2, <2>3, BusData DEF DebugEdge
    <3>2. QED
      BY <3>1, AcceptProgress DEF NoneAstray
  <2>4. CASE ~(w.reg = "DBG" /\ Idle)
    BY <2>2, <2>4, CountDownProgress DEF DebugEdge, TypeOK
  <2>5. QED
    BY <2>3, <2>4
<1>2. CASE UNCHANGED vars
  BY <1>2 DEF vars, debugger, DebugProgress, DebugLineAsAsked, Idle
<1>3. QED
  BY <1>1, <1>2

(* The peripherals keep their types, what the timer owes is pending         *)
(* and the counter is the time since its clear, in both builds.             *)
THEOREM Invariance == Spec => []TypeOK
<1>1. Init => TypeOK
  BY InitInv DEF Inv
<1>2. TypeOK /\ [Next]_vars => TypeOK'
  BY StepTypeOK
<1>3. QED
  BY <1>1, <1>2, PTL DEF Spec

(* The cycle counter (tb_cycle_counter): a read that is not fatal returns   *)
(* the cycles since the last clear, for every width of the counter.         *)
THEOREM CounterExact == Spec => []TicksOrOverflow
<1>1. TypeOK => TicksOrOverflow
  BY DEF TypeOK, TicksInv
<1>2. QED
  BY <1>1, Invariance, PTL

(* The debug line (tb_debugger) ends up as the last accepted request asked, *)
(* for every set of requests none of whose widths the build misplaces: all  *)
(* of them in the simulation build.                                         *)
THEOREM LineAsAsked ==
  ASSUME NoneAstray
  PROVE  Spec => []DebugLineAsAsked
<1>1. Init => DebugProgress
  BY InitInv DEF Inv
<1>2. TypeOK /\ DebugProgress /\ [Next]_vars => DebugProgress'
  BY StepProgress
<1>3. DebugProgress => DebugLineAsAsked
  BY DEF DebugProgress
<1>4. QED
  BY <1>1, <1>2, <1>3, Invariance, PTL DEF Spec

(* Without VERILATOR no width goes astray, so that the theorem above is     *)
(* about every request.                                                     *)
LEMMA SimulationBuild == ~Verilator => NoneAstray
  BY DEF NoneAstray, WidthGoesAstray

(* An interrupt of the timer (tb_irq_timer) that firmware keeps enabled     *)
(* stays pending until the core acknowledges it, whatever is written to the *)
(* timer and its mask meanwhile, and whenever it expires again.             *)
THEOREM HeldUntilTaken == Spec => []PendingUntilTaken
<1>1. TypeOK => PendingUntilTaken
  BY DEF TypeOK, TimerInv
<1>2. QED
  BY <1>1, Invariance, PTL
=============================================================================
