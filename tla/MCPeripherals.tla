--------------------------- MODULE MCPeripherals ---------------------------
(* Instances of Peripherals for TLC. *)
EXTENDS Peripherals

Level == [NoDebug EXCEPT !.value = TRUE, !.delay = 2]
Pulse == [NoDebug EXCEPT !.value = TRUE, !.pulse = TRUE, !.width = 2]
RandomPulse == [NoDebug EXCEPT !.value = TRUE, !.pulse = TRUE, !.randomWidth = TRUE,
                               !.randomStart = TRUE, !.delay = 2]
LowPulse == [NoDebug EXCEPT !.pulse = TRUE, !.delay = 1]
Requests == {Level, Pulse, RandomPulse, LowPulse}

(* A range whose bound is not given goes to 128 in the code; 3 here. *)
UpTo(n) == 1 .. (IF n = 0 THEN 3 ELSE n)

Modes == {[mode |-> "OFF", min |-> 0, max |-> 0],
          [mode |-> "RANDOM", min |-> 0, max |-> 1],
          [mode |-> "PC_TRIG", min |-> 0, max |-> 0]}
TimerMasks == {{}, {"i0"}, {"i0", "i1"}}
=============================================================================
