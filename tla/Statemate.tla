----------------------------- MODULE Statemate -----------------------------
(***************************************************************************)
(* model/bench/embench/libstatemate.c: the window lift of a car door, five *)
(* state charts that FH_DU() runs pass after pass until a pass is stable.  *)
(* s holds the globals.  A transition of a chart is the first of a list    *)
(* whose condition holds; it assigns and makes the pass unstable.  The     *)
(* FH_DU__ and FH_TUERMODUL__ names of one signal are kept equal by the    *)
(* copies around every chart and are one field here.                       *)
(***************************************************************************)
EXTENDS Integers, Sequences
LOCAL INSTANCE TLC
LOCAL Eager == INSTANCE Words

CONSTANTS
  FirstIsSource,     \* SYS_bit_cpy copies its first bit to its second one
  Inputs,            \* values the signals from outside may have
  MidCall            \* the signals may change between two passes

VARIABLES s, running

vars == <<s, running>>

-----------------------------------------------------------------------------
Fire(st, transitions) ==
  LET on == {i \in DOMAIN transitions : transitions[i].when}
  IN  IF on = {} THEN st
      ELSE transitions[CHOOSE i \in on : \A j \in on : i <= j].do @@ [stable |-> FALSE] @@ st

On(condition, assignments) == [when |-> condition, do |-> assignments]
Off(st, fields) == [f \in fields |-> FALSE] @@ st

SYS_bit_cpy(st, first, second) ==
  IF FirstIsSource THEN [st EXCEPT ![second] = st[first]] ELSE [st EXCEPT ![first] = st[second]]

Rises(st, f, old) == st[f] /\ ~st[old]
Falls(st, f, old) == ~st[f] /\ st[old]

-----------------------------------------------------------------------------
(* KINDERSICHERUNG_CTRL, the child lock: which buttons count.               *)
Buttons(st, sub, A, A_old, Z, Z_old) ==
  IF ~(st[A] \/ st[Z])
  THEN Fire(st, <<On(TRUE, (sub :> 0) @@ [SFHZ_copy |-> FALSE, SFHA_copy |-> FALSE, KINDER |-> 3])>>)
  ELSE IF st[sub] = 1
  THEN Fire(st, <<On(Rises(st, A, A_old), [SFHA_copy |-> TRUE]),
                  On(Rises(st, Z, Z_old), [SFHZ_copy |-> TRUE]),
                  On(Falls(st, A, A_old), [SFHA_copy |-> FALSE]),
                  On(Falls(st, Z, Z_old), [SFHZ_copy |-> FALSE])>>)
  ELSE [st EXCEPT !.stable = FALSE]

Waiting(st) ==
  LET unlocked == ~st.KL_50
  IN  Fire(st, <<
        On(unlocked /\ st.Z_MEC /\ st.A_MEC, [SFHZ_copy |-> TRUE, SFHA_copy |-> TRUE, KINDER |-> 2]),
        On(unlocked /\ st.Z_MEC, [SFHZ_copy |-> TRUE, KINDER |-> 2]),
        On(unlocked /\ st.A_MEC, [SFHA_copy |-> TRUE, KINDER |-> 2]),
        On(unlocked /\ ~st.Z_ZENTRAL /\ st.A_ZENTRAL, [SFHA_copy |-> TRUE, KINDER |-> 1]),
        On(st.Z_ZENTRAL /\ st.A_ZENTRAL, [SFHZ_copy |-> TRUE, SFHA_copy |-> TRUE, KINDER |-> 1]),
        On(unlocked /\ st.Z_ZENTRAL, [SFHZ_copy |-> TRUE, KINDER |-> 1])>>)

generic_KINDERSICHERUNG_CTRL(st) ==
  CASE ~st.activeK -> st
    [] st.activeK /\ st.KINDER = 1 ->
         Buttons(st, "ZENTRAL", "A_ZENTRAL", "A_ZENTRAL_old", "Z_ZENTRAL", "Z_ZENTRAL_old")
    [] st.activeK /\ st.KINDER = 2 -> Buttons(st, "MEC", "A_MEC", "A_MEC_old", "Z_MEC", "Z_MEC_old")
    [] st.activeK /\ st.KINDER = 3 -> Waiting(st)
    [] OTHER -> [st EXCEPT !.stable = FALSE, !.KINDER = 3]

-----------------------------------------------------------------------------
(* FH_TUERMODUL_CTRL: part B drives the motor (MFHA opens, MFHZ closes),    *)
(* part A counts how often.  Its states are nested up to four deep.         *)
NICHT_INITIALISIERT(st) ==
  CASE st.NICHT = 1 -> Fire(st, <<On(~st.SFHZ, [MFHZ_copy |-> FALSE, NICHT |-> 3])>>)
    [] st.NICHT = 2 -> Fire(st, <<On(~st.SFHA, [MFHA_copy |-> FALSE, NICHT |-> 3])>>)
    [] st.NICHT = 3 -> Fire(st, <<On(st.SFHA, [MFHA_copy |-> TRUE, NICHT |-> 2]),
                                  On(st.SFHZ, [MFHZ_copy |-> TRUE, NICHT |-> 1])>>)
    [] OTHER -> Fire(st, <<On(TRUE, [NICHT |-> 3])>>)

OEFFNEN(st) ==
  CASE st.OEFFNEN = 1 ->
         Fire(st, <<On(Rises(st, "SFHZ", "SFHZ_old") \/ Rises(st, "SFHA", "SFHA_old"),
                       [MFHA_copy |-> FALSE, INIT |-> 3, OEFFNEN |-> 0])>>)
    [] st.OEFFNEN = 2 ->
         Fire(st, <<On(Rises(st, "SFHZ", "SFHZ_old"), [OEFFNEN |-> 1]),
                    On(Falls(st, "SFHA", "SFHA_old"), [MFHA_copy |-> FALSE, INIT |-> 3, OEFFNEN |-> 0])>>)
    [] OTHER -> Fire(st, <<On(TRUE, [OEFFNEN |-> 2])>>)

(* The two ways to close, by a tip (sub TIPP) and by hand (MANUELL): while  *)
(* something is caught the window reverses until END_REVERS.                *)
Reversing(st, sub, inRevers) ==
  Fire([st EXCEPT !.END_REVERS_copy = FALSE],
       <<On(st.END_REVERS, (sub :> 2) @@ (inRevers :> FALSE)
                             @@ [MFHZ_copy |-> TRUE, MFHA_copy |-> FALSE, activeE_copy |-> TRUE])>>)
Caught(st, sub, inRevers, sc) ==
  On(st.EINKLEMMUNG, (sub :> 1) @@ (inRevers :> TRUE) @@ (sc :> st.time)
       @@ [END_REVERS_copy |-> TRUE, activeE_copy |-> FALSE, MFHZ_copy |-> FALSE, MFHA_copy |-> TRUE])

TIPP_SCHLIESSEN(st) ==
  IF Rises(st, "SFHA", "SFHA_old") \/ Rises(st, "SFHZ", "SFHZ_old")
  THEN Fire(st, <<On(TRUE, [MFHZ_copy |-> FALSE, INIT |-> 3])>>)
  ELSE CASE st.TIPP = 1 -> Reversing(st, "TIPP", "INREVERS2")
         [] st.TIPP = 2 -> Fire(st, <<Caught(st, "TIPP", "INREVERS2", "sc_1781")>>)
         [] OTHER -> Fire(st, <<On(TRUE, [TIPP |-> 2, activeE_copy |-> TRUE])>>)

Closing == [MANUELL |-> 2, activeE_copy |-> TRUE, MFHZ_copy |-> TRUE]

MANUELL_SCHLIESSEN(st) ==
  IF Falls(st, "SFHZ", "SFHZ_old")
  THEN Fire(st, <<On(TRUE, [MFHZ_copy |-> FALSE, INIT |-> 3])>>)
  ELSE CASE st.MANUELL = 1 -> Reversing(st, "MANUELL", "INREVERS1")
         [] st.MANUELL = 2 ->
              Fire(st, <<Caught(st, "MANUELL", "INREVERS1", "sc_1739"),
                         On(Rises(st, "SFHA", "SFHA_old"), [SCHLIESSEN |-> 1, MANUELL |-> 0])>>)
         [] OTHER -> Fire(st, <<On(TRUE, Closing)>>)

SCHLIESSEN(st) ==
  CASE st.SCHLIESSEN = 1 -> TIPP_SCHLIESSEN(st)
    [] st.SCHLIESSEN = 2 -> MANUELL_SCHLIESSEN(st)
    [] OTHER -> Fire(st, <<On(TRUE, [SCHLIESSEN |-> 2] @@ Closing)>>)

INITIALISIERT(st) ==
  CASE st.INIT = 1 -> IF st.POSITION >= 405 THEN Fire(st, <<On(TRUE, [MFHA_copy |-> FALSE, INIT |-> 3])>>)
                      ELSE OEFFNEN(st)
    [] st.INIT = 2 -> IF st.POSITION <= 0 THEN Fire(st, <<On(TRUE, [MFHZ_copy |-> FALSE, INIT |-> 3])>>)
                      ELSE SCHLIESSEN(st)
    [] st.INIT = 3 ->
         Fire(st, <<On(Rises(st, "SFHZ", "SFHZ_old") /\ st.POSITION > 0,
                       [INIT |-> 2, SCHLIESSEN |-> 2] @@ Closing),
                    On(Rises(st, "SFHA", "SFHA_old") /\ st.POSITION < 405,
                       [MFHA_copy |-> TRUE, INIT |-> 1, OEFFNEN |-> 2])>>)
    [] OTHER -> Fire(st, <<On(TRUE, [INIT |-> 3])>>)

(* A blocked motor is stopped and stands still in the other state of B.     *)
Blocked(st) == Rises(st, "BLOCK", "BLOCK_old")
ChartB(st) ==
  LET tooOften == st.N > 60 /\ ~(st.N_old > 60) /\ ~(st.INREVERS1_copy \/ st.INREVERS2_copy)
      opened == [MFHA_copy |-> FALSE, sc_2375 |-> st.time, B |-> 2, NICHT |-> 3]
      closed == [MFHZ_copy |-> FALSE, sc_2352 |-> st.time, B |-> 2, NICHT |-> 3]
  IN  CASE st.B = 1 -> Fire(st, <<On(st.N = 59 /\ st.N_old # 59, [B |-> 3, INIT |-> 3])>>)
        [] st.B = 2 -> IF Blocked(st) /\ st.MFHZ
                       THEN Fire(st, <<On(TRUE, [MFHZ_copy |-> FALSE, sc_2329 |-> st.time,
                                                 B |-> 3, INIT |-> 3])>>)
                       ELSE NICHT_INITIALISIERT(st)
        [] st.B = 3 -> IF tooOften \/ (Blocked(st) /\ (st.MFHA \/ st.MFHZ))
                       THEN Fire(st, <<On(tooOften, [MFHZ_copy |-> FALSE, MFHA_copy |-> FALSE, B |-> 1]),
                                       On(st.MFHA, opened), On(st.MFHZ, closed)>>)
                       ELSE INITIALISIERT(st)
        [] OTHER -> Fire(st, <<On(TRUE, [B |-> 2])>>)

ChartA(st) ==
  LET moving == st.MFHZ \/ st.MFHA
      again == /\ st.step = 1 /\ st.tm_entered_exited # 0 /\ st.time - st.tm_entered_exited = 1
               /\ moving
      rested == /\ st.step = 1 /\ st.tm_entered # 0 /\ st.time - st.tm_entered = 3
                /\ ~moving /\ st.N > 0
      left == [st EXCEPT !.enteredW_copy = FALSE]
      enter == [enteredW_copy |-> TRUE, WHSP |-> 1]
  IN  IF st.A # 1 THEN Fire(st, <<On(TRUE, [N |-> 0, A |-> 1] @@ enter)>>)
      ELSE IF again THEN Fire(left, <<On(TRUE, [N |-> st.N + 1] @@ enter)>>)
      ELSE IF st.WHSP = 1 THEN Fire(left, <<On(rested, [N |-> st.N - 1])>>)
      ELSE Fire(left, <<On(TRUE, enter)>>)

Enter(st) ==
  LET k == IF st.activeK THEN st ELSE [st EXCEPT !.KINDER = 3]
  IN  IF k.activeB THEN k ELSE [k EXCEPT !.enteredE = FALSE, !.BLOCK_ERK = 1]

generic_FH_TUERMODUL_CTRL(st) ==
  LET left == IF ~st.activeT /\ st.activeT_old /\ ~st.activeT_copy
              THEN Off(st, {"enteredW", "exited"}) ELSE st
      run == ChartA(ChartB([Enter(left) EXCEPT !.activeK_copy = TRUE, !.activeB_copy = TRUE]))
  IN  IF ~st.activeT THEN left
      ELSE SYS_bit_cpy(SYS_bit_cpy(run, "enteredW_copy", "enteredW"), "exited_copy", "exited")

-----------------------------------------------------------------------------
(* EINKLEMMSCHUTZ_CTRL, what is caught, and BLOCK_ERKENNUNG_CTRL, a motor   *)
(* whose current tells that it is blocked.  A time that is a whole number   *)
(* is never 0.002 after another, so BLOCK_N stays what it was.              *)
generic_EINKLEMMSCHUTZ_CTRL(st) ==
  CASE ~st.activeE -> st
    [] st.activeE /\ st.EKS = 1 ->
         Fire(st, <<On(Rises(st, "LEISTE", "LEISTE_old") /\ ~(st.SFHZ /\ st.SFHA),
                       [EINKLEMMUNG |-> TRUE, EKS |-> 2])>>)
    [] st.activeE /\ st.EKS = 2 ->
         Fire([st EXCEPT !.EINKLEMMUNG = FALSE], <<On(Falls(st, "LEISTE", "LEISTE_old"), [EKS |-> 1])>>)
    [] OTHER -> Fire(st, <<On(TRUE, [EKS |-> 1])>>)

Measuring == [BLOCK_N |-> 0, I_EIN_MAX |-> 2, BEWEGUNG |-> 3, enteredE |-> TRUE]

BEWEGUNG(st) ==
  CASE st.BEWEGUNG = 1 -> st
    [] st.BEWEGUNG = 2 -> Fire(st, <<On(st.I_EIN > st.I_EIN_MAX - 2, [BLOCK_copy |-> TRUE, BEWEGUNG |-> 1])>>)
    [] st.BEWEGUNG = 3 -> Fire([st EXCEPT !.enteredE = FALSE],
                               <<On(st.BLOCK_N = 11 /\ st.BLOCK_N_old # 11, [BEWEGUNG |-> 2])>>)
    [] OTHER -> Fire(st, <<On(TRUE, Measuring)>>)

generic_BLOCK_ERKENNUNG_CTRL(st) ==
  LET stopped == Falls(st, "MFHA", "MFHA_old") \/ Falls(st, "MFHZ", "MFHZ_old")
  IN  CASE ~st.activeB -> IF st.activeB_old /\ ~st.activeB_copy THEN Off(st, {"enteredE"}) ELSE st
        [] st.activeB /\ st.BLOCK_ERK = 1 ->
             Fire(st, <<On(st.I_EIN # st.I_EIN_old /\ st.I_EIN > 0,
                           [BLOCK_copy |-> FALSE, BLOCK_ERK |-> 2] @@ Measuring)>>)
        [] st.activeB /\ st.BLOCK_ERK = 2 ->
             IF stopped THEN Fire(st, <<On(TRUE, [BLOCK_ERK |-> 1, BEWEGUNG |-> 0])>>)
             ELSE BEWEGUNG(st)
        [] OTHER -> Fire(st, <<On(TRUE, [BLOCK_ERK |-> 1])>>)

-----------------------------------------------------------------------------
(* FH_STEUERUNG_DUMMY: the motor's voltage from what FH_DU__MFHZ and        *)
(* FH_DU__MFHA say; their copies are never written, so every pass ends with *)
(* both cleared, and with the voltage cleared.                              *)
Dummy(st) ==
  CASE st.DUMMY = 1 -> Fire(st, <<On(Falls(st, "DU_MFHZ", "DU_MFHZ_old"), [MFH |-> 0, DUMMY |-> 2])>>)
    [] st.DUMMY = 2 -> Fire(st, <<On(Rises(st, "DU_MFHZ", "DU_MFHZ_old"), [MFH |-> -100, DUMMY |-> 1]),
                                  On(Rises(st, "DU_MFHA", "DU_MFHA_old"), [MFH |-> 100, DUMMY |-> 3])>>)
    [] st.DUMMY = 3 -> Fire(st, <<On(Falls(st, "DU_MFHA", "DU_MFHA_old"), [MFH |-> 0, DUMMY |-> 2])>>)
    [] OTHER -> Fire(st, <<On(TRUE, [MFH |-> 0, DUMMY |-> 2])>>)

(* The charts that are not active are put in their first states; then all   *)
(* are declared active, in the copies.                                      *)
Activate(st) ==
  LET e == IF st.activeE THEN Enter(st) ELSE [Enter(st) EXCEPT !.EKS = 1]
      t == IF st.activeT THEN e
           ELSE [e EXCEPT !.enteredW = FALSE, !.exited = FALSE, !.B = 2, !.N = 0, !.A = 1,
                          !.enteredW_copy = TRUE, !.WHSP = 1]
  IN  [activeK_copy |-> TRUE, activeE_copy |-> TRUE, activeB_copy |-> TRUE, activeT_copy |-> TRUE] @@ t

(* Buttons from the bus count in the other doors, from the door in this one.*)
Reactions(st) ==
  [st EXCEPT !.Z_ZENTRAL = IF st.ZUCAN # st.ZUCAN_old /\ ~st.DOOR_ID THEN st.ZUCAN ELSE @,
             !.ZUCAN = IF st.ZUDISC # st.ZUDISC_old /\ st.DOOR_ID THEN st.ZUDISC ELSE @,
             !.A_ZENTRAL = IF st.AUFCAN # st.AUFCAN_old /\ ~st.DOOR_ID THEN st.AUFCAN ELSE @,
             !.AUFCAN = IF st.AUFDISC # st.AUFDISC_old /\ st.DOOR_ID THEN st.AUFDISC ELSE @]

Charts == {"K", "T", "E", "B"}
ActiveOf == [K |-> "activeK", T |-> "activeT", E |-> "activeE", B |-> "activeB"]
CopyOf == [K |-> "activeK_copy", T |-> "activeT_copy", E |-> "activeE_copy", B |-> "activeB_copy"]
OldOf == [K |-> "activeK_old", T |-> "activeT_old", E |-> "activeE_old", B |-> "activeB_old"]

CopyAll(st, firsts, seconds) ==
  LET values == [c \in Charts |-> IF FirstIsSource THEN st[firsts[c]] ELSE st[seconds[c]]]
      to == IF FirstIsSource THEN seconds ELSE firsts
  IN  [f \in {to[c] : c \in Charts} |-> values[CHOOSE c \in Charts : to[c] = f]] @@ st

(* The end of a pass: what was prepared becomes current, and at once old.   *)
Settle(st) ==
  [BLOCK |-> st.BLOCK_copy, BLOCK_old |-> st.BLOCK_copy,
   SFHZ |-> st.SFHZ_copy, SFHZ_old |-> st.SFHZ_copy, SFHA |-> st.SFHA_copy, SFHA_old |-> st.SFHA_copy,
   MFHZ |-> st.MFHZ_copy, MFHZ_old |-> st.MFHZ_copy, MFHA |-> st.MFHA_copy, MFHA_old |-> st.MFHA_copy,
   DU_MFHZ |-> FALSE, DU_MFHZ_old |-> FALSE, DU_MFHA |-> FALSE, DU_MFHA_old |-> FALSE, MFH |-> 0,
   N_old |-> st.N, BLOCK_N_old |-> st.BLOCK_N, I_EIN_old |-> st.I_EIN, LEISTE_old |-> st.LEISTE,
   A_MEC_old |-> st.A_MEC, Z_MEC_old |-> st.Z_MEC,
   A_ZENTRAL_old |-> st.A_ZENTRAL, Z_ZENTRAL_old |-> st.Z_ZENTRAL,
   ZUCAN_old |-> st.ZUCAN, ZUDISC_old |-> st.ZUDISC,
   AUFCAN_old |-> st.AUFCAN, AUFDISC_old |-> st.AUFDISC] @@ st

(* Mutant: no pass begins as a stable one. *)
BegunUnstable(st) == [st EXCEPT !.step = (@ + 1) % 256]
Begun(st) == [st EXCEPT !.stable = TRUE, !.step = (@ + 1) % 256]
ToOld(st) == CopyAll(st, ActiveOf, OldOf)
FromCopies(st) == CopyAll(st, CopyOf, ActiveOf)

PassOf(st) ==
  LET prepared == Eager!With(ToOld, Eager!With(Reactions, Eager!With(Activate, Eager!With(Dummy, Eager!With(Begun, st)))))
      motor == Eager!With(generic_FH_TUERMODUL_CTRL, Eager!With(generic_KINDERSICHERUNG_CTRL, prepared))
      reported == Eager!With(generic_BLOCK_ERKENNUNG_CTRL, Eager!With(generic_EINKLEMMSCHUTZ_CTRL, motor))
  IN  Eager!With(Settle, Eager!With(FromCopies, reported))

-----------------------------------------------------------------------------
Bits == {ActiveOf[c] : c \in Charts} \cup {CopyOf[c] : c \in Charts} \cup {OldOf[c] : c \in Charts}
          \cup {"enteredE", "enteredW", "enteredW_copy", "exited", "exited_copy",
                "END_REVERS", "END_REVERS_copy", "EINKLEMMUNG"}
States == {"NICHT", "ZENTRAL", "MEC", "KINDER", "B", "A", "WHSP", "INIT", "TIPP", "MANUELL",
           "OEFFNEN", "SCHLIESSEN", "DUMMY", "EKS", "BEWEGUNG", "BLOCK_ERK"}
Times == {"tm_entered", "tm_entered_exited", "tm_enteredE"}
Signals == {"SFHZ", "SFHZ_copy", "SFHZ_old", "SFHA", "SFHA_copy", "SFHA_old", "MFHZ", "MFHZ_copy",
            "MFHZ_old", "MFHA", "MFHA_copy", "MFHA_old", "BLOCK", "BLOCK_copy", "BLOCK_old",
            "INREVERS1", "INREVERS1_copy", "INREVERS2", "INREVERS2_copy",
            "DU_MFHZ", "DU_MFHZ_old", "DU_MFHA", "DU_MFHA_old"}
Outside == {"A_MEC", "Z_MEC", "A_ZENTRAL", "Z_ZENTRAL", "ZUCAN", "ZUDISC", "AUFCAN", "AUFDISC",
            "DOOR_ID", "KL_50", "LEISTE"}
Remembered == {"A_MEC_old", "Z_MEC_old", "A_ZENTRAL_old", "Z_ZENTRAL_old", "ZUCAN_old",
               "ZUDISC_old", "AUFCAN_old", "AUFDISC_old", "LEISTE_old"}
Numbers == {"N", "N_old", "BLOCK_N", "BLOCK_N_old", "I_EIN", "I_EIN_old", "I_EIN_MAX", "POSITION",
            "MFH", "time", "step", "sc_2375", "sc_2352", "sc_2329", "sc_1781", "sc_1739"}

Globals ==
  [f \in Bits \cup Signals \cup Outside \cup Remembered \cup {"stable"} |-> FALSE]
    @@ [f \in States \cup Times \cup Numbers |-> 0]

(* memset() of the bits, init(), interface() and the head of FH_DU(): the   *)
(* bits are clear, so interface() only lets the marks of an earlier call    *)
(* run out, and takes the time when BLOCK_N has changed.                    *)
Elapsed(st, sc) == st[sc] # 0 /\ st.time - st[sc] >= 1
Called(st) ==
  LET init == [f \in Bits |-> FALSE] @@ [f \in States \cup Times |-> 0] @@ st
      ran == [sc \in {x \in {"sc_2375", "sc_2352", "sc_2329", "sc_1781", "sc_1739"} : Elapsed(st, x)} |-> 0]
      mfha == IF Elapsed(st, "sc_2375") THEN FALSE ELSE st.MFHA_copy
      mfhz == IF Elapsed(st, "sc_2352") \/ Elapsed(st, "sc_2329") THEN FALSE ELSE st.MFHZ_copy
      tm == IF st.BLOCK_N # st.BLOCK_N_old THEN st.time ELSE 0
  IN  ran @@ [MFHA_copy |-> mfha, MFHZ_copy |-> mfhz, tm_enteredE |-> tm,
              time |-> 1, stable |-> FALSE, step |-> 0] @@ init

Init == s = Globals /\ running = FALSE

Input ==
  /\ ~running \/ MidCall
  /\ \E in \in Inputs : s' = in @@ s
  /\ UNCHANGED running

Call == ~running /\ s' = Called(s) /\ running' = TRUE

Pass ==
  /\ running
  /\ s' = PassOf(s)
  /\ running' = ~s'.stable

Next == Input \/ Call \/ Pass

Spec == Init /\ [][Next]_vars /\ WF_vars(Pass)

-----------------------------------------------------------------------------
(* A call always comes to a stable pass (the loop of FH_DU).                *)
CallsEnd == running ~> ~running

(* What verify_benchmark() compares, after a call.                          *)
Expected ==
  [f \in Bits |-> f = "enteredW_copy"] @@ [f \in Times |-> 0]
    @@ [KINDER |-> 3, B |-> 2, A |-> 1, WHSP |-> 1, DUMMY |-> 2, EKS |-> 1, BLOCK_ERK |-> 1]
    @@ [f \in States |-> 0]
=============================================================================
