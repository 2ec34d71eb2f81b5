------------------------------- MODULE Flow --------------------------------
(***************************************************************************)
(* The end-to-end acceleration flow (pariscv_flow.py): detect, rewrite,    *)
(* build a baseline and an accelerated firmware (tools/firmware_builder.py)*)
(* simulate both (tools/verilator_runner.py) and compare.  Several flows   *)
(* run, at once or after another, on files they may share: the rewritten   *)
(* source and the images are named after the source file, which may be     *)
(* edited from one flow to the next, and the log is one file of the        *)
(* simulation directory, by default the same directory for every flow.  A  *)
(* flow may be interrupted and leave its files behind.                     *)
(*                                                                         *)
(* What the stages compute of a source is in Rewriter (Findings, Programs, *)
(* Results) and comes in as constants; here a file holds the name of the   *)
(* flow, and the tag of the build, that its contents come from.            *)
(***************************************************************************)
EXTENDS Sequences, FiniteSetsExt

CONSTANTS
  Runs,      \* The flows that run.
  Stem,      \* Each one's source file name,
  SimDir,    \*   and its simulation directory.
  Detected,  \* What the detector finds in each one's source,
  Program,   \*   what each flow and tag compiles to,
  Result     \*   and what that prints as its result.

VARIABLES
  stage,     \* Where each flow is.
  accelFile, \* The rewritten source files, by stem: whose they are.
  image,     \* The firmware images, by stem and tag: <<whose, tag>>.
  log,       \* Each simulation directory's log: no file, <<>>, or what it
             \*   holds, <<lines>>.
  running,   \* The program each flow's simulator has loaded.
  got,       \* The results each flow has read back, by tag.
  crossed    \* History: the flows that were active together with another one
             \*   of the same source file or simulation directory.

flowVars == <<stage, accelFile, image, log, running, got, crossed>>

Zero == << >>  \* The result 0 of a simulation without a result line.

Tags == {"baseline", "accel"}

Nothing == [cycles |-> FALSE, result |-> Zero, success |-> FALSE]
Ended == {"no idiom", "failed", "done"}

Image(r, tag) == <<Stem[r], tag>>
Log(r) == SimDir[r]

(* The stages that come twice, once for each tag.                           *)
Building == [baseline |-> "build baseline", accel |-> "build accel"]
Starting == [baseline |-> "start baseline", accel |-> "start accel"]
Simulating == [baseline |-> "simulate baseline", accel |-> "simulate accel"]
Reading == [baseline |-> "read baseline", accel |-> "read accel"]

(* A flow uses the files between the detection and its end.                 *)
Active(r) == stage[r] \notin {"detect"} \cup Ended
Shares(r, q) == Stem[r] = Stem[q] \/ SimDir[r] = SimDir[q]
Meets(r) == Active(r) /\ \E q \in Runs : q # r /\ Active(q) /\ Shares(r, q)

At(r, where, next) ==
  /\ stage[r] = where
  /\ stage' = [stage EXCEPT ![r] = next]
  /\ crossed' = [q \in Runs |-> crossed[q] \/ Meets(q)']

Detect(r) ==
  /\ At(r, "detect", IF Detected[r] = << >> THEN "no idiom" ELSE "rewrite")
  /\ UNCHANGED <<accelFile, image, log, running, got>>

Rewrite(r) ==
  /\ At(r, "rewrite", "build baseline")
  /\ accelFile' = [accelFile EXCEPT ![Stem[r]] = r]
  /\ UNCHANGED <<image, log, running, got>>

(* A program that lost a function does not build, which ends the flow.      *)
Builds(p) == {"init()", "run()"} \subseteq {Program[p][i] : i \in DOMAIN Program[p]}

Build(r, p, next) ==
  /\ At(r, Building[p[2]], IF Builds(p) THEN next ELSE "failed")
  /\ image' = IF Builds(p) THEN [image EXCEPT ![Image(r, p[2])] = p] ELSE image
  /\ UNCHANGED <<accelFile, log, running, got>>

BuildBaseline(r) == Build(r, <<r, "baseline">>, "build accel")
BuildAccel(r) == Build(r, <<accelFile[Stem[r]], "accel">>, "start baseline")

-----------------------------------------------------------------------------
(* A simulation: the shell opens the log, which empties it, the simulator   *)
(* loads the image and writes at its end, and the flow reads and removes    *)
(* the log.                                                                 *)

(* Mutant: the log is opened for appending. *)
StartAppends(r, tag) ==
  /\ At(r, Starting[tag], Simulating[tag])
  /\ log' = [log EXCEPT ![Log(r)] = IF @ = <<>> THEN << <<>> >> ELSE @]
  /\ running' = [running EXCEPT ![r] = image[Image(r, tag)]]
  /\ UNCHANGED <<accelFile, image, got>>
Start(r, tag) ==
  /\ At(r, Starting[tag], Simulating[tag])
  /\ log' = [log EXCEPT ![Log(r)] = << <<>> >>]
  /\ running' = [running EXCEPT ![r] = image[Image(r, tag)]]
  /\ UNCHANGED <<accelFile, image, got>>

(* The program prints its result and exits, or prints it and exits with an  *)
(* error, or crashes before it prints.                                      *)
Printed(r) ==
  {[cycles |-> TRUE, result |-> Result[running[r]], success |-> TRUE],
   [cycles |-> TRUE, result |-> Result[running[r]], success |-> FALSE],
   Nothing}

(* What is written to a log that another flow has removed is lost.          *)
Simulate(r, tag) ==
  /\ At(r, Simulating[tag], Reading[tag])
  /\ \E p \in Printed(r) :
       log' = [log EXCEPT ![Log(r)] = IF @ = <<>> THEN @ ELSE <<Append(@[1], p)>>]
  /\ UNCHANGED <<accelFile, image, running, got>>

(* The program hangs: the timeout removes the log and ends the flow.        *)
(* Mutant: nothing ends it. *)
HangsOn(r, tag) == FALSE /\ UNCHANGED flowVars
TimeOut(r, tag) ==
  /\ At(r, Simulating[tag], "failed")
  /\ log' = [log EXCEPT ![Log(r)] = <<>>]
  /\ UNCHANGED <<accelFile, image, running, got>>

(* The first result line of the log counts, and a success line anywhere.    *)
(* Without a result line the result is zero.                                *)
Parsed(raw) ==
  LET lines == {i \in DOMAIN raw : raw[i].cycles}
  IN  IF lines = {} THEN Nothing
      ELSE [raw[Min(lines)] EXCEPT !.success = \E i \in DOMAIN raw : raw[i].success]

Read(r, tag, next) ==
  /\ At(r, Reading[tag], next)
  /\ got' = [got EXCEPT ![r][tag] =
               IF log[Log(r)] = <<>> THEN Nothing ELSE Parsed(log[Log(r)][1])]
  /\ log' = [log EXCEPT ![Log(r)] = <<>>]
  /\ UNCHANGED <<accelFile, image, running>>

(* The report says SUCCESS (100% Bit-Exact) when the results are equal.     *)
checksum_ok(r) == got[r]["baseline"].result = got[r]["accel"].result
base_ok(r) == got[r]["baseline"].success
accel_ok(r) == got[r]["accel"].success
BothPrinted(r) == \A tag \in Tags : got[r][tag].cycles

Report(r) ==
  /\ At(r, "report", "done")
  /\ UNCHANGED <<accelFile, image, log, running, got>>

(* The flow is interrupted, which removes nothing.                          *)
Interrupt(r) ==
  /\ Active(r) /\ At(r, stage[r], "failed")
  /\ UNCHANGED <<accelFile, image, log, running, got>>

-----------------------------------------------------------------------------
FlowInit ==
  /\ stage = [r \in Runs |-> "detect"]
  /\ accelFile = [s \in {Stem[r] : r \in Runs} |-> "nobody"]
  /\ image = [i \in {Stem[r] : r \in Runs} \X Tags |-> <<"nobody", "none">>]
  /\ log = [dir \in {SimDir[r] : r \in Runs} |-> <<>>]
  /\ running = [r \in Runs |-> <<"nobody", "none">>]
  /\ got = [r \in Runs |-> [tag \in Tags |-> Nothing]]
  /\ crossed = [r \in Runs |-> FALSE]

Simulation(r) ==
  \E tag \in Tags : Start(r, tag) \/ Simulate(r, tag) \/ TimeOut(r, tag)

Step(r) ==
  \/ Detect(r) \/ Rewrite(r) \/ BuildBaseline(r) \/ BuildAccel(r) \/ Simulation(r)
  \/ Read(r, "baseline", "start accel") \/ Read(r, "accel", "report") \/ Report(r)
  \/ Interrupt(r)

(* A simulation may hang for as long as the timeout lets it: only the       *)
(* timeout, which the operating system keeps, is sure to end it.            *)
Progress(r) ==
  \/ Detect(r) \/ Rewrite(r) \/ BuildBaseline(r) \/ BuildAccel(r)
  \/ \E tag \in Tags : Start(r, tag) \/ TimeOut(r, tag)
  \/ Read(r, "baseline", "start accel") \/ Read(r, "accel", "report") \/ Report(r)

FlowNext == \E r \in Runs : Step(r)
FlowSpec == FlowInit /\ [][FlowNext]_flowVars
FlowFairSpec == FlowSpec /\ \A r \in Runs : WF_flowVars(Progress(r))

-----------------------------------------------------------------------------
(* A flow that reports equal results without having met another one on its  *)
(* files has run its own two programs, whatever earlier flows left behind,  *)
(* and they compute the same; or a simulation printed no result, and the    *)
(* report tells that not both were a success.                               *)
VerdictIsBacked ==
  \A r \in Runs :
    stage[r] = "done" /\ ~crossed[r] /\ checksum_ok(r) =>
      \/ /\ got[r]["baseline"].result = Result[<<r, "baseline">>]
         /\ Result[<<r, "baseline">>] = Result[<<r, "accel">>]
      \/ ~BothPrinted(r) /\ ~(base_ok(r) /\ accel_ok(r))
=============================================================================
