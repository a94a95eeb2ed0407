------------------------------ MODULE FlowControl ------------------------------
(***************************************************************************)
(* The flow task and those it shares the device with.  The flow task reads *)
(* the configuration into a pipeline of stages and runs a round of it for  *)
(* each slot of a cadence.  The web server's task re-initialises the flow, *)
(* runs its alignment alone and asks for self-tests and reboots, which run *)
(* in tasks of their own.  Processing is a flag nobody waits for, the      *)
(* camera a mutex that is waited for at most a second, the client a lock   *)
(* inside the MQTT client that is waited for as long as it takes.          *)
(*                                                                         *)
(* Time is kept relative to the slot of the current round.                 *)
(***************************************************************************)
EXTENDS Integers

CONSTANTS Period,      \* AutoInterval, in ticks
          LateLimit,   \* bound: how far behind its slot a round gets
          CopyLimit    \* bound: how many times a configuration is read

\* What the constants must be; assumed where they have values.
FlowAssumption ==
  /\ Period \in Nat \ {0} /\ LateLimit \in Nat
  /\ CopyLimit \in Nat \ {0}

VARIABLES
  pc,          \* pc[t]: progress of task t
  processing,  \* who holds the ProcessingAccess flag
  camera,      \* who holds the CameraAccess mutex
  client,      \* who is inside the MQTT client's lock
  safe,        \* ConfigStorage::safe
  copies,      \* how many pipelines FlowControll holds, one behind the other
  stage,       \* the stage of the round, counted over all pipelines
  product,     \* product[k]: from which round stage k's last result is
  cycle,       \* CycleTelemetry: rounds attempted less those that ended
  interval,    \* auto_interval: Period, or 0
  late,        \* now less the slot of the current round
  phase,       \* history: ticks into the current slot of the cadence
  owed,        \* history: slots that have come, less rounds begun and slots counted missed
  reboot       \* progress of task_reboot

guards   == <<processing, camera, client>>
pipeline == <<safe, copies>>
round    == <<stage, product, cycle>>
clock    == <<interval, late, phase, owed>>
vars     == <<pc, guards, pipeline, round, clock, reboot>>

Tasks  == {"flow", "web", "test"}
\* TakeImage, Alignment, CNNGeneral, PostProcessing and MQTT
Stages == 1 .. 5
Steps  == {"init", "initCamera", "initRead", "initReboot", "archive",
           "ready", "round", "check", "announcing", "stage", "exposure", "after", "sleep",
           "parked", "deleted", "idle", "align", "aligning", "camera", "test"}

Kind(s) == ((s - 1) % 5) + 1

Goto(t, step) == pc' = [pc EXCEPT ![t] = step]

Boot ==
  [pc |-> [flow |-> "init", web |-> "idle", test |-> "idle"],
   product |-> [k \in Stages |-> "none"]]

Init ==
  /\ pc = Boot.pc
  /\ processing = "free" /\ camera = "free" /\ client = "free"
  /\ safe = FALSE /\ copies = 0
  /\ stage = 0 /\ product = Boot.product /\ cycle = 0
  /\ interval = Period /\ late = 0 /\ phase = 0 /\ owed = 0
  /\ reboot = "no"

------------------------------------------------------------------------------
(* doInit, by the flow task at its start or by the web task for /doinit *)

InitBusy(t) ==
  /\ pc[t] = "init" /\ processing # "free"
  /\ Goto(t, "archive")
  /\ UNCHANGED <<guards, pipeline, round, clock, reboot>>

\* Unsafe before anything is read.
InitFlow(t) ==
  /\ pc[t] = "init" /\ processing = "free"
  /\ processing' = t /\ safe' = FALSE
  /\ Goto(t, "initCamera")
  /\ UNCHANGED <<camera, client, copies, round, clock, reboot>>

InitCameraBusy(t) ==
  /\ pc[t] = "initCamera" /\ camera # "free"
  /\ processing' = "free"
  /\ Goto(t, "archive")
  /\ UNCHANGED <<camera, client, pipeline, round, clock, reboot>>

InitCamera(t) ==
  /\ pc[t] = "initCamera" /\ camera = "free"
  /\ camera' = t
  /\ Goto(t, "initRead")
  /\ UNCHANGED <<processing, client, pipeline, round, clock, reboot>>

\* The profile, the journal or the file cannot be read: the flow stays unsafe.
InitFails(t) ==
  /\ pc[t] = "initRead"
  /\ processing' = "free" /\ camera' = "free"
  /\ Goto(t, "archive")
  /\ UNCHANGED <<client, pipeline, round, clock, reboot>>

\* CreateClassFlow appends; nothing empties FlowControll.
InitReads(t) ==
  /\ pc[t] = "initRead" /\ copies < CopyLimit
  /\ copies' = copies + 1 /\ safe' = TRUE
  /\ processing' = "free" /\ camera' = "free"
  /\ Goto(t, "archive")
  /\ UNCHANGED <<client, round, clock, reboot>>

\* A new host name: doReboot, from inside InitFlow.
InitReboots(t) ==
  /\ pc[t] = "initRead" /\ reboot = "no"
  /\ reboot' = "requested"
  /\ Goto(t, "initReboot")
  /\ UNCHANGED <<guards, pipeline, round, clock>>

\* startConfiguredArchive needs both guards for a moment; what it does is ImageArchive's.
ArchiveStarts(t) ==
  /\ pc[t] = "archive"
  /\ Goto(t, IF t = "flow" THEN "ready" ELSE "idle")
  /\ UNCHANGED <<guards, pipeline, round, clock, reboot>>

DoInit(t) == \/ InitBusy(t) \/ InitFlow(t) \/ InitCameraBusy(t) \/ InitCamera(t)
             \/ InitFails(t) \/ InitReads(t) \/ InitReboots(t) \/ ArchiveStarts(t)

------------------------------------------------------------------------------
(* task_autodoFlow *)

\* Setup mode disables the rounds; the interval is taken over once.
FlowReady ==
  /\ pc["flow"] = "ready"
  /\ \/ Goto("flow", "parked") /\ UNCHANGED interval
     \/ Goto("flow", "round") /\ interval' \in {Period, 0}
  /\ late' = 0 /\ phase' = 0 /\ owed' = 1
  /\ UNCHANGED <<guards, pipeline, round, reboot>>

Began == owed' = owed - 1

\* CycleTelemetry::Span: a round that finds processing busy is rejected.
RoundBusy ==
  /\ pc["flow"] = "round" /\ processing # "free"
  /\ Goto("flow", "after") /\ Began
  /\ UNCHANGED <<guards, pipeline, round, interval, late, phase, reboot>>

RoundBegins ==
  /\ pc["flow"] = "round" /\ processing = "free"
  /\ processing' = "flow" /\ cycle' = cycle + 1
  /\ Goto("flow", "check") /\ Began
  /\ UNCHANGED <<camera, client, pipeline, stage, product, interval, late, phase, reboot>>

\* Whatever ends the round, the span's destructor closes its record and the guard is returned.
RoundEnds ==
  /\ processing' = "free" /\ cycle' = cycle - 1 /\ stage' = 0
  /\ Goto("flow", "after")

RoundUnsafe ==
  /\ pc["flow"] = "check" /\ ~safe
  /\ RoundEnds
  /\ UNCHANGED <<camera, client, pipeline, product, clock, reboot>>

\* The status is published before each stage and after the last, inside the client's lock.
Announce(next) == stage' = next /\ client' = "flow" /\ Goto("flow", "announcing")

RoundChecked ==
  /\ pc["flow"] = "check" /\ safe
  /\ product' = [k \in Stages |-> IF product[k] = "now" THEN "old" ELSE product[k]]
  /\ Announce(1)
  /\ UNCHANGED <<processing, camera, pipeline, cycle, clock, reboot>>

StageStarts ==
  /\ pc["flow"] = "announcing" /\ stage <= 5 * copies
  /\ client' = "free"
  /\ Goto("flow", "stage")
  /\ UNCHANGED <<processing, camera, pipeline, round, clock, reboot>>

RoundFinishes ==
  /\ pc["flow"] = "announcing" /\ stage = 5 * copies + 1
  /\ client' = "free"
  /\ RoundEnds
  /\ UNCHANGED <<camera, pipeline, product, clock, reboot>>

TakeCamera ==
  /\ pc["flow"] = "stage" /\ Kind(stage) = 1 /\ camera = "free"
  /\ camera' = "flow"
  /\ Goto("flow", "exposure")
  /\ UNCHANGED <<processing, client, pipeline, round, clock, reboot>>

StageDone(origin) ==
  /\ product' = [product EXCEPT ![Kind(stage)] = origin]
  /\ Announce(stage + 1)

TakeImage ==
  /\ pc["flow"] = "exposure"
  /\ StageDone("now")
  /\ camera' = "free"
  /\ UNCHANGED <<processing, pipeline, cycle, clock, reboot>>

\* Alignment, recognition, post-processing and publication work on the result before them.
RunStage ==
  /\ pc["flow"] = "stage" /\ Kind(stage) # 1
  /\ StageDone(product[Kind(stage) - 1])
  /\ UNCHANGED <<processing, camera, pipeline, cycle, clock, reboot>>

\* The round stops at a stage that fails; a failed capture leaves no image.
StageFails ==
  /\ pc["flow"] \in {"stage", "exposure"}
  /\ product' = IF Kind(stage) = 1 THEN [product EXCEPT ![1] = "none"] ELSE product
  /\ camera' = IF camera = "flow" THEN "free" ELSE camera
  /\ RoundEnds
  /\ UNCHANGED <<client, pipeline, clock, reboot>>

\* Mutant: a slot that is partly past is not skipped.
AfterRoundingDown(behind, period) ==
  LET over == behind - period IN
  IF over <= 0 THEN [missed |-> 0, late |-> over]
  ELSE LET skipped == over \div period
       IN [missed |-> skipped, late |-> over - skipped * period]

\* CycleSchedule::after: the next slot of the cadence that is not in the past.
After(behind, period) ==
  LET over == behind - period IN
  IF over <= 0 THEN [missed |-> 0, late |-> over]
  ELSE LET skipped == (over \div period) + (IF over % period # 0 THEN 1 ELSE 0)
       IN [missed |-> skipped, late |-> over - skipped * period]

Schedule ==
  /\ pc["flow"] = "after" /\ interval # 0
  /\ LET next == After(late, interval) IN
       late' = next.late /\ owed' = owed - next.missed
  /\ Goto("flow", "sleep")
  /\ UNCHANGED <<guards, pipeline, round, interval, phase, reboot>>

ScheduleInvalid ==
  /\ pc["flow"] = "after" /\ interval = 0
  /\ Goto("flow", "parked")
  /\ UNCHANGED <<guards, pipeline, round, clock, reboot>>

Wakes ==
  /\ pc["flow"] = "sleep" /\ late >= 0
  /\ Goto("flow", "round")
  /\ UNCHANGED <<guards, pipeline, round, clock, reboot>>

\* /flow_start, or the MQTT topic: a sleep cut short starts a new cadence.
FlowStart ==
  /\ pc["flow"] = "sleep" /\ late < 0
  /\ late' = 0 /\ phase' = 0 /\ owed' = 1
  /\ Goto("flow", "round")
  /\ UNCHANGED <<guards, pipeline, round, interval, reboot>>

\* Time passes while the flow sleeps, and up to LateLimit while a round runs.
Tick ==
  /\ IF pc["flow"] = "sleep" THEN late < 0 ELSE late < LateLimit
  /\ pc["flow"] \in {"sleep", "exposure", "stage", "after"}
  /\ late' = late + 1
  /\ phase' = (phase + 1) % Period
  /\ owed' = owed + (IF phase' = 0 THEN 1 ELSE 0)
  /\ UNCHANGED <<pc, guards, pipeline, round, interval, reboot>>

FlowStep == \/ DoInit("flow") \/ FlowReady \/ RoundBusy \/ RoundBegins \/ RoundUnsafe \/ RoundChecked
            \/ StageStarts \/ RoundFinishes \/ TakeCamera \/ TakeImage \/ RunStage \/ StageFails
            \/ Schedule \/ ScheduleInvalid \/ Wakes

------------------------------------------------------------------------------
(* the web server's task: one request at a time *)

\* The same task both initialises again and serves: a request only finds it idle.
RequestInit ==
  /\ pc["web"] = "idle"
  /\ Goto("web", "init")
  /\ UNCHANGED <<guards, pipeline, round, clock, reboot>>

\* /editflow?task=test_align takes the camera first, and looks at the status of the round.
RequestAlign ==
  /\ pc["web"] = "idle" /\ camera = "free"
  /\ ~(stage # 0 /\ Kind(stage) \in {1, 2})
  /\ camera' = "web"
  /\ Goto("web", "align")
  /\ UNCHANGED <<processing, client, pipeline, round, clock, reboot>>

\* doSingleStep
SingleStepRefused ==
  /\ pc["web"] = "align" /\ (processing # "free" \/ ~safe)
  /\ camera' = "free"
  /\ Goto("web", "idle")
  /\ UNCHANGED <<processing, client, pipeline, round, clock, reboot>>

SingleStep ==
  /\ pc["web"] = "align" /\ processing = "free" /\ safe
  /\ processing' = "web"
  /\ Goto("web", "aligning")
  /\ UNCHANGED <<camera, client, pipeline, round, clock, reboot>>

\* The picture is aligned where it lies, again if it was aligned before.
SingleStepDone ==
  /\ pc["web"] = "aligning"
  /\ product' = [product EXCEPT ![2] = product[1]]
  /\ processing' = "free" /\ camera' = "free"
  /\ Goto("web", "idle")
  /\ UNCHANGED <<client, pipeline, stage, cycle, clock, reboot>>

\* doReboot keeps its caller waiting for ten seconds only.
RequestReboot ==
  /\ pc["web"] = "idle" /\ reboot = "no"
  /\ reboot' = "requested"
  /\ UNCHANGED <<pc, guards, pipeline, round, clock>>

Request == RequestInit \/ RequestAlign \/ RequestReboot
WebStep == DoInit("web") \/ SingleStepRefused \/ SingleStep \/ SingleStepDone

------------------------------------------------------------------------------
(* polarTestWorker and polarFrameTestWorker, created by a request *)

TestStarts ==
  /\ pc["test"] = "idle" /\ pc["web"] = "idle" /\ processing = "free"
  /\ processing' = "test"
  /\ Goto("test", "camera")
  /\ UNCHANGED <<camera, client, pipeline, round, clock, reboot>>

TestRefused ==
  /\ pc["test"] = "camera" /\ camera # "free"
  /\ processing' = "free"
  /\ Goto("test", "idle")
  /\ UNCHANGED <<camera, client, pipeline, round, clock, reboot>>

TestRuns ==
  /\ pc["test"] = "camera" /\ camera = "free"
  /\ camera' = "test"
  /\ Goto("test", "test")
  /\ UNCHANGED <<processing, client, pipeline, round, clock, reboot>>

TestEnds ==
  /\ pc["test"] = "test"
  /\ processing' = "free" /\ camera' = "free"
  /\ Goto("test", "idle")
  /\ UNCHANGED <<client, pipeline, round, clock, reboot>>

TestStep == TestRefused \/ TestRuns \/ TestEnds

------------------------------------------------------------------------------
(* task_reboot *)

\* vTaskDelete stops the flow task where it is; what it holds it keeps.
DeleteMainFlowTask ==
  /\ reboot = "requested"
  /\ reboot' = "deleted"
  /\ Goto("flow", "deleted")
  /\ UNCHANGED <<guards, pipeline, round, clock>>

\* Mutant: the end of the round is waited for.
DestroyClientWaiting ==
  /\ reboot = "deleted" /\ client = "free" /\ processing # "flow"
  /\ reboot' = "stopped"
  /\ UNCHANGED <<pc, guards, pipeline, round, clock>>

\* The client is stopped under its lock.
DestroyClient ==
  /\ reboot = "deleted" /\ client = "free"
  /\ reboot' = "stopped"
  /\ UNCHANGED <<pc, guards, pipeline, round, clock>>

Restart ==
  /\ reboot = "stopped"
  /\ pc' = Boot.pc
  /\ processing' = "free" /\ camera' = "free" /\ client' = "free"
  /\ safe' = FALSE /\ copies' = 0
  /\ stage' = 0 /\ product' = Boot.product /\ cycle' = 0
  /\ interval' = Period /\ late' = 0 /\ phase' = 0 /\ owed' = 0
  /\ reboot' = "no"

RebootStep == DeleteMainFlowTask \/ DestroyClient \/ Restart

Next == FlowStep \/ FlowStart \/ Tick \/ Request \/ WebStep \/ TestStarts \/ TestStep \/ RebootStep

Spec == Init /\ [][Next]_vars

(* Each task is scheduled, every stage and every request ends, time passes; *)
(* requests and manual starts need not come.                                *)
LiveSpec == /\ Spec
            /\ WF_vars(FlowStep) /\ WF_vars(Tick) /\ WF_vars(WebStep)
            /\ WF_vars(TestStep) /\ WF_vars(RebootStep)

------------------------------------------------------------------------------
Owners == Tasks \union {"free"}

TypeOK ==
  /\ pc \in [Tasks -> Steps]
  /\ processing \in Owners /\ camera \in Owners /\ client \in {"free", "flow"}
  /\ safe \in BOOLEAN /\ copies \in 0 .. CopyLimit
  /\ stage \in 0 .. (5 * CopyLimit + 1)
  /\ product \in [Stages -> {"none", "old", "now"}] /\ cycle \in 0 .. 1
  /\ interval \in {0, Period} /\ late \in (-Period) .. LateLimit
  /\ phase \in 0 .. (Period - 1) /\ owed \in 0 .. (LateLimit + 1)
  /\ reboot \in {"no", "requested", "deleted", "stopped"}

Round == {"check", "announcing", "stage", "exposure"}
UsesProcessing(t) == pc[t] \in Round \union {"initCamera", "initRead", "initReboot", "aligning", "camera", "test"}

(* Whoever works on the pipeline holds the processing flag alone, the      *)
(* open record of the telemetry is that of the round that holds it, and a  *)
(* flag or camera is held by a task that is at work, or by a flow task     *)
(* that a reboot has deleted (ProcessingAccess, CameraAccess, Span).       *)
GuardsReturned ==
  /\ \A t \in Tasks :
       /\ UsesProcessing(t) => processing = t
       /\ processing = t => UsesProcessing(t) \/ pc[t] = "deleted"
       /\ camera = t => \/ pc[t] \in {"initRead", "initReboot", "exposure", "align",
                                     "aligning", "test", "deleted"}
  /\ pc["flow"] # "deleted" => (cycle = 1 <=> pc["flow"] \in Round)

(* Every result a round has produced is from that round's own picture: a   *)
(* stage that fails, an alignment asked for by a request, a second reading *)
(* of the configuration or a self-test never makes a later stage work on,  *)
(* or publish, an older one (ClassFlowControll::doFlow, doSingleStep).     *)
RoundUsesOwnImage == \A k \in Stages : k < stage => product[k] = "now"

(* When the flow sleeps, every slot of its cadence that has come has had   *)
(* its round or was counted as missed, and its next round is due exactly   *)
(* on a slot of the cadence that is not past (task_autodoFlow,             *)
(* CycleSchedule::after).                                                  *)
SlotsKept ==
  pc["flow"] = "sleep" => /\ late <= 0 /\ late % Period = phase
                          /\ owed = IF late < 0 THEN 0 ELSE 1

(* A reboot has deleted the flow task inside the MQTT client, whose lock   *)
(* then stays taken.                                                       *)
Orphaned == pc["flow"] = "deleted" /\ client = "flow"

------------------------------------------------------------------------------
(* The inductive invariant                                                 *)

\* Where each task can be.
Places ==
  /\ pc["flow"] \in Steps \ {"idle", "align", "aligning", "camera", "test"}
  /\ pc["web"] \in {"idle", "init", "initCamera", "initRead", "initReboot", "archive", "align", "aligning"}
  /\ pc["test"] \in {"idle", "camera", "test"}

\* A round has come to one of its stages, or is announcing the one after the last.
StageStands ==
  /\ stage # 0 => processing = "flow"
  /\ pc["flow"] \in {"announcing", "stage", "exposure"} => stage >= 1
  /\ pc["flow"] \in {"stage", "exposure"} => stage <= 5 * copies
  /\ pc["flow"] = "exposure" => Kind(stage) = 1
  /\ pc["flow"] \notin {"announcing", "stage", "exposure", "deleted"} => stage = 0
  /\ stage <= 5 * copies + 1

\* The time behind the slot is the slots that came since and the ticks into the current one:
\* the slot of the round itself is among those owed until it begins.
Begun == Round \union {"after"}
Cadence ==
  /\ pc["flow"] \in {"sleep", "round"} => late = (owed - 1) * Period + phase
  /\ pc["flow"] \in Begun => late = owed * Period + phase
  /\ pc["flow"] = "sleep" => late <= 0 /\ owed <= 1
  /\ pc["flow"] \in Begun \union {"round"} => late >= 0

Inductive == TypeOK /\ Places /\ StageStands /\ Cadence /\ GuardsReturned /\ RoundUsesOwnImage
=============================================================================
