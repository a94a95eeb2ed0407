------------------------------- MODULE CameraUse -------------------------------
(***************************************************************************)
(* Who takes pictures, under which settings, and what they leave behind.   *)
(* The flow task takes one for each round; requests take trial and single  *)
(* pictures, switch the light, save settings and cut reference images; a   *)
(* stream takes pictures for as long as somebody watches.  All of them use *)
(* the one camera mutex, one frame buffer, one flash light and one region  *)
(* of shared memory.                                                       *)
(*                                                                         *)
(* The sensor's registers are one value: "saved" settings or a "trial".    *)
(* Intensities of the light are numbers, 0 is off.                         *)
(***************************************************************************)
EXTENDS Naturals

CONSTANT Intensities  \* intensities of the light that requests ask for

\* What the constants must be; assumed where they have values.
CameraAssumption == Intensities \subseteq Nat \ {0} /\ Intensities # {}

VARIABLES
  camera,    \* who holds the CameraAccess mutex
  pc,        \* pc[t]: progress of task t
  registers, \* the settings in the sensor
  led,       \* Camera.LedIntensity
  cc,        \* CCstatus: the settings in use
  changed,   \* CFstatus.changedCameraSettings
  config,    \* intensity in config.ini
  delayed,   \* WaitBeforeTakingPicture is not 0
  light,     \* intensity the light shines with
  burning,   \* history: a request lit it, or the driver failed to put it out
  frame,     \* the frame buffer is with a caller
  job,       \* which request the web task serves with the camera
  stream,    \* streamActive, the asynchronous request is open, somebody watches
  memory     \* sharedMemoryInUseFor, and who uses the region

sensor == <<registers, led, cc, changed, config, delayed>>
flash  == <<light, burning>>
vars   == <<camera, pc, sensor, flash, frame, job, stream, memory>>

Tasks    == {"round", "web", "stream"}
RegisterSets == {"saved", "trial"}
Pictures == {"capture", "capture_with_light", "save", "raw"}

Init ==
  /\ camera = "free" /\ pc = [t \in Tasks |-> "idle"]
  /\ config \in Intensities /\ registers = "saved" /\ led = config
  /\ cc = [registers |-> "saved", led |-> config] /\ changed = FALSE /\ delayed \in BOOLEAN
  /\ light = 0 /\ burning = FALSE /\ frame = "driver"
  /\ job = "none"
  /\ stream = [active |-> FALSE, open |-> FALSE, watched |-> FALSE]
  /\ memory = [use |-> "", by |-> {}]

Goto(t, step) == pc' = [pc EXCEPT ![t] = step]
Acquire(t, step) == camera = "free" /\ camera' = t /\ Goto(t, step)
Release(t, step) == camera' = "free" /\ Goto(t, step)

------------------------------------------------------------------------------
(* the light and the frame buffer *)

LightOn(level) ==
  \/ light' = level /\ UNCHANGED burning
  \/ UNCHANGED flash

LightOff ==
  \/ light' = 0 /\ burning' = FALSE
  \/ UNCHANGED light /\ burning' = (burning \/ light # 0)

\* A light that cannot be lit is put out again, as well as the driver can.
LightOnFails == LightOff

\* After a trial the settings in use go back into the sensor before the next picture.
Reset ==
  IF changed THEN /\ registers' = cc.registers /\ led' = cc.led /\ changed' = FALSE
                  /\ UNCHANGED <<cc, config, delayed>>
  ELSE UNCHANGED sensor

------------------------------------------------------------------------------
(* a round: ClassFlowTakeImage::doFlow, CaptureToBasisImage, then the stages *)

RoundStarts ==
  /\ pc["round"] \in {"idle", "gaveUp"}
  /\ Acquire("round", "memory")
  /\ UNCHANGED <<sensor, flash, frame, job, stream, memory>>

\* The camera stays busy for a second: the round fails.
RoundTimeout ==
  /\ pc["round"] = "idle" /\ camera # "free"
  /\ Goto("round", "gaveUp")
  /\ UNCHANGED <<camera, sensor, flash, frame, job, stream, memory>>

Reserve(who, use) == memory' = [use |-> use, by |-> memory.by \union {who}]
FreeMemory(who) == memory' = [use |-> "", by |-> memory.by \ {who}]

\* Who gets no memory fails, and releases nobody else's.
RoundReserves ==
  /\ pc["round"] = "memory"
  /\ IF memory.use # ""
     THEN Release("round", "gaveUp") /\ UNCHANGED <<sensor, memory>>
     ELSE Reserve("round", "TakeImage") /\ Reset /\ Goto("round", "light") /\ UNCHANGED camera
  /\ UNCHANGED <<flash, frame, job, stream>>

RoundLights ==
  /\ pc["round"] = "light"
  /\ \/ ~delayed /\ UNCHANGED flash /\ Goto("round", "expose")
     \/ delayed /\ light' = led /\ UNCHANGED burning /\ Goto("round", "expose")
     \/ delayed /\ LightOnFails /\ Goto("round", "failed")
  /\ UNCHANGED <<camera, sensor, frame, job, stream, memory>>

RoundExposes ==
  /\ pc["round"] = "expose"
  /\ frame' = "round"
  /\ Goto("round", "decode")
  /\ UNCHANGED <<camera, sensor, flash, job, stream, memory>>

\* Mutant: the light is left on when the sensor delivers no frame.
RoundWithoutFrameLit ==
  /\ pc["round"] = "expose"
  /\ Goto("round", "failed")
  /\ UNCHANGED <<camera, sensor, flash, frame, job, stream, memory>>

RoundWithoutFrame ==
  /\ pc["round"] = "expose"
  /\ LightOff
  /\ Goto("round", "failed")
  /\ UNCHANGED <<camera, sensor, frame, job, stream, memory>>

\* Without a delay only a failed demo picture puts the light out.
RoundDecodes ==
  /\ pc["round"] = "decode"
  /\ IF delayed THEN LightOff ELSE UNCHANGED flash
  /\ frame' = "driver"
  /\ \E step \in {"taken", "failed"} : Goto("round", step)
  /\ UNCHANGED <<camera, sensor, job, stream, memory>>

RoundPictureDone ==
  /\ pc["round"] \in {"taken", "failed"}
  /\ FreeMemory("round")
  /\ Release("round", IF pc["round"] = "taken" THEN "align" ELSE "gaveUp")
  /\ UNCHANGED <<sensor, flash, frame, job, stream>>

\* Alignment borrows the region for its picture, recognition for its tensors and models.
RoundBorrows ==
  /\ pc["round"] \in {"align", "read"}
  /\ IF memory.use # ""
     THEN Goto("round", "gaveUp") /\ UNCHANGED memory
     ELSE IF pc["round"] = "align"
     THEN Reserve("round", "Aligning") /\ Goto("round", "aligning")
     ELSE Reserve("round", "Digitization_Tensor") /\ Goto("round", "reading")
  /\ UNCHANGED <<camera, sensor, flash, frame, job, stream>>

RoundGivesBack ==
  /\ pc["round"] \in {"aligning", "reading"}
  /\ FreeMemory("round")
  /\ \E step \in {"gaveUp", IF pc["round"] = "aligning" THEN "read" ELSE "idle"} : Goto("round", step)
  /\ UNCHANGED <<camera, sensor, flash, frame, job, stream>>

RoundStep == \/ RoundStarts \/ RoundTimeout \/ RoundReserves \/ RoundLights \/ RoundExposes
             \/ RoundWithoutFrame \/ RoundDecodes \/ RoundPictureDone \/ RoundBorrows \/ RoundGivesBack

------------------------------------------------------------------------------
(* requests: a busy camera is answered at once *)

\* What lights a single picture: a fixed delay, one of the request, or that of a round.
LightsFirst(what) == what \in {"capture_with_light", "save"} \/ (what = "raw" /\ delayed)

\* The settings in use are restored first, except by the raw picture, which shows a trial.
RequestPicture(what) ==
  /\ job = "none"
  /\ Acquire("web", "light")
  /\ job' = what
  /\ IF what = "raw" THEN UNCHANGED sensor ELSE Reset
  /\ UNCHANGED <<flash, frame, stream, memory>>

PictureLights ==
  /\ pc["web"] = "light"
  /\ \/ ~LightsFirst(job) /\ UNCHANGED flash /\ Goto("web", "expose")
     \/ job = "capture_with_light" /\ LightOn(led) /\ Goto("web", "expose")
     \/ LightsFirst(job) /\ light' = led /\ UNCHANGED burning /\ Goto("web", "expose")
     \/ LightsFirst(job) /\ job # "capture_with_light" /\ LightOnFails /\ Goto("web", "done")
  /\ UNCHANGED <<camera, sensor, frame, job, stream, memory>>

PictureExposed ==
  /\ pc["web"] = "expose"
  /\ \/ frame' = "web" /\ UNCHANGED flash /\ Goto("web", "send")
     \/ LightOff /\ UNCHANGED frame /\ Goto("web", "done")
  /\ UNCHANGED <<camera, sensor, job, stream, memory>>

\* The light goes out before the picture is sent or written, in one case after it.
PictureSent ==
  /\ pc["web"] = "send"
  /\ frame' = "driver"
  /\ IF LightsFirst(job) THEN LightOff ELSE UNCHANGED flash
  /\ Goto("web", "done")
  /\ UNCHANGED <<camera, sensor, job, stream, memory>>

PictureDone ==
  /\ pc["web"] = "done"
  /\ IF job = "capture_with_light" THEN LightOff ELSE UNCHANGED flash
  /\ job' = "none"
  /\ Release("web", "idle")
  /\ UNCHANGED <<sensor, frame, stream, memory>>

\* The steps of a request that hold the camera and leave no trace between them are one.
Request(changes) ==
  /\ camera = "free" /\ job = "none" /\ changes
  /\ UNCHANGED <<camera, pc, frame, job, stream, memory>>

SwitchLight ==
  Request(/\ \/ light' = led /\ burning' = TRUE
             \/ LightOff
          /\ UNCHANGED sensor)

\* The status of the round: a round that takes its picture has the camera.
NotAligning == pc["round"] \notin {"align", "aligning"}

\* /editflow, test_take: the sensor is set to the trial, the settings in use are not.
TestTake ==
  Request(NotAligning /\ \E r \in RegisterSets, i \in Intensities :
            /\ registers' = r /\ led' = i /\ changed' = TRUE
            /\ UNCHANGED <<cc, config, delayed, flash>>)

\* /editflow, cam_settings: the settings are in use, and in the sensor with the next picture.
CamSettings ==
  Request(NotAligning /\ \E r \in RegisterSets, i \in Intensities :
            /\ cc' = [registers |-> r, led |-> i]
            /\ led' = i /\ changed' = TRUE
            /\ UNCHANGED <<registers, config, delayed, flash>>)

\* An initialisation reads the sensor, then config.ini, then sets the sensor.
ReadParameter ==
  Request(/\ \E r \in {"saved", registers} : cc' = [registers |-> r, led |-> config] /\ registers' = r
          /\ led' = config
          /\ UNCHANGED <<changed, config, delayed, flash>>)

\* The saved intensity becomes the one in use only when config.ini has it.
SaveStreamIntensity ==
  Request(\/ \E i \in Intensities :
               /\ config' = i /\ led' = i /\ cc' = [cc EXCEPT !.led = i]
               /\ UNCHANGED <<registers, changed, delayed, flash>>
          \/ /\ config' \in Intensities   \* the save is uncertain: nothing is activated
             /\ UNCHANGED <<registers, led, cc, changed, delayed, flash>>)

\* /editflow, cutref: only when the last round has finished, and with the shared memory.
CutReference ==
  /\ job = "none" /\ pc["round"] = "idle" /\ memory.use = ""
  /\ Acquire("web", "cut") /\ job' = "cut"
  /\ Reserve("web", "TakeImage")
  /\ UNCHANGED <<sensor, flash, frame, stream>>

CutDone ==
  /\ pc["web"] = "cut"
  /\ FreeMemory("web")
  /\ Release("web", "idle") /\ job' = "none"
  /\ UNCHANGED <<sensor, flash, frame, stream>>

WebStep == PictureLights \/ PictureExposed \/ PictureSent \/ PictureDone \/ CutDone
Requests == \/ \E what \in Pictures : RequestPicture(what)
            \/ SwitchLight \/ TestTake \/ CamSettings \/ ReadParameter
            \/ SaveStreamIntensity \/ CutReference

------------------------------------------------------------------------------
(* the stream: handler_stream, streamWorker, CaptureToStream *)

StreamStarts ==
  /\ job = "none" /\ ~stream.active
  /\ \/ stream' = [active |-> TRUE, open |-> TRUE, watched |-> TRUE] /\ Goto("stream", "frame")
     \/ UNCHANGED <<stream, pc>>   \* no memory, no asynchronous request, or no task: all is undone
  /\ UNCHANGED <<camera, sensor, flash, frame, job, memory>>

\* One picture under the mutex, lit or not; the intensity is restored whatever happens.
StreamPicture ==
  /\ pc["stream"] = "frame" /\ camera = "free"
  /\ Reset
  /\ \/ UNCHANGED flash /\ \E step \in {"send", "end"} : Goto("stream", step)
     \/ light' = 0 /\ burning' = FALSE /\ \E step \in {"send", "end"} : Goto("stream", step)
     \/ light' \in Intensities /\ burning' = TRUE /\ Goto("stream", "end")
  /\ UNCHANGED <<camera, frame, job, stream, memory>>

\* The camera stays busy for a second.
StreamTimeout ==
  /\ pc["stream"] = "frame" /\ camera # "free"
  /\ Goto("stream", "end")
  /\ UNCHANGED <<camera, sensor, flash, frame, job, stream, memory>>

\* The picture is sent without the camera; a viewer who has left makes it fail.
StreamSends ==
  /\ pc["stream"] = "send"
  /\ \E step \in {"end"} \union (IF stream.watched THEN {"frame"} ELSE {}) : Goto("stream", step)
  /\ UNCHANGED <<camera, sensor, flash, frame, job, stream, memory>>

StreamCompletes ==
  /\ pc["stream"] = "end"
  /\ stream' = [stream EXCEPT !.open = FALSE]
  /\ Goto("stream", "close")
  /\ UNCHANGED <<camera, sensor, flash, frame, job, memory>>

StreamCloses ==
  /\ pc["stream"] = "close"
  /\ stream' = [stream EXCEPT !.active = FALSE]
  /\ Goto("stream", "idle")
  /\ UNCHANGED <<camera, sensor, flash, frame, job, memory>>

ViewerLeaves ==
  /\ stream.watched
  /\ stream' = [stream EXCEPT !.watched = FALSE]
  /\ UNCHANGED <<camera, pc, sensor, flash, frame, job, memory>>

StreamStep == StreamPicture \/ StreamTimeout \/ StreamSends \/ StreamCompletes \/ StreamCloses

Next == RoundStep \/ Requests \/ WebStep \/ StreamStarts \/ StreamStep \/ ViewerLeaves

Spec == Init /\ [][Next]_vars

(* A round, a request that holds the camera and the stream's worker go on; *)
(* requests and viewers come and leave as they like.                       *)
LiveSpec == Spec /\ WF_vars(RoundStep) /\ WF_vars(WebStep) /\ WF_vars(StreamStep)

------------------------------------------------------------------------------
Configuration == [registers : RegisterSets, led : Intensities]
Lights == Intensities \union {0}
Steps  == {"idle", "gaveUp", "memory", "light", "expose", "decode", "taken", "failed", "align",
           "aligning", "read", "reading", "send", "done", "cut", "frame", "end", "close"}
Memories == [use : {"", "TakeImage", "Aligning", "Digitization_Tensor"}, by : SUBSET {"round", "web"}]

SensorType ==
  /\ registers \in RegisterSets /\ led \in Intensities /\ config \in Intensities
  /\ cc \in Configuration /\ changed \in BOOLEAN /\ delayed \in BOOLEAN

TypeOK ==
  /\ camera \in {"free", "round", "web", "stream"}
  /\ pc \in [Tasks -> Steps]
  /\ SensorType
  /\ light \in Lights /\ burning \in BOOLEAN /\ frame \in {"driver", "round", "web"}
  /\ job \in Pictures \union {"none", "cut"}
  /\ stream \in [active : BOOLEAN, open : BOOLEAN, watched : BOOLEAN]
  /\ memory \in Memories

(* A round exposes under the settings in use and, when it lights, in the   *)
(* light of their intensity, whatever trials, previews, saved intensities  *)
(* and new initialisations came before (ClassFlowTakeImage::doFlow,        *)
(* changedCameraSettings, CaptureToStream).                                *)
RoundPictureConfigured ==
  pc["round"] = "expose" => /\ registers = cc.registers /\ led = cc.led
                            /\ delayed => light = cc.led

(* Whoever gives the camera back has given the frame buffer back and put   *)
(* the light out, unless a request lit it or the driver failed to put it   *)
(* out (CaptureToBasisImage, CaptureToFile, CaptureToHTTP).                *)
NothingLeftBehind == camera = "free" => frame = "driver" /\ (light # 0 => burning)

(* The shared memory has one user at a time, and is free when it has none: *)
(* no failure leaves it reserved for ever (psram.cpp).                     *)
MemoryExclusive == IF memory.use = "" THEN memory.by = {} ELSE \E who \in {"round", "web"} : memory.by = {who}

(* A free stream slot has no asynchronous request left open                *)
(* (handler_stream, streamWorker).                                         *)
StreamClosed == stream.active \/ ~stream.open

-----------------------------------------------------------------------------
(* The inductive invariant                                                 *)

Photographing == {"memory", "light", "expose", "decode", "taken", "failed"}
Remembering   == {"light", "expose", "decode", "taken", "failed", "aligning", "reading"}
Serving       == {"light", "expose", "send", "done"}

\* Where each task can be, and what it holds there.
Places ==
  /\ pc["round"] \in Photographing \union {"idle", "gaveUp", "align", "aligning", "read", "reading"}
  /\ pc["web"] \in Serving \union {"idle", "cut"}
  /\ pc["stream"] \in {"idle", "frame", "send", "end", "close"}
  /\ camera # "stream"
  /\ camera = "round" <=> pc["round"] \in Photographing
  /\ camera = "web" <=> pc["web"] # "idle"
  /\ job = "none" <=> pc["web"] = "idle"
  /\ job = "cut" <=> pc["web"] = "cut"
  /\ frame = "round" <=> pc["round"] = "decode"
  /\ frame = "web" <=> pc["web"] = "send"
  /\ stream.active <=> pc["stream"] # "idle"
  /\ stream.open => pc["stream"] \in {"frame", "send", "end"}

\* Without a change to undo the sensor has the settings in use.
SensorConfigured ==
  ~changed \/ pc["round"] \in {"light", "expose"} => registers = cc.registers /\ led = cc.led

\* A light that nobody asked for is that of a picture under way.
LightFor ==
  \/ pc["round"] = "expose" \/ (pc["round"] = "decode" /\ delayed)
  \/ pc["web"] = "expose" \/ (pc["web"] = "send" /\ LightsFirst(job))
LightAccounted ==
  /\ light # 0 /\ ~burning => LightFor
  /\ pc["round"] = "expose" /\ light # 0 /\ ~burning => delayed
  /\ pc["web"] = "expose" /\ light # 0 /\ ~burning => LightsFirst(job)
  /\ pc["round"] = "expose" /\ delayed => light = cc.led

MemoryKept ==
  /\ memory.use = "" <=> memory.by = {}
  /\ memory.by # {"round", "web"}
  /\ "round" \in memory.by <=> pc["round"] \in Remembering
  /\ "web" \in memory.by <=> pc["web"] = "cut"

Inductive == TypeOK /\ Places /\ SensorConfigured /\ LightAccounted /\ MemoryKept
=============================================================================
