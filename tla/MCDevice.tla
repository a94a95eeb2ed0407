------------------------------- MODULE MCDevice -------------------------------
(***************************************************************************)
(* Four parts of the device that run beside the rounds, checked side by    *)
(* side: managed updates, the acceptance of a new image, camera settings   *)
(* and GPIO.  `subject` is chosen at the start and says which of them the  *)
(* behaviour is one of; a variable that the subject lacks is None.         *)
(***************************************************************************)
EXTENDS Integers, FiniteSets, TLC

CONSTANTS
  factory, b1, b2, old, new,                              \* BundleUpdate
  Bundle, App, AppOf, Factory, Retained,
  Needed,                                                 \* ImageAcceptance
  Followed,                                               \* CameraSettings
  QueueLimit, Pending, Inits,                             \* Gpio
  None

VARIABLES
  subject, image, pc, outcome,
  object, pending, interrupted, index, draft, drafts, zip, uploading, flash, boot, running,
  rollback, selection, job, held,
  terminal, started, elapsed, test, tester, ran, streak, recent, fresh, readable, holder, seen,
  pid, group, config, cc, sensor, changed, page, shown, phase, touched, unsent,
  pins, inits, flow, hooked, level, latch, state, handler, greets, session, greeting, queue, task, http,
  told, echo, missed, lost

Update    == INSTANCE BundleUpdateProofs
Accepting == INSTANCE ImageAcceptance
Camera    == INSTANCE CameraSettings
Pin       == INSTANCE Gpio

ASSUME DeviceAssumption ==
  /\ Update!UpdateAssumption /\ Accepting!AcceptanceAssumption /\ Pin!GpioAssumption
  /\ Camera!SettingsAssumption

MCBundle == {factory, b1, b2}
\* A bundle for a new application, and a second one for the application that has been there: it
\* cannot be mapped.
MCAppOf  == (factory :> old) @@ (b1 :> new) @@ (b2 :> old)

\* Every setting but the automatic sharpness, and the zoom with each of its own.
MCFollowed == {{n} : n \in {"aecgc", "spe", "wbm", "awb", "awbg", "aec", "aec2", "agc", "bpc", "wpc",
                             "rgma", "lenc", "mirror", "flip", "dcw", "zoom", "waitb", "qual", "aecv",
                             "agcg", "den", "shp", "ael", "bri", "con", "sat", "ledi"}}
                \union {{"zoom", "zoomx"}, {"zoom", "zoomy"}, {"zoom", "zooms"}}

Subjects == {"bundle", "acceptance", "settings", "gpio"}

\* The variables of one module alone.
bundleVars == <<object, pending, interrupted, index, draft, drafts, zip, uploading, flash, boot,
                running, rollback, selection, job, held>>
acceptanceVars == <<terminal, started, elapsed, test, tester, ran, streak, recent, fresh, readable,
                    holder, seen>>
settingsVars == <<pid, group, config, cc, sensor, changed, page, shown, phase, touched, unsent>>
gpioVars == <<pins, inits, flow, hooked, level, latch, state, handler, greets, session, greeting, queue, task,
              http, told, echo, missed, lost>>
vars == <<subject, image, pc, outcome, bundleVars, acceptanceVars, settingsVars, gpioVars>>

NoUpdate ==
  /\ object = None /\ pending = None /\ interrupted = None /\ index = None /\ draft = None
  /\ drafts = None /\ zip = None /\ uploading = None /\ flash = None /\ boot = None
  /\ running = None /\ rollback = None /\ selection = None /\ job = None /\ held = None
NoAccepting ==
  /\ terminal = None /\ started = None /\ elapsed = None /\ test = None /\ tester = None
  /\ ran = None /\ streak = None /\ recent = None /\ fresh = None /\ readable = None
  /\ holder = None /\ seen = None
NoCamera ==
  /\ pid = None /\ group = None /\ config = None /\ cc = None /\ sensor = None /\ changed = None
  /\ page = None /\ shown = None /\ phase = None /\ touched = None /\ unsent = None
NoPin ==
  /\ pins = None /\ inits = None /\ flow = None /\ hooked = None /\ level = None /\ latch = None /\ state = None
  /\ handler = None /\ greets = None /\ session = None /\ greeting = None /\ queue = None
  /\ task = None /\ http = None /\ told = None /\ echo = None /\ missed = None /\ lost = None

Init ==
  /\ subject \in Subjects
  /\ IF subject = "bundle" THEN Update!Init ELSE NoUpdate
  /\ IF subject = "acceptance" THEN Accepting!Init ELSE NoAccepting
  /\ IF subject = "settings" THEN Camera!Init ELSE NoCamera
  /\ IF subject = "gpio" THEN Pin!Init ELSE NoPin
  /\ subject \notin {"bundle", "acceptance"} => image = None
  /\ subject \notin {"bundle", "acceptance"} => pc = None
  /\ subject \notin {"bundle", "acceptance"} => outcome = None

Next ==
  /\ UNCHANGED subject
  /\ \/ /\ subject = "bundle" /\ Update!Next
        /\ UNCHANGED <<acceptanceVars, settingsVars, gpioVars>>
     \/ /\ subject = "acceptance" /\ Accepting!Next
        /\ UNCHANGED <<bundleVars, settingsVars, gpioVars>>
     \/ /\ subject = "settings" /\ Camera!Next
        /\ UNCHANGED <<image, pc, outcome, bundleVars, acceptanceVars, gpioVars>>
     \/ /\ subject = "gpio" /\ Pin!Next
        /\ UNCHANGED <<image, pc, outcome, bundleVars, acceptanceVars, settingsVars>>

------------------------------------------------------------------------------
\* The fairness of ImageAcceptance's LiveSpec: each step of the flow changes pc.
FlowStep   == subject = "acceptance" /\ Accepting!Flow
TimePasses == subject = "acceptance" /\ Accepting!WindowElapses
Spec == Init /\ [][Next]_vars /\ WF_pc(FlowStep) /\ WF_elapsed(TimePasses)

EvidenceStep == subject = "bundle" => Update!EvidenceStep
ManagedStep  == subject = "bundle" => Update!Managed!Next

(* What runs, what boots next and what it could fall back to are whole,    *)
(* wherever the power goes; the job tells the truth about what was done,   *)
(* and about whether anybody still does it; and work that was interrupted  *)
(* is published or set aside, never removed or written over (stageZip,     *)
(* preparePending, ota_update_task, prepareIndex, reserveBundleJob).       *)
UpdatesWhole ==
  /\ [](subject = "bundle" => Update!TypeOK /\ Update!BootsComplete /\ Update!JobTrue)
  /\ [][EvidenceStep]_vars

(* A managed update is published, mapped and selected in that order,       *)
(* restarts and failed calls included (ManagedUpdate).                     *)
ImplementsManagedUpdate ==
  /\ subject = "bundle" => Update!Managed!Init
  /\ [][ManagedStep]_(Update!Managed!vars)

AcceptanceStep == subject = "acceptance" => Accepting!AcceptanceStep

(* The image is accepted only on evidence that still stands when it is     *)
(* written; and whatever path a round or a self-test leaves by, it keeps   *)
(* neither a guard nor the self-test slot (acceptHealthyManagedImage,      *)
(* runPolarRuntimeTest, servicePendingImage).                              *)
AcceptedOnEvidence ==
  [](subject = "acceptance" => Accepting!TypeOK /\ Accepting!NothingHeld) /\ [][AcceptanceStep]_vars

(* A pending image does not stay undecided: it is accepted, given up, or   *)
(* its window ends (servicePendingImage).                                  *)
Decided == subject = "acceptance" => <>(terminal # "no")

(* A trial exposes as a restart would if the page was saved, settings that *)
(* were saved are in use as config.ini has them, and the window of a zoom  *)
(* lies within the sensor's frame (handler_editflow, ReadParameter,        *)
(* SetZoomSize).                                                           *)
SettingsTrue == subject = "settings" => Camera!TypeOK /\ Camera!TrialsTrue /\ Camera!ZoomInside

(* A pin is known as it is, and subscribers know an output as it is while  *)
(* its pin is one, in whatever order changes, requests, polls, greetings,  *)
(* messages and initialisations have met (gpio_isr_handler, ~GpioPin,      *)
(* GpioPin::init, setValue, publishState, handleMQTT).                     *)
GpioTrue == subject = "gpio" => Pin!TypeOK /\ Pin!GpioTrue
=============================================================================
