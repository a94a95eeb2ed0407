------------------------------ MODULE MCSubsystems ------------------------------
(***************************************************************************)
(* The subsystems that need few states to be interesting, checked side by  *)
(* side: `subject` is chosen at the start and says which of them the       *)
(* behaviour is one of.  They share no state; a variable that several      *)
(* modules name is that of the subject, one that the subject lacks is None.*)
(***************************************************************************)
EXTENDS Integers, FiniteSets

CONSTANTS
  Period, LateLimit, CopyLimit,           \* FlowControl
  Intensities,                            \* CameraUse
  Announcements, Values,                  \* Mqtt
  Revision, Scale, Absent, Torn,          \* SettingsStore
  Workers, Versions,                      \* ArchiveReceiver
  Network, Installers, MaxOverlaps,       \* Loader
  Hosts, Levels, FirstHost, MaxLosses, Unset,   \* Startup
  Capture, Settings, SettingsOf, Healthy, Capacity, MaxBoot,   \* ImageArchive
  r1, r2, r3, c1, c2, day, None

VARIABLES
  subject, pc, processing, camera, client,
  safe, copies, stage, product, cycle, interval, late, phase, owed, reboot,
  registers, led, cc, changed, config, delayed, light, burning, frame, job, stream, memory,
  wifi, enabled, initialized, connected, handlers, listening, denied, greeting, failed, scheduled,
  k, sent, success, missing,
  kind, file, journal, tx, active, scan, fresh, found, summary, promised, crossed,
  upload, present, record, synced, receipts, recent, posix,
  tried, link, connecting, nvs, wifi_saved, at, card, flash, booting, running, proven, overlaps,
  start, flags, ini, draft, wlan, wlan_config, rewrite, uploaded, refused, cut, losses,
  spool, describe, images, settings, taken, boot, producing, copying, inbox, reserved, published,
  ready, entry, cursor, ticket, pruning

Flow     == INSTANCE FlowControl
Camera   == INSTANCE CameraUse
MQTT     == INSTANCE Mqtt
Setting  == INSTANCE SettingsStore
Receiver == INSTANCE ArchiveReceiver
Install  == INSTANCE Loader
Starts   == INSTANCE Startup
Archive  == INSTANCE ImageArchive

ASSUME SubsystemsAssumption ==
  /\ Flow!FlowAssumption /\ Camera!CameraAssumption /\ MQTT!MqttAssumption
  /\ Setting!SettingsAssumption /\ Receiver!ReceiverAssumption
  /\ Install!LoaderAssumption /\ Starts!StartupAssumption

Subjects == {"flow", "camera", "mqtt", "settings", "receiver", "loader", "startup",
             "archive"}

\* The variables of one module alone.
flowVars     == <<safe, copies, stage, product, cycle, interval, owed, reboot>>
cameraVars   == <<registers, led, cc, changed, config, delayed, light, burning, frame, stream, memory>>
mqttVars     == <<wifi, enabled, initialized, connected, handlers, listening, denied, greeting, failed,
                  scheduled, k, sent, success, missing>>
settingsVars == <<kind, file, journal, tx, active, scan, fresh, found, summary, promised, crossed>>
receiverVars == <<upload, present, record, synced, receipts, recent, posix>>
loaderVars   == <<tried, link, connecting, nvs, wifi_saved, at, card, flash, booting, running, proven, overlaps>>
startupVars  == <<start, flags, ini, draft, wlan, wlan_config, rewrite, uploaded, refused, cut, losses>>
archiveVars  == <<spool, describe, images, settings, taken, producing, copying, inbox, reserved,
                  published, ready, entry, cursor, ticket, pruning>>
vars         == <<subject, pc, processing, camera, client, late, job, phase, boot, flowVars, cameraVars,
                  mqttVars, settingsVars, receiverVars, loaderVars, startupVars, archiveVars>>

NoFlow ==
  /\ safe = None /\ copies = None /\ stage = None /\ product = None /\ cycle = None
  /\ interval = None /\ owed = None /\ reboot = None
NoCamera ==
  /\ registers = None /\ led = None /\ cc = None /\ changed = None /\ config = None /\ delayed = None
  /\ light = None /\ burning = None /\ frame = None /\ stream = None /\ memory = None
NoMqtt ==
  /\ wifi = None /\ enabled = None /\ initialized = None /\ connected = None /\ handlers = None
  /\ listening = None /\ denied = None /\ greeting = None /\ failed = None /\ scheduled = None
  /\ k = None /\ sent = None /\ success = None /\ missing = None
NoSettings ==
  /\ kind = None /\ file = None /\ journal = None /\ tx = None /\ active = None /\ scan = None
  /\ fresh = None /\ found = None /\ summary = None /\ promised = None
  /\ crossed = None
NoReceiver ==
  /\ upload = None /\ present = None /\ record = None /\ synced = None /\ receipts = None
  /\ recent = None /\ posix = None
NoLoader ==
  /\ tried = None /\ link = None /\ connecting = None /\ nvs = None /\ wifi_saved = None /\ at = None
  /\ card = None /\ flash = None /\ booting = None /\ running = None /\ proven = None
  /\ overlaps = None
NoStartup ==
  /\ start = None /\ flags = None /\ ini = None /\ draft = None /\ wlan = None /\ wlan_config = None
  /\ rewrite = None /\ uploaded = None /\ refused = None /\ cut = None /\ losses = None
NoArchive ==
  /\ spool = None /\ describe = None /\ images = None /\ settings = None /\ taken = None
  /\ producing = None /\ copying = None /\ inbox = None /\ reserved = None
  /\ published = None /\ ready = None /\ entry = None /\ cursor = None /\ ticket = None
  /\ pruning = None
Init ==
  /\ subject \in Subjects
  /\ IF subject = "flow"     THEN Flow!Init     ELSE NoFlow
  /\ IF subject = "camera"   THEN Camera!Init   ELSE NoCamera
  /\ IF subject = "mqtt"     THEN MQTT!Init     ELSE NoMqtt
  /\ IF subject = "settings" THEN Setting!Init  ELSE NoSettings
  /\ IF subject = "receiver" THEN Receiver!Init ELSE NoReceiver
  /\ IF subject = "loader"   THEN Install!Init  ELSE NoLoader
  /\ IF subject = "startup"  THEN Starts!Init   ELSE NoStartup
  /\ IF subject = "archive"  THEN Archive!Init  ELSE NoArchive
  /\ subject \in {"loader", "startup"} => pc = None
  /\ subject \notin {"flow", "settings"} => processing = None
  /\ subject \notin {"flow", "camera"}   => camera = None
  /\ subject \notin {"flow", "mqtt"}     => client = None
  /\ subject \notin {"flow", "archive"}  => late = None
  /\ subject \notin {"camera", "archive"} => job = None
  /\ subject \notin {"flow", "loader"}    => phase = None
  /\ subject \notin {"loader", "archive"} => boot = None

Next ==
  /\ UNCHANGED subject
  /\ \/ /\ subject = "flow" /\ Flow!Next
        /\ UNCHANGED <<job, boot, cameraVars, mqttVars, settingsVars, receiverVars, loaderVars,
                       startupVars, archiveVars>>
     \/ /\ subject = "camera" /\ Camera!Next
        /\ UNCHANGED <<processing, client, late, phase, boot, flowVars, mqttVars, settingsVars,
                       receiverVars, loaderVars, startupVars, archiveVars>>
     \/ /\ subject = "mqtt" /\ MQTT!Next
        /\ UNCHANGED <<processing, camera, late, job, phase, boot, flowVars, cameraVars, settingsVars,
                       receiverVars, loaderVars, startupVars, archiveVars>>
     \/ /\ subject = "settings" /\ Setting!Next
        /\ UNCHANGED <<camera, client, late, job, phase, boot, flowVars, cameraVars, mqttVars,
                       receiverVars, loaderVars, startupVars, archiveVars>>
     \/ /\ subject = "receiver" /\ Receiver!Next
        /\ UNCHANGED <<processing, camera, client, late, job, phase, boot, flowVars, cameraVars,
                       mqttVars, settingsVars, loaderVars, startupVars, archiveVars>>
     \/ /\ subject = "loader" /\ Install!Next
        /\ UNCHANGED <<pc, processing, camera, client, late, job, flowVars, cameraVars, mqttVars,
                       settingsVars, receiverVars, startupVars, archiveVars>>
     \/ /\ subject = "startup" /\ Starts!Next
        /\ UNCHANGED <<pc, processing, camera, client, late, job, phase, boot, flowVars, cameraVars,
                       mqttVars, settingsVars, receiverVars, loaderVars, archiveVars>>
     \/ /\ subject = "archive" /\ Archive!Next
        /\ UNCHANGED <<processing, camera, client, phase, flowVars, cameraVars, mqttVars, settingsVars,
                       receiverVars, loaderVars, startupVars>>

\* The tasks of the flow, the camera and the archive, one of each in a behaviour.
MainStep   == \/ subject = "flow" /\ Flow!FlowStep
              \/ subject = "camera" /\ Camera!RoundStep
              \/ subject = "archive" /\ Archive!Worker
InstallStep == subject = "loader" /\ \E w \in Installers : Install!Worker(w)
StartStep   == subject = "startup" /\ Starts!StartStep
WifiStep    == subject = "loader" /\ (Install!WifiTimeout \/ Install!WifiPersists)
WebStep    == \/ subject = "flow" /\ Flow!WebStep /\ UNCHANGED <<producing, reserved>>
              \/ subject = "camera" /\ Camera!WebStep /\ UNCHANGED <<producing, reserved>>
              \/ subject = "archive" /\ (Archive!Reserve \/ Archive!Drop)
WorkerStep == \/ subject = "flow" /\ Flow!TestStep /\ UNCHANGED <<producing, reserved>>
              \/ subject = "camera" /\ Camera!StreamStep /\ UNCHANGED <<producing, reserved>>
              \/ subject = "archive" /\ (Archive!Handoff \/ Archive!HandoffFails)
TimePasses == \/ subject = "flow" /\ Flow!Tick /\ UNCHANGED entry
              \/ subject = "archive" /\ \E i \in Archive!Slots :
                   entry[i].capture \in Healthy /\ Archive!BackoffElapses(i)
RebootStep == subject = "flow" /\ Flow!RebootStep
Scan       == subject = "settings" /\ Setting!Scan
Served(Send) == subject = "archive" /\ \E c \in Healthy : Archive!Sending(c, Send)
SettingsServed == Served(Archive!SendSettings)
ImageServed    == Served(Archive!SendImage)

handing == <<pc, producing, reserved>>
waiting == <<late, entry>>

\* The fairness of the modules' own LiveSpec, with one image in Healthy; each
\* step changes one of the variables it is named with.
Spec == /\ Init /\ [][Next]_vars
        /\ WF_pc(MainStep) /\ WF_handing(WebStep) /\ WF_handing(WorkerStep)
        /\ WF_at(InstallStep) /\ WF_connecting(WifiStep) /\ WF_start(StartStep)
        /\ WF_waiting(TimePasses) /\ WF_reboot(RebootStep) /\ WF_scan(Scan)
        /\ SF_pc(SettingsServed) /\ SF_pc(ImageServed)

MCPair   == {c1, c2}
MCPairOf == [c \in MCPair |-> day]
MCScale == [r \in {r1, r2, r3} |-> IF r = r3 THEN "other" ELSE "usual"]

------------------------------------------------------------------------------
(* Every result of a round is from the round's own picture, and the guards *)
(* are with those who work under them.  When the flow sleeps, each slot of *)
(* its cadence has had its round or was counted as missed, and the next    *)
(* round is due on a slot that is not past (ClassFlowControll::doFlow,     *)
(* doSingleStep, ProcessingAccess, task_autodoFlow, CycleSchedule::after). *)
RoundsKept ==
  subject = "flow" => Flow!RoundUsesOwnImage /\ Flow!GuardsReturned /\ Flow!SlotsKept

(* A round exposes under the settings in use and in the light of their     *)
(* intensity, whatever trials, previews and saves came before.  Whoever    *)
(* gives the camera back leaves no frame buffer taken and no light burning *)
(* that nobody asked for, the shared memory has one user at a time and     *)
(* none when it is free, and a free stream slot has no asynchronous        *)
(* request left open (changedCameraSettings, CaptureToBasisImage,          *)
(* psram.cpp, handler_stream).                                             *)
CameraKept ==
  subject = "camera" =>
    /\ Camera!TypeOK /\ Camera!RoundPictureConfigured /\ Camera!NothingLeftBehind
    /\ Camera!MemoryExclusive /\ Camera!StreamClosed

(* A round whose publication reports success had each of its topics        *)
(* accepted, but for the values when the connection was lost between the   *)
(* two looks at it; and a client that is connected listens to the control  *)
(* topics, after any number of lost connections and new clients, unless    *)
(* this session was refused them (ClassFlowMQTT::doFlow, MQTTPublish,      *)
(* mqtt_event_handler_cb, MQTTconnected, MQTT_Init).                       *)
MqttHonest == subject = "mqtt" => MQTT!RoundReportsTruth /\ MQTT!ListensWhenConnected

RegisterStep == subject = "settings" => Setting!Register!Next
SettingsStep == subject = "settings" => Setting!KeepsIndependent /\ Setting!KeepsScale

(* A settings file is one register across failed writes, power losses and  *)
(* recoveries: a save takes effect whole or not at all, over what its      *)
(* author had read, and what was answered as saved is there after any      *)
(* restart.  Settings that somebody else put in place are only overwritten *)
(* by a save whose author had read them, or by a recovery that had read a  *)
(* damaged or missing file before they came; no save and no other recovery *)
(* changes the scale of a register's history, and a summary of it is       *)
(* always one under the assumptions in force (recoverSettings, commit,     *)
(* handleProfileSettings, historyWorker).                                  *)
SettingsRegister ==
  /\ subject = "settings" => Setting!Register!Init
  /\ [][RegisterStep]_(Setting!Register!vars)
  /\ [][SettingsStep]_vars
  /\ [](subject = "settings" => Setting!HistoryCurrent)

(* What has been acknowledged is there, a capture with its image and its   *)
(* settings, and survives a crash of a POSIX host; of two uploads under    *)
(* one identity at most one is acknowledged, the one on disk.  On another  *)
(* host this holds until the machine stops (write_immutable,               *)
(* sync_directory, store_capture, do_POST).                                *)
ReceiptMeansKept == subject = "receiver" => Receiver!ReceiptMeansKept /\ Receiver!OneVersion

(* Whatever attempts to install failed and wherever the power went, an     *)
(* application that can start finds its bundle, its index, a configuration *)
(* and network settings that have worked, also when one request was heard  *)
(* while an earlier one still had its task; and until then the loader's    *)
(* status tells the truth of its one worker and of what is saved and       *)
(* selected, and requests are rejected while there is work (save_wifi,     *)
(* seedSetupConfig, install_package, persist_connected_wifi,               *)
(* retry_install).                                                         *)
InstallKept ==
  subject = "loader" => Install!TypeOK /\ Install!InstalledComplete /\ Install!PhaseTrue

(* An application that has started uses the network settings on the card,  *)
(* and wlan.ini is only empty after a rewriting that was cut short         *)
(* (app_main, ReadParameter, ChangeHostName, LoadWlanFromFile).            *)
StartHonest == subject = "startup" => Starts!TypeOK /\ Starts!StartHonest

Waiting ==
  CASE subject = "flow"     -> reboot # "no"
    [] subject = "camera"   -> stream.active /\ ~stream.watched
    [] subject = "settings" -> scan = "created"
    [] subject = "loader"   -> phase \in {1, 2, 3, 4, 6}
    [] subject = "startup"  -> start \in Starts!Starting
    [] subject = "archive"  -> \E i \in Archive!Holding("Pending") : entry[i].capture \in Healthy
    [] OTHER -> FALSE
Answered ==
  CASE subject = "flow"     -> reboot = "no" \/ Flow!Orphaned
    [] subject = "camera"   -> ~stream.active
    [] subject = "settings" -> scan = "idle"
    [] subject = "loader"   -> phase \in {5, 7} \/ phase <= 0
    [] subject = "startup"  -> start \in Starts!Rest
    [] subject = "archive"  -> \/ Healthy \subseteq images \/ ~ready
                               \/ \E i \in Archive!Holding("Blocked") : entry[i].capture \in Healthy
    [] OTHER -> FALSE

Resting ==
  CASE subject = "flow"    -> pc["flow"] \in {"round", "parked", "deleted"}
    [] subject = "archive" -> ~reserved
    [] OTHER -> TRUE

(* A reboot that was asked for restarts the device, unless it has deleted  *)
(* the flow task inside the MQTT client; a stream nobody watches any more  *)
(* gives its slot back; a scan of the history ends; an attempt to connect  *)
(* or to install is decided; a start comes to an end, whatever settings it *)
(* carries over to wlan.ini; and a queued image that the network serves is *)
(* delivered, although another fails for ever (task_reboot, streamWorker,  *)
(* historyWorker, install_worker, app_main, UploadQueue::begin).  For ever *)
(* again the flow task comes back to its next round, and the handoff of    *)
(* images to the worker is open (task_autodoFlow, submitArchiveImage, run).*)
RequestsAnswered == (Waiting ~> Answered) /\ []<>Resting
=============================================================================
