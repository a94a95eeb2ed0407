# AIEdge verification project

AIEdge is ESP32-CAM firmware that reads a utility meter with a camera: it takes an
image, aligns it, lets neural networks read the dials, accounts the consumption,
publishes the result and archives the images.  This directory holds TLA+ models of
its protocols, TLC configurations that check them on small instances, and TLAPS
proofs of the properties that matter most.

## 1. The system (inventory)

| Component | State it keeps | Operations | What is hard |
|---|---|---|---|
| Config journal (`ConfigJournal.h`, `FileConfigStorage.h`, `SaveCameraIntensity.h`) | `config.ini`, `config.ini.journal`, `ConfigStorage::safe()` | `recover`, `commit`, the two HTTP saves, `InitFlow` | power loss in the middle of a rewrite; failed restorations; writers that bypass the journal (file manager, startup migration) |
| Settings stores (`MeterAssumptionsStore.h`, `MeterProfileStore.h`, `ImageArchiveSettingsStore.h`) | one JSON file and one journal each, the settings in force, the summary of the history | `recoverSettings`, `inspect`, `commit`, the HTTP editors, `historyWorker` | files that did not exist before; a valid third revision found next to a journal; saved but not active; a scan that outlives the settings it began with |
| Meter checkpoints (`MeterCheckpointStore.h`, `MeterRecovery.h`, `MeterSession.h`) | two slots with generations, segment files, the accounting session | `loadCheckpoint`, `saveCheckpoint`, `Recovery::initialize/save`, `Session::observe/reject/rotate` | torn slots, rollover of segments before their checkpoint, restarts |
| Meter accounting (`MeterAccounting.h`, `MeterCumulative.h`, `MeterSession.h`, `MeterHistory.h`) | session, cumulative bounds, the segments | `reconstruct`, `resolve`, `Cumulative::observe`, `checkpointSegment`, `summarizeSegments` | wrap-around, jitter about a carry, bounds carried from frame to frame, copies of one segment |
| Image archive (`ImageUploadQueue.h`, `ImageArchiveEngine.h`, `ImageArchiveWorker.cpp`, `ImageSpool*.h`) | upload queue, spool directory, settings snapshots | enqueue, upload step, retry, cleanup, recovery | lost or duplicated uploads, full queue, crash between the three files of one image |
| Archive receiver (`receive_images.py`, `image_archive_store.py`) | objects and capture records in directories | upload of settings and captures | two requests under one name; acknowledged before the directory is synced |
| Updates (`StageDeviceBundle.h`, `InstallBundleIndex.h`, `BundleSelection.h`, `server_ota.cpp`, `OtaHealthPolicy.h`) | staged and installed bundles, per-application index, OTA partitions | stage, install, boot selection, health acceptance, rollback | crash between flash, index and boot selection |
| Loader (`src/bootstrap`) | phase, saved network, what the card and the flash hold | Wi-Fi setup, installation, retries | an attempt that finds what earlier ones left; a phase without its worker |
| Start-up (`main.cpp`, `softAP.cpp`, `AIEdgeFirstBoot.h`, `StorageRecovery.cpp`, `read_wlanini.cpp`) | status flags, `wlan.ini`, the first boot's draft | the checks in their order, access point, carrying settings over | files rewritten in place; restarts the device asks for itself |
| Flow control (`ClassFlowControll.cpp`, `MainFlowControl.cpp`, `CycleSchedule.h`, `ProcessingAccess.h`, `CameraAccess.h`) | access guards, flow task, the pipeline, the cadence | rounds, `InitFlow`, HTTP triggers, self-test, reboot | tasks deleted while holding a guard; stages appended twice; late rounds |
| Camera (`ClassControllCamera.cpp`, `ClassFlowTakeImage.cpp`, `server_camera.cpp`, `psram.cpp`) | sensor registers, light, frame buffer, shared memory, stream | round's picture, single pictures, trials, saves, reference, stream | what an abandoned picture leaves behind; whose settings the next one is taken under |
| MQTT (`interface_mqtt.cpp`, `server_mqtt.cpp`, `ClassFlowMQTT.cpp`) | connection flags, failure counters, registered topics | init, publish, events, destroy | event task against publishing task |
| Post processing (`ClassFlowPostProcessing.cpp`) and readout (`ClassFlowCNNGeneral.cpp`) | previous values; the digits of a number | `doFlow`, `SetPreValue`, `LoadPreValue`, `SavePreValue`; `getReadout`, `PointerEval*` | rejection rules, damaged rows; dials that disagree near a carry |
| Recognition (`ClassFlowAlignment.cpp`, `CFindTemplate.cpp`, `CAlignAndCutImage.cpp`, `CTfLiteClass.cpp`, `ClassFlowCNNGeneral.cpp`) | the picture of the round, `align.txt`, the network that is loaded, what each dial shows | alignment, cut, inference, polar reader | results of another picture; a model or template replaced under a flow; a dial an inference failed on |
| Configuration reading (`ClassFlowControll.cpp`, `ReadParameter` of each stage, `ConfigFile.cpp`) | the stages of the flow and their settings | `InitFlow`, `CreateClassFlow`, `ReadParameter` | who takes which line; sections turned down half-way; repeated calls |
| Camera settings (`edit_reference.html`, `edit_config_param.html`, `handler_editflow`, `ClassFlowTakeImage::ReadParameter`, the sensor drivers' use) | the page, `config.ini`, the settings in use, the sensor's registers | open, change, try, save, restart | two pieces of code that read the same setting, each with its own limits |
| Other outputs (`ClassFlowInfluxDB*.cpp`, `ClassFlowWebhook.cpp`, `interface_influxdb.cpp`, `interface_webhook.cpp`) | what the databases and the webhook were told | one publication per round and output | a time or picture of another round; a previous value set in between |
| GPIO (`server_GPIO.cpp`) | pins, queue of the interrupt, topics | interrupts, polls, HTTP and MQTT switching, re-initialisation | five tasks on one pin; what is published comes back as a command |
| WLAN (`connect_wlan.cpp`) and status LED (`statusled.cpp`) | link, attempts, roaming; the LED's task | event handler, scan and roam, blinking | events that cross; a task deleted by the one that waits for it |
| Access control (`WebsiteAccess.cpp`, `SerialParser.h`, `Credential*.h`) | the password record in NVS, codes, the queue of USB commands | setup, change, recovery, sign-in | a write that fails half-way; a remembered password; codes used twice |
| File manager and pages (`server_file.cpp`, `server_main.cpp`, `server_help.cpp`) | files on the card, `UpdateAccess` | upload, download, delete, serving pages | broken uploads, tasks that rewrite the configuration meanwhile |
| Pages that read (`MainFlowControl.cpp`, `server_main.cpp`, `server_camera.cpp`, `GetJPGStream`) | the answer under way; the flow's status, rounds and stages, which they share without a lock | `/value`, `/json`, `/metrics`, `/img_tmp/`, `/editflow`, `/doinit`, status pages, captures | an answer in pieces while the flow goes on; a stage that is not there; one answer for each request |
| Log and clock (`ClassLogFile.cpp`, `time_sntp.cpp`) | daily files, one shared handle | `WriteToFile`, `send_logfile`, `RemoveOld*` | a clock that jumps from 1970; a handle two tasks share |
| Unmanaged update (`server_ota.cpp` without `METER_REQUIRE_BUNDLE`) | `update.txt`, the package, the interface's folders, two slots | upload, `CheckUpdate`, `ota_update_task` | an update that is tried twice; an interface replaced by renames |

How the components meet.  One *flow task* runs everything that belongs to a reading:
take image, align, recognise (neural networks or the polar pipeline), post process or
account, then the outputs.  The *web server* serves requests on its own task and calls
straight into the same objects; the *MQTT client* calls handlers on a third; the
*image archive* has a low-priority worker; an update has a task of its own.  What
keeps them apart are three guards taken without waiting or with a short deadline
(`ProcessingAccess`, `CameraAccess`, `UpdateAccess`) and, for the archive, one atomic
flag.  Some entry points take none of them (setting a previous value, a reboot, GPIO, the
log), and the file manager only the update guard.  All state that survives is files on a FAT card, where
`rename()` does not replace an existing file and power can go between any two calls,
and two flash slots with a selection of the one to boot.

## 2. Modules

| Module | Models | Abstract specification | Run(s) | Proofs |
|---|---|---|---|---|
| `ConfigJournal` | `config.ini`, its undo journal, all writers | `AtomicConfig` | `config_journal`, `config_migration_ignores_journal` | `ConfigJournalProofs` |
| `MeterCheckpoints` | checkpoint slots, segment archive, controller | `MeterLedger` | `meter_checkpoints`, `meter_torn_archive` | `MeterCheckpointsProofs` |
| `ImageArchive` | producer, worker, spool, upload queue, network | `DeliveredImages` | `image_archive`, `subsystems` | `ImageArchiveProofs` |
| `BundleUpdate` | staging, installing, boot selection, bootloader | `ManagedUpdate` | `device` | `BundleUpdateProofs`, `MCDeviceProofs` |
| `ImageAcceptance` | first boots of an updated image, self-test, guards | - | `device`, `image_acceptance_busy` | `MCDeviceProofs` |
| `CameraSettings` | settings from a page to the sensor's registers | - | `device` | - |
| `Gpio` | pins between interrupts, polls, requests and messages | - | `device` | `MCDeviceProofs` |
| `PostProcessing` | judging readings, previous values and their file | - | `readings`, `post_processing_stale` | - |
| `MeterConsumption` | five dials to a register, intervals, totals, segments, summary | - | `readings`, `consumption_at_zero` | - |
| `Readout` | what is seen of the dials to the digits of a number | - | `readings` | - |
| `FlowControl` | flow task, rounds, cadence, requests, reboot | - | `subsystems` | `MCSubsystemsProofs` |
| `CameraUse` | pictures of rounds, requests and streams | - | `subsystems` | `MCSubsystemsProofs` |
| `Mqtt` | client, events, publication of a round | - | `subsystems` | `MCSubsystemsProofs` |
| `SettingsStore` | the three settings stores, history scan | `AtomicConfig` | `subsystems` | `MCSubsystemsProofs` |
| `ArchiveReceiver` | concurrent requests to the receiver | - | `subsystems` | `MCSubsystemsProofs` |
| `Loader` | the bootstrap loader's installation | - | `subsystems` | `MCSubsystemsProofs` |
| `Startup` | start of the application, access point, `wlan.ini` | - | `subsystems` | `MCSubsystemsProofs` |
| `LegacyUpdate` | the update of a build that is not managed | - | `services` | `MCServicesProofs` |
| `Access` | the password of the website | - | `services` | `MCServicesUserProofs` |
| `Wlan` | the connection and the status LED | - | `services` | `MCServicesUserProofs` |
| `Configuration` | how `config.ini` becomes the stages of a round | - | `services` | `MCServicesUserProofs` |
| `Logs` | daily files, their removal, the clock | - | `services` | `MCServicesProofs` |
| `FileServer` | file manager and pages | - | `services` | `MCServicesProofs` |
| `Outputs` | databases and webhook | - | `services` | `MCServicesProofs` |
| `Recognition` | alignment, cut, networks | - | `services` | `MCServicesProofs` |
| `WebPages` | what requests that read are answered while rounds run | - | `services` | `MCServicesUserProofs` |

Modules with very many states have an `MC...` module and a run of their own.  The others
are checked side by side: `MCDevice`, `MCReadings`, `MCSubsystems` and `MCServices`
instantiate several modules, choose at the start which `subject` the behaviour is one of,
and leave the variables of the rest at `None`; a property `P` of a module appears there as
`subject = "..." => M!P`.  The modules share no variables.
Where one component appears in another it is through what it does there: `InitFlow`
recovers the journal in `ConfigJournal`, the camera guard is a variable of
`ConfigJournal`, `FlowControl`, `CameraUse` and `ImageAcceptance`, an image that
`BundleUpdate` selects starts the life that `ImageAcceptance` follows, the receiver
that `ImageArchive` assumes is `ArchiveReceiver`, the stages whose settings
`Configuration` reads are those that `FlowControl` runs, what `Recognition` shows of the
dials is what `Readout` joins, the digits it makes are the readings that
`PostProcessing` judges, and `Outputs` reports them.

Section 11 says what is proved, and what is beyond the prover.

## 3. Config journal

**Model.**  One action is one storage call of `ConfigJournal::recover` and `commit`
(`FileConfigStorage.h` for what a call does).  `pc` is the next call of the task that
owns the camera guard, `tx` its two sides, `journal` the record on the card; a file
opened for writing is empty at once and an arbitrary prefix until it is closed, and
every call may fail.  Around it: `InitFlow` of the flow task and of the web request,
the two journaled saves, the file manager's upload and delete, a camera stream that
keeps the guard, and the startup migration, split at each call.  `Crash` happens at
any point.  `promised` is history: what the replies so far let a client believe.

**`config_journal`** checks that every answer stays true (`PromiseKept`); that only a
decodable journal stands beside a damaged file, that recognition stays blocked until
the repair and that uploads and journals exclude each other (`DamageRepairable`); that
neither the journal is dropped early nor a configuration overwritten that the client
had not read (`NothingLost`); and that, seen through its recovery, the file is the
register `AtomicConfig` (`AtomicRegister`).  Two configurations of the old form and two
of the new are enough: every statement is about which of *two* sides a file holds and
one more value that is neither.  There is no bound on crashes, saves or boots.

**`config_migration_ignores_journal`** is a disagreement found: the startup migration
rewrites `config.ini` while a journal is pending, although `server_file.cpp:575` says
that such a journal owns the file.  In the same place the migration reports a backup
that may not exist: it renames onto `config.bak`, which FAT refuses when there is one,
and the result is ignored (`Helper.cpp:379`, `main.cpp:928`, `main.cpp:943`).

Two paths the model has and no property forbids: a journal torn by a power loss
refuses every later initialisation until it is removed by hand (the code never guesses
a journal away), and `InitFlow` with the camera busy leaves the configuration marked
unsafe until the next initialisation.

**Proved** in `ConfigJournalProofs`, for every set of configurations and every
migration, from `ConfigAssumption` (the special contents differ from the
configurations and from each other; the migration maps configurations to
configurations): `TypeCorrect`, `PromisesKept`,
`DamageStaysRepairable` (from `NeverTorn`, `RecognitionSafe` and `UploadExclusion`) and
`ImplementsAtomicConfig`.  None of these is inductive: a commit in progress relies on what its
earlier calls have verified.  `Inductive` adds `Control` (the owner of the guard, its
position and its arguments agree, and boot, migration and upload exclude each other)
and `Progress` (what each position knows of the two files: for instance that at
`configOpen` the file is still the old side, and that at `commitRemove` it is the
new one).  `StepInductive` has one step per action, split by conjunct where several
are disturbed; `StepRefines` maps each action to a step or a stutter of the register.
`NothingEverLost` proves both action properties: of the five steps that change a
decodable journal, `Progress` says of each that the file is one of its sides
(`StepEvidenceKept`), and at `configOpen` that it is still the old one.

## 4. Meter checkpoints

**Model.**  Per namespace (one per maximum-flow assumption) two slot files, a set of
complete segment files and the names of the torn ones.  `active` is the session and
its `Recovery`; `next` the pair about to replace it during a switch.  `pc` walks a
save: archive the restored segment, open the slot, close it with the readback.
Observations, rejections, the one initialisation per boot and switches of the
assumptions are actions; `Restart` comes between any two of them, and may bring
another firmware (`identity`).  A reading is the boot and the position of its image:
what it amounts to does not matter to persistence.

**`meter_checkpoints`**: what the status page calls persisted is the newest record
and loadable (`PersistedMeansOnDisk`); consumption is never measured across a gap, and
segments of a namespace never overlap in time, or the history reader would reject
them all (`SegmentsSound`); nothing is written after an uncertain write until the files
are inspected again, a switch never loses the outgoing reference, and another
firmware's records stay (`RecordsProtected`); and the files are the ledger of
`MeterLedger` (`ImplementsLedger`).  Bounds: three power-ups, three images
and three generations: two generations fill both slots, the third is the first to
overwrite one, and it is also the limit, so exhaustion happens too.  Three boots let a
record be torn, found, and found again.  The namespaces are symmetric.  Deadlock
checking is off because all bounds may be used up.

**`meter_torn_archive`**: after a power loss while a segment file is written, every
later boot reports `conflict` and stops saving, although the copies agree; the
documents describe `conflict` as contradicting copies.

**Proved** in `MeterCheckpointsProofs`, for every set of namespaces and firmwares and
every bound, from `CheckpointAssumption` (bounds positive) and `SentinelAssumption` (the
special values are no records): `CheckpointTypes`, `CheckpointPersisted`,
`CheckpointSegments`, `CheckpointRecordsProtected` and `CheckpointImplementsLedger`.
`Inductive` adds to the types what each slot and each segment is evidence of:
`SlotsOrdered` (two readable slots have neighbouring generations, so that the newest is
always known), `CardPast` (nothing on the card is later than what memory has seen),
`SegmentsDisjoint`, `Owned` (a save writes for the active session, which may be written,
and one that is about to replace it waits for that) and `Sound` in its three parts: what a
session `Measures` since its reference, how it `Continues` the segment that was restored,
and what of it is `OnCard`.  The lemmas about the slots (`HeadFacts`, `TearKeepsHead`,
`WriteMakesHead`, `HeadFound`) are stated once: a torn write leaves the head, a complete
one makes it, and `loadCheckpoint` finds it.

## 5. Image archive

**Model.**  The producer (capture callback) reserves the one job, copies an image and
queues it, or gives up at any of these; the worker receives, stores settings and
image, uploads both, removes what was acknowledged, prunes settings and gives the
reservation back, one action per call.  `entry` are the slots of the upload queue
with their backoff; `spool` and `describe` are the files with their pending forms.
The receiver may finish a request the device gave up (`late`).  Bytes, hashes and
receipts are abstracted to matching or not.

**`image_archive`**: the spool never outgrows its limit, counting leftovers, an image
never lacks its settings, a queue entry's file is complete and has one entry
(`CardConsistent`); the reservation has exactly one owner (`OneBuffer`); an
acknowledged image is not sent again in the same boot, and an image stays on the card
until the receiver has it (`DeliveryKept`, with `DeliveredImages`).  Bounds: four images
with two settings through three slots (so that the queue fills and settings are shared,
and pruning one set meets images of the other), three boots.

**Liveness** is in `subsystems` (subject `archive`): an image whose requests can get
through is delivered although another fails forever, unless it is blocked for the
operator or the worker stops being ready (`RequestsAnswered`); and the reservation is
always given back (its second part).  Two images suffice: one served, one that always
fails.  Fairness: the worker and the producer are tasks the scheduler runs (weak
fairness), backoffs end (weak), and of the network only that a request sent again and
again for a *healthy* image succeeds at some time (strong, on exactly those sends).
Nothing is assumed of the other image, of crashes or of failing storage.

**Proved** in `ImageArchiveProofs`, for every set of images and settings, every capacity
and any number of boots, from `ArchiveAssumption` (every image has settings; images,
settings and `None` are different): `ArchiveTypes`, `ArchiveCardConsistent`,
`ArchiveOneBuffer` and `ArchiveDelivery` with the refinement of `DeliveredImages`.
The limit of the spool is the hard part: the worker counts before it writes, so that
`Budget` counts the files that are there and the `Outstanding` one that the worker has
been granted.  `Working` and `Writing` say what the worker's position knows,
`SettingsAccompany` and `QueueMatchesCard` relate files, settings and entries,
`OnePlace` that an image is in one of them, `Queued` that entries are in use exactly while
they are found, `OneBuffer` who owns the reservation.  The cardinality lemmas
(`OneMoreFile`, `NoMoreFiles`, `NewFiles`) are cited by each action that writes.  Delivery
under fairness stays with TLC.

One path without a property: a settings file torn by a power loss keeps its pending
name, later images with these settings fail and the pruning of others stops; the code
keeps partial files on purpose.

## 6. Updates

**`BundleUpdate`** walks a job through its phases: reserve and start the worker; stage
an archive (extract, verify, publish the object by rename, set aside what an
interrupted attempt left); install (verify, write the inactive slot, publish the
index, select, read back).  Every step may fail, `Reset` may come anywhere, and
uploads to the card interleave.  The bootloader, with and without rollback (chosen
initially), and the functions of the SDK are external and modelled from how
`server_ota.cpp` uses them.  Assumed: a rename on the card is atomic and durable
(the documents say that `fsync` does not prove this of the directory); each version
has its own application; the device was installed with its bundle and index; the
build requires bundles (`METER_REQUIRE_BUNDLE`).  Busy guards fold into failing.

In **`device`** (subject `bundle`) one bundle brings a new application and a second one
claims the application that has been there, so that it must be refused, and one tree is
kept aside where the code keeps 32.  Checked: the
next boot finds a complete application with its assets wherever power goes, and the
assets of the running application and of the fallback stay (`BootsComplete`); what the
status page says is true, and a job is active exactly while a worker will report on it
(`JobTrue`); interrupted work is published or set aside, never removed
(`EvidenceRetained`) - the three together are `UpdatesWhole` - and it all implements
`ManagedUpdate` (`ImplementsManagedUpdate`).

**Proved** in `BundleUpdateProofs`, for every set of bundles and applications and every
number of trees kept, from `UpdateAssumption` (every bundle has an application, the
factory bundle is one, the special values are none): the three properties and the
refinement, and in `MCDeviceProofs` the same of the composition (`DeviceUpdatesWhole`,
`DeviceImplementsManagedUpdate`).  `Inductive` consists of `JobConsistent` (what the
worker's position says of the job and the guard), `CardWhole` (only whole trees are
published, only whole bundles of the application mapped), `SlotsWhole` (which of the two
slots may be written: never the one that runs, is selected, or is the fallback of a
pending image) and `ReportTrue` (what a worker is *about* to report is so already).

**`ImageAcceptance`** is the flow task between rounds (`servicePendingImage`), the
self-test a request may run as well, and the three guards, which other requests
also take.  `readable` stands for the three vetoes (unreadable configuration, system
fault, rejected bundle).  `recent` and `ran` are history.  `device` (subject
`acceptance`) checks
that acceptance rests on evidence that still stands when it is written
(`AcceptedOnEvidence`), that the flow task holds no guard between rounds and the
self-test slot has one reporter (`NothingHeld`), and that a pending image is decided
(`Decided`) under fairness of the flow task and of time
passing - the flow task runs forever and the window is real time; nothing is assumed
of requests.  With the cycles switched off by the configuration there is a single
call and no such promise.  Two accepted cycles stand for the code's three: a streak
can be begun, broken and begun again.  `image_acceptance_busy`: a camera guard that is
busy when the self-test starts makes the image unacceptable for the rest of the boot,
where `OTA-STATUS.md:449` says that busy locks defer.

**Proved** in `MCDeviceProofs`, for every length of the streak
(`AcceptanceAssumption`): `DeviceAcceptsOnEvidence`, which is both properties.  `Inductive` is `StreakRecent` (the streak
counts cycles that are remembered as accepted), `GuardsWhere` (who holds a guard is at a
step that needs it, listed in `HoldsAt`), `TestReported` and `EvidenceStands` (while the
evidence is looked at, no self-test can change it, for it would need the same guard).
`Decided` is a liveness property and stays with TLC.

**`CameraSettings`** (subject `settings`) follows a setting from what a page shows over the
request of a trial and the line in `config.ini` to the registers of the sensor, with each
limit, list of words and clipping of `handler_editflow`, of `ReadParameter` and of the
camera class, for three sensors.  The picture of a trial is taken when the page asks for it; a
round in between sets the sensor back to what is in use, and the picture is then of that.
`SettingsTrue`: a trial exposes as a restart would after saving the page, unless a round came
between, saved and acknowledged settings are in use as the file has them, and the window of a
zoom lies within the sensor and is no smaller than the picture.  A behaviour follows one group
of settings that belong together (`Followed`), such as the zoom with an offset or its size;
numbers are entered at their limits and between.  Left out (`SettingsAssumption`) is the
automatic sharpness, which both pages send as off whatever they show.  Left out of the module
are the light's own save (`handler_save_stream_intensity`, a writer of `ConfigJournal`) and a
`config.ini` that cannot be written (`ConfigJournal` as well).  `WaitBeforeTakingPicture` 0 is
kept as 0 from a request until the next restart, which reads 2 from the file; the pages send it
only if somebody enters it.

**`Gpio`** (subject `gpio`): an interrupt queues the changes of one pin, the GPIO task takes
them and polls the output, requests and MQTT commands switch it, the client greets each new
session and then subscribes, and every initialisation of the flow deletes the pins and makes
new ones, step by step and with no lock: `clear`, `readConfig`, the interrupts and topics, the
task.  A level is read in one step and published and kept in another, by the task, by a
greeting and by a request; what was read of a pin that has been deleted since is published or
not, and kept nowhere (`PublishRead`, `Kept`).  Deleting a pin resets it (`ResetPin`): an output
is none until `GpioPin::init` makes it one again, at the level that was set last (`latch`), and
its pin is at what the pull-up makes of it meanwhile.  `GpioTrue`: once the queue is empty the
pin is known as it is, unless its last change was not queued or a greeting has read another
level; once nothing is under way, an output that is one is at the level subscribers were told,
unless the last message was not handed back.  What is published on the topic
of an output comes back as a command (`echo`).  One queued change behind the one the task has
taken, one message under way and two initialisations reach the full queue, crossing commands
and readings of deleted pins.

The model shows six things that its property has to allow.  While the pins are made anew an
output is no output, and it is none for good when the flow finds `[GPIO]` switched off
(`server_GPIO.cpp:51,236-241`): subscribers are told neither.  A greeting between `readConfig`
and `GpioPin::init` reads a pin that is no input yet as 0 (`GreetReads`).  A greeting that has read the pin
before a change keeps the older level after the task has kept the newer one (`missed`; it lasts
until the next change or greeting).  An output that nobody switches is told to nobody when a
session begins, only inputs are greeted.  A change between the first interrupt's registration
and the creation of the queue, a few lines later, finds no queue: the device restarts.  And
`gpio_get_level` of an output may read 0 whatever the output is at (`Poll`): subscribers are
told 0, and because it comes back as a command, the output is switched off.  The topic of an
output is registered once: pins of a later initialisation with another name are not listened
for, and a command reaches the pin that registered it, deleted or not.

**Proved** in `MCDeviceProofs` for every length of the queue, number of messages and of
initialisations: `DeviceGpioTrue`, from `Underway` (what is under way, and for whom),
`PinsStand` (pins are those of the last initialisation, nothing has been read of those being
made, and a handler is registered before anything is read), `WatchStands` (the last change
queued, else the one the task has taken, else what is known and what a greeting is about to
keep, is the present level) and `OutputStands` (subscribers were told what comes back last;
when nothing is under way the output is to be at what they know, and it is there while it is an
output).

`DeviceSettingsTrue` proves `SettingsTrue` for every set of settings that are followed
together, the automatic sharpness left out (`SettingsAssumption`), so also for all the others
at once, which TLC cannot enumerate.  `CameraTrial` and its three lemmas say, table by table,
that a request and a start make the same of what is shown and written; `CameraAgree`, that
values which agree end in the same registers, a window without its zoom and the wait being of
no account; `CameraInside`, that whatever offset and size are set, the window is
inside.  The invariant adds to the property `InUse` (each setting whose save is not cut short is
in use as the file has it), `ValuesSound` (what may be in the file, on the page and in use) and
`PagesSound` (what is about to be sent has been written, and an untouched page of the
configuration would write what the file has).  It needs them because a page sends
only its own settings: the rest must be in use already.

## 7. Readings

The run `readings` has three subjects: the digits that are made of what is seen of the
dials (`Readout`), the value that is judged against a previous one (`PostProcessing`),
and the frame of a gas meter that is accounted for (`MeterConsumption`).  All numbers
are the code's own, in whole units.

### Post processing

**Model.**  `doFlow` takes each number in turn: `Judge` is one of five outcomes
(unreadable, negative, too fast, plausible, unchecked), `Accept` takes the value
over, then `SavePreValue` runs call by call.  `SetPreValue` runs beside it, from
the web or MQTT task (at most one at a time), without a guard: it changes the value in one
step, the time and the flag in another, and saves like the round.  `Restart` loads
`prevalue.ini` as `LoadPreValue` does: all lines or none, each valid for
`PreValueAgeStartup`; a number without a line starts with whatever time its memory
holds, since nothing initialises it.  A save that fails leaves a prefix of the lines,
possibly with a last value cut short that still parses.

Abstractions: values are counted in units of the last digit, and computed exactly where
the code uses `float`; the decimal shift is part of the unit; all lines are formatted
in one step; a save interrupted by a power loss leaves an empty file; of two saves at
once the later close wins; the clock may start again at zero after a restart.  The
file format of older versions, the data log and the formatted outputs are left out.

In **`readings`**, `PreviousKept` is two statements: `RetryKept` - after any failure to open, write or close the
file in a round or a request, the flag that makes a later round save again stays set,
so the values in use are on the card or will be; `ConsistencyRepairs` - the repair of
digits by `checkDigitConsistency` restores lagging digits and single misread ones, for
every previous value of two digits.  A rolling meter with hidden digits and a rate
limit, and one with a dial that may run backwards, take every branch; two moments
distinguish expired from valid.

`RetryKept` is limited to saves that a request and a round did not share: when they
overlap, the flag one of them set may be cleared by the other's save of older values,
and a round's older reading overwrites the value a request was told is set.  The
model has these steps; no document promises otherwise.  Nor does any property cover
that a raw reading with a hidden digit in the middle is taken over as its prefix.

**`post_processing_stale`**: with `CheckDigitIncreaseConsistency` the digits are
repaired against the previous value even when it is not valid, so that the first
reading after a start without saved values (or with expired ones) takes its upper
digits from it.

### Readout

**Model.**  One action is one turn of the loop of `getReadout`, from the lowest dial up.
A position of the meter is chosen, each dial shows it as its gears do (a wheel turns
while all below it go from 9 to 0) and is seen a little off, or not at all; the
`PointerEval*` functions are the code's, in tenths of a division, with each comparison
as the floating-point arithmetic of the code decides it.

**`ReadoutTrue`**: the digits are those of a position at which the lowest dial was
seen; no place is a turn ahead of or behind the one below it.  The run has three
pointers that turn either way, misjudged by two tenths, the lowest clockwise and with
extended resolution; two wheels misjudged by one tenth; three wheels seen exactly; and
two wheels that lag a tenth behind a pointer; with wheels that the network rejects.
Every seventh tenth of four dials' turns meets every pair of neighbouring digits.

It does not hold further out, and the model has been run there: wheels misjudged by two
tenths (9.1 seen as 9.3 below a wheel at 9.9); a carry through two wheels seen a tenth
apart (5.0, 0.0, 9.9 is read 599, since `PointerEvalHybridNew` compares what was *seen*
of the wheel below and not the digit it was taken for); a wheel ahead of a pointer near
its zero.  A counterclockwise pointer at exactly zero is 10.0, and as the lowest one is
written as two characters; the comment at `ClassFlowCNNGeneral.cpp:169` describes that
error for wheels and only those are guarded.  The model with classes, whose digits are
joined as they are, and the frames of the polar reader are left out.

### Meter consumption

**Model.**  The five dials of a register of 200 million units of 0.05 cubic feet at
their real scale, read with the errors the code assumes, in chosen moments of two
devices: one about to carry through all dials, with a maximum flow, and one about to
come round, without.  `Observe` is `Session::observe` with `reconstruct`, `consistent`,
`resolve` and `Cumulative::observe`; `Save` and `Restart` put segments on the card and
start another; `Summary` is `summarizeSegments`.  `used` and `start` are history: what
has really flowed.

`TotalsBounded` is the following three.  **`ConsumptionBounded`**: as long as readings err by no more than assumed, what has
flowed is within the reported bounds of every interval and of the total, an estimate is
as near as its dial can be read; **`HonestAccepted`**: such a reading is turned down only
when the whole register comes round.  **`HistoryCounts`**: a segment can be saved at any moment and
rebuilt with bounds that hold, and the summary of segments found in any order, each of
them twice, covers each stretch once.  Three readings with every error at its extremes
let bounds be carried over, narrowed and rebuilt; three segments let one be continued
and another begun.

After a rollover the register stands below the reference, and every reading is turned
down until the device restarts or the assumptions are switched.  `consumption_at_zero`
is the other side of that: a meter just above zero that reads a little below it once is
taken to have run through its whole register, although `METER-ACCOUNTING.md:16` says
that a rollover is flagged and never assumed to be forward use.

## 8. Subsystems

The run `subsystems` checks the modules below, and the liveness of `ImageArchive`.

**`FlowControl`.**  The flow task, the web task and the self-test's, with the
processing flag, the camera mutex and the lock inside the MQTT client; time is relative
to the slot of the current round.  A round's stages are actions with the guard they
take; `/doinit` appends the stages once more, as `CreateClassFlow` does (`CopyLimit` 2).
`RoundUsesOwnImage`: every result is from its round's own picture, whatever stage failed
and however many pipelines there are, and guards are with those who work under them.
`SlotsKept`: when the flow sleeps, each slot of its cadence had a round or was counted
missed, and the next deadline is a slot that is not past (period 2, up to three ticks
late, so that a round ends before, on and after the next slots).  `RequestsAnswered`: a
reboot that is asked for restarts the device, unless `DeleteMainFlowTask` has caught
the flow task inside the client's lock, which `MQTTdestroy_client` then waits for.
Alignment from the web page takes the camera before processing, against the comment of
`ProcessingAccess.h`; since neither waits for the processing flag this deadlocks nobody.

Proved (`SubsystemsRounds`) for every period, bound on lateness and number of pipelines:
`RoundsKept`.  `Inductive` adds `Places` (where each task can be), `StageStands` (which
stage a round has come to) and `Cadence`, which makes the arithmetic of the slots hold for
every period: with `owed` slots come and not yet served, a round that has begun is
`owed * Period + phase` behind its slot and one that has not `(owed - 1) * Period + phase`;
`Slots`, `FewSlots` and `AfterSlot` are the lemmas about that product.

**`CameraUse`.**  Pictures of rounds, single pictures, trials, saved settings, the
stream and the light.  `RoundPictureConfigured`: a round exposes under the settings in
use and in the light of their intensity.  `NothingLeftBehind`: no path gives the camera
back with a frame buffer taken or a light burning that nobody asked for.
`MemoryExclusive`: the shared memory has one user, and none when it is free.
`StreamClosed`: a free stream slot has no asynchronous request open.  A stream nobody
watches ends (`RequestsAnswered`).  Two intensities; the registers are "saved" or "trial".

Proved (`SubsystemsCamera`) for every set of intensities: `CameraKept`.  `Inductive` adds
`Places` (where each task can be while it has the camera, the frame buffer or the job),
`SensorConfigured` (without a change to undo the sensor has the settings in use),
`LightAccounted` (a light that nobody asked for is that of a picture under way) and
`MemoryKept` (who uses the memory, and at which steps).

**`Mqtt`.**  Wi-Fi events, client events, registered topics and the publication of a
round, message by message (two announcements, two values).  `MqttHonest`: a round that
reports success had each topic accepted, and a connected client that has greeted the broker
listens to the control topics unless this very session was denied them: the result of
`esp_mqtt_client_subscribe` is ignored (`interface_mqtt.cpp:467`), so that a client whose
subscription was refused stays deaf until the next connection, and logs that it succeeded
(`denied`; any subscription may be).  Three things the model has and the property leaves alone: values are skipped
without a report when the connection is lost between two looks at it
(`ClassFlowMQTT.cpp:286`); `success |=` clears the schedule after a partial failure
(`server_mqtt.cpp:335`); and GPIO topics are subscribed only at the next connection.
`MQTT_Init` called by two tasks at once is taken one after the other.

Proved (`SubsystemsMqtt`) for every number of announcements and values, from
`SuccessStands` (what a success so far means at each step of a round) and `ClientStands`.

**`SettingsStore`.**  One protocol for three stores, call by call: recovery at a start,
inspection, save, activation, the history scan, another writer of the file, power loss.
`SettingsRegister`: the file is the register `AtomicConfig` through its recovery; what
others put in place is overwritten only by a save whose author had read it; no save
changes the scale of a register's history; and a summary is always one under the
assumptions in force.  The file manager (`External`) is kept from a save, which the same web
task handles, but from nothing else: a recovery in the flow task holds
`ProcessingAccess` and camera, an upload `UpdateAccess` (`ClassFlowControll.cpp:321`,
`server_file.cpp:628`).  A file put in place between a recovery's reading of a damaged one
(`MeterAssumptionsStore.h:27`) and its restoring (line 34) is written over or removed, whatever
it says; `KeepsIndependent` and `KeepsScale` except that step and no other (`Unseen`).  Three revisions, one of them of another scale.  A scan that was
started ends (`RequestsAnswered`).

Proved (`SubsystemsSettings`) for every set of revisions and every scale, from
`SettingsAssumption` (the special contents are different and no revisions): the refinement
of `AtomicConfig` and the other parts of `SettingsRegister`.  `SaveStands` says how far a
save has come with the two files, `RecoveryStands` what a recovery may write over,
`Promised` that only what an answer allows is there to be found, and `ScanStands` that a
scan which may still be published has read the settings in force.

**`ArchiveReceiver`.**  Two requests at once, each object written, linked and synced in
steps, and a stop of the machine between any two, after which unsynced names may be
gone.  The host is POSIX or not (`posix`): `sync_directory` returns at once on another one,
`write_immutable` ignores that, and the receipt is given all the same, as the receiver's
README says (`tools/image-archive/README.md:246`).  `ReceiptMeansKept`: what was acknowledged
is there with its image and settings, on a POSIX host it survives the machine's stop, and of two
versions under one name at most one is acknowledged; another host answers for its receipts only
until the machine stops.

Proved (`SubsystemsReceipts`) for every number of workers and versions: what each worker has
found and synced so far (`Found`) is the strengthening.

**`Loader`.**  Connection to a network, saving of what has given an address, and the
installation step by step with failures, power losses and retries under another
network.  `InstallKept`: an application that can start finds its bundle, its index, a
configuration and network settings that have worked, and the status has the worker and
the facts it claims.  An attempt to connect or install is decided (`RequestsAnswered`).
Between `phase=-5` (`main.cpp:225` of the loader) and the worker's last look at the phase
(line 271) a request is heard, although the README of the loader says that requests during an
installation are rejected (`bootstrap/README.md:55`): it starts a second installation beside the
first, whose end may be shown as the failure of the second (`Settle`, `SettleLate`), and which
then lets a third one in, or another network.  `overlaps` counts such requests (one in the run,
`MaxOverlaps`).  The status is claimed to be true only while there was none.  One does no harm to
what is installed; with two (`MaxOverlaps = 2`) TLC finds that an application may start with
network settings that never worked, so that `InstallKept` claims nothing then.  A first-boot draft that was left behind is never overwritten
(`AIEdgeFirstBoot.h:28`), so that the installation fails in every later attempt until
it is removed.  Left out: a late address of an earlier attempt, the scan, the USB
protocol, and phase -4, which nothing sets.

Proved (`SubsystemsInstall`) for every set of networks and of installers and every bound on
the requests heard too early: `InstallKept`.  `NetworkProven` and `NetworkSaved` say
which network an installation can rely on, `OneWorker` and `WorkingPhase` tie the phase to
the one task that works, `WorkerAlone` that of two at most one still goes on and has the card
to itself, `CardSound` is what any attempt leaves on the card, however it
ended, and `WorkDone` what the present one has done when it comes to a step: it is what makes
the selection of the application the last step in fact.

**`Startup`.**  `app_main` check by check, the status flags, the first boot's draft, the
access point and its pages, the recovery pages, and the carrying over of host name and
roaming threshold to `wlan.ini`.  `StartHonest`: a device that has started uses what is
in `wlan.ini`, and the file is empty only after a rewriting that was cut short: it is
rewritten in place, neither failed write nor failed close is noticed, and the device
then stays dark until the card is serviced.  `RequestsAnswered`: a start comes to an
end; each changed setting costs one restart and none restarts the device for ever.  Two
names and two thresholds, one loss of power.  A package uploaded to the access point is
only stored, since the managed build has no legacy startup update.  Left out: the marker
of a planned restart, the delay after a panic, the recovery station's retries, the
archive's start without a camera.

Proved (`SubsystemsStart`) for every set of names and thresholds and every number of losses
of power, from `StartupAssumption` (the special values differ and are no names): `StartHonest`.
`Rewritten` says what the open file is about to hold, `TornForAReason` that it is empty only in
or after a rewriting, `ReadIsOnCard` that what was read stands until somebody writes it.

## 9. Services

The run `services` has what surrounds a reading: how the configuration is read, what a
round makes of a picture and whom it tells, and the services beside it.  None of its
modules assumes fairness.

**`LegacyUpdate`** is the update of a build without `METER_REQUIRE_BUNDLE`: upload,
`update.txt`, and the next start's `CheckUpdate`, extraction, renames and firmware, call
by call, each of which may fail; power may go at each.  `LegacyKept`: an `update.txt` that is
there is one nobody has tried yet (`TriedOnce`), unless the card kept it; what boots has been
validated (`BootsSound`); and the
web interface is whole or on its way, unless power or a rename failed between the two
renames or the package had none (`InterfaceKept`).  Three packages: an archive with two
parts and a firmware, an archive with a damaged firmware, a bare damaged firmware.  The model
shows three things its property has to allow.  `DeleteFile` does not look at the result of
`unlink` (`Helper.cpp:446`, `Unlinked`), and `CheckUpdate` would not hear of it
(`server_ota.cpp:179`): a card that keeps `update.txt` lets every start repeat the update, also
one that succeeded, although the comment there says "Prevent Boot Loop!!!" (`asked = "kept"`).
The folders are cleared before it is known that the archive opens.  And an uploaded network is
removed although nobody looks whether all of its copy was written (`unkept`).

**`Access`**: the password record in NVS, the web requests and USB commands of one server
task, the code for a first password and the second code of a recovery; every access to the
record may fail, a write may leave half of it, and power may go at any step.  `AccessTrue`:
what was reported of the password stays true, no failure leads back to asking for a first
one, a remembered password never outlives the record it was checked with, and a command
after a pause is heard whatever noise came before.  Two passwords, three codes that are
drawn, one queued command.

**`Wlan`**: the driver's events, one handler that takes them in order and sleeps in between,
roaming by scans of the flow task, and the LED's task.  `WlanTrue`: once the handler has
caught up, the device believes to be connected exactly when it has an address, and knows
the last one; it is connected or tries; and only the LED's task lights it.  Two access
points a roaming apart, two addresses, two events under way, two attempts before a pause.
`wifi_scan` compares with a record that is not initialised when there is no link
(`connect_wlan.cpp:390`): any result.  The code the card check shows for ever keeps the LED
from any other.

**`Configuration`**: `InitFlow` and each stage's `ReadParameter` pass one line in hand between
them.  `ConfigurationTrue`: a stage has what its own section says and nothing of another's; for
each number what was said last; and reading ends unless a header is spelled otherwise than the
stage wants it, MQTT counts numbers before there is a post processing, or a later call runs out
of memory.  A list of numbers is a set of names, each with the line of its first dial, as
nothing modelled depends on its order.  48 files combine sections on, off, misspelt, in other
orders, with two numbers; two calls, and memory for nine stages, so that it runs out in the
second.

**`Logs`**: the daily files, the clock that starts in 1970 and is set at some time, the hour
between winter and summer time, removal of what is too old, the reader of the log, and the one
append handle that all tasks share.  The card may refuse each `fopen`, `fputs`, `fclose` and
each read of the log, of which the code looks at `fopen` only.  `LogsTrue`: no file of the last
days is removed whenever the clock is set; and as long as no two tasks use the log at once, each
line is put into the file of its day and written, no file stays open, and no request for the log
hangs, unless the card refused something of that day (`refused`).  Both exceptions are real.
With an overlap a line may go to the other task's file, or a file be closed twice.  A full card
loses lines without a word, and may leave a log without any, in which `send_logfile` looks for
the end of a line for ever (`server_file.cpp:437`), as it does in one that it cannot read.  Left
out: the reader's own file, which stays open when `fseek` fails (:422, :430).  `addDays` keeps
`tm_isdst`, so that in the last hour of a day soon after the change to winter time a file goes a
day early; the property makes that exception.  Only `log_1970-01-01.txt` of a start without a
clock is protected (`ClassLogFile.cpp:326`): west of Greenwich it would be a file of 1969. Day
10 is today, one half day passes, day 11 is the first of winter.

**`FileServer`**: uploads chunk by chunk, deletions, downloads and pages of one server task,
beside tasks that take `UpdateAccess` and rewrite the configuration.  `FilesTrue`: what the
answers say of the card is so, and no request changes a file while a journal or another task
owns the card, or one of a bundle.  Four files (a plain page, a bundle's packed one, two
configurations), one version, one chunk.  The results of closing an uploaded file
(`server_file.cpp:750`) and of every `unlink` (:721, :734, :930, :996) are ignored, so that a
full or failing card may cut a file unnoticed, keep one that is reported as removed, or keep the
part of a failed upload: the property says so (`cut`).
Without a property: `strcmp(filename, "wlan.ini")` (`server_file.cpp:918`) is given a path
with a leading slash and never matches; a packed page that is left behind is preferred to a
plain one that was uploaded later.

**`Outputs`**: per round the two databases, the webhook's report and its picture, of numbers
that post processing has judged and saved.  A request may set a previous value at any moment and
saves all numbers as a round does: `handler_prevalue` and the MQTT message take no
`ProcessingAccess`, so its steps (`SetPreValue`, `RequestSaves`, `RequestCloses`) fall between
any two of the round's.  Whichever of the two closes the file first clears `UpdatePreValueINI`
for both, and so the round's save may be dropped (or the request's).  `OutputsTrue`: a point is
stored under a time of its own, not before its picture and not over a later reading, unless the
file of previous values does not open or a request dropped the round's save; a report and its
picture are of one round.  One request at a time is modelled, although one over MQTT and one over
HTTP may meet; two points in time are enough for a round that follows a request or a round.
Answers of servers are ignored by the code and by the model.  A failing MQTT stage keeps the
databases and the webhook from running; the picture is uploaded on setting 1 only, as the other
one (`UploadImg` 2: only after an error) tests a flag that nothing sets.

**`Recognition`**: alignment by two marks (the remembered place first, if the algorithm is
the fast one), the cut, the network loaded for one dial after the other, the polar reader,
`align.txt`, and uploads of templates and models meanwhile.  `RecognitionTrue`: after a round
without an error every dial shows what was read from its own piece of this round's picture;
the pieces are cut where the marks say; the polar reader shows all dials of one picture or
none; and what is remembered of a mark is a place it was found at.  Each has its exceptions,
which are what the code does: a dial at the edge keeps an older result without a word, a
failed inference leaves the tensor as it was, a model of another kind is read as the one
before; a file of marks that was cut short is not noticed before it is read, and an empty one
leaves what the stack held.  Two marks with two or one places, two dials one of which fits,
three setups (the fast algorithm with a network, the other one with a reader nobody knows, the
polar reader without alignment), one kind of network beside a foreign one.  The single alignment that `/editflow` does
(`test_align`) is a request of `WebPages` and is not a round of `Recognition`.

**`WebPages`**: the requests that read, one after the other on the server's task, beside the
flow task with its status, its count of rounds and its stages; each answer is what `httpd` is
told to send, whole or in pieces, any of which may not go out.  `PagesTrue`: a request whose
connection stays open for the next one, and whose answer was not lost, has got one whole
answer; a page that is headed as showing values shows the dials they were read from, although
it looks at status and rounds twice while the flow task goes on (this rests on the round being
counted before the status changes); and no request brings down a device whose configuration
has numbers.  The exceptions are what the code does: `/current_date`, `/doinit`, files that follow a
picture or a page, and `/editflow` with `copy` or `cutref` while the flow takes or aligns an
image complete their answer twice, and `/editflow` with a task it does not know gives none.  Without a
property: `/json`, `/metrics` and `/editflow?task=namenumbers` read the stage of post processing
without looking whether there is one (`ClassFlowControll.cpp:1029`), and `/json` and `/metrics`
look only whether the flow task has been made, which it is while it waits five minutes after a
crash: asked for in that time they crash the device again.  The page says `Value` from the
second round on, whether or not a round has been completed.  Two rounds; InitFlow that fails, or
makes the stages with or without post processing and alignment.

**Proved** in `MCServicesUserProofs` and `MCServicesProofs`, for all values of the constants:
`ServicesPages`, `ServicesAccess`, `ServicesWlan`, `ServicesConfiguration`, `ServicesFiles` (with
its action property), `ServicesOutputs`, `ServicesLegacy`, `ServicesRecognition`, `ServicesLogs`.  Each module's `Inductive` adds to
the property what its mechanism relies on half way:

- `WebPages`: what has been sent when a handler has come to a step (`AnswerSoFar`), a status of a
  finished round is of the count or of the one before (`RoundsCounted`), and what was worth
  showing at the first look is so at the second (`ValuesStay`);
- `Access`: while the record is written nobody uses the one in memory, and a failure leaves
  neither a code nor a remembered password (`WorkSound`, `MemorySound`);
- `Wlan`: the newest event that waits, other than `connected`, tells how the link is, and when
  none waits the device knows it (`EventsTell`); a row of attempts begins anew with a start, an
  address or a pause (`RowCounted`); the LED's handle is set while there is a task (`LampSound`);
- `Configuration`: each stage has what the lines say that it has been given up to the line in
  hand (`SettingsRead`, `DialsRead`, `ShiftsRead`, `IdxRead`), the sections of all stages but the
  last are behind (`SectionsOver`), and there is a stage for each header that is (`HeadersMade`);
- `FileServer`: a request holds the guard as long as it writes, an upload owns a file that was not
  there, what is left of a directory is yet to go (`LockHeld`, `RequestSound`);
- `Outputs`: readings of the round are of its picture, and nothing older was set since
  (`RoundSound`); a round that has read a number is going to save it, and once it has, what it
  sends is no older than its picture (`TimesSaved`); what was sent before this picture has an
  earlier time (`PointsPast`);
- `LegacyUpdate`: what is beside the interface when it is replaced is all of it
  (`ExtractionSound`), it is aside only between the two renames (`InterfaceSound`), and a request
  whose line is being written is a new one (`CopySound`);
- `Recognition`: pieces are of this picture from the cut on (`PiecesSound`), and what was looked
  for is found unless there is a doubt (`MarksFound`), and memory has what the file has
  (`FileSound`);
- `Logs`: who is busy with the log, and has not met another there, has the handle to itself, and
  has put its line unless the card refused it (`HandleSound`), the day that a cleanup compares with spares the last ones (`RemovalSound`), and
  the log of a start without a clock stays while it runs (`EarlyKept`).

## 10. Fairness

Weak fairness of each task that runs by itself (the flow task, the round,
the archive worker; the web task while it holds something; self-test and stream worker;
the loader's installation and connection; the start; the history scan; the reboot) and
of time passing: they are FreeRTOS tasks and timers.  Strong fairness only of the sends
of a healthy image.  None of requests, of failures, of the network otherwise, of power.  In
`device` only the flow task and the passing of time are fair; `services` has no liveness
property.

## 11. What is proved and what is only checked

The theorems, all checked by TLAPS to the last step:

| Module | Theorems (property) |
|---|---|
| `ConfigJournalProofs` | `TypeCorrect`, `PromisesKept`, `DamageStaysRepairable`, `NothingEverLost` (`NothingLost`), `ImplementsAtomicConfig` (`AtomicRegister`) |
| `MeterCheckpointsProofs` | `CheckpointTypes`, `CheckpointPersisted`, `CheckpointSegments`, `CheckpointRecordsProtected`, `CheckpointImplementsLedger` |
| `ImageArchiveProofs` | `ArchiveTypes`, `ArchiveCardConsistent`, `ArchiveOneBuffer`, `ArchiveDelivery` (`DeliveryKept`) |
| `BundleUpdateProofs` | `UpdateBootsComplete`, `UpdateJobTrue`, `UpdateEvidenceRetained`, `UpdateImplementsManaged` |
| `MCDeviceProofs` | `DeviceUpdatesWhole`, `DeviceImplementsManagedUpdate`, `DeviceAcceptsOnEvidence`, `DeviceGpioTrue`, `DeviceSettingsTrue` |
| `MCSubsystemsProofs` | `SubsystemsRounds`, `SubsystemsSettings`, `SubsystemsMqtt`, `SubsystemsReceipts`, `SubsystemsCamera`, `SubsystemsStart`, `SubsystemsInstall` |
| `MCServicesUserProofs` | `ServicesPages` (`PagesTrue`), `ServicesAccess` (`AccessTrue`), `ServicesWlan` (`WlanTrue`), `ServicesConfiguration` (`ConfigurationTrue`) |
| `MCServicesProofs` | `ServicesFiles` (`FilesTrue`), `ServicesOutputs` (`OutputsTrue`), `ServicesLegacy` (`LegacyKept`), `ServicesRecognition` (`RecognitionTrue`), `ServicesLogs` (`LogsTrue`) |

**The argument** is the same everywhere.  A module states, behind its properties, an
`Inductive` invariant as a conjunction of named parts, each saying what one mechanism
relies on while an operation is half done; TLC checked it before it was proved.  The proof
module has one lemma that `Init` implies it, one per part (or per group of actions) that a
step keeps it, with a case for each action, and one that it implies the property; the
theorem joins these by temporal logic.  Refinements add that each step maps to a step of the
abstract module or to none.  In a composition the invariant is
`subject = "..." => M!Inductive`: a step of the composition is, for the subject, a step of
its module.

**Assumptions** are those the modules name (`...Assumption`), and nothing else: bounds are
positive numbers, special values differ from ordinary ones, functions given as constants have
the right domains.  TLC evaluates each on the values of the runs.  The theorems hold for all
other values; in particular every set of nodes, revisions, images, bundles, and every bound.

**Only model-checked**, and why:

- liveness (`RequestsAnswered`, `Decided`): fairness and ENABLED are beyond the prover;
- `ConsistencyRepairs`, `HistoryCounts` and the values of folds and recursive functions:
  induction over data is;
- `ReadoutTrue`, `TotalsBounded`, `PreviousKept`: arithmetic of particular dials, true in the
  range of errors the run states and false outside of it.

## 12. Not modelled

`PROJECT.json` lists every component with its status.  Of about 51,000 lines 14,000 are
vendored (`miniz`, `bitmap_image`, `md5`) and used through what their callers model.  Of
the rest these have no state or control that a small model could tell apart: pixels, the
numbers inside the neural networks and the polar decoder; the LED strip's and the card's
drivers; the outbox that replaces a file of the SDK; hashes and the parsing of headers; what
the pages say beyond their state; the review and training tools (sequential,
offline); packaging.  What a modelled component leaves out is said in its section.
