------------------------------ MODULE BundleUpdate ------------------------------
(***************************************************************************)
(* Managed firmware updates: a bundle (application and the assets it is    *)
(* released with) is extracted from an uploaded archive, published as an   *)
(* immutable object on the card, written to the inactive flash slot,       *)
(* indexed under its application, and selected for the next boot.          *)
(*   - handle_bundle_action reserves the one job and starts its worker;    *)
(*   - stageZip and preparePending stage an archive;                       *)
(*   - install, ota_update_task and prepareIndex install a staged bundle;  *)
(*   - the bootloader, the OTA functions of the SDK and uploads to the     *)
(*     card surround them.                                                 *)
(* Every call may fail and the power may go between any two of them.       *)
(***************************************************************************)
EXTENDS Naturals

CONSTANTS
  Bundle,    \* bundle identities
  App,       \* application images
  AppOf,     \* AppOf[b]: the application bundle b is made for
  Factory,   \* the bundle the device was installed with
  Retained,  \* interrupted trees and index files kept per name (32)
  None

VARIABLES
  object,       \* object[b]: the tree objects/<b>
  pending,      \* pending[b]: the tree pending/<b>
  interrupted,  \* interrupted[b]: trees interrupted/<b>-<n>
  index,        \* index[a]: the bundle in apps/<a>.id, or None
  draft,        \* draft[a]: the bundle in apps/<a>.id.pending, "torn" or None
  drafts,       \* drafts[a]: files apps/<a>.id.pending.interrupted-<n>
  zip,          \* the uploaded archive: its bundle and whether it is sound
  uploading,    \* an upload holds the update guard and writes the archive
  flash,        \* flash[s]: the application in slot s, or None when damaged
  image,        \* image[s]: what the OTA data says of slot s
  boot,         \* the slot the OTA data selects
  running,      \* the slot that runs
  rollback,     \* whether the installed bootloader supports application rollback
  selection,    \* the bundle whose assets are in use, or None when rejected
  job,          \* bundleStageJob
  pc,           \* progress of the job
  held,         \* the worker holds the update guard
  outcome       \* what the worker is about to report

trees == <<object, pending, interrupted>>
names == <<index, draft, drafts>>
input == <<zip, uploading>>
chip  == <<flash, image, boot, running, rollback, selection>>
task  == <<job, pc, held, outcome>>
vars  == <<trees, names, input, chip, task>>

Trees  == {"none", "torn", "whole"}
Slots  == {"ota_0", "ota_1"}
Images == {"undefined", "new", "pending", "valid", "aborted"}
Archives == [bundle : Bundle, sound : BOOLEAN]
StagePhases   == {"stage", "open", "prepare", "remake", "extract", "check", "publish"}
InstallPhases == {"install", "verify", "begin", "write", "index", "create", "fill", "map", "select"}
Outcomes == {"staged", "already_staged", "busy_or_staging_conflict", "storage_error", "rejected",
             "boot_selected_reboot_required", "install_failed_or_uncertain"}
Idle == [active |-> FALSE, install |-> FALSE, selected |-> FALSE, id |-> None, status |-> "idle"]

\* What the constants must be; assumed where they have values.
UpdateAssumption ==
  /\ AppOf \in [Bundle -> App] /\ Factory \in Bundle
  /\ Retained \in Nat \ {0}
  /\ None \notin Bundle \cup App \cup Outcomes \cup {"torn"} /\ "torn" \notin Bundle

Other(s) == IF s = "ota_0" THEN "ota_1" ELSE "ota_0"
Target   == Other(running)
RunningApp == flash[running]
Staged   == {"staged", "already_staged"}

Init ==
  /\ object = [b \in Bundle |-> IF b = Factory THEN "whole" ELSE "none"]
  /\ pending = [b \in Bundle |-> "none"] /\ interrupted = [b \in Bundle |-> 0]
  /\ index = [a \in App |-> IF a = AppOf[Factory] THEN Factory ELSE None]
  /\ draft = [a \in App |-> None] /\ drafts = [a \in App |-> 0]
  /\ zip = None /\ uploading = FALSE
  /\ flash = [s \in Slots |-> IF s = "ota_0" THEN AppOf[Factory] ELSE None]
  /\ image = [s \in Slots |-> "undefined"]
  /\ boot = "ota_0" /\ running = "ota_0" /\ selection = Factory
  /\ rollback \in BOOLEAN
  /\ job = Idle /\ pc = "idle" /\ held = FALSE /\ outcome = None

-----------------------------------------------------------------------------
(* Uploads to the card and requests                                        *)

\* An upload takes the update guard; until it ends the archive is incomplete.
Upload ==
  /\ ~uploading /\ ~held
  /\ uploading' = TRUE /\ zip' = None
  /\ UNCHANGED <<trees, names, chip, task>>

UploadEnds ==
  /\ uploading
  /\ uploading' = FALSE /\ zip' \in Archives \cup {None}
  /\ UNCHANGED <<trees, names, chip, task>>

\* The one reservation that staging and installing share.
Reserve(id, install) ==
  /\ pc = "idle"
  /\ ~job.active /\ ~job.selected
  /\ install => job.id = id /\ job.status \in Staged
  /\ job' = [job EXCEPT !.active = TRUE, !.install = install, !.id = id,
                        !.status = "queued_or_running"]
  /\ pc' = "created"
  /\ UNCHANGED <<trees, names, input, chip, held, outcome>>

CreateWorker ==
  /\ pc = "created"
  /\ pc' = IF job.install THEN "install" ELSE "stage"
  /\ UNCHANGED <<trees, names, input, chip, job, held, outcome>>

CreationFails ==
  /\ pc = "created"
  /\ job' = [job EXCEPT !.active = FALSE, !.status = "task_creation_failed"]
  /\ pc' = "idle"
  /\ UNCHANGED <<trees, names, input, chip, held, outcome>>

\* The worker leaves with a result; its guards are released on the way out.
Leave(result) == outcome' = result /\ held' = FALSE /\ pc' = "report" /\ UNCHANGED job
Go(next)      == pc' = next /\ UNCHANGED <<job, held, outcome>>

Report ==
  /\ pc = "report"
  /\ job' = [job EXCEPT !.active = FALSE, !.status = outcome,
                        !.selected = outcome = "boot_selected_reboot_required"]
  /\ pc' = "idle" /\ outcome' = None
  /\ UNCHANGED <<trees, names, input, chip, held>>

-----------------------------------------------------------------------------
(* stageManagedBundle                                                      *)

TakeUpdate ==
  /\ pc = "stage"
  /\ IF uploading
     THEN Leave("busy_or_staging_conflict")
     ELSE held' = TRUE /\ pc' = "open" /\ UNCHANGED <<job, outcome>>
  /\ UNCHANGED <<trees, names, input, chip>>

\* Inventory and manifest of the archive, before anything is written.
OpenRejected ==
  /\ pc = "open"
  /\ zip # [bundle |-> job.id, sound |-> TRUE]
  /\ Leave("rejected")
  /\ UNCHANGED <<trees, names, input, chip>>

\* An existing object is verified and reused, never overwritten.
Open ==
  /\ pc = "open"
  /\ zip # None /\ zip.bundle = job.id
  /\ CASE object[job.id] = "none"  -> Go("prepare")
       [] object[job.id] = "whole" -> Leave("already_staged")
       [] OTHER                    -> Leave("busy_or_staging_conflict")
  /\ UNCHANGED <<trees, names, input, chip>>

\* preparePending: interrupted work is set aside under a free name.
Prepare ==
  /\ pc = "prepare"
  /\ \/ /\ pending[job.id] = "none"
        /\ pending' = [pending EXCEPT ![job.id] = "torn"]
        /\ Go("extract")
        /\ UNCHANGED interrupted
     \/ /\ pending[job.id] # "none" /\ interrupted[job.id] < Retained
        /\ pending' = [pending EXCEPT ![job.id] = "none"]
        /\ interrupted' = [interrupted EXCEPT ![job.id] = @ + 1]
        /\ Go("remake")
     \/ /\ pending[job.id] # "none" /\ interrupted[job.id] = Retained
        /\ Leave("busy_or_staging_conflict")
        /\ UNCHANGED <<pending, interrupted>>
  /\ UNCHANGED <<object, names, input, chip>>

Remake ==
  /\ pc = "remake"
  /\ pending' = [pending EXCEPT ![job.id] = "torn"]
  /\ Go("extract")
  /\ UNCHANGED <<object, interrupted, names, input, chip>>

\* Every file is checked against the manifest, flushed and closed.
Extract ==
  /\ pc = "extract" /\ zip.sound
  /\ pending' = [pending EXCEPT ![job.id] = "whole"]
  /\ Go("check")
  /\ UNCHANGED <<object, interrupted, names, input, chip>>

\* A storage error, or content that is not what the manifest says.
StageFails ==
  /\ pc \in {"open", "prepare", "remake", "extract", "publish"}
  /\ Leave("storage_error")
  /\ UNCHANGED <<trees, names, input, chip>>

\* The whole tree is read back before it is published.
Check ==
  /\ pc = "check"
  /\ \/ pending[job.id] = "whole" /\ Go("publish")
     \/ Leave("rejected")
  /\ UNCHANGED <<trees, names, input, chip>>

PublishObject ==
  /\ pc = "publish"
  /\ IF object[job.id] # "none"
     THEN Leave("busy_or_staging_conflict") /\ UNCHANGED trees
     ELSE /\ object' = [object EXCEPT ![job.id] = pending[job.id]]
          /\ pending' = [pending EXCEPT ![job.id] = "none"]
          /\ Leave("staged")
          /\ UNCHANGED interrupted
  /\ UNCHANGED <<names, input, chip>>

-----------------------------------------------------------------------------
(* installManagedBundle: ManagedBundleTransaction, ota_update_task and     *)
(* prepareIndex, under the processing and camera guards                    *)

\* A busy guard, a failed read or write, a partition of the wrong size.
InstallFails ==
  /\ pc \in InstallPhases
  /\ Leave("install_failed_or_uncertain")
  /\ UNCHANGED <<trees, names, input, chip>>

TakeGuards ==
  /\ pc = "install"
  /\ Go("verify")
  /\ UNCHANGED <<trees, names, input, chip>>

VerifyObject ==
  /\ pc = "verify"
  /\ object[job.id] = "whole" /\ AppOf[job.id] # RunningApp
  /\ Go("begin")
  /\ UNCHANGED <<trees, names, input, chip>>

\* esp_ota_begin erases the slot; the SDK refuses while the running image awaits acceptance.
SdkAllowsBegin == ~(rollback /\ image[running] = "pending")

\* The version the bootloader gave up is not written again.
PreviouslyInvalid == image[Target] = "aborted" /\ flash[Target] = AppOf[job.id]

\* Mutant: whether an earlier selection is outstanding is not checked.
BeginReselecting ==
  /\ pc = "begin"
  /\ ~uploading
  /\ ~PreviouslyInvalid /\ SdkAllowsBegin
  /\ flash' = [flash EXCEPT ![Target] = None]
  /\ held' = TRUE /\ pc' = "write"
  /\ UNCHANGED <<trees, names, input, image, boot, running, rollback, selection, job, outcome>>

Begin ==
  /\ pc = "begin"
  /\ ~uploading
  /\ boot = running
  /\ ~PreviouslyInvalid /\ SdkAllowsBegin
  /\ flash' = [flash EXCEPT ![Target] = None]
  /\ held' = TRUE /\ pc' = "write"
  /\ UNCHANGED <<trees, names, input, image, boot, running, rollback, selection, job, outcome>>

\* Mutant: the boot slot is selected before the index is published.
WriteSelecting ==
  /\ pc = "write"
  /\ flash' = [flash EXCEPT ![Target] = AppOf[job.id]]
  /\ boot' = Target
  /\ image' = [image EXCEPT ![Target] = IF rollback THEN "new" ELSE "undefined"]
  /\ Go("index")
  /\ UNCHANGED <<trees, names, input, running, rollback, selection>>

\* Writing, esp_ota_end and the digest of what was written.
Write ==
  /\ pc = "write"
  /\ flash' = [flash EXCEPT ![Target] = AppOf[job.id]]
  /\ Go("index")
  /\ UNCHANGED <<trees, names, input, image, boot, running, rollback, selection>>

\* prepareIndex: an equal mapping is kept, a different one is a conflict.
PrepareIndex ==
  LET a == AppOf[job.id] IN
  /\ pc = "index"
  /\ object[job.id] = "whole" /\ a # RunningApp
  /\ index[a] \in {None, job.id}
  /\ IF index[a] = job.id THEN Go("select") ELSE Go("create")
  /\ UNCHANGED <<trees, names, input, chip>>

\* An interrupted write is renamed aside, never taken for a mapping.
SetDraftAside ==
  LET a == AppOf[job.id] IN
  /\ pc = "create"
  /\ draft[a] # None /\ drafts[a] < Retained
  /\ draft' = [draft EXCEPT ![a] = None]
  /\ drafts' = [drafts EXCEPT ![a] = @ + 1]
  /\ UNCHANGED <<trees, index, input, chip, task>>

CreateDraft ==
  LET a == AppOf[job.id] IN
  /\ pc = "create"
  /\ draft[a] = None
  /\ draft' = [draft EXCEPT ![a] = "torn"]
  /\ Go("fill")
  /\ UNCHANGED <<trees, index, drafts, input, chip>>

FillDraft ==
  /\ pc = "fill"
  /\ draft' = [draft EXCEPT ![AppOf[job.id]] = job.id]
  /\ Go("map")
  /\ UNCHANGED <<trees, index, drafts, input, chip>>

\* The rename may have happened although the readback fails.
PublishIndex ==
  LET a == AppOf[job.id] IN
  /\ pc = "map"
  /\ index[a] = None
  /\ index' = [index EXCEPT ![a] = draft[a]]
  /\ draft' = [draft EXCEPT ![a] = None]
  /\ Go("select") \/ Leave("install_failed_or_uncertain")
  /\ UNCHANGED <<trees, drafts, input, chip>>

\* esp_ota_set_boot_partition and its readback; both may fail with the OTA data changed.
Select ==
  /\ pc = "select"
  /\ boot' = Target
  /\ image' = [image EXCEPT ![Target] = IF rollback THEN "new" ELSE "undefined"]
  /\ Leave("boot_selected_reboot_required") \/ Leave("install_failed_or_uncertain")
  /\ UNCHANGED <<trees, names, input, flash, running, rollback, selection>>

-----------------------------------------------------------------------------
(* Acceptance and restart                                                  *)

\* acceptHealthyManagedImage: under the processing and the update guard.
Accept ==
  /\ rollback /\ image[running] = "pending"
  /\ selection # None
  /\ ~held /\ ~uploading /\ pc \notin InstallPhases
  /\ image' = [image EXCEPT ![running] = "valid"]
  /\ UNCHANGED <<trees, names, input, flash, boot, running, rollback, selection, task>>

\* What the bootloader reads: an image still awaiting acceptance is given up.
AtReset == [s \in Slots |-> IF rollback /\ image[s] = "pending" THEN "aborted" ELSE image[s]]
Bootable(s) == flash[s] # None /\ AtReset[s] # "aborted"

\* loadForApp: the index and the whole tree must fit the application.
Load(a) == IF index[a] # None /\ object[index[a]] = "whole" /\ AppOf[index[a]] = a
           THEN index[a] ELSE None

\* The power goes or the device restarts: memory is lost, the card and the flash stay.
Restart ==
  LET chosen == IF Bootable(boot) THEN boot ELSE Other(boot) IN
  /\ Bootable(chosen)
  /\ running' = chosen
  /\ boot' = IF AtReset[boot] = "aborted" THEN Other(boot) ELSE boot
  /\ image' = [AtReset EXCEPT ![chosen] = IF @ = "new" THEN "pending" ELSE @]
  /\ selection' = Load(flash[chosen])
  /\ uploading' = FALSE
  /\ job' = Idle /\ pc' = "idle" /\ held' = FALSE /\ outcome' = None
  /\ UNCHANGED <<trees, names, zip, flash, rollback>>

-----------------------------------------------------------------------------
Stage   == TakeUpdate \/ OpenRejected \/ Open \/ Prepare \/ Remake \/ Extract \/ StageFails
             \/ Check \/ PublishObject
Install == InstallFails \/ TakeGuards \/ VerifyObject \/ Begin \/ Write \/ PrepareIndex
             \/ SetDraftAside \/ CreateDraft \/ FillDraft \/ PublishIndex \/ Select
Worker  == CreateWorker \/ CreationFails \/ Stage \/ Install \/ Report

Next ==
  \/ Upload \/ UploadEnds
  \/ \E id \in Bundle, install \in BOOLEAN : Reserve(id, install)
  \/ Worker
  \/ Accept \/ Restart

Spec == Init /\ [][Next]_vars

-----------------------------------------------------------------------------
(* Properties                                                              *)

Jobs   == [active : BOOLEAN, install : BOOLEAN, selected : BOOLEAN, id : Bundle \cup {None},
           status : Outcomes \cup {"idle", "queued_or_running", "task_creation_failed"}]
Places == {"idle", "created", "report"} \cup StagePhases \cup InstallPhases

\* Every variable stays in its domain; nothing is kept beyond its bound.
TypeOK ==
  /\ object \in [Bundle -> Trees] /\ pending \in [Bundle -> Trees]
  /\ interrupted \in [Bundle -> 0..Retained]
  /\ index \in [App -> Bundle \cup {None}]
  /\ draft \in [App -> Bundle \cup {None, "torn"}] /\ drafts \in [App -> 0..Retained]
  /\ zip \in Archives \cup {None} /\ uploading \in BOOLEAN
  /\ flash \in [Slots -> App \cup {None}] /\ image \in [Slots -> Images]
  /\ boot \in Slots /\ running \in Slots /\ rollback \in BOOLEAN /\ selection \in Bundle \cup {None}
  /\ job \in Jobs /\ pc \in Places
  /\ held \in BOOLEAN /\ outcome \in Outcomes \cup {None}

\* Application a has an index, and the object it names is complete and made for a.
Usable(a) == a # None /\ Load(a) # None

\* Wherever the power goes, the slot the OTA data selects holds a whole application that finds
\* its assets: the slot is validated and the index published before the selection, and a selected
\* slot is not written to before the restart.
NextBootComplete == AtReset[boot] # "aborted" => Usable(flash[boot])

\* The assets in use stay complete however often bundles are staged, and as long as the selected
\* image has not been accepted, so does the application the bootloader would fall back to.
AssetsKept ==
  /\ selection # None => Usable(RunningApp) /\ index[RunningApp] = selection
  /\ \A s \in Slots : image[s] \in {"new", "pending"} =>
        Usable(flash[Other(s)]) /\ image[Other(s)] \notin {"new", "pending", "aborted"}

\* What runs, what boots next and what it could fall back to are whole.
BootsComplete == NextBootComplete /\ AssetsKept

\* What /bundle_status reports: "staged" means the object is complete, and after
\* "boot_selected_reboot_required" the next boot runs the reported bundle.
StatusTrue ==
  /\ job.status \in Staged => object[job.id] = "whole"
  /\ job.selected =>
       boot # running /\ flash[boot] = AppOf[job.id] /\ Load(flash[boot]) = job.id

\* Work that was interrupted is published or set aside, never removed or written over.
EvidenceStep ==
  \A b \in Bundle :
    /\ pending[b] # "none" /\ pending'[b] = "none" =>
         object'[b] = pending[b] \/ interrupted'[b] = interrupted[b] + 1
    /\ pending[b] # "none" /\ pc = "prepare" => pending'[b] \in {"none", pending[b]}
    /\ interrupted'[b] >= interrupted[b]
EvidenceRetained == [][EvidenceStep]_vars

\* The update implements ManagedUpdate, restarts and failed calls included.
Managed == INSTANCE ManagedUpdate WITH
  published <- {b \in Bundle : object[b] = "whole"}, mapped <- index,
  selected <- flash[boot], running <- RunningApp
ImplementsManagedUpdate == Managed!Spec

\* A job is active exactly while a worker is about to report on it, so that no failure leaves
\* later requests refused.
JobHasWorker == job.active <=> pc # "idle"

\* The job tells the truth about what was done, and about whether anybody still does it.
JobTrue == StatusTrue /\ JobHasWorker

-----------------------------------------------------------------------------
(* The inductive invariant                                                 *)

Using   == {"write", "index", "create", "fill", "map", "select"}  \* the slot is being written
Guarded == (StagePhases \ {"stage"}) \cup Using                   \* the worker has the update guard

\* A job that is active has a bundle, and installs only one that is complete.
JobConsistent ==
  /\ JobHasWorker
  /\ pc # "idle" => job.id \in Bundle /\ job.status = "queued_or_running" /\ ~job.selected
  /\ pc \in StagePhases => ~job.install
  /\ pc \in InstallPhases => job.install
  /\ job.active /\ job.install => object[job.id] = "whole"
  /\ outcome # None <=> pc = "report"
  /\ held <=> pc \in Guarded
  /\ ~(held /\ uploading)

\* Only complete trees are published, and only complete bundles of the application are mapped.
CardWhole ==
  /\ \A b \in Bundle : object[b] # "torn"
  /\ pc = "publish" => pending[job.id] = "whole"
  /\ \A a \in App : index[a] # None => object[index[a]] = "whole" /\ AppOf[index[a]] = a
  /\ pc = "map" => draft[AppOf[job.id]] = job.id
  /\ pc \in {"create", "fill", "map"} => index[AppOf[job.id]] = None
  /\ pc = "select" => index[AppOf[job.id]] = job.id

Mapped(s) == flash[s] # None /\ index[flash[s]] # None

\* The slot that runs and the one selected are not written, and an image that awaits acceptance
\* has one to fall back to.
SlotsWhole ==
  /\ Mapped(running) /\ selection = index[RunningApp] /\ image[running] \notin {"new", "aborted"}
  /\ \A s \in Slots : image[s] \in {"new", "pending", "aborted"} => rollback
  /\ \A s \in Slots : image[s] = "new" => s = boot
  /\ \A s \in Slots : image[s] = "pending" => s = running
  /\ boot # running => Mapped(boot) /\ image[boot] # "aborted" /\ image[running] # "pending"
  /\ image[running] = "pending" => Mapped(Target) /\ image[Target] # "aborted"
  /\ pc \in Using => boot = running /\ image[running] # "pending"
  /\ pc \in Using \ {"write"} => flash[Target] = AppOf[job.id]
  /\ pc \in Using \cup {"begin"} => AppOf[job.id] # RunningApp

\* What a worker is about to report is so, and stays so once it is reported.
ReportTrue ==
  /\ job.status \in Staged => job.id \in Bundle /\ object[job.id] = "whole"
  /\ outcome \in Staged => object[job.id] = "whole"
  /\ job.selected \/ outcome = "boot_selected_reboot_required" =>
       job.id \in Bundle /\ boot # running /\ flash[boot] = AppOf[job.id] /\ index[flash[boot]] = job.id

Inductive == TypeOK /\ JobConsistent /\ CardWhole /\ SlotsWhole /\ ReportTrue
=============================================================================
