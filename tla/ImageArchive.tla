----------------------------- MODULE ImageArchive -----------------------------
(***************************************************************************)
(* The image archive of the device: the capture callback hands one image   *)
(* at a time to a low-priority worker, which spools it on the card with    *)
(* the settings it was taken with, uploads both, and deletes them once the *)
(* receiver has acknowledged the image.                                    *)
(*   - submitArchiveImage and the reserved flag (producer);                *)
(*   - run: receive, enqueue, step, delay (worker);                        *)
(*   - UploadQueue: round robin over the slots, one upload at a time;      *)
(*   - the receiver, which may also finish a request the device gave up.   *)
(* Every storage call may fail and the power may go at any time.           *)
(***************************************************************************)
EXTENDS Naturals, FiniteSets

CONSTANTS
  Capture,     \* images; each is taken once
  Settings,    \* capture settings descriptors
  SettingsOf,  \* SettingsOf[c]: the descriptor c was taken with
  Capacity,    \* files the spool directory may hold, and queue slots (8)
  Healthy,     \* images whose requests get through if sent often enough
  MaxBoot,     \* bound: power-ups
  None

ASSUME ArchiveAssumption ==
  /\ SettingsOf \in [Capture -> Settings]
  /\ Capacity \in Nat \ {0} /\ MaxBoot \in Nat \ {0}
  /\ Healthy \subseteq Capture
  /\ Capture \cap Settings = {} /\ None \notin Capture \cup Settings

VARIABLES
  spool,      \* spool[c]: "<capture>.spool", or its ".pending" file
  describe,   \* describe[s]: "<hash>.settings", or its ".pending" file
  images,     \* captures the receiver has published
  settings,   \* descriptors the receiver has published
  late,       \* captures in requests the receiver still works on after the device gave up
  taken,      \* captures taken so far
  boot,       \* bound on the power-ups
  producing,  \* the capture the producer offers, or None
  copying,    \* the producer holds the reservation and copies the image
  inbox,      \* the one-entry queue to the worker
  reserved,   \* the atomic flag that admits one job
  published,  \* the engine's ready flag in the published snapshot
  ready,      \* state.ready of the engine
  entry,      \* the slots of the upload queue
  cursor,     \* the slot begin() looks at first
  job,        \* the capture the worker is storing, or None
  ticket,     \* the slot being uploaded, or 0
  pruning,    \* the settings of the image just removed, or None
  pc          \* progress of the worker

card     == <<spool, describe>>
receiver == <<images, settings, late>>
handoff  == <<producing, copying, inbox, reserved, published>>
engine   == <<ready, entry, cursor, job, ticket, pruning>>
vars     == <<card, receiver, taken, boot, handoff, engine, pc>>

FileStates == {"none", "torn", "whole", "final"}   \* torn and whole: the pending file
Slots      == 1..Capacity
EmptySlot  == [state |-> "Empty", capture |-> None, waiting |-> FALSE]
Steps == {"start", "receive", "claim", "scan", "settings", "settingsClose", "spool", "spoolClose",
          "spoolRename", "add", "stored", "clean", "begin", "sendSettings", "sendImage",
          "cleanup", "prune", "release", "publish"}

Files   == {c \in Capture : spool[c] # "none"} \cup {s \in Settings : describe[s] # "none"}
Spooled == {c \in Capture : spool[c] = "final"}
Holding(state) == {i \in Slots : entry[i].state = state}

Init ==
  /\ spool = [c \in Capture |-> "none"] /\ describe = [s \in Settings |-> "none"]
  /\ images = {} /\ settings = {} /\ late = {}
  /\ taken = {} /\ boot = 1
  /\ producing = None /\ copying = FALSE /\ inbox = None /\ reserved = FALSE /\ published = FALSE
  /\ ready = FALSE /\ entry = [i \in Slots |-> EmptySlot] /\ cursor = 1
  /\ job = None /\ ticket = 0 /\ pruning = None
  /\ pc = "start"

-----------------------------------------------------------------------------
(* The capture callback: one producer, under the camera guard              *)

\* The worker's last published snapshot decides; it may be out of date.
Offer(c) ==
  /\ producing = None /\ c \notin taken
  /\ taken' = taken \cup {c}
  /\ producing' = IF published THEN c ELSE None
  /\ UNCHANGED <<card, receiver, boot, copying, inbox, reserved, published, engine, pc>>

Reserve ==
  /\ producing # None /\ ~copying
  /\ ~reserved
  /\ reserved' = TRUE
  /\ copying' = TRUE
  /\ UNCHANGED <<card, receiver, taken, boot, producing, inbox, published, engine, pc>>

\* The worker still has an image, or is uploading one.
Drop ==
  /\ producing # None /\ ~copying
  /\ reserved
  /\ producing' = None
  /\ UNCHANGED <<card, receiver, taken, boot, copying, inbox, reserved, published, engine, pc>>

\* No memory for the copy, or xQueueSend refuses.
HandoffFails ==
  /\ copying
  /\ producing' = None /\ copying' = FALSE
  /\ reserved' = FALSE
  /\ UNCHANGED <<card, receiver, taken, boot, inbox, published, engine, pc>>

Handoff ==
  /\ copying /\ inbox = None
  /\ inbox' = producing
  /\ producing' = None /\ copying' = FALSE
  /\ UNCHANGED <<card, receiver, taken, boot, reserved, published, engine, pc>>

-----------------------------------------------------------------------------
(* The worker: start and receive                                           *)

Go(from, to) == pc = from /\ pc' = to

\* The final files in the order the directory lists them.
Listings == {o \in [1..Cardinality(Spooled) -> Spooled] : \A i, j \in DOMAIN o : i # j => o[i] # o[j]}

Recover ==
  /\ Go("start", "publish")
  /\ \E listing \in Listings :
       entry' = [i \in Slots |-> IF i \in DOMAIN listing
                                THEN [EmptySlot EXCEPT !.state = "Pending", !.capture = listing[i]]
                                ELSE EmptySlot]
  /\ ready' = TRUE
  /\ UNCHANGED <<card, receiver, taken, boot, handoff, cursor, job, ticket, pruning>>

RecoverFails ==
  /\ Go("start", "publish")
  /\ UNCHANGED <<card, receiver, taken, boot, handoff, engine>>

\* Also the end of a round: the snapshot follows the release of the flag.
Publish ==
  /\ Go("publish", "receive")
  /\ published' = ready
  /\ UNCHANGED <<card, receiver, taken, boot, producing, copying, inbox, reserved, engine>>

Receive ==
  /\ Go("receive", "scan")
  /\ inbox # None
  /\ job' = inbox
  /\ inbox' = None
  /\ UNCHANGED <<card, receiver, taken, boot, producing, copying, reserved, published,
                 ready, entry, cursor, ticket, pruning>>

ReceiveNothing ==
  /\ Go("receive", "claim")
  /\ inbox = None
  /\ UNCHANGED <<card, receiver, taken, boot, handoff, engine>>

\* Mutant: the worker does not look whether a producer came first.
ClaimAlways ==
  /\ Go("claim", "clean")
  /\ reserved' = TRUE
  /\ UNCHANGED <<card, receiver, taken, boot, producing, copying, inbox, published, engine>>

\* Nothing to store: keep the producer out and look for an upload.
Claim ==
  /\ Go("claim", "clean")
  /\ ~reserved
  /\ reserved' = TRUE
  /\ UNCHANGED <<card, receiver, taken, boot, producing, copying, inbox, published, engine>>

\* A producer came first: its image is stored before the next upload.
ClaimFails ==
  /\ Go("claim", "receive")
  /\ reserved
  /\ UNCHANGED <<card, receiver, taken, boot, handoff, engine>>

-----------------------------------------------------------------------------
(* ArchiveEngine::enqueue, writeSettingsFile and writeSpoolFile            *)

Storing(from, to) ==
  /\ Go(from, to)
  /\ UNCHANGED <<receiver, taken, boot, handoff, entry, cursor, job, ticket, pruning>>

SettingsFile == describe[SettingsOf[job]]

\* Admission counts every file of the directory, damaged ones included.
CanCapture == Cardinality(Files) + (IF SettingsFile = "final" THEN 0 ELSE 1) < Capacity

Admit ==
  /\ Storing("scan", "settings")
  /\ ready /\ CanCapture
  /\ UNCHANGED <<card, ready>>

\* Not ready, full, or the settings file cannot be read.
Reject ==
  /\ Storing("scan", "stored")
  /\ UNCHANGED <<card, ready>>

\* An incomplete inventory ends the archive until the next boot.
InventoryFails ==
  /\ Storing("scan", "stored")
  /\ ready' = FALSE
  /\ UNCHANGED card

WriteSettings(state) == describe' = [describe EXCEPT ![SettingsOf[job]] = state] /\ UNCHANGED spool
WriteSpool(state)    == spool' = [spool EXCEPT ![job] = state] /\ UNCHANGED describe

SettingsKnown ==
  /\ Storing("settings", "spool")
  /\ SettingsFile = "final"
  /\ UNCHANGED <<card, ready>>

SettingsOpen ==
  /\ Storing("settings", "settingsClose")
  /\ SettingsFile = "none"
  /\ WriteSettings("torn")
  /\ UNCHANGED ready

SettingsClose ==
  /\ Storing("settingsClose", "settings")
  /\ WriteSettings("whole")
  /\ UNCHANGED ready

\* A complete interrupted write is taken over.
SettingsRename ==
  /\ Storing("settings", "spool")
  /\ SettingsFile = "whole"
  /\ WriteSettings("final")
  /\ UNCHANGED ready

\* A torn pending file, a failed call, or a failed readback of what succeeded.
SettingsFail ==
  /\ \/ /\ Storing("settings", "stored")
        /\ \/ UNCHANGED card
           \/ SettingsFile = "whole" /\ WriteSettings("final")
     \/ /\ Storing("settingsClose", "stored")
        /\ \/ UNCHANGED card
           \/ WriteSettings("whole")
  /\ UNCHANGED ready

SpoolOpen ==
  /\ Storing("spool", "spoolClose")
  /\ spool[job] = "none"
  /\ WriteSpool("torn")
  /\ UNCHANGED ready

SpoolClose ==
  /\ Storing("spoolClose", "spoolRename")
  /\ WriteSpool("whole")
  /\ UNCHANGED ready

SpoolRename ==
  /\ Storing("spoolRename", "add")
  /\ WriteSpool("final")
  /\ UNCHANGED ready

SpoolFail ==
  /\ \/ Storing("spool", "stored") /\ UNCHANGED card
     \/ /\ Storing("spoolClose", "stored")
        /\ UNCHANGED card \/ WriteSpool("whole")
     \/ /\ Storing("spoolRename", "stored")
        /\ UNCHANGED card \/ WriteSpool("final")
  /\ UNCHANGED ready

\* The first empty slot takes the capture.
FirstEmpty(i) == i \in Holding("Empty") /\ \A j \in Holding("Empty") : i <= j

Add ==
  /\ Go("add", "stored")
  /\ \E i \in Slots :
       /\ FirstEmpty(i)
       /\ entry' = [entry EXCEPT ![i] = [EmptySlot EXCEPT !.state = "Pending", !.capture = job]]
  /\ UNCHANGED <<card, receiver, taken, boot, handoff, ready, cursor, job, ticket, pruning>>

\* Images whose removal was not confirmed can hold every slot: the new file
\* is left for the recovery at the next boot.
AddFull ==
  /\ Go("add", "stored")
  /\ Holding("Empty") = {}
  /\ ready' = FALSE
  /\ UNCHANGED <<card, receiver, taken, boot, handoff, entry, cursor, job, ticket, pruning>>

\* The image buffer is freed, the reservation kept.
Stored ==
  /\ Go("stored", "clean")
  /\ job' = None
  /\ published' = ready
  /\ UNCHANGED <<card, receiver, taken, boot, producing, copying, inbox, reserved,
                 ready, entry, cursor, ticket, pruning>>

-----------------------------------------------------------------------------
(* ArchiveEngine::step                                                     *)

Stepping == UNCHANGED <<taken, boot, handoff, ready, job>>

\* removeAcknowledged: the slot is released once the file is gone.
Remove(i) ==
  /\ spool[entry[i].capture] = "final"
  /\ spool' = [spool EXCEPT ![entry[i].capture] = "none"]
  /\ entry' = [entry EXCEPT ![i] = EmptySlot]
  /\ pruning' = SettingsOf[entry[i].capture]
  /\ pc' = "prune"
  /\ UNCHANGED <<describe, cursor, ticket>>

\* remove() reports an error although the file is gone.
RemoveUnconfirmed(i, to) ==
  /\ spool[entry[i].capture] = "final"
  /\ spool' = [spool EXCEPT ![entry[i].capture] = "none"]
  /\ pc' = to
  /\ ticket' = 0
  /\ UNCHANGED <<describe, entry, cursor, pruning>>

\* Earlier acknowledged images whose file could not be removed.
CleanUp ==
  /\ pc = "clean" /\ ready
  /\ \E i \in Holding("Acknowledged") : Remove(i) \/ RemoveUnconfirmed(i, "clean")
  /\ UNCHANGED receiver /\ Stepping

CleanedUp ==
  /\ Go("clean", IF ready THEN "begin" ELSE "release")
  /\ UNCHANGED <<card, receiver, entry, cursor, ticket, pruning>> /\ Stepping

Eligible    == {i \in Holding("Pending") : ~entry[i].waiting}
Distance(i) == (i + Capacity - cursor) % Capacity

\* Mutant: the cursor runs past the last slot.
BeginUnwrapped ==
  /\ Go("begin", "sendSettings")
  /\ \E i \in Eligible :
       /\ \A j \in Eligible : Distance(i) <= Distance(j)
       /\ entry' = [entry EXCEPT ![i].state = "Uploading"]
       /\ ticket' = i
       /\ cursor' = i + 1
  /\ UNCHANGED <<card, receiver, pruning>> /\ Stepping

Begin ==
  /\ Go("begin", "sendSettings")
  /\ \E i \in Eligible :
       /\ \A j \in Eligible : Distance(i) <= Distance(j)
       /\ entry' = [entry EXCEPT ![i].state = "Uploading"]
       /\ ticket' = i
       /\ cursor' = (i % Capacity) + 1
  /\ UNCHANGED <<card, receiver, pruning>> /\ Stepping

NothingToUpload ==
  /\ Go("begin", "release")
  /\ Eligible = {}
  /\ UNCHANGED <<card, receiver, entry, cursor, ticket, pruning>> /\ Stepping

Uploaded == entry[ticket].capture

\* UploadQueue::finish: repairable answers wait, others need an operator.
Finish(state, to) ==
  /\ pc' = to
  /\ entry' = [entry EXCEPT ![ticket] = [@ EXCEPT !.state = state, !.waiting = (state = "Pending")]]
  /\ ticket' = IF to = "cleanup" THEN ticket ELSE 0
  /\ UNCHANGED <<card, cursor, pruning>>

\* The spool and settings files must be readable to be sent at all.
SendSettings ==
  /\ Go("sendSettings", "sendImage")
  /\ spool[Uploaded] = "final" /\ describe[SettingsOf[Uploaded]] = "final"
  /\ settings' = settings \cup {SettingsOf[Uploaded]}
  /\ UNCHANGED <<card, images, late, entry, cursor, ticket, pruning>> /\ Stepping

SendSettingsFails ==
  /\ pc = "sendSettings"
  /\ Finish("Pending", "release") \/ Finish("Blocked", "release")
  /\ settings' \in {settings} \cup
       (IF describe[SettingsOf[Uploaded]] = "final"
        THEN {settings \cup {SettingsOf[Uploaded]}} ELSE {})
  /\ UNCHANGED <<images, late>> /\ Stepping

\* The receiver publishes an image only with its settings (do_POST).
SendImage ==
  /\ pc = "sendImage"
  /\ SettingsOf[Uploaded] \in settings
  /\ images' = images \cup {Uploaded}
  /\ Finish("Acknowledged", "cleanup")
  /\ UNCHANGED <<settings, late>> /\ Stepping

\* No complete answer in time: the receiver may be done, or still at work.
SendImageFails ==
  /\ pc = "sendImage"
  /\ Finish("Pending", "release")
  /\ \/ UNCHANGED receiver
     \/ late' = late \cup {Uploaded} /\ UNCHANGED <<images, settings>>
  /\ Stepping

\* Mutant: a success without a matching receipt counts as delivery.
SendImageRejectedAccepting ==
  /\ pc = "sendImage"
  /\ Finish("Acknowledged", "cleanup")
  /\ UNCHANGED receiver /\ Stepping

\* Refused, or a success without a matching receipt.
SendImageRejected ==
  /\ pc = "sendImage"
  /\ Finish("Blocked", "release")
  /\ UNCHANGED receiver /\ Stepping

LateImage(c) ==
  /\ c \in late
  /\ late' = late \ {c}
  /\ images' = IF SettingsOf[c] \in settings THEN images \cup {c} ELSE images
  /\ UNCHANGED <<card, settings, taken, boot, handoff, engine, pc>>

CleanUpUploaded ==
  /\ pc = "cleanup"
  /\ Remove(ticket) \/ RemoveUnconfirmed(ticket, "release")
  /\ UNCHANGED receiver /\ Stepping

CleanUpFails ==
  /\ Go("cleanup", "release")
  /\ ticket' = 0
  /\ UNCHANGED <<card, receiver, entry, cursor, pruning>> /\ Stepping

\* pruneSettings: any file it cannot read keeps the settings, and so does an
\* image, published or pending, that refers to them.
Unreadable == \/ \E c \in Capture : spool[c] = "torn"
              \/ \E s \in Settings : describe[s] = "torn"
\* Mutant: only published images keep their settings.
ReferencedFinal(s) == \E c \in Spooled : SettingsOf[c] = s
Referenced(s) == \E c \in Capture : spool[c] \in {"whole", "final"} /\ SettingsOf[c] = s

Pruned ==
  /\ Go("prune", IF ticket = 0 THEN "clean" ELSE "release")
  /\ pruning' = None
  /\ ticket' = 0
  /\ UNCHANGED <<spool, receiver, entry, cursor>> /\ Stepping

Prune ==
  /\ Pruned
  /\ describe[pruning] = "final"
  /\ ~Unreadable /\ ~Referenced(pruning)
  /\ describe' = [describe EXCEPT ![pruning] = "none"]

PruneNothing == Pruned /\ UNCHANGED describe

Release ==
  /\ Go("release", "publish")
  /\ reserved' = FALSE
  /\ UNCHANGED <<card, receiver, taken, boot, producing, copying, inbox, published, engine>>

BackoffElapses(i) ==
  /\ entry[i].waiting
  /\ entry' = [entry EXCEPT ![i].waiting = FALSE]
  /\ UNCHANGED <<card, receiver, taken, boot, handoff, ready, cursor, job, ticket, pruning, pc>>

\* Power loss; a request the device had sent may still be processed.
Restart ==
  /\ boot < MaxBoot
  /\ boot' = boot + 1
  /\ producing' = None /\ copying' = FALSE /\ inbox' = None /\ reserved' = FALSE /\ published' = FALSE
  /\ ready' = FALSE /\ entry' = [i \in Slots |-> EmptySlot] /\ cursor' = 1
  /\ job' = None /\ ticket' = 0 /\ pruning' = None
  /\ pc' = "start"
  /\ late' \in {late} \cup (IF pc = "sendImage" THEN {late \cup {Uploaded}} ELSE {})
  /\ UNCHANGED <<card, images, settings, taken>>

-----------------------------------------------------------------------------
Produce == (\E c \in Capture : Offer(c)) \/ Reserve \/ Drop \/ HandoffFails \/ Handoff
Enqueue == \/ Receive \/ Admit \/ Reject \/ InventoryFails
           \/ SettingsKnown \/ SettingsOpen \/ SettingsClose \/ SettingsRename \/ SettingsFail
           \/ SpoolOpen \/ SpoolClose \/ SpoolRename \/ SpoolFail \/ Add \/ AddFull \/ Stored
Step    == \/ CleanUp \/ CleanedUp \/ Begin \/ NothingToUpload \/ SendSettings \/ SendSettingsFails
           \/ SendImage \/ SendImageFails \/ SendImageRejected
           \/ CleanUpUploaded \/ CleanUpFails \/ Prune \/ PruneNothing \/ Release
Worker  == Recover \/ RecoverFails \/ Publish \/ ReceiveNothing \/ Claim \/ ClaimFails \/ Enqueue \/ Step

Next == \/ Produce \/ Worker \/ Restart
        \/ \E c \in Capture : LateImage(c)
        \/ \E i \in Slots : BackoffElapses(i)

Spec == Init /\ [][Next]_vars

(* Both tasks keep running and deadlines pass. The network is only assumed *)
(* to serve an image in Healthy that is sent again and again.              *)
Sending(c, Send) == ticket # 0 /\ Uploaded = c /\ Send
Fairness ==
  /\ WF_vars(Worker)
  /\ WF_vars(Reserve \/ Drop) /\ WF_vars(Handoff \/ HandoffFails)
  /\ \A i \in Slots : WF_vars(BackoffElapses(i))
  /\ \A c \in Healthy : /\ SF_vars(Sending(c, SendSettings))
                        /\ SF_vars(Sending(c, SendImage))
LiveSpec == Spec /\ Fairness

-----------------------------------------------------------------------------
(* The values every variable takes.                                        *)
TypeOK ==
  /\ spool \in [Capture -> FileStates] /\ describe \in [Settings -> FileStates]
  /\ images \subseteq Capture /\ settings \subseteq Settings /\ late \subseteq Capture
  /\ taken \subseteq Capture /\ boot \in 1..MaxBoot
  /\ producing \in Capture \cup {None} /\ inbox \in Capture \cup {None}
  /\ copying \in BOOLEAN /\ reserved \in BOOLEAN /\ published \in BOOLEAN /\ ready \in BOOLEAN
  /\ entry \in [Slots -> [state : {"Empty", "Pending", "Uploading", "Acknowledged", "Blocked"},
                          capture : Capture \cup {None}, waiting : BOOLEAN]]
  /\ cursor \in Slots /\ ticket \in Slots \cup {0}
  /\ job \in Capture \cup {None} /\ pruning \in Settings \cup {None}
  /\ pc \in Steps

(* The spool never holds more files than it may, counting what crashes and *)
(* failed writes left behind (enqueue, canCapture).                        *)
WithinCapacity == Cardinality(Files) <= Capacity

(* An image on the card, finished or not, has its settings file: pruning   *)
(* after another image of the same settings must not take it               *)
(* (writeSettingsFile before writeSpoolFile, pruneSettings).               *)
SettingsAccompany == \A c \in Capture : spool[c] # "none" => describe[SettingsOf[c]] = "final"

(* The reserved flag is held by exactly one owner: the producer copying an *)
(* image, the image in the queue, or the worker from taking it until its   *)
(* upload attempt ends. So there is never a second image buffer, and the   *)
(* queue always has room (submitArchiveImage, run).                        *)
WorkerHolds == pc \notin {"start", "receive", "claim", "publish"}
OneBuffer ==
  /\ reserved = (copying \/ inbox # None \/ WorkerHolds)
  /\ ~(copying /\ inbox # None) /\ ~(WorkerHolds /\ (copying \/ inbox # None))
  /\ job # None => WorkerHolds /\ ticket = 0

(* An entry that will be uploaded can be: its image is complete on the     *)
(* card, and no image has two entries, so none is uploaded after its file  *)
(* was deleted (UploadQueue, recoverSpool, removeAcknowledged).            *)
QueueMatchesCard ==
  /\ \A i \in Slots : entry[i].state \in {"Pending", "Uploading", "Blocked"}
                      => spool[entry[i].capture] = "final"
  /\ \A i, j \in Slots : i # j /\ entry[i].state # "Empty" => entry[i].capture # entry[j].capture

(* What is on the card fits its limits and belongs together, through       *)
(* crashes, failed calls and pruning.                                      *)
CardConsistent == WithinCapacity /\ SettingsAccompany /\ QueueMatchesCard

(* Within one boot an acknowledged image is never sent again, whatever     *)
(* happens to the removal of its file (ArchiveEngine::step).               *)
AcknowledgedOnce ==
  [][\A i \in Slots : entry[i].state = "Acknowledged" /\ boot' = boot
                      => entry'[i].state \in {"Acknowledged", "Empty"}]_vars

(* A stored image stays on the card until the receiver has it, with the    *)
(* settings it was taken with, over any number of failures and restarts.   *)
Delivered == INSTANCE DeliveredImages WITH card <- Spooled
KeptUntilDelivered == Delivered!Spec

(* Every image is kept for as long as it has to be sent, and sent no more. *)
DeliveryKept == AcknowledgedOnce /\ KeptUntilDelivered

-----------------------------------------------------------------------------
(* The inductive invariant                                                 *)

StoringSteps == {"scan", "settings", "settingsClose", "spool", "spoolClose", "spoolRename", "add",
                 "stored"}
SendingSteps == {"sendSettings", "sendImage"}

\* The worker has an image exactly while it stores one, and a slot while it uploads one.
Working ==
  /\ job # None <=> pc \in StoringSteps
  /\ pc \in SendingSteps \cup {"cleanup"} => ticket # 0
  /\ ticket # 0 => pc \in SendingSteps \cup {"cleanup", "prune"}
  /\ pc \in SendingSteps => entry[ticket].state = "Uploading"
  /\ pc = "cleanup" => entry[ticket].state = "Acknowledged"
  /\ pc = "prune" => pruning # None
  /\ copying => producing # None
  /\ pc = "start" => /\ ~published /\ producing = None /\ inbox = None
                     /\ \A i \in Slots : entry[i] = EmptySlot

\* What the worker is writing is as far as it has got.
Writing ==
  /\ pc = "settingsClose" => SettingsFile = "torn"
  /\ pc \in {"spool", "spoolClose", "spoolRename"} => SettingsFile = "final"
  /\ pc = "spoolClose" => spool[job] = "torn"
  /\ pc = "spoolRename" => spool[job] = "whole"
  /\ pc = "add" => spool[job] = "final"

\* Files the worker may still create after its admission.
Outstanding == IF pc = "settings" /\ SettingsFile = "none" THEN 2
               ELSE IF pc \in {"settings", "settingsClose", "spool"} THEN 1 ELSE 0
Budget == IsFiniteSet(Files) /\ Cardinality(Files) + Outstanding <= Capacity

\* Every image is at one place on its way to the card.
OnePlace ==
  /\ \A c \in Capture : spool[c] # "none" => c \in taken
  /\ {producing, inbox, job} \ {None} \subseteq taken
  /\ producing # None => producing # inbox /\ producing # job
  /\ inbox # None => inbox # job

\* An image gets its entry once it is stored; what is acknowledged has arrived.
Queued ==
  /\ \A i \in Slots : entry[i].state = "Empty" <=> entry[i].capture = None
  /\ \A i \in Slots : entry[i].state # "Empty" =>
       /\ entry[i].capture \in taken /\ entry[i].capture \notin {producing, inbox}
       /\ entry[i].capture = job => pc = "stored"
  /\ \A i \in Slots : entry[i].state = "Acknowledged" => entry[i].capture \in images

Inductive ==
  TypeOK /\ Working /\ Writing /\ Budget /\ SettingsAccompany /\ QueueMatchesCard
  /\ OnePlace /\ Queued /\ OneBuffer
=============================================================================
