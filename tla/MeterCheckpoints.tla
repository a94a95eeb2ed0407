--------------------------- MODULE MeterCheckpoints ---------------------------
(***************************************************************************)
(* Persistence of the meter accounting: the controller that owns the       *)
(* session, its checkpoints in two alternating slot files per namespace,   *)
(* and the archive of completed segments.                                  *)
(*   - AccountingController: one initialisation per boot, observations and *)
(*     rejections of the processing cycle, switches of the assumptions;    *)
(*   - Recovery: restore at activation, archive before the first rotation, *)
(*     no retry after an uncertain write;                                  *)
(*   - the checkpoint store: newest valid slot, the other one is written.  *)
(* ProcessingAccess gives the controller one owner at a time, so only a    *)
(* power loss can come between two of its storage calls.                   *)
(***************************************************************************)
EXTENDS Naturals

CONSTANTS
  Name,        \* namespaces: one per effective maximum-flow assumption
  Identity,    \* model and calibration hashes of the firmware that may run
  MaxBoot,     \* bound: power-ups
  MaxCapture,  \* bound: usable images over all power-ups
  GenLimit,    \* the largest generation a slot can hold (2^64 - 1)
  Missing,     \* no such file
  Torn,        \* a file that is no whole record
  None         \* "no value"

ASSUME CheckpointAssumption ==
  /\ MaxBoot \in Nat \ {0} /\ MaxCapture \in Nat \ {0} /\ GenLimit \in Nat \ {0}
  /\ Missing # Torn
  /\ None \notin Name

Frame      == [boot : 1..MaxBoot, at : 1..MaxCapture]
Checkpoint == [by : Identity, reference : Frame, anchor : Frame \cup {None}]
Stored     == [generation : 1..GenLimit, checkpoint : Checkpoint]

\* The name of an archive file: boot, anchor and end of the segment.
Path(segment) == [anchor |-> segment.anchor, reference |-> segment.reference]
Paths         == [anchor : Frame, reference : Frame]

VARIABLES
  slot,          \* slot[n][i]: the checkpoint file ".i" of namespace n
  archive,       \* archive[n]: the segments whose file is complete
  damaged,       \* damaged[n]: names of the archive files that are torn
  setting,       \* namespace of the saved assumptions
  boot,          \* boot identity; history numbers the power-ups
  identity,      \* model and calibration of the running firmware
  clock,         \* history: usable images captured so far
  attempted, settingsError, lastStatus,  \* AccountingController, AssumptionsRuntime
  active,        \* the session and recovery in use, or None
  next,          \* the ones about to replace them, or None
  pc             \* progress of the processing owner

disk == <<slot, archive, damaged>>
ram  == <<attempted, settingsError, lastStatus, active, next, pc>>
vars == <<disk, setting, boot, identity, clock, ram>>

Usable  == {"Empty", "Ready", "RecoveredOlder", "Saved"}
StoreStatus == Usable \cup {"IoError", "Corrupt", "Incompatible", "Conflict"}
SessionStates == {"Empty", "Baseline", "Interval", "Rejected", "Restarted", "Pending"}

Session  == [reference : Frame \cup {None}, restored : BOOLEAN, observed : BOOLEAN,
             anchor : Frame \cup {None}, from : Frame \cup {None}, state : SessionStates]
Recovery == [status : StoreStatus, writable : BOOLEAN, pending : Checkpoint \cup {None}]

\* since: history, the images captured before the activation.
Active == [name : Name, session : Session, recovery : Recovery, since : 0..MaxCapture]

ASSUME SentinelAssumption ==
  /\ {Missing, Torn} \cap Stored = {}
  /\ None \notin Frame \cup Checkpoint \cup Stored
  /\ None \notin Active

-----------------------------------------------------------------------------
(* loadCheckpoint                                                          *)

Valid(n, i)   == slot[n][i] \in Stored
Present(n, i) == slot[n][i] # Missing
Newest(n) == IF Valid(n, 1) /\ (Valid(n, 0) => slot[n][1].generation > slot[n][0].generation)
             THEN 1 ELSE 0
Contradictory(n) ==
  /\ Valid(n, 0) /\ Valid(n, 1)
  /\ slot[n][0].generation = slot[n][1].generation
  /\ slot[n][0] # slot[n][1]

\* The newest intact record, whatever firmware wrote it.
Head(n) == IF Valid(n, 0) \/ Valid(n, 1) THEN slot[n][Newest(n)] ELSE None

\* What the two reads find; an older record never stands in for a newest one
\* of another identity.
FoundStatus(n) ==
  CASE ~Present(n, 0) /\ ~Present(n, 1)       -> "Empty"
    [] (Present(n, 0) \/ Present(n, 1)) /\ Head(n) = None -> "Corrupt"
    [] Contradictory(n)                       -> "Conflict"
    [] Head(n) # None /\ ~Contradictory(n) /\ Head(n).checkpoint.by # identity -> "Incompatible"
    [] OTHER -> IF \E i \in 0..1 : slot[n][i] = Torn THEN "RecoveredOlder" ELSE "Ready"

LoadStatuses(n) == {FoundStatus(n), "IoError"}
Restores(status) == status \in {"Ready", "RecoveredOlder"}

\* Mutant: the save writes over the newest valid slot.
TargetNewest(n) == Newest(n)

\* The slot a save writes: never the newest valid one.
Target(n) == IF Head(n) # None /\ Newest(n) = 0 THEN 1 ELSE 0
Generation(n) == IF Head(n) = None THEN 0 ELSE Head(n).generation

-----------------------------------------------------------------------------
(* Activation of a namespace                                               *)

\* A fresh session after Recovery::initialize: a restored reference waits for
\* a new baseline, a restored segment for its archive file.
Candidate(n, status) ==
  LET found == Restores(status)
      saved == Head(n).checkpoint
  IN [name |-> n, since |-> clock,
      session |->
        [reference |-> IF found THEN saved.reference ELSE None, restored |-> found,
         observed |-> FALSE, anchor |-> None, from |-> None,
         state |-> IF found THEN "Restarted" ELSE "Empty"],
      recovery |->
        [status |-> status, writable |-> TRUE,
         pending |-> IF ~found THEN None
                     ELSE IF saved.anchor # None THEN saved ELSE None]]

Init ==
  /\ slot = [n \in Name |-> [i \in 0..1 |-> Missing]]
  /\ archive = [n \in Name |-> {}] /\ damaged = [n \in Name |-> {}]
  /\ setting \in Name
  /\ boot = 1 /\ identity \in Identity /\ clock = 0
  /\ attempted = FALSE /\ settingsError = FALSE /\ lastStatus = "Empty"
  /\ active = None /\ next = None /\ pc = "idle"

\* Power loss and the next start, possibly of another firmware.
Restart ==
  /\ boot < MaxBoot
  /\ boot' = boot + 1
  /\ identity' \in Identity
  /\ attempted' = FALSE /\ settingsError' = FALSE /\ lastStatus' = "Empty"
  /\ active' = None /\ next' = None /\ pc' = "idle"
  /\ UNCHANGED <<disk, setting, clock>>

\* The first reading of a boot restores the saved assumptions, once.
InitializeFails ==
  /\ pc = "cycle" /\ ~attempted
  /\ attempted' = TRUE
  /\ pc' = "idle"
  /\ \/ settingsError' = TRUE /\ UNCHANGED lastStatus
     \/ /\ lastStatus' \in LoadStatuses(setting) \ Usable
        /\ UNCHANGED settingsError
  /\ UNCHANGED <<disk, setting, boot, identity, clock, active, next>>

Initialize ==
  /\ pc = "cycle" /\ ~attempted
  /\ attempted' = TRUE
  /\ lastStatus' \in LoadStatuses(setting) \cap Usable
  /\ active' = Candidate(setting, lastStatus')
  /\ UNCHANGED <<disk, setting, boot, identity, clock, settingsError, next, pc>>

\* AccountingController::apply after a verified save of the assumptions.
Apply(n) ==
  /\ pc = "idle"
  /\ setting' = n
  /\ attempted' = TRUE
  /\ UNCHANGED <<disk, boot, identity, clock>>

\* No-op edits must not reset the reference.
ApplySame(n) ==
  /\ Apply(n)
  /\ active # None /\ active.name = n
  /\ lastStatus' = active.recovery.status
  /\ settingsError' = IF lastStatus' \in Usable THEN FALSE ELSE settingsError
  /\ UNCHANGED <<active, next, pc>>

ApplyFails(n) ==
  /\ Apply(n)
  /\ active # None => active.name # n
  /\ lastStatus' \in LoadStatuses(n) \ Usable
  /\ UNCHANGED <<settingsError, active, next, pc>>

\* With a session in use, its reference is saved before the switch.
ApplyNew(n) ==
  /\ Apply(n)
  /\ active # None => active.name # n
  /\ lastStatus' \in LoadStatuses(n) \cap Usable
  /\ IF active = None
     THEN /\ active' = Candidate(n, lastStatus')
          /\ settingsError' = FALSE
          /\ UNCHANGED <<next, pc>>
     ELSE /\ next' = Candidate(n, lastStatus')
          /\ pc' = "save"
          /\ UNCHANGED <<active, settingsError>>

-----------------------------------------------------------------------------
(* The processing cycle                                                    *)

BeginCycle ==
  /\ pc = "idle"
  /\ pc' = "cycle"
  /\ active' = IF active # None /\ active.session.observed
               THEN [active EXCEPT !.session.state = "Pending", !.session.from = None]
               ELSE active
  /\ UNCHANGED <<disk, setting, boot, identity, clock, attempted, settingsError, lastStatus, next>>

\* The capture failed, or there is no accounting to tell.
EndCycle ==
  /\ pc = "cycle"
  /\ pc' = "idle"
  /\ UNCHANGED <<disk, setting, boot, identity, clock, attempted, settingsError, lastStatus, active, next>>

\* An unusable, contradictory or unresolvable reading keeps the reference.
RejectReading ==
  /\ pc = "cycle" /\ active # None
  /\ pc' = "idle"
  /\ active' = [active EXCEPT !.session.state = "Rejected", !.session.from = None,
                              !.session.observed = TRUE]
  /\ UNCHANGED <<disk, setting, boot, identity, clock, attempted, settingsError, lastStatus, next>>

NewBaseline(session) == session.reference = None \/ session.restored \/ session.reference.boot # boot

\* Mutant: the first reading after a restart continues from the restored reference.
AcceptedBridging(session, frame) ==
  [session EXCEPT !.reference = frame, !.observed = TRUE, !.from = session.reference,
                  !.anchor = IF @ # None THEN @ ELSE IF session.restored THEN session.reference ELSE frame,
                  !.restored = FALSE,
                  !.state = IF session.reference = None THEN "Baseline" ELSE "Interval"]

\* The session after a usable reading.
Accepted(session, frame) ==
  IF NewBaseline(session)
  THEN [reference |-> frame, restored |-> FALSE, observed |-> TRUE, anchor |-> frame, from |-> None,
        state |-> IF session.reference = None THEN "Baseline" ELSE "Restarted"]
  ELSE [session EXCEPT !.reference = frame, !.observed = TRUE, !.from = session.reference,
                       !.state = "Interval"]

Observe ==
  /\ pc = "cycle" /\ active # None
  /\ clock < MaxCapture
  /\ clock' = clock + 1
  /\ active' = [active EXCEPT !.session = Accepted(active.session, [boot |-> boot, at |-> clock + 1])]
  /\ pc' = "save"
  /\ UNCHANGED <<disk, setting, boot, identity, attempted, settingsError, lastStatus, next>>

-----------------------------------------------------------------------------
(* Recovery::save, one storage call per step                               *)

\* The end of a save: a switch goes through only if its outcome is usable.
Finish(recovery) ==
  /\ pc' = "idle"
  /\ next' = None
  /\ IF next # None /\ recovery.status \in Usable
     THEN /\ active' = next
          /\ lastStatus' = next.recovery.status
          /\ settingsError' = FALSE
     ELSE /\ active' = [active EXCEPT !.recovery = recovery]
          /\ lastStatus' = recovery.status
          /\ UNCHANGED settingsError
  /\ UNCHANGED <<setting, boot, identity, clock, attempted>>

\* Mutant: a failed save leaves the recovery writable.
FailWritable(status) == Finish([active.recovery EXCEPT !.status = status])

\* An uncertain write is not retried before the next activation.
Fail(status) == Finish([active.recovery EXCEPT !.status = status, !.writable = FALSE])

Proceed(label) ==
  /\ pc' = label
  /\ UNCHANGED <<setting, boot, identity, clock, attempted, settingsError, lastStatus, active, next>>

SaveRefused ==
  /\ pc = "save"
  /\ ~active.recovery.writable \/ active.session.reference = None
  /\ Finish(active.recovery)
  /\ UNCHANGED disk

MaySave == pc = "save" /\ active.recovery.writable /\ active.session.reference # None

Pending  == active.recovery.pending
Occupied == \/ Path(Pending) \in damaged[active.name]
            \/ \E segment \in archive[active.name] : segment # Pending /\ Path(segment) = Path(Pending)

\* The archive file of the restored segment is unreadable, different, or
\* cannot be created.
ArchiveFails ==
  /\ MaySave /\ Pending # None
  /\ \/ Fail("IoError") \* the read, or the open of a missing file
     \/ Occupied /\ Fail("Conflict")
  /\ UNCHANGED disk

ArchiveOpen ==
  /\ MaySave /\ Pending # None
  /\ ~Occupied /\ Pending \notin archive[active.name]
  /\ damaged' = [damaged EXCEPT ![active.name] = @ \cup {Path(Pending)}]
  /\ Proceed("archiveClose")
  /\ UNCHANGED <<slot, archive>>

ArchiveComplete ==
  /\ damaged' = [damaged EXCEPT ![active.name] = @ \ {Path(Pending)}]
  /\ archive' = [archive EXCEPT ![active.name] = @ \cup {Pending}]
  /\ UNCHANGED slot

Archived ==
  /\ pc' = "slot"
  /\ active' = [active EXCEPT !.recovery.pending = None, !.recovery.status = "Ready"]
  /\ UNCHANGED <<setting, boot, identity, clock, attempted, settingsError, lastStatus, next>>

\* A write may fail with any content, or its readback may.
ArchiveClose ==
  /\ pc = "archiveClose"
  /\ \/ ArchiveComplete /\ Archived
     \/ ArchiveComplete /\ Fail("IoError")
     \/ UNCHANGED disk /\ Fail("IoError")

AlreadyArchived ==
  /\ MaySave /\ Pending # None /\ ~Occupied
  /\ Pending \in archive[active.name]
  /\ Archived
  /\ UNCHANGED disk

NothingToArchive ==
  /\ MaySave /\ Pending = None
  /\ Proceed("slot")
  /\ UNCHANGED disk

\* Mutant: saveCheckpoint does not stop at the last generation.
SlotOpenUnlimited ==
  /\ pc = "slot"
  /\ FoundStatus(active.name) \in Usable
  /\ slot' = [slot EXCEPT ![active.name][Target(active.name)] = Torn]
  /\ Proceed("slotClose")
  /\ UNCHANGED <<archive, damaged>>

\* saveCheckpoint looks at both slots again.
SlotFails ==
  /\ pc = "slot"
  /\ \/ \E status \in LoadStatuses(active.name) \ Usable : Fail(status)
     \/ FoundStatus(active.name) \in Usable /\ Generation(active.name) = GenLimit /\ Fail("Conflict")
  /\ UNCHANGED disk

SlotOpen ==
  /\ pc = "slot"
  /\ FoundStatus(active.name) \in Usable
  /\ Generation(active.name) # GenLimit
  /\ slot' = [slot EXCEPT ![active.name][Target(active.name)] = Torn]
  /\ Proceed("slotClose")
  /\ UNCHANGED <<archive, damaged>>

SlotRecord ==
  [generation |-> Generation(active.name) + 1,
   checkpoint |-> [by |-> identity, reference |-> active.session.reference,
                   anchor |-> active.session.anchor]]

SlotComplete ==
  /\ slot' = [slot EXCEPT ![active.name][Target(active.name)] = SlotRecord]
  /\ UNCHANGED <<archive, damaged>>

\* Mutant: the readback of the slot is ignored.
SlotCloseUnverified ==
  /\ pc = "slotClose"
  /\ \/ SlotComplete \/ UNCHANGED disk
  /\ Finish([active.recovery EXCEPT !.status = "Saved"])

SlotClose ==
  /\ pc = "slotClose"
  /\ \/ SlotComplete /\ Finish([active.recovery EXCEPT !.status = "Saved"])
     \/ SlotComplete /\ Fail("IoError")
     \/ UNCHANGED disk /\ Fail("IoError")

-----------------------------------------------------------------------------
Cycle  == BeginCycle \/ EndCycle \/ InitializeFails \/ Initialize \/ RejectReading \/ Observe
Save   == \/ SaveRefused \/ ArchiveFails \/ ArchiveOpen \/ ArchiveClose \/ AlreadyArchived
          \/ NothingToArchive \/ SlotFails \/ SlotOpen \/ SlotClose
Switch == \E n \in Name : ApplySame(n) \/ ApplyFails(n) \/ ApplyNew(n)

Next == Cycle \/ Save \/ Switch \/ Restart

Spec == Init /\ [][Next]_vars

-----------------------------------------------------------------------------
(* Properties                                                              *)

\* Every file and every variable holds a value of its kind.
TypeOK ==
  /\ slot \in [Name -> [0..1 -> Stored \cup {Missing, Torn}]]
  /\ archive \in [Name -> SUBSET Checkpoint]
  /\ damaged \in [Name -> SUBSET Paths]
  /\ setting \in Name /\ boot \in 1..MaxBoot /\ identity \in Identity
  /\ clock \in 0..MaxCapture
  /\ attempted \in BOOLEAN /\ settingsError \in BOOLEAN /\ lastStatus \in StoreStatus
  /\ active \in Active \cup {None} /\ next \in Active \cup {None}
  /\ pc \in {"idle", "cycle", "save", "archiveClose", "slot", "slotClose"}

\* AccountingController::current: the display calls the reference persisted.
ReferencePersisted ==
  /\ active # None /\ active.session.reference # None
  /\ active.recovery.status \in {"Ready", "RecoveredOlder", "Saved"}

\* When the owner is done and the status page says that the reference (and the
\* running segment) is persisted, the newest record on the card is exactly it,
\* and the firmware that would start now could load it.
PersistedMeansOnDisk ==
  pc = "idle" /\ ReferencePersisted =>
    LET head == Head(active.name) IN
    /\ FoundStatus(active.name) \in {"Ready", "RecoveredOlder"}
    /\ head.checkpoint.reference = active.session.reference
    /\ active.session.anchor # None => head.checkpoint.anchor = active.session.anchor

\* Consumption is only ever measured between images of one activation: neither
\* the interval nor the running segment starts at a restored reference, even one
\* of the same boot that another namespace was used after.
NoConsumptionAcrossGap ==
  active # None =>
    \A start \in {active.session.anchor, active.session.from} \ {None} :
      /\ start.boot = boot /\ active.session.reference.boot = boot
      /\ active.since < start.at /\ start.at <= active.session.reference.at

Segments(n) == archive[n] \cup
  (IF Head(n) = None THEN {} ELSE {c \in {Head(n).checkpoint} : c.anchor # None})

\* Two segments of a namespace with different anchors never cover a common
\* time: the history reader rejects the whole history otherwise.
SegmentsDisjoint ==
  \A n \in Name : \A a, b \in Segments(n) :
    a.anchor # b.anchor => a.reference.at < b.anchor.at \/ b.reference.at < a.anchor.at

\* What a segment covers is measured, and measured once.
SegmentsSound == NoConsumptionAcrossGap /\ SegmentsDisjoint

\* After an uncertain write or a failed read nothing of the namespace is written
\* until it is inspected again: no retry, whatever else is recorded or switched.
NoBlindRetry ==
  [][\A n \in Name :
       (active # None /\ active.name = n /\ active.recovery.status \notin Usable)
         => UNCHANGED <<slot[n], archive[n], damaged[n]>>]_vars

\* Switching the assumptions never loses the outgoing reference: the session is
\* replaced only when the newest record of its namespace holds that reference.
OutgoingPreserved ==
  [][\A n \in Name :
       (active # None /\ active.name = n /\ boot' = boot) =>
         /\ active' # None
         /\ (active'.name # n /\ active.session.reference # None)
              => /\ Head(n)' # None
                 /\ Head(n)'.checkpoint.reference = active.session.reference]_vars

\* What another firmware (another model or calibration) recorded stays as it is.
ForeignRecordsKept ==
  [][\A n \in Name : (Head(n) # None /\ Head(n).checkpoint.by # identity)
       => UNCHANGED <<slot[n], archive[n], damaged[n]>>]_vars

\* A record on the card is given up for a newer one only: not to a retry after an
\* uncertain write, a switch of the assumptions, or another firmware.
RecordsProtected == NoBlindRetry /\ OutgoingPreserved /\ ForeignRecordsKept

\* The files implement the abstract ledger.
Ledger == INSTANCE MeterLedger WITH
  head <- [n \in Name |-> IF Head(n) = None THEN None ELSE Head(n).checkpoint],
  kept <- archive
ImplementsLedger == Ledger!Spec

\* docs/ACCOUNTING-RECOVERY.md: the state "conflict" means "Checkpoint copies
\* contradict each other".
ConflictMeansContradiction ==
  active # None /\ active.recovery.status = "Conflict" => Contradictory(active.name)

-----------------------------------------------------------------------------
(* The inductive invariant                                                 *)

\* The two slots of a namespace never hold the same generation.
SlotsOrdered ==
  \A n \in Name : Valid(n, 0) /\ Valid(n, 1) => slot[n][0].generation # slot[n][1].generation

\* What is on the card has been captured, and only segments are archived.
CardPast ==
  \A n \in Name :
    /\ Head(n) # None => Head(n).checkpoint.reference.at <= clock
    /\ \A c \in archive[n] : c.anchor # None /\ c.reference.at <= clock

\* A session measures from an image of its own activation, or waits for a new baseline.
Measures(a) ==
  LET s == a.session IN
  /\ a.since <= clock
  /\ s.reference = None \/ s.restored => s.anchor = None /\ s.from = None
  /\ s.restored => s.reference # None
  /\ s.reference # None => s.reference.at <= clock
  /\ s.reference # None /\ ~s.restored =>
       s.anchor # None /\ s.reference.boot = boot /\ a.since < s.reference.at
  /\ \A start \in {s.anchor, s.from} \ {None} :
       start.boot = boot /\ a.since < start.at /\ start.at <= s.reference.at

\* The newest record is of this firmware, and no newer than the session; the segment it ends is
\* still to be archived, has been, or is the session's own.
Continues(a) ==
  LET head == Head(a.name) IN
  /\ head # None =>
       /\ head.checkpoint.by = identity
       /\ a.session.reference # None /\ head.checkpoint.reference.at <= a.session.reference.at
       /\ a.recovery.pending = None =>
            head.checkpoint.anchor \in {None, a.session.anchor} \/ head.checkpoint \in archive[a.name]
  /\ a.recovery.pending # None =>
       head # None /\ a.recovery.pending = head.checkpoint /\ head.checkpoint.anchor # None
  /\ \A c \in Segments(a.name) : c.reference.at <= a.since \/ c.anchor = a.session.anchor

\* What the status page calls persisted is the newest record on the card.
OnCard(a) ==
  a.session.reference # None /\ a.recovery.status \in {"Ready", "RecoveredOlder", "Saved"} =>
    /\ FoundStatus(a.name) \in {"Ready", "RecoveredOlder"}
    /\ Head(a.name) # None
    /\ Head(a.name).checkpoint.reference = a.session.reference
    /\ a.session.anchor # None => Head(a.name).checkpoint.anchor = a.session.anchor

Saving == {"save", "archiveClose", "slot", "slotClose"}

\* The owner saves a session that may be saved; one about to replace it waits for that.
Owned ==
  /\ ~attempted => active = None
  /\ active # None => (active.recovery.writable <=> active.recovery.status \in Usable)
  /\ pc \in Saving => active # None
  /\ pc \in Saving \ {"save"} => active.recovery.writable /\ active.session.reference # None
  /\ pc = "archiveClose" => active.recovery.pending # None
  /\ pc \in {"slot", "slotClose"} => active.recovery.pending = None
  /\ pc = "slotClose" => Generation(active.name) # GenLimit
  /\ next # None => /\ pc \in Saving /\ next.name # active.name
                     /\ next.recovery.writable /\ next.recovery.status \in Usable

Sound ==
  /\ active # None => Measures(active) /\ Continues(active) /\ (pc \notin Saving => OnCard(active))
  /\ next # None => Measures(next) /\ Continues(next) /\ OnCard(next)

Inductive == TypeOK /\ SlotsOrdered /\ CardPast /\ SegmentsDisjoint /\ Owned /\ Sound
=============================================================================
