----------------------------- MODULE SettingsStore -----------------------------
(***************************************************************************)
(* The settings kept in JSON files of their own: the accounting's          *)
(* assumptions, the profile of the register, the image archive's settings. *)
(* The three have the same undo journal and the same conditional save, and *)
(* differ in what a start makes of them and in what a save puts into force.*)
(* The assumptions also have a summary of the history, which a task of its *)
(* own computes and a save invalidates.                                    *)
(*                                                                         *)
(* One action is one call of the storage; the device may lose power        *)
(* between any two.  The file manager and the saves are handled by the one *)
(* task of the web server; nothing keeps the file manager from a recovery, *)
(* which is the flow task's.                                               *)
(***************************************************************************)
EXTENDS FiniteSets

CONSTANTS
  Revision,  \* valid contents of a settings file
  Scale,     \* Scale[r]: the physical scale a profile gives the register
  Absent,    \* no such file
  Torn,      \* a damaged file
  None       \* no value

Contents == Revision \union {Absent}
Record   == [before : Contents, after : Revision]

\* What the constants must be; assumed where they have values.
SettingsAssumption ==
  /\ {Absent, Torn, None} \intersect (Revision \union Record) = {}
  /\ Absent # Torn /\ Absent # None /\ Torn # None
  /\ Revision = DOMAIN Scale

VARIABLES
  kind,       \* which of the three
  file, journal,
  pc, tx,     \* the next call of the storage, and the save's two sides
  processing, \* who holds the ProcessingAccess flag
  active,     \* the settings in force, None before a start has found some
  scan,       \* progress of historyWorker; "idle" is historyActive = false
  fresh,      \* historySettingsGeneration is the one the scan began with
  found,      \* settings the scan has read the history under
  summary,    \* historySummary: the settings it is about
  promised,   \* history: what the file may hold, by the answers so far
  crossed     \* history: somebody put a file there that the recovery under way has not read

disk    == <<file, journal>>
history == <<scan, fresh, found, summary>>
vars    == <<kind, disk, pc, tx, processing, active, history, promised, crossed>>

NoTx == [before |-> None, after |-> None]

Init ==
  /\ kind \in {"assumptions", "profile", "archive"}
  /\ file \in Contents /\ journal = Absent
  /\ pc = "off" /\ tx = NoTx /\ processing = "free" /\ active = None
  /\ scan = "idle" /\ fresh = TRUE /\ found = None /\ summary = None
  /\ promised = {} /\ crossed = FALSE

Go(next) == pc' = next /\ UNCHANGED <<kind, tx, processing, active, history, promised, crossed>>

------------------------------------------------------------------------------
(* a start: recoverSettings, then the file is read *)

\* The profile is restored again when the flow is initialised again.
Boots ==
  /\ pc = "off" \/ (pc = "idle" /\ kind = "profile" /\ processing = "free")
  /\ pc' = "readJournal" /\ processing' = "startup"
  /\ active' = None /\ crossed' = FALSE
  /\ UNCHANGED <<kind, disk, tx, history, promised>>

ReadJournal ==
  /\ pc = "readJournal"
  /\ \/ journal = Absent /\ Go("load")
     \/ journal \in Record /\ Go("readFile")
     \/ Go("unavailable")   \* unreadable or damaged: evidence is kept
  /\ UNCHANGED disk

Intact == file = journal.after \/ (journal.before # Absent /\ file = journal.before)

\* A valid third revision is a conflict: it and the journal are kept.
ReadFile ==
  /\ pc = "readFile"
  /\ \/ Intact /\ Go("cleanup")
     \/ ~Intact /\ file \notin Revision /\ Go("restore")
     \/ ~Intact /\ file \in Revision /\ Go("unavailable")
     \/ Go("unavailable")
  /\ UNCHANGED disk

\* verifiedWrite: the file is truncated, written, closed and read back.
Write(bytes, written, failed) ==
  \/ file' = Torn /\ Go(pc)
  \/ file' = bytes /\ Go(written)
  \/ file' \in {file, Torn, bytes} /\ Go(failed)

\* What there was before is written back, or removed if there was nothing.
RestoreBy(before, restored, failed) ==
  \/ before # Absent /\ Write(before, restored, failed)
  \/ before = Absent /\ file' = Absent /\ Go(restored)
  \/ before = Absent /\ file' \in {file, Absent} /\ Go(failed)

Restore ==
  /\ pc = "restore"
  /\ RestoreBy(journal.before, "cleanup", "unavailable")
  /\ UNCHANGED journal

\* Only the profile is loaded when the journal cannot be removed.
Cleanup ==
  /\ pc = "cleanup"
  /\ \/ journal' = Absent /\ Go("load")
     \/ UNCHANGED journal /\ Go(IF kind = "profile" THEN "load" ELSE "unavailable")
  /\ UNCHANGED file

\* The settings come into force, unless they cannot be read or used.
Load ==
  /\ pc = "load"
  /\ active' \in {None} \union ({file} \intersect Contents)
  /\ pc' = "idle" /\ processing' = "free"
  /\ UNCHANGED <<kind, disk, tx, history, promised, crossed>>

Unavailable ==
  /\ pc = "unavailable"
  /\ pc' = "idle" /\ processing' = "free"
  /\ UNCHANGED <<kind, disk, tx, active, history, promised, crossed>>

Start == ReadJournal \/ ReadFile \/ Restore \/ Cleanup \/ Load \/ Unavailable

------------------------------------------------------------------------------
(* POST: inspect, compare the revision, commit; refusals change nothing *)

SameScale(r, s) == r \in Revision => Scale[r] = Scale[s]

\* Mutant: the revision the author read is not compared.
SaveUnread(expected, next) ==
  /\ pc = "idle" /\ processing = "free"
  /\ journal = Absent /\ file \in Contents
  /\ kind = "profile" => SameScale(file, next)
  /\ processing' = "save"
  /\ tx' = [before |-> expected, after |-> next]
  /\ pc' = "writeJournal" /\ promised' = {expected, next}
  /\ UNCHANGED <<kind, disk, active, history, crossed>>

\* The author has read `expected` and asks for `next` in its place.
Save(expected, next) ==
  /\ pc = "idle" /\ processing = "free"
  /\ journal = Absent /\ file = expected
  /\ kind = "profile" => SameScale(expected, next)
  /\ processing' = "save"
  /\ tx' = [before |-> expected, after |-> next]
  /\ IF expected = next THEN pc' = "saved" /\ UNCHANGED promised
     ELSE pc' = "writeJournal" /\ promised' = {expected, next}
  /\ UNCHANGED <<kind, disk, active, history, crossed>>

WriteJournal ==
  /\ pc = "writeJournal"
  /\ \/ journal' = Torn /\ Go(pc)
     \/ journal' = tx /\ Go("writeFile")
     \/ journal' \in {journal, Torn, tx} /\ Go("failed")
  /\ UNCHANGED file

WriteFile ==
  /\ pc = "writeFile"
  /\ Write(tx.after, "removeJournal", "undo")
  /\ UNCHANGED journal

Undo ==
  /\ pc = "undo"
  /\ RestoreBy(tx.before, "undone", "failed")
  /\ UNCHANGED journal

RemoveJournal ==
  /\ pc \in {"undone", "removeJournal"}
  /\ \/ journal' = Absent /\ Go(IF pc = "undone" THEN "failed" ELSE "saved")
     \/ UNCHANGED journal /\ Go("failed")
  /\ UNCHANGED file

Answer == pc' = "idle" /\ tx' = NoTx /\ processing' = "free" /\ UNCHANGED <<kind, disk, crossed>>

\* Assumptions may fail to become active, a profile may be of another meter than the
\* models', archive settings wait for a restart.
Saved ==
  /\ pc = "saved"
  /\ promised' = {tx.after}
  /\ active' \in CASE kind = "assumptions" -> {active, tx.after}
                   [] kind = "profile"     -> {tx.after, None}
                   [] kind = "archive"     -> {active}
  /\ IF kind = "assumptions" THEN summary' = None /\ fresh' = FALSE
     ELSE UNCHANGED <<summary, fresh>>
  /\ UNCHANGED <<scan, found>>
  /\ Answer

\* Unconfirmed: the author is told to read again.
Failed ==
  /\ pc = "failed"
  /\ UNCHANGED <<active, history, promised>>
  /\ Answer

Commit == WriteJournal \/ WriteFile \/ Undo \/ RemoveJournal \/ Saved \/ Failed

------------------------------------------------------------------------------
(* the history: handler_meter_history_refresh and historyWorker *)

Refresh ==
  /\ kind = "assumptions" /\ pc = "idle" /\ scan = "idle"
  /\ summary' = None
  /\ \/ scan' = "created"
     \/ UNCHANGED scan   \* no task
  /\ UNCHANGED <<kind, disk, pc, tx, processing, active, fresh, found, promised, crossed>>

ScanBegins ==
  /\ scan = "created"
  /\ scan' = "began" /\ fresh' = TRUE /\ found' = None
  /\ UNCHANGED <<kind, disk, pc, tx, processing, active, summary, promised, crossed>>

\* Processing or the storage is busy, with a save or a round, or nothing is in force.
ScanRefused ==
  /\ scan = "began"
  /\ scan' = "done"
  /\ UNCHANGED <<kind, disk, pc, tx, processing, active, fresh, found, summary, promised, crossed>>

ScanReads ==
  /\ scan = "began" /\ processing = "free" /\ active # None
  /\ processing' = "scan" /\ found' = active /\ scan' = "reading"
  /\ UNCHANGED <<kind, disk, pc, tx, active, fresh, summary, promised, crossed>>

ScanDone ==
  /\ scan = "reading"
  /\ processing' = "free" /\ scan' = "done"
  /\ UNCHANGED <<kind, disk, pc, tx, active, fresh, found, summary, promised, crossed>>

\* Published only when no settings were saved since the scan began.
ScanPublishes ==
  /\ scan = "done"
  /\ scan' = "idle"
  /\ summary' = IF fresh THEN found ELSE summary
  /\ UNCHANGED <<kind, disk, pc, tx, processing, active, fresh, found, promised, crossed>>

Scan == ScanBegins \/ ScanRefused \/ ScanReads \/ ScanDone \/ ScanPublishes

------------------------------------------------------------------------------
\* Somebody else puts a file in place, whole or not, or removes it: the file manager, at any
\* time but during a save.
External ==
  /\ processing # "save"
  /\ file' \in Contents \union {Torn}
  /\ promised' = {} /\ crossed' = (crossed \/ pc = "restore")
  /\ UNCHANGED <<kind, journal, pc, tx, processing, active, history>>

PowerLoss ==
  /\ pc # "off"
  /\ pc' = "off" /\ tx' = NoTx /\ processing' = "free" /\ active' = None
  /\ scan' = "idle" /\ fresh' = TRUE /\ found' = None /\ summary' = None
  /\ crossed' = FALSE
  /\ UNCHANGED <<kind, disk, promised>>

Next == \/ Boots \/ Start \/ Commit \/ Refresh \/ Scan \/ External \/ PowerLoss
        \/ \E expected \in Contents, next \in Revision : Save(expected, next)

Spec == Init /\ [][Next]_vars

LiveSpec == Spec /\ WF_vars(Scan)

------------------------------------------------------------------------------
TypeOK ==
  /\ file \in Contents \union {Torn} /\ journal \in Record \union {Absent, Torn}
  /\ pc \in {"off", "readJournal", "readFile", "restore", "cleanup", "load", "unavailable", "idle",
             "writeJournal", "writeFile", "undo", "undone", "removeJournal", "saved", "failed"}
  /\ tx \in [before : Contents \union {None}, after : Revision \union {None}]
  /\ processing \in {"free", "startup", "save", "scan"}
  /\ active \in Contents \union {None} /\ found \in Contents \union {None}
  /\ summary \in Contents \union {None} /\ fresh \in BOOLEAN
  /\ scan \in {"idle", "created", "began", "reading", "done"}

\* What a start will find: a damaged or missing file is what it was before the save.
Recovered == IF journal \in Record /\ file \notin Revision THEN journal.before ELSE file

Register == INSTANCE AtomicConfig WITH Config <- Contents, Damaged <- {Torn}, value <- Recovered

\* A recovery is about to write over a file it has not read: put there since it looked.
Unseen == pc = "restore" /\ crossed

(* Settings that somebody else put in place are never overwritten or       *)
(* removed by a recovery, only by a save whose author had read them; but   *)
(* for those that come between a recovery's reading of the file, which was *)
(* damaged or missing, and its restoring (recoverSettings: Conflict).      *)
KeepsIndependent == file \in Revision /\ promised = {} => file' = file \/ External \/ Unseen

(* No save, failed save or recovery changes the physical scale of a        *)
(* register that has one: its accounted history stays comparable; but for  *)
(* a recovery that writes over a profile put there since it looked         *)
(* (ProfileStore::commit, handleProfileSettings, recoverSettings).         *)
KeepsScale ==
  kind = "profile" /\ Recovered \in Revision /\ Recovered' \in Revision
     => Scale[Recovered'] = Scale[Recovered] \/ External \/ Unseen

(* A summary of the history that is shown was computed under the           *)
(* assumptions in force, however scans, refreshes and saves interleave     *)
(* (historyWorker, handler_meter_history_refresh).                         *)
HistoryCurrent == summary # None => summary = active

------------------------------------------------------------------------------
(* The inductive invariant: how far a save or a recovery has come with the *)
(* two files.                                                              *)

Starting == {"readJournal", "readFile", "restore", "cleanup", "load", "unavailable"}
Saving   == {"writeJournal", "writeFile", "undo", "undone", "removeJournal", "saved", "failed"}

\* A save has a state before it that it may return to, of the same scale, and its journal is
\* complete before the file is touched.
SaveStands ==
  pc \in Saving =>
    /\ processing = "save" /\ tx.before \in Contents /\ tx.after \in Revision
    /\ kind = "profile" => SameScale(tx.before, tx.after)
    /\ pc = "writeJournal" => file = tx.before /\ journal \in {Absent, Torn}
    /\ pc \in {"writeFile", "undo", "undone", "removeJournal"} => journal = tx
    /\ pc = "writeFile" => file \in {tx.before, Torn}
    /\ pc = "undo" => file \in {tx.before, tx.after, Torn}
    /\ pc = "undone" => file = tx.before
    /\ pc \in {"removeJournal", "saved"} => file = tx.after
    /\ pc = "saved" => journal = Absent
    /\ pc # "saved" => promised = {tx.before, tx.after}

\* A recovery only goes on with a journal that is whole, and writes only over what it read as no
\* revision.
RecoveryStands ==
  /\ pc \in {"readFile", "restore", "cleanup"} => journal \in Record
  /\ pc = "restore" => file \notin Revision \/ crossed
  /\ pc \in {"readJournal", "readFile"} => ~crossed
  /\ pc = "restore" /\ crossed => promised = {}
  /\ pc = "cleanup" /\ promised # {} => file \in Revision \/ file = journal.before

\* Only what an answer allows is there to be found.
Promised == promised # {} => Recovered \in promised

\* A scan that may still be published has read the settings in force, if any.
ScanStands ==
  /\ kind # "assumptions" \/ pc \in Starting \union {"off"} => scan = "idle" /\ summary = None
  /\ scan = "reading" => processing = "scan"
  /\ scan \in {"began", "reading", "done"} /\ fresh /\ found # None => found = active

Inductive == /\ TypeOK /\ crossed \in BOOLEAN /\ kind \in {"assumptions", "profile", "archive"}
             /\ SaveStands /\ RecoveryStands /\ Promised /\ ScanStands /\ HistoryCurrent
=============================================================================
