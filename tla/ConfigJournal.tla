---------------------------- MODULE ConfigJournal ----------------------------
(***************************************************************************)
(* The undo journal that protects /sdcard/config/config.ini, together with *)
(* every writer of that file on a running device:                          *)
(*   - InitFlow, which recovers the journal and loads the configuration    *)
(*     (flow task at startup, HTTP /init later);                           *)
(*   - the two journaled HTTP saves (complete config, LED intensity);      *)
(*   - the unjournaled file-manager upload and delete;                     *)
(*   - the unjournaled startup migration of renamed parameters.            *)
(* One action is one storage call; the device may lose power between any   *)
(* two of them.  A file opened for writing is truncated at once and holds  *)
(* an arbitrary prefix until it is closed.                                 *)
(***************************************************************************)
CONSTANTS
  Config,     \* complete, non-empty configurations of at most 64 KiB
  Migrated,   \* Migrated[c]: c after the startup migration of old parameters
  Partial,    \* a non-empty proper prefix of a file
  Empty,      \* a zero-length file
  Missing,    \* no such file
  None        \* "no value" of the history variables

Damaged == {Partial, Empty, Missing}
Record  == [before : Config, after : Config]

ASSUME ConfigAssumption ==
  /\ Config \cap Damaged = {}
  /\ Record \cap Damaged = {}
  /\ None \notin Config \cup Damaged
  /\ Partial # Missing /\ Empty # Missing
  /\ Migrated \in [Config -> Config]

VARIABLES
  config, journal, backup,  \* config.ini, config.ini.journal, config.bak
  boot,      \* progress of app_main up to the start of the web server
  migrating, \* what migrateConfiguration is about to write
  safe,      \* ConfigStorage::safe()
  loaded,    \* InitFlow of the flow task has returned since the last boot
  camera,    \* who owns CameraAccess
  pc,        \* next storage call of that owner's journal transaction
  tx,        \* its before and after arguments
  upload,    \* the configuration the file manager is receiving, or None
  promised,  \* history: the contents the replies so far allow; {} after a raw write
  raw        \* history: an unjournaled writer left config.ini damaged

disk     == <<config, journal, backup>>
volatile == <<boot, migrating, safe, loaded, camera, pc, tx, upload>>
vars     == <<disk, volatile, promised, raw>>

Initializers == {"init", "reload"}   \* InitFlow of the flow task, of HTTP /init
Savers       == {"save", "intensity"}
HttpBusy     == camera \in Savers \cup {"reload"} \/ upload # None
Torn         == {Partial, Empty}

RecoverSteps == {"readJournal", "readConfig", "restoreOpen", "restoreClose", "recoverRemove"}
CommitSteps  == {"baseline", "journalOpen", "journalClose"}
WriteSteps   == {"configOpen", "configClose", "undoOpen", "undoClose"}
LastSteps    == {"undoRemove", "commitRemove"}
Results      == {"Ok", "Conflict", "IoError", "InvalidJournal", "CleanupPending"}

\* The two sides of a decodable journal.
Sides == {journal.before, journal.after}

NoTx == [before |-> None, after |-> None]

Init ==
  /\ config \in Config
  /\ journal = Missing
  /\ backup = Missing
  /\ boot = "off" /\ migrating = None
  /\ safe = TRUE /\ loaded = FALSE
  /\ camera = "free" /\ pc = "idle" /\ tx = NoTx
  /\ upload = None
  /\ promised = {}
  /\ raw = FALSE

-----------------------------------------------------------------------------
(* Startup: migrateConfiguration runs before the web server and InitFlow. *)

\* What the migration makes of the file: a whole configuration, or the prefix
\* of one (which may hold old parameters too).
MigrationOf(content) == IF content \in Config THEN Migrated[content] ELSE content

MigrateSkip ==
  /\ boot = "off"
  /\ config \in Config => MigrationOf(config) = config
  /\ boot' = "up"
  /\ UNCHANGED <<disk, migrating, safe, loaded, camera, pc, tx, upload, promised, raw>>

\* RenameFile ignores the result of rename(), which FAT refuses when
\* config.bak already exists.
MigrateRename ==
  /\ boot = "off"
  /\ \/ config \in Config /\ MigrationOf(config) # config
     \/ config = Partial
  /\ migrating' = MigrationOf(config)
  /\ IF backup = Missing
     THEN config' = Missing /\ backup' = config /\ raw' = TRUE
     ELSE UNCHANGED <<config, backup, raw>>
  /\ boot' = "migrateOpen"
  /\ promised' = IF config \in Config THEN {} ELSE promised
  /\ UNCHANGED <<journal, safe, loaded, camera, pc, tx, upload>>

MigrateOpen ==
  /\ boot = "migrateOpen"
  /\ config' \in Torn
  /\ raw' = TRUE
  /\ boot' = "migrateClose"
  /\ UNCHANGED <<journal, backup, migrating, safe, loaded, camera, pc, tx, upload, promised>>

\* The results of fwrite and fclose are not checked.
MigrateClose ==
  /\ boot = "migrateClose"
  /\ config' \in Torn \cup {migrating}
  /\ raw' = (config' \notin Config)
  /\ migrating' = None
  /\ boot' = "up"
  /\ UNCHANGED <<journal, backup, safe, loaded, camera, pc, tx, upload, promised>>

\* Power loss: the RAM is gone; safe() is statically initialised to true.
Crash ==
  /\ boot # "off"
  /\ boot' = "off" /\ migrating' = None
  /\ safe' = TRUE /\ loaded' = FALSE
  /\ camera' = "free" /\ pc' = "idle" /\ tx' = NoTx
  /\ upload' = None
  /\ UNCHANGED <<disk, promised, raw>>

-----------------------------------------------------------------------------
(* CameraAccess serialises InitFlow, the two saves and the camera users.  *)

StreamTake ==
  /\ boot = "up" /\ camera = "free"
  /\ camera' = "stream"
  /\ UNCHANGED <<disk, boot, migrating, safe, loaded, pc, tx, upload, promised, raw>>

StreamRelease ==
  /\ camera = "stream"
  /\ camera' = "free"
  /\ UNCHANGED <<disk, boot, migrating, safe, loaded, pc, tx, upload, promised, raw>>

MayInitialize(who) ==
  /\ boot = "up"
  /\ IF who = "init" THEN ~loaded ELSE ~HttpBusy

\* InitFlow marks the storage unsafe before it waits for the camera.
InitBegin(who) ==
  /\ MayInitialize(who)
  /\ camera = "free"
  /\ camera' = who
  /\ safe' = FALSE
  /\ pc' = "readJournal"
  /\ UNCHANGED <<disk, boot, migrating, loaded, tx, upload, promised, raw>>

InitBusy(who) ==
  /\ MayInitialize(who)
  /\ camera # "free" /\ camera # who
  /\ safe' = FALSE
  /\ loaded' = IF who = "init" THEN TRUE ELSE loaded
  /\ UNCHANGED <<disk, boot, migrating, camera, pc, tx, upload, promised, raw>>

\* save_config_handler: the body carries the client's before and after.
SaveConfig(before, after) ==
  /\ boot = "up" /\ ~HttpBusy
  /\ camera = "free" /\ safe /\ journal = Missing
  /\ camera' = "save"
  /\ tx' = [before |-> before, after |-> after]
  /\ pc' = "readJournal"
  /\ UNCHANGED <<disk, boot, migrating, safe, loaded, upload, promised, raw>>

\* SaveCameraIntensity::save edits the file it has just read; an unreadable
\* or damaged file is InvalidConfig and nothing happens.
SaveIntensity(after) ==
  /\ boot = "up" /\ ~HttpBusy
  /\ camera = "free" /\ safe
  /\ config \in Config
  /\ camera' = "intensity"
  /\ tx' = [before |-> config, after |-> after]
  /\ pc' = "readJournal"
  /\ UNCHANGED <<disk, boot, migrating, safe, loaded, upload, promised, raw>>

-----------------------------------------------------------------------------
(* ConfigJournal::recover and ::commit, one storage call per action.       *)

Go(next) == pc' = next /\ UNCHANGED <<boot, migrating, safe, loaded, camera, tx, upload>>

DiskSame == UNCHANGED <<disk, promised, raw>>

\* recover() returned with this result: InitFlow finishes with it, commit()
\* continues after Ok and reports a left-over journal as an I/O error.
Recovered(result) ==
  IF camera \in Initializers \/ result \notin {"Ok", "CleanupPending"}
  THEN result
  ELSE IF result = "Ok" THEN "baseline" ELSE "IoError"

ReadJournal ==
  /\ pc = "readJournal"
  /\ \/ Go(Recovered("IoError"))
     \/ journal = Missing /\ Go(Recovered("Ok"))
     \/ journal \in Torn  /\ Go(Recovered("InvalidJournal"))
     \/ journal \in Record /\ Go("readConfig")
  /\ DiskSame

\* Mutant: recovery takes only the old side for an intact file.
ReadConfigOldOnly ==
  /\ pc = "readConfig"
  /\ \/ config = journal.before /\ Go("recoverRemove")
     \/ config # journal.before /\ Go("restoreOpen")
  /\ DiskSame

ReadConfig ==
  /\ pc = "readConfig"
  /\ \/ Go(Recovered("IoError"))
     \/ config \in Sides /\ Go("recoverRemove")
     \/ config \notin Sides /\ Go("restoreOpen")
  /\ DiskSame

\* fopen "wb": fails without effect, or truncates.
OpenConfig(closing, failed) ==
  \/ Go(failed) /\ DiskSame
  \/ config' \in Torn /\ Go(closing) /\ UNCHANGED <<journal, backup, promised, raw>>

\* The rest of verifiedWrite: success means the readback equalled the bytes;
\* a failure leaves any prefix of them, or all of them.
CloseConfig(bytes, written, failed) ==
  /\ \/ config' = bytes /\ Go(written)
     \/ config' \in Torn \cup {bytes} /\ Go(failed)
  /\ raw' = IF config' = bytes THEN FALSE ELSE raw
  /\ UNCHANGED <<journal, backup, promised>>

RestoreOpen  == pc = "restoreOpen" /\ OpenConfig("restoreClose", Recovered("IoError"))
RestoreClose == /\ pc = "restoreClose"
                /\ CloseConfig(journal.before, "recoverRemove", Recovered("IoError"))

RemoveJournal(removed, kept) ==
  \/ journal' = Missing /\ Go(removed) /\ UNCHANGED <<config, backup, promised, raw>>
  \/ Go(kept) /\ DiskSame

RecoverRemove ==
  /\ pc = "recoverRemove"
  /\ RemoveJournal(Recovered("Ok"), Recovered("CleanupPending"))

Baseline ==
  /\ pc = "baseline"
  /\ \/ Go("IoError")
     \/ config # tx.before /\ Go(IF config = Missing THEN "IoError" ELSE "Conflict")
     \/ config = tx.before /\ tx.before = tx.after /\ Go("Ok")
  /\ DiskSame

\* Mutant: commit does not compare the file with the client's baseline.
AttemptAnyBaseline ==
  /\ pc = "baseline"
  /\ tx.before # tx.after
  /\ promised' = {tx.before, tx.after}
  /\ Go("journalOpen")
  /\ UNCHANGED <<disk, raw>>

\* From here on the configuration may become "after".
Attempt ==
  /\ pc = "baseline"
  /\ config = tx.before /\ tx.before # tx.after
  /\ promised' = {tx.before, tx.after}
  /\ Go("journalOpen")
  /\ UNCHANGED <<disk, raw>>

JournalOpen ==
  /\ pc = "journalOpen"
  /\ \/ Go("IoError") /\ DiskSame
     \/ journal' \in Torn /\ Go("journalClose") /\ UNCHANGED <<config, backup, promised, raw>>

\* Mutant: the journal holds the bare old configuration, not the encoded pair.
JournalCloseBare ==
  /\ pc = "journalClose"
  /\ journal' = tx.before /\ Go("configOpen")
  /\ UNCHANGED <<config, backup, promised, raw>>

\* Mutant: the journal write is not verified.
JournalCloseUnverified ==
  /\ pc = "journalClose"
  /\ journal' \in Torn \cup {tx}
  /\ Go("configOpen")
  /\ UNCHANGED <<config, backup, promised, raw>>

JournalClose ==
  /\ pc = "journalClose"
  /\ \/ journal' = tx /\ Go("configOpen")
     \/ journal' \in Torn \cup {tx} /\ Go("IoError")
  /\ UNCHANGED <<config, backup, promised, raw>>

ConfigOpen  == pc = "configOpen" /\ OpenConfig("configClose", "undoOpen")
ConfigClose == pc = "configClose" /\ CloseConfig(tx.after, "commitRemove", "undoOpen")
UndoOpen    == pc = "undoOpen" /\ OpenConfig("undoClose", "IoError")
UndoClose   == pc = "undoClose" /\ CloseConfig(tx.before, "undoRemove", "IoError")

UndoRemove   == pc = "undoRemove" /\ RemoveJournal("IoError", "IoError")
CommitRemove == pc = "commitRemove" /\ RemoveJournal("Ok", "CleanupPending")

-----------------------------------------------------------------------------
(* The callers act on the result and release the camera.                   *)

Release ==
  /\ camera' = "free" /\ pc' = "idle" /\ tx' = NoTx
  /\ UNCHANGED <<disk, boot, migrating, upload, raw>>

\* InitFlow accepts Ok and CleanupPending, then rejects a missing or empty
\* file; any read error leaves the storage unsafe.
InitEnd ==
  /\ camera \in Initializers /\ pc \in Results
  /\ \/ safe' = FALSE
     \/ pc \in {"Ok", "CleanupPending"} /\ config \notin {Missing, Empty} /\ safe' = TRUE
  /\ loaded' = IF camera = "init" THEN TRUE ELSE loaded
  /\ promised' = promised
  /\ Release

\* Mutant: an I/O error is reported as saved.
SaveEndAlwaysSaved ==
  /\ camera = "save" /\ pc \in Results
  /\ safe' = (safe /\ pc \in {"Ok", "CleanupPending", "Conflict"})
  /\ promised' = IF pc # "Conflict" THEN {tx.after} ELSE promised
  /\ loaded' = loaded
  /\ Release

SaveEnd ==
  /\ camera = "save" /\ pc \in Results
  /\ safe' = (safe /\ pc \in {"Ok", "CleanupPending", "Conflict"})
  /\ promised' = IF pc \in {"Ok", "CleanupPending"} THEN {tx.after} ELSE promised
  /\ loaded' = loaded
  /\ Release

\* A failed intensity save re-reads the file: unchanged is reported as a
\* harmless failure, anything else as RecoveryRequired.
IntensityEnd ==
  /\ camera = "intensity" /\ pc \in Results
  /\ \/ pc \in {"Ok", "CleanupPending"} /\ promised' = {tx.after} /\ safe' = safe
     \/ /\ pc \notin {"Ok", "CleanupPending"}
        /\ config = tx.before
        /\ promised' = promised \cap {tx.before} /\ safe' = safe
     \/ /\ pc \notin {"Ok", "CleanupPending"}
        /\ safe' = FALSE /\ promised' = promised
  /\ loaded' = loaded
  /\ Release

-----------------------------------------------------------------------------
(* The file manager: unjournaled, refused while a journal exists.          *)

Delete ==
  /\ boot = "up" /\ ~HttpBusy /\ journal = Missing
  /\ config' = Missing
  /\ promised' = {} /\ raw' = TRUE
  /\ UNCHANGED <<journal, backup, volatile>>

UploadOpen(bytes) ==
  /\ boot = "up" /\ ~HttpBusy /\ journal = Missing
  /\ config = Missing
  /\ config' \in Torn
  /\ upload' = bytes
  /\ promised' = {} /\ raw' = TRUE
  /\ UNCHANGED <<journal, backup, boot, migrating, safe, loaded, camera, pc, tx>>

\* The body arrived (fclose is unchecked), or receiving or writing failed and
\* the file was unlinked.
UploadClose ==
  /\ upload # None
  /\ config' \in Torn \cup {upload, Missing}
  /\ raw' = (config' # upload)
  /\ upload' = None
  /\ UNCHANGED <<journal, backup, boot, migrating, safe, loaded, camera, pc, tx, promised>>

-----------------------------------------------------------------------------
JournalStep ==
  \/ ReadJournal \/ ReadConfig \/ RestoreOpen \/ RestoreClose \/ RecoverRemove
  \/ Baseline \/ Attempt \/ JournalOpen \/ JournalClose
  \/ ConfigOpen \/ ConfigClose \/ UndoOpen \/ UndoClose \/ UndoRemove \/ CommitRemove

Migrate == MigrateSkip \/ MigrateRename \/ MigrateOpen \/ MigrateClose

Callers ==
  \/ \E who \in Initializers : InitBegin(who) \/ InitBusy(who)
  \/ \E before, after \in Config : SaveConfig(before, after)
  \/ \E after \in Config : SaveIntensity(after)
  \/ InitEnd \/ SaveEnd \/ IntensityEnd

FileManager == Delete \/ UploadClose \/ \E bytes \in Config : UploadOpen(bytes)

Next == Crash \/ Migrate \/ StreamTake \/ StreamRelease \/ Callers \/ JournalStep \/ FileManager

Spec == Init /\ [][Next]_vars

-----------------------------------------------------------------------------
(* Properties                                                              *)

Pcs == {"idle"} \cup RecoverSteps \cup CommitSteps \cup WriteSteps \cup LastSteps \cup Results

\* Every variable keeps its type, the camera owner and the transaction agree,
\* and a transaction's arguments are present exactly for the two saves.
TypeOK ==
  /\ config \in Config \cup Damaged
  /\ journal \in Record \cup Damaged
  /\ backup \in Config \cup {Partial, Missing}
  /\ boot \in {"off", "migrateOpen", "migrateClose", "up"}
  /\ migrating \in Config \cup {Partial, None}
  /\ safe \in BOOLEAN /\ loaded \in BOOLEAN
  /\ camera \in {"free", "stream"} \cup Initializers \cup Savers
  /\ pc \in Pcs
  /\ tx \in Record \cup {NoTx}
  /\ upload \in Config \cup {None}
  /\ promised \in SUBSET Config
  /\ raw \in BOOLEAN

\* The configuration the device will have once the journal is recovered: the
\* file itself while it is one of the two sides of a decodable journal or no
\* such journal exists, the journal's before otherwise.
Effective ==
  IF journal \in Record /\ config \notin Sides
  THEN journal.before ELSE config

\* Whatever was answered to a client stays true through crashes, failed
\* writes, recoveries and later boots: after "saved" the configuration is the
\* saved one, after "failed, unchanged" it is the old one, after any other
\* failure it is one of the two -- until an unjournaled writer changes it.
PromiseKept == promised # {} => Effective \in promised

\* The journaled paths alone never leave config.ini damaged without a
\* decodable journal that can repair it (ConfigJournal::commit writes and
\* verifies the journal before it touches the file).
JournaledPathNeverTears == config \notin Config => raw \/ journal \in Record

\* Once InitFlow has run, recognition is not allowed (safe() is false) while
\* the journaled paths have left config.ini damaged, outside a running save.
SafeMeansRepaired ==
  safe /\ loaded /\ camera \notin Savers => config \in Config \/ raw

\* A file-manager upload of config.ini never overlaps a pending journal, so
\* recovery can never mistake half an upload for its own torn write.
UploadNeverUnderJournal == upload # None => journal = Missing

\* What the journal is for: damage done through it can be repaired, recognition
\* waits for the repair, and no other writer comes in between.
DamageRepairable == JournaledPathNeverTears /\ SafeMeansRepaired /\ UploadNeverUnderJournal

\* The journal disappears only after config.ini has been verified as one of
\* its two sides: the only evidence for a repair is never dropped early.
EvidenceKept ==
  [][(journal \in Record /\ journal' # journal) => config \in Sides]_vars

\* A save replaces exactly the configuration the client had read: at the step
\* that writes the new side into an intact file, the file was still the old.
NoLostUpdate ==
  [][pc = "configOpen" /\ config' # config => config = tx.before]_vars

\* Neither the evidence for a repair nor a configuration the client has not seen
\* is ever lost to a step of a save or of a recovery.
NothingLost == EvidenceKept /\ NoLostUpdate

Atomic == INSTANCE AtomicConfig WITH value <- Effective

\* Seen through its recovery, the journaled file is a single atomic register:
\* AtomicConfig states what its clients may rely on.
AtomicRegister == Atomic!Spec

\* "A pending journal owns config.ini until recovery completes"
\* (server_file.cpp:575): while a decodable journal exists, only the journal
\* code changes the file.  The startup migration does not look at the journal.
PendingJournalOwnsConfig ==
  [][(journal \in Record /\ config' # config) => pc \in RecoverSteps \cup WriteSteps]_vars

-----------------------------------------------------------------------------
(* The inductive invariant behind the properties.                          *)

\* Who is doing what: the camera owner, its position and its arguments agree.
Control ==
  /\ (pc = "idle") <=> (camera \in {"free", "stream"})
  /\ (tx = NoTx) <=> (camera \notin Savers)
  /\ pc \in CommitSteps \cup WriteSteps \cup LastSteps \cup {"Conflict"} => camera \in Savers
  /\ boot # "up" => camera = "free" /\ upload = None
  /\ boot = "off" => ~loaded
  /\ boot \in {"migrateOpen", "migrateClose"} => migrating # None
  /\ boot \in {"off", "up"} => migrating = None
  /\ camera \in Initializers => ~safe
  /\ upload # None => camera \notin Savers \cup {"reload"} /\ journal = Missing /\ promised = {}
  /\ boot \in {"migrateOpen", "migrateClose"} /\ promised # {}
       => migrating = Partial /\ journal \in Record /\ config \in Damaged

\* What a transaction at each position knows about the two files.
Progress ==
  /\ pc \in {"readConfig", "restoreOpen", "restoreClose", "recoverRemove"} => journal \in Record
  /\ pc = "recoverRemove" => config \in Sides
  /\ pc \in {"restoreOpen", "restoreClose"} => config \notin Sides
  /\ pc \in {"baseline", "journalOpen"} => journal = Missing
  /\ pc \in {"journalOpen", "journalClose", "configOpen", "undoRemove"} => config = tx.before
  /\ pc = "journalClose" => journal \in Torn
  /\ pc \in WriteSteps \cup LastSteps => journal = tx
  /\ pc \in {"configClose", "undoClose"} => config \in Torn
  /\ pc = "commitRemove" => config = tx.after
  /\ pc \in {"Ok", "CleanupPending"} /\ camera \in Savers => config = tx.after
  /\ pc = "Ok" /\ camera \in Savers => journal = Missing
  /\ pc = "CleanupPending" /\ camera \in Savers => journal = tx
  /\ pc \in {"Ok", "CleanupPending", "Conflict"} => config \in Config \/ raw
  /\ pc \in {"journalOpen", "journalClose"} \cup WriteSteps \cup LastSteps
       => promised = {tx.before, tx.after}
  /\ journal \in Record => promised \subseteq Sides

Inductive ==
  /\ TypeOK /\ Control /\ Progress
  /\ PromiseKept /\ JournaledPathNeverTears /\ SafeMeansRepaired
=============================================================================
