---------------------------- MODULE ArchiveReceiver ----------------------------
(***************************************************************************)
(* The image archive's receiver: a few workers that store what devices     *)
(* send.  Settings and images are named by their hashes, a capture by its  *)
(* identity, and nothing that is stored is ever replaced.  A device sends  *)
(* a capture when the settings it was taken under have been acknowledged,  *)
(* and drops it when it is acknowledged itself.                            *)
(*                                                                         *)
(* One action is one operation of the file system.  A name that has been   *)
(* published survives a crash of the machine once its directory is synced, *)
(* which only a POSIX host can do; elsewhere the sync does nothing, nobody *)
(* asks whether it did, and the receipt is given all the same.             *)
(***************************************************************************)
EXTENDS FiniteSets

CONSTANTS Workers,   \* the slots of the server
          Versions,  \* different uploads under the one capture identity
          None

\* What the constants must be; assumed where they have values.
ReceiverAssumption == {"settings", "capture", None} \intersect Versions = {} /\ None # "settings"

VARIABLES
  posix,    \* os.name of the host
  pc,       \* pc[w]: progress of worker w
  upload,   \* upload[w]: what it was sent, settings or a version of the capture
  present,  \* the names that are there: settings, blobs, the record
  record,   \* which version the capture's record is
  synced,   \* names that survive a crash
  receipts, \* history: what has been acknowledged
  recent    \* history: what of it since the machine last stopped

given == <<receipts, recent>>
vars  == <<posix, pc, upload, present, record, synced, given>>

SettingsObject == "settings"
CaptureRecord  == "capture"
Names == {SettingsObject, CaptureRecord} \union Versions   \* a blob has the name of its version

Init ==
  /\ posix \in BOOLEAN
  /\ pc = [w \in Workers |-> "idle"]
  /\ upload = [w \in Workers |-> None]
  /\ present = {} /\ record = None /\ synced = {}
  /\ receipts = {} /\ recent = {}

Goto(w, step) == pc' = [pc EXCEPT ![w] = step] /\ UNCHANGED <<posix, upload>>
Files   == <<present, record, synced>>
Reply(w) ==
  pc' = [pc EXCEPT ![w] = "idle"] /\ upload' = [upload EXCEPT ![w] = None] /\ UNCHANGED posix

Acknowledge(w) ==
  /\ Reply(w)
  /\ receipts' = receipts \union {upload[w]} /\ recent' = recent \union {upload[w]}

\* What a worker is writing: the settings, the blob, then the record.
Object(w) ==
  IF pc[w] \in {"blob", "blobNew", "blobRead", "blobSync"} \/ upload[w] = SettingsObject
  THEN upload[w] ELSE CaptureRecord

------------------------------------------------------------------------------
(* do_POST; any failure to read, write or sync is answered 503, and a client *)
(* that stalls, cuts its body short or goes away ends its request            *)

Accept(w, what) ==
  /\ pc[w] = "idle"
  /\ what # SettingsObject => SettingsObject \in receipts
  /\ pc' = [pc EXCEPT ![w] = IF what = SettingsObject THEN "record" ELSE "require"]
  /\ upload' = [upload EXCEPT ![w] = what]
  /\ UNCHANGED <<posix, Files, given>>

Fails(w) ==
  /\ pc[w] # "idle"
  /\ Reply(w)
  /\ UNCHANGED <<Files, given>>

\* Before the body is read, and again before anything is written.
require_settings(w) ==
  /\ pc[w] \in {"require", "requireAgain"} /\ SettingsObject \in present
  /\ Goto(w, IF pc[w] = "require" THEN "requireAgain" ELSE "conflict")
  /\ UNCHANGED <<Files, given>>

Differs(w) == Object(w) = CaptureRecord /\ CaptureRecord \in present /\ record # upload[w]

\* A capture that is there with other data is refused before its image is written.
store_capture(w) ==
  /\ pc[w] = "conflict" /\ ~Differs(w)
  /\ Goto(w, "blob")
  /\ UNCHANGED <<Files, given>>

------------------------------------------------------------------------------
(* write_immutable *)

\* Mutant: a name that is there counts as stored.
ExistsUnsynced(w) ==
  /\ pc[w] \in {"blob", "record"} /\ Object(w) \in present /\ ~Differs(w)
  /\ IF pc[w] = "blob" THEN Goto(w, "record") /\ UNCHANGED given ELSE Acknowledge(w)
  /\ UNCHANGED Files

Exists(w) ==
  /\ pc[w] \in {"blob", "record"} /\ Object(w) \in present /\ ~Differs(w)
  /\ Goto(w, IF pc[w] = "blob" THEN "blobSync" ELSE "sync")
  /\ UNCHANGED <<Files, given>>

\* The bytes are written to a temporary file and flushed.
Stage(w) ==
  /\ pc[w] \in {"blob", "record"} /\ Object(w) \notin present
  /\ Goto(w, IF pc[w] = "blob" THEN "blobNew" ELSE "new")
  /\ UNCHANGED <<Files, given>>

\* A link: another worker's file of that name stays.
publish_no_replace(w) ==
  /\ pc[w] \in {"blobNew", "new"}
  /\ present' = present \union {Object(w)}
  /\ record' = IF Object(w) = CaptureRecord /\ CaptureRecord \notin present THEN upload[w] ELSE record
  /\ Goto(w, IF pc[w] = "blobNew" THEN "blobRead" ELSE "read")
  /\ UNCHANGED <<synced, given>>

matches_existing(w) ==
  /\ pc[w] \in {"blobRead", "read"} /\ Object(w) \in present /\ ~Differs(w)
  /\ Goto(w, IF pc[w] = "blobRead" THEN "blobSync" ELSE "sync")
  /\ UNCHANGED <<Files, given>>

\* Off POSIX it returns at once, and write_immutable goes on as if it had synced.
sync_directory(w) ==
  /\ pc[w] \in {"blobSync", "sync"}
  /\ synced' = IF posix THEN synced \union {Object(w)} ELSE synced
  /\ IF pc[w] = "blobSync" THEN Goto(w, "record") /\ UNCHANGED given ELSE Acknowledge(w)
  /\ UNCHANGED <<present, record>>

Work(w) == \/ require_settings(w) \/ store_capture(w) \/ Exists(w) \/ Stage(w)
           \/ publish_no_replace(w) \/ matches_existing(w) \/ sync_directory(w) \/ Fails(w)

------------------------------------------------------------------------------
\* The machine stops: names whose directory was not synced may be gone.
Crash ==
  /\ pc' = [w \in Workers |-> "idle"] /\ upload' = [w \in Workers |-> None]
  /\ \E lost \in SUBSET (present \ synced) : present' = present \ lost
  /\ record' = IF CaptureRecord \in present' THEN record ELSE None
  /\ recent' = {}
  /\ UNCHANGED <<posix, synced, receipts>>

Next == \/ \E w \in Workers : Work(w) \/ \E what \in {SettingsObject} \union Versions : Accept(w, what)
        \/ Crash

Spec == Init /\ [][Next]_vars

------------------------------------------------------------------------------
TypeOK ==
  /\ pc \in [Workers -> {"idle", "require", "requireAgain", "conflict", "blob", "blobNew", "blobRead",
                         "blobSync", "record", "new", "read", "sync"}]
  /\ upload \in [Workers -> {SettingsObject, None} \union Versions]
  /\ present \subseteq Names /\ synced \subseteq present
  /\ record \in Versions \union {None} /\ (record # None <=> CaptureRecord \in present)
  /\ receipts \subseteq ({SettingsObject} \union Versions)

\* An upload with what it stands on: a capture's image and the settings it was taken under.
Needs(v) == IF v = SettingsObject THEN {SettingsObject} ELSE {SettingsObject, v, CaptureRecord}

\* What the host still answers for: a POSIX host for every receipt, another one for those
\* since the machine last stopped.
Standing == IF posix THEN receipts ELSE recent

(* What has been acknowledged is there: a capture with its image and the   *)
(* settings it was taken under, whoever else was storing the same at the   *)
(* same time.  On a POSIX host it survives a crash of the machine; on      *)
(* another one only the receiver's own end, and a crash may take anything  *)
(* it acknowledged (write_immutable, sync_directory, store_capture,        *)
(* do_POST).                                                               *)
ReceiptMeansKept ==
  \A v \in Standing : Needs(v) \subseteq present /\ (posix => Needs(v) \subseteq synced)

(* Of two different uploads under one capture identity at most one is      *)
(* acknowledged, and that is the one on disk; on a host that is not POSIX, *)
(* until a crash of the machine has taken it (publish_no_replace,          *)
(* matches_existing).                                                      *)
OneVersion == \A v \in Standing \intersect Versions : record = v

------------------------------------------------------------------------------
(* The inductive invariant: what each worker has found and synced so far.  *)

Storing == {"require", "requireAgain", "conflict", "blob", "blobNew", "blobRead", "blobSync"}

\* What is safe enough for the host: synced, or there.
Held == IF posix THEN synced ELSE present

\* A worker that stores a capture has found the settings, acknowledged on a POSIX host, and its
\* image is safe before it turns to the record; what it is about to sync is there, and its own.
Found(w) ==
  /\ pc[w] = "idle" \/ upload[w] \in {SettingsObject} \union Versions
  /\ pc[w] \in Storing => upload[w] \in Versions
  /\ upload[w] \in Versions => SettingsObject \in receipts
  /\ upload[w] \in Versions /\ pc[w] # "require" => SettingsObject \in present
  /\ pc[w] \in {"record", "new", "read", "sync"} /\ upload[w] \in Versions => upload[w] \in Held
  /\ pc[w] = "blobSync" => upload[w] \in present
  /\ pc[w] = "sync" => /\ Object(w) \in present
                       /\ upload[w] \in Versions => record = upload[w]

\* What the archive holds is what its receipts say.
Kept == /\ TypeOK /\ posix \in BOOLEAN /\ recent \subseteq receipts
        /\ ReceiptMeansKept /\ OneVersion

Inductive == Kept /\ \A w \in Workers : Found(w)
=============================================================================
