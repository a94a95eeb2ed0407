--------------------------- MODULE MCSubsystemsProofs ---------------------------
(***************************************************************************)
(* Proofs of the properties of MCSubsystems, for every value of its        *)
(* constants: of the archive receiver, the settings stores, the MQTT       *)
(* interface, the flow, the camera, the start and the loader.              *)
(***************************************************************************)
EXTENDS MCSubsystems, TLAPS

-----------------------------------------------------------------------------
(* The archive receiver: what is acknowledged is kept                      *)

\* An empty archive has acknowledged nothing.
LEMMA ReceiverInitInductive == Receiver!ReceiverAssumption /\ Receiver!Init => Receiver!Inductive
  BY DEF Receiver!ReceiverAssumption, Receiver!SettingsObject, Receiver!CaptureRecord, Receiver!Init,
       Receiver!Inductive, Receiver!Kept, Receiver!TypeOK, Receiver!ReceiptMeansKept,
       Receiver!OneVersion, Receiver!Found, Receiver!Names, Receiver!Storing, Receiver!Standing

\* What the other workers have found stays: nothing that is there goes, and a record stays.
LEMMA OthersKeep ==
  ASSUME Receiver!ReceiverAssumption, Receiver!Inductive, NEW w \in Workers, NEW v \in Workers \ {w},
         pc'[v] = pc[v], upload'[v] = upload[v],
         posix' = posix, present \subseteq present', synced \subseteq synced',
         receipts \subseteq receipts',
         record # None => record' = record
  PROVE  Receiver!Found(v)'
<1>1. Receiver!Found(v) /\ Receiver!TypeOK
  BY DEF Receiver!Inductive, Receiver!Kept
<1>2. Receiver!Object(v)' = Receiver!Object(v)
  BY DEF Receiver!Object
<1>3. QED
  BY <1>1, <1>2 DEF Receiver!Found, Receiver!Held, Receiver!TypeOK, Receiver!Storing,
       Receiver!SettingsObject, Receiver!ReceiverAssumption

\* A request that begins disturbs nobody.
LEMMA AcceptKeeps ==
  ASSUME Receiver!ReceiverAssumption, Receiver!Inductive, NEW w \in Workers,
         NEW what \in {Receiver!SettingsObject} \union Versions,
         Receiver!Accept(w, what)
  PROVE  Receiver!Inductive'
<1> USE DEF Receiver!Accept, Receiver!Files, Receiver!given, Receiver!ReceiverAssumption,
     Receiver!SettingsObject, Receiver!CaptureRecord
<1>1. Receiver!Kept'
  BY DEF Receiver!Inductive, Receiver!Kept, Receiver!TypeOK, Receiver!ReceiptMeansKept,
       Receiver!OneVersion, Receiver!Names, Receiver!Standing, Receiver!Needs
<1>2. Receiver!Found(w)'
  BY DEF Receiver!Inductive, Receiver!Kept, Receiver!TypeOK, Receiver!Found, Receiver!Storing
<1>3. ASSUME NEW v \in Workers \ {w} PROVE Receiver!Found(v)'
  BY <1>3, OthersKeep DEF Receiver!Inductive, Receiver!Kept, Receiver!TypeOK
<1>4. QED
  BY <1>1, <1>2, <1>3 DEF Receiver!Inductive

\* Each step of a worker leaves what it has found, and what the others have.
LEMMA WorkKeeps ==
  ASSUME Receiver!ReceiverAssumption, Receiver!Inductive, NEW w \in Workers, Receiver!Work(w)
  PROVE  Receiver!Inductive'
<1> USE DEF Receiver!Files, Receiver!given, Receiver!Goto, Receiver!Reply,
     Receiver!ReceiverAssumption, Receiver!SettingsObject, Receiver!CaptureRecord
<1>0. /\ Receiver!Kept /\ Receiver!TypeOK /\ Receiver!ReceiptMeansKept /\ Receiver!OneVersion
      /\ Receiver!Found(w) /\ posix \in BOOLEAN /\ recent \subseteq receipts
  BY DEF Receiver!Inductive, Receiver!Kept
<1>1. ASSUME Receiver!Fails(w) \/ Receiver!require_settings(w) \/ Receiver!store_capture(w)
             \/ Receiver!Stage(w) \/ Receiver!Exists(w) \/ Receiver!matches_existing(w)
      PROVE  Receiver!Kept' /\ Receiver!Found(w)' /\ UNCHANGED <<Receiver!Files, receipts>>
  <2>1. UNCHANGED <<posix, Receiver!Files, Receiver!given>> /\ Receiver!TypeOK'
    BY <1>0, <1>1 DEF Receiver!Fails, Receiver!require_settings, Receiver!store_capture,
         Receiver!Stage, Receiver!Exists, Receiver!matches_existing, Receiver!TypeOK
  <2>2. Receiver!Kept'
    BY <1>0, <2>1 DEF Receiver!Kept, Receiver!ReceiptMeansKept, Receiver!OneVersion,
         Receiver!Standing
  <2>3. CASE Receiver!Fails(w)
    BY <1>0, <2>1, <2>2, <2>3 DEF Receiver!Fails, Receiver!TypeOK, Receiver!Found, Receiver!Storing
  <2>4. CASE Receiver!require_settings(w) \/ Receiver!store_capture(w)
    BY <1>0, <2>1, <2>2, <2>4 DEF Receiver!require_settings, Receiver!store_capture, Receiver!TypeOK,
         Receiver!Found, Receiver!Storing
  <2>5. CASE Receiver!Stage(w)
    BY <1>0, <2>1, <2>2, <2>5 DEF Receiver!Stage, Receiver!TypeOK, Receiver!Found, Receiver!Storing,
         Receiver!Held
  <2>6. CASE Receiver!Exists(w)
    BY <1>0, <2>1, <2>2, <2>6 DEF Receiver!Exists, Receiver!Differs, Receiver!Object, Receiver!TypeOK,
         Receiver!Found, Receiver!Storing, Receiver!Held
  <2>7. CASE Receiver!matches_existing(w)
    BY <1>0, <2>1, <2>2, <2>7 DEF Receiver!matches_existing, Receiver!Differs, Receiver!Object,
         Receiver!TypeOK, Receiver!Found, Receiver!Storing, Receiver!Held
  <2>8. QED
    BY <1>1, <2>1, <2>2, <2>3, <2>4, <2>5, <2>6, <2>7
<1>2. ASSUME Receiver!publish_no_replace(w)
      PROVE  /\ Receiver!Kept' /\ Receiver!Found(w)'
             /\ present \subseteq present' /\ UNCHANGED <<synced, receipts>>
             /\ record # None => record' = record
  <2>1. /\ present' = present \union {Receiver!Object(w)}
        /\ UNCHANGED <<posix, synced, receipts, recent>>
        /\ record' = IF Receiver!Object(w) = Receiver!CaptureRecord
           /\ Receiver!CaptureRecord \notin present THEN upload[w] ELSE record
        /\ pc[w] = "blobNew" => Receiver!Object(w) = upload[w] /\ upload[w] \in Versions
        /\ pc[w] = "new" /\ Receiver!Object(w) = Receiver!CaptureRecord => upload[w] \in Versions
        /\ Receiver!Object(w) \in Receiver!Names
    BY <1>0, <1>2 DEF Receiver!publish_no_replace, Receiver!Object, Receiver!Found, Receiver!Storing,
         Receiver!Names, Receiver!TypeOK
  <2>2. Receiver!TypeOK'
    BY <1>0, <1>2, <2>1 DEF Receiver!publish_no_replace, Receiver!TypeOK
  <2>3. record # None => record' = record
    BY <1>0, <2>1 DEF Receiver!TypeOK
  <2>4. Receiver!ReceiptMeansKept' /\ Receiver!OneVersion'
    BY <1>0, <2>1, <2>3 DEF Receiver!ReceiptMeansKept, Receiver!OneVersion, Receiver!Standing
  <2>5. Receiver!Found(w)'
    BY <1>0, <1>2, <2>1 DEF Receiver!publish_no_replace, Receiver!TypeOK, Receiver!Found,
         Receiver!Storing, Receiver!Held
  <2>6. QED
    BY <1>0, <2>1, <2>2, <2>3, <2>4, <2>5 DEF Receiver!Kept
<1>3. ASSUME Receiver!sync_directory(w)
      PROVE  /\ Receiver!Kept' /\ Receiver!Found(w)' /\ UNCHANGED <<present, record>>
             /\ synced \subseteq synced' /\ receipts \subseteq receipts'
  <2>1. /\ Receiver!Object(w) \in present /\ UNCHANGED <<posix, present, record>>
        /\ synced' = IF posix THEN synced \union {Receiver!Object(w)} ELSE synced
        /\ pc[w] = "blobSync" => Receiver!Object(w) = upload[w] /\ upload[w] \in Versions
        /\ upload[w] \in {Receiver!SettingsObject} \union Versions
        /\ receipts' = IF pc[w] = "blobSync" THEN receipts ELSE receipts \union {upload[w]}
        /\ recent' = IF pc[w] = "blobSync" THEN recent ELSE recent \union {upload[w]}
        /\ pc[w] = "sync" /\ upload[w] = Receiver!SettingsObject =>
             Receiver!Object(w) = Receiver!SettingsObject
        /\ pc[w] = "sync" /\ upload[w] \in Versions =>
             /\ record = upload[w] /\ Receiver!Object(w) = Receiver!CaptureRecord
             /\ upload[w] \in Receiver!Held
        /\ upload[w] \in Versions => Receiver!SettingsObject \in receipts
                                     /\ Receiver!SettingsObject \in present
    BY <1>0, <1>3 DEF Receiver!sync_directory, Receiver!Acknowledge, Receiver!Object,
         Receiver!Found, Receiver!Storing
  <2>2. Receiver!TypeOK'
    BY <1>0, <1>3, <2>1 DEF Receiver!sync_directory, Receiver!Acknowledge, Receiver!TypeOK
  <2>3. ASSUME NEW v \in Receiver!Standing'
        PROVE  /\ Receiver!Needs(v) \subseteq present'
               /\ posix' => Receiver!Needs(v) \subseteq synced'
    <3>1. CASE v \in Receiver!Standing
      BY <1>0, <2>1, <3>1 DEF Receiver!ReceiptMeansKept
    <3>2. CASE v \notin Receiver!Standing
      <4>1. v = upload[w] /\ pc[w] = "sync"
        BY <1>3, <2>1, <2>3, <3>2 DEF Receiver!Standing, Receiver!sync_directory
      <4>2. CASE v = Receiver!SettingsObject
        BY <1>0, <2>1, <4>1, <4>2 DEF Receiver!Needs
      <4>3. CASE v \in Versions
        <5>1. posix => Receiver!SettingsObject \in synced
          BY <1>0, <2>1, <4>1, <4>3 DEF Receiver!ReceiptMeansKept, Receiver!Standing, Receiver!Needs
        <5>2. upload[w] \in present /\ (posix => upload[w] \in synced)
          BY <1>0, <2>1, <4>1, <4>3 DEF Receiver!Held, Receiver!TypeOK
        <5>3. QED
          BY <2>1, <4>1, <4>3, <5>1, <5>2 DEF Receiver!Needs
      <4>4. QED
        BY <2>1, <4>1, <4>2, <4>3
    <3>3. QED
      BY <3>1, <3>2
  <2>4. Receiver!OneVersion'
    <3>1. ASSUME NEW v \in Receiver!Standing' \intersect Versions PROVE record = v
      <4>1. CASE v \in Receiver!Standing
        BY <1>0, <3>1, <4>1 DEF Receiver!OneVersion
      <4>2. CASE v \notin Receiver!Standing
        <5>1. v = upload[w] /\ pc[w] = "sync"
          BY <1>3, <2>1, <3>1, <4>2 DEF Receiver!Standing, Receiver!sync_directory
        <5>2. QED
          BY <2>1, <3>1, <5>1
      <4>3. QED
        BY <4>1, <4>2
    <3>2. QED
      BY <2>1, <3>1 DEF Receiver!OneVersion
  <2>5. Receiver!Found(w)'
    BY <1>0, <1>3, <2>1 DEF Receiver!sync_directory, Receiver!Acknowledge, Receiver!TypeOK,
         Receiver!Found, Receiver!Storing, Receiver!Held
  <2>6. Receiver!ReceiptMeansKept' /\ synced \subseteq synced' /\ receipts \subseteq receipts'
        /\ recent' \subseteq receipts'
    BY <1>0, <2>1, <2>3 DEF Receiver!ReceiptMeansKept
  <2>7. QED
    BY <1>0, <2>1, <2>2, <2>4, <2>5, <2>6 DEF Receiver!Kept
<1>4. ASSUME NEW v \in Workers \ {w}
      PROVE  pc'[v] = pc[v] /\ upload'[v] = upload[v] /\ posix' = posix
  BY <1>0, <1>4 DEF Receiver!Work, Receiver!Fails, Receiver!require_settings, Receiver!store_capture,
       Receiver!Stage, Receiver!Exists, Receiver!matches_existing, Receiver!Acknowledge,
       Receiver!publish_no_replace, Receiver!sync_directory, Receiver!TypeOK
<1>5. /\ Receiver!Kept' /\ Receiver!Found(w)'
      /\ present \subseteq present' /\ synced \subseteq synced' /\ receipts \subseteq receipts'
      /\ record # None => record' = record
  BY <1>1, <1>2, <1>3 DEF Receiver!Work
<1>6. ASSUME NEW v \in Workers \ {w} PROVE Receiver!Found(v)'
  BY <1>4, <1>5, OthersKeep
<1>7. QED
  BY <1>5, <1>6 DEF Receiver!Inductive

\* A crash takes only what no POSIX host has synced, and another host answers for nothing then.
LEMMA CrashKeeps ==
  ASSUME Receiver!ReceiverAssumption, Receiver!Inductive, Receiver!Crash
  PROVE  Receiver!Inductive'
<1>1. /\ pc' = [w \in Workers |-> "idle"] /\ upload' = [w \in Workers |-> None]
      /\ present' \subseteq present /\ synced \subseteq present' /\ recent' = {}
      /\ UNCHANGED <<posix, synced, receipts>>
      /\ record' = IF Receiver!CaptureRecord \in present' THEN record ELSE None
  BY DEF Receiver!Crash, Receiver!Inductive, Receiver!Kept, Receiver!TypeOK
<1>2. Receiver!Kept'
  BY <1>1 DEF Receiver!Inductive, Receiver!Kept, Receiver!TypeOK, Receiver!ReceiptMeansKept,
       Receiver!OneVersion, Receiver!Standing, Receiver!Needs, Receiver!ReceiverAssumption,
       Receiver!SettingsObject, Receiver!CaptureRecord
<1>3. \A w \in Workers : Receiver!Found(w)'
  BY <1>1 DEF Receiver!Found, Receiver!Storing, Receiver!ReceiverAssumption
<1>4. QED
  BY <1>2, <1>3 DEF Receiver!Inductive

\* Every step keeps the invariant.
LEMMA ReceiverStepInductive ==
  Receiver!ReceiverAssumption /\ Receiver!Inductive /\ [Receiver!Next]_(Receiver!vars) =>
    Receiver!Inductive'
<1>1. ASSUME UNCHANGED Receiver!vars, Receiver!Inductive PROVE Receiver!Inductive'
  BY <1>1 DEF Receiver!vars, Receiver!given, Receiver!Inductive, Receiver!Kept, Receiver!TypeOK,
       Receiver!ReceiptMeansKept, Receiver!OneVersion, Receiver!Found, Receiver!Object,
       Receiver!Names, Receiver!Standing, Receiver!Held
<1>2. QED
  BY <1>1, AcceptKeeps, WorkKeeps, CrashKeeps DEF Receiver!Next

-----------------------------------------------------------------------------
(* The settings stores: one register                                       *)

\* A file that is there before the first start, and no journal.
LEMMA SettingInitInductive == Setting!SettingsAssumption /\ Setting!Init => Setting!Inductive
<1> SUFFICES ASSUME Setting!SettingsAssumption, Setting!Init PROVE Setting!Inductive
  OBVIOUS
<1> USE DEF Setting!Init, Setting!NoTx, Setting!Contents, Setting!Record, Setting!SettingsAssumption
<1>1. Setting!TypeOK
  BY DEF Setting!TypeOK
<1>2. Setting!SaveStands /\ Setting!RecoveryStands /\ Setting!Promised /\ Setting!ScanStands
     /\ Setting!HistoryCurrent
  BY DEF Setting!SaveStands, Setting!RecoveryStands, Setting!Promised, Setting!ScanStands,
       Setting!HistoryCurrent, Setting!Saving
<1>3. QED
  BY <1>1, <1>2 DEF Setting!Inductive

\* The sides of a save are a journal.
LEMMA TxRecord ==
  Setting!SettingsAssumption /\ Setting!Inductive /\ pc \in Setting!Saving => tx \in Setting!Record
  BY DEF Setting!Inductive, Setting!TypeOK, Setting!SaveStands, Setting!Record

\* Every step keeps the types.
LEMMA SettingStepType ==
  Setting!SettingsAssumption /\ Setting!Inductive /\ [Setting!Next]_(Setting!vars) =>
    Setting!TypeOK' /\ kind' = kind /\ crossed' \in BOOLEAN
<1> SUFFICES ASSUME Setting!SettingsAssumption, Setting!Inductive, [Setting!Next]_(Setting!vars)
             PROVE  Setting!TypeOK' /\ kind' = kind /\ crossed' \in BOOLEAN
  OBVIOUS
<1>0. Setting!TypeOK /\ (pc \in Setting!Saving => tx \in Setting!Record)
     /\ (pc = "restore" => journal \in Setting!Record)
  BY TxRecord DEF Setting!Inductive, Setting!RecoveryStands
<1>c. crossed' \in BOOLEAN
  <2>1. crossed' = crossed \/ crossed' = FALSE \/ crossed' = TRUE
    BY DEF Setting!Next, Setting!Commit, Setting!Start, Setting!ReadJournal, Setting!ReadFile,
         Setting!Restore, Setting!Cleanup, Setting!Load, Setting!Unavailable, Setting!Go,
         Setting!RestoreBy, Setting!Write, Setting!WriteJournal, Setting!WriteFile, Setting!Undo,
         Setting!RemoveJournal, Setting!Saved, Setting!Failed, Setting!Answer, Setting!Boots,
         Setting!External, Setting!PowerLoss, Setting!Refresh, Setting!Scan, Setting!ScanBegins,
         Setting!ScanRefused, Setting!ScanReads, Setting!ScanDone, Setting!ScanPublishes,
         Setting!Save, Setting!vars
  <2>2. QED
    BY <2>1, Zenon DEF Setting!Inductive
<1> USE DEF Setting!disk, Setting!history
<1>1. CASE Setting!Start
  <2>1. UNCHANGED <<kind, tx, scan, fresh, found, summary, promised>>
    BY <1>1 DEF Setting!Start, Setting!ReadJournal, Setting!ReadFile, Setting!Restore,
         Setting!Cleanup, Setting!Load, Setting!Unavailable, Setting!Go, Setting!RestoreBy,
         Setting!Write
  <2>2. /\ pc' \in {"readFile", "restore", "cleanup", "load", "unavailable", "idle"}
        /\ processing' \in {processing, "free"}
        /\ active' = active \/ active' = None \/ active' \in Setting!Contents
    BY <1>1 DEF Setting!Start, Setting!ReadJournal, Setting!ReadFile, Setting!Restore,
         Setting!Cleanup, Setting!Load, Setting!Unavailable, Setting!Go, Setting!RestoreBy,
         Setting!Write
  <2>3. journal' = journal \/ journal' = Absent
    BY <1>1 DEF Setting!Start, Setting!ReadJournal, Setting!ReadFile, Setting!Restore,
         Setting!Cleanup, Setting!Load, Setting!Unavailable
  <2>4. file' \in Setting!Contents \union {Torn}
    <3>1. CASE Setting!Restore
      BY <1>0, <3>1 DEF Setting!Restore, Setting!RestoreBy, Setting!Write, Setting!Contents,
           Setting!Record, Setting!TypeOK
    <3>2. CASE ~Setting!Restore
      BY <1>0, <1>1, <3>2 DEF Setting!Start, Setting!ReadJournal, Setting!ReadFile, Setting!Cleanup,
           Setting!Load, Setting!Unavailable, Setting!TypeOK
    <3>3. QED
      BY <3>1, <3>2
  <2>5. QED
    BY <1>0, <1>c, <2>1, <2>2, <2>3, <2>4 DEF Setting!TypeOK
<1>2. CASE Setting!WriteJournal \/ Setting!WriteFile \/ Setting!Undo \/ Setting!RemoveJournal
  <2>1. UNCHANGED <<kind, tx, processing, active, scan, fresh, found, summary, promised>>
       /\ pc \in Setting!Saving
    BY <1>2 DEF Setting!WriteJournal, Setting!WriteFile, Setting!Undo, Setting!RemoveJournal,
         Setting!Go, Setting!RestoreBy, Setting!Write, Setting!Saving
  <2>2. pc' \in {pc, "writeFile", "failed", "removeJournal", "undo", "undone", "saved"}
    BY <1>2 DEF Setting!WriteJournal, Setting!WriteFile, Setting!Undo, Setting!RemoveJournal,
         Setting!Go, Setting!RestoreBy, Setting!Write
  <2>3. journal' = journal \/ journal' = Absent \/ journal' = Torn \/ journal' = tx
    BY <1>2 DEF Setting!WriteJournal, Setting!WriteFile, Setting!Undo, Setting!RemoveJournal
  <2>4. file' = file \/ file' = Absent \/ file' = Torn \/ file' = tx.before \/ file' = tx.after
    BY <1>2 DEF Setting!WriteJournal, Setting!WriteFile, Setting!Undo, Setting!RemoveJournal,
         Setting!RestoreBy, Setting!Write
  <2>5. tx.before \in Setting!Contents /\ tx.after \in Setting!Contents
    BY <1>0, <2>1 DEF Setting!Record, Setting!Contents
  <2>6. QED
    BY <1>0, <1>c, <2>1, <2>2, <2>3, <2>4, <2>5 DEF Setting!TypeOK, Setting!Contents
<1>3. CASE Setting!Saved \/ Setting!Failed
  <2>1. Setting!NoTx \in [before : Setting!Contents \union {None}, after : Revision \union {None}]
    BY DEF Setting!NoTx
  <2>2. tx.after \in Setting!Contents
    BY <1>0, <1>3 DEF Setting!Saved, Setting!Failed, Setting!Saving, Setting!Record, Setting!Contents
  <2>3. active' = active \/ active' = None \/ active' \in Setting!Contents
    <3>1. CASE Setting!Failed
      BY <3>1 DEF Setting!Failed
    <3>2. CASE Setting!Saved
      <4>1. active' \in {active, tx.after, None}
        BY <3>2 DEF Setting!Saved, Setting!Inductive
      <4>2. QED
        BY <2>2, <4>1
    <3>3. QED
      BY <1>3, <3>1, <3>2
  <2>4. /\ UNCHANGED <<kind, file, journal, scan, found>> /\ tx' = Setting!NoTx /\ pc' = "idle"
           /\ processing' = "free"
        /\ summary' = summary \/ summary' = None
        /\ fresh' = fresh \/ fresh' = FALSE
    BY <1>3 DEF Setting!Saved, Setting!Failed, Setting!Answer
  <2>5. fresh' \in BOOLEAN
    BY <1>0, <2>4, Zenon DEF Setting!TypeOK
  <2>6. QED
    BY <1>0, <1>c, <2>1, <2>3, <2>4, <2>5 DEF Setting!TypeOK
<1>4. CASE Setting!Boots
  BY <1>0, <1>c, <1>4 DEF Setting!Boots, Setting!TypeOK
<1>5. CASE Setting!External
  BY <1>0, <1>c, <1>5 DEF Setting!External, Setting!TypeOK
<1>6. CASE Setting!PowerLoss
  <2>1. Setting!NoTx \in [before : Setting!Contents \union {None}, after : Revision \union {None}]
    BY DEF Setting!NoTx
  <2>2. QED
    BY <1>0, <1>c, <1>6, <2>1 DEF Setting!PowerLoss, Setting!TypeOK
<1>7. CASE Setting!Refresh
  BY <1>0, <1>c, <1>7 DEF Setting!Refresh, Setting!TypeOK
<1>8. CASE Setting!Scan
  BY <1>0, <1>c, <1>8 DEF Setting!Scan, Setting!ScanBegins, Setting!ScanRefused, Setting!ScanReads,
       Setting!ScanDone, Setting!ScanPublishes, Setting!TypeOK
<1>9. ASSUME NEW expected \in Setting!Contents, NEW next \in Revision, Setting!Save(expected, next)
      PROVE  Setting!TypeOK' /\ kind' = kind
  <2>1. [before |-> expected, after |-> next] \in [before : Setting!Contents \union {None},
       after : Revision \union {None}]
    OBVIOUS
  <2>2. QED
    BY <1>0, <1>9, <2>1 DEF Setting!Save, Setting!TypeOK
<1>10. CASE UNCHANGED Setting!vars
  BY <1>0, <1>c, <1>10 DEF Setting!vars, Setting!TypeOK
<1>11. QED
  BY <1>1, <1>2, <1>3, <1>4, <1>5, <1>6, <1>7, <1>8, <1>9, <1>10, <1>c DEF Setting!Next, Setting!Commit

\* A start changes what is to be found only where nothing is promised, and then to no settings,
\* unless it writes over a file it has not read.
LEMMA StartFiles ==
  ASSUME Setting!SettingsAssumption, Setting!Inductive, Setting!Start
  PROVE  /\ Setting!RecoveryStands' /\ UNCHANGED <<promised, crossed>>
         /\ \/ Setting!Recovered' = Setting!Recovered
            \/ /\ promised = {} /\ Setting!Recovered' \in Setting!Contents \union {Torn}
               /\ Setting!Recovered' \notin Revision \/ Setting!Unseen
<1>0. /\ Setting!RecoveryStands /\ file \in Setting!Contents \union {Torn}
         /\ journal \in Setting!Record \union {Absent, Torn}
      /\ Absent \notin Setting!Record /\ Absent \notin Revision /\ Torn \notin Revision
      /\ journal \in Setting!Record => journal.before \in Setting!Contents /\ journal.after \in Revision
      /\ Setting!Contents = Revision \union {Absent}
  BY DEF Setting!Inductive, Setting!TypeOK, Setting!Record, Setting!Contents,
       Setting!SettingsAssumption
<1>1. UNCHANGED <<promised, crossed>>
  BY DEF Setting!Start, Setting!ReadJournal, Setting!ReadFile, Setting!Restore, Setting!Cleanup,
       Setting!Load, Setting!Unavailable, Setting!Go, Setting!RestoreBy, Setting!Write,
       Setting!history
<1> USE DEF Setting!Recovered, Setting!RecoveryStands, Setting!Go, Setting!disk
<1>2. CASE Setting!ReadJournal \/ Setting!Unavailable
  BY <1>0, <1>1, <1>2 DEF Setting!ReadJournal, Setting!Unavailable
<1>3. CASE Setting!ReadFile
  BY <1>0, <1>1, <1>3 DEF Setting!ReadFile, Setting!Intact
<1>4. CASE Setting!Restore
  <2>1. journal \in Setting!Record /\ UNCHANGED journal /\ pc = "restore"
    BY <1>0, <1>4 DEF Setting!Restore
  <2>2. file' \in {file, Torn, Absent, journal.before}
    BY <1>4 DEF Setting!Restore, Setting!RestoreBy, Setting!Write
  <2>3. \/ pc' = "restore" /\ file' = Torn
        \/ pc' = "cleanup" /\ file' = journal.before
        \/ pc' = "unavailable"
    BY <1>4 DEF Setting!Restore, Setting!RestoreBy, Setting!Write
  <2>4. Setting!RecoveryStands'
    BY <1>0, <1>1, <2>1, <2>3
  <2>5. CASE file \notin Revision
    BY <1>0, <1>1, <2>1, <2>2, <2>4, <2>5
  <2>6. CASE file \in Revision
    <3>1. promised = {} /\ Setting!Unseen
      BY <1>0, <2>1, <2>6 DEF Setting!Unseen
    <3>2. Setting!Recovered' \in Setting!Contents \union {Torn}
      BY <1>0, <2>1, <2>2
    <3>3. QED
      BY <1>1, <2>4, <3>1, <3>2
  <2>7. QED
    BY <2>5, <2>6
<1>5. CASE Setting!Cleanup
  <2>1. pc = "cleanup" /\ journal \in Setting!Record /\ UNCHANGED file /\ journal' \in {journal, Absent}
        /\ pc' \in {"load", "unavailable"}
    BY <1>0, <1>5 DEF Setting!Cleanup
  <2>2. QED
    BY <1>0, <1>1, <2>1
<1>6. CASE Setting!Load
  BY <1>0, <1>1, <1>6 DEF Setting!Load
<1>7. QED
  BY <1>2, <1>3, <1>4, <1>5, <1>6 DEF Setting!Start

\* A save, apart from its answer: the files come to one of its two sides, as its journal says.
LEMMA SaveFiles ==
  ASSUME Setting!SettingsAssumption, Setting!Inductive, Setting!WriteJournal \/ Setting!WriteFile
         \/ Setting!Undo \/ Setting!RemoveJournal
  PROVE  /\ Setting!SaveStands' /\ Setting!RecoveryStands' /\ Setting!Promised' /\ promised # {}
            /\ Setting!Recovered' \in promised
         /\ UNCHANGED promised /\ pc \in Setting!Saving /\ pc' \in Setting!Saving
<1> SUFFICES /\ Setting!SaveStands' /\ Setting!RecoveryStands' /\ promised # {}
                /\ Setting!Recovered' \in promised
             /\ UNCHANGED promised /\ pc \in Setting!Saving /\ pc' \in Setting!Saving
  BY DEF Setting!Promised
<1>0. /\ Setting!SaveStands /\ pc \in Setting!Saving /\ tx \in Setting!Record
      /\ file \in Setting!Contents \union {Torn} /\ journal \in Setting!Record \union {Absent, Torn}
      /\ Absent \notin Setting!Record /\ Absent \notin Revision /\ Torn \notin Revision
         /\ Torn \notin Setting!Record
      /\ tx.before \in Setting!Contents /\ tx.after \in Revision
      /\ Setting!Contents = Revision \union {Absent}
  <2>1. pc \in Setting!Saving
    BY DEF Setting!WriteJournal, Setting!WriteFile, Setting!Undo, Setting!RemoveJournal, Setting!Saving
  <2>2. QED
    BY <2>1, TxRecord DEF Setting!Inductive, Setting!TypeOK, Setting!SaveStands, Setting!Contents,
         Setting!SettingsAssumption
<1> USE DEF Setting!Recovered, Setting!RecoveryStands, Setting!SaveStands, Setting!Go, Setting!Saving
<1>1. CASE Setting!WriteJournal
  BY <1>0, <1>1 DEF Setting!WriteJournal
<1>2. CASE Setting!WriteFile
  BY <1>0, <1>2 DEF Setting!WriteFile, Setting!Write
<1>3. CASE Setting!Undo
  BY <1>0, <1>3 DEF Setting!Undo, Setting!RestoreBy, Setting!Write
<1>4. CASE Setting!RemoveJournal
  BY <1>0, <1>4 DEF Setting!RemoveJournal
<1>5. QED
  BY <1>1, <1>2, <1>3, <1>4

\* The answer to a save says what is there.
LEMMA AnswerFiles ==
  ASSUME Setting!SettingsAssumption, Setting!Inductive, Setting!Saved \/ Setting!Failed
  PROVE  /\ Setting!SaveStands' /\ Setting!RecoveryStands' /\ Setting!Promised'
            /\ UNCHANGED Setting!Recovered
         /\ Setting!Saved => promised' = {Setting!Recovered} /\ Setting!Recovered \in Setting!Contents
         /\ Setting!Failed => UNCHANGED promised
<1>0. /\ Setting!SaveStands /\ pc \in Setting!Saving /\ Setting!Promised
      /\ Absent \notin Setting!Record /\ Setting!Contents = Revision \union {Absent}
  BY DEF Setting!Inductive, Setting!Contents, Setting!SettingsAssumption, Setting!Saving,
       Setting!Saved, Setting!Failed
<1>1. pc' = "idle" /\ UNCHANGED <<file, journal>>
  BY DEF Setting!Saved, Setting!Failed, Setting!Answer, Setting!disk
<1>2. UNCHANGED Setting!Recovered /\ Setting!SaveStands' /\ Setting!RecoveryStands'
  BY <1>1 DEF Setting!Recovered, Setting!SaveStands, Setting!RecoveryStands, Setting!Saving
<1>3. ASSUME Setting!Saved
      PROVE  promised' = {Setting!Recovered} /\ Setting!Recovered \in Setting!Contents
  BY <1>0, <1>3 DEF Setting!Saved, Setting!SaveStands, Setting!Recovered
<1>4. ASSUME Setting!Failed PROVE UNCHANGED promised
  BY <1>4 DEF Setting!Failed, Setting!history
<1>5. Setting!Promised'
  BY <1>0, <1>2, <1>3, <1>4 DEF Setting!Promised
<1>6. QED
  BY <1>2, <1>3, <1>4, <1>5

\* A save begins with what its author has read in the file.
LEMMA SaveBegins ==
  ASSUME Setting!SettingsAssumption, Setting!Inductive, NEW expected \in Setting!Contents,
         NEW next \in Revision, Setting!Save(expected, next)
  PROVE  /\ Setting!SaveStands' /\ Setting!RecoveryStands' /\ Setting!Promised'
            /\ UNCHANGED Setting!Recovered /\ Setting!Recovered = expected
         /\ promised' = {expected, next} \/ UNCHANGED promised
<1>0. /\ Setting!Promised /\ Absent \notin Setting!Record /\ Setting!Contents = Revision \union {Absent}
      /\ pc = "idle" /\ journal = Absent /\ file = expected /\ UNCHANGED <<kind, file, journal>>
      /\ tx' = [before |-> expected, after |-> next] /\ processing' = "save"
      /\ kind = "profile" => Setting!SameScale(expected, next)
      /\ \/ expected = next /\ pc' = "saved" /\ UNCHANGED promised
         \/ pc' = "writeJournal" /\ promised' = {expected, next}
  BY DEF Setting!Inductive, Setting!Save, Setting!SettingsAssumption, Setting!disk, Setting!Contents
<1>1. QED
  BY <1>0 DEF Setting!Recovered, Setting!RecoveryStands, Setting!SaveStands, Setting!Promised,
       Setting!Saving, Setting!SameScale

\* Whatever neither saves nor recovers leaves the files to who does.
LEMMA OtherFiles ==
  ASSUME Setting!SettingsAssumption, Setting!Inductive, Setting!Boots \/ Setting!Refresh
         \/ Setting!Scan \/ Setting!PowerLoss \/ UNCHANGED Setting!vars
  PROVE  Setting!SaveStands' /\ Setting!RecoveryStands' /\ Setting!Promised'
           /\ UNCHANGED <<Setting!Recovered, promised>>
<1>1. UNCHANGED <<file, journal, promised, Setting!Recovered, kind>>
  BY DEF Setting!Boots, Setting!Refresh, Setting!Scan, Setting!ScanBegins, Setting!ScanRefused,
       Setting!ScanReads, Setting!ScanDone, Setting!ScanPublishes,
     Setting!PowerLoss, Setting!vars, Setting!disk, Setting!history, Setting!Recovered
<1>0. /\ Setting!SaveStands /\ Setting!RecoveryStands /\ Setting!Promised
      /\ scan = "reading" => processing = "scan"
  BY DEF Setting!Inductive, Setting!ScanStands
<1>2. \/ pc' = "readJournal" /\ ~crossed'
      \/ pc' = "off"
      \/ /\ UNCHANGED <<pc, tx, crossed>>
         /\ \/ UNCHANGED processing
            \/ processing \in {"free", "scan"}
  BY <1>0 DEF Setting!Boots, Setting!Refresh, Setting!Scan, Setting!ScanBegins,
       Setting!ScanRefused, Setting!ScanReads, Setting!ScanDone, Setting!ScanPublishes,
       Setting!PowerLoss, Setting!vars
<1>3. Setting!Promised'
  BY <1>0, <1>1 DEF Setting!Promised
<1>4. Setting!SaveStands' /\ Setting!RecoveryStands'
  BY <1>0, <1>1, <1>2 DEF Setting!SaveStands, Setting!RecoveryStands, Setting!Saving,
       Setting!SameScale
<1>5. QED
  BY <1>1, <1>3, <1>4

\* Somebody else's file is no step of a save or a recovery.
LEMMA ExternalFiles ==
  ASSUME Setting!SettingsAssumption, Setting!Inductive, Setting!External
  PROVE  Setting!SaveStands' /\ Setting!RecoveryStands' /\ Setting!Promised' /\ promised' = {}
           /\ Setting!Recovered' \in Setting!Contents \union {Torn}
<1>1. /\ pc \notin Setting!Saving /\ pc' = pc /\ promised' = {} /\ journal' = journal
      /\ file' \in Setting!Contents \union {Torn} /\ journal \in Setting!Record \union {Absent, Torn}
      /\ pc = "restore" => crossed'
      /\ pc # "restore" => (crossed' <=> crossed)
      /\ Setting!RecoveryStands
  BY DEF Setting!External, Setting!Inductive, Setting!TypeOK, Setting!SaveStands
<1>2. QED
  BY <1>1 DEF Setting!SaveStands, Setting!RecoveryStands, Setting!Promised, Setting!Recovered,
       Setting!Record

\* A scan is published only if nothing was saved since it began.
LEMMA StepScan ==
  Setting!SettingsAssumption /\ Setting!Inductive /\ [Setting!Next]_(Setting!vars) =>
    Setting!ScanStands' /\ Setting!HistoryCurrent'
<1> SUFFICES ASSUME Setting!SettingsAssumption, Setting!Inductive, [Setting!Next]_(Setting!vars)
             PROVE  Setting!ScanStands' /\ Setting!HistoryCurrent'
  OBVIOUS
<1>0. /\ Setting!ScanStands /\ Setting!HistoryCurrent /\ Setting!TypeOK /\ kind' = kind
      /\ pc \in Setting!Saving => processing = "save"
  BY SettingStepType DEF Setting!Inductive, Setting!SaveStands
<1> USE DEF Setting!ScanStands, Setting!HistoryCurrent, Setting!Starting, Setting!history
<1>1. CASE Setting!Start
  <2>1. UNCHANGED Setting!history /\ scan = "idle" /\ summary = None
    BY <1>0, <1>1 DEF Setting!Start, Setting!ReadJournal, Setting!ReadFile, Setting!Restore,
         Setting!Cleanup, Setting!Load, Setting!Unavailable, Setting!Go, Setting!RestoreBy,
         Setting!Write
  <2>2. QED
    BY <1>0, <2>1
<1>2. CASE Setting!WriteJournal \/ Setting!WriteFile \/ Setting!Undo \/ Setting!RemoveJournal
  <2>1. /\ UNCHANGED <<Setting!history, active, processing>>
        /\ pc' \in {"writeJournal", "writeFile", "undo", "undone", "removeJournal", "saved", "failed"}
    BY <1>2 DEF Setting!WriteJournal, Setting!WriteFile, Setting!Undo, Setting!RemoveJournal,
         Setting!Go, Setting!RestoreBy, Setting!Write
  <2>2. QED
    BY <1>0, <2>1
<1>3. CASE Setting!Failed
  BY <1>0, <1>3 DEF Setting!Failed, Setting!Answer, Setting!Saving
<1>4. CASE Setting!Saved
  BY <1>0, <1>4 DEF Setting!Saved, Setting!Answer, Setting!Saving
<1>5. CASE Setting!Boots \/ Setting!PowerLoss \/ Setting!External \/ UNCHANGED Setting!vars
  BY <1>0, <1>5 DEF Setting!Boots, Setting!PowerLoss, Setting!External, Setting!vars
<1>6. CASE Setting!Refresh \/ Setting!Scan
  BY <1>0, <1>6 DEF Setting!Refresh, Setting!Scan, Setting!ScanBegins, Setting!ScanRefused,
       Setting!ScanReads, Setting!ScanDone, Setting!ScanPublishes
<1>7. ASSUME NEW expected \in Setting!Contents, NEW next \in Revision, Setting!Save(expected, next)
      PROVE  Setting!ScanStands' /\ Setting!HistoryCurrent'
  BY <1>0, <1>7 DEF Setting!Save
<1>8. QED
  BY <1>1, <1>2, <1>3, <1>4, <1>5, <1>6, <1>7 DEF Setting!Next, Setting!Commit

\* Every step keeps the invariant.
LEMMA SettingStepInductive ==
  Setting!SettingsAssumption /\ Setting!Inductive /\ [Setting!Next]_(Setting!vars) => Setting!Inductive'
<1> SUFFICES ASSUME Setting!SettingsAssumption, Setting!Inductive, [Setting!Next]_(Setting!vars)
             PROVE  Setting!Inductive'
  OBVIOUS
<1>1. Setting!TypeOK' /\ kind' = kind /\ crossed' \in BOOLEAN /\ Setting!ScanStands'
      /\ Setting!HistoryCurrent'
  BY SettingStepType, StepScan
<1>2. CASE Setting!Start
  <2>1. Setting!Promised'
    BY <1>2, StartFiles DEF Setting!Promised, Setting!Inductive
  <2>2. pc' \notin Setting!Saving
    BY <1>2 DEF Setting!Saving, Setting!Start, Setting!ReadJournal, Setting!ReadFile, Setting!Restore,
         Setting!Cleanup, Setting!Load, Setting!Unavailable, Setting!Go, Setting!RestoreBy,
         Setting!Write
  <2>3. QED
    BY <1>1, <1>2, <2>1, <2>2, StartFiles DEF Setting!Inductive, Setting!SaveStands
<1>3. Setting!SaveStands' /\ Setting!RecoveryStands' /\ Setting!Promised'
  BY <1>2, SaveFiles, AnswerFiles, SaveBegins, OtherFiles, ExternalFiles DEF Setting!Next,
       Setting!Commit, Setting!Inductive
<1>4. QED
  BY <1>1, <1>3 DEF Setting!Inductive


\* The register starts with the file, and nothing is promised of it.
LEMMA InitRegister == Setting!SettingsAssumption /\ Setting!Init => Setting!Register!Init
  BY DEF Setting!Init, Setting!Register!Init, Setting!Recovered, Setting!Record,
       Setting!SettingsAssumption

\* Every call of the storage is a step of the register, or none.
LEMMA StepRegister ==
  Setting!SettingsAssumption /\ Setting!Inductive /\ [Setting!Next]_(Setting!vars) =>
    [Setting!Register!Next]_(Setting!Register!vars)
<1> SUFFICES ASSUME Setting!SettingsAssumption, Setting!Inductive, [Setting!Next]_(Setting!vars)
             PROVE  [Setting!Register!Next]_(Setting!Register!vars)
  OBVIOUS
<1> USE DEF Setting!Register!vars, Setting!Register!Next
<1>1. CASE Setting!Start
  BY <1>1, StartFiles DEF Setting!Register!Raw
<1>2. CASE Setting!WriteJournal \/ Setting!WriteFile \/ Setting!Undo \/ Setting!RemoveJournal
  BY <1>2, SaveFiles DEF Setting!Register!Settle
<1>3. CASE Setting!Saved \/ Setting!Failed
  BY <1>3, AnswerFiles DEF Setting!Register!Reply
<1>4. CASE Setting!Boots \/ Setting!Refresh \/ Setting!Scan \/ Setting!PowerLoss
     \/ UNCHANGED Setting!vars
  BY <1>4, OtherFiles
<1>5. CASE Setting!External
  BY <1>5, ExternalFiles DEF Setting!Register!Raw
<1>6. ASSUME NEW expected \in Setting!Contents, NEW next \in Revision, Setting!Save(expected, next)
      PROVE  [Setting!Register!Next]_(Setting!Register!vars)
  BY <1>6, SaveBegins DEF Setting!Register!Begin, Setting!Contents
<1>7. QED
  BY <1>1, <1>2, <1>3, <1>4, <1>5, <1>6 DEF Setting!Next, Setting!Commit

\* No save or recovery writes over what somebody else has put in place.
LEMMA StepIndependent ==
  Setting!SettingsAssumption /\ Setting!Inductive /\ [Setting!Next]_(Setting!vars) =>
    Setting!KeepsIndependent
<1> SUFFICES ASSUME Setting!SettingsAssumption, Setting!Inductive, [Setting!Next]_(Setting!vars),
     file \in Revision, promised = {}
             PROVE  file' = file \/ Setting!External \/ Setting!Unseen
  BY DEF Setting!KeepsIndependent
<1>1. ~(Setting!WriteJournal \/ Setting!WriteFile \/ Setting!Undo \/ Setting!RemoveJournal)
  BY SaveFiles
<1>2. Setting!Restore => Setting!Unseen
  BY DEF Setting!Restore, Setting!Inductive, Setting!RecoveryStands, Setting!Unseen
<1>3. QED
  BY <1>1, <1>2 DEF Setting!Next, Setting!Commit, Setting!Start, Setting!ReadJournal,
       Setting!ReadFile, Setting!Cleanup, Setting!Load, Setting!Unavailable, Setting!Saved,
       Setting!Failed, Setting!Answer,
     Setting!Boots, Setting!Refresh, Setting!Scan, Setting!ScanBegins, Setting!ScanRefused,
          Setting!ScanReads, Setting!ScanDone, Setting!ScanPublishes, Setting!PowerLoss, Setting!Save,
          Setting!vars, Setting!disk

\* The two sides of a save have one scale, and so has what it leaves.
LEMMA StepScale ==
  Setting!SettingsAssumption /\ Setting!Inductive /\ [Setting!Next]_(Setting!vars) => Setting!KeepsScale
<1> SUFFICES ASSUME Setting!SettingsAssumption, Setting!Inductive, [Setting!Next]_(Setting!vars),
     kind = "profile",
                    Setting!Recovered \in Revision, Setting!Recovered' \in Revision
             PROVE  \/ Scale[Setting!Recovered'] = Scale[Setting!Recovered]
                    \/ Setting!External \/ Setting!Unseen
  BY DEF Setting!KeepsScale
<1>1. CASE Setting!WriteJournal \/ Setting!WriteFile \/ Setting!Undo \/ Setting!RemoveJournal
  <2>1. /\ Setting!Recovered' \in promised /\ Setting!Recovered \in promised /\ Setting!SaveStands
           /\ pc \in Setting!Saving /\ pc' \in Setting!Saving
        /\ UNCHANGED promised
    BY <1>1, SaveFiles DEF Setting!Inductive, Setting!Promised
  <2>2. pc # "saved"
    BY <1>1 DEF Setting!WriteJournal, Setting!WriteFile, Setting!Undo, Setting!RemoveJournal
  <2>3. promised = {tx.before, tx.after} /\ tx.after \in Revision
        /\ (tx.before \in Revision => Scale[tx.before] = Scale[tx.after])
    BY <2>1, <2>2 DEF Setting!SaveStands, Setting!SameScale
  <2>4. QED
    BY <2>1, <2>3
<1>2. CASE ~(Setting!WriteJournal \/ Setting!WriteFile \/ Setting!Undo \/ Setting!RemoveJournal
     \/ Setting!External)
  <2>1. Setting!Recovered' = Setting!Recovered \/ Setting!Unseen
    BY <1>2, StartFiles, AnswerFiles, OtherFiles, SaveBegins DEF Setting!Next, Setting!Commit
  <2>2. QED
    BY <2>1
<1>3. QED
  BY <1>1, <1>2

-----------------------------------------------------------------------------
(* The MQTT interface                                                      *)

\* The device starts without a client and without a success to tell of.
LEMMA MQTTInitInductive == MQTT!MqttAssumption /\ MQTT!Init => MQTT!Inductive
<1> SUFFICES ASSUME MQTT!MqttAssumption, MQTT!Init PROVE MQTT!Inductive
  OBVIOUS
<1>1. 0 \in 0 .. (2 * Announcements + Values)
  BY DEF MQTT!MqttAssumption
<1>2. MQTT!TypeOK
  BY <1>1, Zenon DEF MQTT!Init, MQTT!TypeOK
<1>3. MQTT!SuccessStands /\ MQTT!ClientStands /\ MQTT!ListensWhenConnected
  BY DEF MQTT!Init, MQTT!SuccessStands, MQTT!ClientStands, MQTT!ListensWhenConnected
<1>4. QED
  BY <1>2, <1>3 DEF MQTT!Inductive

\* What a message or an initialisation may change of the client: it is only created, or set
\* aside, before it is initialised.
LEMMA ServiceKept ==
  ASSUME MQTT!Inductive, MQTT!MQTT_Init \/ UNCHANGED MQTT!service
  PROVE  /\ enabled' \in BOOLEAN /\ initialized' \in BOOLEAN /\ client' \in {"none", "trying", "up"}
         /\ initialized => initialized' /\ client' = client
         /\ client' = "up" => client = "up"
  BY DEF MQTT!Inductive, MQTT!TypeOK, MQTT!ClientStands, MQTT!ListensWhenConnected, MQTT!MQTT_Init,
       MQTT!service

\* Every step keeps the types.
LEMMA MQTTStepType == MQTT!MqttAssumption /\ MQTT!Inductive /\ [MQTT!Next]_(MQTT!vars) => MQTT!TypeOK'
<1> SUFFICES ASSUME MQTT!MqttAssumption, MQTT!Inductive, [MQTT!Next]_(MQTT!vars) PROVE MQTT!TypeOK'
  OBVIOUS
<1> USE DEF MQTT!service, MQTT!session, MQTT!round, MQTT!Refused, MQTT!Suppressed, MQTT!NotReady,
     MQTT!BothTriesFail, MQTT!Accepted, MQTT!NotAccepted
<1>0. MQTT!TypeOK
  BY DEF MQTT!Inductive
<1>1. CASE MQTT!Start \/ MQTT!GotAddress \/ MQTT!WifiInit \/ MQTT!WifiLost \/ MQTT!scheduleSending
     \/ MQTT!GpioPublishes
  <2>1. UNCHANGED <<MQTT!session, k, sent, success, missing>> /\ (pc' = pc \/ pc' = "idle")
        /\ (wifi' = wifi \/ wifi' = TRUE \/ wifi' = FALSE)
    BY <1>1 DEF MQTT!Start, MQTT!GotAddress, MQTT!WifiInit, MQTT!WifiLost, MQTT!scheduleSending,
         MQTT!GpioPublishes
  <2>2. (failed' = failed \/ failed' = TRUE) /\ (scheduled' = scheduled \/ scheduled' = TRUE)
    BY <1>1 DEF MQTT!Start, MQTT!GotAddress, MQTT!WifiInit, MQTT!WifiLost, MQTT!scheduleSending,
         MQTT!GpioPublishes
  <2>3. MQTT!MQTT_Init \/ UNCHANGED MQTT!service
    BY <1>1 DEF MQTT!Start, MQTT!GotAddress, MQTT!WifiInit, MQTT!WifiLost, MQTT!scheduleSending,
         MQTT!GpioPublishes
  <2>4. wifi' \in BOOLEAN /\ failed' \in BOOLEAN /\ scheduled' \in BOOLEAN
    BY <1>0, <2>1, <2>2, Zenon DEF MQTT!TypeOK
  <2>5. QED
    BY <1>0, <2>1, <2>3, <2>4, ServiceKept DEF MQTT!TypeOK
<1>2. CASE MQTT!ClientStep \/ MQTT!MQTTregisterSubscribeFunction
  <2>1. /\ UNCHANGED <<wifi, enabled, failed, scheduled, MQTT!round>>
        /\ client' = client \/ client' = "up" \/ client' = "trying"
        /\ initialized' = initialized \/ initialized' = TRUE
        /\ connected' = connected \/ connected' = TRUE \/ connected' = FALSE
        /\ greeting' = greeting \/ greeting' = TRUE \/ greeting' = FALSE
    BY <1>2 DEF MQTT!ClientStep, MQTT!Connected, MQTT!MQTTconnected, MQTT!Disconnected,
         MQTT!MQTTregisterSubscribeFunction
  <2>2. /\ handlers' \subseteq MQTT!Topics
        /\ listening' \subseteq handlers' /\ denied' \subseteq handlers'
    BY <1>0, <1>2 DEF MQTT!ClientStep, MQTT!Subscribe, MQTT!Connected, MQTT!MQTTconnected,
         MQTT!Disconnected,
         MQTT!MQTTregisterSubscribeFunction, MQTT!TypeOK, MQTT!Topics
  <2>3. initialized' \in BOOLEAN /\ connected' \in BOOLEAN /\ greeting' \in BOOLEAN
    BY <1>0, <2>1, Zenon DEF MQTT!TypeOK
  <2>4. QED
    BY <1>0, <2>1, <2>2, <2>3 DEF MQTT!TypeOK
<1>3. CASE MQTT!RoundStep
  <2>1. UNCHANGED <<wifi, MQTT!session>> /\ (MQTT!MQTT_Init \/ UNCHANGED MQTT!service)
    BY <1>3 DEF MQTT!RoundStep, MQTT!RoundStarts, MQTT!StatusPublished, MQTT!SkipGroup,
         MQTT!AnnounceTopic, MQTT!sendDiscovery_and_static_Topics,
       MQTT!publishSystemData, MQTT!LooksAgain, MQTT!ValuesSkipped, MQTT!ValuePublished,
            MQTT!publishAccountingSnapshot
  <2>2. failed' \in BOOLEAN /\ scheduled' \in BOOLEAN /\ sent' \in BOOLEAN /\ success' \in BOOLEAN
    <3>1. /\ failed' = failed \/ failed' = TRUE \/ failed' = FALSE
          /\ scheduled' = scheduled \/ scheduled' = (scheduled /\ ~sent)
          /\ sent' = sent \/ sent' = TRUE \/ sent' = FALSE
          /\ success' = success \/ success' = TRUE \/ success' = FALSE \/ success' = (success
             /\ connected)
      BY <1>3 DEF MQTT!RoundStep, MQTT!RoundStarts, MQTT!StatusPublished, MQTT!SkipGroup,
           MQTT!AnnounceTopic, MQTT!sendDiscovery_and_static_Topics,
         MQTT!publishSystemData, MQTT!LooksAgain, MQTT!ValuesSkipped, MQTT!ValuePublished,
              MQTT!publishAccountingSnapshot
    <3>2. failed \in BOOLEAN /\ scheduled \in BOOLEAN /\ sent \in BOOLEAN /\ success \in BOOLEAN
         /\ connected \in BOOLEAN
      BY <1>0 DEF MQTT!TypeOK
    <3>3. QED
      BY <3>1, <3>2, Zenon
  <2>3. /\ pc' \in {"idle", "status", "announce", "system", "look", "values", "accounting"}
        /\ missing' \subseteq {"system", "skipped", "value", "accounting"}
    BY <1>0, <1>3 DEF MQTT!RoundStep, MQTT!RoundStarts, MQTT!StatusPublished, MQTT!SkipGroup,
         MQTT!AnnounceTopic,
       MQTT!sendDiscovery_and_static_Topics, MQTT!publishSystemData, MQTT!LooksAgain,
            MQTT!ValuesSkipped, MQTT!ValuePublished,
       MQTT!publishAccountingSnapshot, MQTT!TypeOK
  <2>4. k' \in 0 .. (2 * Announcements + Values)
    <3>1. /\ Announcements \in Nat \ {0} /\ Values \in Nat \ {0}
             /\ k \in 0 .. (2 * Announcements + Values)
          /\ pc = "values" => k < Values
      BY <1>0 DEF MQTT!TypeOK, MQTT!Inductive, MQTT!SuccessStands, MQTT!MqttAssumption
    <3>2. \/ k' = k \/ k' = 1 \/ k' = 0
          \/ k \in {1, Announcements + 1} /\ k' = k + Announcements
          \/ k <= 2 * Announcements /\ k' = k + 1
          \/ pc = "values" /\ k' = k + 1
      BY <1>3 DEF MQTT!RoundStep, MQTT!RoundStarts, MQTT!StatusPublished, MQTT!SkipGroup,
           MQTT!GroupStarts, MQTT!AnnounceTopic,
         MQTT!sendDiscovery_and_static_Topics, MQTT!publishSystemData, MQTT!LooksAgain,
              MQTT!ValuesSkipped, MQTT!ValuePublished,
         MQTT!publishAccountingSnapshot
    <3>3. QED
      BY <3>1, <3>2
  <2>5. QED
    BY <1>0, <2>1, <2>2, <2>3, <2>4, ServiceKept DEF MQTT!TypeOK
<1>4. CASE UNCHANGED MQTT!vars
  BY <1>0, <1>4 DEF MQTT!vars, MQTT!TypeOK
<1> HIDE DEF MQTT!service, MQTT!session, MQTT!round, MQTT!Refused, MQTT!Suppressed, MQTT!NotReady,
     MQTT!BothTriesFail, MQTT!Accepted, MQTT!NotAccepted
<1>5. QED
  BY <1>1, <1>2, <1>3, <1>4 DEF MQTT!Next

\* What the round is about to report is what was accepted of it.
LEMMA StepSuccess ==
  MQTT!MqttAssumption /\ MQTT!Inductive /\ [MQTT!Next]_(MQTT!vars) => MQTT!SuccessStands'
<1> SUFFICES ASSUME MQTT!MqttAssumption, MQTT!Inductive, [MQTT!Next]_(MQTT!vars)
             PROVE  MQTT!SuccessStands'
  OBVIOUS
<1> USE DEF MQTT!SuccessStands, MQTT!round, MQTT!Refused
<1>0. /\ MQTT!SuccessStands /\ Announcements \in Nat \ {0} /\ Values \in Nat \ {0}
      /\ k \in Nat
  BY DEF MQTT!Inductive, MQTT!TypeOK, MQTT!MqttAssumption
<1>1. CASE MQTT!Start
  BY <1>0, <1>1 DEF MQTT!Start
<1>2. CASE MQTT!GotAddress \/ MQTT!WifiInit \/ MQTT!WifiLost \/ MQTT!scheduleSending
     \/ MQTT!GpioPublishes \/ MQTT!ClientStep
           \/ MQTT!MQTTregisterSubscribeFunction \/ UNCHANGED MQTT!vars
  <2>1. UNCHANGED MQTT!round
    BY <1>2 DEF MQTT!GotAddress, MQTT!WifiInit, MQTT!WifiLost, MQTT!scheduleSending,
         MQTT!GpioPublishes, MQTT!ClientStep, MQTT!Connected,
       MQTT!MQTTconnected, MQTT!Disconnected, MQTT!MQTTregisterSubscribeFunction, MQTT!vars
  <2>2. QED
    BY <1>0, <2>1
<1>3. CASE MQTT!RoundStarts \/ MQTT!StatusPublished
  BY <1>0, <1>3 DEF MQTT!RoundStarts, MQTT!StatusPublished
<1>4. CASE MQTT!SkipGroup \/ MQTT!AnnounceTopic \/ MQTT!sendDiscovery_and_static_Topics
  BY <1>0, <1>4 DEF MQTT!SkipGroup, MQTT!GroupStarts, MQTT!AnnounceTopic,
       MQTT!sendDiscovery_and_static_Topics
<1>5. CASE MQTT!publishSystemData \/ MQTT!LooksAgain
  <2>1. CASE MQTT!publishSystemData
    <3>1. pc = "system" /\ pc' = "look" /\ (success' = FALSE \/ missing' = missing)
      BY <2>1 DEF MQTT!publishSystemData
    <3>2. QED
      BY <1>0, <3>1
  <2>2. CASE MQTT!LooksAgain
    <3>1. pc = "look" /\ pc' = "values" /\ k' = 0 /\ missing' = missing
      BY <2>2 DEF MQTT!LooksAgain
    <3>2. success' => success
      BY <2>2, Zenon DEF MQTT!LooksAgain
    <3>3. QED
      BY <1>0, <3>1, <3>2
  <2>3. QED
    BY <1>5, <2>1, <2>2
<1>6. CASE MQTT!ValuesSkipped \/ MQTT!ValuePublished
  <2>1. CASE MQTT!ValuesSkipped
    BY <1>0, <2>1 DEF MQTT!ValuesSkipped
  <2>2. CASE MQTT!ValuePublished
    <3>1. /\ pc = "values" /\ k' = k + 1 /\ pc' = (IF k' = Values THEN "accounting" ELSE "values")
          /\ success' = FALSE \/ UNCHANGED <<success, missing>>
      BY <2>2 DEF MQTT!ValuePublished
    <3>2. QED
      BY <1>0, <3>1
  <2>3. QED
    BY <1>6, <2>1, <2>2
<1>7. CASE MQTT!publishAccountingSnapshot
  BY <1>0, <1>7 DEF MQTT!publishAccountingSnapshot
<1> HIDE DEF MQTT!SuccessStands, MQTT!round, MQTT!Refused
<1>8. QED
  BY <1>1, <1>2, <1>3, <1>4, <1>5, <1>6, <1>7 DEF MQTT!Next, MQTT!RoundStep

\* Whoever is connected is initialised, and listens once the broker has been greeted.
LEMMA StepClient ==
  MQTT!MqttAssumption /\ MQTT!Inductive /\ [MQTT!Next]_(MQTT!vars) =>
    MQTT!ClientStands' /\ MQTT!ListensWhenConnected'
<1> SUFFICES ASSUME MQTT!MqttAssumption, MQTT!Inductive, [MQTT!Next]_(MQTT!vars)
             PROVE  MQTT!ClientStands' /\ MQTT!ListensWhenConnected'
  OBVIOUS
<1> USE DEF MQTT!ClientStands, MQTT!ListensWhenConnected, MQTT!session
<1>0. MQTT!ClientStands /\ MQTT!ListensWhenConnected /\ MQTT!TypeOK
  BY DEF MQTT!Inductive
<1>1. CASE MQTT!Connected
  BY <1>0, <1>1 DEF MQTT!Connected, MQTT!TypeOK
<1>2. CASE MQTT!MQTTconnected \/ MQTT!Disconnected
  BY <1>0, <1>2 DEF MQTT!MQTTconnected, MQTT!Subscribe, MQTT!Disconnected, MQTT!service
<1>3. CASE MQTT!MQTTregisterSubscribeFunction
  BY <1>0, <1>3 DEF MQTT!MQTTregisterSubscribeFunction, MQTT!service
<1>4. CASE (MQTT!Next /\ ~MQTT!ClientStep /\ ~MQTT!MQTTregisterSubscribeFunction) \/ UNCHANGED MQTT!vars
  <2>1. UNCHANGED MQTT!session /\ (MQTT!MQTT_Init \/ UNCHANGED MQTT!service)
    BY <1>4 DEF MQTT!Next, MQTT!Start, MQTT!GotAddress, MQTT!WifiInit, MQTT!WifiLost,
         MQTT!scheduleSending, MQTT!GpioPublishes, MQTT!RoundStep, MQTT!RoundStarts,
       MQTT!StatusPublished, MQTT!SkipGroup, MQTT!AnnounceTopic, MQTT!sendDiscovery_and_static_Topics,
            MQTT!publishSystemData, MQTT!LooksAgain,
       MQTT!ValuesSkipped, MQTT!ValuePublished, MQTT!publishAccountingSnapshot, MQTT!Refused,
            MQTT!Suppressed, MQTT!NotReady, MQTT!BothTriesFail,
       MQTT!Accepted, MQTT!NotAccepted, MQTT!service, MQTT!vars
  <2>2. QED
    BY <1>0, <2>1, ServiceKept DEF MQTT!service
<1> HIDE DEF MQTT!ClientStands, MQTT!ListensWhenConnected, MQTT!session
<1>5. QED
  BY <1>1, <1>2, <1>3, <1>4 DEF MQTT!ClientStep

\* Every step keeps the invariant.
LEMMA MQTTStepInductive ==
  MQTT!MqttAssumption /\ MQTT!Inductive /\ [MQTT!Next]_(MQTT!vars) => MQTT!Inductive'
  BY MQTTStepType, StepSuccess, StepClient DEF MQTT!Inductive

\* A success that is reported is one of the invariant's.
LEMMA InductiveHonest == MQTT!Inductive => MQTT!RoundReportsTruth /\ MQTT!ListensWhenConnected
  BY DEF MQTT!Inductive, MQTT!SuccessStands, MQTT!RoundReportsTruth

-----------------------------------------------------------------------------
(* The flow task and those it shares the device with                       *)

\* A stage of the first pipeline is its own kind, one of a later pipeline one that has run.
LEMMA KindOf ==
  \A s \in Nat \ {0} : Flow!Kind(s) \in Flow!Stages /\ Flow!Kind(s) <= s /\ (s <= 5 => Flow!Kind(s) = s)
  BY DEF Flow!Kind, Flow!Stages

\* A tick comes to the next slot exactly when the ticks of the current one are complete.
LEMMA NextTick ==
  ASSUME NEW P \in Nat \ {0}, NEW p \in 0 .. (P - 1)
  PROVE  (p + 1) % P = IF p + 1 = P THEN 0 ELSE p + 1
<1>1. CASE p + 1 = P
  BY <1>1
<1>2. CASE p + 1 # P
  BY <1>2
<1>3. QED
  BY <1>1, <1>2

\* What a number of whole slots and some ticks is divided by the length of a slot.
LEMMA Slots ==
  ASSUME NEW P \in Nat \ {0}, NEW p \in 0 .. (P - 1), NEW q \in Int
  PROVE  (q * P + p) \div P = q /\ (q * P + p) % P = p
  OBVIOUS

\* There are no more slots than ticks, and in less than two slots no two are complete.
LEMMA FewSlots ==
  ASSUME NEW P \in Nat \ {0}, NEW q \in Nat, NEW p \in 0 .. (P - 1)
  PROVE  /\ (q - 1) * P + p <= 0 => q <= 1
         /\ \A limit \in Nat : q * P + p <= limit => q <= limit
<1>1. q * P >= q /\ (q > 1 => (q - 1) * P >= P)
  OBVIOUS
<1>2. q * P \in Int /\ (q - 1) * P \in Int
  OBVIOUS
<1>3. QED
  BY <1>1, <1>2

\* CycleSchedule::after, of q slots and p ticks.
LEMMA AfterSlot ==
  ASSUME NEW P \in Nat \ {0}, NEW p \in 0 .. (P - 1), NEW q \in Nat
  PROVE  LET next == Flow!After(q * P + p, P) IN
           /\ next.late \in (-P) .. 0
           /\ q - next.missed \in 0 .. 1
           /\ next.late = (q - next.missed - 1) * P + p
<1>1. CASE q = 0
  BY <1>1 DEF Flow!After
<1>2. CASE q >= 1
  <2> DEFINE over == q * P + p - P
  <2>1. over = (q - 1) * P + p /\ over \in Int
    BY <1>2
  <2>2. (q - 1) * P >= 0 /\ (q # 1 => (q - 1) * P >= 1)
    BY <1>2
  <2>3. over \div P = q - 1 /\ over % P = p
    BY <1>2, <2>1, Slots
  <2>4. CASE over <= 0
    <3>1. q = 1 /\ p = 0
      BY <1>2, <2>1, <2>2, <2>4
    <3>2. QED
      BY <3>1 DEF Flow!After
  <2>5. CASE over > 0
    <3> DEFINE skipped == q - 1 + (IF p # 0 THEN 1 ELSE 0)
    <3>1. Flow!After(q * P + p, P) = [missed |-> skipped, late |-> over - skipped * P]
      BY <2>3, <2>5 DEF Flow!After
    <3>2. over - skipped * P = IF p = 0 THEN 0 ELSE p - P
      <4>1. CASE p = 0
        BY <2>1, <4>1
      <4>2. CASE p # 0
        <5>1. skipped = q /\ over - q * P = p - P
          BY <4>2
        <5>2. QED
          BY <4>2, <5>1
      <4>3. QED
        BY <4>1, <4>2
    <3>3. q - skipped = IF p = 0 THEN 1 ELSE 0
      OBVIOUS
    <3>4. (q - skipped - 1) * P = IF p = 0 THEN 0 ELSE -P
      BY <3>3
    <3> HIDE DEF skipped, over
    <3>5. QED
      BY <3>1, <3>2, <3>3, <3>4
  <2>6. QED
    BY <2>1, <2>4, <2>5
<1>3. QED
  BY <1>1, <1>2

\* The device starts with nothing held and nothing owed.
LEMMA FlowInitInductive == Flow!FlowAssumption /\ Flow!Init => Flow!Inductive
<1> SUFFICES ASSUME Flow!FlowAssumption, Flow!Init PROVE Flow!Inductive
  OBVIOUS
<1> USE DEF Flow!Init, Flow!Boot, Flow!FlowAssumption
<1>0. pc = [t \in Flow!Tasks |-> IF t = "flow" THEN "init" ELSE "idle"]
  BY DEF Flow!Tasks
<1>1. Flow!TypeOK /\ Flow!Places
  <2>1. Flow!Places /\ pc \in [Flow!Tasks -> Flow!Steps]
    BY <1>0 DEF Flow!Places, Flow!Tasks, Flow!Steps
  <2>2. product \in [Flow!Stages -> {"none", "old", "now"}]
    OBVIOUS
  <2>3. /\ interval \in {0, Period} /\ late \in (-Period) .. LateLimit /\ phase \in 0 .. (Period - 1)
        /\ owed \in 0 .. (LateLimit + 1) /\ copies \in 0 .. CopyLimit
           /\ stage \in 0 .. (5 * CopyLimit + 1)
        /\ cycle \in 0 .. 1
    OBVIOUS
  <2>4. QED
    BY <2>1, <2>2, <2>3, Zenon DEF Flow!TypeOK, Flow!Owners
<1>2. Flow!StageStands /\ Flow!Cadence
  BY DEF Flow!StageStands, Flow!Cadence, Flow!Begun, Flow!Round
<1>3. Flow!GuardsReturned /\ Flow!RoundUsesOwnImage
  BY DEF Flow!GuardsReturned, Flow!RoundUsesOwnImage, Flow!UsesProcessing, Flow!Round, Flow!Tasks,
       Flow!Stages
<1>4. QED
  BY <1>1, <1>2, <1>3 DEF Flow!Inductive

\* Every task goes only where its own code is.
LEMMA StepPlaces ==
  Flow!FlowAssumption /\ Flow!Inductive /\ [Flow!Next]_(Flow!vars) =>
    pc' \in [Flow!Tasks -> Flow!Steps] /\ Flow!Places'
<1> SUFFICES ASSUME Flow!FlowAssumption, Flow!Inductive, [Flow!Next]_(Flow!vars)
             PROVE  pc' \in [Flow!Tasks -> Flow!Steps] /\ Flow!Places'
  OBVIOUS
<1> USE DEF Flow!Goto, Flow!Places, Flow!Steps, Flow!Tasks, Flow!Announce, Flow!StageDone,
     Flow!RoundEnds, Flow!Boot, Flow!vars
<1>0. pc \in [Flow!Tasks -> Flow!Steps] /\ Flow!Places
  BY DEF Flow!Inductive, Flow!TypeOK
<1>1. ASSUME NEW t \in {"flow", "web"}, Flow!InitBusy(t) \/ Flow!InitFlow(t)
             \/ Flow!InitCameraBusy(t) \/ Flow!InitCamera(t)
      PROVE  pc' \in [Flow!Tasks -> Flow!Steps] /\ Flow!Places'
  BY <1>0, <1>1 DEF Flow!InitBusy, Flow!InitFlow, Flow!InitCameraBusy, Flow!InitCamera
<1>2. ASSUME NEW t \in {"flow", "web"}, Flow!InitFails(t) \/ Flow!InitReads(t)
             \/ Flow!InitReboots(t) \/ Flow!ArchiveStarts(t)
      PROVE  pc' \in [Flow!Tasks -> Flow!Steps] /\ Flow!Places'
  BY <1>0, <1>2 DEF Flow!InitFails, Flow!InitReads, Flow!InitReboots, Flow!ArchiveStarts
<1>3. CASE Flow!FlowReady \/ Flow!RoundBusy \/ Flow!RoundBegins \/ Flow!RoundUnsafe \/ Flow!RoundChecked
  BY <1>0, <1>3 DEF Flow!FlowReady, Flow!RoundBusy, Flow!RoundBegins, Flow!RoundUnsafe,
       Flow!RoundChecked
<1>4. CASE Flow!StageStarts \/ Flow!RoundFinishes \/ Flow!TakeCamera
  BY <1>0, <1>4 DEF Flow!StageStarts, Flow!RoundFinishes, Flow!TakeCamera
<1>5. CASE Flow!TakeImage \/ Flow!RunStage \/ Flow!StageFails
  BY <1>0, <1>5 DEF Flow!TakeImage, Flow!RunStage, Flow!StageFails
<1>6. CASE Flow!Schedule
  BY <1>0, <1>6 DEF Flow!Schedule
<1>7. CASE Flow!ScheduleInvalid \/ Flow!Wakes \/ Flow!FlowStart
  BY <1>0, <1>7 DEF Flow!ScheduleInvalid, Flow!Wakes, Flow!FlowStart
<1>8. CASE Flow!Tick
  BY <1>0, <1>8 DEF Flow!Tick
<1>9. CASE Flow!RequestInit \/ Flow!RequestAlign \/ Flow!RequestReboot
  BY <1>0, <1>9 DEF Flow!RequestInit, Flow!RequestAlign, Flow!RequestReboot
<1>10. CASE Flow!SingleStepRefused \/ Flow!SingleStep \/ Flow!SingleStepDone
  BY <1>0, <1>10 DEF Flow!SingleStepRefused, Flow!SingleStep, Flow!SingleStepDone
<1>11. CASE Flow!TestStarts \/ Flow!TestRefused \/ Flow!TestRuns \/ Flow!TestEnds
  BY <1>0, <1>11 DEF Flow!TestStarts, Flow!TestRefused, Flow!TestRuns, Flow!TestEnds
<1>12. CASE Flow!DeleteMainFlowTask \/ Flow!DestroyClient
  BY <1>0, <1>12 DEF Flow!DeleteMainFlowTask, Flow!DestroyClient
<1>13. CASE Flow!Restart
  BY <1>0, <1>13 DEF Flow!Restart
<1>14. CASE UNCHANGED Flow!vars
  BY <1>0, <1>14 DEF Flow!vars
<1> HIDE DEF Flow!Goto, Flow!Places, Flow!Steps, Flow!Tasks, Flow!Announce, Flow!StageDone,
     Flow!RoundEnds, Flow!Boot, Flow!vars
<1>15. QED
  BY <1>1, <1>2, <1>3, <1>4, <1>5, <1>6, <1>7, <1>8, <1>9, <1>10, <1>11, <1>12, <1>13, <1>14
     DEF Flow!Next, Flow!FlowStep, Flow!DoInit, Flow!Request, Flow!WebStep, Flow!TestStep,
          Flow!RebootStep

\* The processing flag is with the one task that works under it.
LEMMA StepGuards ==
  Flow!FlowAssumption /\ Flow!Inductive /\ [Flow!Next]_(Flow!vars) => Flow!GuardsReturned'
<1> SUFFICES ASSUME Flow!FlowAssumption, Flow!Inductive, [Flow!Next]_(Flow!vars)
             PROVE  Flow!GuardsReturned'
  OBVIOUS
<1> USE DEF Flow!Goto, Flow!Places, Flow!Steps, Flow!Tasks, Flow!Announce, Flow!StageDone,
     Flow!RoundEnds, Flow!Boot, Flow!guards, Flow!round, Flow!GuardsReturned, Flow!UsesProcessing,
     Flow!Round, Flow!Owners
<1>0. pc \in [Flow!Tasks -> Flow!Steps] /\ Flow!Places /\ Flow!GuardsReturned /\ cycle \in 0 .. 1
     /\ processing \in Flow!Owners
  BY DEF Flow!Inductive, Flow!TypeOK
<1>1. ASSUME NEW t \in {"flow", "web"}, Flow!InitBusy(t) \/ Flow!InitFlow(t)
             \/ Flow!InitCameraBusy(t) \/ Flow!InitCamera(t)
      PROVE  Flow!GuardsReturned'
  BY <1>0, <1>1 DEF Flow!InitBusy, Flow!InitFlow, Flow!InitCameraBusy, Flow!InitCamera
<1>2. ASSUME NEW t \in {"flow", "web"}, Flow!InitFails(t) \/ Flow!InitReads(t)
             \/ Flow!InitReboots(t) \/ Flow!ArchiveStarts(t)
      PROVE  Flow!GuardsReturned'
  BY <1>0, <1>2 DEF Flow!InitFails, Flow!InitReads, Flow!InitReboots, Flow!ArchiveStarts
<1>3. CASE Flow!FlowReady \/ Flow!RoundBusy \/ Flow!RoundBegins \/ Flow!RoundUnsafe \/ Flow!RoundChecked
  BY <1>0, <1>3 DEF Flow!FlowReady, Flow!RoundBusy, Flow!RoundBegins, Flow!RoundUnsafe,
       Flow!RoundChecked
<1>4. CASE Flow!StageStarts \/ Flow!RoundFinishes \/ Flow!TakeCamera
  BY <1>0, <1>4 DEF Flow!StageStarts, Flow!RoundFinishes, Flow!TakeCamera
<1>5. CASE Flow!TakeImage \/ Flow!RunStage \/ Flow!StageFails
  BY <1>0, <1>5 DEF Flow!TakeImage, Flow!RunStage, Flow!StageFails
<1>6. CASE Flow!Schedule
  BY <1>0, <1>6 DEF Flow!Schedule
<1>7. CASE Flow!ScheduleInvalid \/ Flow!Wakes \/ Flow!FlowStart
  BY <1>0, <1>7 DEF Flow!ScheduleInvalid, Flow!Wakes, Flow!FlowStart
<1>8. CASE Flow!Tick
  BY <1>0, <1>8 DEF Flow!Tick
<1>9. CASE Flow!RequestInit \/ Flow!RequestAlign \/ Flow!RequestReboot
  BY <1>0, <1>9 DEF Flow!RequestInit, Flow!RequestAlign, Flow!RequestReboot
<1>10. CASE Flow!SingleStepRefused \/ Flow!SingleStep \/ Flow!SingleStepDone
  BY <1>0, <1>10 DEF Flow!SingleStepRefused, Flow!SingleStep, Flow!SingleStepDone
<1>11. CASE Flow!TestStarts \/ Flow!TestRefused \/ Flow!TestRuns \/ Flow!TestEnds
  BY <1>0, <1>11 DEF Flow!TestStarts, Flow!TestRefused, Flow!TestRuns, Flow!TestEnds
<1>12. CASE Flow!DeleteMainFlowTask \/ Flow!DestroyClient
  BY <1>0, <1>12 DEF Flow!DeleteMainFlowTask, Flow!DestroyClient
<1>13. CASE Flow!Restart
  BY <1>0, <1>13 DEF Flow!Restart
<1>14. CASE UNCHANGED Flow!vars
  BY <1>0, <1>14 DEF Flow!vars
<1> HIDE DEF Flow!Goto, Flow!Places, Flow!Steps, Flow!Tasks, Flow!Announce, Flow!StageDone,
     Flow!RoundEnds, Flow!Boot, Flow!guards, Flow!round, Flow!GuardsReturned, Flow!UsesProcessing,
     Flow!Round, Flow!Owners
<1>15. QED
  BY <1>1, <1>2, <1>3, <1>4, <1>5, <1>6, <1>7, <1>8, <1>9, <1>10, <1>11, <1>12, <1>13, <1>14
     DEF Flow!Next, Flow!FlowStep, Flow!DoInit, Flow!Request, Flow!WebStep, Flow!TestStep,
          Flow!RebootStep

\* Only a round that holds the flag is at a stage, and at one that is there.
LEMMA StepStages ==
  Flow!FlowAssumption /\ Flow!Inductive /\ [Flow!Next]_(Flow!vars) =>
    Flow!StageStands' /\ stage' \in 0 .. (5 * CopyLimit + 1) /\ copies' \in 0 .. CopyLimit
<1> SUFFICES ASSUME Flow!FlowAssumption, Flow!Inductive, [Flow!Next]_(Flow!vars)
             PROVE  Flow!StageStands' /\ stage' \in 0 .. (5 * CopyLimit + 1)
                      /\ copies' \in 0 .. CopyLimit
  OBVIOUS
<1> USE DEF Flow!Goto, Flow!Places, Flow!Steps, Flow!Tasks, Flow!Announce, Flow!StageDone,
     Flow!RoundEnds, Flow!Boot, Flow!guards, Flow!round, Flow!pipeline, Flow!GuardsReturned,
     Flow!UsesProcessing, Flow!Round, Flow!Owners, Flow!StageStands
<1>0. pc \in [Flow!Tasks -> Flow!Steps] /\ Flow!Places /\ Flow!GuardsReturned /\ Flow!StageStands
     /\ stage \in 0 .. (5 * CopyLimit + 1) /\ copies \in 0 .. CopyLimit /\ CopyLimit \in Nat
  BY DEF Flow!Inductive, Flow!TypeOK, Flow!FlowAssumption
<1>1. ASSUME NEW t \in {"flow", "web"}, Flow!InitBusy(t) \/ Flow!InitFlow(t)
             \/ Flow!InitCameraBusy(t) \/ Flow!InitCamera(t)
      PROVE  Flow!StageStands' /\ stage' \in 0 .. (5 * CopyLimit + 1) /\ copies' \in 0 .. CopyLimit
  BY <1>0, <1>1 DEF Flow!InitBusy, Flow!InitFlow, Flow!InitCameraBusy, Flow!InitCamera
<1>2. ASSUME NEW t \in {"flow", "web"}, Flow!InitFails(t) \/ Flow!InitReads(t)
             \/ Flow!InitReboots(t) \/ Flow!ArchiveStarts(t)
      PROVE  Flow!StageStands' /\ stage' \in 0 .. (5 * CopyLimit + 1) /\ copies' \in 0 .. CopyLimit
  BY <1>0, <1>2 DEF Flow!InitFails, Flow!InitReads, Flow!InitReboots, Flow!ArchiveStarts
<1>3. CASE Flow!FlowReady \/ Flow!RoundBusy \/ Flow!RoundBegins \/ Flow!RoundUnsafe \/ Flow!RoundChecked
  BY <1>0, <1>3 DEF Flow!FlowReady, Flow!RoundBusy, Flow!RoundBegins, Flow!RoundUnsafe,
       Flow!RoundChecked
<1>4. CASE Flow!StageStarts \/ Flow!RoundFinishes \/ Flow!TakeCamera
  BY <1>0, <1>4 DEF Flow!StageStarts, Flow!RoundFinishes, Flow!TakeCamera
<1>5. CASE Flow!TakeImage \/ Flow!RunStage \/ Flow!StageFails
  BY <1>0, <1>5 DEF Flow!TakeImage, Flow!RunStage, Flow!StageFails
<1>6. CASE Flow!Schedule
  BY <1>0, <1>6 DEF Flow!Schedule
<1>7. CASE Flow!ScheduleInvalid \/ Flow!Wakes \/ Flow!FlowStart
  BY <1>0, <1>7 DEF Flow!ScheduleInvalid, Flow!Wakes, Flow!FlowStart
<1>8. CASE Flow!Tick
  BY <1>0, <1>8 DEF Flow!Tick
<1>9. CASE Flow!RequestInit \/ Flow!RequestAlign \/ Flow!RequestReboot
  BY <1>0, <1>9 DEF Flow!RequestInit, Flow!RequestAlign, Flow!RequestReboot
<1>10. CASE Flow!SingleStepRefused \/ Flow!SingleStep \/ Flow!SingleStepDone
  BY <1>0, <1>10 DEF Flow!SingleStepRefused, Flow!SingleStep, Flow!SingleStepDone
<1>11. CASE Flow!TestStarts \/ Flow!TestRefused \/ Flow!TestRuns \/ Flow!TestEnds
  BY <1>0, <1>11 DEF Flow!TestStarts, Flow!TestRefused, Flow!TestRuns, Flow!TestEnds
<1>12. CASE Flow!DeleteMainFlowTask \/ Flow!DestroyClient
  BY <1>0, <1>12 DEF Flow!DeleteMainFlowTask, Flow!DestroyClient
<1>13. CASE Flow!Restart
  BY <1>0, <1>13 DEF Flow!Restart
<1>14. CASE UNCHANGED Flow!vars
  BY <1>0, <1>14 DEF Flow!vars
<1> HIDE DEF Flow!Goto, Flow!Places, Flow!Steps, Flow!Tasks, Flow!Announce, Flow!StageDone,
     Flow!RoundEnds, Flow!Boot, Flow!guards, Flow!round, Flow!pipeline, Flow!GuardsReturned,
     Flow!UsesProcessing, Flow!Round, Flow!Owners, Flow!StageStands
<1>15. QED
  BY <1>1, <1>2, <1>3, <1>4, <1>5, <1>6, <1>7, <1>8, <1>9, <1>10, <1>11, <1>12, <1>13, <1>14
     DEF Flow!Next, Flow!FlowStep, Flow!DoInit, Flow!Request, Flow!WebStep, Flow!TestStep,
          Flow!RebootStep

\* A stage works on what the stage before it made of the round's own picture.
LEMMA StepOwnImage ==
  Flow!FlowAssumption /\ Flow!Inductive /\ [Flow!Next]_(Flow!vars) =>
    Flow!RoundUsesOwnImage' /\ product' \in [Flow!Stages -> {"none", "old", "now"}]
<1> SUFFICES ASSUME Flow!FlowAssumption, Flow!Inductive, [Flow!Next]_(Flow!vars)
             PROVE  Flow!RoundUsesOwnImage' /\ product' \in [Flow!Stages -> {"none", "old", "now"}]
  OBVIOUS
<1> USE DEF Flow!Goto, Flow!Tasks, Flow!Announce, Flow!StageDone, Flow!RoundEnds, Flow!Boot,
     Flow!round, Flow!Stages, Flow!GuardsReturned, Flow!UsesProcessing, Flow!StageStands,
     Flow!RoundUsesOwnImage
<1>0. /\ pc \in [Flow!Tasks -> Flow!Steps] /\ Flow!Places /\ Flow!StageStands /\ stage \in Nat
         /\ Flow!GuardsReturned
      /\ Flow!RoundUsesOwnImage /\ product \in [Flow!Stages -> {"none", "old", "now"}]
      /\ stage # 0 => Flow!Kind(stage) \in Flow!Stages /\ Flow!Kind(stage) <= stage
         /\ (stage <= 5 => Flow!Kind(stage) = stage)
  BY KindOf DEF Flow!Inductive, Flow!TypeOK, Flow!FlowAssumption
<1>1. ASSUME NEW t \in {"flow", "web"}, Flow!InitBusy(t) \/ Flow!InitFlow(t)
             \/ Flow!InitCameraBusy(t) \/ Flow!InitCamera(t)
      PROVE  Flow!RoundUsesOwnImage' /\ product' \in [Flow!Stages -> {"none", "old", "now"}]
  BY <1>0, <1>1 DEF Flow!InitBusy, Flow!InitFlow, Flow!InitCameraBusy, Flow!InitCamera
<1>2. ASSUME NEW t \in {"flow", "web"}, Flow!InitFails(t) \/ Flow!InitReads(t)
             \/ Flow!InitReboots(t) \/ Flow!ArchiveStarts(t)
      PROVE  Flow!RoundUsesOwnImage' /\ product' \in [Flow!Stages -> {"none", "old", "now"}]
  BY <1>0, <1>2 DEF Flow!InitFails, Flow!InitReads, Flow!InitReboots, Flow!ArchiveStarts
<1>3. CASE Flow!FlowReady \/ Flow!RoundBusy \/ Flow!RoundBegins \/ Flow!RoundUnsafe \/ Flow!RoundChecked
  BY <1>0, <1>3 DEF Flow!FlowReady, Flow!RoundBusy, Flow!RoundBegins, Flow!RoundUnsafe,
       Flow!RoundChecked
<1>4. CASE Flow!StageStarts \/ Flow!RoundFinishes \/ Flow!TakeCamera
  BY <1>0, <1>4 DEF Flow!StageStarts, Flow!RoundFinishes, Flow!TakeCamera
<1>5. CASE Flow!TakeImage \/ Flow!RunStage \/ Flow!StageFails
  BY <1>0, <1>5 DEF Flow!TakeImage, Flow!RunStage, Flow!StageFails
<1>6. CASE Flow!Schedule
  BY <1>0, <1>6 DEF Flow!Schedule
<1>7. CASE Flow!ScheduleInvalid \/ Flow!Wakes \/ Flow!FlowStart
  BY <1>0, <1>7 DEF Flow!ScheduleInvalid, Flow!Wakes, Flow!FlowStart
<1>8. CASE Flow!Tick
  BY <1>0, <1>8 DEF Flow!Tick
<1>9. CASE Flow!RequestInit \/ Flow!RequestAlign \/ Flow!RequestReboot
  BY <1>0, <1>9 DEF Flow!RequestInit, Flow!RequestAlign, Flow!RequestReboot
<1>10. CASE Flow!SingleStepRefused \/ Flow!SingleStep \/ Flow!SingleStepDone
  BY <1>0, <1>10 DEF Flow!SingleStepRefused, Flow!SingleStep, Flow!SingleStepDone
<1>11. CASE Flow!TestStarts \/ Flow!TestRefused \/ Flow!TestRuns \/ Flow!TestEnds
  BY <1>0, <1>11 DEF Flow!TestStarts, Flow!TestRefused, Flow!TestRuns, Flow!TestEnds
<1>12. CASE Flow!DeleteMainFlowTask \/ Flow!DestroyClient
  BY <1>0, <1>12 DEF Flow!DeleteMainFlowTask, Flow!DestroyClient
<1>13. CASE Flow!Restart
  BY <1>0, <1>13 DEF Flow!Restart
<1>14. CASE UNCHANGED Flow!vars
  BY <1>0, <1>14 DEF Flow!vars
<1> HIDE DEF Flow!Goto, Flow!Tasks, Flow!Announce, Flow!StageDone, Flow!RoundEnds, Flow!Boot,
     Flow!round, Flow!Stages, Flow!GuardsReturned, Flow!UsesProcessing, Flow!StageStands,
     Flow!RoundUsesOwnImage
<1>15. QED
  BY <1>1, <1>2, <1>3, <1>4, <1>5, <1>6, <1>7, <1>8, <1>9, <1>10, <1>11, <1>12, <1>13, <1>14
     DEF Flow!Next, Flow!FlowStep, Flow!DoInit, Flow!Request, Flow!WebStep, Flow!TestStep,
          Flow!RebootStep

\* The slots that came are owed until their round begins or they are counted missed.
LEMMA StepCadence ==
  Flow!FlowAssumption /\ Flow!Inductive /\ [Flow!Next]_(Flow!vars) =>
    /\ Flow!Cadence' /\ interval' \in {0, Period} /\ late' \in (-Period) .. LateLimit
             /\ phase' \in 0 .. (Period - 1) /\ owed' \in 0 .. (LateLimit + 1)
<1> SUFFICES ASSUME Flow!FlowAssumption, Flow!Inductive, [Flow!Next]_(Flow!vars)
             PROVE  /\ Flow!Cadence' /\ interval' \in {0, Period} /\ late' \in (-Period) .. LateLimit
             /\ phase' \in 0 .. (Period - 1) /\ owed' \in 0 .. (LateLimit + 1)
  OBVIOUS
<1> USE DEF Flow!Goto, Flow!Tasks, Flow!Announce, Flow!StageDone, Flow!RoundEnds, Flow!Began,
     Flow!Boot, Flow!clock, Flow!Places, Flow!Cadence, Flow!Begun, Flow!Round
<1>0. /\ pc \in [Flow!Tasks -> Flow!Steps] /\ Flow!Places /\ Flow!Cadence /\ interval \in {0,
         Period} /\ late \in (-Period) .. LateLimit
      /\ phase \in 0 .. (Period - 1) /\ owed \in 0 .. (LateLimit + 1) /\ Period \in Nat \ {0}
         /\ LateLimit \in Nat
  BY DEF Flow!Inductive, Flow!TypeOK, Flow!FlowAssumption
<1>1. ASSUME NEW t \in {"flow", "web"}, Flow!InitBusy(t) \/ Flow!InitFlow(t)
             \/ Flow!InitCameraBusy(t) \/ Flow!InitCamera(t)
      PROVE  /\ Flow!Cadence' /\ interval' \in {0, Period} /\ late' \in (-Period) .. LateLimit
             /\ phase' \in 0 .. (Period - 1) /\ owed' \in 0 .. (LateLimit + 1)
  BY <1>0, <1>1 DEF Flow!InitBusy, Flow!InitFlow, Flow!InitCameraBusy, Flow!InitCamera
<1>2. ASSUME NEW t \in {"flow", "web"}, Flow!InitFails(t) \/ Flow!InitReads(t)
             \/ Flow!InitReboots(t) \/ Flow!ArchiveStarts(t)
      PROVE  /\ Flow!Cadence' /\ interval' \in {0, Period} /\ late' \in (-Period) .. LateLimit
             /\ phase' \in 0 .. (Period - 1) /\ owed' \in 0 .. (LateLimit + 1)
  BY <1>0, <1>2 DEF Flow!InitFails, Flow!InitReads, Flow!InitReboots, Flow!ArchiveStarts
<1>3. CASE Flow!FlowReady \/ Flow!RoundBusy \/ Flow!RoundBegins \/ Flow!RoundUnsafe \/ Flow!RoundChecked
  BY <1>0, <1>3 DEF Flow!FlowReady, Flow!RoundBusy, Flow!RoundBegins, Flow!RoundUnsafe,
       Flow!RoundChecked
<1>4. CASE Flow!StageStarts \/ Flow!RoundFinishes \/ Flow!TakeCamera
  BY <1>0, <1>4 DEF Flow!StageStarts, Flow!RoundFinishes, Flow!TakeCamera
<1>5. CASE Flow!TakeImage \/ Flow!RunStage \/ Flow!StageFails
  BY <1>0, <1>5 DEF Flow!TakeImage, Flow!RunStage, Flow!StageFails
<1>6. CASE Flow!Schedule
  <2>1. late = owed * Period + phase /\ pc["flow"] = "after" /\ interval = Period
    BY <1>0, <1>6 DEF Flow!Schedule
  <2>2. late' = Flow!After(late, Period).late /\ owed' = owed - Flow!After(late, Period).missed
    BY <2>1, <1>6 DEF Flow!Schedule
  <2>3. late' \in (-Period) .. 0 /\ owed' \in 0 .. 1 /\ late' = (owed' - 1) * Period + phase
    BY <1>0, <2>1, <2>2, AfterSlot
  <2>4. pc'["flow"] = "sleep" /\ UNCHANGED <<interval, phase>>
    BY <1>0, <1>6 DEF Flow!Schedule
  <2>5. Flow!Cadence'
    BY <2>3, <2>4
  <2>6. late' \in (-Period) .. LateLimit /\ owed' \in 0 .. (LateLimit + 1)
    <3>1. Period \in Nat /\ LateLimit \in Nat
      BY <1>0
    <3>2. QED
      BY <2>3, <3>1
  <2>7. QED
    BY <1>0, <2>4, <2>5, <2>6
<1>7. CASE Flow!ScheduleInvalid \/ Flow!Wakes \/ Flow!FlowStart
  BY <1>0, <1>7 DEF Flow!ScheduleInvalid, Flow!Wakes, Flow!FlowStart
<1>8. CASE Flow!Tick
  <2> HIDE DEF Flow!Cadence
  <2>0. Period \in Nat \ {0} /\ LateLimit \in Nat
    BY <1>0
  <2>1. phase' = IF phase + 1 = Period THEN 0 ELSE phase + 1
    BY <1>0, <1>8, NextTick DEF Flow!Tick
  <2>2. late' = late + 1 /\ owed' = owed + (IF phase' = 0 THEN 1 ELSE 0) /\ UNCHANGED <<pc, interval>>
    BY <1>8 DEF Flow!Tick
  <2>3. /\ pc["flow"] = "sleep" => late' = (owed' - 1) * Period + phase'
        /\ pc["flow"] \in Flow!Begun => late' = owed' * Period + phase'
    BY <1>0, <2>1, <2>2 DEF Flow!Cadence
  <2>4. /\ late' \in (-Period) .. LateLimit /\ (pc["flow"] = "sleep" => late' <= 0)
        /\ pc["flow"] \in Flow!Begun \union {"sleep"} /\ (pc["flow"] \in Flow!Begun => late' >= 0)
    BY <1>0, <2>2, <1>8 DEF Flow!Tick, Flow!Cadence
  <2>5. owed' \in Nat /\ phase' \in 0 .. (Period - 1)
    BY <1>0, <2>1, <2>2
  <2>6. pc["flow"] = "sleep" => owed' <= 1
    <3>1. ASSUME pc["flow"] = "sleep" PROVE (owed' - 1) * Period + phase' <= 0
      BY <2>3, <2>4, <3>1
    <3>2. QED
      BY <2>0, <2>5, <3>1, FewSlots
  <2>7. pc["flow"] \in Flow!Begun => owed' <= LateLimit
    <3>1. ASSUME pc["flow"] \in Flow!Begun PROVE owed' * Period + phase' <= LateLimit
      <4>1. late' = owed' * Period + phase' /\ late' <= LateLimit
        BY <2>0, <2>3, <2>4, <3>1
      <4>2. QED
        BY <4>1
    <3>2. QED
      BY <2>0, <2>5, <3>1, FewSlots
  <2>8. Flow!Cadence'
    BY <2>2, <2>3, <2>4, <2>6 DEF Flow!Cadence
  <2>9. owed' \in 0 .. (LateLimit + 1)
    BY <1>0, <2>4, <2>5, <2>6, <2>7
  <2>10. QED
    BY <1>0, <2>2, <2>4, <2>5, <2>8, <2>9
<1>9. CASE Flow!RequestInit \/ Flow!RequestAlign \/ Flow!RequestReboot
  BY <1>0, <1>9 DEF Flow!RequestInit, Flow!RequestAlign, Flow!RequestReboot
<1>10. CASE Flow!SingleStepRefused \/ Flow!SingleStep \/ Flow!SingleStepDone
  BY <1>0, <1>10 DEF Flow!SingleStepRefused, Flow!SingleStep, Flow!SingleStepDone
<1>11. CASE Flow!TestStarts \/ Flow!TestRefused \/ Flow!TestRuns \/ Flow!TestEnds
  BY <1>0, <1>11 DEF Flow!TestStarts, Flow!TestRefused, Flow!TestRuns, Flow!TestEnds
<1>12. CASE Flow!DeleteMainFlowTask \/ Flow!DestroyClient
  BY <1>0, <1>12 DEF Flow!DeleteMainFlowTask, Flow!DestroyClient
<1>13. CASE Flow!Restart
  BY <1>0, <1>13 DEF Flow!Restart
<1>14. CASE UNCHANGED Flow!vars
  BY <1>0, <1>14 DEF Flow!vars
<1> HIDE DEF Flow!Goto, Flow!Tasks, Flow!Announce, Flow!StageDone, Flow!RoundEnds, Flow!Began,
     Flow!Boot, Flow!clock, Flow!Places, Flow!Cadence, Flow!Begun, Flow!Round
<1>15. QED
  BY <1>1, <1>2, <1>3, <1>4, <1>5, <1>6, <1>7, <1>8, <1>9, <1>10, <1>11, <1>12, <1>13, <1>14
     DEF Flow!Next, Flow!FlowStep, Flow!DoInit, Flow!Request, Flow!WebStep, Flow!TestStep,
          Flow!RebootStep

\* Every step keeps the types of the rest.
LEMMA StepHolders ==
  Flow!FlowAssumption /\ Flow!Inductive /\ [Flow!Next]_(Flow!vars) =>
    /\ processing' \in Flow!Owners /\ camera' \in Flow!Owners /\ client' \in {"free", "flow"}
       /\ safe' \in BOOLEAN
             /\ cycle' \in 0 .. 1 /\ reboot' \in {"no", "requested", "deleted", "stopped"}
<1> SUFFICES ASSUME Flow!FlowAssumption, Flow!Inductive, [Flow!Next]_(Flow!vars)
             PROVE  /\ processing' \in Flow!Owners /\ camera' \in Flow!Owners /\ client' \in {"free",
                       "flow"} /\ safe' \in BOOLEAN
             /\ cycle' \in 0 .. 1 /\ reboot' \in {"no", "requested", "deleted", "stopped"}
  OBVIOUS
<1> USE DEF Flow!Announce, Flow!StageDone, Flow!RoundEnds, Flow!guards, Flow!round, Flow!pipeline,
     Flow!GuardsReturned, Flow!Round, Flow!Tasks, Flow!Owners
<1>0. /\ pc \in [Flow!Tasks -> Flow!Steps] /\ Flow!Places /\ Flow!GuardsReturned
         /\ processing \in Flow!Owners /\ camera \in Flow!Owners
      /\ client \in {"free", "flow"} /\ safe \in BOOLEAN /\ cycle \in 0 .. 1
      /\ reboot \in {"no", "requested", "deleted", "stopped"}
  BY DEF Flow!Inductive, Flow!TypeOK
<1>1. ASSUME NEW t \in {"flow", "web"}, Flow!InitBusy(t) \/ Flow!InitFlow(t)
             \/ Flow!InitCameraBusy(t) \/ Flow!InitCamera(t)
      PROVE  /\ processing' \in Flow!Owners /\ camera' \in Flow!Owners /\ client' \in {"free",
                "flow"} /\ safe' \in BOOLEAN
             /\ cycle' \in 0 .. 1 /\ reboot' \in {"no", "requested", "deleted", "stopped"}
  BY <1>0, <1>1 DEF Flow!InitBusy, Flow!InitFlow, Flow!InitCameraBusy, Flow!InitCamera
<1>2. ASSUME NEW t \in {"flow", "web"}, Flow!InitFails(t) \/ Flow!InitReads(t)
             \/ Flow!InitReboots(t) \/ Flow!ArchiveStarts(t)
      PROVE  /\ processing' \in Flow!Owners /\ camera' \in Flow!Owners /\ client' \in {"free",
                "flow"} /\ safe' \in BOOLEAN
             /\ cycle' \in 0 .. 1 /\ reboot' \in {"no", "requested", "deleted", "stopped"}
  BY <1>0, <1>2 DEF Flow!InitFails, Flow!InitReads, Flow!InitReboots, Flow!ArchiveStarts
<1>3. CASE Flow!FlowReady \/ Flow!RoundBusy \/ Flow!RoundBegins \/ Flow!RoundUnsafe \/ Flow!RoundChecked
  BY <1>0, <1>3 DEF Flow!FlowReady, Flow!RoundBusy, Flow!RoundBegins, Flow!RoundUnsafe,
       Flow!RoundChecked
<1>4. CASE Flow!StageStarts \/ Flow!RoundFinishes \/ Flow!TakeCamera
  BY <1>0, <1>4 DEF Flow!StageStarts, Flow!RoundFinishes, Flow!TakeCamera
<1>5. CASE Flow!TakeImage \/ Flow!RunStage \/ Flow!StageFails
  BY <1>0, <1>5 DEF Flow!TakeImage, Flow!RunStage, Flow!StageFails
<1>6. CASE Flow!Schedule
  BY <1>0, <1>6 DEF Flow!Schedule
<1>7. CASE Flow!ScheduleInvalid \/ Flow!Wakes \/ Flow!FlowStart
  BY <1>0, <1>7 DEF Flow!ScheduleInvalid, Flow!Wakes, Flow!FlowStart
<1>8. CASE Flow!Tick
  BY <1>0, <1>8 DEF Flow!Tick
<1>9. CASE Flow!RequestInit \/ Flow!RequestAlign \/ Flow!RequestReboot
  BY <1>0, <1>9 DEF Flow!RequestInit, Flow!RequestAlign, Flow!RequestReboot
<1>10. CASE Flow!SingleStepRefused \/ Flow!SingleStep \/ Flow!SingleStepDone
  BY <1>0, <1>10 DEF Flow!SingleStepRefused, Flow!SingleStep, Flow!SingleStepDone
<1>11. CASE Flow!TestStarts \/ Flow!TestRefused \/ Flow!TestRuns \/ Flow!TestEnds
  BY <1>0, <1>11 DEF Flow!TestStarts, Flow!TestRefused, Flow!TestRuns, Flow!TestEnds
<1>12. CASE Flow!DeleteMainFlowTask \/ Flow!DestroyClient
  BY <1>0, <1>12 DEF Flow!DeleteMainFlowTask, Flow!DestroyClient
<1>13. CASE Flow!Restart
  <2>1. /\ processing' = "free" /\ camera' = "free" /\ client' = "free" /\ safe' = FALSE /\ cycle' = 0
        /\ reboot' = "no"
    BY <1>13 DEF Flow!Restart
  <2>2. cycle' \in 0 .. 1
    BY <2>1
  <2>3. QED
    BY <2>1, <2>2, Zenon
<1>14. CASE UNCHANGED Flow!vars
  BY <1>0, <1>14 DEF Flow!vars
<1> HIDE DEF Flow!Announce, Flow!StageDone, Flow!RoundEnds, Flow!guards, Flow!round, Flow!pipeline,
     Flow!GuardsReturned, Flow!Round, Flow!Tasks, Flow!Owners
<1>15. QED
  BY <1>1, <1>2, <1>3, <1>4, <1>5, <1>6, <1>7, <1>8, <1>9, <1>10, <1>11, <1>12, <1>13, <1>14
     DEF Flow!Next, Flow!FlowStep, Flow!DoInit, Flow!Request, Flow!WebStep, Flow!TestStep,
          Flow!RebootStep

\* Every step keeps the invariant.
LEMMA FlowStepInductive ==
  Flow!FlowAssumption /\ Flow!Inductive /\ [Flow!Next]_(Flow!vars) => Flow!Inductive'
  BY StepPlaces, StepGuards, StepStages, StepOwnImage, StepCadence, StepHolders DEF Flow!Inductive,
       Flow!TypeOK

\* When the flow sleeps, the time to its slot is what the ticks of the cadence leave of it.
LEMMA InductiveSlotsKept == Flow!FlowAssumption /\ Flow!Inductive => Flow!SlotsKept
<1> SUFFICES ASSUME Flow!FlowAssumption, Flow!Inductive, pc["flow"] = "sleep"
             PROVE  late <= 0 /\ late % Period = phase /\ owed = IF late < 0 THEN 0 ELSE 1
  BY DEF Flow!SlotsKept
<1>1. /\ Period \in Nat \ {0} /\ phase \in 0 .. (Period - 1) /\ owed \in 0 .. 1 /\ late <= 0
      /\ late = (owed - 1) * Period + phase
  BY DEF Flow!Inductive, Flow!TypeOK, Flow!Cadence, Flow!FlowAssumption
<1>2. late % Period = phase
  BY <1>1, Slots
<1>3. CASE owed = 0
  BY <1>1, <1>2, <1>3
<1>4. CASE owed = 1
  BY <1>1, <1>2, <1>4
<1>5. QED
  BY <1>1, <1>3, <1>4

-----------------------------------------------------------------------------
(* The camera: pictures, light, memory and stream                          *)

\* Nobody has the camera, the light is off, the memory free.
LEMMA CameraInitInductive == Camera!CameraAssumption /\ Camera!Init => Camera!Inductive
<1> SUFFICES ASSUME Camera!CameraAssumption, Camera!Init PROVE Camera!Inductive
  OBVIOUS
<1>1. pc \in [Camera!Tasks -> Camera!Steps] /\ memory \in Camera!Memories
  BY DEF Camera!Init, Camera!Steps, Camera!Memories
<1>2. Camera!SensorType /\ light \in Camera!Lights
  BY DEF Camera!Init, Camera!SensorType, Camera!RegisterSets, Camera!Configuration,
         Camera!CameraAssumption, Camera!Lights
<1>3. Camera!TypeOK
  BY <1>1, <1>2 DEF Camera!Init, Camera!TypeOK
<1>4. Camera!Places /\ Camera!SensorConfigured
  BY DEF Camera!Init, Camera!Places, Camera!SensorConfigured, Camera!Tasks,
         Camera!Photographing, Camera!Serving
<1>5. Camera!LightAccounted
  BY DEF Camera!Init, Camera!LightAccounted, Camera!LightFor, Camera!Tasks
<1>6. Camera!MemoryKept
  BY DEF Camera!Init, Camera!MemoryKept, Camera!Tasks, Camera!Remembering
<1>7. QED
  BY <1>3, <1>4, <1>5, <1>6 DEF Camera!Inductive

\* The region stays well formed when somebody borrows it or gives it back.
LEMMA MemoryChanges ==
  ASSUME memory \in Camera!Memories, NEW who \in {"round", "web"}
  PROVE  /\ \A use \in {"TakeImage", "Aligning", "Digitization_Tensor"} :
              [use |-> use, by |-> memory.by \union {who}] \in Camera!Memories
         /\ [use |-> "", by |-> memory.by \ {who}] \in Camera!Memories
<1>1. memory.by \in SUBSET {"round", "web"}
  BY DEF Camera!Memories
<1>2. memory.by \union {who} \in SUBSET {"round", "web"}
      /\ memory.by \ {who} \in SUBSET {"round", "web"}
  BY <1>1
<1>3. QED
  BY <1>2 DEF Camera!Memories


\* A round keeps the invariant, wherever its picture, its light or its memory fails.
LEMMA CameraRoundStepKeeps ==
  ASSUME Camera!CameraAssumption, Camera!Inductive, Camera!RoundStep
  PROVE  Camera!Inductive'
<1>0. /\ Camera!TypeOK /\ Camera!Places /\ Camera!SensorConfigured /\ Camera!LightAccounted
      /\ Camera!MemoryKept
      /\ pc \in [Camera!Tasks -> Camera!Steps] /\ cc = [registers |-> cc.registers, led |-> cc.led]
      /\ memory = [use |-> memory.use, by |-> memory.by]
      /\ stream = [active |-> stream.active, open |-> stream.open, watched |-> stream.watched]
  BY DEF Camera!Inductive, Camera!TypeOK, Camera!SensorType, Camera!Configuration, Camera!Memories
<1>1. ASSUME Camera!RoundStarts PROVE Camera!Inductive'
  <2>1. pc' \in [Camera!Tasks -> Camera!Steps]
    BY <1>0, <1>1 DEF Camera!RoundStarts, Camera!Acquire, Camera!Goto, Camera!TypeOK,
         Camera!Steps
  <2>2. Camera!SensorType'
    BY <1>0, <1>1 DEF Camera!RoundStarts, Camera!Acquire, Camera!TypeOK, Camera!SensorType,
         Camera!Configuration, Camera!sensor
  <2>3. memory' = memory
    BY <1>0, <1>1 DEF Camera!RoundStarts, Camera!Acquire
  <2>4. memory' \in Camera!Memories
    BY <1>0, <2>3 DEF Camera!TypeOK
  <2>5. Camera!TypeOK'
    BY <1>0, <1>1, <2>1, <2>2, <2>4 DEF Camera!RoundStarts, Camera!Acquire,
         Camera!TypeOK, Camera!SensorType, Camera!Lights, Camera!Pictures, Camera!flash,
         Camera!CameraAssumption
  <2>6. Camera!Places'
    BY <1>0, <1>1 DEF Camera!RoundStarts, Camera!Acquire, Camera!Goto, Camera!Tasks,
         Camera!Photographing, Camera!Serving, Camera!Pictures, Camera!TypeOK, Camera!Places
  <2>7. Camera!SensorConfigured'
    BY <1>0, <1>1 DEF Camera!RoundStarts, Camera!Acquire, Camera!Goto, Camera!Tasks,
         Camera!sensor, Camera!SensorConfigured, Camera!Places, Camera!Photographing
  <2>8. Camera!LightAccounted'
    BY <1>0, <1>1 DEF Camera!RoundStarts, Camera!Acquire, Camera!Goto, Camera!Tasks,
         Camera!sensor, Camera!flash, Camera!LightAccounted, Camera!LightFor,
         Camera!LightsFirst, Camera!Places, Camera!Photographing, Camera!Serving,
         Camera!SensorConfigured
  <2>9. Camera!MemoryKept'
    BY <1>0, <1>1, <2>3 DEF Camera!RoundStarts, Camera!Acquire, Camera!Goto, Camera!Tasks,
         Camera!MemoryKept, Camera!Places, Camera!Photographing, Camera!Remembering,
         Camera!Serving
  <2>10. QED
    BY <2>5, <2>6, <2>7, <2>8, <2>9 DEF Camera!Inductive
<1>2. ASSUME Camera!RoundTimeout PROVE Camera!Inductive'
  <2>1. pc' \in [Camera!Tasks -> Camera!Steps]
    BY <1>0, <1>2 DEF Camera!RoundTimeout, Camera!Goto, Camera!TypeOK, Camera!Steps
  <2>2. Camera!SensorType'
    BY <1>0, <1>2 DEF Camera!RoundTimeout, Camera!TypeOK, Camera!SensorType,
         Camera!Configuration, Camera!sensor
  <2>3. memory' = memory
    BY <1>0, <1>2 DEF Camera!RoundTimeout
  <2>4. memory' \in Camera!Memories
    BY <1>0, <2>3 DEF Camera!TypeOK
  <2>5. Camera!TypeOK'
    BY <1>0, <1>2, <2>1, <2>2, <2>4 DEF Camera!RoundTimeout, Camera!TypeOK,
         Camera!SensorType, Camera!Lights, Camera!Pictures, Camera!flash,
         Camera!CameraAssumption
  <2>6. Camera!Places'
    BY <1>0, <1>2 DEF Camera!RoundTimeout, Camera!Goto, Camera!Tasks, Camera!Photographing,
         Camera!Serving, Camera!Pictures, Camera!TypeOK, Camera!Places
  <2>7. Camera!SensorConfigured'
    BY <1>0, <1>2 DEF Camera!RoundTimeout, Camera!Goto, Camera!Tasks, Camera!sensor,
         Camera!SensorConfigured, Camera!Places, Camera!Photographing
  <2>8. Camera!LightAccounted'
    BY <1>0, <1>2 DEF Camera!RoundTimeout, Camera!Goto, Camera!Tasks, Camera!sensor,
         Camera!flash, Camera!LightAccounted, Camera!LightFor, Camera!LightsFirst,
         Camera!Places, Camera!Photographing, Camera!Serving, Camera!SensorConfigured
  <2>9. Camera!MemoryKept'
    BY <1>0, <1>2, <2>3 DEF Camera!RoundTimeout, Camera!Goto, Camera!Tasks, Camera!MemoryKept,
         Camera!Places, Camera!Photographing, Camera!Remembering, Camera!Serving
  <2>10. QED
    BY <2>5, <2>6, <2>7, <2>8, <2>9 DEF Camera!Inductive
<1>3. ASSUME Camera!RoundReserves PROVE Camera!Inductive'
  <2>1. pc' \in [Camera!Tasks -> Camera!Steps]
    BY <1>0, <1>3 DEF Camera!RoundReserves, Camera!Reserve, Camera!Reset, Camera!Release,
         Camera!Goto, Camera!TypeOK, Camera!Steps
  <2>2. Camera!SensorType'
    BY <1>0, <1>3 DEF Camera!RoundReserves, Camera!Reserve, Camera!Reset, Camera!Release,
         Camera!TypeOK, Camera!SensorType, Camera!Configuration, Camera!sensor
  <2>3. IF memory.use # "" THEN memory' = memory
            ELSE memory' = [use |-> "TakeImage", by |-> memory.by \union {"round"}]
    BY <1>0, <1>3 DEF Camera!RoundReserves, Camera!Reserve, Camera!Reset, Camera!Release
  <2>4. memory' \in Camera!Memories
    BY <1>0, <2>3, MemoryChanges DEF Camera!TypeOK
  <2>5. Camera!TypeOK'
    BY <1>0, <1>3, <2>1, <2>2, <2>4 DEF Camera!RoundReserves, Camera!Reserve,
         Camera!Reset, Camera!Release, Camera!TypeOK, Camera!SensorType, Camera!Lights,
         Camera!Pictures, Camera!flash, Camera!CameraAssumption
  <2>6. Camera!Places'
    BY <1>0, <1>3 DEF Camera!RoundReserves, Camera!Reserve, Camera!Reset, Camera!Release,
         Camera!Goto, Camera!Tasks, Camera!Photographing, Camera!Serving, Camera!Pictures,
         Camera!TypeOK, Camera!Places
  <2>7. Camera!SensorConfigured'
    BY <1>0, <1>3 DEF Camera!RoundReserves, Camera!Reserve, Camera!Reset, Camera!Release,
         Camera!Goto, Camera!Tasks, Camera!sensor, Camera!SensorConfigured, Camera!Places,
         Camera!Photographing
  <2>8. Camera!LightAccounted'
    BY <1>0, <1>3 DEF Camera!RoundReserves, Camera!Reserve, Camera!Reset, Camera!Release,
         Camera!Goto, Camera!Tasks, Camera!sensor, Camera!flash, Camera!LightAccounted,
         Camera!LightFor, Camera!LightsFirst, Camera!Places, Camera!Photographing,
         Camera!Serving, Camera!SensorConfigured
  <2>9. Camera!MemoryKept'
    <3>1. memory.by \in SUBSET {"round", "web"}
      BY <1>0 DEF Camera!TypeOK, Camera!Memories
    <3>2. IF memory.use # "" THEN memory' = memory
             ELSE memory'.use # "" /\ memory'.by = memory.by \union {"round"}
      <4>1. CASE memory.use # ""
        BY <2>3, <4>1
      <4>2. CASE memory.use = ""
        <5>1. memory' = [use |-> "TakeImage", by |-> memory.by \union {"round"}]
          BY <2>3, <4>2
        <5>2. QED
          BY <5>1, <4>2
      <4>3. QED
        BY <4>1, <4>2
    <3>3. IF memory.use # "" THEN pc["round"] = "memory" /\ pc'["round"] = "gaveUp"
             ELSE pc'["round"] = "light"
      BY <1>0, <1>3 DEF Camera!RoundReserves, Camera!Reserve, Camera!Reset, Camera!Release,
         Camera!Goto, Camera!Tasks
    <3>4. pc'["web"] = pc["web"]
      BY <1>0, <1>3 DEF Camera!RoundReserves, Camera!Reserve, Camera!Reset, Camera!Release,
         Camera!Goto, Camera!Tasks
    <3>5. QED
      BY <1>0, <3>1, <3>2, <3>3, <3>4 DEF Camera!MemoryKept, Camera!Remembering
  <2>10. QED
    BY <2>5, <2>6, <2>7, <2>8, <2>9 DEF Camera!Inductive
<1>4. ASSUME Camera!RoundLights PROVE Camera!Inductive'
  <2>1. pc' \in [Camera!Tasks -> Camera!Steps]
    BY <1>0, <1>4 DEF Camera!RoundLights, Camera!LightOnFails, Camera!LightOff, Camera!Goto,
         Camera!TypeOK, Camera!Steps
  <2>2. Camera!SensorType'
    BY <1>0, <1>4 DEF Camera!RoundLights, Camera!LightOnFails, Camera!LightOff, Camera!TypeOK,
         Camera!SensorType, Camera!Configuration, Camera!sensor
  <2>3. memory' = memory
    BY <1>0, <1>4 DEF Camera!RoundLights, Camera!LightOnFails, Camera!LightOff
  <2>4. memory' \in Camera!Memories
    BY <1>0, <2>3 DEF Camera!TypeOK
  <2>5. Camera!TypeOK'
    BY <1>0, <1>4, <2>1, <2>2, <2>4 DEF Camera!RoundLights, Camera!LightOnFails,
         Camera!LightOff, Camera!TypeOK, Camera!SensorType, Camera!Lights, Camera!Pictures,
         Camera!flash, Camera!CameraAssumption
  <2>6. Camera!Places'
    BY <1>0, <1>4 DEF Camera!RoundLights, Camera!LightOnFails, Camera!LightOff, Camera!Goto,
         Camera!Tasks, Camera!Photographing, Camera!Serving, Camera!Pictures, Camera!TypeOK,
         Camera!Places
  <2>7. Camera!SensorConfigured'
    BY <1>0, <1>4 DEF Camera!RoundLights, Camera!LightOnFails, Camera!LightOff, Camera!Goto,
         Camera!Tasks, Camera!sensor, Camera!SensorConfigured, Camera!Places,
         Camera!Photographing
  <2>8. Camera!LightAccounted'
    BY <1>0, <1>4 DEF Camera!RoundLights, Camera!LightOnFails, Camera!LightOff, Camera!Goto,
         Camera!Tasks, Camera!sensor, Camera!flash, Camera!LightAccounted, Camera!LightFor,
         Camera!LightsFirst, Camera!Places, Camera!Photographing, Camera!Serving,
         Camera!SensorConfigured
  <2>9. Camera!MemoryKept'
    BY <1>0, <1>4, <2>3 DEF Camera!RoundLights, Camera!LightOnFails, Camera!LightOff,
         Camera!Goto, Camera!Tasks, Camera!MemoryKept, Camera!Places, Camera!Photographing,
         Camera!Remembering, Camera!Serving
  <2>10. QED
    BY <2>5, <2>6, <2>7, <2>8, <2>9 DEF Camera!Inductive
<1>5. ASSUME Camera!RoundExposes PROVE Camera!Inductive'
  <2>1. pc' \in [Camera!Tasks -> Camera!Steps]
    BY <1>0, <1>5 DEF Camera!RoundExposes, Camera!Goto, Camera!TypeOK, Camera!Steps
  <2>2. Camera!SensorType'
    BY <1>0, <1>5 DEF Camera!RoundExposes, Camera!TypeOK, Camera!SensorType,
         Camera!Configuration, Camera!sensor
  <2>3. memory' = memory
    BY <1>0, <1>5 DEF Camera!RoundExposes
  <2>4. memory' \in Camera!Memories
    BY <1>0, <2>3 DEF Camera!TypeOK
  <2>5. Camera!TypeOK'
    BY <1>0, <1>5, <2>1, <2>2, <2>4 DEF Camera!RoundExposes, Camera!TypeOK,
         Camera!SensorType, Camera!Lights, Camera!Pictures, Camera!flash,
         Camera!CameraAssumption
  <2>6. Camera!Places'
    BY <1>0, <1>5 DEF Camera!RoundExposes, Camera!Goto, Camera!Tasks, Camera!Photographing,
         Camera!Serving, Camera!Pictures, Camera!TypeOK, Camera!Places
  <2>7. Camera!SensorConfigured'
    BY <1>0, <1>5 DEF Camera!RoundExposes, Camera!Goto, Camera!Tasks, Camera!sensor,
         Camera!SensorConfigured, Camera!Places, Camera!Photographing
  <2>8. Camera!LightAccounted'
    BY <1>0, <1>5 DEF Camera!RoundExposes, Camera!Goto, Camera!Tasks, Camera!sensor,
         Camera!flash, Camera!LightAccounted, Camera!LightFor, Camera!LightsFirst,
         Camera!Places, Camera!Photographing, Camera!Serving, Camera!SensorConfigured
  <2>9. Camera!MemoryKept'
    BY <1>0, <1>5, <2>3 DEF Camera!RoundExposes, Camera!Goto, Camera!Tasks, Camera!MemoryKept,
         Camera!Places, Camera!Photographing, Camera!Remembering, Camera!Serving
  <2>10. QED
    BY <2>5, <2>6, <2>7, <2>8, <2>9 DEF Camera!Inductive
<1>6. ASSUME Camera!RoundWithoutFrame PROVE Camera!Inductive'
  <2>1. pc' \in [Camera!Tasks -> Camera!Steps]
    BY <1>0, <1>6 DEF Camera!RoundWithoutFrame, Camera!LightOff, Camera!Goto, Camera!TypeOK,
         Camera!Steps
  <2>2. Camera!SensorType'
    BY <1>0, <1>6 DEF Camera!RoundWithoutFrame, Camera!LightOff, Camera!TypeOK,
         Camera!SensorType, Camera!Configuration, Camera!sensor
  <2>3. memory' = memory
    BY <1>0, <1>6 DEF Camera!RoundWithoutFrame, Camera!LightOff
  <2>4. memory' \in Camera!Memories
    BY <1>0, <2>3 DEF Camera!TypeOK
  <2>5. Camera!TypeOK'
    BY <1>0, <1>6, <2>1, <2>2, <2>4 DEF Camera!RoundWithoutFrame,
         Camera!LightOff, Camera!TypeOK, Camera!SensorType, Camera!Lights, Camera!Pictures,
         Camera!flash, Camera!CameraAssumption
  <2>6. Camera!Places'
    BY <1>0, <1>6 DEF Camera!RoundWithoutFrame, Camera!LightOff, Camera!Goto, Camera!Tasks,
         Camera!Photographing, Camera!Serving, Camera!Pictures, Camera!TypeOK, Camera!Places
  <2>7. Camera!SensorConfigured'
    BY <1>0, <1>6 DEF Camera!RoundWithoutFrame, Camera!LightOff, Camera!Goto, Camera!Tasks,
         Camera!sensor, Camera!SensorConfigured, Camera!Places, Camera!Photographing
  <2>8. Camera!LightAccounted'
    BY <1>0, <1>6 DEF Camera!RoundWithoutFrame, Camera!LightOff, Camera!Goto, Camera!Tasks,
         Camera!sensor, Camera!flash, Camera!LightAccounted, Camera!LightFor,
         Camera!LightsFirst, Camera!Places, Camera!Photographing, Camera!Serving,
         Camera!SensorConfigured
  <2>9. Camera!MemoryKept'
    BY <1>0, <1>6, <2>3 DEF Camera!RoundWithoutFrame, Camera!LightOff, Camera!Goto,
         Camera!Tasks, Camera!MemoryKept, Camera!Places, Camera!Photographing,
         Camera!Remembering, Camera!Serving
  <2>10. QED
    BY <2>5, <2>6, <2>7, <2>8, <2>9 DEF Camera!Inductive
<1>7. ASSUME Camera!RoundDecodes PROVE Camera!Inductive'
  <2>1. pc' \in [Camera!Tasks -> Camera!Steps]
    BY <1>0, <1>7 DEF Camera!RoundDecodes, Camera!LightOff, Camera!Goto, Camera!TypeOK,
         Camera!Steps
  <2>2. Camera!SensorType'
    BY <1>0, <1>7 DEF Camera!RoundDecodes, Camera!LightOff, Camera!TypeOK, Camera!SensorType,
         Camera!Configuration, Camera!sensor
  <2>3. memory' = memory
    BY <1>0, <1>7 DEF Camera!RoundDecodes, Camera!LightOff
  <2>4. memory' \in Camera!Memories
    BY <1>0, <2>3 DEF Camera!TypeOK
  <2>5. Camera!TypeOK'
    BY <1>0, <1>7, <2>1, <2>2, <2>4 DEF Camera!RoundDecodes, Camera!LightOff,
         Camera!TypeOK, Camera!SensorType, Camera!Lights, Camera!Pictures, Camera!flash,
         Camera!CameraAssumption
  <2>6. Camera!Places'
    BY <1>0, <1>7 DEF Camera!RoundDecodes, Camera!LightOff, Camera!Goto, Camera!Tasks,
         Camera!Photographing, Camera!Serving, Camera!Pictures, Camera!TypeOK, Camera!Places
  <2>7. Camera!SensorConfigured'
    BY <1>0, <1>7 DEF Camera!RoundDecodes, Camera!LightOff, Camera!Goto, Camera!Tasks,
         Camera!sensor, Camera!SensorConfigured, Camera!Places, Camera!Photographing
  <2>8. Camera!LightAccounted'
    BY <1>0, <1>7 DEF Camera!RoundDecodes, Camera!LightOff, Camera!Goto, Camera!Tasks,
         Camera!sensor, Camera!flash, Camera!LightAccounted, Camera!LightFor,
         Camera!LightsFirst, Camera!Places, Camera!Photographing, Camera!Serving,
         Camera!SensorConfigured
  <2>9. Camera!MemoryKept'
    BY <1>0, <1>7, <2>3 DEF Camera!RoundDecodes, Camera!LightOff, Camera!Goto, Camera!Tasks,
         Camera!MemoryKept, Camera!Places, Camera!Photographing, Camera!Remembering,
         Camera!Serving
  <2>10. QED
    BY <2>5, <2>6, <2>7, <2>8, <2>9 DEF Camera!Inductive
<1>8. ASSUME Camera!RoundPictureDone PROVE Camera!Inductive'
  <2>1. pc' \in [Camera!Tasks -> Camera!Steps]
    BY <1>0, <1>8 DEF Camera!RoundPictureDone, Camera!FreeMemory, Camera!Release, Camera!Goto,
         Camera!TypeOK, Camera!Steps
  <2>2. Camera!SensorType'
    BY <1>0, <1>8 DEF Camera!RoundPictureDone, Camera!FreeMemory, Camera!Release, Camera!TypeOK,
         Camera!SensorType, Camera!Configuration, Camera!sensor
  <2>3. memory' = [use |-> "", by |-> memory.by \ {"round"}]
    BY <1>0, <1>8 DEF Camera!RoundPictureDone, Camera!FreeMemory, Camera!Release
  <2>4. memory' \in Camera!Memories
    BY <1>0, <2>3, MemoryChanges DEF Camera!TypeOK
  <2>5. Camera!TypeOK'
    BY <1>0, <1>8, <2>1, <2>2, <2>4 DEF Camera!RoundPictureDone,
         Camera!FreeMemory, Camera!Release, Camera!TypeOK, Camera!SensorType, Camera!Lights,
         Camera!Pictures, Camera!flash, Camera!CameraAssumption
  <2>6. Camera!Places'
    BY <1>0, <1>8 DEF Camera!RoundPictureDone, Camera!FreeMemory, Camera!Release, Camera!Goto,
         Camera!Tasks, Camera!Photographing, Camera!Serving, Camera!Pictures, Camera!TypeOK,
         Camera!Places
  <2>7. Camera!SensorConfigured'
    BY <1>0, <1>8 DEF Camera!RoundPictureDone, Camera!FreeMemory, Camera!Release, Camera!Goto,
         Camera!Tasks, Camera!sensor, Camera!SensorConfigured, Camera!Places,
         Camera!Photographing
  <2>8. Camera!LightAccounted'
    BY <1>0, <1>8 DEF Camera!RoundPictureDone, Camera!FreeMemory, Camera!Release, Camera!Goto,
         Camera!Tasks, Camera!sensor, Camera!flash, Camera!LightAccounted, Camera!LightFor,
         Camera!LightsFirst, Camera!Places, Camera!Photographing, Camera!Serving,
         Camera!SensorConfigured
  <2>9. Camera!MemoryKept'
    <3>1. memory.by \in SUBSET {"round", "web"}
      BY <1>0 DEF Camera!TypeOK, Camera!Memories
    <3>2. memory'.use = "" /\ memory'.by = memory.by \ {"round"}
      BY <2>3
    <3>3. pc["round"] \in {"taken", "failed"} /\ pc'["round"] \in {"align", "gaveUp"}
      BY <1>0, <1>8 DEF Camera!RoundPictureDone, Camera!FreeMemory, Camera!Release, Camera!Goto,
         Camera!Tasks
    <3>4. pc'["web"] = pc["web"]
      BY <1>0, <1>8 DEF Camera!RoundPictureDone, Camera!FreeMemory, Camera!Release, Camera!Goto,
         Camera!Tasks
    <3>5. QED
      BY <1>0, <3>1, <3>2, <3>3, <3>4 DEF Camera!MemoryKept, Camera!Remembering
  <2>10. QED
    BY <2>5, <2>6, <2>7, <2>8, <2>9 DEF Camera!Inductive
<1>9. ASSUME Camera!RoundBorrows PROVE Camera!Inductive'
  <2>1. pc' \in [Camera!Tasks -> Camera!Steps]
    BY <1>0, <1>9 DEF Camera!RoundBorrows, Camera!Reserve, Camera!Goto, Camera!TypeOK,
         Camera!Steps
  <2>2. Camera!SensorType'
    BY <1>0, <1>9 DEF Camera!RoundBorrows, Camera!Reserve, Camera!TypeOK, Camera!SensorType,
         Camera!Configuration, Camera!sensor
  <2>3. IF memory.use # "" THEN memory' = memory
            ELSE \E use \in {"Aligning", "Digitization_Tensor"} :
                   memory' = [use |-> use, by |-> memory.by \union {"round"}]
    BY <1>0, <1>9 DEF Camera!RoundBorrows, Camera!Reserve
  <2>4. memory' \in Camera!Memories
    BY <1>0, <2>3, MemoryChanges DEF Camera!TypeOK
  <2>5. Camera!TypeOK'
    BY <1>0, <1>9, <2>1, <2>2, <2>4 DEF Camera!RoundBorrows, Camera!Reserve,
         Camera!TypeOK, Camera!SensorType, Camera!Lights, Camera!Pictures, Camera!flash,
         Camera!CameraAssumption
  <2>6. Camera!Places'
    BY <1>0, <1>9 DEF Camera!RoundBorrows, Camera!Reserve, Camera!Goto, Camera!Tasks,
         Camera!Photographing, Camera!Serving, Camera!Pictures, Camera!TypeOK, Camera!Places
  <2>7. Camera!SensorConfigured'
    BY <1>0, <1>9 DEF Camera!RoundBorrows, Camera!Reserve, Camera!Goto, Camera!Tasks,
         Camera!sensor, Camera!SensorConfigured, Camera!Places, Camera!Photographing
  <2>8. Camera!LightAccounted'
    BY <1>0, <1>9 DEF Camera!RoundBorrows, Camera!Reserve, Camera!Goto, Camera!Tasks,
         Camera!sensor, Camera!flash, Camera!LightAccounted, Camera!LightFor,
         Camera!LightsFirst, Camera!Places, Camera!Photographing, Camera!Serving,
         Camera!SensorConfigured
  <2>9. Camera!MemoryKept'
    <3>1. memory.by \in SUBSET {"round", "web"}
      BY <1>0 DEF Camera!TypeOK, Camera!Memories
    <3>2. IF memory.use # "" THEN memory' = memory
             ELSE memory'.use # "" /\ memory'.by = memory.by \union {"round"}
      <4>1. CASE memory.use # ""
        BY <2>3, <4>1
      <4>2. CASE memory.use = ""
        <5>1. PICK use \in {"Aligning", "Digitization_Tensor"} :
                        memory' = [use |-> use, by |-> memory.by \union {"round"}]
          BY <2>3, <4>2
        <5>2. memory'.use = use /\ memory'.by = memory.by \union {"round"}
          BY <5>1
        <5>3. QED
          BY <5>2, <4>2
      <4>3. QED
        BY <4>1, <4>2
    <3>3. IF memory.use # "" THEN pc["round"] \in {"align", "read"} /\ pc'["round"] = "gaveUp"
             ELSE pc'["round"] \in {"aligning", "reading"}
      BY <1>0, <1>9 DEF Camera!RoundBorrows, Camera!Reserve, Camera!Goto, Camera!Tasks
    <3>4. pc'["web"] = pc["web"]
      BY <1>0, <1>9 DEF Camera!RoundBorrows, Camera!Reserve, Camera!Goto, Camera!Tasks
    <3>5. QED
      BY <1>0, <3>1, <3>2, <3>3, <3>4 DEF Camera!MemoryKept, Camera!Remembering
  <2>10. QED
    BY <2>5, <2>6, <2>7, <2>8, <2>9 DEF Camera!Inductive
<1>10. ASSUME Camera!RoundGivesBack PROVE Camera!Inductive'
  <2>1. pc' \in [Camera!Tasks -> Camera!Steps]
    BY <1>0, <1>10 DEF Camera!RoundGivesBack, Camera!FreeMemory, Camera!Goto, Camera!TypeOK,
         Camera!Steps
  <2>2. Camera!SensorType'
    BY <1>0, <1>10 DEF Camera!RoundGivesBack, Camera!FreeMemory, Camera!TypeOK,
         Camera!SensorType, Camera!Configuration, Camera!sensor
  <2>3. memory' = [use |-> "", by |-> memory.by \ {"round"}]
    BY <1>0, <1>10 DEF Camera!RoundGivesBack, Camera!FreeMemory
  <2>4. memory' \in Camera!Memories
    BY <1>0, <2>3, MemoryChanges DEF Camera!TypeOK
  <2>5. Camera!TypeOK'
    BY <1>0, <1>10, <2>1, <2>2, <2>4 DEF Camera!RoundGivesBack,
         Camera!FreeMemory, Camera!TypeOK, Camera!SensorType, Camera!Lights, Camera!Pictures,
         Camera!flash, Camera!CameraAssumption
  <2>6. Camera!Places'
    BY <1>0, <1>10 DEF Camera!RoundGivesBack, Camera!FreeMemory, Camera!Goto, Camera!Tasks,
         Camera!Photographing, Camera!Serving, Camera!Pictures, Camera!TypeOK, Camera!Places
  <2>7. Camera!SensorConfigured'
    BY <1>0, <1>10 DEF Camera!RoundGivesBack, Camera!FreeMemory, Camera!Goto, Camera!Tasks,
         Camera!sensor, Camera!SensorConfigured, Camera!Places, Camera!Photographing
  <2>8. Camera!LightAccounted'
    BY <1>0, <1>10 DEF Camera!RoundGivesBack, Camera!FreeMemory, Camera!Goto, Camera!Tasks,
         Camera!sensor, Camera!flash, Camera!LightAccounted, Camera!LightFor,
         Camera!LightsFirst, Camera!Places, Camera!Photographing, Camera!Serving,
         Camera!SensorConfigured
  <2>9. Camera!MemoryKept'
    <3>1. memory.by \in SUBSET {"round", "web"}
      BY <1>0 DEF Camera!TypeOK, Camera!Memories
    <3>2. memory'.use = "" /\ memory'.by = memory.by \ {"round"}
      BY <2>3
    <3>3. pc["round"] \in {"aligning", "reading"} /\ pc'["round"] \in {"read", "idle", "gaveUp"}
      BY <1>0, <1>10 DEF Camera!RoundGivesBack, Camera!FreeMemory, Camera!Goto, Camera!Tasks
    <3>4. pc'["web"] = pc["web"]
      BY <1>0, <1>10 DEF Camera!RoundGivesBack, Camera!FreeMemory, Camera!Goto, Camera!Tasks
    <3>5. QED
      BY <1>0, <3>1, <3>2, <3>3, <3>4 DEF Camera!MemoryKept, Camera!Remembering
  <2>10. QED
    BY <2>5, <2>6, <2>7, <2>8, <2>9 DEF Camera!Inductive
<1>11. QED
  BY <1>1, <1>2, <1>3, <1>4, <1>5, <1>6, <1>7, <1>8, <1>9, <1>10 DEF Camera!RoundStep

\* So does the request that has the camera.
LEMMA CameraWebStepKeeps ==
  ASSUME Camera!CameraAssumption, Camera!Inductive, Camera!WebStep
  PROVE  Camera!Inductive'
<1>0. /\ Camera!TypeOK /\ Camera!Places /\ Camera!SensorConfigured /\ Camera!LightAccounted
      /\ Camera!MemoryKept
      /\ pc \in [Camera!Tasks -> Camera!Steps] /\ cc = [registers |-> cc.registers, led |-> cc.led]
      /\ memory = [use |-> memory.use, by |-> memory.by]
      /\ stream = [active |-> stream.active, open |-> stream.open, watched |-> stream.watched]
  BY DEF Camera!Inductive, Camera!TypeOK, Camera!SensorType, Camera!Configuration, Camera!Memories
<1>1. ASSUME Camera!PictureLights PROVE Camera!Inductive'
  <2>1. pc' \in [Camera!Tasks -> Camera!Steps]
    BY <1>0, <1>1 DEF Camera!PictureLights, Camera!LightsFirst, Camera!LightOn,
         Camera!LightOnFails, Camera!LightOff, Camera!Goto, Camera!TypeOK, Camera!Steps
  <2>2. Camera!SensorType'
    BY <1>0, <1>1 DEF Camera!PictureLights, Camera!LightsFirst, Camera!LightOn,
         Camera!LightOnFails, Camera!LightOff, Camera!TypeOK, Camera!SensorType,
         Camera!Configuration, Camera!sensor
  <2>3. memory' = memory
    BY <1>0, <1>1 DEF Camera!PictureLights, Camera!LightsFirst, Camera!LightOn,
         Camera!LightOnFails, Camera!LightOff
  <2>4. memory' \in Camera!Memories
    BY <1>0, <2>3 DEF Camera!TypeOK
  <2>5. Camera!TypeOK'
    BY <1>0, <1>1, <2>1, <2>2, <2>4 DEF Camera!PictureLights, Camera!LightsFirst,
         Camera!LightOn, Camera!LightOnFails, Camera!LightOff, Camera!TypeOK, Camera!SensorType,
         Camera!Lights, Camera!Pictures, Camera!flash, Camera!CameraAssumption
  <2>6. Camera!Places'
    BY <1>0, <1>1 DEF Camera!PictureLights, Camera!LightsFirst, Camera!LightOn,
         Camera!LightOnFails, Camera!LightOff, Camera!Goto, Camera!Tasks, Camera!Photographing,
         Camera!Serving, Camera!Pictures, Camera!TypeOK, Camera!Places
  <2>7. Camera!SensorConfigured'
    BY <1>0, <1>1 DEF Camera!PictureLights, Camera!LightsFirst, Camera!LightOn,
         Camera!LightOnFails, Camera!LightOff, Camera!Goto, Camera!Tasks, Camera!sensor,
         Camera!SensorConfigured, Camera!Places, Camera!Photographing
  <2>8. Camera!LightAccounted'
    BY <1>0, <1>1 DEF Camera!PictureLights, Camera!LightsFirst, Camera!LightOn,
         Camera!LightOnFails, Camera!LightOff, Camera!Goto, Camera!Tasks, Camera!sensor,
         Camera!flash, Camera!LightAccounted, Camera!LightFor, Camera!Places,
         Camera!Photographing, Camera!Serving, Camera!SensorConfigured
  <2>9. Camera!MemoryKept'
    BY <1>0, <1>1, <2>3 DEF Camera!PictureLights, Camera!LightsFirst, Camera!LightOn,
         Camera!LightOnFails, Camera!LightOff, Camera!Goto, Camera!Tasks, Camera!MemoryKept,
         Camera!Places, Camera!Photographing, Camera!Remembering, Camera!Serving
  <2>10. QED
    BY <2>5, <2>6, <2>7, <2>8, <2>9 DEF Camera!Inductive
<1>2. ASSUME Camera!PictureExposed PROVE Camera!Inductive'
  <2>1. pc' \in [Camera!Tasks -> Camera!Steps]
    BY <1>0, <1>2 DEF Camera!PictureExposed, Camera!LightOff, Camera!Goto, Camera!TypeOK,
         Camera!Steps
  <2>2. Camera!SensorType'
    BY <1>0, <1>2 DEF Camera!PictureExposed, Camera!LightOff, Camera!TypeOK, Camera!SensorType,
         Camera!Configuration, Camera!sensor
  <2>3. memory' = memory
    BY <1>0, <1>2 DEF Camera!PictureExposed, Camera!LightOff
  <2>4. memory' \in Camera!Memories
    BY <1>0, <2>3 DEF Camera!TypeOK
  <2>5. Camera!TypeOK'
    BY <1>0, <1>2, <2>1, <2>2, <2>4 DEF Camera!PictureExposed, Camera!LightOff,
         Camera!TypeOK, Camera!SensorType, Camera!Lights, Camera!Pictures, Camera!flash,
         Camera!CameraAssumption
  <2>6. Camera!Places'
    BY <1>0, <1>2 DEF Camera!PictureExposed, Camera!LightOff, Camera!Goto, Camera!Tasks,
         Camera!Photographing, Camera!Serving, Camera!Pictures, Camera!TypeOK, Camera!Places
  <2>7. Camera!SensorConfigured'
    BY <1>0, <1>2 DEF Camera!PictureExposed, Camera!LightOff, Camera!Goto, Camera!Tasks,
         Camera!sensor, Camera!SensorConfigured, Camera!Places, Camera!Photographing
  <2>8. Camera!LightAccounted'
    BY <1>0, <1>2 DEF Camera!PictureExposed, Camera!LightOff, Camera!Goto, Camera!Tasks,
         Camera!sensor, Camera!flash, Camera!LightAccounted, Camera!LightFor,
         Camera!LightsFirst, Camera!Places, Camera!Photographing, Camera!Serving,
         Camera!SensorConfigured
  <2>9. Camera!MemoryKept'
    BY <1>0, <1>2, <2>3 DEF Camera!PictureExposed, Camera!LightOff, Camera!Goto, Camera!Tasks,
         Camera!MemoryKept, Camera!Places, Camera!Photographing, Camera!Remembering,
         Camera!Serving
  <2>10. QED
    BY <2>5, <2>6, <2>7, <2>8, <2>9 DEF Camera!Inductive
<1>3. ASSUME Camera!PictureSent PROVE Camera!Inductive'
  <2>1. pc' \in [Camera!Tasks -> Camera!Steps]
    BY <1>0, <1>3 DEF Camera!PictureSent, Camera!LightsFirst, Camera!LightOff, Camera!Goto,
         Camera!TypeOK, Camera!Steps
  <2>2. Camera!SensorType'
    BY <1>0, <1>3 DEF Camera!PictureSent, Camera!LightsFirst, Camera!LightOff, Camera!TypeOK,
         Camera!SensorType, Camera!Configuration, Camera!sensor
  <2>3. memory' = memory
    BY <1>0, <1>3 DEF Camera!PictureSent, Camera!LightsFirst, Camera!LightOff
  <2>4. memory' \in Camera!Memories
    BY <1>0, <2>3 DEF Camera!TypeOK
  <2>5. Camera!TypeOK'
    BY <1>0, <1>3, <2>1, <2>2, <2>4 DEF Camera!PictureSent, Camera!LightsFirst,
         Camera!LightOff, Camera!TypeOK, Camera!SensorType, Camera!Lights, Camera!Pictures,
         Camera!flash, Camera!CameraAssumption
  <2>6. Camera!Places'
    BY <1>0, <1>3 DEF Camera!PictureSent, Camera!LightsFirst, Camera!LightOff, Camera!Goto,
         Camera!Tasks, Camera!Photographing, Camera!Serving, Camera!Pictures, Camera!TypeOK,
         Camera!Places
  <2>7. Camera!SensorConfigured'
    BY <1>0, <1>3 DEF Camera!PictureSent, Camera!LightsFirst, Camera!LightOff, Camera!Goto,
         Camera!Tasks, Camera!sensor, Camera!SensorConfigured, Camera!Places,
         Camera!Photographing
  <2>8. Camera!LightAccounted'
    BY <1>0, <1>3 DEF Camera!PictureSent, Camera!LightsFirst, Camera!LightOff, Camera!Goto,
         Camera!Tasks, Camera!sensor, Camera!flash, Camera!LightAccounted, Camera!LightFor,
         Camera!Places, Camera!Photographing, Camera!Serving, Camera!SensorConfigured
  <2>9. Camera!MemoryKept'
    BY <1>0, <1>3, <2>3 DEF Camera!PictureSent, Camera!LightsFirst, Camera!LightOff,
         Camera!Goto, Camera!Tasks, Camera!MemoryKept, Camera!Places, Camera!Photographing,
         Camera!Remembering, Camera!Serving
  <2>10. QED
    BY <2>5, <2>6, <2>7, <2>8, <2>9 DEF Camera!Inductive
<1>4. ASSUME Camera!PictureDone PROVE Camera!Inductive'
  <2>1. pc' \in [Camera!Tasks -> Camera!Steps]
    BY <1>0, <1>4 DEF Camera!PictureDone, Camera!LightOff, Camera!Release, Camera!Goto,
         Camera!TypeOK, Camera!Steps
  <2>2. Camera!SensorType'
    BY <1>0, <1>4 DEF Camera!PictureDone, Camera!LightOff, Camera!Release, Camera!TypeOK,
         Camera!SensorType, Camera!Configuration, Camera!sensor
  <2>3. memory' = memory
    BY <1>0, <1>4 DEF Camera!PictureDone, Camera!LightOff, Camera!Release
  <2>4. memory' \in Camera!Memories
    BY <1>0, <2>3 DEF Camera!TypeOK
  <2>5. Camera!TypeOK'
    BY <1>0, <1>4, <2>1, <2>2, <2>4 DEF Camera!PictureDone, Camera!LightOff,
         Camera!Release, Camera!TypeOK, Camera!SensorType, Camera!Lights, Camera!Pictures,
         Camera!flash, Camera!CameraAssumption
  <2>6. Camera!Places'
    BY <1>0, <1>4 DEF Camera!PictureDone, Camera!LightOff, Camera!Release, Camera!Goto,
         Camera!Tasks, Camera!Photographing, Camera!Serving, Camera!Pictures, Camera!TypeOK,
         Camera!Places
  <2>7. Camera!SensorConfigured'
    BY <1>0, <1>4 DEF Camera!PictureDone, Camera!LightOff, Camera!Release, Camera!Goto,
         Camera!Tasks, Camera!sensor, Camera!SensorConfigured, Camera!Places,
         Camera!Photographing
  <2>8. Camera!LightAccounted'
    BY <1>0, <1>4 DEF Camera!PictureDone, Camera!LightOff, Camera!Release, Camera!Goto,
         Camera!Tasks, Camera!sensor, Camera!flash, Camera!LightAccounted, Camera!LightFor,
         Camera!LightsFirst, Camera!Places, Camera!Photographing, Camera!Serving,
         Camera!SensorConfigured
  <2>9. Camera!MemoryKept'
    BY <1>0, <1>4, <2>3 DEF Camera!PictureDone, Camera!LightOff, Camera!Release, Camera!Goto,
         Camera!Tasks, Camera!MemoryKept, Camera!Places, Camera!Photographing,
         Camera!Remembering, Camera!Serving
  <2>10. QED
    BY <2>5, <2>6, <2>7, <2>8, <2>9 DEF Camera!Inductive
<1>5. ASSUME Camera!CutDone PROVE Camera!Inductive'
  <2>1. pc' \in [Camera!Tasks -> Camera!Steps]
    BY <1>0, <1>5 DEF Camera!CutDone, Camera!FreeMemory, Camera!Release, Camera!Goto,
         Camera!TypeOK, Camera!Steps
  <2>2. Camera!SensorType'
    BY <1>0, <1>5 DEF Camera!CutDone, Camera!FreeMemory, Camera!Release, Camera!TypeOK,
         Camera!SensorType, Camera!Configuration, Camera!sensor
  <2>3. memory' = [use |-> "", by |-> memory.by \ {"web"}]
    BY <1>0, <1>5 DEF Camera!CutDone, Camera!FreeMemory, Camera!Release
  <2>4. memory' \in Camera!Memories
    BY <1>0, <2>3, MemoryChanges DEF Camera!TypeOK
  <2>5. Camera!TypeOK'
    BY <1>0, <1>5, <2>1, <2>2, <2>4 DEF Camera!CutDone, Camera!FreeMemory,
         Camera!Release, Camera!TypeOK, Camera!SensorType, Camera!Lights, Camera!Pictures,
         Camera!flash, Camera!CameraAssumption
  <2>6. Camera!Places'
    BY <1>0, <1>5 DEF Camera!CutDone, Camera!FreeMemory, Camera!Release, Camera!Goto,
         Camera!Tasks, Camera!Photographing, Camera!Serving, Camera!Pictures, Camera!TypeOK,
         Camera!Places
  <2>7. Camera!SensorConfigured'
    BY <1>0, <1>5 DEF Camera!CutDone, Camera!FreeMemory, Camera!Release, Camera!Goto,
         Camera!Tasks, Camera!sensor, Camera!SensorConfigured, Camera!Places,
         Camera!Photographing
  <2>8. Camera!LightAccounted'
    BY <1>0, <1>5 DEF Camera!CutDone, Camera!FreeMemory, Camera!Release, Camera!Goto,
         Camera!Tasks, Camera!sensor, Camera!flash, Camera!LightAccounted, Camera!LightFor,
         Camera!LightsFirst, Camera!Places, Camera!Photographing, Camera!Serving,
         Camera!SensorConfigured
  <2>9. Camera!MemoryKept'
    <3>1. memory.by \in SUBSET {"round", "web"}
      BY <1>0 DEF Camera!TypeOK, Camera!Memories
    <3>2. memory'.use = "" /\ memory'.by = memory.by \ {"web"}
      BY <2>3
    <3>3. pc["web"] = "cut" /\ pc'["web"] = "idle"
      BY <1>0, <1>5 DEF Camera!CutDone, Camera!FreeMemory, Camera!Release, Camera!Goto,
         Camera!Tasks
    <3>4. pc'["round"] = pc["round"]
      BY <1>0, <1>5 DEF Camera!CutDone, Camera!FreeMemory, Camera!Release, Camera!Goto,
         Camera!Tasks
    <3>5. QED
      BY <1>0, <3>1, <3>2, <3>3, <3>4 DEF Camera!MemoryKept, Camera!Remembering
  <2>10. QED
    BY <2>5, <2>6, <2>7, <2>8, <2>9 DEF Camera!Inductive
<1>6. QED
  BY <1>1, <1>2, <1>3, <1>4, <1>5 DEF Camera!WebStep

\* So does a request that takes it, for itself or for a moment.
LEMMA CameraRequestsKeeps ==
  ASSUME Camera!CameraAssumption, Camera!Inductive, Camera!Requests
  PROVE  Camera!Inductive'
<1>0. /\ Camera!TypeOK /\ Camera!Places /\ Camera!SensorConfigured /\ Camera!LightAccounted
      /\ Camera!MemoryKept
      /\ pc \in [Camera!Tasks -> Camera!Steps] /\ cc = [registers |-> cc.registers, led |-> cc.led]
      /\ memory = [use |-> memory.use, by |-> memory.by]
      /\ stream = [active |-> stream.active, open |-> stream.open, watched |-> stream.watched]
  BY DEF Camera!Inductive, Camera!TypeOK, Camera!SensorType, Camera!Configuration, Camera!Memories
<1>1. ASSUME Camera!SwitchLight PROVE Camera!Inductive'
  <2>1. pc' \in [Camera!Tasks -> Camera!Steps]
    BY <1>0, <1>1 DEF Camera!SwitchLight, Camera!Request, Camera!LightOff, Camera!Goto,
         Camera!TypeOK, Camera!Steps
  <2>2. Camera!SensorType'
    BY <1>0, <1>1 DEF Camera!SwitchLight, Camera!Request, Camera!LightOff, Camera!TypeOK,
         Camera!SensorType, Camera!Configuration, Camera!sensor
  <2>3. memory' = memory
    BY <1>0, <1>1 DEF Camera!SwitchLight, Camera!Request, Camera!LightOff
  <2>4. memory' \in Camera!Memories
    BY <1>0, <2>3 DEF Camera!TypeOK
  <2>5. Camera!TypeOK'
    BY <1>0, <1>1, <2>1, <2>2, <2>4 DEF Camera!SwitchLight, Camera!Request,
         Camera!LightOff, Camera!TypeOK, Camera!SensorType, Camera!Lights, Camera!Pictures,
         Camera!flash, Camera!CameraAssumption
  <2>6. Camera!Places'
    BY <1>0, <1>1 DEF Camera!SwitchLight, Camera!Request, Camera!LightOff, Camera!Goto,
         Camera!Tasks, Camera!Photographing, Camera!Serving, Camera!Pictures, Camera!TypeOK,
         Camera!Places
  <2>7. Camera!SensorConfigured'
    BY <1>0, <1>1 DEF Camera!SwitchLight, Camera!Request, Camera!LightOff, Camera!Goto,
         Camera!Tasks, Camera!sensor, Camera!SensorConfigured, Camera!Places,
         Camera!Photographing
  <2>8. Camera!LightAccounted'
    BY <1>0, <1>1 DEF Camera!SwitchLight, Camera!Request, Camera!LightOff, Camera!Goto,
         Camera!Tasks, Camera!sensor, Camera!flash, Camera!LightAccounted, Camera!LightFor,
         Camera!LightsFirst, Camera!Places, Camera!Photographing, Camera!Serving,
         Camera!SensorConfigured
  <2>9. Camera!MemoryKept'
    BY <1>0, <1>1, <2>3 DEF Camera!SwitchLight, Camera!Request, Camera!LightOff, Camera!Goto,
         Camera!Tasks, Camera!MemoryKept, Camera!Places, Camera!Photographing,
         Camera!Remembering, Camera!Serving
  <2>10. QED
    BY <2>5, <2>6, <2>7, <2>8, <2>9 DEF Camera!Inductive
<1>2. ASSUME Camera!TestTake PROVE Camera!Inductive'
  <2>1. pc' \in [Camera!Tasks -> Camera!Steps]
    BY <1>0, <1>2 DEF Camera!TestTake, Camera!Request, Camera!Goto, Camera!TypeOK, Camera!Steps
  <2>2. Camera!SensorType'
    BY <1>0, <1>2 DEF Camera!TestTake, Camera!Request, Camera!TypeOK, Camera!SensorType,
         Camera!Configuration, Camera!sensor
  <2>3. memory' = memory
    BY <1>0, <1>2 DEF Camera!TestTake, Camera!Request
  <2>4. memory' \in Camera!Memories
    BY <1>0, <2>3 DEF Camera!TypeOK
  <2>5. Camera!TypeOK'
    BY <1>0, <1>2, <2>1, <2>2, <2>4 DEF Camera!TestTake, Camera!Request,
         Camera!TypeOK, Camera!SensorType, Camera!Lights, Camera!Pictures, Camera!flash,
         Camera!CameraAssumption
  <2>6. Camera!Places'
    BY <1>0, <1>2 DEF Camera!TestTake, Camera!Request, Camera!Goto, Camera!Tasks,
         Camera!Photographing, Camera!Serving, Camera!Pictures, Camera!TypeOK, Camera!Places
  <2>7. Camera!SensorConfigured'
    BY <1>0, <1>2 DEF Camera!TestTake, Camera!Request, Camera!Goto, Camera!Tasks, Camera!sensor,
         Camera!SensorConfigured, Camera!Places, Camera!Photographing
  <2>8. Camera!LightAccounted'
    BY <1>0, <1>2 DEF Camera!TestTake, Camera!Request, Camera!Goto, Camera!Tasks, Camera!sensor,
         Camera!flash, Camera!LightAccounted, Camera!LightFor, Camera!LightsFirst,
         Camera!Places, Camera!Photographing, Camera!Serving, Camera!SensorConfigured
  <2>9. Camera!MemoryKept'
    BY <1>0, <1>2, <2>3 DEF Camera!TestTake, Camera!Request, Camera!Goto, Camera!Tasks,
         Camera!MemoryKept, Camera!Places, Camera!Photographing, Camera!Remembering,
         Camera!Serving
  <2>10. QED
    BY <2>5, <2>6, <2>7, <2>8, <2>9 DEF Camera!Inductive
<1>3. ASSUME Camera!CamSettings PROVE Camera!Inductive'
  <2>1. pc' \in [Camera!Tasks -> Camera!Steps]
    BY <1>0, <1>3 DEF Camera!CamSettings, Camera!Request, Camera!Goto, Camera!TypeOK,
         Camera!Steps
  <2>2. Camera!SensorType'
    BY <1>0, <1>3 DEF Camera!CamSettings, Camera!Request, Camera!TypeOK, Camera!SensorType,
         Camera!Configuration, Camera!sensor
  <2>3. memory' = memory
    BY <1>0, <1>3 DEF Camera!CamSettings, Camera!Request
  <2>4. memory' \in Camera!Memories
    BY <1>0, <2>3 DEF Camera!TypeOK
  <2>5. Camera!TypeOK'
    BY <1>0, <1>3, <2>1, <2>2, <2>4 DEF Camera!CamSettings, Camera!Request,
         Camera!TypeOK, Camera!SensorType, Camera!Lights, Camera!Pictures, Camera!flash,
         Camera!CameraAssumption
  <2>6. Camera!Places'
    BY <1>0, <1>3 DEF Camera!CamSettings, Camera!Request, Camera!Goto, Camera!Tasks,
         Camera!Photographing, Camera!Serving, Camera!Pictures, Camera!TypeOK, Camera!Places
  <2>7. Camera!SensorConfigured'
    BY <1>0, <1>3 DEF Camera!CamSettings, Camera!Request, Camera!Goto, Camera!Tasks,
         Camera!sensor, Camera!SensorConfigured, Camera!Places, Camera!Photographing
  <2>8. Camera!LightAccounted'
    BY <1>0, <1>3 DEF Camera!CamSettings, Camera!Request, Camera!Goto, Camera!Tasks,
         Camera!sensor, Camera!flash, Camera!LightAccounted, Camera!LightFor,
         Camera!LightsFirst, Camera!Places, Camera!Photographing, Camera!Serving,
         Camera!SensorConfigured
  <2>9. Camera!MemoryKept'
    BY <1>0, <1>3, <2>3 DEF Camera!CamSettings, Camera!Request, Camera!Goto, Camera!Tasks,
         Camera!MemoryKept, Camera!Places, Camera!Photographing, Camera!Remembering,
         Camera!Serving
  <2>10. QED
    BY <2>5, <2>6, <2>7, <2>8, <2>9 DEF Camera!Inductive
<1>4. ASSUME Camera!ReadParameter PROVE Camera!Inductive'
  <2>1. pc' \in [Camera!Tasks -> Camera!Steps]
    BY <1>0, <1>4 DEF Camera!ReadParameter, Camera!Request, Camera!Goto, Camera!TypeOK,
         Camera!Steps
  <2>2. Camera!SensorType'
    BY <1>0, <1>4 DEF Camera!ReadParameter, Camera!Request, Camera!TypeOK, Camera!SensorType,
         Camera!Configuration, Camera!sensor, Camera!RegisterSets
  <2>3. memory' = memory
    BY <1>0, <1>4 DEF Camera!ReadParameter, Camera!Request
  <2>4. memory' \in Camera!Memories
    BY <1>0, <2>3 DEF Camera!TypeOK
  <2>5. Camera!TypeOK'
    BY <1>0, <1>4, <2>1, <2>2, <2>4 DEF Camera!ReadParameter, Camera!Request,
         Camera!TypeOK, Camera!SensorType, Camera!Lights, Camera!Pictures, Camera!flash,
         Camera!CameraAssumption
  <2>6. Camera!Places'
    BY <1>0, <1>4 DEF Camera!ReadParameter, Camera!Request, Camera!Goto, Camera!Tasks,
         Camera!Photographing, Camera!Serving, Camera!Pictures, Camera!TypeOK, Camera!Places
  <2>7. Camera!SensorConfigured'
    BY <1>0, <1>4 DEF Camera!ReadParameter, Camera!Request, Camera!Goto, Camera!Tasks,
         Camera!sensor, Camera!SensorConfigured, Camera!Places, Camera!Photographing
  <2>8. Camera!LightAccounted'
    BY <1>0, <1>4 DEF Camera!ReadParameter, Camera!Request, Camera!Goto, Camera!Tasks,
         Camera!sensor, Camera!flash, Camera!LightAccounted, Camera!LightFor,
         Camera!LightsFirst, Camera!Places, Camera!Photographing, Camera!Serving,
         Camera!SensorConfigured
  <2>9. Camera!MemoryKept'
    BY <1>0, <1>4, <2>3 DEF Camera!ReadParameter, Camera!Request, Camera!Goto, Camera!Tasks,
         Camera!MemoryKept, Camera!Places, Camera!Photographing, Camera!Remembering,
         Camera!Serving
  <2>10. QED
    BY <2>5, <2>6, <2>7, <2>8, <2>9 DEF Camera!Inductive
<1>5. ASSUME Camera!SaveStreamIntensity PROVE Camera!Inductive'
  <2>1. pc' \in [Camera!Tasks -> Camera!Steps]
    BY <1>0, <1>5 DEF Camera!SaveStreamIntensity, Camera!Request, Camera!Goto, Camera!TypeOK,
         Camera!Steps
  <2>2. Camera!SensorType'
    BY <1>0, <1>5 DEF Camera!SaveStreamIntensity, Camera!Request, Camera!TypeOK,
         Camera!SensorType, Camera!Configuration, Camera!sensor
  <2>3. memory' = memory
    BY <1>0, <1>5 DEF Camera!SaveStreamIntensity, Camera!Request
  <2>4. memory' \in Camera!Memories
    BY <1>0, <2>3 DEF Camera!TypeOK
  <2>5. Camera!TypeOK'
    BY <1>0, <1>5, <2>1, <2>2, <2>4 DEF Camera!SaveStreamIntensity,
         Camera!Request, Camera!TypeOK, Camera!SensorType, Camera!Lights, Camera!Pictures,
         Camera!flash, Camera!CameraAssumption
  <2>6. Camera!Places'
    BY <1>0, <1>5 DEF Camera!SaveStreamIntensity, Camera!Request, Camera!Goto, Camera!Tasks,
         Camera!Photographing, Camera!Serving, Camera!Pictures, Camera!TypeOK, Camera!Places
  <2>7. Camera!SensorConfigured'
    BY <1>0, <1>5 DEF Camera!SaveStreamIntensity, Camera!Request, Camera!Goto, Camera!Tasks,
         Camera!sensor, Camera!SensorConfigured, Camera!Places, Camera!Photographing
  <2>8. Camera!LightAccounted'
    BY <1>0, <1>5 DEF Camera!SaveStreamIntensity, Camera!Request, Camera!Goto, Camera!Tasks,
         Camera!sensor, Camera!flash, Camera!LightAccounted, Camera!LightFor,
         Camera!LightsFirst, Camera!Places, Camera!Photographing, Camera!Serving,
         Camera!SensorConfigured
  <2>9. Camera!MemoryKept'
    BY <1>0, <1>5, <2>3 DEF Camera!SaveStreamIntensity, Camera!Request, Camera!Goto,
         Camera!Tasks, Camera!MemoryKept, Camera!Places, Camera!Photographing,
         Camera!Remembering, Camera!Serving
  <2>10. QED
    BY <2>5, <2>6, <2>7, <2>8, <2>9 DEF Camera!Inductive
<1>6. ASSUME Camera!CutReference PROVE Camera!Inductive'
  <2>1. pc' \in [Camera!Tasks -> Camera!Steps]
    BY <1>0, <1>6 DEF Camera!CutReference, Camera!Acquire, Camera!Reserve, Camera!Goto,
         Camera!TypeOK, Camera!Steps
  <2>2. Camera!SensorType'
    BY <1>0, <1>6 DEF Camera!CutReference, Camera!Acquire, Camera!Reserve, Camera!TypeOK,
         Camera!SensorType, Camera!Configuration, Camera!sensor
  <2>3. memory.use = "" /\ memory' = [use |-> "TakeImage", by |-> memory.by \union {"web"}]
    BY <1>0, <1>6 DEF Camera!CutReference, Camera!Acquire, Camera!Reserve
  <2>4. memory' \in Camera!Memories
    BY <1>0, <2>3, MemoryChanges DEF Camera!TypeOK
  <2>5. Camera!TypeOK'
    BY <1>0, <1>6, <2>1, <2>2, <2>4 DEF Camera!CutReference, Camera!Acquire,
         Camera!Reserve, Camera!TypeOK, Camera!SensorType, Camera!Lights, Camera!Pictures,
         Camera!flash, Camera!CameraAssumption
  <2>6. Camera!Places'
    BY <1>0, <1>6 DEF Camera!CutReference, Camera!Acquire, Camera!Reserve, Camera!Goto,
         Camera!Tasks, Camera!Photographing, Camera!Serving, Camera!Pictures, Camera!TypeOK,
         Camera!Places
  <2>7. Camera!SensorConfigured'
    BY <1>0, <1>6 DEF Camera!CutReference, Camera!Acquire, Camera!Reserve, Camera!Goto,
         Camera!Tasks, Camera!sensor, Camera!SensorConfigured, Camera!Places,
         Camera!Photographing
  <2>8. Camera!LightAccounted'
    BY <1>0, <1>6 DEF Camera!CutReference, Camera!Acquire, Camera!Reserve, Camera!Goto,
         Camera!Tasks, Camera!sensor, Camera!flash, Camera!LightAccounted, Camera!LightFor,
         Camera!LightsFirst, Camera!Places, Camera!Photographing, Camera!Serving,
         Camera!SensorConfigured
  <2>9. Camera!MemoryKept'
    <3>1. memory.by \in SUBSET {"round", "web"}
      BY <1>0 DEF Camera!TypeOK, Camera!Memories
    <3>2. memory.use = "" /\ memory'.use # "" /\ memory'.by = memory.by \union {"web"}
      BY <2>3
    <3>3. pc'["web"] = "cut"
      BY <1>0, <1>6 DEF Camera!CutReference, Camera!Acquire, Camera!Reserve, Camera!Goto,
         Camera!Tasks
    <3>4. pc'["round"] = pc["round"]
      BY <1>0, <1>6 DEF Camera!CutReference, Camera!Acquire, Camera!Reserve, Camera!Goto,
         Camera!Tasks
    <3>5. QED
      BY <1>0, <3>1, <3>2, <3>3, <3>4 DEF Camera!MemoryKept, Camera!Remembering
  <2>10. QED
    BY <2>5, <2>6, <2>7, <2>8, <2>9 DEF Camera!Inductive
<1>7. ASSUME NEW what \in Camera!Pictures, Camera!RequestPicture(what) PROVE Camera!Inductive'
  <2>1. pc' \in [Camera!Tasks -> Camera!Steps]
    BY <1>0, <1>7 DEF Camera!RequestPicture, Camera!Acquire, Camera!Reset, Camera!Goto,
         Camera!TypeOK, Camera!Steps
  <2>2. Camera!SensorType'
    BY <1>0, <1>7 DEF Camera!RequestPicture, Camera!Acquire, Camera!Reset, Camera!TypeOK,
         Camera!SensorType, Camera!Configuration, Camera!sensor
  <2>3. memory' = memory
    BY <1>0, <1>7 DEF Camera!RequestPicture, Camera!Acquire, Camera!Reset
  <2>4. memory' \in Camera!Memories
    BY <1>0, <2>3 DEF Camera!TypeOK
  <2>5. Camera!TypeOK'
    BY <1>0, <1>7, <2>1, <2>2, <2>4 DEF Camera!RequestPicture, Camera!Acquire,
         Camera!Reset, Camera!TypeOK, Camera!SensorType, Camera!Lights, Camera!Pictures,
         Camera!flash, Camera!CameraAssumption
  <2>6. Camera!Places'
    BY <1>0, <1>7 DEF Camera!RequestPicture, Camera!Acquire, Camera!Reset, Camera!Goto,
         Camera!Tasks, Camera!Photographing, Camera!Serving, Camera!Pictures, Camera!TypeOK,
         Camera!Places
  <2>7. Camera!SensorConfigured'
    BY <1>0, <1>7 DEF Camera!RequestPicture, Camera!Acquire, Camera!Reset, Camera!Goto,
         Camera!Tasks, Camera!sensor, Camera!SensorConfigured, Camera!Places,
         Camera!Photographing
  <2>8. Camera!LightAccounted'
    BY <1>0, <1>7 DEF Camera!RequestPicture, Camera!Acquire, Camera!Reset, Camera!Goto,
         Camera!Tasks, Camera!sensor, Camera!flash, Camera!LightAccounted, Camera!LightFor,
         Camera!LightsFirst, Camera!Places, Camera!Photographing, Camera!Serving,
         Camera!SensorConfigured
  <2>9. Camera!MemoryKept'
    BY <1>0, <1>7, <2>3 DEF Camera!RequestPicture, Camera!Acquire, Camera!Reset, Camera!Goto,
         Camera!Tasks, Camera!MemoryKept, Camera!Places, Camera!Photographing,
         Camera!Remembering, Camera!Serving
  <2>10. QED
    BY <2>5, <2>6, <2>7, <2>8, <2>9 DEF Camera!Inductive
<1>8. QED
  BY <1>1, <1>2, <1>3, <1>4, <1>5, <1>6, <1>7 DEF Camera!Requests

\* So does the worker of the stream.
LEMMA CameraStreamStepKeeps ==
  ASSUME Camera!CameraAssumption, Camera!Inductive, Camera!StreamStep
  PROVE  Camera!Inductive'
<1>0. /\ Camera!TypeOK /\ Camera!Places /\ Camera!SensorConfigured /\ Camera!LightAccounted
      /\ Camera!MemoryKept
      /\ pc \in [Camera!Tasks -> Camera!Steps] /\ cc = [registers |-> cc.registers, led |-> cc.led]
      /\ memory = [use |-> memory.use, by |-> memory.by]
      /\ stream = [active |-> stream.active, open |-> stream.open, watched |-> stream.watched]
  BY DEF Camera!Inductive, Camera!TypeOK, Camera!SensorType, Camera!Configuration, Camera!Memories
<1>1. ASSUME Camera!StreamPicture PROVE Camera!Inductive'
  <2>1. pc' \in [Camera!Tasks -> Camera!Steps]
    BY <1>0, <1>1 DEF Camera!StreamPicture, Camera!Reset, Camera!Goto, Camera!TypeOK,
         Camera!Steps
  <2>2. Camera!SensorType'
    BY <1>0, <1>1 DEF Camera!StreamPicture, Camera!Reset, Camera!TypeOK, Camera!SensorType,
         Camera!Configuration, Camera!sensor
  <2>3. memory' = memory
    BY <1>0, <1>1 DEF Camera!StreamPicture, Camera!Reset
  <2>4. memory' \in Camera!Memories
    BY <1>0, <2>3 DEF Camera!TypeOK
  <2>5. Camera!TypeOK'
    BY <1>0, <1>1, <2>1, <2>2, <2>4 DEF Camera!StreamPicture, Camera!Reset,
         Camera!TypeOK, Camera!SensorType, Camera!Lights, Camera!Pictures, Camera!flash,
         Camera!CameraAssumption
  <2>6. Camera!Places'
    BY <1>0, <1>1 DEF Camera!StreamPicture, Camera!Reset, Camera!Goto, Camera!Tasks,
         Camera!Photographing, Camera!Serving, Camera!Pictures, Camera!TypeOK, Camera!Places
  <2>7. Camera!SensorConfigured'
    BY <1>0, <1>1 DEF Camera!StreamPicture, Camera!Reset, Camera!Goto, Camera!Tasks,
         Camera!sensor, Camera!SensorConfigured, Camera!Places, Camera!Photographing
  <2>8. Camera!LightAccounted'
    BY <1>0, <1>1 DEF Camera!StreamPicture, Camera!Reset, Camera!Goto, Camera!Tasks,
         Camera!sensor, Camera!flash, Camera!LightAccounted, Camera!LightFor,
         Camera!LightsFirst, Camera!Places, Camera!Photographing, Camera!Serving,
         Camera!SensorConfigured
  <2>9. Camera!MemoryKept'
    BY <1>0, <1>1, <2>3 DEF Camera!StreamPicture, Camera!Reset, Camera!Goto, Camera!Tasks,
         Camera!MemoryKept, Camera!Places, Camera!Photographing, Camera!Remembering,
         Camera!Serving
  <2>10. QED
    BY <2>5, <2>6, <2>7, <2>8, <2>9 DEF Camera!Inductive
<1>2. ASSUME Camera!StreamTimeout PROVE Camera!Inductive'
  <2>1. pc' \in [Camera!Tasks -> Camera!Steps]
    BY <1>0, <1>2 DEF Camera!StreamTimeout, Camera!Goto, Camera!TypeOK, Camera!Steps
  <2>2. Camera!SensorType'
    BY <1>0, <1>2 DEF Camera!StreamTimeout, Camera!TypeOK, Camera!SensorType,
         Camera!Configuration, Camera!sensor
  <2>3. memory' = memory
    BY <1>0, <1>2 DEF Camera!StreamTimeout
  <2>4. memory' \in Camera!Memories
    BY <1>0, <2>3 DEF Camera!TypeOK
  <2>5. Camera!TypeOK'
    BY <1>0, <1>2, <2>1, <2>2, <2>4 DEF Camera!StreamTimeout, Camera!TypeOK,
         Camera!SensorType, Camera!Lights, Camera!Pictures, Camera!flash,
         Camera!CameraAssumption
  <2>6. Camera!Places'
    BY <1>0, <1>2 DEF Camera!StreamTimeout, Camera!Goto, Camera!Tasks, Camera!Photographing,
         Camera!Serving, Camera!Pictures, Camera!TypeOK, Camera!Places
  <2>7. Camera!SensorConfigured'
    BY <1>0, <1>2 DEF Camera!StreamTimeout, Camera!Goto, Camera!Tasks, Camera!sensor,
         Camera!SensorConfigured, Camera!Places, Camera!Photographing
  <2>8. Camera!LightAccounted'
    BY <1>0, <1>2 DEF Camera!StreamTimeout, Camera!Goto, Camera!Tasks, Camera!sensor,
         Camera!flash, Camera!LightAccounted, Camera!LightFor, Camera!LightsFirst,
         Camera!Places, Camera!Photographing, Camera!Serving, Camera!SensorConfigured
  <2>9. Camera!MemoryKept'
    BY <1>0, <1>2, <2>3 DEF Camera!StreamTimeout, Camera!Goto, Camera!Tasks, Camera!MemoryKept,
         Camera!Places, Camera!Photographing, Camera!Remembering, Camera!Serving
  <2>10. QED
    BY <2>5, <2>6, <2>7, <2>8, <2>9 DEF Camera!Inductive
<1>3. ASSUME Camera!StreamSends PROVE Camera!Inductive'
  <2>1. pc' \in [Camera!Tasks -> Camera!Steps]
    BY <1>0, <1>3 DEF Camera!StreamSends, Camera!Goto, Camera!TypeOK, Camera!Steps
  <2>2. Camera!SensorType'
    BY <1>0, <1>3 DEF Camera!StreamSends, Camera!TypeOK, Camera!SensorType,
         Camera!Configuration, Camera!sensor
  <2>3. memory' = memory
    BY <1>0, <1>3 DEF Camera!StreamSends
  <2>4. memory' \in Camera!Memories
    BY <1>0, <2>3 DEF Camera!TypeOK
  <2>5. Camera!TypeOK'
    BY <1>0, <1>3, <2>1, <2>2, <2>4 DEF Camera!StreamSends, Camera!TypeOK,
         Camera!SensorType, Camera!Lights, Camera!Pictures, Camera!flash,
         Camera!CameraAssumption
  <2>6. Camera!Places'
    BY <1>0, <1>3 DEF Camera!StreamSends, Camera!Goto, Camera!Tasks, Camera!Photographing,
         Camera!Serving, Camera!Pictures, Camera!TypeOK, Camera!Places
  <2>7. Camera!SensorConfigured'
    BY <1>0, <1>3 DEF Camera!StreamSends, Camera!Goto, Camera!Tasks, Camera!sensor,
         Camera!SensorConfigured, Camera!Places, Camera!Photographing
  <2>8. Camera!LightAccounted'
    BY <1>0, <1>3 DEF Camera!StreamSends, Camera!Goto, Camera!Tasks, Camera!sensor,
         Camera!flash, Camera!LightAccounted, Camera!LightFor, Camera!LightsFirst,
         Camera!Places, Camera!Photographing, Camera!Serving, Camera!SensorConfigured
  <2>9. Camera!MemoryKept'
    BY <1>0, <1>3, <2>3 DEF Camera!StreamSends, Camera!Goto, Camera!Tasks, Camera!MemoryKept,
         Camera!Places, Camera!Photographing, Camera!Remembering, Camera!Serving
  <2>10. QED
    BY <2>5, <2>6, <2>7, <2>8, <2>9 DEF Camera!Inductive
<1>4. ASSUME Camera!StreamCompletes PROVE Camera!Inductive'
  <2>1. pc' \in [Camera!Tasks -> Camera!Steps]
    BY <1>0, <1>4 DEF Camera!StreamCompletes, Camera!Goto, Camera!TypeOK, Camera!Steps
  <2>2. Camera!SensorType'
    BY <1>0, <1>4 DEF Camera!StreamCompletes, Camera!TypeOK, Camera!SensorType,
         Camera!Configuration, Camera!sensor
  <2>3. memory' = memory
    BY <1>0, <1>4 DEF Camera!StreamCompletes
  <2>4. memory' \in Camera!Memories
    BY <1>0, <2>3 DEF Camera!TypeOK
  <2>5. Camera!TypeOK'
    BY <1>0, <1>4, <2>1, <2>2, <2>4 DEF Camera!StreamCompletes, Camera!TypeOK,
         Camera!SensorType, Camera!Lights, Camera!Pictures, Camera!flash,
         Camera!CameraAssumption
  <2>6. Camera!Places'
    BY <1>0, <1>4 DEF Camera!StreamCompletes, Camera!Goto, Camera!Tasks, Camera!Photographing,
         Camera!Serving, Camera!Pictures, Camera!TypeOK, Camera!Places
  <2>7. Camera!SensorConfigured'
    BY <1>0, <1>4 DEF Camera!StreamCompletes, Camera!Goto, Camera!Tasks, Camera!sensor,
         Camera!SensorConfigured, Camera!Places, Camera!Photographing
  <2>8. Camera!LightAccounted'
    BY <1>0, <1>4 DEF Camera!StreamCompletes, Camera!Goto, Camera!Tasks, Camera!sensor,
         Camera!flash, Camera!LightAccounted, Camera!LightFor, Camera!LightsFirst,
         Camera!Places, Camera!Photographing, Camera!Serving, Camera!SensorConfigured
  <2>9. Camera!MemoryKept'
    BY <1>0, <1>4, <2>3 DEF Camera!StreamCompletes, Camera!Goto, Camera!Tasks,
         Camera!MemoryKept, Camera!Places, Camera!Photographing, Camera!Remembering,
         Camera!Serving
  <2>10. QED
    BY <2>5, <2>6, <2>7, <2>8, <2>9 DEF Camera!Inductive
<1>5. ASSUME Camera!StreamCloses PROVE Camera!Inductive'
  <2>1. pc' \in [Camera!Tasks -> Camera!Steps]
    BY <1>0, <1>5 DEF Camera!StreamCloses, Camera!Goto, Camera!TypeOK, Camera!Steps
  <2>2. Camera!SensorType'
    BY <1>0, <1>5 DEF Camera!StreamCloses, Camera!TypeOK, Camera!SensorType,
         Camera!Configuration, Camera!sensor
  <2>3. memory' = memory
    BY <1>0, <1>5 DEF Camera!StreamCloses
  <2>4. memory' \in Camera!Memories
    BY <1>0, <2>3 DEF Camera!TypeOK
  <2>5. Camera!TypeOK'
    BY <1>0, <1>5, <2>1, <2>2, <2>4 DEF Camera!StreamCloses, Camera!TypeOK,
         Camera!SensorType, Camera!Lights, Camera!Pictures, Camera!flash,
         Camera!CameraAssumption
  <2>6. Camera!Places'
    BY <1>0, <1>5 DEF Camera!StreamCloses, Camera!Goto, Camera!Tasks, Camera!Photographing,
         Camera!Serving, Camera!Pictures, Camera!TypeOK, Camera!Places
  <2>7. Camera!SensorConfigured'
    BY <1>0, <1>5 DEF Camera!StreamCloses, Camera!Goto, Camera!Tasks, Camera!sensor,
         Camera!SensorConfigured, Camera!Places, Camera!Photographing
  <2>8. Camera!LightAccounted'
    BY <1>0, <1>5 DEF Camera!StreamCloses, Camera!Goto, Camera!Tasks, Camera!sensor,
         Camera!flash, Camera!LightAccounted, Camera!LightFor, Camera!LightsFirst,
         Camera!Places, Camera!Photographing, Camera!Serving, Camera!SensorConfigured
  <2>9. Camera!MemoryKept'
    BY <1>0, <1>5, <2>3 DEF Camera!StreamCloses, Camera!Goto, Camera!Tasks, Camera!MemoryKept,
         Camera!Places, Camera!Photographing, Camera!Remembering, Camera!Serving
  <2>10. QED
    BY <2>5, <2>6, <2>7, <2>8, <2>9 DEF Camera!Inductive
<1>6. QED
  BY <1>1, <1>2, <1>3, <1>4, <1>5 DEF Camera!StreamStep

\* A stream begins when there is none, and its viewer leaves at any time.
LEMMA CameraViewersKeep ==
  ASSUME Camera!CameraAssumption, Camera!Inductive, Camera!StreamStarts \/ Camera!ViewerLeaves
  PROVE  Camera!Inductive'
<1>0. /\ Camera!TypeOK /\ Camera!Places /\ Camera!SensorConfigured /\ Camera!LightAccounted
      /\ Camera!MemoryKept
      /\ pc \in [Camera!Tasks -> Camera!Steps] /\ cc = [registers |-> cc.registers, led |-> cc.led]
      /\ memory = [use |-> memory.use, by |-> memory.by]
      /\ stream = [active |-> stream.active, open |-> stream.open, watched |-> stream.watched]
  BY DEF Camera!Inductive, Camera!TypeOK, Camera!SensorType, Camera!Configuration, Camera!Memories
<1>1. ASSUME Camera!StreamStarts PROVE Camera!Inductive'
  <2>1. pc' \in [Camera!Tasks -> Camera!Steps]
    BY <1>0, <1>1 DEF Camera!StreamStarts, Camera!Goto, Camera!TypeOK, Camera!Steps
  <2>2. Camera!SensorType'
    BY <1>0, <1>1 DEF Camera!StreamStarts, Camera!TypeOK, Camera!SensorType,
         Camera!Configuration, Camera!sensor
  <2>3. memory' = memory
    BY <1>0, <1>1 DEF Camera!StreamStarts
  <2>4. memory' \in Camera!Memories
    BY <1>0, <2>3 DEF Camera!TypeOK
  <2>. stream' \in [active : BOOLEAN, open : BOOLEAN, watched : BOOLEAN]
    <3>1. stream' = stream \/ stream' = [active |-> TRUE, open |-> TRUE, watched |-> TRUE]
      BY <1>1 DEF Camera!StreamStarts
    <3>2. stream \in [active : BOOLEAN, open : BOOLEAN, watched : BOOLEAN]
      BY <1>0 DEF Camera!TypeOK
    <3>3. [active |-> TRUE, open |-> TRUE, watched |-> TRUE] \in
            [active : BOOLEAN, open : BOOLEAN, watched : BOOLEAN]
      OBVIOUS
    <3>4. CASE stream' = stream
      BY <3>2, <3>4
    <3>5. CASE stream' = [active |-> TRUE, open |-> TRUE, watched |-> TRUE]
      BY <3>3, <3>5, Zenon
    <3>6. QED
      BY <3>1, <3>4, <3>5
  <2>5. Camera!TypeOK'
    BY <1>0, <1>1, <2>1, <2>2, <2>4 DEF Camera!StreamStarts, Camera!TypeOK,
         Camera!SensorType, Camera!Lights, Camera!Pictures, Camera!flash,
         Camera!CameraAssumption
  <2>6. Camera!Places'
    BY <1>0, <1>1 DEF Camera!StreamStarts, Camera!Goto, Camera!Tasks, Camera!Photographing,
         Camera!Serving, Camera!Pictures, Camera!TypeOK, Camera!Places
  <2>7. Camera!SensorConfigured'
    BY <1>0, <1>1 DEF Camera!StreamStarts, Camera!Goto, Camera!Tasks, Camera!sensor,
         Camera!SensorConfigured, Camera!Places, Camera!Photographing
  <2>8. Camera!LightAccounted'
    BY <1>0, <1>1 DEF Camera!StreamStarts, Camera!Goto, Camera!Tasks, Camera!sensor,
         Camera!flash, Camera!LightAccounted, Camera!LightFor, Camera!LightsFirst,
         Camera!Places, Camera!Photographing, Camera!Serving, Camera!SensorConfigured
  <2>9. Camera!MemoryKept'
    BY <1>0, <1>1, <2>3 DEF Camera!StreamStarts, Camera!Goto, Camera!Tasks, Camera!MemoryKept,
         Camera!Places, Camera!Photographing, Camera!Remembering, Camera!Serving
  <2>10. QED
    BY <2>5, <2>6, <2>7, <2>8, <2>9 DEF Camera!Inductive
<1>2. ASSUME Camera!ViewerLeaves PROVE Camera!Inductive'
  <2>1. pc' \in [Camera!Tasks -> Camera!Steps]
    BY <1>0, <1>2 DEF Camera!ViewerLeaves, Camera!Goto, Camera!TypeOK, Camera!Steps
  <2>2. Camera!SensorType'
    BY <1>0, <1>2 DEF Camera!ViewerLeaves, Camera!TypeOK, Camera!SensorType,
         Camera!Configuration, Camera!sensor
  <2>3. memory' = memory
    BY <1>0, <1>2 DEF Camera!ViewerLeaves
  <2>4. memory' \in Camera!Memories
    BY <1>0, <2>3 DEF Camera!TypeOK
  <2>5. Camera!TypeOK'
    BY <1>0, <1>2, <2>1, <2>2, <2>4 DEF Camera!ViewerLeaves, Camera!TypeOK,
         Camera!SensorType, Camera!Lights, Camera!Pictures, Camera!flash,
         Camera!CameraAssumption
  <2>6. Camera!Places'
    BY <1>0, <1>2 DEF Camera!ViewerLeaves, Camera!Goto, Camera!Tasks, Camera!Photographing,
         Camera!Serving, Camera!Pictures, Camera!TypeOK, Camera!Places
  <2>7. Camera!SensorConfigured'
    BY <1>0, <1>2 DEF Camera!ViewerLeaves, Camera!Goto, Camera!Tasks, Camera!sensor,
         Camera!SensorConfigured, Camera!Places, Camera!Photographing
  <2>8. Camera!LightAccounted'
    BY <1>0, <1>2 DEF Camera!ViewerLeaves, Camera!Goto, Camera!Tasks, Camera!sensor,
         Camera!flash, Camera!LightAccounted, Camera!LightFor, Camera!LightsFirst,
         Camera!Places, Camera!Photographing, Camera!Serving, Camera!SensorConfigured
  <2>9. Camera!MemoryKept'
    BY <1>0, <1>2, <2>3 DEF Camera!ViewerLeaves, Camera!Goto, Camera!Tasks, Camera!MemoryKept,
         Camera!Places, Camera!Photographing, Camera!Remembering, Camera!Serving
  <2>10. QED
    BY <2>5, <2>6, <2>7, <2>8, <2>9 DEF Camera!Inductive
<1>3. QED
  BY <1>1, <1>2

\* Each step, and a step of others.
LEMMA CameraStepInductive ==
  Camera!CameraAssumption /\ Camera!Inductive /\ [Camera!Next]_(Camera!vars) => Camera!Inductive'
<1> SUFFICES ASSUME Camera!CameraAssumption, Camera!Inductive, [Camera!Next]_(Camera!vars)
             PROVE  Camera!Inductive'
  OBVIOUS
<1>1. CASE Camera!Next
  BY <1>1, CameraRoundStepKeeps, CameraRequestsKeeps, CameraWebStepKeeps, CameraStreamStepKeeps,
     CameraViewersKeep DEF Camera!Next
<1>2. CASE UNCHANGED Camera!vars
  <2>0. UNCHANGED <<camera, pc, registers, led, cc, changed, config, delayed, light, burning,
                    frame, job, stream, memory>>
    BY <1>2 DEF Camera!vars, Camera!sensor, Camera!flash
  <2>1. Camera!TypeOK'
    BY <2>0 DEF Camera!Inductive, Camera!TypeOK, Camera!SensorType, Camera!Configuration, Camera!Lights
  <2>2. Camera!Places' /\ Camera!SensorConfigured'
    BY <2>0 DEF Camera!Inductive, Camera!Places, Camera!SensorConfigured
  <2>3. Camera!LightAccounted' /\ Camera!MemoryKept'
    BY <2>0 DEF Camera!Inductive, Camera!LightAccounted, Camera!LightFor,
         Camera!LightsFirst, Camera!MemoryKept
  <2>4. QED
    BY <2>1, <2>2, <2>3 DEF Camera!Inductive
<1>3. QED
  BY <1>1, <1>2

\* What the invariant says of the pictures, the light, the memory and the stream.
LEMMA InductiveCamera ==
  Camera!Inductive => /\ Camera!RoundPictureConfigured /\ Camera!NothingLeftBehind
                      /\ Camera!MemoryExclusive /\ Camera!StreamClosed
<1> SUFFICES ASSUME Camera!Inductive
             PROVE  /\ Camera!RoundPictureConfigured /\ Camera!NothingLeftBehind
                    /\ Camera!MemoryExclusive /\ Camera!StreamClosed
  OBVIOUS
<1>1. Camera!RoundPictureConfigured
  BY DEF Camera!Inductive, Camera!RoundPictureConfigured, Camera!SensorConfigured,
       Camera!LightAccounted
<1>2. Camera!NothingLeftBehind
  BY DEF Camera!Inductive, Camera!NothingLeftBehind, Camera!Places, Camera!LightAccounted,
       Camera!LightFor, Camera!Photographing, Camera!TypeOK
<1>3. Camera!MemoryExclusive
  <2>1. memory.by \in SUBSET {"round", "web"}
    BY DEF Camera!Inductive, Camera!TypeOK, Camera!Memories
  <2>2. memory.by \in {{}, {"round"}, {"web"}, {"round", "web"}}
    BY <2>1
  <2>3. QED
    BY <2>2 DEF Camera!Inductive, Camera!MemoryKept, Camera!MemoryExclusive
<1>4. Camera!StreamClosed
  BY DEF Camera!Inductive, Camera!Places, Camera!StreamClosed
<1>5. QED
  BY <1>1, <1>2, <1>3, <1>4

-----------------------------------------------------------------------------
(* The start: what was read of wlan.ini                                    *)

\* The card of a new device has no file that was not closed.
LEMMA StartupInitInductive == Starts!StartupAssumption /\ Starts!Init => Starts!Inductive
<1> SUFFICES ASSUME Starts!StartupAssumption, Starts!Init PROVE Starts!Inductive
  OBVIOUS
<1>0. [host |-> FirstHost, level |-> Absent] \in Starts!Inis
  BY DEF Starts!StartupAssumption, Starts!Inis
<1>1. Starts!TypeOK
  <2>1. ini \in Starts!Inis \union {Absent} /\ losses \in 0 .. MaxLosses
    BY <1>0 DEF Starts!StartupAssumption, Starts!Init
  <2>2. start \in Starts!Starting /\ flags = {} /\ refused = {}
    BY DEF Starts!Init, Starts!Starting
  <2>3. {draft, uploaded, cut} \subseteq BOOLEAN
    BY DEF Starts!Init
  <2>4. QED
    BY <2>1, <2>2, <2>3 DEF Starts!Init, Starts!TypeOK
<1>2. Starts!Rewritten /\ Starts!TornForAReason /\ Starts!ReadIsOnCard
  BY DEF Starts!StartupAssumption, Starts!Init, Starts!Rewritten, Starts!TornForAReason,
       Starts!ReadIsOnCard, Starts!Networks
<1>3. QED
  BY <1>1, <1>2 DEF Starts!Inductive


\* The steps of a start, of which those that write wlan.ini say so until they end.
LEMMA StartupStartStepKeeps ==
  ASSUME Starts!StartupAssumption, Starts!Inductive, Starts!StartStep
  PROVE  Starts!Inductive'
<1>0. Starts!TypeOK /\ Starts!Rewritten /\ Starts!TornForAReason /\ Starts!ReadIsOnCard
  BY DEF Starts!Inductive
<1>1. ASSUME Starts!StorageFails PROVE Starts!Inductive'
  <2>1. Starts!TypeOK'
    BY <1>0, <1>1 DEF Starts!StorageFails, Starts!Going, Starts!files, Starts!TypeOK,
         Starts!Starting, Starts!Rest, Starts!InSetup
  <2>2. Starts!Rewritten' /\ Starts!TornForAReason' /\ Starts!ReadIsOnCard'
    BY <1>0, <1>1 DEF Starts!StorageFails, Starts!Going, Starts!files, Starts!TypeOK,
         Starts!Rewritten, Starts!TornForAReason, Starts!ReadIsOnCard
  <2>3. QED
    BY <2>1, <2>2 DEF Starts!Inductive
<1>2. ASSUME Starts!Init_NVS_SDCard PROVE Starts!Inductive'
  <2>1. Starts!TypeOK'
    BY <1>0, <1>2 DEF Starts!Init_NVS_SDCard, Starts!Going, Starts!files, Starts!TypeOK,
         Starts!Starting, Starts!Rest, Starts!InSetup
  <2>2. Starts!Rewritten' /\ Starts!TornForAReason' /\ Starts!ReadIsOnCard'
    BY <1>0, <1>2 DEF Starts!Init_NVS_SDCard, Starts!Going, Starts!files, Starts!TypeOK,
         Starts!Rewritten, Starts!TornForAReason, Starts!ReadIsOnCard
  <2>3. QED
    BY <2>1, <2>2 DEF Starts!Inductive
<1>3. ASSUME Starts!SDCardCheckRW PROVE Starts!Inductive'
  <2>1. Starts!TypeOK'
    BY <1>0, <1>3 DEF Starts!SDCardCheckRW, Starts!Flagging, Starts!files, Starts!TypeOK,
         Starts!Starting, Starts!Rest, Starts!InSetup
  <2>2. Starts!Rewritten' /\ Starts!TornForAReason' /\ Starts!ReadIsOnCard'
    BY <1>0, <1>3 DEF Starts!SDCardCheckRW, Starts!Flagging, Starts!files, Starts!TypeOK,
         Starts!Rewritten, Starts!TornForAReason, Starts!ReadIsOnCard
  <2>3. QED
    BY <2>1, <2>2 DEF Starts!Inductive
<1>4. ASSUME Starts!CheckHardware PROVE Starts!Inductive'
  <2>1. Starts!TypeOK'
    BY <1>0, <1>4 DEF Starts!CheckHardware, Starts!Flagging, Starts!files, Starts!TypeOK,
         Starts!Starting, Starts!Rest, Starts!InSetup
  <2>2. Starts!Rewritten' /\ Starts!TornForAReason' /\ Starts!ReadIsOnCard'
    BY <1>0, <1>4 DEF Starts!CheckHardware, Starts!Flagging, Starts!files, Starts!TypeOK,
         Starts!Rewritten, Starts!TornForAReason, Starts!ReadIsOnCard
  <2>3. QED
    BY <2>1, <2>2 DEF Starts!Inductive
<1>5. ASSUME Starts!InitializeBootBundle PROVE Starts!Inductive'
  <2>1. Starts!TypeOK'
    BY <1>0, <1>5 DEF Starts!InitializeBootBundle, Starts!Flagging, Starts!files, Starts!TypeOK,
         Starts!Starting, Starts!Rest, Starts!InSetup
  <2>2. Starts!Rewritten' /\ Starts!TornForAReason' /\ Starts!ReadIsOnCard'
    BY <1>0, <1>5 DEF Starts!InitializeBootBundle, Starts!Flagging, Starts!files, Starts!TypeOK,
         Starts!Rewritten, Starts!TornForAReason, Starts!ReadIsOnCard
  <2>3. QED
    BY <2>1, <2>2 DEF Starts!Inductive
<1>6. ASSUME Starts!SeedSkips PROVE Starts!Inductive'
  <2>1. Starts!TypeOK'
    BY <1>0, <1>6 DEF Starts!SeedSkips, Starts!Going, Starts!files, Starts!TypeOK,
         Starts!Starting, Starts!Rest, Starts!InSetup
  <2>2. Starts!Rewritten' /\ Starts!TornForAReason' /\ Starts!ReadIsOnCard'
    BY <1>0, <1>6 DEF Starts!SeedSkips, Starts!Going, Starts!files, Starts!TypeOK,
         Starts!Rewritten, Starts!TornForAReason, Starts!ReadIsOnCard
  <2>3. QED
    BY <2>1, <2>2 DEF Starts!Inductive
<1>7. ASSUME Starts!SeedOpens PROVE Starts!Inductive'
  <2>1. Starts!TypeOK'
    BY <1>0, <1>7 DEF Starts!SeedOpens, Starts!Going, Starts!TypeOK, Starts!Starting, Starts!Rest,
         Starts!InSetup
  <2>2. Starts!Rewritten' /\ Starts!TornForAReason' /\ Starts!ReadIsOnCard'
    BY <1>0, <1>7 DEF Starts!SeedOpens, Starts!Going, Starts!TypeOK, Starts!Rewritten,
         Starts!TornForAReason, Starts!ReadIsOnCard
  <2>3. QED
    BY <2>1, <2>2 DEF Starts!Inductive
<1>8. ASSUME Starts!SeedPublishes PROVE Starts!Inductive'
  <2>1. Starts!TypeOK'
    BY <1>0, <1>8 DEF Starts!SeedPublishes, Starts!Going, Starts!TypeOK, Starts!Starting,
         Starts!Rest, Starts!InSetup, Starts!Inis, Starts!Networks, Starts!StartupAssumption
  <2>2. Starts!Rewritten' /\ Starts!TornForAReason' /\ Starts!ReadIsOnCard'
    BY <1>0, <1>8 DEF Starts!SeedPublishes, Starts!Going, Starts!TypeOK, Starts!Rewritten,
         Starts!TornForAReason, Starts!ReadIsOnCard
  <2>3. QED
    BY <2>1, <2>2 DEF Starts!Inductive
<1>9. ASSUME Starts!SeedFails PROVE Starts!Inductive'
  <2>1. Starts!TypeOK'
    BY <1>0, <1>9 DEF Starts!SeedFails, Starts!Going, Starts!files, Starts!TypeOK,
         Starts!Starting, Starts!Rest, Starts!InSetup
  <2>2. Starts!Rewritten' /\ Starts!TornForAReason' /\ Starts!ReadIsOnCard'
    BY <1>0, <1>9 DEF Starts!SeedFails, Starts!Going, Starts!files, Starts!TypeOK,
         Starts!Rewritten, Starts!TornForAReason, Starts!ReadIsOnCard
  <2>3. QED
    BY <2>1, <2>2 DEF Starts!Inductive
<1>10. ASSUME Starts!CheckStartAPMode PROVE Starts!Inductive'
  <2>1. Starts!TypeOK'
    BY <1>0, <1>10 DEF Starts!CheckStartAPMode, Starts!files, Starts!TypeOK, Starts!Starting,
         Starts!Rest, Starts!InSetup
  <2>2. Starts!Rewritten' /\ Starts!TornForAReason' /\ Starts!ReadIsOnCard'
    BY <1>0, <1>10 DEF Starts!CheckStartAPMode, Starts!files, Starts!TypeOK, Starts!Rewritten,
         Starts!TornForAReason, Starts!ReadIsOnCard
  <2>3. QED
    BY <2>1, <2>2 DEF Starts!Inductive
<1>11. ASSUME Starts!SDCardCheckFolderFilePresence PROVE Starts!Inductive'
  <2>1. Starts!TypeOK'
    BY <1>0, <1>11 DEF Starts!SDCardCheckFolderFilePresence, Starts!Flagging, Starts!files,
         Starts!TypeOK, Starts!Starting, Starts!Rest, Starts!InSetup
  <2>2. Starts!Rewritten' /\ Starts!TornForAReason' /\ Starts!ReadIsOnCard'
    BY <1>0, <1>11 DEF Starts!SDCardCheckFolderFilePresence, Starts!Flagging, Starts!files,
         Starts!TypeOK, Starts!Rewritten, Starts!TornForAReason, Starts!ReadIsOnCard
  <2>3. QED
    BY <2>1, <2>2 DEF Starts!Inductive
<1>12. ASSUME Starts!LoadWlanFromFile PROVE Starts!Inductive'
  <2>1. Starts!TypeOK'
    BY <1>0, <1>12 DEF Starts!LoadWlanFromFile, Starts!files, Starts!TypeOK, Starts!Starting,
         Starts!Rest, Starts!InSetup, Starts!Inis, Starts!Networks, Starts!StartupAssumption
  <2>2. Starts!Rewritten' /\ Starts!TornForAReason' /\ Starts!ReadIsOnCard'
    BY <1>0, <1>12 DEF Starts!LoadWlanFromFile, Starts!files, Starts!TypeOK, Starts!Rewritten,
         Starts!TornForAReason, Starts!ReadIsOnCard, Starts!Networks
  <2>3. QED
    BY <2>1, <2>2 DEF Starts!Inductive
<1>13. ASSUME Starts!StartFlow PROVE Starts!Inductive'
  <2>1. Starts!TypeOK'
    BY <1>0, <1>13 DEF Starts!StartFlow, Starts!files, Starts!TypeOK, Starts!Starting,
         Starts!Rest, Starts!InSetup
  <2>2. Starts!Rewritten' /\ Starts!TornForAReason' /\ Starts!ReadIsOnCard'
    BY <1>0, <1>13 DEF Starts!StartFlow, Starts!files, Starts!TypeOK, Starts!Rewritten,
         Starts!TornForAReason, Starts!ReadIsOnCard
  <2>3. QED
    BY <2>1, <2>2 DEF Starts!Inductive
<1>14. ASSUME Starts!ChangeHostName PROVE Starts!Inductive'
  <2>1. Starts!TypeOK'
    BY <1>0, <1>14 DEF Starts!ChangeHostName, Starts!ChangeSetting, Starts!Asks, Starts!TypeOK,
         Starts!Starting, Starts!Rest, Starts!InSetup, Starts!Inis, Starts!Networks,
         Starts!StartupAssumption
  <2>2. Starts!Rewritten' /\ Starts!TornForAReason' /\ Starts!ReadIsOnCard'
    <3>1. wlan \in Starts!Networks /\ ini.host \in Hosts /\ rewrite' = [wlan EXCEPT !.host = ini.host]
      BY <1>0, <1>14 DEF Starts!ChangeHostName, Starts!ChangeSetting, Starts!Asks, Starts!TypeOK,
           Starts!Inis
    <3>2. rewrite' \in Starts!Networks
      BY <3>1 DEF Starts!Networks
    <3>3. start' = "rewriting"
      BY <1>0, <1>14 DEF Starts!ChangeHostName, Starts!ChangeSetting, Starts!Asks
    <3>4. QED
      BY <3>2, <3>3 DEF Starts!Rewritten, Starts!TornForAReason, Starts!ReadIsOnCard
  <2>3. QED
    BY <2>1, <2>2 DEF Starts!Inductive
<1>15. ASSUME Starts!ChangeRSSIThreshold PROVE Starts!Inductive'
  <2>1. Starts!TypeOK'
    BY <1>0, <1>15 DEF Starts!ChangeRSSIThreshold, Starts!ChangeSetting, Starts!Asks,
         Starts!TypeOK, Starts!Starting, Starts!Rest, Starts!InSetup, Starts!Inis,
         Starts!Networks, Starts!StartupAssumption
  <2>2. Starts!Rewritten' /\ Starts!TornForAReason' /\ Starts!ReadIsOnCard'
    <3>1. wlan \in Starts!Networks /\ ini.level \in Levels
          /\ rewrite' = [wlan EXCEPT !.level = ini.level]
      BY <1>0, <1>15 DEF Starts!ChangeRSSIThreshold, Starts!ChangeSetting, Starts!Asks,
           Starts!TypeOK, Starts!Inis
    <3>2. rewrite' \in Starts!Networks
      BY <3>1 DEF Starts!Networks
    <3>3. start' = "rewriting"
      BY <1>0, <1>15 DEF Starts!ChangeRSSIThreshold, Starts!ChangeSetting, Starts!Asks
    <3>4. QED
      BY <3>2, <3>3 DEF Starts!Rewritten, Starts!TornForAReason, Starts!ReadIsOnCard
  <2>3. QED
    BY <2>1, <2>2 DEF Starts!Inductive
<1>16. ASSUME Starts!ChangeRefused PROVE Starts!Inductive'
  <2>1. Starts!TypeOK'
    BY <1>0, <1>16 DEF Starts!ChangeRefused, Starts!Asks, Starts!files, Starts!TypeOK,
         Starts!Starting, Starts!Rest, Starts!InSetup
  <2>2. Starts!Rewritten' /\ Starts!TornForAReason' /\ Starts!ReadIsOnCard'
    BY <1>0, <1>16 DEF Starts!ChangeRefused, Starts!Asks, Starts!files, Starts!TypeOK,
         Starts!Rewritten, Starts!TornForAReason, Starts!ReadIsOnCard
  <2>3. QED
    BY <2>1, <2>2 DEF Starts!Inductive
<1>17. ASSUME Starts!ReadParameter PROVE Starts!Inductive'
  <2>1. Starts!TypeOK'
    BY <1>0, <1>17 DEF Starts!ReadParameter, Starts!files, Starts!TypeOK, Starts!Starting,
         Starts!Rest, Starts!InSetup
  <2>2. Starts!Rewritten' /\ Starts!TornForAReason' /\ Starts!ReadIsOnCard'
    BY <1>0, <1>17 DEF Starts!ReadParameter, Starts!files, Starts!TypeOK, Starts!Rewritten,
         Starts!TornForAReason, Starts!ReadIsOnCard
  <2>3. QED
    BY <2>1, <2>2 DEF Starts!Inductive
<1>18. ASSUME Starts!RewriteCloses PROVE Starts!Inductive'
  <2>1. Starts!TypeOK'
    BY <1>0, <1>18 DEF Starts!RewriteCloses, Starts!Going, Starts!TypeOK, Starts!Starting,
         Starts!Rest, Starts!InSetup
  <2>2. Starts!Rewritten' /\ Starts!TornForAReason' /\ Starts!ReadIsOnCard'
    BY <1>0, <1>18 DEF Starts!RewriteCloses, Starts!Going, Starts!TypeOK, Starts!Rewritten,
         Starts!TornForAReason, Starts!ReadIsOnCard, Starts!StartupAssumption, Starts!Networks
  <2>3. QED
    BY <2>1, <2>2 DEF Starts!Inductive
<1>19. ASSUME Starts!DoReboot PROVE Starts!Inductive'
  <2>1. Starts!TypeOK'
    BY <1>0, <1>19 DEF Starts!DoReboot, Starts!Off, Starts!TypeOK, Starts!Starting, Starts!Rest,
         Starts!InSetup
  <2>2. Starts!Rewritten' /\ Starts!TornForAReason' /\ Starts!ReadIsOnCard'
    BY <1>0, <1>19 DEF Starts!DoReboot, Starts!Off, Starts!TypeOK, Starts!Rewritten,
         Starts!TornForAReason, Starts!ReadIsOnCard
  <2>3. QED
    BY <2>1, <2>2 DEF Starts!Inductive
<1>20. QED
  BY <1>1, <1>2, <1>3, <1>4, <1>5, <1>6, <1>7, <1>8, <1>9, <1>10, <1>11, <1>12, <1>13, <1>14,
       <1>15, <1>16, <1>17, <1>18, <1>19 DEF Starts!StartStep

\* What is asked of a device that has started.
LEMMA StartupPageStepKeeps ==
  ASSUME Starts!StartupAssumption, Starts!Inductive, Starts!PageStep
  PROVE  Starts!Inductive'
<1>0. Starts!TypeOK /\ Starts!Rewritten /\ Starts!TornForAReason /\ Starts!ReadIsOnCard
  BY DEF Starts!Inductive
<1>1. ASSUME Starts!SaveConfiguration PROVE Starts!Inductive'
  <2>1. Starts!TypeOK'
    BY <1>0, <1>1 DEF Starts!SaveConfiguration, Starts!TypeOK, Starts!Starting, Starts!Rest,
         Starts!InSetup
  <2>2. Starts!Rewritten' /\ Starts!TornForAReason' /\ Starts!ReadIsOnCard'
    BY <1>0, <1>1 DEF Starts!SaveConfiguration, Starts!TypeOK, Starts!Rewritten,
         Starts!TornForAReason, Starts!ReadIsOnCard
  <2>3. QED
    BY <2>1, <2>2 DEF Starts!Inductive
<1>2. ASSUME Starts!HandlerInit PROVE Starts!Inductive'
  <2>1. Starts!TypeOK'
    BY <1>0, <1>2 DEF Starts!HandlerInit, Starts!files, Starts!TypeOK, Starts!Starting,
         Starts!Rest, Starts!InSetup
  <2>2. Starts!Rewritten' /\ Starts!TornForAReason' /\ Starts!ReadIsOnCard'
    BY <1>0, <1>2 DEF Starts!HandlerInit, Starts!files, Starts!TypeOK, Starts!Rewritten,
         Starts!TornForAReason, Starts!ReadIsOnCard
  <2>3. QED
    BY <2>1, <2>2 DEF Starts!Inductive
<1>3. ASSUME Starts!HandlerReboot PROVE Starts!Inductive'
  <2>1. Starts!TypeOK'
    BY <1>0, <1>3 DEF Starts!HandlerReboot, Starts!Off, Starts!TypeOK, Starts!Starting,
         Starts!Rest, Starts!InSetup
  <2>2. Starts!Rewritten' /\ Starts!TornForAReason' /\ Starts!ReadIsOnCard'
    BY <1>0, <1>3 DEF Starts!HandlerReboot, Starts!Off, Starts!TypeOK, Starts!Rewritten,
         Starts!TornForAReason, Starts!ReadIsOnCard
  <2>3. QED
    BY <2>1, <2>2 DEF Starts!Inductive
<1>4. ASSUME Starts!ConfigIniHandler PROVE Starts!Inductive'
  <2>1. Starts!TypeOK'
    BY <1>0, <1>4 DEF Starts!ConfigIniHandler, Starts!Going, Starts!TypeOK, Starts!Starting,
         Starts!Rest, Starts!InSetup, Starts!Inis, Starts!Networks, Starts!StartupAssumption
  <2>2. Starts!Rewritten' /\ Starts!TornForAReason' /\ Starts!ReadIsOnCard'
    BY <1>0, <1>4 DEF Starts!ConfigIniHandler, Starts!Going, Starts!TypeOK, Starts!Rewritten,
         Starts!TornForAReason, Starts!ReadIsOnCard, Starts!StartupAssumption, Starts!Networks
  <2>3. QED
    BY <2>1, <2>2 DEF Starts!Inductive
<1>5. ASSUME Starts!ConfigIniWritten PROVE Starts!Inductive'
  <2>1. Starts!TypeOK'
    BY <1>0, <1>5 DEF Starts!ConfigIniWritten, Starts!Going, Starts!TypeOK, Starts!Starting,
         Starts!Rest, Starts!InSetup
  <2>2. Starts!Rewritten' /\ Starts!TornForAReason' /\ Starts!ReadIsOnCard'
    BY <1>0, <1>5 DEF Starts!ConfigIniWritten, Starts!Going, Starts!TypeOK, Starts!Rewritten,
         Starts!TornForAReason, Starts!ReadIsOnCard, Starts!StartupAssumption, Starts!Networks
  <2>3. QED
    BY <2>1, <2>2 DEF Starts!Inductive
<1>6. ASSUME Starts!UploadBegins PROVE Starts!Inductive'
  <2>1. Starts!TypeOK'
    BY <1>0, <1>6 DEF Starts!UploadBegins, Starts!Going, Starts!TypeOK, Starts!Starting,
         Starts!Rest, Starts!InSetup, Starts!Inis, Starts!Networks, Starts!Bare,
         Starts!StartupAssumption
  <2>2. Starts!Rewritten' /\ Starts!TornForAReason' /\ Starts!ReadIsOnCard'
    BY <1>0, <1>6 DEF Starts!UploadBegins, Starts!Going, Starts!TypeOK, Starts!Rewritten,
         Starts!TornForAReason, Starts!ReadIsOnCard
  <2>3. QED
    BY <2>1, <2>2 DEF Starts!Inductive
<1>7. ASSUME Starts!UploadEnds PROVE Starts!Inductive'
  <2>1. Starts!TypeOK'
    BY <1>0, <1>7 DEF Starts!UploadEnds, Starts!TypeOK, Starts!Starting, Starts!Rest,
         Starts!InSetup
  <2>2. Starts!Rewritten' /\ Starts!TornForAReason' /\ Starts!ReadIsOnCard'
    BY <1>0, <1>7 DEF Starts!UploadEnds, Starts!TypeOK, Starts!Rewritten, Starts!TornForAReason,
         Starts!ReadIsOnCard
  <2>3. QED
    BY <2>1, <2>2 DEF Starts!Inductive
<1>8. ASSUME Starts!UploadPackage PROVE Starts!Inductive'
  <2>1. Starts!TypeOK'
    BY <1>0, <1>8 DEF Starts!UploadPackage, Starts!files, Starts!TypeOK, Starts!Starting,
         Starts!Rest, Starts!InSetup
  <2>2. Starts!Rewritten' /\ Starts!TornForAReason' /\ Starts!ReadIsOnCard'
    BY <1>0, <1>8 DEF Starts!UploadPackage, Starts!files, Starts!TypeOK, Starts!Rewritten,
         Starts!TornForAReason, Starts!ReadIsOnCard
  <2>3. QED
    BY <2>1, <2>2 DEF Starts!Inductive
<1>9. QED
  BY <1>1, <1>2, <1>3, <1>4, <1>5, <1>6, <1>7, <1>8 DEF Starts!PageStep

\* A loss of power, and whoever has the card out.
LEMMA StartupOthersKeep ==
  ASSUME Starts!StartupAssumption, Starts!Inductive, Starts!PowerLost \/ Starts!CardServiced
  PROVE  Starts!Inductive'
<1>0. Starts!TypeOK /\ Starts!Rewritten /\ Starts!TornForAReason /\ Starts!ReadIsOnCard
  BY DEF Starts!Inductive
<1>1. ASSUME Starts!PowerLost PROVE Starts!Inductive'
  <2>1. Starts!TypeOK'
    <3>1. losses' \in 0 .. MaxLosses
      BY <1>0, <1>1 DEF Starts!PowerLost, Starts!Off, Starts!TypeOK, Starts!StartupAssumption
    <3>2. cut' \in BOOLEAN
      <4>1. cut \in BOOLEAN
        BY <1>0 DEF Starts!TypeOK
      <4>2. QED
        BY <4>1, <1>1 DEF Starts!PowerLost
    <3>3. QED
      BY <1>0, <1>1, <3>1, <3>2 DEF Starts!PowerLost, Starts!Off, Starts!TypeOK, Starts!Starting
  <2>2. Starts!Rewritten' /\ Starts!TornForAReason' /\ Starts!ReadIsOnCard'
    BY <1>0, <1>1 DEF Starts!PowerLost, Starts!Off, Starts!TypeOK, Starts!Rewritten,
         Starts!TornForAReason, Starts!ReadIsOnCard
  <2>3. QED
    BY <2>1, <2>2 DEF Starts!Inductive
<1>2. ASSUME Starts!CardServiced PROVE Starts!Inductive'
  <2>1. Starts!TypeOK'
    BY <1>0, <1>2 DEF Starts!CardServiced, Starts!Off, Starts!TypeOK, Starts!Starting,
         Starts!Rest, Starts!InSetup, Starts!Inis, Starts!Networks, Starts!StartupAssumption
  <2>2. Starts!Rewritten' /\ Starts!TornForAReason' /\ Starts!ReadIsOnCard'
    BY <1>0, <1>2 DEF Starts!CardServiced, Starts!Off, Starts!TypeOK, Starts!Rewritten,
         Starts!TornForAReason, Starts!ReadIsOnCard, Starts!StartupAssumption, Starts!Networks,
         Starts!Rest
  <2>3. QED
    BY <2>1, <2>2 DEF Starts!Inductive
<1>3. QED
  BY <1>1, <1>2

\* Each step, and a step of others.
LEMMA StartupStepInductive ==
  Starts!StartupAssumption /\ Starts!Inductive /\ [Starts!Next]_(Starts!startVars) => Starts!Inductive'
<1> SUFFICES ASSUME Starts!StartupAssumption, Starts!Inductive, [Starts!Next]_(Starts!startVars)
             PROVE  Starts!Inductive'
  OBVIOUS
<1>1. CASE Starts!Next
  BY <1>1, StartupStartStepKeeps, StartupPageStepKeeps, StartupOthersKeep DEF Starts!Next
<1>2. CASE UNCHANGED Starts!startVars
  BY <1>2 DEF Starts!startVars, Starts!Inductive, Starts!TypeOK, Starts!Rewritten,
       Starts!TornForAReason, Starts!ReadIsOnCard
<1>3. QED
  BY <1>1, <1>2

-----------------------------------------------------------------------------
(* The loader: the one installation and the network it has been given      *)

\* A new device has nothing on the card, and no network.
LEMMA InstallInitInductive == Install!LoaderAssumption /\ Install!Init => Install!Inductive
<1> SUFFICES ASSUME Install!LoaderAssumption, Install!Init PROVE Install!Inductive
  OBVIOUS
<1>1. Install!TypeOK
  <2>1. card \in Install!Cards
    BY DEF Install!Init, Install!Cards, Install!Contents
  <2>2. at \in [Installers -> Install!Steps \union {"none"}]
    BY DEF Install!Init
  <2>3. phase \in -8 .. 7 /\ connecting \in 0 .. 2
    BY DEF Install!Init
  <2>4. flash \in Install!Contents /\ {boot, running} \subseteq {"loader", "app"}
        /\ proven \subseteq Network
    BY DEF Install!Init, Install!Contents
  <2>5. QED
    BY <2>1, <2>2, <2>3, <2>4 DEF Install!Init, Install!TypeOK
<1>2. /\ Install!NetworkProven /\ Install!WorkerAlone /\ Install!CardSound
      /\ Install!PhaseSound /\ link = "down"
  BY DEF Install!Init, Install!NetworkProven, Install!WorkerAlone, Install!Busy, Install!CardSound,
       Install!PhaseSound, Install!NetworkSaved, Install!OneWorker, Install!WorkingPhase
<1>3. ASSUME NEW w \in Installers PROVE Install!WorkDone(w)
  BY <1>3 DEF Install!Init, Install!WorkDone, Install!ConfigSteps, Install!FlashSteps
<1>4. QED
  BY <1>1, <1>2, <1>3 DEF Install!Inductive, Install!InstallSound

\* What every step of a worker has in common, and how the phase follows it.
WorkerMoves(w) ==
  /\ UNCHANGED <<tried, link, connecting, nvs, wifi_saved, booting, proven, overlaps, running>>
  /\ at[w] # "none" /\ at'[w] \in Install!Steps \union {"none"} /\ phase' \in -8 .. 7
  /\ at' = [at EXCEPT ![w] = at'[w]]
  /\ at[w] \in {"settle", "late"} =>
       at'[w] \in {"late", "none"} /\ UNCHANGED <<card, flash, boot>>
  /\ overlaps = 0 =>
       /\ at'[w] # "late"
       /\ at'[w] = "none" => phase' \in -7 .. -3
       /\ at'[w] = "settle" => phase' = -5
       /\ at'[w] = "done" => phase' = 5
       /\ at'[w] \notin {"none", "settle", "done"} => phase' \in {2, 3, 4, 6}

LEMMA WorkerStepMoves ==
  ASSUME Install!LoaderAssumption, Install!Inductive, NEW w \in Installers, Install!Worker(w)
  PROVE  WorkerMoves(w)
<1>0. /\ at \in [Installers -> Install!Steps \union {"none"}] /\ phase \in -8 .. 7
      /\ overlaps = 0 => Install!WorkingPhase
  BY DEF Install!Inductive, Install!PhaseSound, Install!TypeOK
<1>1. CASE Install!Start(w)
  BY <1>0, <1>1 DEF Install!Start, Install!Go, Install!station, Install!memory, Install!chip,
       Install!Steps, Install!WorkingPhase, WorkerMoves
<1>2. CASE Install!ClockSet(w)
  BY <1>0, <1>2 DEF Install!ClockSet, Install!Go, Install!station, Install!memory, Install!chip,
       Install!Steps, Install!WorkingPhase, WorkerMoves
<1>3. CASE Install!ClockFails(w)
  BY <1>0, <1>3 DEF Install!ClockFails, Install!Ends, Install!station, Install!memory,
       Install!chip, Install!Steps, Install!WorkingPhase, WorkerMoves
<1>4. CASE Install!Fetch(w)
  BY <1>0, <1>4 DEF Install!Fetch, Install!Go, Install!OnCard, Install!station, Install!memory,
       Install!chip, Install!Steps, Install!WorkingPhase, WorkerMoves
<1>5. CASE Install!Receive(w)
  BY <1>0, <1>5 DEF Install!Receive, Install!Go, Install!station, Install!memory, Install!chip,
       Install!Steps, Install!WorkingPhase, WorkerMoves
<1>6. CASE Install!ReadBack(w)
  BY <1>0, <1>6 DEF Install!ReadBack, Install!Go, Install!station, Install!memory, Install!chip,
       Install!Steps, Install!WorkingPhase, WorkerMoves
<1>7. CASE Install!FetchFails(w)
  BY <1>0, <1>7 DEF Install!FetchFails, Install!Ends, Install!FetchSteps, Install!station,
       Install!memory, Install!chip, Install!Steps, Install!WorkingPhase, WorkerMoves
<1>8. CASE Install!Stage(w)
  BY <1>0, <1>8 DEF Install!Stage, Install!Go, Install!OnCard, Install!station, Install!memory,
       Install!chip, Install!Steps, Install!WorkingPhase, WorkerMoves
<1>9. CASE Install!Extract(w)
  BY <1>0, <1>9 DEF Install!Extract, Install!Go, Install!OnCard, Install!station, Install!memory,
       Install!chip, Install!Steps, Install!WorkingPhase, WorkerMoves
<1>10. CASE Install!Publish(w)
  BY <1>0, <1>10 DEF Install!Publish, Install!Go, Install!OnCard, Install!station, Install!memory,
       Install!chip, Install!Steps, Install!WorkingPhase, WorkerMoves
<1>11. CASE Install!Verify(w)
  BY <1>0, <1>11 DEF Install!Verify, Install!Go, Install!OnCard, Install!station, Install!memory,
       Install!chip, Install!Steps, Install!WorkingPhase, WorkerMoves
<1>12. CASE Install!Config(w)
  BY <1>0, <1>12 DEF Install!Config, Install!Go, Install!OnCard, Install!station, Install!memory,
       Install!chip, Install!Steps, Install!WorkingPhase, WorkerMoves
<1>13. CASE Install!ConfigWrite(w)
  BY <1>0, <1>13 DEF Install!ConfigWrite, Install!Go, Install!OnCard, Install!station,
       Install!memory, Install!chip, Install!Steps, Install!WorkingPhase, WorkerMoves
<1>14. CASE Install!ConfigPublish(w)
  BY <1>0, <1>14 DEF Install!ConfigPublish, Install!Go, Install!OnCard, Install!station,
       Install!memory, Install!chip, Install!Steps, Install!WorkingPhase, WorkerMoves
<1>15. CASE Install!Wlan(w)
  BY <1>0, <1>15 DEF Install!Wlan, Install!Go, Install!OnCard, Install!station, Install!memory,
       Install!chip, Install!Steps, Install!WorkingPhase, WorkerMoves
<1>16. CASE Install!WlanWrite(w)
  BY <1>0, <1>16 DEF Install!WlanWrite, Install!Go, Install!OnCard, Install!station,
       Install!memory, Install!chip, Install!Steps, Install!WorkingPhase, WorkerMoves
<1>17. CASE Install!WlanPublish(w)
  BY <1>0, <1>17 DEF Install!WlanPublish, Install!Go, Install!OnCard, Install!station,
       Install!memory, Install!chip, Install!Steps, Install!WorkingPhase, WorkerMoves
<1>18. CASE Install!ConfigFails(w)
  BY <1>0, <1>18 DEF Install!ConfigFails, Install!ConfigSteps, Install!station, Install!memory,
       Install!chip, Install!Steps, Install!WorkingPhase, WorkerMoves
<1>19. CASE Install!Settle(w)
  BY <1>0, <1>19 DEF Install!Settle, Install!station, Install!memory, Install!chip,
       Install!Steps, Install!WorkingPhase, WorkerMoves
<1>s. CASE Install!SettleLate(w)
  BY <1>0, <1>s DEF Install!SettleLate, Install!Ends, Install!station, Install!memory,
       Install!chip, Install!Steps, Install!WorkingPhase, WorkerMoves
<1>20. CASE Install!FlashBegin(w)
  BY <1>0, <1>20 DEF Install!FlashBegin, Install!Go, Install!station, Install!memory,
       Install!chip, Install!Steps, Install!WorkingPhase, WorkerMoves
<1>21. CASE Install!FlashWrite(w)
  BY <1>0, <1>21 DEF Install!FlashWrite, Install!Go, Install!station, Install!memory,
       Install!chip, Install!Steps, Install!WorkingPhase, WorkerMoves
<1>22. CASE Install!Index(w)
  BY <1>0, <1>22 DEF Install!Index, Install!Go, Install!OnCard, Install!station, Install!memory,
       Install!chip, Install!Steps, Install!WorkingPhase, WorkerMoves
<1>23. CASE Install!Select(w)
  BY <1>0, <1>23 DEF Install!Select, Install!Ends, Install!station, Install!memory, Install!chip,
       Install!Steps, Install!WorkingPhase, WorkerMoves
<1>24. CASE Install!InstallFails(w)
  BY <1>0, <1>24 DEF Install!InstallFails, Install!Ends, Install!InstallSteps, Install!station,
       Install!memory, Install!chip, Install!Steps, Install!WorkingPhase, WorkerMoves
<1>25. QED
  BY <1>1, <1>2, <1>3, <1>4, <1>5, <1>6, <1>7, <1>8, <1>9, <1>10, <1>11, <1>12, <1>13, <1>14,
       <1>15, <1>16, <1>17, <1>18, <1>19, <1>20, <1>21, <1>22, <1>23, <1>24, <1>s DEF Install!Worker

\* A worker leaves what is in its place whole, and has done at each step what it says.
LEMMA WorkerStepSound ==
  ASSUME Install!LoaderAssumption, Install!Inductive, NEW w \in Installers, Install!Worker(w)
  PROVE  /\ card' \in Install!Cards /\ flash' \in Install!Contents /\ boot' \in {"loader", "app"}
         /\ Install!InstallSound => Install!CardSound' /\ Install!WorkDone(w)'
<1>0. /\ card \in Install!Cards /\ flash \in Install!Contents /\ boot \in {"loader", "app"}
      /\ at \in [Installers -> Install!Steps \union {"none"}] /\ tried \in Network \union {None}
  BY DEF Install!Inductive, Install!TypeOK
<1>i. Install!InstallSound =>
        /\ Install!CardSound /\ Install!WorkDone(w)
        /\ at[w] \notin {"none", "settle", "late"} => tried \in proven /\ tried \in Network
  BY DEF Install!Inductive, Install!TypeOK, Install!InstallSound, Install!WorkerAlone, Install!Busy
<1>m. UNCHANGED <<tried, proven>> /\ at[w] # "none"
  BY WorkerStepMoves DEF WorkerMoves
<1> USE DEF Install!LoaderAssumption
<1>1. CASE Install!Start(w)
  <2>1. card' \in Install!Cards /\ flash' \in Install!Contents /\ boot' \in {"loader", "app"}
    BY <1>0, <1>m, <1>1 DEF Install!Start, Install!Go, Install!chip, Install!Cards,
         Install!Contents
  <2>2. Install!InstallSound => Install!CardSound'
    BY <1>0, <1>i, <1>m, <1>1 DEF Install!Start, Install!Go, Install!chip, Install!Cards,
         Install!CardSound, Install!WorkDone, Install!ConfigSteps, Install!FlashSteps
  <2>3. Install!InstallSound => Install!WorkDone(w)'
    BY <1>0, <1>i, <1>m, <1>1 DEF Install!Start, Install!Go, Install!chip, Install!Cards,
         Install!CardSound, Install!WorkDone, Install!ConfigSteps, Install!FlashSteps
  <2>4. QED
    BY <2>1, <2>2, <2>3
<1>2. CASE Install!ClockSet(w)
  <2>1. card' \in Install!Cards /\ flash' \in Install!Contents /\ boot' \in {"loader", "app"}
    BY <1>0, <1>m, <1>2 DEF Install!ClockSet, Install!Go, Install!chip, Install!Cards,
         Install!Contents
  <2>2. Install!InstallSound => Install!CardSound'
    BY <1>0, <1>i, <1>m, <1>2 DEF Install!ClockSet, Install!Go, Install!chip, Install!Cards,
         Install!CardSound, Install!WorkDone, Install!ConfigSteps, Install!FlashSteps
  <2>3. Install!InstallSound => Install!WorkDone(w)'
    BY <1>0, <1>i, <1>m, <1>2 DEF Install!ClockSet, Install!Go, Install!chip, Install!Cards,
         Install!CardSound, Install!WorkDone, Install!ConfigSteps, Install!FlashSteps
  <2>4. QED
    BY <2>1, <2>2, <2>3
<1>3. CASE Install!ClockFails(w)
  <2>1. card' \in Install!Cards /\ flash' \in Install!Contents /\ boot' \in {"loader", "app"}
    BY <1>0, <1>m, <1>3 DEF Install!ClockFails, Install!Ends, Install!chip, Install!Cards,
         Install!Contents
  <2>2. Install!InstallSound => Install!CardSound'
    BY <1>0, <1>i, <1>m, <1>3 DEF Install!ClockFails, Install!Ends, Install!chip, Install!Cards,
         Install!CardSound, Install!WorkDone, Install!ConfigSteps, Install!FlashSteps
  <2>3. Install!InstallSound => Install!WorkDone(w)'
    BY <1>0, <1>i, <1>m, <1>3 DEF Install!ClockFails, Install!Ends, Install!chip, Install!Cards,
         Install!CardSound, Install!WorkDone, Install!ConfigSteps, Install!FlashSteps
  <2>4. QED
    BY <2>1, <2>2, <2>3
<1>4. CASE Install!Fetch(w)
  <2>1. card' \in Install!Cards /\ flash' \in Install!Contents /\ boot' \in {"loader", "app"}
    BY <1>0, <1>m, <1>4 DEF Install!Fetch, Install!Go, Install!OnCard, Install!chip,
         Install!Cards, Install!Contents
  <2>2. Install!InstallSound => Install!CardSound'
    BY <1>0, <1>i, <1>m, <1>4 DEF Install!Fetch, Install!Go, Install!OnCard, Install!chip,
         Install!Cards, Install!CardSound, Install!WorkDone, Install!ConfigSteps,
         Install!FlashSteps
  <2>3. Install!InstallSound => Install!WorkDone(w)'
    BY <1>0, <1>i, <1>m, <1>4 DEF Install!Fetch, Install!Go, Install!OnCard, Install!chip,
         Install!Cards, Install!CardSound, Install!WorkDone, Install!ConfigSteps,
         Install!FlashSteps
  <2>4. QED
    BY <2>1, <2>2, <2>3
<1>5. CASE Install!Receive(w)
  <2>1. card' \in Install!Cards /\ flash' \in Install!Contents /\ boot' \in {"loader", "app"}
    BY <1>0, <1>m, <1>5 DEF Install!Receive, Install!Go, Install!chip, Install!Cards,
         Install!Contents
  <2>2. Install!InstallSound => Install!CardSound'
    BY <1>0, <1>i, <1>m, <1>5 DEF Install!Receive, Install!Go, Install!chip, Install!Cards,
         Install!CardSound, Install!WorkDone, Install!ConfigSteps, Install!FlashSteps
  <2>3. Install!InstallSound => Install!WorkDone(w)'
    BY <1>0, <1>i, <1>m, <1>5 DEF Install!Receive, Install!Go, Install!chip, Install!Cards,
         Install!CardSound, Install!WorkDone, Install!ConfigSteps, Install!FlashSteps
  <2>4. QED
    BY <2>1, <2>2, <2>3
<1>6. CASE Install!ReadBack(w)
  <2>1. card' \in Install!Cards /\ flash' \in Install!Contents /\ boot' \in {"loader", "app"}
    BY <1>0, <1>m, <1>6 DEF Install!ReadBack, Install!Go, Install!chip, Install!Cards,
         Install!Contents
  <2>2. Install!InstallSound => Install!CardSound'
    BY <1>0, <1>i, <1>m, <1>6 DEF Install!ReadBack, Install!Go, Install!chip, Install!Cards,
         Install!CardSound, Install!WorkDone, Install!ConfigSteps, Install!FlashSteps
  <2>3. Install!InstallSound => Install!WorkDone(w)'
    BY <1>0, <1>i, <1>m, <1>6 DEF Install!ReadBack, Install!Go, Install!chip, Install!Cards,
         Install!CardSound, Install!WorkDone, Install!ConfigSteps, Install!FlashSteps
  <2>4. QED
    BY <2>1, <2>2, <2>3
<1>7. CASE Install!FetchFails(w)
  <2>1. card' \in Install!Cards /\ flash' \in Install!Contents /\ boot' \in {"loader", "app"}
    BY <1>0, <1>m, <1>7 DEF Install!FetchFails, Install!Ends, Install!FetchSteps, Install!chip,
         Install!Cards, Install!Contents
  <2>2. Install!InstallSound => Install!CardSound'
    BY <1>0, <1>i, <1>m, <1>7 DEF Install!FetchFails, Install!Ends, Install!FetchSteps, Install!chip,
         Install!Cards, Install!CardSound, Install!WorkDone, Install!ConfigSteps,
         Install!FlashSteps
  <2>3. Install!InstallSound => Install!WorkDone(w)'
    BY <1>0, <1>i, <1>m, <1>7 DEF Install!FetchFails, Install!Ends, Install!FetchSteps, Install!chip,
         Install!Cards, Install!CardSound, Install!WorkDone, Install!ConfigSteps,
         Install!FlashSteps
  <2>4. QED
    BY <2>1, <2>2, <2>3
<1>8. CASE Install!Stage(w)
  <2>1. card' \in Install!Cards /\ flash' \in Install!Contents /\ boot' \in {"loader", "app"}
    BY <1>0, <1>m, <1>8 DEF Install!Stage, Install!Go, Install!OnCard, Install!chip,
         Install!Cards, Install!Contents
  <2>2. Install!InstallSound => Install!CardSound'
    BY <1>0, <1>i, <1>m, <1>8 DEF Install!Stage, Install!Go, Install!OnCard, Install!chip,
         Install!Cards, Install!CardSound, Install!WorkDone, Install!ConfigSteps,
         Install!FlashSteps
  <2>3. Install!InstallSound => Install!WorkDone(w)'
    BY <1>0, <1>i, <1>m, <1>8 DEF Install!Stage, Install!Go, Install!OnCard, Install!chip,
         Install!Cards, Install!CardSound, Install!WorkDone, Install!ConfigSteps,
         Install!FlashSteps
  <2>4. QED
    BY <2>1, <2>2, <2>3
<1>9. CASE Install!Extract(w)
  <2>1. card' \in Install!Cards /\ flash' \in Install!Contents /\ boot' \in {"loader", "app"}
    BY <1>0, <1>m, <1>9 DEF Install!Extract, Install!Go, Install!OnCard, Install!chip,
         Install!Cards, Install!Contents
  <2>2. Install!InstallSound => Install!CardSound'
    BY <1>0, <1>i, <1>m, <1>9 DEF Install!Extract, Install!Go, Install!OnCard, Install!chip,
         Install!Cards, Install!CardSound, Install!WorkDone, Install!ConfigSteps,
         Install!FlashSteps
  <2>3. Install!InstallSound => Install!WorkDone(w)'
    BY <1>0, <1>i, <1>m, <1>9 DEF Install!Extract, Install!Go, Install!OnCard, Install!chip,
         Install!Cards, Install!CardSound, Install!WorkDone, Install!ConfigSteps,
         Install!FlashSteps
  <2>4. QED
    BY <2>1, <2>2, <2>3
<1>10. CASE Install!Publish(w)
  <2>1. card' \in Install!Cards /\ flash' \in Install!Contents /\ boot' \in {"loader", "app"}
    BY <1>0, <1>m, <1>10 DEF Install!Publish, Install!Go, Install!OnCard, Install!chip,
         Install!Cards, Install!Contents
  <2>2. Install!InstallSound => Install!CardSound'
    BY <1>0, <1>i, <1>m, <1>10 DEF Install!Publish, Install!Go, Install!OnCard, Install!chip,
         Install!Cards, Install!CardSound, Install!WorkDone, Install!ConfigSteps,
         Install!FlashSteps
  <2>3. Install!InstallSound => Install!WorkDone(w)'
    BY <1>0, <1>i, <1>m, <1>10 DEF Install!Publish, Install!Go, Install!OnCard, Install!chip,
         Install!Cards, Install!CardSound, Install!WorkDone, Install!ConfigSteps,
         Install!FlashSteps
  <2>4. QED
    BY <2>1, <2>2, <2>3
<1>11. CASE Install!Verify(w)
  <2>1. card' \in Install!Cards /\ flash' \in Install!Contents /\ boot' \in {"loader", "app"}
    BY <1>0, <1>m, <1>11 DEF Install!Verify, Install!Go, Install!OnCard, Install!chip,
         Install!Cards, Install!Contents
  <2>2. Install!InstallSound => Install!CardSound'
    BY <1>0, <1>i, <1>m, <1>11 DEF Install!Verify, Install!Go, Install!OnCard, Install!chip,
         Install!Cards, Install!CardSound, Install!WorkDone, Install!ConfigSteps,
         Install!FlashSteps
  <2>3. Install!InstallSound => Install!WorkDone(w)'
    BY <1>0, <1>i, <1>m, <1>11 DEF Install!Verify, Install!Go, Install!OnCard, Install!chip,
         Install!Cards, Install!CardSound, Install!WorkDone, Install!ConfigSteps,
         Install!FlashSteps
  <2>4. QED
    BY <2>1, <2>2, <2>3
<1>12. CASE Install!Config(w)
  <2>1. card' \in Install!Cards /\ flash' \in Install!Contents /\ boot' \in {"loader", "app"}
    BY <1>0, <1>m, <1>12 DEF Install!Config, Install!Go, Install!OnCard, Install!chip,
         Install!Cards, Install!Contents
  <2>2. Install!InstallSound => Install!CardSound'
    BY <1>0, <1>i, <1>m, <1>12 DEF Install!Config, Install!Go, Install!OnCard, Install!chip,
         Install!Cards, Install!CardSound, Install!WorkDone, Install!ConfigSteps,
         Install!FlashSteps
  <2>3. Install!InstallSound => Install!WorkDone(w)'
    BY <1>0, <1>i, <1>m, <1>12 DEF Install!Config, Install!Go, Install!OnCard, Install!chip,
         Install!Cards, Install!CardSound, Install!WorkDone, Install!ConfigSteps,
         Install!FlashSteps, Install!Contents
  <2>4. QED
    BY <2>1, <2>2, <2>3
<1>13. CASE Install!ConfigWrite(w)
  <2>1. card' \in Install!Cards /\ flash' \in Install!Contents /\ boot' \in {"loader", "app"}
    BY <1>0, <1>m, <1>13 DEF Install!ConfigWrite, Install!Go, Install!OnCard, Install!chip,
         Install!Cards, Install!Contents
  <2>2. Install!InstallSound => Install!CardSound'
    BY <1>0, <1>i, <1>m, <1>13 DEF Install!ConfigWrite, Install!Go, Install!OnCard, Install!chip,
         Install!Cards, Install!CardSound, Install!WorkDone, Install!ConfigSteps,
         Install!FlashSteps
  <2>3. Install!InstallSound => Install!WorkDone(w)'
    BY <1>0, <1>i, <1>m, <1>13 DEF Install!ConfigWrite, Install!Go, Install!OnCard, Install!chip,
         Install!Cards, Install!CardSound, Install!WorkDone, Install!ConfigSteps,
         Install!FlashSteps
  <2>4. QED
    BY <2>1, <2>2, <2>3
<1>14. CASE Install!ConfigPublish(w)
  <2>1. card' \in Install!Cards /\ flash' \in Install!Contents /\ boot' \in {"loader", "app"}
    BY <1>0, <1>m, <1>14 DEF Install!ConfigPublish, Install!Go, Install!OnCard, Install!chip,
         Install!Cards, Install!Contents
  <2>2. Install!InstallSound => Install!CardSound'
    BY <1>0, <1>i, <1>m, <1>14 DEF Install!ConfigPublish, Install!Go, Install!OnCard, Install!chip,
         Install!Cards, Install!CardSound, Install!WorkDone, Install!ConfigSteps,
         Install!FlashSteps
  <2>3. Install!InstallSound => Install!WorkDone(w)'
    BY <1>0, <1>i, <1>m, <1>14 DEF Install!ConfigPublish, Install!Go, Install!OnCard, Install!chip,
         Install!Cards, Install!CardSound, Install!WorkDone, Install!ConfigSteps,
         Install!FlashSteps
  <2>4. QED
    BY <2>1, <2>2, <2>3
<1>15. CASE Install!Wlan(w)
  <2>1. card' \in Install!Cards /\ flash' \in Install!Contents /\ boot' \in {"loader", "app"}
    BY <1>0, <1>m, <1>15 DEF Install!Wlan, Install!Go, Install!OnCard, Install!chip,
         Install!Cards, Install!Contents
  <2>2. Install!InstallSound => Install!CardSound'
    BY <1>0, <1>i, <1>m, <1>15 DEF Install!Wlan, Install!Go, Install!OnCard, Install!chip,
         Install!Cards, Install!CardSound, Install!WorkDone, Install!ConfigSteps,
         Install!FlashSteps
  <2>3. Install!InstallSound => Install!WorkDone(w)'
    BY <1>0, <1>i, <1>m, <1>15 DEF Install!Wlan, Install!Go, Install!OnCard, Install!chip,
         Install!Cards, Install!CardSound, Install!WorkDone, Install!ConfigSteps,
         Install!FlashSteps
  <2>4. QED
    BY <2>1, <2>2, <2>3
<1>16. CASE Install!WlanWrite(w)
  <2>1. card' \in Install!Cards /\ flash' \in Install!Contents /\ boot' \in {"loader", "app"}
    BY <1>0, <1>m, <1>16 DEF Install!WlanWrite, Install!Go, Install!OnCard, Install!chip,
         Install!Cards, Install!Contents
  <2>2. Install!InstallSound => Install!CardSound'
    BY <1>0, <1>i, <1>m, <1>16 DEF Install!WlanWrite, Install!Go, Install!OnCard, Install!chip,
         Install!Cards, Install!CardSound, Install!WorkDone, Install!ConfigSteps,
         Install!FlashSteps
  <2>3. Install!InstallSound => Install!WorkDone(w)'
    BY <1>0, <1>i, <1>m, <1>16 DEF Install!WlanWrite, Install!Go, Install!OnCard, Install!chip,
         Install!Cards, Install!CardSound, Install!WorkDone, Install!ConfigSteps,
         Install!FlashSteps
  <2>4. QED
    BY <2>1, <2>2, <2>3
<1>17. CASE Install!WlanPublish(w)
  <2>1. card' \in Install!Cards /\ flash' \in Install!Contents /\ boot' \in {"loader", "app"}
    BY <1>0, <1>m, <1>17 DEF Install!WlanPublish, Install!Go, Install!OnCard, Install!chip,
         Install!Cards, Install!Contents
  <2>2. Install!InstallSound => Install!CardSound'
    BY <1>0, <1>i, <1>m, <1>17 DEF Install!WlanPublish, Install!Go, Install!OnCard, Install!chip,
         Install!Cards, Install!CardSound, Install!WorkDone, Install!ConfigSteps,
         Install!FlashSteps
  <2>3. Install!InstallSound => Install!WorkDone(w)'
    BY <1>0, <1>i, <1>m, <1>17 DEF Install!WlanPublish, Install!Go, Install!OnCard, Install!chip,
         Install!Cards, Install!CardSound, Install!WorkDone, Install!ConfigSteps,
         Install!FlashSteps
  <2>4. QED
    BY <2>1, <2>2, <2>3
<1>18. CASE Install!ConfigFails(w)
  <2>1. card' \in Install!Cards /\ flash' \in Install!Contents /\ boot' \in {"loader", "app"}
    BY <1>0, <1>m, <1>18 DEF Install!ConfigFails, Install!ConfigSteps, Install!chip,
         Install!Cards, Install!Contents
  <2>2. Install!InstallSound => Install!CardSound'
    BY <1>0, <1>i, <1>m, <1>18 DEF Install!ConfigFails, Install!ConfigSteps, Install!chip,
         Install!Cards, Install!CardSound, Install!WorkDone, Install!ConfigSteps,
         Install!FlashSteps
  <2>3. Install!InstallSound => Install!WorkDone(w)'
    BY <1>0, <1>i, <1>m, <1>18 DEF Install!ConfigFails, Install!ConfigSteps, Install!chip,
         Install!Cards, Install!CardSound, Install!WorkDone, Install!ConfigSteps,
         Install!FlashSteps
  <2>4. QED
    BY <2>1, <2>2, <2>3
<1>19. CASE Install!Settle(w)
  <2>1. card' \in Install!Cards /\ flash' \in Install!Contents /\ boot' \in {"loader", "app"}
    BY <1>0, <1>m, <1>19 DEF Install!Settle, Install!chip, Install!Cards,
         Install!Contents
  <2>2. Install!InstallSound => Install!CardSound'
    BY <1>0, <1>i, <1>m, <1>19 DEF Install!Settle, Install!chip, Install!Cards,
         Install!CardSound, Install!WorkDone, Install!ConfigSteps, Install!FlashSteps
  <2>3. Install!InstallSound => Install!WorkDone(w)'
    BY <1>0, <1>i, <1>m, <1>19 DEF Install!Settle, Install!chip, Install!Cards,
         Install!CardSound, Install!WorkDone, Install!ConfigSteps, Install!FlashSteps
  <2>4. QED
    BY <2>1, <2>2, <2>3
<1>s. CASE Install!SettleLate(w)
  <2>1. card' \in Install!Cards /\ flash' \in Install!Contents /\ boot' \in {"loader", "app"}
    BY <1>0, <1>m, <1>s DEF Install!SettleLate, Install!Ends, Install!chip, Install!Cards,
         Install!Contents
  <2>2. Install!InstallSound => Install!CardSound'
    BY <1>0, <1>i, <1>m, <1>s DEF Install!SettleLate, Install!Ends, Install!chip, Install!Cards,
         Install!CardSound, Install!WorkDone, Install!ConfigSteps, Install!FlashSteps
  <2>3. Install!InstallSound => Install!WorkDone(w)'
    BY <1>0, <1>i, <1>m, <1>s DEF Install!SettleLate, Install!Ends, Install!chip, Install!Cards,
         Install!CardSound, Install!WorkDone, Install!ConfigSteps, Install!FlashSteps
  <2>4. QED
    BY <2>1, <2>2, <2>3
<1>20. CASE Install!FlashBegin(w)
  <2>1. card' \in Install!Cards /\ flash' \in Install!Contents /\ boot' \in {"loader", "app"}
    BY <1>0, <1>m, <1>20 DEF Install!FlashBegin, Install!Go, Install!chip, Install!Cards,
         Install!Contents
  <2>2. Install!InstallSound => Install!CardSound'
    BY <1>0, <1>i, <1>m, <1>20 DEF Install!FlashBegin, Install!Go, Install!chip, Install!Cards,
         Install!CardSound, Install!WorkDone, Install!ConfigSteps, Install!FlashSteps
  <2>3. Install!InstallSound => Install!WorkDone(w)'
    BY <1>0, <1>i, <1>m, <1>20 DEF Install!FlashBegin, Install!Go, Install!chip, Install!Cards,
         Install!CardSound, Install!WorkDone, Install!ConfigSteps, Install!FlashSteps
  <2>4. QED
    BY <2>1, <2>2, <2>3
<1>21. CASE Install!FlashWrite(w)
  <2>1. card' \in Install!Cards /\ flash' \in Install!Contents /\ boot' \in {"loader", "app"}
    BY <1>0, <1>m, <1>21 DEF Install!FlashWrite, Install!Go, Install!chip, Install!Cards,
         Install!Contents
  <2>2. Install!InstallSound => Install!CardSound'
    BY <1>0, <1>i, <1>m, <1>21 DEF Install!FlashWrite, Install!Go, Install!chip, Install!Cards,
         Install!CardSound, Install!WorkDone, Install!ConfigSteps, Install!FlashSteps
  <2>3. Install!InstallSound => Install!WorkDone(w)'
    BY <1>0, <1>i, <1>m, <1>21 DEF Install!FlashWrite, Install!Go, Install!chip, Install!Cards,
         Install!CardSound, Install!WorkDone, Install!ConfigSteps, Install!FlashSteps
  <2>4. QED
    BY <2>1, <2>2, <2>3
<1>22. CASE Install!Index(w)
  <2>1. card' \in Install!Cards /\ flash' \in Install!Contents /\ boot' \in {"loader", "app"}
    BY <1>0, <1>m, <1>22 DEF Install!Index, Install!Go, Install!OnCard, Install!chip,
         Install!Cards, Install!Contents
  <2>2. Install!InstallSound => Install!CardSound'
    BY <1>0, <1>i, <1>m, <1>22 DEF Install!Index, Install!Go, Install!OnCard, Install!chip,
         Install!Cards, Install!CardSound, Install!WorkDone, Install!ConfigSteps,
         Install!FlashSteps
  <2>3. Install!InstallSound => Install!WorkDone(w)'
    BY <1>0, <1>i, <1>m, <1>22 DEF Install!Index, Install!Go, Install!OnCard, Install!chip,
         Install!Cards, Install!CardSound, Install!WorkDone, Install!ConfigSteps,
         Install!FlashSteps
  <2>4. QED
    BY <2>1, <2>2, <2>3
<1>23. CASE Install!Select(w)
  <2>1. card' \in Install!Cards /\ flash' \in Install!Contents /\ boot' \in {"loader", "app"}
    BY <1>0, <1>m, <1>23 DEF Install!Select, Install!Ends, Install!chip, Install!Cards,
         Install!Contents
  <2>2. Install!InstallSound => Install!CardSound'
    BY <1>0, <1>i, <1>m, <1>23 DEF Install!Select, Install!Ends, Install!chip, Install!Cards,
         Install!CardSound, Install!WorkDone, Install!ConfigSteps, Install!FlashSteps
  <2>3. Install!InstallSound => Install!WorkDone(w)'
    BY <1>0, <1>i, <1>m, <1>23 DEF Install!Select, Install!Ends, Install!chip, Install!Cards,
         Install!CardSound, Install!WorkDone, Install!ConfigSteps, Install!FlashSteps
  <2>4. QED
    BY <2>1, <2>2, <2>3
<1>24. CASE Install!InstallFails(w)
  <2>1. card' \in Install!Cards /\ flash' \in Install!Contents /\ boot' \in {"loader", "app"}
    BY <1>0, <1>m, <1>24 DEF Install!InstallFails, Install!Ends, Install!InstallSteps,
         Install!chip, Install!Cards, Install!Contents
  <2>2. Install!InstallSound => Install!CardSound'
    BY <1>0, <1>i, <1>m, <1>24 DEF Install!InstallFails, Install!Ends, Install!InstallSteps,
         Install!chip, Install!Cards, Install!CardSound, Install!WorkDone, Install!ConfigSteps,
         Install!FlashSteps
  <2>3. Install!InstallSound => Install!WorkDone(w)'
    BY <1>0, <1>i, <1>m, <1>24 DEF Install!InstallFails, Install!Ends, Install!InstallSteps,
         Install!chip, Install!Cards, Install!CardSound, Install!WorkDone, Install!ConfigSteps,
         Install!FlashSteps
  <2>4. QED
    BY <2>1, <2>2, <2>3
<1>25. QED
  BY <1>1, <1>2, <1>3, <1>4, <1>5, <1>6, <1>7, <1>8, <1>9, <1>10, <1>11, <1>12, <1>13, <1>14,
       <1>15, <1>16, <1>17, <1>18, <1>19, <1>20, <1>21, <1>22, <1>23, <1>24, <1>s DEF Install!Worker

\* A worker's step keeps the invariant: of two, one is on its way out.
LEMMA WorkerStepKeeps ==
  ASSUME Install!LoaderAssumption, Install!Inductive, NEW w \in Installers, Install!Worker(w)
  PROVE  Install!Inductive'
<1>0. /\ Install!TypeOK /\ at \in [Installers -> Install!Steps \union {"none"}]
      /\ link # "down" => tried # None
      /\ overlaps <= 1 => Install!InstallSound
      /\ overlaps = 0 => Install!PhaseSound
  BY DEF Install!Inductive, Install!TypeOK
<1>1. WorkerMoves(w)
  BY WorkerStepMoves
<1>2. /\ at' \in [Installers -> Install!Steps \union {"none"}]
      /\ \A v \in Installers \ {w} : at'[v] = at[v]
  BY <1>0, <1>1 DEF WorkerMoves
<1>3. Install!TypeOK'
  BY <1>0, <1>1, <1>2, WorkerStepSound DEF WorkerMoves, Install!TypeOK, Install!Cards,
       Install!Contents
<1>4. ASSUME overlaps <= 1 PROVE Install!InstallSound'
  <2>0. /\ Install!InstallSound /\ Install!NetworkProven /\ Install!WorkerAlone
        /\ \A v \in Installers : Install!WorkDone(v)
    BY <1>0, <1>4 DEF Install!InstallSound
  <2>1. Install!NetworkProven'
    BY <1>1, <2>0 DEF WorkerMoves, Install!NetworkProven
  <2>2. Install!WorkerAlone'
    <3>1. \A v \in Installers : Install!Busy(v)' => Install!Busy(v)
      BY <1>1, <1>2 DEF WorkerMoves, Install!Busy
    <3>2. UNCHANGED <<connecting, tried, proven>>
      BY <1>1 DEF WorkerMoves
    <3>3. QED
      BY <2>0, <3>1, <3>2 DEF Install!WorkerAlone
  <2>3. Install!CardSound' /\ Install!WorkDone(w)'
    BY <2>0, WorkerStepSound
  <2>4. ASSUME NEW v \in Installers \ {w} PROVE Install!WorkDone(v)'
    <3>1. CASE ~Install!Busy(v)
      BY <1>2, <2>4, <3>1 DEF Install!Busy, Install!WorkDone, Install!ConfigSteps,
           Install!FlashSteps
    <3>2. CASE Install!Busy(v)
      <4>1. at[w] \in {"settle", "late"}
        BY <1>1, <2>0, <2>4, <3>2 DEF WorkerMoves, Install!WorkerAlone, Install!Busy
      <4>2. UNCHANGED <<card, flash, boot, tried>>
        BY <1>1, <4>1 DEF WorkerMoves
      <4>3. QED
        BY <1>2, <2>0, <2>4, <4>2 DEF Install!WorkDone
    <3>3. QED
      BY <3>1, <3>2
  <2>5. QED
    BY <2>1, <2>2, <2>3, <2>4 DEF Install!InstallSound
<1>5. ASSUME overlaps = 0 PROVE Install!PhaseSound'
  <2>0. Install!NetworkSaved /\ Install!OneWorker /\ Install!WorkingPhase
    BY <1>0, <1>5 DEF Install!PhaseSound
  <2>1. \A v \in Installers \ {w} : at[v] = "none" /\ at'[v] = "none"
    BY <1>1, <1>2, <2>0 DEF WorkerMoves, Install!OneWorker
  <2>2. phase' \in -7 .. 6 /\ phase' \notin {0, 1, -1, -2}
    BY <1>1, <1>2, <1>5 DEF WorkerMoves
  <2>3. phase \in 2 .. 6 \/ phase = -5
    BY <1>0, <1>1, <2>0 DEF WorkerMoves, Install!WorkingPhase
  <2>4. Install!NetworkSaved'
    BY <1>1, <2>0, <2>2, <2>3 DEF WorkerMoves, Install!NetworkSaved
  <2>5. Install!OneWorker'
    BY <2>1 DEF Install!OneWorker
  <2>6. connecting' \in 0 .. 1 /\ (connecting' = 1 <=> phase' = 1)
    BY <1>1, <2>0, <2>2, <2>3 DEF WorkerMoves, Install!WorkingPhase
  <2>7. phase' \in 2 .. 6 => Install!Installing'
    BY <1>1, <1>5 DEF WorkerMoves, Install!Installing
  <2>8. Install!WorkingPhase'
    BY <1>1, <1>5, <2>1, <2>6, <2>7 DEF WorkerMoves, Install!WorkingPhase
  <2>9. QED
    BY <2>4, <2>5, <2>8 DEF Install!PhaseSound
<1>6. UNCHANGED <<overlaps, link, tried>>
  BY <1>1 DEF WorkerMoves
<1>7. QED
  BY <1>0, <1>3, <1>4, <1>5, <1>6 DEF Install!Inductive

\* A request that is heard too early is counted; without one nobody is at work.
LEMMA HeardCounts ==
  ASSUME Install!LoaderAssumption, Install!Inductive, Install!Heard
  PROVE  /\ overlaps \in Nat /\ overlaps' \in Nat /\ overlaps <= overlaps'
         /\ \/ ~Install!Installing /\ connecting = 0 /\ overlaps' = overlaps
            \/ overlaps' = overlaps + 1
  BY DEF Install!Heard, Install!Inductive, Install!TypeOK

\* What every step of the connection has in common: it leaves a worker what it works for.
NetworkMoves ==
  /\ phase' \in -8 .. 7 /\ tried' \in Network \union {None} /\ link' \in {"down", "joining", "up"}
  /\ connecting' \in 0 .. 2 /\ (link' # "down" => tried' # None)
  /\ nvs' \in Network \union {None} /\ wifi_saved' \in BOOLEAN /\ booting' \in BOOLEAN
  /\ proven \subseteq proven' /\ proven' \subseteq Network
  /\ overlaps \in Nat /\ overlaps' \in Nat /\ overlaps <= overlaps'
  /\ overlaps' <= 1 =>
       /\ Install!NetworkProven'
       /\ (\E w \in Installers : Install!Busy(w)) => UNCHANGED <<tried, connecting>>
  /\ overlaps' = 0 =>
       /\ Install!NetworkSaved' /\ connecting' \in 0 .. 1 /\ (connecting' = 1 <=> phase' = 1)
       /\ Install!Installing => UNCHANGED <<phase, tried>>
       /\ ~Install!Installing => phase' \notin 2 .. 6

LEMMA ConnectionMoves ==
  ASSUME Install!LoaderAssumption, Install!Inductive, Install!Connection
  PROVE  NetworkMoves
<1>0. /\ Install!TypeOK /\ overlaps \in Nat /\ (link # "down" => tried # None)
      /\ overlaps <= 1 => Install!NetworkProven /\ Install!WorkerAlone
      /\ overlaps = 0 =>
           /\ Install!NetworkSaved /\ Install!WorkingPhase
           /\ Install!Installing => phase \in 2 .. 6 \/ phase = -5
           /\ (\E w \in Installers : Install!Busy(w)) => phase \in 2 .. 6
  BY DEF Install!Inductive, Install!TypeOK, Install!InstallSound, Install!PhaseSound,
       Install!WorkingPhase, Install!Installing, Install!Busy
<1>1. ASSUME NEW n \in Network, Install!BeginWifi(n)
      PROVE  /\ tried' = n /\ phase' \in {-2, 1} /\ link' \in {"down", "joining"}
             /\ connecting' \in 0 .. 2 /\ overlaps' \in Nat /\ overlaps <= overlaps'
             /\ overlaps' <= 1 => ~(\E w \in Installers : Install!Busy(w))
             /\ overlaps' = 0 => /\ ~Install!Installing /\ connecting' \in 0 .. 1
                                 /\ connecting' = 1 <=> phase' = 1
  <2>1. /\ tried' = n /\ phase' \in {-2, 1} /\ link' \in {"down", "joining"}
        /\ connecting \in 0 .. 2 /\ phase \notin 2 .. 6
        /\ (phase' = -2 /\ connecting' = connecting)
             \/ (phase' = 1 /\ connecting < 2 /\ connecting' = connecting + 1)
    BY <1>0, <1>1 DEF Install!BeginWifi, Install!MayConfigureWifi, Install!TypeOK
  <2>2. /\ overlaps' \in Nat /\ overlaps <= overlaps'
        /\ \/ ~Install!Installing /\ connecting = 0 /\ overlaps' = overlaps
           \/ overlaps' = overlaps + 1
    BY <1>1, HeardCounts DEF Install!BeginWifi
  <2>3. ~Install!Installing => ~(\E w \in Installers : Install!Busy(w))
    BY DEF Install!Installing, Install!Busy
  <2>4. overlaps' <= 1 => ~(\E w \in Installers : Install!Busy(w))
    <3>1. CASE overlaps' = overlaps + 1
      BY <1>0, <2>1, <2>2, <3>1
    <3>2. CASE ~Install!Installing
      BY <2>3, <3>2
    <3>3. QED
      BY <2>2, <3>1, <3>2
  <2>5. overlaps' = 0 => /\ ~Install!Installing /\ connecting' \in 0 .. 1
                         /\ connecting' = 1 <=> phase' = 1
    BY <1>0, <2>1, <2>2
  <2>6. QED
    BY <2>1, <2>2, <2>4, <2>5
<1>b. ASSUME NEW n \in Network, Install!BeginWifi(n), wifi_saved' = FALSE, booting' \in BOOLEAN,
             UNCHANGED <<nvs, proven>>
      PROVE  NetworkMoves
  <2>1. nvs \in Network \union {None} /\ proven \subseteq Network /\ None \notin Network
    BY <1>0 DEF Install!TypeOK, Install!LoaderAssumption
  <2>2. /\ tried' = n /\ phase' \in {-2, 1} /\ link' \in {"down", "joining"}
        /\ connecting' \in 0 .. 2 /\ overlaps' \in Nat /\ overlaps <= overlaps'
        /\ overlaps' <= 1 => ~(\E w \in Installers : Install!Busy(w))
        /\ overlaps' = 0 => /\ ~Install!Installing /\ connecting' \in 0 .. 1
                            /\ connecting' = 1 <=> phase' = 1
    BY <1>1, <1>b
  <2>3. overlaps' <= 1 => Install!NetworkProven'
    BY <1>0, <1>b, <2>1, <2>2 DEF Install!NetworkProven
  <2>4. overlaps' = 0 => Install!NetworkSaved'
    BY <2>2 DEF Install!NetworkSaved
  <2>5. wifi_saved' \in BOOLEAN
    BY <1>b, Zenon
  <2>6. phase' \in -8 .. 7 /\ phase' \notin 2 .. 6 /\ link' \in {"down", "joining", "up"}
    BY <2>2
  <2>7. QED
    BY <1>0, <1>b, <2>1, <2>2, <2>3, <2>4, <2>5, <2>6 DEF NetworkMoves
<1>2. ASSUME NEW n \in Network, Install!RequestWifi(n) PROVE NetworkMoves
  <2>1. Install!BeginWifi(n) /\ wifi_saved' = FALSE /\ UNCHANGED <<nvs, booting, proven>>
    BY <1>2 DEF Install!RequestWifi
  <2>2. booting' \in BOOLEAN
    BY <1>0, <2>1 DEF Install!TypeOK
  <2>3. QED
    BY <2>1, <2>2, <1>b
<1>3. ASSUME Install!ReadSavedWifi PROVE NetworkMoves
  <2>1. CASE nvs # None /\ Install!MayConfigureWifi
    <3>1. nvs \in Network /\ Install!BeginWifi(nvs) /\ wifi_saved' = FALSE /\ booting' = FALSE
          /\ UNCHANGED <<nvs, proven>>
      BY <1>0, <1>3, <2>1 DEF Install!ReadSavedWifi, Install!TypeOK
    <3>2. booting' \in BOOLEAN
      BY <3>1, Zenon
    <3>3. QED
      BY <3>1, <3>2, <1>b
  <2>2. CASE ~(nvs # None /\ Install!MayConfigureWifi)
    <3>1. /\ UNCHANGED <<phase, tried, link, connecting, nvs, proven, overlaps>>
          /\ booting' = FALSE /\ wifi_saved' = (wifi_saved \/ nvs # None)
      BY <1>3, <2>2 DEF Install!ReadSavedWifi, Install!station
    <3>2. booting' \in BOOLEAN /\ wifi_saved' \in BOOLEAN
      BY <3>1, Zenon
    <3>3. overlaps' = 0 => Install!NetworkSaved'
      BY <1>0, <3>1 DEF Install!NetworkSaved
    <3>4. overlaps' <= 1 => Install!NetworkProven'
      BY <1>0, <3>1 DEF Install!NetworkProven
    <3>5. QED
      BY <1>0, <3>1, <3>2, <3>3, <3>4 DEF NetworkMoves, Install!TypeOK, Install!WorkingPhase
  <2>3. QED
    BY <2>1, <2>2
<1>4. ASSUME Install!Address \/ Install!Disconnected PROVE NetworkMoves
  <2>1. /\ UNCHANGED <<phase, tried, connecting, nvs, wifi_saved, booting, overlaps>>
        /\ \/ link' = "down" /\ proven' = proven
           \/ link = "joining" /\ link' = "up" /\ proven' = proven \union {tried}
    BY <1>4 DEF Install!Address, Install!Disconnected, Install!memory
  <2>2. overlaps' <= 1 => Install!NetworkProven'
    BY <1>0, <2>1 DEF Install!NetworkProven
  <2>3. overlaps' = 0 => Install!NetworkSaved'
    BY <1>0, <2>1 DEF Install!NetworkSaved
  <2>4. proven' \subseteq Network
    BY <1>0, <2>1 DEF Install!TypeOK
  <2>5. QED
    BY <1>0, <2>1, <2>2, <2>3, <2>4 DEF NetworkMoves, Install!TypeOK, Install!WorkingPhase
<1>5. ASSUME Install!WifiTimeout \/ Install!WifiPersists PROVE NetworkMoves
  <2>1. /\ connecting \in 1 .. 2 /\ connecting' = connecting - 1
        /\ UNCHANGED <<tried, link, booting, proven, overlaps>> /\ phase' \in {7, -2, -8}
        /\ nvs' = nvs \/ (nvs' = tried /\ link = "up")
        /\ phase' = 7 => wifi_saved' /\ nvs' = tried /\ link = "up"
    <3>0. connecting \in 0 .. 2
      BY <1>0 DEF Install!TypeOK
    <3>1. CASE Install!WifiTimeout
      BY <3>0, <3>1 DEF Install!WifiTimeout, Install!memory
    <3>2. CASE Install!WifiPersists
      BY <3>0, <3>2 DEF Install!WifiPersists
    <3>3. QED
      BY <1>5, <3>1, <3>2
  <2>2. overlaps <= 1 => ~(\E w \in Installers : Install!Busy(w))
    BY <1>0, <2>1 DEF Install!WorkerAlone
  <2>3. overlaps = 0 => phase = 1 /\ connecting = 1 /\ connecting' = 0 /\ ~Install!Installing
    BY <1>0, <2>1 DEF Install!WorkingPhase
  <2>4. overlaps' <= 1 => Install!NetworkProven'
    BY <1>0, <2>1 DEF Install!NetworkProven
  <2>5. overlaps' = 0 => Install!NetworkSaved'
    BY <1>0, <2>1 DEF Install!NetworkSaved, Install!NetworkProven
  <2>6. wifi_saved' \in BOOLEAN
    <3>1. wifi_saved' \in {wifi_saved, TRUE, FALSE}
      BY <1>5, Zenon DEF Install!WifiTimeout, Install!WifiPersists, Install!memory
    <3>2. wifi_saved \in BOOLEAN
      BY <1>0 DEF Install!TypeOK
    <3>3. QED
      BY <3>1, <3>2, Zenon
  <2>7. QED
    BY <1>0, <2>1, <2>2, <2>3, <2>4, <2>5, <2>6 DEF NetworkMoves, Install!TypeOK
<1>6. QED
  BY <1>2, <1>3, <1>4, <1>5 DEF Install!Connection

\* What is asked of the network, and what becomes of it.
LEMMA ConnectionKeeps ==
  ASSUME Install!LoaderAssumption, Install!Inductive, Install!Connection
  PROVE  Install!Inductive'
<1>0. /\ Install!TypeOK /\ overlaps \in Nat
      /\ overlaps <= 1 => Install!InstallSound
      /\ overlaps = 0 => Install!PhaseSound
  BY DEF Install!Inductive, Install!TypeOK
<1>1. UNCHANGED <<at, card, flash, boot, running>>
  BY DEF Install!Connection, Install!RequestWifi, Install!ReadSavedWifi, Install!Address,
       Install!Disconnected, Install!WifiTimeout, Install!WifiPersists, Install!BeginWifi,
       Install!chip, Install!memory, Install!station
<1>2. NetworkMoves
  BY ConnectionMoves
<1>3. Install!TypeOK'
  BY <1>0, <1>1, <1>2 DEF NetworkMoves, Install!TypeOK, Install!Cards, Install!Contents
<1>4. ASSUME overlaps' = 0 PROVE Install!PhaseSound'
  <2>1. Install!OneWorker /\ Install!WorkingPhase
    BY <1>0, <1>2, <1>4 DEF NetworkMoves, Install!PhaseSound
  <2>2. Install!OneWorker' /\ Install!WorkingPhase'
    BY <1>1, <1>2, <1>4, <2>1 DEF NetworkMoves, Install!OneWorker, Install!WorkingPhase,
         Install!Installing
  <2>3. QED
    BY <1>2, <1>4, <2>2 DEF NetworkMoves, Install!PhaseSound
<1>5. ASSUME overlaps' <= 1 PROVE Install!InstallSound'
  <2>1. /\ Install!WorkerAlone /\ Install!CardSound /\ \A w \in Installers : Install!WorkDone(w)
        /\ proven \subseteq proven' /\ Install!NetworkProven'
        /\ (\E w \in Installers : Install!Busy(w)) => UNCHANGED <<tried, connecting>>
    BY <1>0, <1>2, <1>5 DEF NetworkMoves, Install!InstallSound
  <2>2. Install!WorkerAlone'
    BY <1>1, <2>1 DEF Install!WorkerAlone, Install!Busy
  <2>3. Install!CardSound'
    BY <1>1, <2>1 DEF Install!CardSound
  <2>4. ASSUME NEW w \in Installers PROVE Install!WorkDone(w)'
    <3>1. CASE ~Install!Busy(w)
      BY <1>1, <3>1 DEF Install!Busy, Install!WorkDone, Install!ConfigSteps, Install!FlashSteps
    <3>2. CASE Install!Busy(w)
      BY <1>1, <2>1, <3>2 DEF Install!WorkDone
    <3>3. QED
      BY <3>1, <3>2
  <2>5. QED
    BY <2>1, <2>2, <2>3, <2>4 DEF Install!InstallSound
<1>6. QED
  BY <1>2, <1>3, <1>4, <1>5 DEF NetworkMoves, Install!Inductive

\* A request to install: the network it is to use has been saved, and whoever still has a task
\* is on its way out.
LEMMA RequestInstallKeeps ==
  ASSUME Install!LoaderAssumption, Install!Inductive, NEW w \in Installers,
         Install!RequestInstall(w)
  PROVE  Install!Inductive'
<1>0. /\ Install!TypeOK /\ at \in [Installers -> Install!Steps \union {"none"}]
      /\ link # "down" => tried # None
      /\ overlaps <= 1 => Install!InstallSound
      /\ overlaps = 0 => Install!PhaseSound
  BY DEF Install!Inductive, Install!TypeOK
<1>1. /\ UNCHANGED <<tried, link, connecting, nvs, wifi_saved, booting, proven, card,
                     flash, boot, running>>
      /\ phase \in {7, -3, -4, -5, -6, -7} /\ link = "up" /\ at[w] = "none"
      /\ \/ phase' = 6 /\ at' = [at EXCEPT ![w] = "start"]
         \/ phase' = -6 /\ at' = at
  BY DEF Install!RequestInstall, Install!MayInstall, Install!station, Install!chip
<1>2. /\ at' \in [Installers -> Install!Steps \union {"none"}] /\ phase' \in -8 .. 7
      /\ \A v \in Installers : at'[v] = at[v] \/ (v = w /\ at'[v] = "start" /\ phase' = 6)
  BY <1>0, <1>1 DEF Install!Steps
<1>3. /\ overlaps \in Nat /\ overlaps' \in Nat
      /\ \/ ~Install!Installing /\ connecting = 0 /\ overlaps' = overlaps
         \/ overlaps' = overlaps + 1
  BY HeardCounts DEF Install!RequestInstall
<1>4. Install!TypeOK'
  BY <1>0, <1>1, <1>2, <1>3 DEF Install!TypeOK, Install!Cards, Install!Contents
<1>5. ASSUME overlaps' <= 1 PROVE Install!InstallSound'
  <2>0. /\ Install!NetworkProven /\ Install!CardSound /\ \A v \in Installers : Install!WorkDone(v)
        /\ tried \in proven
    BY <1>0, <1>1, <1>3, <1>5 DEF Install!InstallSound, Install!NetworkProven
  <2>1. connecting = 0 /\ \A v \in Installers : ~Install!Busy(v)
    <3>1. CASE ~Install!Installing /\ connecting = 0
      BY <3>1 DEF Install!Installing, Install!Busy
    <3>2. CASE overlaps' = overlaps + 1
      BY <1>0, <1>1, <1>3, <1>5, <3>2 DEF Install!PhaseSound, Install!WorkingPhase, Install!Busy
    <3>3. QED
      BY <1>3, <3>1, <3>2
  <2>2. Install!NetworkProven' /\ Install!CardSound'
    BY <1>1, <2>0 DEF Install!NetworkProven, Install!CardSound
  <2>3. Install!WorkerAlone'
    <3>1. \A v \in Installers : Install!Busy(v)' => v = w
      BY <1>2, <2>1 DEF Install!Busy
    <3>2. QED
      BY <1>1, <2>0, <2>1, <3>1 DEF Install!WorkerAlone
  <2>4. ASSUME NEW v \in Installers PROVE Install!WorkDone(v)'
    BY <1>2, <2>1, <2>4 DEF Install!Busy, Install!WorkDone, Install!ConfigSteps,
         Install!FlashSteps
  <2>5. QED
    BY <2>2, <2>3, <2>4 DEF Install!InstallSound
<1>6. ASSUME overlaps' = 0 PROVE Install!PhaseSound'
  <2>0. /\ Install!NetworkSaved /\ Install!WorkingPhase /\ \A v \in Installers : at[v] = "none"
    BY <1>0, <1>3, <1>6 DEF Install!PhaseSound, Install!Installing
  <2>1. Install!NetworkSaved'
    BY <1>1, <2>0 DEF Install!NetworkSaved
  <2>2. Install!OneWorker'
    BY <1>2, <2>0 DEF Install!OneWorker
  <2>3. phase' = 6 => at'[w] = "start"
    BY <1>0, <1>1
  <2>4. Install!WorkingPhase'
    BY <1>1, <1>2, <2>0, <2>3 DEF Install!WorkingPhase, Install!Installing
  <2>5. QED
    BY <2>1, <2>2, <2>4 DEF Install!PhaseSound
<1>7. QED
  BY <1>0, <1>1, <1>4, <1>5, <1>6 DEF Install!Inductive

\* A restart: nobody works, and what is on the card and in the flash stays.
LEMMA InstallRestartKeeps ==
  ASSUME Install!LoaderAssumption, Install!Inductive, Install!Restart
  PROVE  Install!Inductive'
<1>0. Install!TypeOK /\ (overlaps <= 1 => Install!InstallSound)
  BY DEF Install!Inductive
<1>1. Install!TypeOK'
  <2>1. at' \in [Installers -> Install!Steps \union {"none"}] /\ phase' \in -8 .. 7
        /\ connecting' \in 0 .. 2
    BY DEF Install!Restart
  <2>2. {boot', running'} \subseteq {"loader", "app"}
    BY <1>0 DEF Install!Restart, Install!TypeOK
  <2>3. card' \in Install!Cards /\ flash' \in Install!Contents
        /\ nvs' \in Network \union {None} /\ proven' \subseteq Network /\ overlaps' \in Nat
    BY <1>0 DEF Install!Restart, Install!TypeOK, Install!Cards, Install!Contents
  <2>4. QED
    BY <2>1, <2>2, <2>3 DEF Install!Restart, Install!TypeOK, Install!Cards, Install!Contents
<1>2. ASSUME overlaps <= 1 PROVE Install!InstallSound'
  <2>1. Install!NetworkProven' /\ Install!CardSound' /\ Install!WorkerAlone'
    BY <1>0, <1>2 DEF Install!Restart, Install!InstallSound, Install!NetworkProven,
         Install!CardSound, Install!WorkerAlone, Install!Busy
  <2>2. \A w \in Installers : Install!WorkDone(w)'
    BY DEF Install!Restart, Install!WorkDone, Install!ConfigSteps, Install!FlashSteps
  <2>3. QED
    BY <2>1, <2>2 DEF Install!InstallSound
<1>3. Install!PhaseSound'
  BY DEF Install!Restart, Install!PhaseSound, Install!NetworkSaved, Install!OneWorker,
       Install!WorkingPhase
<1>4. overlaps' = overlaps /\ link' = "down"
  BY DEF Install!Restart
<1>5. QED
  BY <1>1, <1>2, <1>3, <1>4 DEF Install!Inductive

\* Each step, and a step of others.
LEMMA InstallStepInductive ==
  Install!LoaderAssumption /\ Install!Inductive /\ [Install!Next]_(Install!vars)
    => Install!Inductive'
<1> SUFFICES ASSUME Install!LoaderAssumption, Install!Inductive,
                    [Install!Next]_(Install!vars)
             PROVE  Install!Inductive'
  OBVIOUS
<1>1. CASE Install!Next
  BY <1>1, ConnectionKeeps, RequestInstallKeeps, WorkerStepKeeps, InstallRestartKeeps DEF Install!Next
<1>2. CASE UNCHANGED Install!vars
  <2>1. UNCHANGED <<phase, tried, link, connecting, nvs, wifi_saved, booting, proven, overlaps,
                    at, card, flash, boot, running>>
    BY <1>2 DEF Install!vars, Install!station, Install!memory, Install!chip
  <2>2. Install!TypeOK'
    BY <2>1 DEF Install!Inductive, Install!TypeOK, Install!Cards
  <2>3. overlaps <= 1 => Install!InstallSound'
    BY <2>1 DEF Install!Inductive, Install!InstallSound, Install!NetworkProven,
         Install!WorkerAlone, Install!Busy, Install!CardSound, Install!WorkDone
  <2>4. overlaps = 0 => Install!PhaseSound'
    BY <2>1 DEF Install!Inductive, Install!PhaseSound, Install!NetworkSaved, Install!OneWorker,
         Install!WorkingPhase, Install!Installing
  <2>5. QED
    BY <2>1, <2>2, <2>3, <2>4 DEF Install!Inductive
<1>3. QED
  BY <1>1, <1>2

\* What the invariant says of an installation and of its phase.
LEMMA InductiveInstall ==
  Install!LoaderAssumption /\ Install!Inductive => Install!InstalledComplete /\ Install!PhaseTrue
<1> SUFFICES ASSUME Install!LoaderAssumption, Install!Inductive
             PROVE  Install!InstalledComplete /\ Install!PhaseTrue
  OBVIOUS
<1>1. Install!InstalledComplete
  BY DEF Install!Inductive, Install!InstallSound, Install!InstalledComplete,
       Install!NetworkProven, Install!CardSound
<1>2. ASSUME overlaps = 0
      PROVE  /\ phase = 1 <=> connecting = 1
             /\ phase \in {2, 3, 4, 6} <=>
                  \E w \in Installers : at[w] \notin {"none", "settle", "done"}
             /\ \A v, w \in Installers : at[v] # "none" /\ at[w] # "none" => v = w
             /\ phase = 7 => wifi_saved /\ nvs = tried
             /\ phase = 5 => boot = "app" /\ flash = "whole" /\ card.wlan = nvs
             /\ Install!MayInstall \/ Install!MayConfigureWifi =>
                  connecting = 0 /\ \A w \in Installers : at[w] \in {"none", "settle"}
  <2>0. /\ Install!TypeOK /\ Install!NetworkSaved /\ Install!OneWorker /\ Install!WorkingPhase
        /\ \A w \in Installers : Install!WorkDone(w)
    BY <1>2 DEF Install!Inductive, Install!InstallSound, Install!PhaseSound
  <2>1. phase \in {2, 3, 4, 6} <=> \E w \in Installers : at[w] \notin {"none", "settle", "done"}
    BY <2>0 DEF Install!WorkingPhase, Install!Installing
  <2>2. ASSUME phase = 5 PROVE boot = "app" /\ flash = "whole" /\ card.wlan = nvs
    <3>1. PICK w \in Installers : at[w] = "done"
      BY <2>0, <2>2 DEF Install!WorkingPhase, Install!Installing
    <3>2. QED
      BY <2>0, <2>2, <3>1 DEF Install!WorkDone, Install!FlashSteps, Install!NetworkSaved
  <2>3. (phase = 1 <=> connecting = 1) /\ (phase = 7 => wifi_saved /\ nvs = tried)
    BY <2>0 DEF Install!WorkingPhase, Install!NetworkSaved
  <2>4. ASSUME Install!MayInstall \/ Install!MayConfigureWifi
        PROVE  connecting = 0 /\ \A w \in Installers : at[w] \in {"none", "settle"}
    <3>1. phase \notin 1 .. 6 /\ phase \in -8 .. 7
      BY <2>0, <2>4 DEF Install!MayInstall, Install!MayConfigureWifi, Install!TypeOK
    <3>2. QED
      BY <2>0, <3>1 DEF Install!WorkingPhase
  <2>5. QED
    BY <2>0, <2>1, <2>2, <2>3, <2>4 DEF Install!OneWorker
<1>3. Install!PhaseTrue
  BY <1>2 DEF Install!PhaseTrue
<1>4. QED
  BY <1>1, <1>3

-----------------------------------------------------------------------------
(* The composition                                                         *)

\* The subject of a behaviour is chosen once.
LEMMA NextSubject == [Next]_vars => subject' = subject
  BY DEF Next, vars

\* The invariant of ArchiveReceiver, of the behaviours that are about it.
ReceiverInductive == subject = "receiver" => Receiver!Inductive

\* A step of such a behaviour is a step of ArchiveReceiver.
LEMMA ReceiverNext ==
  [Next]_vars /\ subject = "receiver" => [Receiver!Next]_(Receiver!vars)
<1>1. ASSUME Next, subject = "receiver" PROVE Receiver!Next
  BY <1>1 DEF Next
<1>2. ASSUME UNCHANGED vars PROVE UNCHANGED Receiver!vars
  BY <1>2 DEF vars, receiverVars, Receiver!vars, Receiver!given
<1>3. QED
  BY <1>1, <1>2

\* The invariant of ArchiveReceiver is one of the composition.
LEMMA ReceiverInvariant == Spec => []ReceiverInductive
<1>1. Init => ReceiverInductive
  BY SubsystemsAssumption, ReceiverInitInductive DEF Init, ReceiverInductive
<1>2. ReceiverInductive /\ [Next]_vars => ReceiverInductive'
  BY SubsystemsAssumption, ReceiverNext, NextSubject, ReceiverStepInductive DEF ReceiverInductive
<1>3. QED
  BY <1>1, <1>2, PTL DEF Spec

\* The invariant of SettingsStore, of the behaviours that are about it.
SettingInductive == subject = "settings" => Setting!Inductive

\* A step of such a behaviour is a step of SettingsStore.
LEMMA SettingNext ==
  [Next]_vars /\ subject = "settings" => [Setting!Next]_(Setting!vars)
<1>1. ASSUME Next, subject = "settings" PROVE Setting!Next
  BY <1>1 DEF Next
<1>2. ASSUME UNCHANGED vars PROVE UNCHANGED Setting!vars
  BY <1>2 DEF vars, settingsVars, Setting!vars, Setting!disk, Setting!history
<1>3. QED
  BY <1>1, <1>2

\* The invariant of SettingsStore is one of the composition.
LEMMA SettingInvariant == Spec => []SettingInductive
<1>1. Init => SettingInductive
  BY SubsystemsAssumption, SettingInitInductive DEF Init, SettingInductive
<1>2. SettingInductive /\ [Next]_vars => SettingInductive'
  BY SubsystemsAssumption, SettingNext, NextSubject, SettingStepInductive DEF SettingInductive
<1>3. QED
  BY <1>1, <1>2, PTL DEF Spec

\* The invariant of Mqtt, of the behaviours that are about it.
MQTTInductive == subject = "mqtt" => MQTT!Inductive

\* A step of such a behaviour is a step of Mqtt.
LEMMA MQTTNext ==
  [Next]_vars /\ subject = "mqtt" => [MQTT!Next]_(MQTT!vars)
<1>1. ASSUME Next, subject = "mqtt" PROVE MQTT!Next
  BY <1>1 DEF Next
<1>2. ASSUME UNCHANGED vars PROVE UNCHANGED MQTT!vars
  BY <1>2 DEF vars, mqttVars, MQTT!vars, MQTT!service, MQTT!session, MQTT!round
<1>3. QED
  BY <1>1, <1>2

\* The invariant of Mqtt is one of the composition.
LEMMA MQTTInvariant == Spec => []MQTTInductive
<1>1. Init => MQTTInductive
  BY SubsystemsAssumption, MQTTInitInductive DEF Init, MQTTInductive
<1>2. MQTTInductive /\ [Next]_vars => MQTTInductive'
  BY SubsystemsAssumption, MQTTNext, NextSubject, MQTTStepInductive DEF MQTTInductive
<1>3. QED
  BY <1>1, <1>2, PTL DEF Spec

\* The invariant of FlowControl, of the behaviours that are about it.
FlowInductive == subject = "flow" => Flow!Inductive

\* A step of such a behaviour is a step of FlowControl.
LEMMA FlowNext ==
  [Next]_vars /\ subject = "flow" => [Flow!Next]_(Flow!vars)
<1>1. ASSUME Next, subject = "flow" PROVE Flow!Next
  BY <1>1 DEF Next
<1>2. ASSUME UNCHANGED vars PROVE UNCHANGED Flow!vars
  BY <1>2 DEF vars, flowVars, Flow!vars, Flow!guards, Flow!pipeline, Flow!round, Flow!clock
<1>3. QED
  BY <1>1, <1>2

\* The invariant of FlowControl is one of the composition.
LEMMA FlowInvariant == Spec => []FlowInductive
<1>1. Init => FlowInductive
  BY SubsystemsAssumption, FlowInitInductive DEF Init, FlowInductive
<1>2. FlowInductive /\ [Next]_vars => FlowInductive'
  BY SubsystemsAssumption, FlowNext, NextSubject, FlowStepInductive DEF FlowInductive
<1>3. QED
  BY <1>1, <1>2, PTL DEF Spec

\* The invariant of CameraUse, of the behaviours that are about it.
CameraInductive == subject = "camera" => Camera!Inductive

\* A step of such a behaviour is a step of CameraUse.
LEMMA CameraNext ==
  [Next]_vars /\ subject = "camera" => [Camera!Next]_(Camera!vars)
<1>1. ASSUME Next, subject = "camera" PROVE Camera!Next
  BY <1>1 DEF Next
<1>2. ASSUME UNCHANGED vars PROVE UNCHANGED Camera!vars
  BY <1>2 DEF vars, cameraVars, Camera!vars, Camera!sensor, Camera!flash
<1>3. QED
  BY <1>1, <1>2

\* The invariant of CameraUse is one of the composition.
LEMMA CameraInvariant == Spec => []CameraInductive
<1>1. Init => CameraInductive
  BY SubsystemsAssumption, CameraInitInductive DEF Init, CameraInductive
<1>2. CameraInductive /\ [Next]_vars => CameraInductive'
  BY SubsystemsAssumption, CameraNext, NextSubject, CameraStepInductive DEF CameraInductive
<1>3. QED
  BY <1>1, <1>2, PTL DEF Spec

\* The invariant of Startup, of the behaviours that are about it.
StartInductive == subject = "startup" => Starts!Inductive

\* A step of such a behaviour is a step of Startup.
LEMMA StartNext ==
  [Next]_vars /\ subject = "startup" => [Starts!Next]_(Starts!startVars)
<1>1. ASSUME Next, subject = "startup" PROVE Starts!Next
  BY <1>1 DEF Next
<1>2. ASSUME UNCHANGED vars PROVE UNCHANGED Starts!startVars
  BY <1>2 DEF vars, startupVars, Starts!startVars
<1>3. QED
  BY <1>1, <1>2

\* The invariant of Startup is one of the composition.
LEMMA StartInvariant == Spec => []StartInductive
<1>1. Init => StartInductive
  BY SubsystemsAssumption, StartupInitInductive DEF Init, StartInductive
<1>2. StartInductive /\ [Next]_vars => StartInductive'
  BY SubsystemsAssumption, StartNext, NextSubject, StartupStepInductive DEF StartInductive
<1>3. QED
  BY <1>1, <1>2, PTL DEF Spec

\* The invariant of Loader, of the behaviours that are about it.
InstallInductive == subject = "loader" => Install!Inductive

\* A step of such a behaviour is a step of Loader.
LEMMA InstallNext ==
  [Next]_vars /\ subject = "loader" => [Install!Next]_(Install!vars)
<1>1. ASSUME Next, subject = "loader" PROVE Install!Next
  BY <1>1 DEF Next
<1>2. ASSUME UNCHANGED vars PROVE UNCHANGED Install!vars
  BY <1>2 DEF vars, loaderVars, Install!vars, Install!station, Install!memory, Install!chip
<1>3. QED
  BY <1>1, <1>2

\* The invariant of Loader is one of the composition.
LEMMA InstallInvariant == Spec => []InstallInductive
<1>1. Init => InstallInductive
  BY SubsystemsAssumption, InstallInitInductive DEF Init, InstallInductive
<1>2. InstallInductive /\ [Next]_vars => InstallInductive'
  BY SubsystemsAssumption, InstallNext, NextSubject, InstallStepInductive DEF InstallInductive
<1>3. QED
  BY <1>1, <1>2, PTL DEF Spec

(* What has been acknowledged is there, a capture with its image and its   *)
(* settings, and of two versions of a capture only the one on disk is      *)
(* acknowledged, for any number of workers and versions: across crashes of *)
(* a POSIX host, until its machine stops on another (write_immutable,      *)
(* sync_directory, store_capture, do_POST).                                *)
THEOREM SubsystemsReceipts == Spec => []ReceiptMeansKept
<1>1. ReceiverInductive => ReceiptMeansKept
  BY DEF ReceiverInductive, ReceiptMeansKept, Receiver!Inductive, Receiver!Kept
<1>2. QED
  BY <1>1, ReceiverInvariant, PTL

(* A settings file is one register across failed writes, power losses and  *)
(* recoveries; nobody else's settings are written over unread and a        *)
(* register keeps its scale, but where they come between a recovery's      *)
(* reading and its restoring; and a summary is one under the assumptions   *)
(* in force (recoverSettings, commit, handleProfileSettings,               *)
(* historyWorker).                                                         *)
THEOREM SubsystemsSettings == Spec => SettingsRegister
<1>1. Init => (subject = "settings" => Setting!Register!Init)
  BY SubsystemsAssumption, InitRegister DEF Init
<1>2. SettingInductive /\ [Next]_vars => [RegisterStep]_(Setting!Register!vars)
  BY SubsystemsAssumption, SettingNext, StepRegister DEF SettingInductive, RegisterStep
<1>3. SettingInductive /\ [Next]_vars => [SettingsStep]_vars
  BY SubsystemsAssumption, SettingNext, StepIndependent, StepScale DEF SettingInductive, SettingsStep
<1>4. SettingInductive => (subject = "settings" => Setting!HistoryCurrent)
  BY DEF SettingInductive, Setting!Inductive
<1>5. QED
  BY <1>1, <1>2, <1>3, <1>4, SettingInvariant, PTL DEF Spec, SettingsRegister

(* A round that reports a success had its topics accepted, and a client    *)
(* that is connected listens to the control topics unless this session was *)
(* refused them, for any number of topics (ClassFlowMQTT::doFlow,          *)
(* MQTTPublish, MQTTconnected).                                            *)
THEOREM SubsystemsMqtt == Spec => []MqttHonest
<1>1. MQTTInductive => MqttHonest
  BY InductiveHonest DEF MQTTInductive, MqttHonest
<1>2. QED
  BY <1>1, MQTTInvariant, PTL

(* Every result of a round is from its own picture, guards are with those  *)
(* who work under them, and each slot of the cadence has its round or is   *)
(* counted as missed, for every interval (ClassFlowControll::doFlow,       *)
(* ProcessingAccess, CycleSchedule::after).                                *)
THEOREM SubsystemsRounds == Spec => []RoundsKept
<1>1. FlowInductive => RoundsKept
  BY SubsystemsAssumption, InductiveSlotsKept DEF FlowInductive, RoundsKept, Flow!Inductive
<1>2. QED
  BY <1>1, FlowInvariant, PTL

(* A round exposes under the settings in use and in their light, the       *)
(* camera comes back with its frame buffer and dark but for a light        *)
(* somebody asked for, the shared memory has one user, and a free stream   *)
(* slot has no request open, for all intensities (changedCameraSettings,   *)
(* CaptureToBasisImage, psram.cpp, handler_stream).                        *)
THEOREM SubsystemsCamera == Spec => []CameraKept
<1>1. CameraInductive => CameraKept
  BY InductiveCamera DEF CameraInductive, CameraKept, Camera!Inductive
<1>2. QED
  BY <1>1, CameraInvariant, PTL

(* An application that has started uses the network settings on the card,  *)
(* and wlan.ini is torn only after a rewriting that was cut short, for all *)
(* names, signal strengths and losses of power (app_main, ReadParameter,   *)
(* ChangeHostName, LoadWlanFromFile).                                      *)
THEOREM SubsystemsStart == Spec => []StartHonest
<1>1. StartInductive => StartHonest
  BY SubsystemsAssumption DEF StartInductive, StartHonest, Starts!Inductive, Starts!StartHonest,
     Starts!TornForAReason, Starts!ReadIsOnCard
<1>2. QED
  BY <1>1, StartInvariant, PTL

(* An application that can start finds its bundle, its index, a            *)
(* configuration and a network that has worked, for all networks and any   *)
(* number of tasks, until a second request has been heard while an earlier *)
(* one still had its task; and until the first such request the loader's   *)
(* phase is true of its worker (save_wifi, seedSetupConfig,                *)
(* install_package, persist_connected_wifi, retry_install).                *)
THEOREM SubsystemsInstall == Spec => []InstallKept
<1>1. InstallInductive => InstallKept
  BY SubsystemsAssumption, InductiveInstall DEF InstallInductive, InstallKept, Install!Inductive
<1>2. QED
  BY <1>1, InstallInvariant, PTL
=============================================================================
