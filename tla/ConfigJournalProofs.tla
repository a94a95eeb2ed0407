------------------------- MODULE ConfigJournalProofs -------------------------
(***************************************************************************)
(* Proofs, for every set of configurations and every migration, of the     *)
(* safety properties of ConfigJournal.                                     *)
(***************************************************************************)
EXTENDS ConfigJournal, TLAPS

LEMMA InitInductive == Init => Inductive
  BY ConfigAssumption
  DEF Init, Inductive, TypeOK, Control, Progress, PromiseKept, JournaledPathNeverTears,
      SafeMeansRepaired, Damaged, Pcs, NoTx, Initializers, Savers, CommitSteps, WriteSteps, LastSteps

LEMMA StepInductive == Inductive /\ [Next]_vars => Inductive'
<1> SUFFICES ASSUME Inductive, [Next]_vars PROVE Inductive'
  OBVIOUS
<1> USE ConfigAssumption
    DEF Inductive, TypeOK, Control, Progress, PromiseKept, JournaledPathNeverTears,
        SafeMeansRepaired, Effective, Sides, Damaged, Record, Torn, Pcs, NoTx, Initializers,
        Savers, RecoverSteps, CommitSteps, WriteSteps, LastSteps, Results, disk, volatile
<1>1. ASSUME Crash PROVE Inductive'
  <2>1. TypeOK' /\ Control'
    BY <1>1 DEF Crash
  <2>2. Progress'
    BY <1>1 DEF Crash
  <2>3. PromiseKept' /\ JournaledPathNeverTears' /\ SafeMeansRepaired'
    BY <1>1 DEF Crash
  <2>4. QED BY <2>1, <2>2, <2>3
<1>2. ASSUME MigrateSkip PROVE Inductive'
  BY <1>2 DEF MigrateSkip
<1>3. ASSUME MigrateRename PROVE Inductive'
  <2>1. TypeOK'
    BY <1>3 DEF MigrateRename, MigrationOf
  <2>2. Control'
    BY <1>3 DEF MigrateRename, MigrationOf
  <2>3. Progress'
    BY <1>3 DEF MigrateRename, MigrationOf
  <2>4. PromiseKept'
    BY <1>3 DEF MigrateRename, MigrationOf
  <2>5. JournaledPathNeverTears'
    BY <1>3 DEF MigrateRename, MigrationOf
  <2>6. SafeMeansRepaired'
    BY <1>3 DEF MigrateRename, MigrationOf
  <2>7. QED BY <2>1, <2>2, <2>3, <2>4, <2>5, <2>6
<1>4. ASSUME MigrateOpen PROVE Inductive'
  <2>1. TypeOK'
    BY <1>4 DEF MigrateOpen
  <2>2. Control'
    BY <1>4 DEF MigrateOpen
  <2>3. Progress'
    BY <1>4 DEF MigrateOpen
  <2>4. PromiseKept'
    BY <1>4 DEF MigrateOpen
  <2>5. JournaledPathNeverTears'
    BY <1>4 DEF MigrateOpen
  <2>6. SafeMeansRepaired'
    BY <1>4 DEF MigrateOpen
  <2>7. QED BY <2>1, <2>2, <2>3, <2>4, <2>5, <2>6
<1>5. ASSUME MigrateClose PROVE Inductive'
  <2>1. TypeOK'
    BY <1>5 DEF MigrateClose
  <2>2. Control'
    BY <1>5 DEF MigrateClose
  <2>3. Progress'
    BY <1>5 DEF MigrateClose
  <2>4. PromiseKept'
    BY <1>5 DEF MigrateClose
  <2>5. JournaledPathNeverTears'
    BY <1>5 DEF MigrateClose
  <2>6. SafeMeansRepaired'
    BY <1>5 DEF MigrateClose
  <2>7. QED BY <2>1, <2>2, <2>3, <2>4, <2>5, <2>6
<1>6. ASSUME StreamTake PROVE Inductive'
  BY <1>6 DEF StreamTake
<1>7. ASSUME StreamRelease PROVE Inductive'
  BY <1>7 DEF StreamRelease
<1>8. ASSUME NEW who \in Initializers, InitBegin(who) PROVE Inductive'
  <2>1. TypeOK'
    BY <1>8 DEF InitBegin, MayInitialize, HttpBusy
  <2>2. Control'
    BY <1>8 DEF InitBegin, MayInitialize, HttpBusy
  <2>3. Progress'
    BY <1>8 DEF InitBegin, MayInitialize, HttpBusy
  <2>4. PromiseKept'
    BY <1>8 DEF InitBegin, MayInitialize, HttpBusy
  <2>5. JournaledPathNeverTears'
    BY <1>8 DEF InitBegin, MayInitialize, HttpBusy
  <2>6. SafeMeansRepaired'
    BY <1>8 DEF InitBegin, MayInitialize, HttpBusy
  <2>7. QED BY <2>1, <2>2, <2>3, <2>4, <2>5, <2>6
<1>9. ASSUME NEW who \in Initializers, InitBusy(who) PROVE Inductive'
  <2>1. TypeOK'
    <3>1. loaded' \in BOOLEAN /\ safe' \in BOOLEAN
      BY <1>9 DEF InitBusy
    <3>2. UNCHANGED <<config, journal, backup, boot, migrating, camera, pc, tx, upload, promised, raw>>
      BY <1>9 DEF InitBusy
    <3>3. QED BY <3>1, <3>2
  <2>2. Control'
    BY <1>9 DEF InitBusy, MayInitialize, HttpBusy
  <2>3. Progress'
    BY <1>9 DEF InitBusy, MayInitialize, HttpBusy
  <2>4. PromiseKept'
    BY <1>9 DEF InitBusy, MayInitialize, HttpBusy
  <2>5. JournaledPathNeverTears'
    BY <1>9 DEF InitBusy, MayInitialize, HttpBusy
  <2>6. SafeMeansRepaired'
    BY <1>9 DEF InitBusy, MayInitialize, HttpBusy
  <2>7. QED BY <2>1, <2>2, <2>3, <2>4, <2>5, <2>6
<1>10. ASSUME NEW before \in Config, NEW after \in Config, SaveConfig(before, after) PROVE Inductive'
  BY <1>10 DEF SaveConfig, HttpBusy
<1>11. ASSUME NEW after \in Config, SaveIntensity(after) PROVE Inductive'
  BY <1>11 DEF SaveIntensity, HttpBusy
<1>12. ASSUME InitEnd PROVE Inductive'
  <2>1. TypeOK'
    BY <1>12 DEF InitEnd, Release
  <2>2. Control'
    BY <1>12 DEF InitEnd, Release
  <2>3. Progress'
    BY <1>12 DEF InitEnd, Release
  <2>4. PromiseKept'
    BY <1>12 DEF InitEnd, Release
  <2>5. JournaledPathNeverTears'
    BY <1>12 DEF InitEnd, Release
  <2>6. SafeMeansRepaired'
    BY <1>12 DEF InitEnd, Release
  <2>7. QED BY <2>1, <2>2, <2>3, <2>4, <2>5, <2>6
<1>13. ASSUME SaveEnd PROVE Inductive'
  <2>1. TypeOK'
    BY <1>13 DEF SaveEnd, Release
  <2>2. Control'
    BY <1>13 DEF SaveEnd, Release
  <2>3. Progress'
    BY <1>13 DEF SaveEnd, Release
  <2>4. PromiseKept'
    BY <1>13 DEF SaveEnd, Release
  <2>5. JournaledPathNeverTears'
    BY <1>13 DEF SaveEnd, Release
  <2>6. SafeMeansRepaired'
    BY <1>13 DEF SaveEnd, Release
  <2>7. QED BY <2>1, <2>2, <2>3, <2>4, <2>5, <2>6
<1>14. ASSUME IntensityEnd PROVE Inductive'
  <2>1. TypeOK'
    BY <1>14 DEF IntensityEnd, Release
  <2>2. Control'
    BY <1>14 DEF IntensityEnd, Release
  <2>3. Progress'
    BY <1>14 DEF IntensityEnd, Release
  <2>4. PromiseKept'
    BY <1>14 DEF IntensityEnd, Release
  <2>5. JournaledPathNeverTears'
    BY <1>14 DEF IntensityEnd, Release
  <2>6. SafeMeansRepaired'
    BY <1>14 DEF IntensityEnd, Release
  <2>7. QED BY <2>1, <2>2, <2>3, <2>4, <2>5, <2>6
<1>15. ASSUME ReadJournal PROVE Inductive'
  BY <1>15 DEF ReadJournal, Recovered, Go, DiskSame
<1>16. ASSUME ReadConfig PROVE Inductive'
  BY <1>16 DEF ReadConfig, Recovered, Go, DiskSame
<1>17. ASSUME RestoreOpen PROVE Inductive'
  <2>1. TypeOK'
    BY <1>17 DEF RestoreOpen, OpenConfig, Recovered, Go, DiskSame
  <2>2. Control'
    BY <1>17 DEF RestoreOpen, OpenConfig, Recovered, Go, DiskSame
  <2>3. Progress'
    BY <1>17 DEF RestoreOpen, OpenConfig, Recovered, Go, DiskSame
  <2>4. PromiseKept'
    BY <1>17 DEF RestoreOpen, OpenConfig, Recovered, Go, DiskSame
  <2>5. JournaledPathNeverTears'
    BY <1>17 DEF RestoreOpen, OpenConfig, Recovered, Go, DiskSame
  <2>6. SafeMeansRepaired'
    BY <1>17 DEF RestoreOpen, OpenConfig, Recovered, Go, DiskSame
  <2>7. QED BY <2>1, <2>2, <2>3, <2>4, <2>5, <2>6
<1>18. ASSUME RestoreClose PROVE Inductive'
  <2>1. TypeOK'
    BY <1>18 DEF RestoreClose, CloseConfig, Recovered, Go, DiskSame
  <2>2. Control'
    BY <1>18 DEF RestoreClose, CloseConfig, Recovered, Go, DiskSame
  <2>3. Progress'
    BY <1>18 DEF RestoreClose, CloseConfig, Recovered, Go, DiskSame
  <2>4. PromiseKept'
    BY <1>18 DEF RestoreClose, CloseConfig, Recovered, Go, DiskSame
  <2>5. JournaledPathNeverTears'
    BY <1>18 DEF RestoreClose, CloseConfig, Recovered, Go, DiskSame
  <2>6. SafeMeansRepaired'
    BY <1>18 DEF RestoreClose, CloseConfig, Recovered, Go, DiskSame
  <2>7. QED BY <2>1, <2>2, <2>3, <2>4, <2>5, <2>6
<1>19. ASSUME RecoverRemove PROVE Inductive'
  BY <1>19 DEF RecoverRemove, RemoveJournal, Recovered, Go, DiskSame
<1>20. ASSUME Baseline PROVE Inductive'
  BY <1>20 DEF Baseline, Go, DiskSame
<1>21. ASSUME Attempt PROVE Inductive'
  BY <1>21 DEF Attempt, Go
<1>22. ASSUME JournalOpen PROVE Inductive'
  BY <1>22 DEF JournalOpen, Go, DiskSame
<1>23. ASSUME JournalClose PROVE Inductive'
  BY <1>23 DEF JournalClose, Go, DiskSame
<1>24. ASSUME ConfigOpen PROVE Inductive'
  BY <1>24 DEF ConfigOpen, OpenConfig, Go, DiskSame
<1>25. ASSUME ConfigClose PROVE Inductive'
  BY <1>25 DEF ConfigClose, CloseConfig, Go
<1>26. ASSUME UndoOpen PROVE Inductive'
  BY <1>26 DEF UndoOpen, OpenConfig, Go, DiskSame
<1>27. ASSUME UndoClose PROVE Inductive'
  BY <1>27 DEF UndoClose, CloseConfig, Go
<1>28. ASSUME UndoRemove PROVE Inductive'
  BY <1>28 DEF UndoRemove, RemoveJournal, Go, DiskSame
<1>29. ASSUME CommitRemove PROVE Inductive'
  BY <1>29 DEF CommitRemove, RemoveJournal, Go, DiskSame
<1>30. ASSUME Delete PROVE Inductive'
  BY <1>30 DEF Delete, HttpBusy
<1>31. ASSUME NEW bytes \in Config, UploadOpen(bytes) PROVE Inductive'
  BY <1>31 DEF UploadOpen, HttpBusy
<1>32. ASSUME UploadClose PROVE Inductive'
  <2>1. TypeOK'
    BY <1>32 DEF UploadClose
  <2>2. Control'
    BY <1>32 DEF UploadClose
  <2>3. Progress'
    BY <1>32 DEF UploadClose
  <2>4. PromiseKept'
    BY <1>32 DEF UploadClose
  <2>5. JournaledPathNeverTears'
    BY <1>32 DEF UploadClose
  <2>6. SafeMeansRepaired'
    BY <1>32 DEF UploadClose
  <2>7. QED BY <2>1, <2>2, <2>3, <2>4, <2>5, <2>6
<1>33. CASE UNCHANGED vars
  BY <1>33 DEF vars
<1>34. QED
  BY <1>1, <1>2, <1>3, <1>4, <1>5, <1>6, <1>7, <1>8, <1>9, <1>10, <1>11, <1>12, <1>13, <1>14, <1>15, <1>16, <1>17, <1>18, <1>19, <1>20, <1>21, <1>22, <1>23, <1>24, <1>25, <1>26, <1>27, <1>28, <1>29, <1>30, <1>31, <1>32, <1>33 DEF Next, Migrate, Callers, JournalStep, FileManager

\* The invariant holds in every reachable state of the device, whatever the
\* configurations, crashes, failed writes and clients.
THEOREM InductiveInvariant == Spec => []Inductive
  BY InitInductive, StepInductive, PTL DEF Spec

\* Every variable keeps its type.
THEOREM TypeCorrect == Spec => []TypeOK
  BY InductiveInvariant, PTL DEF Inductive

\* Answers given to clients stay true: a save reported as done is never undone
\* by a crash or a recovery, one reported as unchanged never takes effect.
THEOREM PromisesKept == Spec => []PromiseKept
  BY InductiveInvariant, PTL DEF Inductive

\* A journaled write can always be repaired.
THEOREM NeverTorn == Spec => []JournaledPathNeverTears
  BY InductiveInvariant, PTL DEF Inductive

\* Recognition is blocked while a journaled write waits for repair.
THEOREM RecognitionSafe == Spec => []SafeMeansRepaired
  BY InductiveInvariant, PTL DEF Inductive

\* Uploads and journaled writes exclude each other.
THEOREM UploadExclusion == Spec => []UploadNeverUnderJournal
<1>1. Inductive => UploadNeverUnderJournal
  BY DEF Inductive, Control, UploadNeverUnderJournal
<1>2. QED
  BY <1>1, InductiveInvariant, PTL

\* Damage done through the journal stays repairable, for every interleaving of
\* the writers and every point where the power may go.
THEOREM DamageStaysRepairable == Spec => []DamageRepairable
  BY NeverTorn, RecognitionSafe, UploadExclusion, PTL DEF DamageRepairable

\* The steps that write or remove the journal do so before the file is touched, or after it has
\* been found to be one of its two sides.
LEMMA StepEvidenceKept ==
  Inductive /\ [Next]_vars => (journal \in Record /\ journal' # journal => config \in Sides)
<1> SUFFICES ASSUME Inductive, [Next]_vars, journal \in Record, journal' # journal
             PROVE  config \in Sides
  OBVIOUS
<1>1. journal \notin Torn /\ journal # Missing
  BY ConfigAssumption DEF Torn, Damaged
<1>2. JournalOpen \/ JournalClose \/ RecoverRemove \/ UndoRemove \/ CommitRemove
  BY DEF Next, vars, disk, Crash, Migrate, MigrateSkip, MigrateRename, MigrateOpen, MigrateClose,
         StreamTake, StreamRelease, Callers, InitBegin, InitBusy, SaveConfig, SaveIntensity,
         InitEnd, SaveEnd, IntensityEnd, Release, JournalStep, ReadJournal, ReadConfig, RestoreOpen,
         RestoreClose, Baseline, Attempt, ConfigOpen, ConfigClose, UndoOpen, UndoClose, OpenConfig,
         CloseConfig, DiskSame, FileManager, Delete, UploadOpen, UploadClose
<1>3. CASE JournalOpen \/ JournalClose
  BY <1>1, <1>3 DEF JournalOpen, JournalClose, Inductive, Progress
<1>4. CASE RecoverRemove
  BY <1>4 DEF RecoverRemove, Inductive, Progress
<1>5. CASE UndoRemove \/ CommitRemove
  BY <1>5 DEF UndoRemove, CommitRemove, Inductive, Progress, LastSteps, Sides
<1>6. QED
  BY <1>2, <1>3, <1>4, <1>5

\* No step of a save or a recovery loses the evidence for a repair, or a
\* configuration that the client of the save has not read (ConfigJournal::commit).
THEOREM NothingEverLost == Spec => NothingLost
<1>1. Inductive /\ [Next]_vars => [(journal \in Record /\ journal' # journal) => config \in Sides]_vars
  BY StepEvidenceKept
<1>2. Inductive => [(pc = "configOpen" /\ config' # config) => (config = tx.before)]_vars
  BY DEF Inductive, Progress
<1>3. QED
  BY <1>1, <1>2, InductiveInvariant, PTL DEF Spec, NothingLost, EvidenceKept, NoLostUpdate

\* A step that leaves the promises alone settles the register inside them, or
\* changes a register nobody was promised anything about.
LEMMA SettleOrRaw ==
  ASSUME Inductive', UNCHANGED promised
  PROVE  [Atomic!Next]_(Atomic!vars)
<1>1. CASE promised = {}
  BY <1>1 DEF Inductive, TypeOK, Effective, Record, Atomic!Next, Atomic!Raw
<1>2. CASE promised # {}
  BY <1>2 DEF Inductive, PromiseKept, Atomic!Next, Atomic!Settle
<1>3. QED
  BY <1>1, <1>2

\* Every step of the journaled file is a step of the register or a stutter.
LEMMA StepRefines == Inductive /\ Inductive' /\ [Next]_vars => [Atomic!Next]_(Atomic!vars)
<1> SUFFICES ASSUME Inductive, Inductive', [Next]_vars
             PROVE  [Atomic!Next]_(Atomic!vars)
  OBVIOUS
<1>1. CASE UNCHANGED promised
  BY <1>1, SettleOrRaw
<1>2. CASE promised' = {}
  BY <1>2 DEF Inductive, TypeOK, Effective, Record, Atomic!Next, Atomic!Raw
<1>3. CASE Attempt
  <2>1. Effective = tx.before /\ UNCHANGED Effective
    BY <1>3 DEF Attempt, Inductive, Progress, TypeOK, Effective, Sides, Record, disk, Damaged,
                ConfigAssumption
  <2>2. tx.before \in Config /\ tx.after \in Config
    BY <1>3 DEF Attempt, Inductive, Control, TypeOK, Record, CommitSteps, Savers
  <2>3. QED
    BY <1>3, <2>1, <2>2 DEF Attempt, Atomic!Next, Atomic!Begin
<1>4. CASE SaveEnd \/ IntensityEnd
  <2>1. UNCHANGED Effective
    BY <1>4 DEF SaveEnd, IntensityEnd, Release, Effective, Sides, disk
  <2>2. promised' # {} /\ promised' # promised => promised' = {Effective'}
    BY <1>4 DEF SaveEnd, IntensityEnd, Inductive, PromiseKept
  <2>3. Effective \in Config \/ UNCHANGED promised \/ promised' = {}
    BY <2>1, <2>2 DEF Inductive, TypeOK, PromiseKept
  <2>4. QED
    BY <1>1, <1>2, <2>1, <2>2, <2>3 DEF Atomic!Next, Atomic!Reply
<1>5. UNCHANGED promised \/ promised' = {} \/ Attempt \/ SaveEnd \/ IntensityEnd
  BY DEF Next, vars, Crash, Migrate, MigrateSkip, MigrateRename, MigrateOpen, MigrateClose,
         StreamTake, StreamRelease, Callers, InitBegin, InitBusy, SaveConfig, SaveIntensity,
         InitEnd, JournalStep, ReadJournal, ReadConfig, RestoreOpen, RestoreClose,
         RecoverRemove, Baseline, JournalOpen, JournalClose, ConfigOpen, ConfigClose,
         UndoOpen, UndoClose, UndoRemove, CommitRemove, OpenConfig, CloseConfig,
         RemoveJournal, DiskSame, FileManager, Delete, UploadOpen, UploadClose
<1>6. QED
  BY <1>1, <1>2, <1>3, <1>4, <1>5

\* The journaled configuration file, with its crashes, failed writes and
\* recoveries, implements the atomic register of AtomicConfig.
THEOREM ImplementsAtomicConfig == Spec => AtomicRegister
<1>1. Init => Atomic!Init
  BY ConfigAssumption DEF Init, Atomic!Init, Effective, Damaged
<1>2. QED
  BY <1>1, StepRefines, InductiveInvariant, PTL DEF Spec, AtomicRegister, Atomic!Spec
=============================================================================
