------------------------ MODULE MeterCheckpointsProofs ------------------------
(***************************************************************************)
(* Proofs, for all namespaces, firmware identities and bounds, of the      *)
(* safety properties of MeterCheckpoints and of its refinement of          *)
(* MeterLedger.                                                            *)
(***************************************************************************)
EXTENDS MeterCheckpoints, TLAPS

-----------------------------------------------------------------------------
(* The two slots of a namespace                                            *)

\* The head is the newest valid slot; the other slot is the one that a save writes.
LEMMA HeadFacts ==
  ASSUME TypeOK, NEW n \in Name
  PROVE  /\ Head(n) \in Stored \cup {None} /\ Target(n) \in 0..1
         /\ Head(n) = None <=> ~Valid(n, 0) /\ ~Valid(n, 1)
         /\ Head(n) # None => Valid(n, 1 - Target(n)) /\ Head(n) = slot[n][1 - Target(n)]
  BY SentinelAssumption DEF TypeOK, Head, Target, Newest, Valid

\* The head's generation, or 0, is within the bound.
LEMMA GenerationType ==
  ASSUME TypeOK, NEW n \in Name
  PROVE  Generation(n) \in 0..GenLimit
  BY HeadFacts, CheckpointAssumption DEF Generation, Stored

\* What is found in a namespace depends on its two slots only.
LEMMA SameSlots ==
  ASSUME NEW n \in Name, UNCHANGED slot[n]
  PROVE  /\ Head(n)' = Head(n) /\ Generation(n)' = Generation(n) /\ Target(n)' = Target(n)
         /\ identity' = identity => FoundStatus(n)' = FoundStatus(n)
  BY DEF Head, Generation, Target, Newest, Valid, FoundStatus, Present, Contradictory

\* Opening the slot for a save never touches the head.
LEMMA TearKeepsHead ==
  ASSUME TypeOK, NEW n \in Name, slot' = [slot EXCEPT ![n][Target(n)] = Torn]
  PROVE  /\ Head(n)' = Head(n) /\ Generation(n)' = Generation(n) /\ Target(n)' = Target(n)
         /\ \A m \in Name \ {n} : slot'[m] = slot[m]
         /\ SlotsOrdered => SlotsOrdered'
<1>1. PICK t \in {0, 1} : t = Target(n)
  BY HeadFacts
<1>2. /\ \A m \in Name \ {n} : slot'[m] = slot[m]
      /\ slot'[n][t] = Torn /\ slot'[n][1 - t] = slot[n][1 - t]
  BY <1>1 DEF TypeOK
<1>3. ~Valid(n, t)' /\ (Valid(n, 1 - t)' <=> Valid(n, 1 - t))
  BY <1>2, SentinelAssumption DEF Valid
<1>4. /\ Head(n) = None <=> ~Valid(n, 0) /\ ~Valid(n, 1)
      /\ Head(n) # None => Valid(n, 1 - t) /\ Head(n) = slot[n][1 - t]
  BY <1>1, HeadFacts
<1>5. Head(n)' = Head(n) /\ Target(n)' = Target(n)
  <2>1. CASE Head(n) = None
    <3>1. t = 0 /\ ~Valid(n, 0)' /\ ~Valid(n, 1)'
      BY <1>1, <1>3, <1>4, <2>1 DEF Target
    <3>2. QED
      BY <1>1, <2>1, <3>1 DEF Head, Target
  <2>2. CASE Head(n) # None
    <3>1. Newest(n)' = 1 - t /\ Head(n)' = slot'[n][1 - t]
      BY <1>1, <1>3, <1>4, <2>2 DEF Head, Newest
    <3>2. Head(n)' = Head(n)
      BY <1>2, <1>4, <2>2, <3>1
    <3>3. QED
      BY <1>1, <2>2, <3>1, <3>2 DEF Target
  <2>3. QED
    BY <2>1, <2>2
<1>6. SlotsOrdered => SlotsOrdered'
  BY <1>1, <1>2, <1>3 DEF SlotsOrdered, Valid
<1>7. QED
  BY <1>2, <1>5, <1>6 DEF Generation

\* A completed save is the new head.
LEMMA WriteMakesHead ==
  ASSUME TypeOK, NEW n \in Name, NEW r \in Stored, r.generation = Generation(n) + 1,
         slot' = [slot EXCEPT ![n][Target(n)] = r]
  PROVE  /\ Head(n)' = r
         /\ \A m \in Name \ {n} : slot'[m] = slot[m]
         /\ SlotsOrdered => SlotsOrdered'
<1>1. PICK t \in {0, 1} : t = Target(n)
  BY HeadFacts
<1>2. /\ \A m \in Name \ {n} : slot'[m] = slot[m]
      /\ slot'[n][t] = r /\ slot'[n][1 - t] = slot[n][1 - t]
  BY <1>1 DEF TypeOK
<1>3. Valid(n, t)' /\ (Valid(n, 1 - t)' <=> Valid(n, 1 - t))
  BY <1>2 DEF Valid
<1>4. Valid(n, 1 - t) => slot'[n][1 - t].generation \in Nat /\ r.generation > slot'[n][1 - t].generation
  <2>1. SUFFICES ASSUME Valid(n, 1 - t)
                 PROVE  slot'[n][1 - t].generation \in Nat /\ r.generation > slot'[n][1 - t].generation
    OBVIOUS
  <2>2. Head(n) # None /\ Head(n) = slot[n][1 - t]
    BY <1>1, <2>1, HeadFacts
  <2>3. Generation(n) = slot[n][1 - t].generation /\ Generation(n) \in Nat
    BY <2>2, GenerationType DEF Generation
  <2>4. QED
    BY <1>2, <2>3
<1>5. Head(n)' = r
  <2>1. CASE t = 0
    <3>1. Valid(n, 0)' /\ slot'[n][0] = r /\ r.generation \in Nat
      BY <1>2, <1>3, <2>1 DEF Stored
    <3>2. Valid(n, 1)' => slot'[n][1].generation \in Nat /\ r.generation > slot'[n][1].generation
      BY <1>3, <1>4, <2>1
    <3>3. Newest(n)' = 0
      BY <3>1, <3>2 DEF Newest
    <3>4. QED
      BY <3>1, <3>3 DEF Head
  <2>2. CASE t = 1
    BY <1>2, <1>3, <1>4, <2>2 DEF Head, Newest
  <2>3. QED
    BY <2>1, <2>2
<1>6. SlotsOrdered => SlotsOrdered'
  <2>1. SUFFICES ASSUME SlotsOrdered, NEW m \in Name, Valid(m, 0)', Valid(m, 1)'
                 PROVE  slot'[m][0].generation # slot'[m][1].generation
    BY DEF SlotsOrdered
  <2>2. CASE m = n
    <3>1. r.generation # slot'[n][1 - t].generation
      BY <1>3, <1>4, <2>1, <2>2 DEF Valid, Stored
    <3>2. QED
      BY <1>2, <2>2, <3>1
  <2>3. CASE m # n
    BY <1>2, <2>1, <2>3 DEF SlotsOrdered, Valid
  <2>4. QED
    BY <2>2, <2>3
<1>7. QED
  BY <1>2, <1>5, <1>6

\* A usable load found the newest record of this firmware, or nothing.
LEMMA UsableFound ==
  ASSUME TypeOK, NEW n \in Name, FoundStatus(n) \in Usable
  PROVE  /\ Head(n) = None => FoundStatus(n) = "Empty"
         /\ Head(n) # None => /\ Head(n).checkpoint.by = identity
                              /\ FoundStatus(n) \in {"Ready", "RecoveredOlder"}
<1>1. Head(n) # None => Present(n, 0) \/ Present(n, 1)
  BY HeadFacts, SentinelAssumption DEF Valid, Present
<1>2. QED
  BY <1>1 DEF FoundStatus, Usable

\* A head written by this firmware is found by its load.
LEMMA HeadFound ==
  ASSUME SlotsOrdered', NEW n \in Name, Head(n)' # None, Head(n)'.checkpoint.by = identity'
  PROVE  FoundStatus(n)' \in {"Ready", "RecoveredOlder"}
<1>1. Valid(n, 0)' \/ Valid(n, 1)'
  BY DEF Head
<1>2. Present(n, 0)' \/ Present(n, 1)'
  BY <1>1, SentinelAssumption DEF Valid, Present
<1>3. ~Contradictory(n)'
  BY DEF Contradictory, SlotsOrdered
<1>4. QED
  BY <1>2, <1>3 DEF FoundStatus

-----------------------------------------------------------------------------
(* Types                                                                   *)

\* The record fields of an active meter are typed.
LEMMA ActiveType ==
  ASSUME TypeOK, active # None
  PROVE  /\ active \in Active /\ active.name \in Name /\ active.since \in 0..MaxCapture
         /\ active.session \in Session /\ active.recovery \in Recovery
  BY DEF TypeOK, Active

\* What a load returns is typed.
LEMMA LoadType ==
  ASSUME NEW n \in Name
  PROVE  LoadStatuses(n) \subseteq StoreStatus
  BY DEF LoadStatuses, FoundStatus, StoreStatus, Usable

\* A load that is usable is what the two reads found.
LEMMA LoadUsable ==
  ASSUME NEW n \in Name, NEW status \in LoadStatuses(n) \cap Usable
  PROVE  status = FoundStatus(n)
  BY DEF LoadStatuses, Usable

\* What an observation would save is typed.
LEMMA CandidateType ==
  ASSUME TypeOK, NEW n \in Name, NEW status \in LoadStatuses(n) \cap Usable
  PROVE  Candidate(n, status) \in Active
<1>1. status = FoundStatus(n) /\ status \in StoreStatus
  BY LoadUsable DEF StoreStatus
<1>2. Restores(status) => Head(n) # None /\ Head(n).checkpoint \in Checkpoint
  BY <1>1, HeadFacts, UsableFound DEF Restores, Stored, Usable
<1>3. ASSUME Restores(status)
      PROVE  Head(n).checkpoint.reference \in Frame
  BY <1>2, <1>3 DEF Checkpoint
<1>4. clock \in 0..MaxCapture
  BY DEF TypeOK
<1>5. Candidate(n, status).session \in Session
  <2>1. Restores(status) \in BOOLEAN
    BY DEF Restores
  <2>2. QED
    BY <1>3, <2>1 DEF Candidate, Session, SessionStates
<1>6. Candidate(n, status).recovery \in Recovery
  BY <1>1, <1>2 DEF Candidate, Recovery
<1>7. QED
  BY <1>4, <1>5, <1>6 DEF Candidate, Active

\* What a finished save leaves in memory is typed.
LEMMA AcceptedType ==
  ASSUME NEW session \in Session, NEW frame \in Frame
  PROVE  Accepted(session, frame) \in Session
  BY DEF Accepted, Session, SessionStates

\* Each step of a save ends it, goes on to the next storage call, or has archived the segment.
LEMMA SaveStep ==
  ASSUME TypeOK, Owned, Save
  PROVE  /\ active # None /\ UNCHANGED <<setting, boot, identity, clock, attempted>>
         /\ \/ \E r \in Recovery : Finish(r)
            \/ \E label \in {"archiveClose", "slot", "slotClose"} : Proceed(label)
            \/ Archived
<1>1. active # None /\ active.recovery \in Recovery
  <2>1. pc \in Saving
    BY DEF Save, SaveRefused, ArchiveFails, ArchiveOpen, ArchiveClose, AlreadyArchived, NothingToArchive,
           SlotFails, SlotOpen, SlotClose, MaySave, Saving
  <2>2. QED
    BY <2>1, ActiveType DEF Owned
<1>2. ASSUME NEW status \in StoreStatus, Fail(status) PROVE \E r \in Recovery : Finish(r)
  BY <1>1, <1>2 DEF Fail, Recovery
<1>3. SlotFails => \E r \in Recovery : Finish(r)
  BY <1>1, <1>2, LoadType, ActiveType DEF SlotFails, StoreStatus
<1>4. SaveRefused \/ ArchiveFails => \E r \in Recovery : Finish(r)
  BY <1>1, <1>2 DEF SaveRefused, ArchiveFails, StoreStatus
<1>5. ArchiveOpen \/ NothingToArchive \/ SlotOpen =>
        \E label \in {"archiveClose", "slot", "slotClose"} : Proceed(label)
  BY DEF ArchiveOpen, NothingToArchive, SlotOpen
<1>6. AlreadyArchived => Archived
  BY DEF AlreadyArchived
<1>7. ArchiveClose => Archived \/ \E r \in Recovery : Finish(r)
  BY <1>1, <1>2 DEF ArchiveClose, StoreStatus
<1>8. SlotClose => \E r \in Recovery : Finish(r)
  <2>1. [active.recovery EXCEPT !.status = "Saved"] \in Recovery
    BY <1>1 DEF Recovery, StoreStatus, Usable
  <2>2. QED
    BY <1>2, <2>1 DEF SlotClose, StoreStatus
<1>9. \/ \E r \in Recovery : Finish(r)
      \/ \E label \in {"archiveClose", "slot", "slotClose"} : Proceed(label)
      \/ Archived
  BY <1>3, <1>4, <1>5, <1>6, <1>7, <1>8 DEF Save
<1>10. QED
  BY <1>1, <1>9 DEF Finish, Proceed, Archived

\* The variables in memory, and those of the device.
LEMMA StepMemoryType ==
  ASSUME Inductive, [Next]_vars
  PROVE  /\ setting' \in Name /\ boot' \in 1..MaxBoot /\ identity' \in Identity
         /\ clock' \in 0..MaxCapture
         /\ attempted' \in BOOLEAN /\ settingsError' \in BOOLEAN /\ lastStatus' \in StoreStatus
         /\ active' \in Active \cup {None} /\ next' \in Active \cup {None}
         /\ pc' \in {"idle", "cycle", "save", "archiveClose", "slot", "slotClose"}
<1> DEFINE Memory ==
             /\ setting' \in Name /\ boot' \in 1..MaxBoot /\ identity' \in Identity
             /\ clock' \in 0..MaxCapture
             /\ attempted' \in BOOLEAN /\ settingsError' \in BOOLEAN /\ lastStatus' \in StoreStatus
             /\ active' \in Active \cup {None} /\ next' \in Active \cup {None}
             /\ pc' \in {"idle", "cycle", "save", "archiveClose", "slot", "slotClose"}
<1>1. /\ setting \in Name /\ boot \in 1..MaxBoot /\ identity \in Identity /\ clock \in 0..MaxCapture
      /\ attempted \in BOOLEAN /\ settingsError \in BOOLEAN /\ lastStatus \in StoreStatus
      /\ active \in Active \cup {None} /\ next \in Active \cup {None}
      /\ pc \in {"idle", "cycle", "save", "archiveClose", "slot", "slotClose"}
      /\ TypeOK /\ Owned
  BY DEF Inductive, TypeOK
<1>2. ASSUME BeginCycle \/ RejectReading PROVE Memory
  <2>1. ASSUME BeginCycle, active # None, active.session.observed PROVE active' \in Active
    BY <1>1, <2>1 DEF BeginCycle, Active, Session, SessionStates
  <2>2. ASSUME RejectReading PROVE active' \in Active
    BY <1>1, <2>2 DEF RejectReading, Active, Session, SessionStates
  <2>3. QED
    BY <1>1, <1>2, <2>1, <2>2 DEF BeginCycle, RejectReading
<1>3. ASSUME InitializeFails PROVE Memory
  <2>1. lastStatus' \in StoreStatus
    BY <1>1, <1>3, LoadType DEF InitializeFails
  <2>2. QED
    BY <1>1, <1>3, <2>1 DEF InitializeFails
<1>4. ASSUME Initialize PROVE Memory
  <2>1. lastStatus' \in StoreStatus /\ active' \in Active
    BY <1>1, <1>4, CandidateType DEF Initialize, StoreStatus
  <2>2. QED
    BY <1>1, <1>4, <2>1 DEF Initialize
<1>5. ASSUME Observe PROVE Memory
  <2>1. clock + 1 \in 1..MaxCapture /\ boot \in 1..MaxBoot
    BY <1>1, <1>5, CheckpointAssumption DEF Observe
  <2>2. [boot |-> boot, at |-> clock + 1] \in Frame
    BY <2>1 DEF Frame
  <2>3. active \in Active /\ Accepted(active.session, [boot |-> boot, at |-> clock + 1]) \in Session
    BY <1>1, <1>5, <2>2, ActiveType, AcceptedType DEF Observe
  <2>4. active' \in Active
    BY <1>5, <2>3 DEF Observe, Active
  <2>5. QED
    BY <1>1, <1>5, <2>1, <2>4 DEF Observe
<1>6. ASSUME Save PROVE Memory
  <2>1. UNCHANGED <<setting, boot, identity, clock, attempted>> /\ active \in Active
    BY <1>1, <1>6, SaveStep
  <2>2. ASSUME NEW r \in Recovery, Finish(r) PROVE Memory
    <3>1. [active EXCEPT !.recovery = r] \in Active
      BY <2>1 DEF Active
    <3>2. next # None => next.recovery.status \in StoreStatus
      BY <1>1 DEF Active, Recovery
    <3>3. active' \in Active /\ lastStatus' \in StoreStatus
      BY <1>1, <2>2, <3>1, <3>2 DEF Finish, Recovery
    <3>4. QED
      BY <1>1, <2>1, <2>2, <3>3 DEF Finish
  <2>3. ASSUME NEW label \in {"archiveClose", "slot", "slotClose"}, Proceed(label) PROVE Memory
    BY <1>1, <2>1, <2>3 DEF Proceed
  <2>4. ASSUME Archived PROVE Memory
    <3>1. active' \in Active
      BY <2>1, <2>4 DEF Archived, Active, Recovery, StoreStatus, Usable
    <3>2. QED
      BY <1>1, <2>1, <2>4, <3>1 DEF Archived
  <2>5. QED
    BY <1>1, <1>6, <2>2, <2>3, <2>4, SaveStep
<1>7. ASSUME NEW n \in Name, ApplySame(n) PROVE Memory
  BY <1>1, <1>7 DEF ApplySame, Apply, Active, Recovery
<1>8. ASSUME NEW n \in Name, ApplyFails(n) PROVE Memory
  <2>1. lastStatus' \in StoreStatus
    BY <1>1, <1>8, LoadType DEF ApplyFails
  <2>2. QED
    BY <1>1, <1>8, <2>1 DEF ApplyFails, Apply
<1>9. ASSUME NEW n \in Name, ApplyNew(n) PROVE Memory
  <2>1. lastStatus' \in StoreStatus /\ Candidate(n, lastStatus') \in Active
    BY <1>1, <1>9, CandidateType DEF ApplyNew, StoreStatus
  <2>2. QED
    BY <1>1, <1>9, <2>1 DEF ApplyNew, Apply
<1>10. ASSUME Restart PROVE Memory
  <2>1. boot + 1 \in 1..MaxBoot
    BY <1>1, <1>10, CheckpointAssumption DEF Restart
  <2>2. QED
    BY <1>1, <1>10, <2>1 DEF Restart, StoreStatus, Usable, disk
<1>11. ASSUME EndCycle \/ UNCHANGED vars PROVE Memory
  BY <1>1, <1>11 DEF EndCycle, vars, ram
<1>12. QED
  BY <1>2, <1>3, <1>4, <1>5, <1>6, <1>7, <1>8, <1>9, <1>10, <1>11 DEF Next, Cycle, Switch

-----------------------------------------------------------------------------
(* What a step does to the card                                            *)

\* One storage call of the owner, on the namespace in use.
StorageCall(n) ==
  /\ active # None /\ n = active.name /\ pc \in Saving
  /\ active.recovery.status \in Usable /\ active.session.reference # None
  /\ boot' = boot /\ clock' = clock /\ identity' = identity
  /\ \A m \in Name \ {n} : UNCHANGED <<slot[m], archive[m], damaged[m]>>

\* The archive file of the restored segment is complete.
Archives(n) ==
  /\ UNCHANGED slot
  /\ Head(n) # None /\ Head(n).checkpoint.anchor # None
  /\ active.recovery.pending = Head(n).checkpoint
  /\ archive' = [archive EXCEPT ![n] = @ \cup {Head(n).checkpoint}]

\* The checkpoint is complete.
Writes(n) ==
  /\ UNCHANGED archive
  /\ pc = "slotClose" /\ active.recovery.pending = None
  /\ Head(n)' = SlotRecord /\ SlotRecord \in Stored

\* A written slot holds a stored record.
LEMMA SlotRecordType ==
  ASSUME Inductive, pc = "slotClose"
  PROVE  SlotRecord \in Stored /\ SlotRecord.generation = Generation(active.name) + 1
<1>1. active # None /\ active.session.reference # None /\ Generation(active.name) # GenLimit /\ TypeOK
  BY DEF Inductive, Owned, Saving
<1>2. /\ active.name \in Name /\ active.session.reference \in Frame
      /\ active.session.anchor \in Frame \cup {None} /\ identity \in Identity
  BY <1>1, ActiveType DEF Session, TypeOK
<1>3. Generation(active.name) + 1 \in 1..GenLimit
  BY <1>1, <1>2, GenerationType, CheckpointAssumption
<1>4. QED
  BY <1>2, <1>3 DEF SlotRecord, Stored, Checkpoint

\* What a step does to the slots keeps the card's part of the invariant.
LEMMA CardStep ==
  ASSUME Inductive, [Next]_vars
  PROVE  \/ UNCHANGED disk /\ clock' >= clock
         \/ \E n \in Name :
              /\ StorageCall(n) /\ SlotsOrdered'
              /\ \/ UNCHANGED archive /\ Head(n)' = Head(n)
                 \/ Archives(n) \/ Writes(n)
<1> USE DEF disk
<1>1. clock \in Nat /\ TypeOK /\ SlotsOrdered
  BY DEF Inductive, TypeOK
<1>2. UNCHANGED slot => SlotsOrdered'
  BY <1>1 DEF SlotsOrdered, Valid
<1>3. ASSUME active # None
      PROVE  /\ active.name \in Name /\ active.session.reference \in Frame \cup {None}
             /\ active.session.anchor \in Frame \cup {None} /\ identity \in Identity
  BY <1>3 DEF Inductive, TypeOK, Active, Session
<1>4. ASSUME ArchiveOpen \/ (pc = "archiveClose" /\ ArchiveComplete /\ UNCHANGED <<boot, clock, identity>>)
      PROVE  \E n \in Name :
               /\ StorageCall(n) /\ SlotsOrdered'
               /\ (UNCHANGED archive /\ Head(n)' = Head(n)) \/ Archives(n)
  <2>1. active # None /\ active.recovery.writable /\ active.session.reference # None
          /\ active.recovery.status \in Usable /\ active.recovery.pending # None /\ pc \in Saving
    BY <1>4 DEF ArchiveOpen, MaySave, Pending, Inductive, Owned, Saving
  <2>2. PICK n \in Name : n = active.name
    BY <1>3, <2>1
  <2>3. Head(n) # None /\ active.recovery.pending = Head(n).checkpoint /\ Head(n).checkpoint.anchor # None
    BY <2>1, <2>2 DEF Inductive, Sound, Continues
  <2>4. UNCHANGED <<slot, boot, clock, identity>> /\ Head(n)' = Head(n)
    BY <1>4, SameSlots DEF ArchiveOpen, ArchiveComplete, Proceed
  <2>5. \A m \in Name \ {n} : UNCHANGED <<slot[m], archive[m], damaged[m]>>
    BY <1>1, <1>4, <2>2, <2>4 DEF ArchiveOpen, ArchiveComplete, TypeOK
  <2>6. UNCHANGED archive \/ archive' = [archive EXCEPT ![n] = @ \cup {Head(n).checkpoint}]
    BY <1>4, <2>2, <2>3 DEF ArchiveOpen, ArchiveComplete, Pending
  <2>7. QED
    BY <1>2, <2>1, <2>2, <2>3, <2>4, <2>5, <2>6 DEF StorageCall, Archives
<1>5. ASSUME SlotOpen
      PROVE  \E n \in Name : StorageCall(n) /\ SlotsOrdered' /\ UNCHANGED archive /\ Head(n)' = Head(n)
  <2>1. active # None /\ active.session.reference # None /\ active.recovery.status \in Usable /\ pc \in Saving
    BY <1>5 DEF SlotOpen, Inductive, Owned, Saving
  <2>2. PICK n \in Name : n = active.name
    BY <1>3, <2>1
  <2>3. slot' = [slot EXCEPT ![n][Target(n)] = Torn] /\ UNCHANGED <<archive, damaged, boot, clock, identity>>
    BY <1>5, <2>2 DEF SlotOpen, Proceed
  <2>4. Head(n)' = Head(n) /\ SlotsOrdered' /\ \A m \in Name \ {n} : slot'[m] = slot[m]
    BY <1>1, <2>3, TearKeepsHead
  <2>5. QED
    BY <2>1, <2>2, <2>3, <2>4 DEF StorageCall
<1>6. ASSUME pc = "slotClose", SlotComplete, UNCHANGED <<boot, clock, identity>>
      PROVE  \E n \in Name : StorageCall(n) /\ SlotsOrdered' /\ Writes(n)
  <2>1. active # None /\ active.session.reference # None /\ active.recovery.status \in Usable /\ pc \in Saving
          /\ active.recovery.pending = None
    BY <1>6 DEF Inductive, Owned, Saving
  <2>2. PICK n \in Name : n = active.name
    BY <1>3, <2>1
  <2>3. SlotRecord \in Stored /\ SlotRecord.generation = Generation(n) + 1
    BY <1>6, <2>2, SlotRecordType
  <2>4. slot' = [slot EXCEPT ![n][Target(n)] = SlotRecord] /\ UNCHANGED <<archive, damaged>>
    BY <1>6, <2>2 DEF SlotComplete
  <2>5. Head(n)' = SlotRecord /\ SlotsOrdered' /\ \A m \in Name \ {n} : slot'[m] = slot[m]
    BY <1>1, <2>3, <2>4, WriteMakesHead
  <2>6. QED
    BY <1>6, <2>1, <2>2, <2>3, <2>4, <2>5 DEF StorageCall, Writes
<1>7. Cycle => UNCHANGED disk /\ clock' >= clock
  BY <1>1 DEF Cycle, BeginCycle, EndCycle, InitializeFails, Initialize, RejectReading, Observe
<1>8. Switch \/ Restart => UNCHANGED disk /\ clock' = clock
  BY DEF Switch, ApplySame, ApplyFails, ApplyNew, Apply, Restart
<1>9. ASSUME Save
      PROVE  \/ UNCHANGED disk /\ clock' = clock
             \/ ArchiveOpen \/ SlotOpen
             \/ pc = "archiveClose" /\ ArchiveComplete /\ UNCHANGED <<boot, clock, identity>>
             \/ pc = "slotClose" /\ SlotComplete /\ UNCHANGED <<boot, clock, identity>>
  BY <1>9 DEF Save, SaveRefused, ArchiveFails, ArchiveClose, AlreadyArchived, NothingToArchive, SlotFails,
              SlotClose, Fail, Finish, Archived, Proceed
<1>10. QED
  BY <1>1, <1>4, <1>5, <1>6, <1>7, <1>8, <1>9 DEF Next, vars

\* What is on the card was captured, and different segments cover different times.
LEMMA StepCard ==
  ASSUME Inductive, [Next]_vars
  PROVE  SlotsOrdered' /\ CardPast' /\ SegmentsDisjoint'
<1>1. clock \in Nat /\ TypeOK /\ SlotsOrdered /\ CardPast /\ SegmentsDisjoint
  BY DEF Inductive, TypeOK
<1>2. CASE UNCHANGED disk /\ clock' >= clock
  <2>1. \A n \in Name : Head(n)' = Head(n) /\ archive'[n] = archive[n] /\ Segments(n)' = Segments(n)
    BY <1>2, SameSlots DEF disk, Segments
  <2>2. SlotsOrdered'
    BY <1>1, <1>2 DEF SlotsOrdered, Valid, disk
  <2>3. CardPast'
    <3>1. clock' \in Nat \/ clock' >= clock
      BY <1>2
    <3>2. \A n \in Name : /\ Head(n) # None => Head(n).checkpoint.reference.at \in Nat
                          /\ \A c \in archive[n] : c.reference.at \in Nat
      BY <1>1, HeadFacts DEF TypeOK, Stored, Checkpoint, Frame
    <3>3. clock' \in Nat
      BY StepMemoryType
    <3>4. QED
      BY <1>1, <1>2, <2>1, <3>2, <3>3 DEF CardPast
  <2>4. SegmentsDisjoint'
    BY <1>1, <2>1 DEF SegmentsDisjoint
  <2>5. QED
    BY <2>2, <2>3, <2>4
<1>3. ASSUME NEW n \in Name, StorageCall(n), SlotsOrdered',
             (UNCHANGED archive /\ Head(n)' = Head(n)) \/ Archives(n) \/ Writes(n)
      PROVE  SlotsOrdered' /\ CardPast' /\ SegmentsDisjoint'
  <2>1. clock' = clock /\ \A m \in Name \ {n} : Head(m)' = Head(m) /\ archive'[m] = archive[m]
    BY <1>3, SameSlots DEF StorageCall
  <2>2. \A m \in Name \ {n} : Segments(m)' = Segments(m)
    BY <2>1 DEF Segments
  <2>3. SUFFICES /\ Head(n)' # None => Head(n)'.checkpoint.reference.at <= clock
                 /\ \A c \in archive'[n] : c.anchor # None /\ c.reference.at <= clock
                 /\ \A a, b \in Segments(n)' :
                      a.anchor # b.anchor => a.reference.at < b.anchor.at \/ b.reference.at < a.anchor.at
    BY <1>1, <1>3, <2>1, <2>2 DEF CardPast, SegmentsDisjoint
  <2>4. CASE UNCHANGED archive /\ Head(n)' = Head(n)
    BY <1>1, <2>4 DEF CardPast, SegmentsDisjoint, Segments
  <2>5. CASE Archives(n)
    <3>1. Head(n)' = Head(n) /\ archive'[n] = archive[n] \cup {Head(n).checkpoint}
            /\ Head(n) # None /\ Head(n).checkpoint.anchor # None
      BY <1>1, <2>5, SameSlots DEF Archives, TypeOK
    <3>2. Segments(n)' = Segments(n)
      BY <3>1 DEF Segments
    <3>3. QED
      BY <1>1, <3>1, <3>2 DEF CardPast, SegmentsDisjoint
  <2>6. CASE Writes(n)
    <3> DEFINE new == SlotRecord.checkpoint
    <3>1. /\ archive'[n] = archive[n] /\ Head(n)' = SlotRecord /\ SlotRecord \in Stored
          /\ new.reference = active.session.reference /\ new.anchor = active.session.anchor
      BY <2>6 DEF Writes, SlotRecord
    <3>2. /\ active # None /\ n = active.name /\ Measures(active) /\ Continues(active)
          /\ active.session.reference # None /\ active \in Active
      BY <1>3 DEF StorageCall, Inductive, Sound, TypeOK
    <3>3. new.reference.at <= clock
      BY <3>1, <3>2 DEF Measures
    <3>4. ASSUME NEW c \in Segments(n), new.anchor # None, c.anchor # new.anchor
          PROVE  c.reference.at < new.anchor.at
      <4>1. c.reference.at <= active.since /\ active.since < new.anchor.at
        BY <3>1, <3>2, <3>4 DEF Continues, Measures
      <4>2. c \in Checkpoint /\ new \in Checkpoint
        BY <1>1, <3>1, HeadFacts DEF Segments, TypeOK, Stored
      <4>3. c.reference.at \in Nat /\ new.anchor.at \in Nat /\ active.since \in Nat
        BY <3>2, <3>4, <4>2 DEF Checkpoint, Frame, Active
      <4>4. QED
        BY <4>1, <4>3
    <3>5. Segments(n)' \subseteq Segments(n) \cup (IF new.anchor = None THEN {} ELSE {new})
      BY <3>1 DEF Segments
    <3>6. QED
      BY <1>1, <3>1, <3>3, <3>4, <3>5 DEF CardPast, SegmentsDisjoint
  <2>7. QED
    BY <1>3, <2>4, <2>5, <2>6
<1>4. QED
  BY <1>2, <1>3, CardStep

\* Every step keeps the types.
LEMMA StepType == ASSUME Inductive, [Next]_vars PROVE TypeOK'
<1>1. TypeOK /\ \A n \in Name : Head(n) # None => Head(n).checkpoint \in Checkpoint
  BY HeadFacts DEF Inductive, Stored
<1>2. ASSUME active # None, active.recovery.pending # None
      PROVE  /\ active.name \in Name /\ active.recovery.pending \in Checkpoint
             /\ Path(active.recovery.pending) \in Paths
  <2>1. active.name \in Name /\ active.recovery.pending = Head(active.name).checkpoint
          /\ active.recovery.pending.anchor # None /\ Head(active.name) # None
    BY <1>1, <1>2, ActiveType DEF Inductive, Sound, Continues
  <2>2. QED
    BY <1>1, <2>1 DEF Checkpoint, Path, Paths
<1>3. archive' \in [Name -> SUBSET Checkpoint] /\ damaged' \in [Name -> SUBSET Paths]
  <2>1. ASSUME ArchiveOpen \/ (pc = "archiveClose" /\ ArchiveComplete)
        PROVE  active # None /\ active.recovery.pending # None
    BY <2>1 DEF ArchiveOpen, MaySave, Pending, Inductive, Owned, Saving
  <2>2. ArchiveOpen \/ (pc = "archiveClose" /\ ArchiveComplete) \/ UNCHANGED <<archive, damaged>>
    BY DEF Next, Cycle, Save, Switch, BeginCycle, EndCycle, InitializeFails, Initialize, RejectReading,
           Observe, SaveRefused, ArchiveFails, ArchiveClose, AlreadyArchived, NothingToArchive, SlotFails,
           SlotOpen, SlotClose, SlotComplete, ApplySame, ApplyFails, ApplyNew, Apply, Restart, disk, vars
  <2>3. CASE ArchiveOpen
    BY <1>1, <1>2, <2>1, <2>3 DEF ArchiveOpen, Pending, TypeOK
  <2>4. CASE ArchiveComplete /\ pc = "archiveClose"
    BY <1>1, <1>2, <2>1, <2>4 DEF ArchiveComplete, Pending, TypeOK
  <2>5. QED
    BY <1>1, <2>2, <2>3, <2>4 DEF TypeOK
<1>4. slot' \in [Name -> [0..1 -> Stored \cup {Missing, Torn}]]
  <2>1. SlotOpen \/ (pc = "slotClose" /\ SlotComplete) \/ UNCHANGED slot
    BY DEF Next, Cycle, Save, Switch, BeginCycle, EndCycle, InitializeFails, Initialize, RejectReading,
           Observe, SaveRefused, ArchiveFails, ArchiveOpen, ArchiveClose, ArchiveComplete, AlreadyArchived,
           NothingToArchive, SlotFails, SlotClose, ApplySame, ApplyFails, ApplyNew, Apply, Restart, disk, vars
  <2>2. ASSUME SlotOpen \/ (pc = "slotClose" /\ SlotComplete)
        PROVE  active.name \in Name /\ Target(active.name) \in 0..1
    BY <1>1, <2>2, ActiveType, HeadFacts DEF SlotOpen, Inductive, Owned, Saving
  <2>3. CASE SlotOpen
    BY <1>1, <2>2, <2>3 DEF SlotOpen, TypeOK
  <2>4. CASE pc = "slotClose" /\ SlotComplete
    <3>1. SlotRecord \in Stored
      BY <2>4, SlotRecordType
    <3>2. QED
      BY <1>1, <2>2, <2>4, <3>1 DEF SlotComplete, TypeOK
  <2>5. QED
    BY <1>1, <2>1, <2>3, <2>4 DEF TypeOK
<1>5. QED
  BY <1>3, <1>4, StepMemoryType DEF TypeOK

-----------------------------------------------------------------------------
(* The owner                                                               *)

\* An active meter is not the sentinel.
LEMMA ActiveExists == ASSUME NEW a \in Active PROVE a # None
  BY SentinelAssumption

\* However a save ends, the owner is left idle with a session in use.
LEMMA FinishOwned ==
  ASSUME Inductive, active # None, NEW r \in Recovery, r.writable <=> r.status \in Usable,
         Finish(r)
  PROVE  Owned'
<1>1. active \in Active /\ attempted = TRUE /\ (next # None => next.recovery.writable /\ next.recovery.status \in Usable)
  BY ActiveType DEF Inductive, Owned, TypeOK
<1>2. [active EXCEPT !.recovery = r] \in Active /\ [active EXCEPT !.recovery = r].recovery = r
  BY <1>1 DEF Active
<1>3. active' # None /\ (active'.recovery.writable <=> active'.recovery.status \in Usable)
  BY <1>1, <1>2, ActiveExists DEF Finish
<1>4. QED
  BY <1>1, <1>3 DEF Owned, Finish, Saving

\* Every step keeps what a meter's status and the save's progress say of each other.
LEMMA StepOwned == ASSUME Inductive, [Next]_vars PROVE Owned'
<1>0. TypeOK /\ Owned /\ (active # None => active \in Active /\ active.recovery \in Recovery)
  BY ActiveType DEF Inductive
<1>1. ASSUME BeginCycle \/ EndCycle \/ RejectReading PROVE Owned'
  <2>1. /\ active' # None <=> active # None
        /\ active # None => active'.recovery = active.recovery
    <3>1. ASSUME active # None, BeginCycle \/ EndCycle \/ RejectReading
          PROVE  active' \in Active /\ active'.recovery = active.recovery
      <4>1. active \in Active
        BY <1>0, <3>1
      <4>2. CASE EndCycle \/ (BeginCycle /\ ~active.session.observed)
        BY <4>1, <4>2 DEF EndCycle, BeginCycle
      <4>3. CASE BeginCycle /\ active.session.observed
        BY <3>1, <4>1, <4>3 DEF BeginCycle, Active, Session, SessionStates
      <4>4. CASE RejectReading
        BY <4>1, <4>4 DEF RejectReading, Active, Session, SessionStates
      <4>5. QED
        BY <3>1, <4>2, <4>3, <4>4
    <3>2. QED
      BY <1>1, <3>1, ActiveExists DEF BeginCycle, EndCycle, RejectReading
  <2>2. QED
    BY <1>0, <1>1, <2>1 DEF BeginCycle, EndCycle, RejectReading, Owned, Saving
<1>2. ASSUME InitializeFails PROVE Owned'
  BY <1>0, <1>2 DEF InitializeFails, Owned, Saving
<1>3. ASSUME Initialize PROVE Owned'
  <2>1. active'.recovery.writable /\ active'.recovery.status \in Usable
    BY <1>3 DEF Initialize, Candidate
  <2>2. QED
    BY <1>0, <1>3, <2>1 DEF Initialize, Owned, Saving
<1>4. ASSUME Observe PROVE Owned'
  <2>1. active' # None /\ active'.recovery = active.recovery
    <3>1. active \in Active /\ active' \in Active \cup {None}
      BY <1>0, <1>4, StepMemoryType DEF Observe, Next, Cycle
    <3>2. [active EXCEPT !.session = Accepted(active.session, [boot |-> boot, at |-> clock + 1])] \in Active
      <4>1. clock + 1 \in 1..MaxCapture /\ boot \in 1..MaxBoot
        BY <1>0, <1>4, CheckpointAssumption DEF Observe, TypeOK
      <4>2. [boot |-> boot, at |-> clock + 1] \in Frame
        BY <4>1 DEF Frame
      <4>3. QED
        BY <3>1, <4>2, AcceptedType DEF Active
    <3>3. QED
      BY <1>4, <3>1, <3>2, ActiveExists DEF Observe, Active
  <2>2. QED
    BY <1>0, <1>4, <2>1 DEF Observe, Owned, Saving
<1>5. ASSUME Save PROVE Owned'
  <2>1. active # None /\ attempted' = attempted /\ attempted = TRUE
    BY <1>0, <1>5, SaveStep DEF Owned
  <2>2. ASSUME NEW status \in StoreStatus \ Usable, Fail(status) PROVE Owned'
    <3> DEFINE r == [active.recovery EXCEPT !.status = status, !.writable = FALSE]
    <3>1. r \in Recovery /\ r.writable = FALSE /\ r.status = status
      BY <1>0, <2>1 DEF Recovery
    <3>2. Finish(r)
      BY <2>2 DEF Fail
    <3> HIDE DEF r
    <3>3. QED
      BY <2>1, <2>2, <3>1, <3>2, FinishOwned
  <2>3. {"IoError", "Conflict"} \subseteq StoreStatus \ Usable
    BY DEF StoreStatus, Usable
  <2>4. CASE SaveRefused
    BY <1>0, <2>1, <2>4, FinishOwned DEF SaveRefused, Owned
  <2>5. CASE ArchiveFails \/ SlotFails
    BY <1>0, <2>1, <2>2, <2>3, <2>5, LoadType, ActiveType DEF ArchiveFails, SlotFails
  <2>6. CASE ArchiveOpen \/ NothingToArchive
    BY <1>0, <2>1, <2>6 DEF ArchiveOpen, NothingToArchive, Proceed, Owned, Saving, MaySave, Pending
  <2>7. ASSUME Archived, active.recovery.writable, active.session.reference # None PROVE Owned'
    <3>1. /\ active' \in Active
          /\ active'.recovery = [active.recovery EXCEPT !.pending = None, !.status = "Ready"]
          /\ active'.session = active.session /\ active'.name = active.name
      BY <1>0, <2>1, <2>7 DEF Archived, Active, Recovery, StoreStatus, Usable
    <3>2. /\ active' # None /\ active'.recovery.writable /\ active'.recovery.status = "Ready"
          /\ active'.recovery.pending = None /\ active'.session.reference # None
      <4>1. active' # None
        BY <3>1, ActiveExists
      <4>2. QED
        BY <1>0, <2>1, <2>7, <3>1, <4>1 DEF Recovery
    <3>3. QED
      BY <1>0, <2>1, <2>7, <3>1, <3>2 DEF Archived, Owned, Saving, Usable
  <2>8. CASE AlreadyArchived
    BY <2>7, <2>8 DEF AlreadyArchived, MaySave
  <2>9. CASE ArchiveClose
    BY <1>0, <2>2, <2>3, <2>7, <2>9 DEF ArchiveClose, Owned, Saving
  <2>10. CASE SlotOpen
    <3>1. active.name \in Name /\ Generation(active.name)' = Generation(active.name)
      <4>1. PICK n \in Name : n = active.name
        BY <2>1, <1>0, ActiveType
      <4>2. Generation(n)' = Generation(n)
        BY <1>0, <2>10, <4>1, TearKeepsHead DEF SlotOpen
      <4>3. active' = active
        BY <2>10 DEF SlotOpen, Proceed
      <4>4. QED
        BY <4>1, <4>2, <4>3
    <3>2. QED
      BY <1>0, <2>1, <2>10, <3>1 DEF SlotOpen, Proceed, Owned, Saving
  <2>11. CASE SlotClose
    <3> DEFINE r == [active.recovery EXCEPT !.status = "Saved"]
    <3>1. r \in Recovery /\ r.writable /\ r.status \in Usable
      BY <1>0, <2>1, <2>11 DEF SlotClose, Recovery, StoreStatus, Usable, Owned, Saving
    <3>2. Finish(r) \/ Fail("IoError")
      BY <2>11 DEF SlotClose
    <3> HIDE DEF r
    <3>3. QED
      BY <2>1, <2>2, <2>3, <3>1, <3>2, FinishOwned
  <2>12. QED
    BY <1>5, <2>4, <2>5, <2>6, <2>8, <2>9, <2>10, <2>11 DEF Save
<1>6. ASSUME NEW n \in Name, ApplySame(n) \/ ApplyFails(n) PROVE Owned'
  BY <1>0, <1>6 DEF ApplySame, ApplyFails, Apply, Owned, Saving
<1>7. ASSUME NEW n \in Name, ApplyNew(n) PROVE Owned'
  <2>1. /\ Candidate(n, lastStatus').name = n /\ Candidate(n, lastStatus').recovery.writable
        /\ Candidate(n, lastStatus').recovery.status \in Usable
    BY <1>7 DEF ApplyNew, Candidate
  <2>2. QED
    BY <1>0, <1>7, <2>1 DEF ApplyNew, Apply, Owned, Saving
<1>8. ASSUME Restart PROVE Owned'
  BY <1>8 DEF Restart, Owned, Saving
<1>9. CASE UNCHANGED vars
  BY <1>0, <1>9 DEF vars, disk, ram, Owned, Generation, Head, Newest, Valid
<1>10. QED
  BY <1>1, <1>2, <1>3, <1>4, <1>5, <1>6, <1>7, <1>8, <1>9 DEF Next, Cycle, Switch

-----------------------------------------------------------------------------
(* Sessions                                                                *)

\* A session whose namespace is left alone stays as sound as it was.
LEMMA Carried ==
  ASSUME Inductive, [Next]_vars, NEW a \in Active,
         UNCHANGED <<slot[a.name], archive[a.name], boot, identity>>, clock' >= clock
  PROVE  /\ Measures(a) => Measures(a)'
         /\ Continues(a) => Continues(a)'
         /\ OnCard(a) => OnCard(a)'
<1>1. a.name \in Name /\ a.since \in Nat /\ a.session.reference \in Frame \cup {None}
  BY DEF Active, Session
<1>2. /\ Head(a.name)' = Head(a.name) /\ FoundStatus(a.name)' = FoundStatus(a.name)
      /\ Segments(a.name)' = Segments(a.name)
  BY <1>1, SameSlots DEF Segments
<1>3. clock \in Nat /\ clock' \in Nat
  BY StepMemoryType DEF Inductive, TypeOK
<1>4. a.session.reference # None => a.session.reference.at \in Nat
  BY <1>1 DEF Frame
<1>5. Measures(a) => Measures(a)'
  BY <1>1, <1>3, <1>4 DEF Measures
<1>6. Continues(a) => Continues(a)'
  BY <1>2 DEF Continues
<1>7. OnCard(a) => OnCard(a)'
  BY <1>2 DEF OnCard
<1>8. QED
  BY <1>5, <1>6, <1>7

\* What is sound of a session does not depend on what it last measured.
LEMMA Alike ==
  ASSUME NEW a, NEW b, b.name = a.name, b.since = a.since, b.recovery = a.recovery,
         b.session.reference = a.session.reference, b.session.anchor = a.session.anchor,
         b.session.restored = a.session.restored, b.session.from \in {None, a.session.from}
  PROVE  /\ Measures(a) => Measures(b)
         /\ Continues(a) => Continues(b)
         /\ OnCard(a) => OnCard(b)
  BY DEF Measures, Continues, OnCard

\* What a session measures does not depend on its recovery.
LEMMA AlikeSession ==
  ASSUME NEW a, NEW b, b.since = a.since, b.session = a.session
  PROVE  /\ Measures(a) => Measures(b)
         /\ Continues(a) /\ b.name = a.name /\ b.recovery.pending = a.recovery.pending => Continues(b)
  BY DEF Measures, Continues

\* A session that starts from what is on the card is sound.
LEMMA CandidateSound ==
  ASSUME Inductive, NEW n \in Name, NEW status \in LoadStatuses(n) \cap Usable
  PROVE  /\ Measures(Candidate(n, status)) /\ Continues(Candidate(n, status))
         /\ OnCard(Candidate(n, status))
<1> DEFINE c == Candidate(n, status)
<1>1. TypeOK /\ CardPast /\ clock \in Nat
  BY DEF Inductive, TypeOK
<1>2. /\ status = FoundStatus(n)
      /\ Head(n) = None => status = "Empty"
      /\ Head(n) # None => Head(n).checkpoint.by = identity /\ status \in {"Ready", "RecoveredOlder"}
  BY <1>1, LoadUsable, UsableFound
<1>3. Restores(status) <=> Head(n) # None
  BY <1>2 DEF Restores
<1>4. Head(n) # None =>
        /\ Head(n).checkpoint.reference \in Frame /\ Head(n).checkpoint.reference # None
        /\ Head(n).checkpoint # None
        /\ Head(n).checkpoint.reference.at \in Nat /\ Head(n).checkpoint.reference.at <= clock
  BY <1>1, HeadFacts, SentinelAssumption DEF CardPast, Stored, Checkpoint, Frame
<1>5. /\ c.name = n /\ c.since = clock
      /\ c.session.reference = (IF Head(n) # None THEN Head(n).checkpoint.reference ELSE None)
      /\ c.session.restored = (Head(n) # None)
      /\ c.session.anchor = None /\ c.session.from = None
      /\ c.recovery.status = status
      /\ c.recovery.pending = (IF Head(n) # None /\ Head(n).checkpoint.anchor # None
                               THEN Head(n).checkpoint ELSE None)
  <2>1. c.session.restored = Restores(status) /\ Restores(status) \in BOOLEAN
    BY DEF Candidate, Restores
  <2>2. c.session.restored = (Head(n) # None)
    BY <1>3, <2>1
  <2>3. QED
    BY <1>3, <2>2 DEF Candidate
<1> HIDE DEF c
<1>6. \A s \in Segments(n) : s.reference.at <= clock
  BY <1>1, <1>4 DEF Segments, CardPast
<1>7. Measures(c)
  <2>1. CASE Head(n) = None
    <3>1. c.session.reference = None /\ c.session.restored = FALSE
      BY <1>5, <2>1
    <3>2. QED
      BY <1>1, <1>5, <3>1 DEF Measures
  <2>2. CASE Head(n) # None
    <3>1. c.session.restored = TRUE /\ c.session.reference = Head(n).checkpoint.reference
      BY <1>5, <2>2
    <3>2. c.session.reference # None /\ c.session.reference.at <= clock
      BY <1>4, <2>2, <3>1
    <3>3. QED
      BY <1>1, <1>5, <3>1, <3>2 DEF Measures
  <2>3. QED
    BY <2>1, <2>2
<1>8. Continues(c)
  BY <1>1, <1>2, <1>4, <1>5, <1>6 DEF Continues
<1>9. OnCard(c)
  BY <1>2, <1>4, <1>5 DEF OnCard
<1>10. QED
  BY <1>7, <1>8, <1>9 DEF c

\* A usable reading moves the reference on, or starts a segment of this activation.
LEMMA ObserveSound ==
  ASSUME Inductive, Observe
  PROVE  active' # None /\ Measures(active)' /\ Continues(active)'
<1> DEFINE f == [boot |-> boot, at |-> clock + 1]
           s == active.session
           t == Accepted(s, f)
<1>1. /\ active # None /\ active \in Active /\ active.name \in Name /\ s \in Session
      /\ active.since \in Nat /\ clock \in Nat /\ clock' = clock + 1 /\ clock + 1 \in 1..MaxCapture
      /\ boot \in 1..MaxBoot /\ UNCHANGED <<disk, boot, identity>>
  BY ActiveType, CheckpointAssumption DEF Observe, Inductive, TypeOK
<1>2. f \in Frame /\ f # None
  BY <1>1, SentinelAssumption DEF Frame
<1>3. t \in Session /\ t.reference = f /\ t.restored = FALSE
      /\ IF NewBaseline(s) THEN t.anchor = f /\ t.from = None
                           ELSE t.anchor = s.anchor /\ t.from = s.reference
  BY <1>1, <1>2, AcceptedType DEF Accepted, Session, NewBaseline
<1>4. /\ active' \in Active /\ active'.session = t /\ active'.name = active.name
      /\ active'.since = active.since /\ active'.recovery = active.recovery
  BY <1>1, <1>3 DEF Observe, Active
<1>5. Measures(active) /\ Continues(active) /\ CardPast
  BY <1>1 DEF Inductive, Sound
<1>6. f.boot = boot /\ f.at = clock + 1
  OBVIOUS
<1> HIDE DEF f, t
<1>7. NewBaseline(s) => s.anchor = None
  BY <1>5 DEF NewBaseline, Measures
<1>8. ~NewBaseline(s) => /\ s.reference # None /\ ~s.restored /\ s.anchor # None
                         /\ s.reference.boot = boot /\ active.since < s.reference.at
                         /\ s.reference.at \in Nat /\ s.reference.at <= clock
                         /\ s.anchor.boot = boot /\ s.anchor.at \in Nat /\ active.since < s.anchor.at
                         /\ s.anchor.at <= s.reference.at
  <2>1. ~NewBaseline(s) => s.reference # None /\ ~s.restored
    BY DEF NewBaseline
  <2>2. (s.reference # None => s.reference.at \in Nat) /\ (s.anchor # None => s.anchor.at \in Nat)
    BY <1>1 DEF Session, Frame
  <2>3. QED
    BY <1>5, <2>1, <2>2 DEF Measures
<1>9. Measures(active)'
  <2>1. CASE NewBaseline(s)
    BY <1>1, <1>2, <1>3, <1>4, <1>5, <1>6, <2>1 DEF Measures
  <2>2. CASE ~NewBaseline(s)
    BY <1>1, <1>2, <1>3, <1>4, <1>5, <1>6, <1>8, <2>2 DEF Measures
  <2>3. QED
    BY <2>1, <2>2
<1>10. Continues(active)'
  <2>1. PICK n \in Name : n = active.name
    BY <1>1
  <2>2. Head(n)' = Head(n) /\ Segments(n)' = Segments(n) /\ archive'[n] = archive[n]
    BY <1>1, <2>1, SameSlots DEF Segments, disk
  <2>3. Head(n) # None => Head(n).checkpoint.reference.at \in Nat /\ Head(n).checkpoint.reference.at <= clock
    BY <1>5, <2>1, HeadFacts DEF CardPast, Inductive, Stored, Checkpoint, Frame
  <2>4. \A c \in Segments(n) : c.anchor # None
    BY <1>5 DEF CardPast, Segments
  <2>5. CASE NewBaseline(s)
    BY <1>1, <1>2, <1>3, <1>4, <1>5, <1>6, <1>7, <2>1, <2>2, <2>3, <2>4, <2>5 DEF Continues
  <2>6. CASE ~NewBaseline(s)
    BY <1>1, <1>2, <1>3, <1>4, <1>5, <1>6, <1>8, <2>1, <2>2, <2>3, <2>6 DEF Continues
  <2>7. QED
    BY <2>5, <2>6
<1>11. QED
  BY <1>4, <1>9, <1>10, ActiveExists

\* A save moves neither the time nor the session that waits for its end.
LEMMA SaveCarries ==
  ASSUME Inductive, Save
  PROVE  /\ active # None /\ active \in Active /\ Measures(active) /\ Continues(active)
         /\ UNCHANGED <<boot, identity, clock>>
         /\ \A b \in Active : Measures(b) => Measures(b)'
         /\ \A b \in Active :
              /\ Continues(b) /\ Head(b.name)' = Head(b.name) /\ archive'[b.name] = archive[b.name]
                   => Continues(b)'
              /\ b = next => Measures(b)' /\ Continues(b)' /\ OnCard(b)'
<1>1. TypeOK /\ Owned /\ clock \in Nat /\ [Next]_vars
  BY DEF Inductive, TypeOK, Next
<1>2. active # None /\ active \in Active /\ UNCHANGED <<boot, identity, clock>>
  BY <1>1, SaveStep, ActiveType
<1>3. Measures(active) /\ Continues(active)
  BY <1>2 DEF Inductive, Sound
<1>4. \A b \in Active : Measures(b) => Measures(b)'
  BY <1>2 DEF Measures
<1>5. ASSUME NEW b \in Active, Continues(b), Head(b.name)' = Head(b.name), archive'[b.name] = archive[b.name]
      PROVE  Continues(b)'
  BY <1>2, <1>5 DEF Continues, Segments
<1>6. ASSUME NEW b \in Active, b = next PROVE Measures(b)' /\ Continues(b)' /\ OnCard(b)'
  <2>1. b # None /\ b.name # active.name /\ b.name \in Name /\ Measures(b) /\ Continues(b) /\ OnCard(b)
    BY <1>6, ActiveExists DEF Inductive, Owned, Sound, Active
  <2>2. UNCHANGED <<slot[b.name], archive[b.name]>>
    BY <1>1, <2>1, CardStep DEF StorageCall, disk
  <2>3. clock' >= clock
    BY <1>1, <1>2
  <2>4. QED
    BY <1>1, <1>2, <2>1, <2>2, <2>3, Carried
<1>7. QED
  BY <1>2, <1>3, <1>4, <1>5, <1>6

\* The session that is in use once a save has ended.
LEMMA FinishSound ==
  ASSUME Inductive, Save, NEW r \in Recovery, Finish(r), NEW b \in Active,
         b = [active EXCEPT !.recovery = r], Continues(b)', OnCard(b)'
  PROVE  Sound'
<1>1. Measures(b)'
  <2>1. active \in Active /\ Measures(active)
    BY SaveCarries
  <2>2. b.since = active.since /\ b.session = active.session
    BY <2>1 DEF Active
  <2>3. QED
    BY <2>1, <2>2, AlikeSession, SaveCarries
<1>2. next' = None /\ (active' = b \/ (next # None /\ active' = next))
  BY DEF Finish
<1>3. CASE active' = b
  BY <1>1, <1>2, <1>3 DEF Sound
<1>4. CASE next # None /\ active' = next
  <2>1. PICK w \in Active : w = next
    BY <1>4 DEF Inductive, TypeOK
  <2>2. Measures(w)' /\ Continues(w)' /\ OnCard(w)'
    BY <2>1, SaveCarries
  <2>3. QED
    BY <1>2, <1>4, <2>1, <2>2 DEF Sound
<1>5. QED
  BY <1>2, <1>3, <1>4

\* A save that fails leaves the session unsaved, and says so.
LEMMA FailSound ==
  ASSUME Inductive, Save, NEW status \in StoreStatus \ Usable, Fail(status),
         NEW b \in Active, b = [active EXCEPT !.recovery.status = status, !.recovery.writable = FALSE],
         Continues(b)'
  PROVE  Sound'
<1> DEFINE r == [active.recovery EXCEPT !.status = status, !.writable = FALSE]
<1>1. active \in Active /\ active.recovery \in Recovery
  BY SaveCarries DEF Active
<1>2. r \in Recovery /\ r.status = status
  BY <1>1 DEF Recovery
<1>3. b = [active EXCEPT !.recovery = r] /\ b.recovery = r
  BY <1>1 DEF Active, Recovery
<1>4. Finish(r)
  BY DEF Fail
<1> HIDE DEF r
<1>5. OnCard(b)'
  BY <1>2, <1>3 DEF OnCard, Usable
<1>6. QED
  BY <1>2, <1>3, <1>4, <1>5, FinishSound

\* The steps of a save keep the meters of memory sound.
LEMMA StepSaveSound == ASSUME Inductive, Save PROVE Sound'
<1> DEFINE Failed(status) == [active EXCEPT !.recovery.status = status, !.recovery.writable = FALSE]
<1>0. /\ active # None /\ active \in Active /\ active.name \in Name /\ active.recovery \in Recovery
      /\ Measures(active) /\ Continues(active)
      /\ TypeOK /\ Owned /\ SlotsOrdered /\ CardPast /\ SlotsOrdered' /\ identity' = identity
  BY SaveCarries, StepCard DEF Inductive, Active, Next
<1>1. ASSUME NEW status \in StoreStatus
      PROVE  /\ Failed(status) \in Active /\ Failed(status).name = active.name
             /\ Failed(status).since = active.since /\ Failed(status).session = active.session
             /\ Failed(status).recovery.pending = active.recovery.pending
             /\ Continues(Failed(status))
  <2>1. /\ Failed(status) \in Active /\ Failed(status).name = active.name
        /\ Failed(status).since = active.since /\ Failed(status).session = active.session
        /\ Failed(status).recovery.pending = active.recovery.pending
    BY <1>0 DEF Active, Recovery
  <2>2. QED
    BY <1>0, <2>1, AlikeSession
<1>2. {"IoError", "Conflict"} \subseteq StoreStatus \ Usable
  BY DEF StoreStatus, Usable
<1>3. ASSUME NEW status \in StoreStatus \ Usable, Fail(status), UNCHANGED disk PROVE Sound'
  <2>1. PICK b \in Active : b = Failed(status)
    BY <1>1
  <2>2. Continues(b) /\ b.name \in Name
    BY <1>0, <1>1, <2>1
  <2>3. Head(b.name)' = Head(b.name) /\ archive'[b.name] = archive[b.name]
    BY <1>3, <2>2, SameSlots DEF disk
  <2>4. Continues(b)'
    BY <2>2, <2>3, SaveCarries
  <2>5. QED
    BY <1>3, <2>1, <2>4, FailSound
<1>4. CASE SaveRefused
  <2>1. PICK r \in Recovery : r = active.recovery
    BY <1>0
  <2>2. PICK b \in Active : b = active
    BY <1>0
  <2>3. b = [active EXCEPT !.recovery = r]
    BY <2>1, <2>2 DEF Active
  <2>4. Head(b.name)' = Head(b.name) /\ archive'[b.name] = archive[b.name]
    BY <1>0, <1>4, <2>2, SameSlots DEF SaveRefused, disk
  <2>5. Continues(b)'
    BY <1>0, <2>2, <2>4, SaveCarries
  <2>6. OnCard(b)'
    BY <1>0, <1>4, <2>2 DEF SaveRefused, OnCard, Owned, Usable
  <2>7. Finish(r)
    BY <1>4, <2>1 DEF SaveRefused
  <2>8. QED
    BY <2>3, <2>5, <2>6, <2>7, FinishSound
<1>5. CASE ArchiveFails \/ SlotFails
  BY <1>0, <1>2, <1>3, <1>5, LoadType DEF ArchiveFails, SlotFails
<1>6. ASSUME ArchiveOpen \/ NothingToArchive \/ SlotOpen PROVE Sound'
  <2>1. UNCHANGED <<active, next, archive>> /\ pc' \in Saving
    BY <1>6 DEF ArchiveOpen, NothingToArchive, SlotOpen, Proceed, Saving, disk
  <2>2. PICK b \in Active : b = active
    BY <1>0
  <2>3. Head(b.name)' = Head(b.name)
    BY <1>0, <1>6, <2>2, SameSlots, TearKeepsHead DEF ArchiveOpen, NothingToArchive, SlotOpen, disk
  <2>4. Measures(b)' /\ Continues(b)'
    BY <1>0, <2>1, <2>2, <2>3, SaveCarries
  <2>5. next # None => Measures(next)' /\ Continues(next)' /\ OnCard(next)'
    <3>1. SUFFICES ASSUME next # None PROVE Measures(next)' /\ Continues(next)' /\ OnCard(next)'
      OBVIOUS
    <3>2. PICK w \in Active : w = next
      BY <3>1 DEF Inductive, TypeOK
    <3>3. QED
      BY <2>1, <3>2, SaveCarries
  <2>6. QED
    BY <2>1, <2>2, <2>4, <2>5 DEF Sound
<1>7. ASSUME NEW n \in Name, n = active.name, ArchiveComplete,
             pc = "archiveClose" \/ (MaySave /\ Pending # None)
      PROVE  /\ Head(n)' = Head(n) /\ Head(n) # None /\ Segments(n)' = Segments(n)
             /\ active.recovery.pending = Head(n).checkpoint
             /\ archive'[n] = archive[n] \cup {Head(n).checkpoint}
  <2>1. active.recovery.pending # None
    BY <1>0, <1>7 DEF Owned, Pending
  <2>2. Head(n) # None /\ active.recovery.pending = Head(n).checkpoint /\ Head(n).checkpoint.anchor # None
    BY <1>0, <1>7, <2>1 DEF Continues
  <2>3. Head(n)' = Head(n)
    BY <1>7, SameSlots DEF ArchiveComplete
  <2>4. archive'[n] = archive[n] \cup {Head(n).checkpoint}
    BY <1>0, <1>7, <2>2 DEF ArchiveComplete, Pending, TypeOK
  <2>5. QED
    BY <2>2, <2>3, <2>4 DEF Segments
<1>8. ASSUME pc = "archiveClose", ArchiveComplete, Fail("IoError") PROVE Sound'
  <2>1. PICK b \in Active : b = Failed("IoError")
    BY <1>1, <1>2
  <2>2. PICK n \in Name : n = active.name
    BY <1>0
  <2>3. Continues(b) /\ b.name = n /\ b.session = active.session /\ b.recovery.pending = active.recovery.pending
    BY <1>1, <1>2, <2>1, <2>2
  <2>4. Continues(b)'
    BY <1>0, <1>7, <1>8, <2>2, <2>3 DEF Continues
  <2>5. QED
    BY <1>2, <1>8, <2>1, <2>4, FailSound
<1>9. ASSUME Archived, NEW n \in Name, n = active.name,
             Head(n)' = Head(n), Head(n) # None, Segments(n)' = Segments(n),
             Head(n).checkpoint \in archive'[n]
      PROVE  Sound'
  <2>1. PICK b \in Active : b = active
    BY <1>0
  <2>2. /\ active'.name = n /\ active'.since = b.since /\ active'.session = b.session
        /\ active'.recovery.pending = None
    BY <1>0, <1>9, <2>1 DEF Archived, Active, Recovery
  <2>3. Measures(b)'
    BY <1>0, <2>1, SaveCarries
  <2>4. Measures(active)'
    BY <2>2, <2>3 DEF Measures
  <2>5. Continues(active)'
    BY <1>0, <1>9, <2>2, <2>1 DEF Continues
  <2>6. next' = next /\ pc' \in Saving
    BY <1>9 DEF Archived, Saving
  <2>7. next # None => Measures(next)' /\ Continues(next)' /\ OnCard(next)'
    <3>1. SUFFICES ASSUME next # None PROVE Measures(next)' /\ Continues(next)' /\ OnCard(next)'
      OBVIOUS
    <3>2. PICK w \in Active : w = next
      BY <3>1 DEF Inductive, TypeOK
    <3>3. QED
      BY <2>6, <3>2, SaveCarries
  <2>8. QED
    BY <2>4, <2>5, <2>6, <2>7 DEF Sound
<1>10. CASE AlreadyArchived
  <2>1. PICK n \in Name : n = active.name
    BY <1>0
  <2>2. Archived /\ UNCHANGED disk /\ active.recovery.pending # None /\ active.recovery.pending \in archive[n]
    BY <1>10, <2>1 DEF AlreadyArchived, Pending
  <2>3. Head(n) # None /\ active.recovery.pending = Head(n).checkpoint
    BY <1>0, <2>1, <2>2 DEF Continues
  <2>4. Head(n)' = Head(n) /\ Segments(n)' = Segments(n)
    BY <2>2, SameSlots DEF disk, Segments
  <2>5. QED
    BY <1>9, <2>1, <2>2, <2>3, <2>4 DEF disk
<1>11. CASE ArchiveClose
  <2>1. PICK n \in Name : n = active.name
    BY <1>0
  <2>2. ASSUME ArchiveComplete, Archived PROVE Sound'
    BY <1>7, <1>9, <1>11, <2>1, <2>2 DEF ArchiveClose
  <2>3. QED
    BY <1>2, <1>3, <1>8, <1>11, <2>2 DEF ArchiveClose
<1>12. ASSUME pc = "slotClose", SlotComplete, NEW b \in Active, b.name = active.name,
              b.session = active.session, b.since = active.since, b.recovery.pending = None
       PROVE  Continues(b)' /\ OnCard(b)'
  <2>1. PICK n \in Name : n = active.name
    BY <1>0
  <2>2. /\ SlotRecord \in Stored /\ SlotRecord.generation = Generation(n) + 1
        /\ SlotRecord.checkpoint.by = identity
        /\ SlotRecord.checkpoint.reference = b.session.reference
        /\ SlotRecord.checkpoint.anchor = b.session.anchor
        /\ SlotRecord # None
    BY <1>12, <2>1, SlotRecordType, SentinelAssumption DEF SlotRecord
  <2>3. Head(n)' = SlotRecord /\ archive'[n] = archive[n]
    BY <1>0, <1>12, <2>1, <2>2, WriteMakesHead DEF SlotComplete
  <2>4. FoundStatus(n)' \in {"Ready", "RecoveredOlder"}
    BY <1>0, <2>2, <2>3, HeadFound
  <2>5. b.session.reference # None /\ b.session.reference.at \in Nat
    BY <1>0, <1>12 DEF Owned, Saving, Active, Session, Frame
  <2>6. \A c \in Segments(n)' : c.reference.at <= b.since \/ c.anchor = b.session.anchor
    BY <1>0, <1>12, <2>1, <2>2, <2>3 DEF Segments, Continues
  <2>7. Continues(b)'
    BY <1>0, <1>12, <2>1, <2>2, <2>3, <2>5, <2>6 DEF Continues
  <2>8. OnCard(b)'
    BY <1>12, <2>1, <2>2, <2>3, <2>4 DEF OnCard
  <2>9. QED
    BY <2>7, <2>8
<1>13. CASE SlotClose
  <2>1. active.recovery.pending = None
    BY <1>0, <1>13 DEF SlotClose, Owned
  <2>2. ASSUME SlotComplete, Fail("IoError") PROVE Sound'
    <3>1. PICK b \in Active : b = Failed("IoError")
      BY <1>1, <1>2
    <3>2. Continues(b)'
      BY <1>1, <1>2, <1>12, <1>13, <2>1, <2>2, <3>1 DEF SlotClose
    <3>3. QED
      BY <1>2, <2>2, <3>1, <3>2, FailSound
  <2>3. ASSUME SlotComplete, Finish([active.recovery EXCEPT !.status = "Saved"]) PROVE Sound'
    <3>1. PICK r \in Recovery : r = [active.recovery EXCEPT !.status = "Saved"]
      BY <1>0 DEF Recovery, StoreStatus, Usable
    <3>2. PICK b \in Active : b = [active EXCEPT !.recovery = r]
      BY <1>0 DEF Active
    <3>3. /\ b.name = active.name /\ b.session = active.session /\ b.since = active.since
          /\ b.recovery.pending = None
      BY <1>0, <2>1, <3>1, <3>2 DEF Active, Recovery
    <3>4. Continues(b)' /\ OnCard(b)'
      BY <1>12, <1>13, <2>3, <3>3 DEF SlotClose
    <3>5. QED
      BY <2>3, <3>1, <3>2, <3>4, FinishSound
  <2>4. QED
    BY <1>2, <1>3, <1>13, <2>2, <2>3 DEF SlotClose
<1>14. QED
  BY <1>4, <1>5, <1>6, <1>10, <1>11, <1>13 DEF Save

\* Every step keeps the meters of memory sound.
LEMMA StepSound == ASSUME Inductive, [Next]_vars PROVE Sound'
<1>0. /\ TypeOK /\ Owned /\ clock \in Nat /\ next \in Active \cup {None}
      /\ active # None => active \in Active /\ active.name \in Name /\ Measures(active) /\ Continues(active)
  BY ActiveType DEF Inductive, TypeOK, Sound
\* Outside of a save, and while the card and the device stay as they are.
<1>1. ASSUME UNCHANGED <<disk, boot, identity>>, clock' >= clock, NEW a \in Active
      PROVE  (Measures(a) => Measures(a)') /\ (Continues(a) => Continues(a)') /\ (OnCard(a) => OnCard(a)')
  BY <1>1, Carried DEF disk
<1>2. ASSUME pc \notin Saving, UNCHANGED <<disk, boot, identity, clock, next>>,
             NEW b \in Active, active' = b, Measures(b), Continues(b), OnCard(b)
      PROVE  Sound'
  BY <1>0, <1>1, <1>2 DEF Sound, Owned
<1>3. CASE EndCycle \/ InitializeFails
  <2>1. pc \notin Saving /\ UNCHANGED <<disk, boot, identity, clock, next, active>>
    BY <1>3 DEF EndCycle, InitializeFails, Saving
  <2>2. CASE active = None
    BY <1>0, <2>1, <2>2 DEF Sound, Owned
  <2>3. CASE active # None
    <3>1. PICK b \in Active : b = active
      BY <1>0, <2>3
    <3>2. OnCard(active)
      BY <2>1, <2>3 DEF Inductive, Sound
    <3>3. QED
      BY <1>0, <1>2, <2>1, <2>3, <3>1, <3>2
  <2>4. QED
    BY <2>2, <2>3
<1>4. CASE BeginCycle \/ RejectReading
  <2>1. pc \notin Saving /\ UNCHANGED <<disk, boot, identity, clock, next>>
    BY <1>4 DEF BeginCycle, RejectReading, Saving
  <2>2. CASE active = None
    BY <1>0, <1>4, <2>1, <2>2 DEF BeginCycle, RejectReading, Sound, Owned
  <2>3. CASE active # None
    <3>1. Measures(active) /\ Continues(active) /\ OnCard(active) /\ active \in Active
      BY <1>0, <2>1, <2>3 DEF Inductive, Sound
    <3>2. /\ active' \in Active /\ active'.name = active.name /\ active'.since = active.since
          /\ active'.recovery = active.recovery
          /\ active'.session.reference = active.session.reference
          /\ active'.session.anchor = active.session.anchor
          /\ active'.session.restored = active.session.restored
          /\ active'.session.from \in {None, active.session.from}
      <4>1. CASE BeginCycle /\ ~active.session.observed
        BY <2>3, <3>1, <4>1 DEF BeginCycle
      <4>2. CASE BeginCycle /\ active.session.observed
        BY <2>3, <3>1, <4>2 DEF BeginCycle, Active, Session, SessionStates
      <4>3. CASE RejectReading
        BY <3>1, <4>3 DEF RejectReading, Active, Session, SessionStates
      <4>4. QED
        BY <1>4, <4>1, <4>2, <4>3
    <3>3. PICK b \in Active : b = active'
      BY <3>2
    <3>4. Measures(b) /\ Continues(b) /\ OnCard(b)
      BY <3>1, <3>2, <3>3, Alike
    <3>5. QED
      BY <1>2, <2>1, <3>3, <3>4
  <2>4. QED
    BY <2>2, <2>3
<1>5. CASE Initialize
  <2>1. PICK status \in LoadStatuses(setting) \cap Usable : status = lastStatus'
    BY <1>5 DEF Initialize
  <2>2. setting \in Name /\ pc \notin Saving /\ UNCHANGED <<disk, boot, identity, clock, next>>
    BY <1>0, <1>5 DEF Initialize, Saving, TypeOK
  <2>3. PICK b \in Active : b = Candidate(setting, status)
    BY <1>0, <2>1, <2>2, CandidateType
  <2>4. Measures(b) /\ Continues(b) /\ OnCard(b)
    BY <2>1, <2>2, <2>3, CandidateSound
  <2>5. active' = b
    BY <1>5, <2>1, <2>3 DEF Initialize
  <2>6. QED
    BY <1>2, <2>2, <2>4, <2>5
<1>6. CASE Observe
  <2>1. next' = None /\ pc' \in Saving
    BY <1>0, <1>6 DEF Observe, Owned, Saving
  <2>2. QED
    BY <1>6, <2>1, ObserveSound DEF Sound
<1>7. CASE Save
  BY <1>7, StepSaveSound
<1>8. ASSUME NEW n \in Name, ApplySame(n) \/ ApplyFails(n) PROVE Sound'
  <2>1. pc \notin Saving /\ pc' \notin Saving /\ UNCHANGED <<disk, boot, identity, clock, next, active>>
    BY <1>8 DEF ApplySame, ApplyFails, Apply, Saving
  <2>2. CASE active = None
    BY <1>0, <2>1, <2>2 DEF Sound, Owned
  <2>3. CASE active # None
    <3>1. PICK b \in Active : b = active
      BY <1>0, <2>3
    <3>2. OnCard(active)
      BY <2>1, <2>3 DEF Inductive, Sound
    <3>3. QED
      BY <1>0, <1>2, <2>1, <2>3, <3>1, <3>2
  <2>4. QED
    BY <2>2, <2>3
<1>9. ASSUME NEW n \in Name, ApplyNew(n) PROVE Sound'
  <2>1. PICK status \in LoadStatuses(n) \cap Usable : status = lastStatus'
    BY <1>9 DEF ApplyNew
  <2>2. pc \notin Saving /\ next = None /\ UNCHANGED <<disk, boot, identity, clock>>
    BY <1>0, <1>9 DEF ApplyNew, Apply, Saving, Owned
  <2>3. PICK b \in Active : b = Candidate(n, status)
    BY <1>0, <2>1, CandidateType
  <2>4. Measures(b) /\ Continues(b) /\ OnCard(b)
    BY <2>1, <2>3, CandidateSound
  <2>5. CASE active = None
    BY <1>2, <1>9, <2>1, <2>2, <2>3, <2>4, <2>5 DEF ApplyNew
  <2>6. CASE active # None
    <3>1. next' = b /\ pc' \in Saving /\ active' = active
      BY <1>9, <2>1, <2>3, <2>6 DEF ApplyNew, Saving
    <3>2. Measures(b)' /\ Continues(b)' /\ OnCard(b)'
      BY <1>0, <1>1, <2>2, <2>4
    <3>3. PICK a \in Active : a = active
      BY <1>0, <2>6
    <3>4. Measures(a)' /\ Continues(a)'
      BY <1>0, <1>1, <2>2, <2>6, <3>3
    <3>5. QED
      BY <3>1, <3>2, <3>3, <3>4 DEF Sound
  <2>7. QED
    BY <2>5, <2>6
<1>10. CASE Restart
  BY <1>10 DEF Restart, Sound
<1>11. CASE UNCHANGED vars
  <2>1. UNCHANGED <<disk, boot, identity, clock, next, active, pc>>
    BY <1>11 DEF vars, ram
  <2>2. active # None => Measures(active)' /\ Continues(active)' /\ (pc \notin Saving => OnCard(active)')
    <3>1. SUFFICES ASSUME active # None
                   PROVE  Measures(active)' /\ Continues(active)' /\ (pc \notin Saving => OnCard(active)')
      OBVIOUS
    <3>2. PICK a \in Active : a = active
      BY <1>0, <3>1
    <3>3. pc \notin Saving => OnCard(active)
      BY <3>1 DEF Inductive, Sound
    <3>4. QED
      BY <1>0, <1>1, <2>1, <3>1, <3>2, <3>3
  <2>3. next # None => Measures(next)' /\ Continues(next)' /\ OnCard(next)'
    <3>1. SUFFICES ASSUME next # None PROVE Measures(next)' /\ Continues(next)' /\ OnCard(next)'
      OBVIOUS
    <3>2. PICK b \in Active : b = next
      BY <1>0, <3>1
    <3>3. Measures(next) /\ Continues(next) /\ OnCard(next)
      BY <3>1 DEF Inductive, Sound
    <3>4. QED
      BY <1>0, <1>1, <2>1, <3>2, <3>3
  <2>4. QED
    BY <2>1, <2>2, <2>3 DEF Sound
<1>12. QED
  BY <1>3, <1>4, <1>5, <1>6, <1>7, <1>8, <1>9, <1>10, <1>11 DEF Next, Cycle, Switch

-----------------------------------------------------------------------------
(* The invariant, and what it implies                                      *)

\* No namespace has a head at first.
LEMMA InitNoHead ==
  ASSUME Init, NEW n \in Name
  PROVE  ~Valid(n, 0) /\ ~Valid(n, 1) /\ Head(n) = None /\ archive[n] = {}
<1>1. slot[n] = [i \in 0..1 |-> Missing] /\ archive[n] = {}
  BY DEF Init
<1>2. slot[n][0] = Missing /\ slot[n][1] = Missing
  BY <1>1
<1>3. Missing \notin Stored
  BY SentinelAssumption
<1>4. QED
  BY <1>1, <1>2, <1>3 DEF Valid, Head

\* The invariant holds at the first power-up.
LEMMA InitInductive == Init => Inductive
<1> SUFFICES ASSUME Init PROVE Inductive
  OBVIOUS
<1>1. \A n \in Name : ~Valid(n, 0) /\ ~Valid(n, 1) /\ Head(n) = None /\ archive[n] = {}
  BY InitNoHead
<1>2. TypeOK
  <2>1. slot \in [Name -> [0..1 -> Stored \cup {Missing, Torn}]]
    BY DEF Init
  <2>2. archive \in [Name -> SUBSET Checkpoint] /\ damaged \in [Name -> SUBSET Paths]
    BY DEF Init
  <2>3. lastStatus \in StoreStatus /\ boot \in 1..MaxBoot /\ clock \in 0..MaxCapture
    BY CheckpointAssumption DEF Init, StoreStatus, Usable
  <2>4. QED
    BY <2>1, <2>2, <2>3 DEF Init, TypeOK
<1>3. SlotsOrdered /\ CardPast /\ SegmentsDisjoint
  BY <1>1 DEF SlotsOrdered, CardPast, SegmentsDisjoint, Segments
<1>4. Owned /\ Sound
  BY DEF Init, Owned, Sound, Saving
<1>5. QED
  BY <1>2, <1>3, <1>4 DEF Inductive

\* Every step keeps the invariant.
LEMMA StepInductive == Inductive /\ [Next]_vars => Inductive'
  BY StepType, StepCard, StepOwned, StepSound DEF Inductive

\* What memory calls persisted is the head of its namespace.
LEMMA InductivePersisted == Inductive => PersistedMeansOnDisk
  BY DEF Inductive, Sound, OnCard, PersistedMeansOnDisk, ReferencePersisted, Saving

\* A segment starts after the boot and the gap that ended the one before.
LEMMA InductiveSegments == Inductive => SegmentsSound
<1> SUFFICES ASSUME Inductive PROVE NoConsumptionAcrossGap
  BY DEF Inductive, SegmentsSound
<1>1. SUFFICES ASSUME active # None, NEW start \in {active.session.anchor, active.session.from} \ {None}
               PROVE  /\ start.boot = boot /\ active.session.reference.boot = boot
                      /\ active.since < start.at /\ start.at <= active.session.reference.at
  BY DEF NoConsumptionAcrossGap
<1>2. Measures(active)
  BY <1>1 DEF Inductive, Sound
<1>3. active.session.reference # None /\ ~active.session.restored
  BY <1>1, <1>2 DEF Measures
<1>4. QED
  BY <1>1, <1>2, <1>3 DEF Measures

-----------------------------------------------------------------------------
(* What a step does                                                        *)

\* A namespace whose status is not usable is left alone.
LEMMA StepNoBlindRetry ==
  ASSUME Inductive, [Next]_vars, NEW n \in Name,
         active # None, active.name = n, active.recovery.status \notin Usable
  PROVE  UNCHANGED <<slot[n], archive[n], damaged[n]>>
  BY CardStep DEF StorageCall, disk

\* The records of another firmware are not written over.
LEMMA StepForeignKept ==
  ASSUME Inductive, [Next]_vars, NEW n \in Name, Head(n) # None, Head(n).checkpoint.by # identity
  PROVE  UNCHANGED <<slot[n], archive[n], damaged[n]>>
<1>1. active # None /\ active.name = n => Head(n).checkpoint.by = identity
  BY DEF Inductive, Sound, Continues
<1>2. QED
  BY <1>1, CardStep DEF StorageCall, disk

\* A session goes only when the session in use has no reference, or its save has been verified.
LEMMA StepOutgoing ==
  ASSUME Inductive, [Next]_vars, NEW n \in Name, active # None, active.name = n, boot' = boot
  PROVE  /\ active' # None
         /\ active'.name # n /\ active.session.reference # None =>
              Head(n)' # None /\ Head(n)'.checkpoint.reference = active.session.reference
<1>1. TypeOK /\ Owned /\ active \in Active /\ attempted = TRUE
  BY ActiveType DEF Inductive, Owned
<1>2. ASSUME active' \in Active, active'.name = active.name
      PROVE  active' # None /\ active'.name = n
  BY <1>2, ActiveExists
<1>3. ASSUME BeginCycle \/ RejectReading \/ Observe \/ Archived PROVE active' \in Active /\ active'.name = active.name
  <2>1. ASSUME Observe PROVE active' \in Active /\ active'.name = active.name
    <3>1. active' \in Active
      BY <2>1, ObserveSound, StepMemoryType
    <3>2. active'.name = active.name
      BY <1>1, <2>1 DEF Observe, Active
    <3>3. QED
      BY <3>1, <3>2
  <2>2. ASSUME Archived PROVE active' \in Active /\ active'.name = active.name
    BY <1>1, <2>2 DEF Archived, Active, Recovery, StoreStatus, Usable
  <2>3. ASSUME BeginCycle PROVE active' \in Active /\ active'.name = active.name
    <3>1. CASE active.session.observed
      BY <1>1, <2>3, <3>1 DEF BeginCycle, Active, Session, SessionStates
    <3>2. CASE ~active.session.observed
      BY <1>1, <2>3, <3>2 DEF BeginCycle, Active
    <3>3. QED
      BY <3>1, <3>2
  <2>4. ASSUME RejectReading PROVE active' \in Active /\ active'.name = active.name
    BY <1>1, <2>4 DEF RejectReading, Active, Session, SessionStates
  <2>5. QED
    BY <1>3, <2>1, <2>2, <2>3, <2>4
<1>4. ASSUME UNCHANGED active PROVE active' \in Active /\ active'.name = active.name
  BY <1>1, <1>4
<1>5. ASSUME NEW r \in Recovery, Finish(r), next = None \/ r.status \notin Usable
      PROVE  active' \in Active /\ active'.name = active.name
  BY <1>1, <1>5 DEF Finish, Active
<1>6. ASSUME NEW r \in Recovery, Finish(r), active.session.reference = None
      PROVE  active' # None
  <2>1. active' \in Active
    BY <1>1, <1>6 DEF Finish, Active, TypeOK
  <2>2. QED
    BY <2>1, ActiveExists
<1>7. ASSUME NEW r \in Recovery, Finish(r), pc = "slotClose", SlotComplete
      PROVE  active' # None /\ Head(n)' # None /\ Head(n)'.checkpoint.reference = active.session.reference
  <2>1. active' \in Active
    BY <1>1, <1>7 DEF Finish, Active, TypeOK
  <2>2. SlotRecord \in Stored /\ SlotRecord.generation = Generation(n) + 1
    BY <1>7, SlotRecordType
  <2>3. Head(n)' = SlotRecord
    BY <1>1, <1>7, <2>2, WriteMakesHead DEF SlotComplete
  <2>4. QED
    BY <2>1, <2>2, <2>3, ActiveExists, SentinelAssumption DEF SlotRecord
<1>8. ASSUME NEW status \in StoreStatus \ Usable, Fail(status)
      PROVE  active' \in Active /\ active'.name = active.name
  <2>1. PICK r \in Recovery : r = [active.recovery EXCEPT !.status = status, !.writable = FALSE]
    BY <1>1, ActiveType DEF Recovery
  <2>2. Finish(r) /\ r.status = status
    BY <1>1, <1>8, <2>1, ActiveType DEF Fail, Recovery
  <2>3. QED
    BY <1>5, <2>2
<1>9. ASSUME Save
      PROVE  \/ active' \in Active /\ active'.name = active.name
             \/ active' # None /\ active.session.reference = None
             \/ active' # None /\ Head(n)' # None /\ Head(n)'.checkpoint.reference = active.session.reference
  <2>1. {"IoError", "Conflict"} \subseteq StoreStatus \ Usable /\ active.recovery \in Recovery
    BY ActiveType, <1>1 DEF StoreStatus, Usable
  <2>2. CASE SaveRefused
    BY <1>1, <1>5, <1>6, <2>1, <2>2 DEF SaveRefused, Owned
  <2>3. CASE ArchiveFails \/ SlotFails
    BY <1>1, <1>8, <2>1, <2>3, LoadType DEF ArchiveFails, SlotFails
  <2>4. CASE ArchiveOpen \/ NothingToArchive \/ SlotOpen
    BY <1>4, <2>4 DEF ArchiveOpen, NothingToArchive, SlotOpen, Proceed
  <2>5. CASE ArchiveClose \/ AlreadyArchived
    BY <1>3, <1>8, <2>1, <2>5 DEF ArchiveClose, AlreadyArchived
  <2>6. CASE SlotClose
    <3>1. [active.recovery EXCEPT !.status = "Saved"] \in Recovery
      BY <2>1 DEF Recovery, StoreStatus, Usable
    <3>2. QED
      BY <1>7, <1>8, <2>1, <2>6, <3>1 DEF SlotClose
  <2>7. QED
    BY <1>9, <2>2, <2>3, <2>4, <2>5, <2>6 DEF Save
<1>10. Cycle => active' \in Active /\ active'.name = active.name
  BY <1>1, <1>3, <1>4 DEF Cycle, EndCycle, InitializeFails, Initialize
<1>11. Switch => UNCHANGED active
  BY DEF Switch, ApplySame, ApplyFails, ApplyNew
<1>12. ~Restart
  BY <1>1 DEF Restart, TypeOK
<1>13. QED
  BY <1>2, <1>4, <1>9, <1>10, <1>11, <1>12 DEF Next, vars, ram

\* The ledger starts empty.
LEMMA InitLedger == Init => Ledger!Init
<1> SUFFICES ASSUME Init PROVE Ledger!Init
  OBVIOUS
<1>1. \A n \in Name : Head(n) = None
  BY InitNoHead
<1>2. QED
  BY <1>1 DEF Init, Ledger!Init

\* A write of the newest record advances the ledger, a completed archive file adds to it.
LEMMA StepLedger == Inductive /\ [Next]_vars => [Ledger!Next]_(Ledger!vars)
<1> SUFFICES ASSUME Inductive, [Next]_vars PROVE [Ledger!Next]_(Ledger!vars)
  OBVIOUS
<1> DEFINE head == [n \in Name |-> IF Head(n) = None THEN None ELSE Head(n).checkpoint]
<1>1. TypeOK /\ \A n \in Name : Head(n) # None => Head(n).checkpoint \in Checkpoint /\ Head(n).checkpoint # None
  BY HeadFacts, SentinelAssumption DEF Inductive, Stored
<1>2. ASSUME \A n \in Name : Head(n)' = Head(n) PROVE head' = head
  BY <1>2
<1>3. CASE UNCHANGED disk
  <2>1. \A n \in Name : Head(n)' = Head(n)
    BY <1>3, SameSlots DEF disk
  <2>2. QED
    BY <1>2, <1>3, <2>1 DEF disk, Ledger!vars
<1>4. ASSUME NEW n \in Name, StorageCall(n),
             (UNCHANGED archive /\ Head(n)' = Head(n)) \/ Archives(n) \/ Writes(n)
      PROVE  [Ledger!Next]_(Ledger!vars)
  <2>1. \A m \in Name \ {n} : Head(m)' = Head(m)
    BY <1>4, SameSlots DEF StorageCall
  <2>2. CASE UNCHANGED archive /\ Head(n)' = Head(n)
    <3>1. head' = head
      BY <1>2, <2>1, <2>2
    <3>2. QED
      BY <2>2, <3>1 DEF Ledger!vars
  <2>3. CASE Archives(n)
    <3>1. head' = head /\ head[n] = Head(n).checkpoint /\ head[n] # None
      <4>1. Head(n)' = Head(n)
        BY <2>3, SameSlots DEF Archives
      <4>2. QED
        BY <1>1, <1>2, <2>1, <2>3, <4>1 DEF Archives
    <3>2. Ledger!Archive(n)
      BY <2>3, <3>1 DEF Archives, Ledger!Archive
    <3>3. QED
      BY <3>2 DEF Ledger!Next
  <2>4. CASE Writes(n)
    <3> DEFINE new == SlotRecord.checkpoint
    <3>1. Head(n)' = SlotRecord /\ SlotRecord # None /\ new \in Checkpoint
      BY <2>4, SentinelAssumption DEF Writes, Stored
    <3>2. head' = [head EXCEPT ![n] = new] /\ head'[n] = new
      BY <2>1, <3>1
    <3>3. ASSUME head[n] # None
          PROVE  /\ new.by = head[n].by /\ new.reference.at >= head[n].reference.at
                 /\ head[n].anchor \in {None, new.anchor} \/ head[n] \in archive[n]
      <4>1. Head(n) # None /\ head[n] = Head(n).checkpoint /\ head[n] \in Checkpoint
        BY <1>1, <3>3
      <4>2. /\ Continues(active) /\ active.name = n /\ active.recovery.pending = None
            /\ active.session.reference \in Frame
        BY <1>1, <1>4, <2>4, ActiveType DEF StorageCall, Writes, Inductive, Sound, Session
      <4>3. new.by = identity /\ new.reference = active.session.reference /\ new.anchor = active.session.anchor
        BY DEF SlotRecord
      <4>4. head[n].reference.at \in Nat /\ new.reference.at \in Nat
        BY <4>1, <4>2, <4>3 DEF Checkpoint, Frame
      <4>5. QED
        BY <4>1, <4>2, <4>3, <4>4 DEF Continues
    <3>4. Ledger!Advance(n)
      BY <2>4, <3>1, <3>2, <3>3 DEF Writes, Ledger!Advance, Ledger!Follows
    <3>5. QED
      BY <3>4 DEF Ledger!Next
  <2>5. QED
    BY <1>4, <2>2, <2>3, <2>4
<1>5. QED
  BY <1>3, <1>4, CardStep

-----------------------------------------------------------------------------
(* Theorems                                                                *)

\* The card, the session in use and the one about to replace it fit together in every reachable
\* state (AccountingController, Recovery, loadCheckpoint, saveCheckpoint).
THEOREM CheckpointInvariant == Spec => []Inductive
<1>1. Init => Inductive
  BY InitInductive
<1>2. Inductive /\ [Next]_vars => Inductive'
  BY StepInductive
<1>3. QED
  BY <1>1, <1>2, PTL DEF Spec

\* Every file and every variable holds a value of its kind.
THEOREM CheckpointTypes == Spec => []TypeOK
<1>1. Inductive => TypeOK
  BY DEF Inductive
<1>2. QED
  BY <1>1, CheckpointInvariant, PTL

\* What the status page calls persisted is the newest record on the card, and can be loaded.
THEOREM CheckpointPersisted == Spec => []PersistedMeansOnDisk
  BY InductivePersisted, CheckpointInvariant, PTL

\* Consumption is measured between images of one activation, and no time is covered twice.
THEOREM CheckpointSegments == Spec => []SegmentsSound
  BY InductiveSegments, CheckpointInvariant, PTL

\* A record is given up for a newer one only: not to a retry after an uncertain write, a switch
\* of the assumptions, or another firmware.
THEOREM CheckpointRecordsProtected == Spec => RecordsProtected
<1>1. Inductive /\ [Next]_vars =>
        \A n \in Name :
          (active # None /\ active.name = n /\ active.recovery.status \notin Usable)
            => UNCHANGED <<slot[n], archive[n], damaged[n]>>
  BY StepNoBlindRetry
<1>2. Inductive /\ [Next]_vars =>
        \A n \in Name :
          (active # None /\ active.name = n /\ boot' = boot) =>
            /\ active' # None
            /\ (active'.name # n /\ active.session.reference # None)
                 => /\ Head(n)' # None
                    /\ Head(n)'.checkpoint.reference = active.session.reference
  BY StepOutgoing
<1>3. Inductive /\ [Next]_vars =>
        \A n \in Name : (Head(n) # None /\ Head(n).checkpoint.by # identity)
          => UNCHANGED <<slot[n], archive[n], damaged[n]>>
  BY StepForeignKept
<1>4. QED
  BY <1>1, <1>2, <1>3, CheckpointInvariant, PTL
  DEF Spec, RecordsProtected, NoBlindRetry, OutgoingPreserved, ForeignRecordsKept

\* The files implement the abstract ledger, power losses and failed writes included.
THEOREM CheckpointImplementsLedger == Spec => ImplementsLedger
<1>1. Init => Ledger!Init
  BY InitLedger
<1>2. Inductive /\ [Next]_vars => [Ledger!Next]_(Ledger!vars)
  BY StepLedger
<1>3. QED
  BY <1>1, <1>2, CheckpointInvariant, PTL DEF Spec, ImplementsLedger, Ledger!Spec
=============================================================================
