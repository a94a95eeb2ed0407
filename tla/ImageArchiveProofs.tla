-------------------------- MODULE ImageArchiveProofs --------------------------
(***************************************************************************)
(* Proofs, for all images, settings, capacities and bounds, of the safety  *)
(* properties of ImageArchive and of its refinement of DeliveredImages.    *)
(***************************************************************************)
EXTENDS ImageArchive, FiniteSetTheorems, TLAPS

Entries == [state : {"Empty", "Pending", "Uploading", "Acknowledged", "Blocked"},
            capture : Capture \cup {None}, waiting : BOOLEAN]

-----------------------------------------------------------------------------
(* What a step does to the card and to the queue                           *)

Advances(from, to) == <<from, to>> \in {<<"none", "torn">>, <<"torn", "whole">>, <<"whole", "final">>}

SettingsWritten ==
  /\ pc \in {"settings", "settingsClose"}
  /\ \E to \in FileStates : Advances(SettingsFile, to) /\ WriteSettings(to)
  /\ SettingsFile = "none" => SettingsOpen
  /\ UNCHANGED entry

SpoolWritten ==
  /\ pc \in {"spool", "spoolClose", "spoolRename"}
  /\ \E to \in FileStates : Advances(spool[job], to) /\ WriteSpool(to)
  /\ spool[job] = "none" => SpoolOpen
  /\ UNCHANGED entry

Removed(i) ==
  /\ entry[i].state = "Acknowledged" /\ spool[entry[i].capture] = "final"
  /\ spool' = [spool EXCEPT ![entry[i].capture] = "none"]
  /\ entry' \in {entry, [entry EXCEPT ![i] = EmptySlot]}
  /\ UNCHANGED describe

SettingsRemoved ==
  /\ pc = "prune" /\ ~Unreadable /\ ~Referenced(pruning)
  /\ describe[pruning] = "final"
  /\ describe' = [describe EXCEPT ![pruning] = "none"]
  /\ UNCHANGED <<spool, entry>>

Recovered ==
  /\ pc = "start" /\ boot' = boot
  /\ UNCHANGED <<producing, inbox, job, images, taken>>
  /\ entry' \in [Slots -> Entries]
  /\ \A i \in Slots : \/ entry'[i] = EmptySlot
                      \/ entry'[i].state = "Pending" /\ entry'[i].capture \in Spooled
  /\ \A i, j \in Slots : i # j /\ entry'[i] # EmptySlot => entry'[i].capture # entry'[j].capture

Added(i) ==
  /\ pc = "add" /\ pc' = "stored"
  /\ UNCHANGED <<producing, inbox, job, images, taken>>
  /\ entry[i].state = "Empty"
  /\ entry' = [entry EXCEPT ![i] = [EmptySlot EXCEPT !.state = "Pending", !.capture = job]]

Moves(from, to) ==
  from = to \/ <<from, to>> \in {<<"Pending", "Uploading">>, <<"Uploading", "Pending">>,
                                 <<"Uploading", "Blocked">>, <<"Uploading", "Acknowledged">>}
Moved(i) ==
  \E to \in {"Empty", "Pending", "Uploading", "Acknowledged", "Blocked"}, waiting \in BOOLEAN :
    /\ Moves(entry[i].state, to)
    /\ entry' = [entry EXCEPT ![i] = [@ EXCEPT !.state = to, !.waiting = waiting]]
    /\ to = "Acknowledged" => entry[i].capture \in images'
    /\ UNCHANGED <<producing, inbox, job, taken>>

StoreChange ==
  \/ SettingsWritten \/ SpoolWritten \/ (\E i \in Slots : Removed(i)) \/ SettingsRemoved
  \/ /\ UNCHANGED card
     /\ \/ UNCHANGED entry
        \/ Recovered
        \/ \E i \in Slots : Added(i) \/ Moved(i)
        \/ boot' # boot /\ entry' = [i \in Slots |-> EmptySlot]

\* What the worker stores, sends or prunes at a step exists.
LEMMA WorkerHolding ==
  ASSUME Inductive
  PROVE  /\ pc \in StoringSteps => job \in Capture /\ SettingsOf[job] \in Settings
         /\ pc \in SendingSteps \cup {"cleanup"} => ticket \in Slots /\ Uploaded \in Capture
         /\ pc = "prune" => pruning \in Settings
         /\ EmptySlot \in Entries /\ entry \in [Slots -> Entries]
         /\ \A i \in Slots : entry[i].state # "Empty" <=> entry[i].capture \in Capture
  BY ArchiveAssumption
     DEF Inductive, Working, Queued, StoringSteps, SendingSteps, Uploaded, EmptySlot, Entries, TypeOK

\* Every step changes the card and the queue in one of these ways, or not at all.
LEMMA StepStore == Inductive /\ [Next]_vars => StoreChange
<1> SUFFICES ASSUME Inductive, [Next]_vars PROVE StoreChange
  OBVIOUS
<1> USE DEF card, receiver, handoff, engine, Go, Storing, Stepping, WriteSettings, WriteSpool, Advances
<1>1. CASE \/ Produce \/ RecoverFails \/ Publish \/ ReceiveNothing \/ Claim \/ ClaimFails
           \/ Receive \/ Admit \/ Reject \/ InventoryFails \/ SettingsKnown \/ AddFull \/ Stored
  <2>1. UNCHANGED card /\ UNCHANGED entry
    BY <1>1 DEF Produce, Offer, Reserve, Drop, HandoffFails, Handoff, RecoverFails, Publish,
         ReceiveNothing, Claim, ClaimFails, Receive, Admit, Reject, InventoryFails, SettingsKnown,
         AddFull, Stored
  <2>2. QED
    BY <2>1 DEF StoreChange
<1>2. CASE \/ CleanedUp \/ NothingToUpload \/ SendSettings \/ CleanUpFails \/ PruneNothing \/ Release
           \/ \E c \in Capture : LateImage(c)
  <2>1. UNCHANGED card /\ UNCHANGED entry
    BY <1>2 DEF CleanedUp, NothingToUpload, SendSettings, CleanUpFails, PruneNothing, Pruned, Release,
         LateImage
  <2>2. QED
    BY <2>1 DEF StoreChange
<1>3. CASE Recover
  <2>1. Recovered
    <3>1. PICK listing \in Listings :
            entry' = [i \in Slots |-> IF i \in DOMAIN listing
                                      THEN [EmptySlot EXCEPT !.state = "Pending", !.capture = listing[i]]
                                      ELSE EmptySlot]
      BY <1>3 DEF Recover
    <3>2. /\ \A i \in DOMAIN listing : listing[i] \in Spooled /\ listing[i] \in Capture
          /\ \A i, j \in DOMAIN listing : i # j => listing[i] # listing[j]
      BY DEF Listings, Spooled
    <3>3. ASSUME NEW i \in Slots, entry'[i] # EmptySlot
          PROVE  /\ i \in DOMAIN listing
                 /\ entry'[i] \in Entries /\ entry'[i].state = "Pending" /\ entry'[i].capture = listing[i]
      <4>1. i \in DOMAIN listing
        BY <3>1, <3>3
      <4>2. entry'[i] = [state |-> "Pending", capture |-> listing[i], waiting |-> FALSE]
        BY <3>1, <4>1 DEF EmptySlot
      <4>3. QED
        BY <3>2, <4>1, <4>2 DEF Entries
    <3>4. EmptySlot.capture = None /\ None \notin Capture
      BY ArchiveAssumption DEF EmptySlot
    <3>5. entry' \in [Slots -> Entries]
      <4>1. ASSUME NEW i \in Slots PROVE entry'[i] \in Entries
        <5>1. CASE entry'[i] = EmptySlot
          BY <5>1, WorkerHolding
        <5>2. CASE entry'[i] # EmptySlot
          BY <5>2, <3>3
        <5>3. QED
          BY <5>1, <5>2
      <4>2. QED
        BY <3>1, <4>1
    <3>6. ASSUME NEW i \in Slots, NEW j \in Slots, i # j, entry'[i] # EmptySlot
          PROVE  entry'[i].capture # entry'[j].capture
      <4>1. i \in DOMAIN listing /\ entry'[i].capture = listing[i] /\ listing[i] \in Capture
        BY <3>2, <3>3, <3>6
      <4>2. CASE entry'[j] = EmptySlot
        BY <3>4, <4>1, <4>2
      <4>3. CASE entry'[j] # EmptySlot
        <5>1. j \in DOMAIN listing /\ entry'[j].capture = listing[j]
          BY <3>3, <4>3
        <5>2. QED
          BY <3>2, <3>6, <4>1, <5>1
      <4>4. QED
        BY <4>2, <4>3
    <3>7. \A i \in Slots : \/ entry'[i] = EmptySlot
                           \/ entry'[i].state = "Pending" /\ entry'[i].capture \in Spooled
      <4>1. ASSUME NEW i \in Slots, entry'[i] # EmptySlot
            PROVE  entry'[i].state = "Pending" /\ entry'[i].capture \in Spooled
        BY <3>2, <3>3, <4>1
      <4>2. QED
        BY <4>1
    <3>8. QED
      BY <1>3, <3>5, <3>6, <3>7 DEF Recover, Recovered
  <2>2. QED
    BY <1>3, <2>1 DEF StoreChange, Recover
<1>4. CASE SettingsOpen \/ SettingsClose \/ SettingsRename
  <2>1. SettingsWritten
    BY <1>4 DEF SettingsOpen, SettingsClose, SettingsRename, SettingsWritten, FileStates, Inductive,
         Writing
  <2>2. QED
    BY <2>1 DEF StoreChange
<1>5. CASE SettingsFail
  <2>1. UNCHANGED entry
    BY <1>5 DEF SettingsFail
  <2>2. UNCHANGED card \/ SettingsWritten
    BY <1>5, <2>1 DEF SettingsFail, SettingsWritten, FileStates, Inductive, Writing
  <2>3. QED
    BY <2>1, <2>2 DEF StoreChange
<1>6. CASE SpoolOpen \/ SpoolClose \/ SpoolRename
  <2>1. SpoolWritten
    BY <1>6 DEF SpoolOpen, SpoolClose, SpoolRename, SpoolWritten, FileStates, Inductive, Writing
  <2>2. QED
    BY <2>1 DEF StoreChange
<1>7. CASE SpoolFail
  <2>1. UNCHANGED entry
    BY <1>7 DEF SpoolFail
  <2>2. UNCHANGED card \/ SpoolWritten
    BY <1>7, <2>1 DEF SpoolFail, SpoolWritten, FileStates, Inductive, Writing
  <2>3. QED
    BY <2>1, <2>2 DEF StoreChange
<1>8. CASE Add
  <2>1. \E i \in Slots : Added(i)
    BY <1>8 DEF Add, Added, FirstEmpty, Holding
  <2>2. QED
    BY <1>8, <2>1 DEF StoreChange, Add
<1>9. CASE CleanUp \/ CleanUpUploaded
  <2>1. \E i \in Slots : Removed(i)
    <3>1. CASE CleanUp
      BY <3>1 DEF CleanUp, Remove, RemoveUnconfirmed, Removed, Holding
    <3>2. CASE CleanUpUploaded
      BY <3>2, WorkerHolding DEF CleanUpUploaded, Remove, RemoveUnconfirmed, Removed, Inductive, Working
    <3>3. QED
      BY <1>9, <3>1, <3>2
  <2>2. QED
    BY <2>1 DEF StoreChange
<1>10. CASE Begin
  <2>1. PICK i \in Eligible : entry' = [entry EXCEPT ![i].state = "Uploading"]
    BY <1>10 DEF Begin
  <2>2. i \in Slots /\ entry[i].state = "Pending" /\ entry[i] \in Entries
    BY <2>1, WorkerHolding DEF Eligible, Holding
  <2>3. entry' = [entry EXCEPT ![i] = [@ EXCEPT !.state = "Uploading", !.waiting = entry[i].waiting]]
    BY <2>1, <2>2, WorkerHolding DEF Entries
  <2>4. Moved(i)
    BY <1>10, <2>2, <2>3 DEF Begin, Moved, Moves, Entries
  <2>5. QED
    BY <1>10, <2>2, <2>4 DEF StoreChange, Begin
<1>11. CASE SendSettingsFails \/ SendImage \/ SendImageFails \/ SendImageRejected
  <2>1. /\ ticket \in Slots /\ entry[ticket].state = "Uploading"
        /\ UNCHANGED <<card, producing, inbox, job, taken>>
    BY <1>11, WorkerHolding
       DEF SendSettingsFails, SendImage, SendImageFails, SendImageRejected, Finish, Inductive, Working,
           SendingSteps
  <2>2. PICK to \in {"Pending", "Blocked", "Acknowledged"} :
          /\ entry' = [entry EXCEPT ![ticket] = [@ EXCEPT !.state = to, !.waiting = (to = "Pending")]]
          /\ to = "Acknowledged" => entry[ticket].capture \in images'
    BY <1>11 DEF SendSettingsFails, SendImage, SendImageFails, SendImageRejected, Finish, Uploaded
  <2>3. PICK waiting \in BOOLEAN : waiting = (to = "Pending")
    OBVIOUS
  <2>4. entry' = [entry EXCEPT ![ticket] = [@ EXCEPT !.state = to, !.waiting = waiting]]
    BY <2>2, <2>3
  <2>5. Moved(ticket)
    BY <2>1, <2>2, <2>4 DEF Moved, Moves
  <2>6. QED
    BY <2>1, <2>5 DEF StoreChange
<1>12. CASE Prune
  BY <1>12 DEF Prune, Pruned, SettingsRemoved, StoreChange
<1>13. CASE Restart
  BY <1>13 DEF Restart, StoreChange, Inductive, TypeOK
<1>14. ASSUME NEW i \in Slots, BackoffElapses(i) PROVE StoreChange
  <2>1. entry[i] \in Entries /\ (entry[i].state = "Acknowledged" => entry[i].capture \in images')
    BY <1>14, WorkerHolding DEF BackoffElapses, Inductive, Queued
  <2>2. PICK to \in {"Empty", "Pending", "Uploading", "Acknowledged", "Blocked"} : to = entry[i].state
    BY <1>14, <2>1 DEF BackoffElapses, Entries
  <2>3. entry' = [entry EXCEPT ![i] = [@ EXCEPT !.state = to, !.waiting = FALSE]]
    BY <1>14, <2>1, <2>2, WorkerHolding DEF BackoffElapses, Entries
  <2>4. Moved(i)
    BY <1>14, <2>1, <2>2, <2>3 DEF Moved, Moves, BackoffElapses
  <2>5. QED
    BY <1>14, <2>4 DEF StoreChange, BackoffElapses
<1>15. CASE UNCHANGED vars
  BY <1>15 DEF vars, StoreChange
<1> HIDE DEF card, receiver, handoff, engine, Go, Storing, Stepping, WriteSettings, WriteSpool, Advances
<1>16. QED
  BY <1>1, <1>2, <1>3, <1>4, <1>5, <1>6, <1>7, <1>8, <1>9, <1>10, <1>11, <1>12, <1>13, <1>14, <1>15
     DEF Next, Worker, Enqueue, Step

-----------------------------------------------------------------------------
(* Types                                                                   *)

\* Files and entries keep their types.
LEMMA StepStoreType == Inductive /\ [Next]_vars =>
  /\ spool' \in [Capture -> FileStates] /\ describe' \in [Settings -> FileStates]
  /\ entry' \in [Slots -> Entries]
<1> SUFFICES ASSUME Inductive, [Next]_vars
             PROVE  /\ spool' \in [Capture -> FileStates] /\ describe' \in [Settings -> FileStates]
                    /\ entry' \in [Slots -> Entries]
  OBVIOUS
<1>1. /\ spool \in [Capture -> FileStates] /\ describe \in [Settings -> FileStates]
      /\ entry \in [Slots -> Entries] /\ EmptySlot \in Entries
  BY WorkerHolding DEF Inductive, TypeOK
<1> USE DEF card, FileStates, Advances
<1>2. CASE SettingsWritten
  BY <1>1, <1>2 DEF SettingsWritten, WriteSettings
<1>3. CASE SpoolWritten
  BY <1>1, <1>3 DEF SpoolWritten, WriteSpool
<1>4. ASSUME NEW i \in Slots, Removed(i)
      PROVE  spool' \in [Capture -> FileStates] /\ describe' = describe /\ entry' \in [Slots -> Entries]
  BY <1>1, <1>4 DEF Removed
<1>5. CASE SettingsRemoved
  BY <1>1, <1>5 DEF SettingsRemoved
<1>6. CASE UNCHANGED card /\ Recovered
  BY <1>1, <1>6 DEF Recovered
<1>7. ASSUME UNCHANGED card, NEW i \in Slots, Added(i) PROVE entry' \in [Slots -> Entries]
  <2>1. job \in Capture
    BY <1>7, WorkerHolding DEF Added, StoringSteps
  <2>2. [EmptySlot EXCEPT !.state = "Pending", !.capture = job] \in Entries
    BY <2>1 DEF EmptySlot, Entries
  <2>3. QED
    BY <1>1, <1>7, <2>2 DEF Added
<1>8. ASSUME UNCHANGED card, NEW i \in Slots, Moved(i) PROVE entry' \in [Slots -> Entries]
  <2>1. PICK to \in {"Empty", "Pending", "Uploading", "Acknowledged", "Blocked"}, waiting \in BOOLEAN :
          entry' = [entry EXCEPT ![i] = [@ EXCEPT !.state = to, !.waiting = waiting]]
    BY <1>8 DEF Moved
  <2>2. [entry[i] EXCEPT !.state = to, !.waiting = waiting] \in Entries
    BY <1>1 DEF Entries
  <2>3. QED
    BY <1>1, <2>1, <2>2
<1>9. CASE UNCHANGED card /\ (UNCHANGED entry \/ entry' = [i \in Slots |-> EmptySlot])
  BY <1>1, <1>9
<1> HIDE DEF FileStates, Advances
<1>10. QED
  BY <1>1, <1>2, <1>3, <1>4, <1>5, <1>6, <1>7, <1>8, <1>9, StepStore DEF StoreChange

\* Every step keeps the types.
LEMMA StepType == Inductive /\ [Next]_vars => TypeOK'
<1> SUFFICES ASSUME Inductive, [Next]_vars PROVE TypeOK'
  OBVIOUS
<1> USE DEF card, receiver, handoff, engine, Go, Storing, Stepping
<1>1. /\ images' \subseteq Capture /\ settings' \subseteq Settings /\ late' \subseteq Capture
      /\ taken' \subseteq Capture /\ boot' \in 1..MaxBoot
  <2>0. /\ images \subseteq Capture /\ settings \subseteq Settings /\ late \subseteq Capture
        /\ taken \subseteq Capture /\ boot \in 1..MaxBoot
        /\ pc \in SendingSteps => Uploaded \in Capture /\ SettingsOf[Uploaded] \in Settings
    BY ArchiveAssumption, WorkerHolding DEF Inductive, TypeOK
  <2>1. CASE Produce \/ \E c \in Capture : LateImage(c)
    BY <2>0, <2>1 DEF Produce, Offer, Reserve, Drop, HandoffFails, Handoff, LateImage
  <2>2. CASE Enqueue
    BY <2>0, <2>2 DEF Enqueue, Receive, Admit, Reject, InventoryFails, SettingsKnown, SettingsOpen,
         SettingsClose, SettingsRename, SettingsFail, SpoolOpen, SpoolClose, SpoolRename, SpoolFail, Add,
         AddFull, Stored
  <2>3. CASE SendSettings \/ SendSettingsFails \/ SendImage \/ SendImageFails \/ SendImageRejected
    BY <2>0, <2>3 DEF SendSettings, SendSettingsFails, SendImage, SendImageFails, SendImageRejected,
         SendingSteps
  <2>4. CASE Restart
    <3>1. late' \in {late} \cup {late \cup {Uploaded}} /\ (late' # late => pc = "sendImage")
      BY <2>4 DEF Restart
    <3>2. boot' = boot + 1 /\ boot < MaxBoot /\ UNCHANGED <<images, settings, taken>>
      BY <2>4 DEF Restart
    <3>3. MaxBoot \in Nat
      BY ArchiveAssumption
    <3>4. boot' \in 1..MaxBoot
      BY <2>0, <3>2, <3>3
    <3>5. QED
      BY <2>0, <3>1, <3>2, <3>4 DEF SendingSteps
  <2>5. CASE \/ Recover \/ RecoverFails \/ Publish \/ ReceiveNothing \/ Claim \/ ClaimFails
             \/ CleanUp \/ CleanedUp \/ Begin \/ NothingToUpload \/ CleanUpUploaded \/ CleanUpFails
             \/ Prune \/ PruneNothing \/ Release \/ (\E i \in Slots : BackoffElapses(i))
             \/ UNCHANGED vars
    BY <2>0, <2>5 DEF Recover, RecoverFails, Publish, ReceiveNothing, Claim, ClaimFails, CleanUp,
         CleanedUp, Begin, NothingToUpload, CleanUpUploaded, CleanUpFails, Prune, PruneNothing, Pruned,
         Release, BackoffElapses, vars
  <2>6. QED
    BY <2>1, <2>2, <2>3, <2>4, <2>5 DEF Next, Worker, Step
<1>2. /\ producing' \in Capture \cup {None} /\ inbox' \in Capture \cup {None}
      /\ job' \in Capture \cup {None} /\ pruning' \in Settings \cup {None}
      /\ cursor' \in Slots /\ ticket' \in Slots \cup {0} /\ pc' \in Steps
  <2>0. /\ producing \in Capture \cup {None} /\ inbox \in Capture \cup {None}
        /\ job \in Capture \cup {None} /\ pruning \in Settings \cup {None}
        /\ cursor \in Slots /\ ticket \in Slots \cup {0} /\ pc \in Steps
    BY DEF Inductive, TypeOK
  <2>1. CASE Produce \/ (\E c \in Capture : LateImage(c)) \/ \E i \in Slots : BackoffElapses(i)
    BY <2>0, <2>1 DEF Produce, Offer, Reserve, Drop, HandoffFails, Handoff, LateImage, BackoffElapses
  <2>2. CASE Enqueue
    BY <2>0, <2>2 DEF Enqueue, Receive, Admit, Reject, InventoryFails, SettingsKnown, SettingsOpen,
         SettingsClose, SettingsRename, SettingsFail, SpoolOpen, SpoolClose, SpoolRename, SpoolFail, Add,
         AddFull, Stored, Steps
  <2>3. CASE SendSettings \/ SendSettingsFails \/ SendImage \/ SendImageFails \/ SendImageRejected
    BY <2>0, <2>3 DEF SendSettings, SendSettingsFails, SendImage, SendImageFails, SendImageRejected,
         Finish, Steps
  <2>4. CASE CleanUp \/ CleanUpUploaded
    <3>1. PICK i \in Slots, to \in {"clean", "release"} :
            entry[i].state = "Acknowledged" /\ (Remove(i) \/ RemoveUnconfirmed(i, to))
      BY <2>4, WorkerHolding
         DEF CleanUp, CleanUpUploaded, Holding, Inductive, Working
    <3>2. SettingsOf[entry[i].capture] \in Settings
      BY <3>1, WorkerHolding, ArchiveAssumption
    <3>3. UNCHANGED <<producing, inbox, job>>
      BY <2>4 DEF CleanUp, CleanUpUploaded
    <3>4. QED
      BY <2>0, <3>1, <3>2, <3>3 DEF Remove, RemoveUnconfirmed, Steps
  <2>5. CASE Begin
    <3>1. PICK i \in Slots : ticket' = i /\ cursor' = (i % Capacity) + 1
      BY <2>5 DEF Begin, Eligible, Holding
    <3>2. cursor' \in Slots
      BY <3>1, ArchiveAssumption DEF Slots
    <3>3. QED
      BY <2>0, <2>5, <3>1, <3>2 DEF Begin, Steps
  <2>6. CASE Restart
    BY <2>0, <2>6, ArchiveAssumption DEF Restart, Slots, Steps
  <2>7. CASE \/ Recover \/ RecoverFails \/ Publish \/ ReceiveNothing \/ Claim \/ ClaimFails \/ CleanedUp
             \/ NothingToUpload \/ CleanUpFails \/ Prune \/ PruneNothing \/ Release \/ UNCHANGED vars
    BY <2>0, <2>7 DEF Recover, RecoverFails, Publish, ReceiveNothing, Claim, ClaimFails,
         CleanedUp, NothingToUpload, CleanUpFails, Prune, PruneNothing, Pruned, Release, vars, Steps
  <2>8. QED
    BY <2>1, <2>2, <2>3, <2>4, <2>5, <2>6, <2>7 DEF Next, Worker, Step
<1>3. copying' \in BOOLEAN /\ reserved' \in BOOLEAN /\ published' \in BOOLEAN /\ ready' \in BOOLEAN
  <2>0. copying \in BOOLEAN /\ reserved \in BOOLEAN /\ published \in BOOLEAN /\ ready \in BOOLEAN
    BY DEF Inductive, TypeOK
  <2>1. CASE Produce
    BY <2>0, <2>1 DEF Produce, Offer, Reserve, Drop, HandoffFails, Handoff
  <2>2. CASE Enqueue
    BY <2>0, <2>2 DEF Enqueue, Receive, Admit, Reject, InventoryFails, SettingsKnown, SettingsOpen,
         SettingsClose, SettingsRename, SettingsFail, SpoolOpen, SpoolClose, SpoolRename, SpoolFail, Add,
         AddFull, Stored
  <2>3. CASE Step
    BY <2>0, <2>3 DEF Step, CleanUp, CleanedUp, Begin, NothingToUpload, SendSettings, SendSettingsFails,
         SendImage, SendImageFails, SendImageRejected, CleanUpUploaded, CleanUpFails, Prune, PruneNothing,
         Pruned, Release
  <2>4. CASE \/ Recover \/ RecoverFails \/ Publish \/ ReceiveNothing \/ Claim \/ ClaimFails \/ Restart
             \/ (\E c \in Capture : LateImage(c)) \/ (\E i \in Slots : BackoffElapses(i))
             \/ UNCHANGED vars
    BY <2>0, <2>4 DEF Recover, RecoverFails, Publish, ReceiveNothing, Claim, ClaimFails, Restart,
         LateImage, BackoffElapses, vars
  <2>5. QED
    BY <2>1, <2>2, <2>3, <2>4 DEF Next, Worker
<1> HIDE DEF card, receiver, handoff, engine, Go, Storing, Stepping
<1>4. QED
  BY <1>1, <1>2, <1>3, StepStoreType DEF TypeOK, Entries

-----------------------------------------------------------------------------
(* The card and the queue                                                  *)

\* Settings are written before the image and pruned when no image refers to them.
LEMMA StepAccompany == Inductive /\ [Next]_vars => SettingsAccompany'
<1> SUFFICES ASSUME Inductive, [Next]_vars, NEW c \in Capture, spool'[c] # "none"
             PROVE  describe'[SettingsOf[c]] = "final"
  BY DEF SettingsAccompany
<1>1. /\ spool \in [Capture -> FileStates] /\ describe \in [Settings -> FileStates]
      /\ SettingsOf[c] \in Settings /\ (spool[c] # "none" => describe[SettingsOf[c]] = "final")
  BY ArchiveAssumption DEF Inductive, TypeOK, SettingsAccompany
<1>2. CASE SettingsWritten
  <2>1. PICK to \in FileStates : Advances(SettingsFile, to) /\ WriteSettings(to)
    BY <1>2 DEF SettingsWritten
  <2>2. describe' = [describe EXCEPT ![SettingsOf[job]] = to] /\ spool' = spool
    BY <2>1 DEF WriteSettings
  <2>3. describe[SettingsOf[job]] # "final"
    BY <2>1 DEF Advances, SettingsFile
  <2>4. QED
    BY <1>1, <2>2, <2>3
<1>3. CASE SpoolWritten
  <2>1. /\ job \in Capture /\ describe[SettingsOf[job]] = "final" /\ describe' = describe
        /\ \E to \in FileStates : spool' = [spool EXCEPT ![job] = to]
    BY <1>3, WorkerHolding
       DEF SpoolWritten, WriteSpool, Inductive, Writing, SettingsFile, StoringSteps
  <2>2. QED
    BY <1>1, <2>1
<1>4. ASSUME NEW i \in Slots, Removed(i) PROVE describe'[SettingsOf[c]] = "final"
  BY <1>1, <1>4 DEF Removed
<1>5. CASE SettingsRemoved
  <2>1. /\ spool[c] \in {"torn", "whole", "final"} /\ spool[c] # "torn"
        /\ ~(spool[c] \in {"whole", "final"} /\ SettingsOf[c] = pruning)
    BY <1>1, <1>5 DEF SettingsRemoved, Unreadable, Referenced, FileStates
  <2>2. QED
    BY <1>1, <1>5, <2>1 DEF SettingsRemoved
<1>6. CASE UNCHANGED card
  BY <1>1, <1>6 DEF card
<1>7. QED
  BY <1>2, <1>3, <1>4, <1>5, <1>6, StepStore DEF StoreChange

\* No other slot has the image of a slot that is not empty.
LEMMA OwnImage ==
  ASSUME Inductive, NEW i \in Slots, NEW j \in Slots, i # j, entry[i].state # "Empty"
  PROVE  entry[i].capture \in Capture /\ entry[i].capture # entry[j].capture
  BY WorkerHolding DEF Inductive, QueueMatchesCard

\* An entry comes with a complete file, and its file goes only once it is acknowledged.
LEMMA StepQueueMatchesCard == Inductive /\ [Next]_vars => QueueMatchesCard'
<1> SUFFICES ASSUME Inductive, [Next]_vars PROVE QueueMatchesCard'
  OBVIOUS
<1> DEFINE Waiting == {"Pending", "Uploading", "Blocked"}
           Complete(i) == entry[i].state \in Waiting => spool[entry[i].capture] = "final"
           Own(i, j) == i # j /\ entry[i].state # "Empty" => entry[i].capture # entry[j].capture
<1> SUFFICES /\ \A i \in Slots : Complete(i)'
             /\ \A i, j \in Slots : Own(i, j)'
  BY DEF QueueMatchesCard
<1>1. /\ \A i \in Slots : Complete(i)
      /\ \A i, j \in Slots : Own(i, j)
      /\ \A i \in Slots : entry[i].state = "Empty" <=> entry[i].capture = None
      /\ entry \in [Slots -> Entries] /\ spool \in [Capture -> FileStates]
      /\ \A i \in Slots : entry[i].state # "Empty" <=> entry[i].capture \in Capture
      /\ EmptySlot.state = "Empty" /\ EmptySlot.capture = None /\ None \notin Capture
  BY WorkerHolding, ArchiveAssumption DEF Inductive, QueueMatchesCard, Queued, TypeOK, EmptySlot
<1>2. CASE UNCHANGED <<spool, entry>>
  BY <1>1, <1>2
<1>3. CASE SpoolWritten
  <2>1. PICK to \in FileStates : Advances(spool[job], to) /\ WriteSpool(to)
    BY <1>3 DEF SpoolWritten
  <2>2. /\ job \in Capture /\ entry' = entry /\ spool' = [spool EXCEPT ![job] = to]
        /\ spool[job] # "final"
    BY <1>3, <2>1, WorkerHolding DEF SpoolWritten, WriteSpool, Advances, StoringSteps
  <2>3. QED
    BY <1>1, <2>2
<1>4. ASSUME NEW k \in Slots, Removed(k)
      PROVE  /\ \A i \in Slots : Complete(i)'
             /\ \A i, j \in Slots : Own(i, j)'
  <2>1. /\ entry[k].state = "Acknowledged" /\ entry[k].capture \in Capture
        /\ spool' = [spool EXCEPT ![entry[k].capture] = "none"]
        /\ \A i \in Slots \ {k} : entry'[i] = entry[i]
        /\ entry'[k] \in {entry[k], EmptySlot}
    BY <1>1, <1>4 DEF Removed
  <2>2. \A i \in Slots : Complete(i)'
    BY <1>1, <2>1
  <2>3. \A i, j \in Slots : Own(i, j)'
    BY <1>1, <2>1
  <2>4. QED
    BY <2>2, <2>3
<1>5. CASE UNCHANGED card /\ Recovered
  <2>1. ASSUME NEW i \in Slots, entry'[i].state # "Empty"
        PROVE  entry'[i] # EmptySlot /\ spool'[entry'[i].capture] = "final"
    BY <1>1, <1>5, <2>1 DEF Recovered, Spooled, card
  <2>2. QED
    BY <1>5, <2>1 DEF Recovered
<1>6. ASSUME UNCHANGED card, NEW k \in Slots, Added(k)
      PROVE  /\ \A i \in Slots : Complete(i)'
             /\ \A i, j \in Slots : Own(i, j)'
  <2>1. /\ job \in Capture /\ spool'[job] = "final" /\ spool' = spool
        /\ \A i \in Slots : entry[i].state # "Empty" => entry[i].capture # job
    BY <1>6, WorkerHolding DEF Added, card, Inductive, Writing, Queued, StoringSteps
  <2>2. /\ entry'[k].state = "Pending" /\ entry'[k].capture = job
        /\ \A i \in Slots \ {k} : entry'[i] = entry[i]
    BY <1>1, <1>6 DEF Added
  <2>3. \A i \in Slots \ {k} : entry'[i].capture # job
    BY <1>1, <2>1, <2>2
  <2>4. QED
    BY <1>1, <2>1, <2>2, <2>3
<1>7. ASSUME UNCHANGED card, NEW k \in Slots, Moved(k)
      PROVE  /\ \A i \in Slots : Complete(i)'
             /\ \A i, j \in Slots : Own(i, j)'
  <2>1. /\ spool' = spool /\ \A i \in Slots \ {k} : entry'[i] = entry[i]
        /\ entry'[k].capture = entry[k].capture /\ Moves(entry[k].state, entry'[k].state)
    BY <1>1, <1>7 DEF Moved, card, Entries
  <2>2. /\ entry'[k].state \in Waiting => entry[k].state \in Waiting
        /\ entry'[k].state # "Empty" => entry[k].state # "Empty"
    BY <2>1 DEF Moves
  <2>3. QED
    BY <1>1, <2>1, <2>2
<1>8. CASE UNCHANGED card /\ entry' = [i \in Slots |-> EmptySlot]
  BY <1>1, <1>8
<1> HIDE DEF Waiting, Complete, Own
<1>9. QED
  BY <1>2, <1>3, <1>4, <1>5, <1>6, <1>7, <1>8, StepStore
     DEF StoreChange, SettingsWritten, WriteSettings, SettingsRemoved, card

-----------------------------------------------------------------------------
(* The way of an image from the camera to its entry                        *)

HandoverChange ==
  /\ images \subseteq images'
  /\ pc = "stored" /\ job' # None => pc' = "stored"
  /\ \/ UNCHANGED <<producing, inbox, job, taken>>
     \/ \E c \in Capture \ taken : /\ taken' = taken \cup {c}
                                   /\ producing' \in {c, None}
                                   /\ UNCHANGED <<inbox, job>>
     \/ producing' = None /\ inbox' \in {inbox, producing} /\ UNCHANGED <<job, taken>>
     \/ job' = inbox /\ inbox' = None /\ UNCHANGED <<producing, taken>>
     \/ job' = None /\ UNCHANGED <<producing, inbox, taken>>
     \/ producing' = None /\ inbox' = None /\ job' = None /\ UNCHANGED taken

\* An image moves one place on, or is dropped before it is stored.
LEMMA StepHandover == Inductive /\ [Next]_vars => HandoverChange
<1> SUFFICES ASSUME Inductive, [Next]_vars PROVE HandoverChange
  OBVIOUS
<1> USE DEF receiver, handoff, engine, Go, Storing, Stepping, HandoverChange
<1>1. CASE Produce
  BY <1>1 DEF Produce, Offer, Reserve, Drop, HandoffFails, Handoff
<1>2. CASE Receive \/ Stored
  BY <1>2 DEF Receive, Stored
<1>3. CASE Enqueue /\ ~Receive /\ ~Stored
  BY <1>3 DEF Enqueue, Admit, Reject, InventoryFails, SettingsKnown, SettingsOpen,
       SettingsClose, SettingsRename, SettingsFail, SpoolOpen, SpoolClose, SpoolRename, SpoolFail, Add,
       AddFull
<1>4. CASE Step
  BY <1>4 DEF Step, CleanUp, CleanedUp, Begin, NothingToUpload, SendSettings, SendSettingsFails,
       SendImage, SendImageFails, SendImageRejected, CleanUpUploaded, CleanUpFails, Prune, PruneNothing,
       Pruned, Release, Finish
<1>5. CASE \/ Recover \/ RecoverFails \/ Publish \/ ReceiveNothing \/ Claim \/ ClaimFails \/ Restart
           \/ (\E c \in Capture : LateImage(c)) \/ (\E i \in Slots : BackoffElapses(i))
           \/ UNCHANGED vars
  BY <1>5 DEF Recover, RecoverFails, Publish, ReceiveNothing, Claim, ClaimFails, Restart,
       LateImage, BackoffElapses, vars
<1> HIDE DEF receiver, handoff, engine, Go, Storing, Stepping, HandoverChange
<1>6. QED
  BY <1>1, <1>2, <1>3, <1>4, <1>5 DEF Next, Worker

\* Every step keeps each image at one place.
LEMMA StepOnePlace == Inductive /\ [Next]_vars => OnePlace'
<1> SUFFICES ASSUME Inductive, [Next]_vars PROVE OnePlace'
  OBVIOUS
<1>1. HandoverChange /\ taken \subseteq taken'
  BY StepHandover DEF HandoverChange
<1>2. /\ {producing, inbox, job} \ {None} \subseteq taken /\ None \notin Capture
      /\ producing # None => producing # inbox /\ producing # job
      /\ inbox # None => inbox # job
  BY ArchiveAssumption DEF Inductive, OnePlace
<1>3. ASSUME NEW c \in Capture, spool'[c] # "none" PROVE c \in taken'
  <2>1. spool[c] # "none" => c \in taken
    BY DEF Inductive, OnePlace
  <2>2. spool \in [Capture -> FileStates]
    BY DEF Inductive, TypeOK
  <2>3. CASE SpoolWritten
    BY <1>1, <1>2, <1>3, <2>1, <2>2, <2>3, WorkerHolding DEF SpoolWritten, WriteSpool, StoringSteps
  <2>4. ASSUME NEW i \in Slots, Removed(i) PROVE c \in taken'
    BY <1>1, <1>3, <2>1, <2>2, <2>4 DEF Removed
  <2>5. CASE UNCHANGED spool
    BY <1>1, <1>3, <2>1, <2>5
  <2>6. QED
    BY <2>3, <2>4, <2>5, StepStore
       DEF StoreChange, SettingsWritten, WriteSettings, SettingsRemoved, card
<1>4. /\ {producing', inbox', job'} \ {None} \subseteq taken'
      /\ producing' # None => producing' # inbox' /\ producing' # job'
      /\ inbox' # None => inbox' # job'
  BY <1>1, <1>2 DEF HandoverChange
<1>5. QED
  BY <1>3, <1>4 DEF OnePlace

\* Every step keeps the entries apart from what is still on its way.
LEMMA StepQueued == Inductive /\ [Next]_vars => Queued'
<1> SUFFICES ASSUME Inductive, [Next]_vars PROVE Queued'
  OBVIOUS
<1> DEFINE Marked(i) == entry[i].state = "Empty" <=> entry[i].capture = None
           Apart(i) == entry[i].state # "Empty" =>
             /\ entry[i].capture \in taken /\ entry[i].capture \notin {producing, inbox}
             /\ entry[i].capture = job => pc = "stored"
           Arrived(i) == entry[i].state = "Acknowledged" => entry[i].capture \in images
           Fits(i) == Marked(i) /\ Apart(i) /\ Arrived(i)
<1> SUFFICES \A i \in Slots : Fits(i)'
  BY DEF Queued
<1>1. /\ \A i \in Slots : Fits(i)
      /\ \A i \in Slots : entry[i].state # "Empty" <=> entry[i].capture \in Capture
      /\ entry \in [Slots -> Entries]
      /\ EmptySlot.state = "Empty" /\ EmptySlot.capture = None /\ None \notin Capture
  BY WorkerHolding, ArchiveAssumption DEF Inductive, Queued, EmptySlot
<1>2. HandoverChange
  BY StepHandover
<1>3. ASSUME NEW i \in Slots, entry'[i] \in {entry[i], EmptySlot} PROVE Fits(i)'
  <2>1. CASE entry'[i] = EmptySlot
    BY <1>1, <2>1
  <2>2. CASE entry'[i] = entry[i]
    <3>1. Marked(i)' /\ Arrived(i)'
      BY <1>1, <1>2, <2>2 DEF HandoverChange
    <3>2. Apart(i)'
      <4>1. SUFFICES ASSUME entry[i].state # "Empty"
                     PROVE  /\ entry[i].capture \in taken' /\ entry[i].capture \notin {producing', inbox'}
                            /\ entry[i].capture = job' => pc' = "stored"
        BY <2>2
      <4>2. /\ entry[i].capture \in taken /\ entry[i].capture \notin {producing, inbox, None}
            /\ entry[i].capture = job => pc = "stored"
        BY <1>1, <4>1
      <4>3. QED
        BY <1>2, <4>2 DEF HandoverChange
    <3>3. QED
      BY <3>1, <3>2
  <2>3. QED
    BY <1>3, <2>1, <2>2
<1>4. ASSUME NEW k \in Slots, Removed(k) PROVE \A i \in Slots : entry'[i] \in {entry[i], EmptySlot}
  BY <1>1, <1>4 DEF Removed
<1>5. ASSUME Recovered PROVE \A i \in Slots : Fits(i)'
  <2>1. producing' = None /\ inbox' = None /\ job' = None
    BY <1>5 DEF Recovered, Inductive, Working, StoringSteps
  <2>2. \A c \in Spooled : c \in taken' /\ c \in Capture
    BY <1>5 DEF Recovered, Spooled, Inductive, OnePlace
  <2>3. TAKE i \in Slots
  <2>4. CASE entry'[i] = EmptySlot
    BY <1>1, <2>4
  <2>5. CASE entry'[i].state = "Pending" /\ entry'[i].capture \in Spooled
    BY <1>1, <2>1, <2>2, <2>5
  <2>6. QED
    BY <1>5, <2>4, <2>5 DEF Recovered
<1>6. ASSUME NEW k \in Slots, Added(k) PROVE \A i \in Slots : Fits(i)'
  <2>1. /\ entry'[k].state = "Pending" /\ entry'[k].capture = job
        /\ \A i \in Slots \ {k} : entry'[i] = entry[i]
    BY <1>1, <1>6 DEF Added
  <2>2. /\ job \in Capture /\ job \in taken /\ job \notin {producing, inbox}
    BY <1>1, <1>6, WorkerHolding DEF Added, Inductive, OnePlace, StoringSteps
  <2>3. UNCHANGED <<producing, inbox, job, taken>> /\ pc' = "stored"
    BY <1>6 DEF Added
  <2>4. Fits(k)'
    BY <1>1, <2>1, <2>2, <2>3
  <2>5. QED
    BY <1>3, <2>1, <2>4
<1>7. ASSUME NEW k \in Slots, Moved(k) PROVE \A i \in Slots : Fits(i)'
  <2>1. /\ \A i \in Slots \ {k} : entry'[i] = entry[i]
        /\ entry'[k].capture = entry[k].capture /\ Moves(entry[k].state, entry'[k].state)
        /\ entry'[k].state = "Acknowledged" => entry[k].capture \in images'
        /\ UNCHANGED <<producing, inbox, job, taken>>
    BY <1>1, <1>7 DEF Moved, Entries
  <2>2. entry'[k].state = "Empty" <=> entry[k].state = "Empty"
    BY <2>1 DEF Moves
  <2>3. pc = "stored" /\ job # None => pc' = "stored"
    BY <1>2, <2>1 DEF HandoverChange
  <2>4. Fits(k)'
    <3>1. Marked(k)' /\ Arrived(k)'
      BY <1>1, <2>1, <2>2
    <3>2. Apart(k)'
      BY <1>1, <2>1, <2>2, <2>3
    <3>3. QED
      BY <3>1, <3>2
  <2>5. QED
    BY <1>3, <2>1, <2>4
<1>8. ASSUME entry' = [i \in Slots |-> EmptySlot] PROVE \A i \in Slots : entry'[i] \in {entry[i], EmptySlot}
  BY <1>8
<1> HIDE DEF Fits
<1>9. QED
  BY <1>3, <1>4, <1>5, <1>6, <1>7, <1>8, StepStore
     DEF StoreChange, SettingsWritten, SpoolWritten, SettingsRemoved

-----------------------------------------------------------------------------
(* The worker                                                              *)

\* The recovery of the queue leaves the hand-over alone.
LEMMA RecoverKeeps ==
  Recover => /\ pc = "start" /\ pc' = "publish"
             /\ UNCHANGED <<producing, copying, inbox, reserved, published, job, ticket, pruning>>
  BY DEF Recover, Go, handoff

\* Every step leaves the worker with what its next step needs.
LEMMA StepWorking == Inductive /\ [Next]_vars => Working'
<1> SUFFICES ASSUME Inductive, [Next]_vars PROVE Working'
  OBVIOUS
<1> USE DEF card, receiver, handoff, engine, Go, Storing, Stepping, StoringSteps, SendingSteps
<1>1. /\ job' # None <=> pc' \in StoringSteps
      /\ pc' \in SendingSteps \cup {"cleanup"} => ticket' # 0
      /\ ticket' # 0 => pc' \in SendingSteps \cup {"cleanup", "prune"}
      /\ pc' = "prune" => pruning' # None
  <2>0. /\ job # None <=> pc \in StoringSteps
        /\ pc \in SendingSteps \cup {"cleanup"} => ticket # 0
        /\ ticket # 0 => pc \in SendingSteps \cup {"cleanup", "prune"}
        /\ pc = "prune" => pruning # None
    BY DEF Inductive, Working
  <2>1. CASE Produce \/ (\E c \in Capture : LateImage(c)) \/ \E i \in Slots : BackoffElapses(i)
    BY <2>0, <2>1 DEF Produce, Offer, Reserve, Drop, HandoffFails, Handoff, LateImage, BackoffElapses
  <2>2. CASE Enqueue
    BY <2>0, <2>2 DEF Enqueue, Receive, Admit, Reject, InventoryFails, SettingsKnown, SettingsOpen,
         SettingsClose, SettingsRename, SettingsFail, SpoolOpen, SpoolClose, SpoolRename, SpoolFail, Add,
         AddFull, Stored
  <2>3. CASE SendSettings \/ SendSettingsFails \/ SendImage \/ SendImageFails \/ SendImageRejected
    BY <2>0, <2>3 DEF SendSettings, SendSettingsFails, SendImage, SendImageFails, SendImageRejected,
         Finish
  <2>4. CASE CleanUp \/ CleanUpUploaded
    <3>1. PICK i \in Slots, to \in {"clean", "release"} :
            entry[i].state = "Acknowledged" /\ (Remove(i) \/ RemoveUnconfirmed(i, to))
      BY <2>4, WorkerHolding
         DEF CleanUp, CleanUpUploaded, Holding, Inductive, Working
    <3>2. SettingsOf[entry[i].capture] # None
      BY <3>1, WorkerHolding, ArchiveAssumption
    <3>3. UNCHANGED job /\ pc \in {"clean", "cleanup"}
      BY <2>4 DEF CleanUp, CleanUpUploaded
    <3>4. QED
      BY <2>0, <3>1, <3>2, <3>3 DEF Remove, RemoveUnconfirmed
  <2>5. CASE Begin
    <3>1. ticket' \in Slots
      BY <2>5 DEF Begin, Eligible, Holding
    <3>2. 0 \notin Slots
      BY ArchiveAssumption DEF Slots
    <3>3. QED
      BY <2>0, <2>5, <3>1, <3>2 DEF Begin
  <2>6. CASE Restart
    BY <2>6 DEF Restart
  <2>7. CASE RecoverFails \/ Publish \/ ReceiveNothing \/ Claim \/ ClaimFails \/ UNCHANGED vars
    BY <2>0, <2>7 DEF RecoverFails, Publish, ReceiveNothing, Claim, ClaimFails, vars
  <2>8. CASE CleanedUp \/ NothingToUpload \/ CleanUpFails \/ Prune \/ PruneNothing \/ Release
    BY <2>0, <2>8 DEF CleanedUp, NothingToUpload, CleanUpFails, Prune, PruneNothing, Pruned, Release
  <2>9. CASE Recover
    BY <2>0, <2>9, RecoverKeeps
  <2>10. QED
    BY <2>1, <2>2, <2>3, <2>4, <2>5, <2>6, <2>7, <2>8, <2>9 DEF Next, Worker, Step
<1>2. /\ pc' \in SendingSteps => entry'[ticket'].state = "Uploading"
      /\ pc' = "cleanup" => entry'[ticket'].state = "Acknowledged"
  <2>0. /\ pc \in SendingSteps => entry[ticket].state = "Uploading"
        /\ pc = "cleanup" => entry[ticket].state = "Acknowledged"
        /\ pc \in SendingSteps \cup {"cleanup"} => ticket \in Slots
        /\ entry \in [Slots -> Entries]
    BY WorkerHolding DEF Inductive, Working
  <2>1. CASE Produce \/ (\E c \in Capture : LateImage(c)) \/ UNCHANGED vars
    BY <2>0, <2>1 DEF Produce, Offer, Reserve, Drop, HandoffFails, Handoff, LateImage, vars
  <2>2. ASSUME NEW i \in Slots, BackoffElapses(i)
        PROVE  pc' = pc /\ ticket' = ticket /\ \A j \in Slots : entry'[j].state = entry[j].state
    BY <2>0, <2>2 DEF BackoffElapses, Entries
  <2>3. CASE SendSettings
    BY <2>0, <2>3 DEF SendSettings
  <2>4. CASE SendSettingsFails \/ SendImage \/ SendImageFails \/ SendImageRejected
    <3>1. CASE SendImage
      <4>1. pc' = "cleanup" /\ ticket' = ticket /\ ticket \in Slots
        BY <2>0, <3>1 DEF SendImage, Finish
      <4>2. entry'[ticket].state = "Acknowledged"
        BY <2>0, <3>1, <4>1 DEF SendImage, Finish, Entries
      <4>3. QED
        BY <4>1, <4>2
    <3>2. CASE SendSettingsFails \/ SendImageFails \/ SendImageRejected
      BY <3>2 DEF SendSettingsFails, SendImageFails, SendImageRejected, Finish
    <3>3. QED
      BY <2>4, <3>1, <3>2
  <2>5. CASE Begin
    <3>1. PICK i \in Slots : entry' = [entry EXCEPT ![i].state = "Uploading"] /\ ticket' = i
      BY <2>5 DEF Begin, Eligible, Holding
    <3>2. entry'[i].state = "Uploading" /\ pc' = "sendSettings"
      BY <2>0, <2>5, <3>1 DEF Begin, Entries
    <3>3. QED
      BY <3>1, <3>2
  <2>6. ASSUME \/ Enqueue \/ Restart
               \/ Recover \/ RecoverFails \/ Publish \/ ReceiveNothing \/ Claim \/ ClaimFails
        PROVE  pc' \notin SendingSteps \cup {"cleanup"}
    BY <2>6 DEF Enqueue, Receive, Admit, Reject, InventoryFails, SettingsKnown, SettingsOpen,
         SettingsClose, SettingsRename, SettingsFail, SpoolOpen, SpoolClose, SpoolRename, SpoolFail, Add,
         AddFull, Stored, Restart, Recover, RecoverFails, Publish, ReceiveNothing, Claim, ClaimFails
  <2>7. ASSUME \/ CleanUp \/ CleanedUp \/ NothingToUpload \/ CleanUpUploaded \/ CleanUpFails
               \/ Prune \/ PruneNothing \/ Release
        PROVE  pc' \notin SendingSteps \cup {"cleanup"}
    BY <2>7 DEF CleanUp, CleanedUp, NothingToUpload, CleanUpUploaded, CleanUpFails, Prune, PruneNothing,
         Pruned, Release, Remove, RemoveUnconfirmed
  <2>8. QED
    BY <2>0, <2>1, <2>2, <2>3, <2>4, <2>5, <2>6, <2>7 DEF Next, Worker, Step
<1>3. /\ copying' => producing' # None
      /\ pc' = "start" => /\ ~published' /\ producing' = None /\ inbox' = None
                          /\ \A i \in Slots : entry'[i] = EmptySlot
  <2>0. /\ copying => producing # None
        /\ pc = "start" => /\ ~published /\ producing = None /\ inbox = None
                           /\ \A i \in Slots : entry[i] = EmptySlot
    BY DEF Inductive, Working
  <2>1. CASE Produce \/ (\E c \in Capture : LateImage(c)) \/ UNCHANGED vars
    BY <2>0, <2>1 DEF Produce, Offer, Reserve, Drop, HandoffFails, Handoff, LateImage, vars
  <2>2. CASE Enqueue
    BY <2>0, <2>2 DEF Enqueue, Receive, Admit, Reject, InventoryFails, SettingsKnown, SettingsOpen,
         SettingsClose, SettingsRename, SettingsFail, SpoolOpen, SpoolClose, SpoolRename, SpoolFail, Add,
         AddFull, Stored
  <2>3. CASE Step
    BY <2>0, <2>3 DEF Step, CleanUp, CleanedUp, Begin, NothingToUpload, SendSettings, SendSettingsFails,
         SendImage, SendImageFails, SendImageRejected, CleanUpUploaded, CleanUpFails, Prune, PruneNothing,
         Pruned, Release, Finish, Remove, RemoveUnconfirmed
  <2>4. CASE Recover \/ RecoverFails \/ Publish \/ ReceiveNothing \/ Claim \/ ClaimFails
    BY <2>0, <2>4, RecoverKeeps DEF RecoverFails, Publish, ReceiveNothing, Claim, ClaimFails
  <2>5. CASE Restart
    BY <2>5 DEF Restart
  <2>6. ASSUME NEW i \in Slots, BackoffElapses(i)
        PROVE  copying' = copying /\ producing' = producing /\ pc' = pc /\ pc # "start"
    BY <2>0, <2>6 DEF BackoffElapses, EmptySlot
  <2>7. QED
    BY <2>0, <2>1, <2>2, <2>3, <2>4, <2>5, <2>6 DEF Next, Worker
<1> HIDE DEF card, receiver, handoff, engine, Go, Storing, Stepping, StoringSteps, SendingSteps
<1>4. QED
  BY <1>1, <1>2, <1>3 DEF Working

\* The flag is set by whoever takes an image and cleared when it is done with.
LEMMA StepOneBuffer == Inductive /\ [Next]_vars => OneBuffer'
<1> SUFFICES ASSUME Inductive, [Next]_vars PROVE OneBuffer'
  OBVIOUS
<1> USE DEF card, receiver, handoff, engine, Go, Storing, Stepping, WorkerHolds
<1>0. /\ reserved \in BOOLEAN /\ copying \in BOOLEAN /\ (copying => producing # None)
      /\ reserved <=> (copying \/ inbox # None \/ WorkerHolds)
      /\ ~(copying /\ inbox # None) /\ ~(WorkerHolds /\ (copying \/ inbox # None))
      /\ job # None => WorkerHolds /\ ticket = 0
      /\ job # None <=> pc \in StoringSteps
      /\ pc = "start" => producing = None /\ inbox = None
  BY DEF Inductive, OneBuffer, Working, TypeOK
<1>1. job' # None => WorkerHolds' /\ ticket' = 0
  BY StepWorking DEF Working, StoringSteps, SendingSteps
<1>2. reserved' \in BOOLEAN /\ copying' \in BOOLEAN
  BY StepType DEF TypeOK
<1> DEFINE Held == /\ reserved <=> (copying \/ inbox # None \/ WorkerHolds)
                   /\ ~(copying /\ inbox # None) /\ ~(WorkerHolds /\ (copying \/ inbox # None))
<1>3. Held'
  <2>1. CASE Produce
    BY <1>0, <2>1 DEF Produce, Offer, Reserve, Drop, HandoffFails, Handoff
  <2>2. CASE Enqueue
    BY <1>0, <2>2 DEF Enqueue, Receive, Admit, Reject, InventoryFails, SettingsKnown, SettingsOpen,
         SettingsClose, SettingsRename, SettingsFail, SpoolOpen, SpoolClose, SpoolRename, SpoolFail, Add,
         AddFull, Stored
  <2>3. CASE Step
    BY <1>0, <2>3 DEF Step, CleanUp, CleanedUp, Begin, NothingToUpload, SendSettings, SendSettingsFails,
         SendImage, SendImageFails, SendImageRejected, CleanUpUploaded, CleanUpFails, Prune, PruneNothing,
         Pruned, Release, Finish, Remove, RemoveUnconfirmed
  <2>4. CASE Recover \/ RecoverFails \/ Publish \/ ReceiveNothing \/ Claim \/ ClaimFails \/ Restart
    BY <1>0, <2>4, RecoverKeeps DEF RecoverFails, Publish, ReceiveNothing, Claim, ClaimFails, Restart
  <2>5. CASE \/ (\E c \in Capture : LateImage(c)) \/ (\E i \in Slots : BackoffElapses(i))
             \/ UNCHANGED vars
    BY <1>0, <2>5 DEF LateImage, BackoffElapses, vars
  <2>6. QED
    BY <2>1, <2>2, <2>3, <2>4, <2>5 DEF Next, Worker
<1> HIDE DEF card, receiver, handoff, engine, Go, Storing, Stepping, WorkerHolds
<1>4. reserved' = (copying' \/ inbox' # None \/ WorkerHolds')
  BY <1>2, <1>3, Zenon
<1>5. QED
  BY <1>1, <1>3, <1>4 DEF OneBuffer

\* A step that stores an image is one of these; any other leaves the worker before or after them, or
\* leaves what they work on alone.
StoringStep ==
  \/ Admit \/ SettingsKnown \/ SettingsOpen \/ SettingsClose \/ SettingsRename
  \/ SpoolOpen \/ SpoolClose \/ SpoolRename
Elsewhere == {"settings", "settingsClose", "spool", "spoolClose", "spoolRename", "add"}

\* Only the steps of an enqueue lead to another one.
LEMMA NotStoring ==
  ASSUME Inductive, [Next]_vars
  PROVE  \/ StoringStep
         \/ pc' \notin Elsewhere
         \/ UNCHANGED <<card, job, pc>>
<1> USE DEF handoff, engine, card, Go, Storing, Stepping, Elsewhere
<1>1. CASE Produce \/ (\E c \in Capture : LateImage(c)) \/ (\E i \in Slots : BackoffElapses(i))
           \/ UNCHANGED vars
  BY <1>1 DEF Produce, Offer, Reserve, Drop, HandoffFails, Handoff, LateImage, BackoffElapses, vars
<1>2. CASE Enqueue
  BY <1>2 DEF Enqueue, Receive, Reject, InventoryFails, SettingsFail, SpoolFail, Add, AddFull, Stored,
       StoringStep
<1>3. CASE Step
  BY <1>3 DEF Step, CleanUp, CleanedUp, Begin, NothingToUpload, SendSettings, SendSettingsFails,
       SendImage, SendImageFails, SendImageRejected, CleanUpUploaded, CleanUpFails, Prune, PruneNothing,
       Pruned, Release, Finish, Remove, RemoveUnconfirmed
<1>4. CASE Recover \/ RecoverFails \/ Publish \/ ReceiveNothing \/ Claim \/ ClaimFails \/ Restart
  BY <1>4, RecoverKeeps DEF RecoverFails, Publish, ReceiveNothing, Claim, ClaimFails, Restart
<1> HIDE DEF handoff, engine, card, Go, Storing, Stepping, Elsewhere
<1>5. QED
  BY <1>1, <1>2, <1>3, <1>4 DEF Next, Worker

\* Every step leaves the files as far as the worker's place says.
LEMMA StepWriting == Inductive /\ [Next]_vars => Writing'
<1> SUFFICES ASSUME Inductive, [Next]_vars PROVE Writing'
  OBVIOUS
<1>1. /\ spool \in [Capture -> FileStates] /\ describe \in [Settings -> FileStates]
      /\ pc \in StoringSteps => job \in Capture /\ SettingsOf[job] \in Settings
      /\ Writing
  BY WorkerHolding DEF Inductive, TypeOK
<1>2. CASE StoringStep
  <2>1. /\ job \in Capture /\ job' = job /\ pc \in StoringSteps
    BY <1>1, <1>2
       DEF StoringStep, Admit, SettingsKnown, SettingsOpen, SettingsClose, SettingsRename, SpoolOpen,
           SpoolClose, SpoolRename, Storing, Go, StoringSteps
  <2>2. CASE Admit \/ SettingsKnown
    BY <1>1, <2>1, <2>2 DEF Admit, SettingsKnown, Storing, Go, card, Writing, SettingsFile
  <2>3. CASE SettingsOpen \/ SettingsClose \/ SettingsRename
    BY <1>1, <2>1, <2>3
       DEF SettingsOpen, SettingsClose, SettingsRename, WriteSettings, Storing, Go, Writing, SettingsFile
  <2>4. CASE SpoolOpen \/ SpoolClose \/ SpoolRename
    BY <1>1, <2>1, <2>4
       DEF SpoolOpen, SpoolClose, SpoolRename, WriteSpool, Storing, Go, Writing, SettingsFile
  <2>5. QED
    BY <1>2, <2>2, <2>3, <2>4 DEF StoringStep
<1>3. CASE pc' \notin Elsewhere
  BY <1>3 DEF Writing, Elsewhere
<1>4. CASE UNCHANGED <<card, job, pc>>
  BY <1>1, <1>4 DEF Writing, SettingsFile, card
<1>5. QED
  BY <1>2, <1>3, <1>4, NotStoring

-----------------------------------------------------------------------------
(* The files on the card                                                   *)

\* A new file adds at most one.
LEMMA OneMoreFile ==
  ASSUME IsFiniteSet(Files), NEW f, Files' \subseteq Files \cup {f}
  PROVE  /\ IsFiniteSet(Files') /\ Cardinality(Files') <= Cardinality(Files) + 1
         /\ Cardinality(Files) \in Nat /\ Cardinality(Files') \in Nat
<1>1. IsFiniteSet(Files \cup {f}) /\ Cardinality(Files \cup {f}) <= Cardinality(Files) + 1
  <2>1. Cardinality(Files) \in Nat
    BY FS_CardinalityType
  <2>2. /\ IsFiniteSet(Files \cup {f})
        /\ Cardinality(Files \cup {f}) = IF f \in Files THEN Cardinality(Files) ELSE Cardinality(Files) + 1
    BY FS_AddElement
  <2>3. QED
    BY <2>1, <2>2
<1>2. IsFiniteSet(Files') /\ Cardinality(Files') <= Cardinality(Files \cup {f})
  BY <1>1, FS_Subset
<1>3. /\ Cardinality(Files) \in Nat /\ Cardinality(Files') \in Nat
      /\ Cardinality(Files \cup {f}) \in Nat
  BY <1>1, <1>2, FS_CardinalityType
<1>4. QED
  BY <1>1, <1>2, <1>3

\* Without a new file there are no more than before.
LEMMA NoMoreFiles ==
  ASSUME IsFiniteSet(Files), Files' \subseteq Files
  PROVE  /\ IsFiniteSet(Files') /\ Cardinality(Files') <= Cardinality(Files)
         /\ Cardinality(Files) \in Nat /\ Cardinality(Files') \in Nat
  BY FS_Subset, FS_CardinalityType

\* Only the worker's two opens create a file.
LEMMA NewFiles ==
  ASSUME Inductive, [Next]_vars, ~SettingsOpen, ~SpoolOpen
  PROVE  Files' \subseteq Files
<1>1. /\ spool \in [Capture -> FileStates] /\ describe \in [Settings -> FileStates]
      /\ spool' \in [Capture -> FileStates] /\ describe' \in [Settings -> FileStates]
  BY StepType DEF Inductive, TypeOK
<1>2. ASSUME NEW c \in Capture, spool'[c] # "none" PROVE spool[c] # "none"
  <2>1. CASE SpoolWritten
    BY <1>1, <1>2, <2>1 DEF SpoolWritten, WriteSpool
  <2>2. ASSUME NEW i \in Slots, Removed(i) PROVE spool[c] # "none"
    BY <1>1, <1>2, <2>2 DEF Removed
  <2>3. CASE UNCHANGED spool
    BY <1>2, <2>3
  <2>4. QED
    BY <2>1, <2>2, <2>3, StepStore
       DEF StoreChange, SettingsWritten, WriteSettings, SettingsRemoved, card
<1>3. ASSUME NEW s \in Settings, describe'[s] # "none" PROVE describe[s] # "none"
  <2>1. CASE SettingsWritten
    <3>1. PICK to \in FileStates : describe' = [describe EXCEPT ![SettingsOf[job]] = to]
      BY <2>1 DEF SettingsWritten, WriteSettings
    <3>2. describe[SettingsOf[job]] # "none"
      BY <2>1 DEF SettingsWritten, SettingsFile
    <3>3. QED
      BY <1>1, <1>3, <3>1, <3>2
  <2>2. CASE SettingsRemoved
    BY <1>1, <1>3, <2>2 DEF SettingsRemoved
  <2>3. CASE UNCHANGED describe
    BY <1>3, <2>3
  <2>4. QED
    BY <2>1, <2>2, <2>3, StepStore DEF StoreChange, SpoolWritten, WriteSpool, Removed, card
<1>4. QED
  BY <1>2, <1>3 DEF Files

\* The admission leaves room for both files, and each open uses one of them.
LEMMA StepBudget == Inductive /\ [Next]_vars => Budget'
<1> SUFFICES ASSUME Inductive, [Next]_vars PROVE Budget'
  OBVIOUS
<1>1. /\ IsFiniteSet(Files) /\ Cardinality(Files) + Outstanding <= Capacity /\ Outstanding \in 0..2
      /\ spool \in [Capture -> FileStates] /\ describe \in [Settings -> FileStates]
      /\ pc \in StoringSteps => job \in Capture /\ SettingsOf[job] \in Settings
      /\ Capacity \in Nat /\ Cardinality(Files) \in Nat
  BY WorkerHolding, ArchiveAssumption, FS_CardinalityType DEF Inductive, TypeOK, Budget, Outstanding
<1>2. CASE SettingsOpen
  <2>1. /\ pc = "settings" /\ pc' = "settingsClose" /\ spool' = spool
        /\ describe' = [describe EXCEPT ![SettingsOf[job]] = "torn"] /\ SettingsFile = "none"
    BY <1>2 DEF SettingsOpen, Storing, Go, WriteSettings
  <2>2. Outstanding = 2 /\ Outstanding' = 1
    BY <2>1 DEF Outstanding
  <2>3. Files' \subseteq Files \cup {SettingsOf[job]}
    BY <1>1, <2>1 DEF Files, StoringSteps
  <2>4. IsFiniteSet(Files') /\ Cardinality(Files') <= Cardinality(Files) + 1 /\ Cardinality(Files') \in Nat
    BY <1>1, <2>3, OneMoreFile
  <2>5. QED
    BY <1>1, <2>2, <2>4 DEF Budget
<1>3. CASE SpoolOpen
  <2>1. /\ pc = "spool" /\ pc' = "spoolClose" /\ describe' = describe
        /\ spool' = [spool EXCEPT ![job] = "torn"]
    BY <1>3 DEF SpoolOpen, Storing, Go, WriteSpool
  <2>2. Outstanding = 1 /\ Outstanding' = 0
    BY <2>1 DEF Outstanding
  <2>3. Files' \subseteq Files \cup {job}
    BY <1>1, <2>1 DEF Files, StoringSteps
  <2>4. IsFiniteSet(Files') /\ Cardinality(Files') <= Cardinality(Files) + 1 /\ Cardinality(Files') \in Nat
    BY <1>1, <2>3, OneMoreFile
  <2>5. QED
    BY <1>1, <2>2, <2>4 DEF Budget
<1>4. CASE ~SettingsOpen /\ ~SpoolOpen
  <2>1. /\ IsFiniteSet(Files') /\ Cardinality(Files') <= Cardinality(Files)
        /\ Cardinality(Files') \in Nat
    BY <1>1, <1>4, NewFiles, NoMoreFiles
  <2>2. CASE Admit
    <3>1. pc' = "settings" /\ job' = job /\ Files' = Files /\ SettingsFile' = SettingsFile /\ CanCapture
      BY <2>2 DEF Admit, Storing, Go, card, Files, SettingsFile
    <3>2. SettingsFile \in FileStates
      BY <1>1, <2>2 DEF Admit, Storing, Go, SettingsFile, StoringSteps
    <3>3. Outstanding' = IF SettingsFile = "none" THEN 2 ELSE 1
      BY <3>1 DEF Outstanding
    <3>4. Cardinality(Files) + Outstanding' <= Capacity
      BY <1>1, <3>1, <3>3 DEF CanCapture
    <3>5. QED
      BY <2>1, <3>1, <3>4 DEF Budget
  <2>3. ASSUME \/ SettingsKnown \/ SettingsClose \/ SettingsRename \/ SpoolClose \/ SpoolRename
               \/ pc' \notin Elsewhere
               \/ UNCHANGED <<card, job, pc>>
        PROVE  Outstanding' <= Outstanding
    <3>1. CASE SettingsKnown \/ SettingsRename
      BY <3>1 DEF SettingsKnown, SettingsRename, Storing, Go, Outstanding
    <3>2. CASE SettingsClose
      <4>1. /\ pc = "settingsClose" /\ pc' = "settings" /\ job' = job /\ job \in Capture
            /\ describe' = [describe EXCEPT ![SettingsOf[job]] = "whole"]
        BY <1>1, <3>2 DEF SettingsClose, Storing, Go, WriteSettings, StoringSteps
      <4>2. SettingsFile' = "whole"
        BY <1>1, <4>1 DEF SettingsFile, StoringSteps
      <4>3. QED
        BY <4>1, <4>2 DEF Outstanding
    <3>3. CASE SpoolClose \/ SpoolRename \/ pc' \notin Elsewhere
      <4>1. Outstanding' = 0
        BY <3>3 DEF SpoolClose, SpoolRename, Storing, Go, Outstanding, Elsewhere
      <4>2. QED
        BY <1>1, <4>1
    <3>4. CASE UNCHANGED <<card, job, pc>>
      <4>1. Outstanding' = Outstanding
        BY <3>4 DEF Outstanding, SettingsFile, card
      <4>2. QED
        BY <1>1, <4>1
    <3>5. QED
      BY <2>3, <3>1, <3>2, <3>3, <3>4
  <2>4. Admit \/ Outstanding' <= Outstanding
    BY <1>4, <2>3, NotStoring DEF StoringStep
  <2>5. Outstanding' \in 0..2
    BY DEF Outstanding
  <2>6. QED
    BY <1>1, <2>1, <2>2, <2>4, <2>5 DEF Budget
<1>5. QED
  BY <1>2, <1>3, <1>4

-----------------------------------------------------------------------------
(* The inductive invariant                                                 *)

\* The invariant holds at the first power-up.
LEMMA InitInductive == Init => Inductive
<1> SUFFICES ASSUME Init PROVE Inductive
  OBVIOUS
<1> USE ArchiveAssumption DEF Init
<1>1. TypeOK
  <2>1. EmptySlot \in Entries
    BY DEF EmptySlot, Entries
  <2>2. cursor \in Slots /\ boot \in 1..MaxBoot
    BY DEF Slots
  <2>3. /\ spool \in [Capture -> FileStates] /\ describe \in [Settings -> FileStates]
        /\ entry \in [Slots -> Entries] /\ pc \in Steps
    BY <2>1 DEF FileStates, Steps
  <2>4. QED
    BY <2>2, <2>3 DEF TypeOK, Entries
<1>2. Working /\ Writing
  BY DEF Working, Writing, StoringSteps, SendingSteps
<1>3. Budget
  <2>1. Files = {} /\ Outstanding = 0
    BY DEF Files, Outstanding
  <2>2. QED
    BY <2>1, FS_EmptySet DEF Budget
<1>4. SettingsAccompany /\ OnePlace /\ OneBuffer
  BY DEF SettingsAccompany, OnePlace, OneBuffer, WorkerHolds
<1>5. QueueMatchesCard /\ Queued
  BY DEF QueueMatchesCard, Queued, EmptySlot
<1>6. QED
  BY <1>1, <1>2, <1>3, <1>4, <1>5 DEF Inductive

\* Every step keeps the invariant.
LEMMA StepInductive == Inductive /\ [Next]_vars => Inductive'
  BY StepType, StepWorking, StepWriting, StepBudget, StepAccompany, StepQueueMatchesCard, StepOnePlace,
     StepQueued, StepOneBuffer DEF Inductive

\* The card's limit follows from what the worker may still create.
LEMMA InductiveConsistent == Inductive => CardConsistent
<1> SUFFICES ASSUME Inductive PROVE WithinCapacity
  BY DEF Inductive, CardConsistent
<1>1. Cardinality(Files) \in Nat /\ Outstanding \in Nat /\ Capacity \in Nat
  BY FS_CardinalityType, ArchiveAssumption DEF Inductive, Budget, Outstanding
<1>2. QED
  BY <1>1 DEF Inductive, Budget, WithinCapacity

-----------------------------------------------------------------------------
(* Steps                                                                   *)

\* Nothing leads from Acknowledged back to Pending within a boot.
LEMMA StepAcknowledgedOnce ==
  ASSUME Inductive, [Next]_vars, boot' = boot, NEW i \in Slots, entry[i].state = "Acknowledged"
  PROVE  entry'[i].state \in {"Acknowledged", "Empty"}
<1>1. /\ entry \in [Slots -> Entries] /\ entry[i] # EmptySlot /\ pc # "start"
      /\ EmptySlot.state = "Empty"
  BY WorkerHolding DEF Inductive, Working, EmptySlot
<1>2. ASSUME NEW k \in Slots, Removed(k) PROVE entry'[i].state \in {"Acknowledged", "Empty"}
  BY <1>1, <1>2 DEF Removed
<1>3. ASSUME NEW k \in Slots, Added(k) PROVE entry'[i].state \in {"Acknowledged", "Empty"}
  BY <1>1, <1>3 DEF Added
<1>4. ASSUME NEW k \in Slots, Moved(k) PROVE entry'[i].state \in {"Acknowledged", "Empty"}
  BY <1>1, <1>4 DEF Moved, Moves, Entries
<1>5. QED
  BY <1>1, <1>2, <1>3, <1>4, StepStore
     DEF StoreChange, SettingsWritten, SpoolWritten, SettingsRemoved, Recovered

\* Each step of the archive is a step of the promise, or does not show there.
LEMMA StepDelivered == Inductive /\ [Next]_vars => [Delivered!Next]_(Delivered!vars)
<1> SUFFICES ASSUME Inductive, [Next]_vars, ~UNCHANGED <<Spooled, images, settings>>
             PROVE  Delivered!Next
  BY DEF Delivered!vars
<1>1. CASE UNCHANGED <<images, settings>>
  <2>1. spool \in [Capture -> FileStates]
    BY DEF Inductive, TypeOK
  <2>2. CASE SpoolWritten
    <3>1. PICK to \in FileStates : spool' = [spool EXCEPT ![job] = to] /\ Advances(spool[job], to)
      BY <2>2 DEF SpoolWritten, WriteSpool
    <3>2. job \in Capture /\ spool[job] # "final"
      BY <2>2, <3>1, WorkerHolding DEF SpoolWritten, StoringSteps, Advances
    <3>3. Spooled' = IF to = "final" THEN Spooled \cup {job} ELSE Spooled
      BY <2>1, <3>1, <3>2 DEF Spooled
    <3>4. QED
      BY <1>1, <3>2, <3>3 DEF Delivered!Next, Delivered!Store
  <2>3. ASSUME NEW i \in Slots, Removed(i) PROVE Delivered!Next
    <3>1. /\ entry[i].capture \in Capture /\ entry[i].capture \in images
          /\ spool' = [spool EXCEPT ![entry[i].capture] = "none"]
      BY <2>3, WorkerHolding DEF Removed, Inductive, Queued
    <3>2. Spooled' = Spooled \ {entry[i].capture}
      BY <2>1, <3>1 DEF Spooled
    <3>3. QED
      BY <1>1, <3>1, <3>2 DEF Delivered!Next, Delivered!Discard
  <2>4. CASE UNCHANGED spool
    BY <1>1, <2>4 DEF Spooled
  <2>5. QED
    BY <2>2, <2>3, <2>4, StepStore
       DEF StoreChange, SettingsWritten, WriteSettings, SettingsRemoved, card
<1>2. CASE SendSettings \/ SendSettingsFails
  <2>1. /\ Uploaded \in Capture /\ SettingsOf[Uploaded] \in Settings
        /\ settings' \in {settings, settings \cup {SettingsOf[Uploaded]}}
        /\ spool' = spool /\ images' = images
    BY <1>2, WorkerHolding, ArchiveAssumption
       DEF SendSettings, SendSettingsFails, Finish, Go, card, SendingSteps
  <2>2. Spooled' = Spooled
    BY <2>1 DEF Spooled
  <2>3. QED
    BY <2>1, <2>2 DEF Delivered!Next, Delivered!Describe
<1>3. CASE SendImage
  <2>1. /\ Uploaded \in Capture /\ SettingsOf[Uploaded] \in settings
        /\ images' = images \cup {Uploaded} /\ settings' = settings /\ spool' = spool
    BY <1>3, WorkerHolding DEF SendImage, Finish, card, SendingSteps
  <2>2. Spooled' = Spooled
    BY <2>1 DEF Spooled
  <2>3. QED
    BY <2>1, <2>2 DEF Delivered!Next, Delivered!Arrive
<1>4. ASSUME NEW c \in Capture, LateImage(c) PROVE Delivered!Next
  <2>1. /\ spool' = spool /\ settings' = settings
        /\ images' = IF SettingsOf[c] \in settings THEN images \cup {c} ELSE images
    BY <1>4 DEF LateImage, card
  <2>2. Spooled' = Spooled
    BY <2>1 DEF Spooled
  <2>3. QED
    BY <2>1, <2>2 DEF Delivered!Next, Delivered!Arrive
<1>5. ASSUME ~SendSettings, ~SendSettingsFails, ~SendImage, ~\E c \in Capture : LateImage(c)
      PROVE  UNCHANGED <<images, settings>>
  <2> USE DEF receiver, Storing, Stepping
  <2>1. CASE Produce \/ Restart \/ (\E i \in Slots : BackoffElapses(i)) \/ UNCHANGED vars
    BY <2>1 DEF Produce, Offer, Reserve, Drop, HandoffFails, Handoff, Restart, BackoffElapses, vars
  <2>2. CASE Enqueue
    BY <2>2 DEF Enqueue, Receive, Admit, Reject, InventoryFails, SettingsKnown, SettingsOpen,
         SettingsClose, SettingsRename, SettingsFail, SpoolOpen, SpoolClose, SpoolRename, SpoolFail, Add,
         AddFull, Stored
  <2>3. CASE Step
    BY <1>5, <2>3 DEF Step, CleanUp, CleanedUp, Begin, NothingToUpload, SendImageFails,
         SendImageRejected, CleanUpUploaded, CleanUpFails, Prune, PruneNothing, Pruned, Release, Finish
  <2>4. CASE Recover \/ RecoverFails \/ Publish \/ ReceiveNothing \/ Claim \/ ClaimFails
    BY <2>4 DEF Recover, RecoverFails, Publish, ReceiveNothing, Claim, ClaimFails
  <2> HIDE DEF receiver, Storing, Stepping
  <2>5. QED
    BY <1>5, <2>1, <2>2, <2>3, <2>4 DEF Next, Worker
<1>6. QED
  BY <1>1, <1>2, <1>3, <1>4, <1>5

-----------------------------------------------------------------------------

(* The inductive invariant holds of every reachable state.                 *)
THEOREM ArchiveInvariant == Spec => []Inductive
<1>1. Init => Inductive
  BY InitInductive
<1>2. Inductive /\ [Next]_vars => Inductive'
  BY StepInductive
<1>3. QED
  BY <1>1, <1>2, PTL DEF Spec

(* Every variable keeps its type, the files' and the entries' states too   *)
(* (run, UploadQueue).                                                     *)
THEOREM ArchiveTypes == Spec => []TypeOK
<1>1. Inductive => TypeOK
  BY DEF Inductive
<1>2. QED
  BY <1>1, ArchiveInvariant, PTL

(* Whatever fails and whenever the power goes, the spool stays within its  *)
(* limit, every image has its settings file, and what the queue is going   *)
(* to send is complete on the card (enqueue, pruneSettings, recoverSpool). *)
THEOREM ArchiveCardConsistent == Spec => []CardConsistent
<1>1. Inductive => CardConsistent
  BY InductiveConsistent
<1>2. QED
  BY <1>1, ArchiveInvariant, PTL

(* The reserved flag has one owner, so there is one image buffer           *)
(* (submitArchiveImage, run).                                              *)
THEOREM ArchiveOneBuffer == Spec => []OneBuffer
<1>1. Inductive => OneBuffer
  BY DEF Inductive
<1>2. QED
  BY <1>1, ArchiveInvariant, PTL

(* An acknowledged image is not sent again in the same boot, and no image  *)
(* leaves the card before the receiver has it with its settings            *)
(* (ArchiveEngine::step, removeAcknowledged).                              *)
THEOREM ArchiveDelivery == Spec => DeliveryKept
<1>1. Init => Delivered!Init
  BY DEF Init, Delivered!Init, Spooled
<1>2. Inductive /\ [Next]_vars => [Delivered!Next]_(Delivered!vars)
  BY StepDelivered
<1>3. Inductive /\ [Next]_vars =>
        [\A i \in Slots : entry[i].state = "Acknowledged" /\ boot' = boot
                          => entry'[i].state \in {"Acknowledged", "Empty"}]_vars
  BY StepAcknowledgedOnce
<1>4. Spec => AcknowledgedOnce
  BY <1>3, ArchiveInvariant, PTL DEF Spec, AcknowledgedOnce
<1>5. Spec => KeptUntilDelivered
  BY <1>1, <1>2, ArchiveInvariant, PTL DEF Spec, KeptUntilDelivered, Delivered!Spec
<1>6. QED
  BY <1>4, <1>5 DEF DeliveryKept
=============================================================================
