-------------------------- MODULE BundleUpdateProofs --------------------------
(***************************************************************************)
(* Proofs, for all bundles and applications, of the safety properties of   *)
(* BundleUpdate.                                                           *)
(***************************************************************************)
EXTENDS BundleUpdate, TLAPS

\* The first power-up: nothing is staged and the flashed image is whole.
LEMMA InitInductive == UpdateAssumption /\ Init => Inductive
<1> SUFFICES ASSUME UpdateAssumption, Init PROVE Inductive
  OBVIOUS
<1> USE DEF UpdateAssumption, Init
<1>1. TypeOK
  <2>1. job \in Jobs /\ pc \in Places
    BY DEF Jobs, Places, Idle
  <2>2. /\ object \in [Bundle -> Trees] /\ pending \in [Bundle -> Trees]
        /\ interrupted \in [Bundle -> 0..Retained]
    BY DEF Trees
  <2>3. /\ index \in [App -> Bundle \cup {None}] /\ draft \in [App -> Bundle \cup {None, "torn"}]
        /\ drafts \in [App -> 0..Retained]
    OBVIOUS
  <2>4. flash \in [Slots -> App \cup {None}] /\ image \in [Slots -> Images]
    BY DEF Slots, Images
  <2>5. QED
    BY <2>1, <2>2, <2>3, <2>4 DEF TypeOK, Slots
<1>2. JobConsistent
  BY DEF JobConsistent, JobHasWorker, Idle, Guarded, Using, StagePhases, InstallPhases, Outcomes
<1>3. CardWhole
  BY DEF CardWhole
<1>4. SlotsWhole
  BY DEF SlotsWhole, Mapped, RunningApp, Target, Other, Using, Slots
<1>5. ReportTrue
  BY DEF ReportTrue, Idle, Staged, Outcomes
<1>6. QED
  BY <1>1, <1>2, <1>3, <1>4, <1>5 DEF Inductive

\* Every step keeps the types; only what ties a job to its files is needed for that.
LEMMA StepType == UpdateAssumption /\ TypeOK /\ JobConsistent /\ CardWhole /\ [Next]_vars => TypeOK'
<1> SUFFICES ASSUME UpdateAssumption, TypeOK, JobConsistent, CardWhole, [Next]_vars PROVE TypeOK'
  OBVIOUS
<1> USE DEF UpdateAssumption, TypeOK, Trees, Slots, Images, StagePhases, InstallPhases, Outcomes,
    Archives, trees, names, input, chip, task, Go, Leave, Target, Other, RunningApp, Jobs, Places
<1>0. (pc # "idle" => job.id \in Bundle) /\ (pc = "map" => draft[AppOf[job.id]] = job.id)
        /\ (pc = "report" => outcome \in Outcomes)
  BY DEF JobConsistent, CardWhole
<1>1. ASSUME Upload PROVE TypeOK'
  BY <1>0, <1>1 DEF Upload
<1>2. ASSUME UploadEnds PROVE TypeOK'
  <2>1. object' \in [Bundle -> Trees] /\ pending' \in [Bundle -> Trees] /\ interrupted' \in [Bundle -> 0..Retained]
    BY <1>0, <1>2 DEF UploadEnds
  <2>2. index' \in [App -> Bundle \cup {None}] /\ draft' \in [App -> Bundle \cup {None, "torn"}] /\ drafts' \in [App -> 0..Retained]
    BY <1>0, <1>2 DEF UploadEnds
  <2>3. zip' \in Archives \cup {None} /\ uploading' \in BOOLEAN
    BY <1>0, <1>2 DEF UploadEnds
  <2>4. flash' \in [Slots -> App \cup {None}] /\ image' \in [Slots -> Images]
    BY <1>0, <1>2 DEF UploadEnds
  <2>5. boot' \in Slots /\ running' \in Slots /\ rollback' \in BOOLEAN /\ selection' \in Bundle \cup {None}
    BY <1>0, <1>2 DEF UploadEnds
  <2>6. job' \in Jobs
    BY <1>0, <1>2 DEF UploadEnds
  <2>7. pc' \in Places
    BY <1>0, <1>2 DEF UploadEnds
  <2>8. held' \in BOOLEAN /\ outcome' \in Outcomes \cup {None}
    BY <1>0, <1>2 DEF UploadEnds
  <2>9. QED
    BY <2>1, <2>2, <2>3, <2>4, <2>5, <2>6, <2>7, <2>8
<1>3. ASSUME NEW id \in Bundle, NEW install \in BOOLEAN, Reserve(id, install)
      PROVE  TypeOK'
  <2>1. object' \in [Bundle -> Trees] /\ pending' \in [Bundle -> Trees] /\ interrupted' \in [Bundle -> 0..Retained]
    BY <1>0, <1>3 DEF Reserve
  <2>2. index' \in [App -> Bundle \cup {None}] /\ draft' \in [App -> Bundle \cup {None, "torn"}] /\ drafts' \in [App -> 0..Retained]
    BY <1>0, <1>3 DEF Reserve
  <2>3. zip' \in Archives \cup {None} /\ uploading' \in BOOLEAN
    BY <1>0, <1>3 DEF Reserve
  <2>4. flash' \in [Slots -> App \cup {None}] /\ image' \in [Slots -> Images]
    BY <1>0, <1>3 DEF Reserve
  <2>5. boot' \in Slots /\ running' \in Slots /\ rollback' \in BOOLEAN /\ selection' \in Bundle \cup {None}
    BY <1>0, <1>3 DEF Reserve
  <2>6. job' \in Jobs
    BY <1>0, <1>3 DEF Reserve
  <2>7. pc' \in Places
    BY <1>0, <1>3 DEF Reserve
  <2>8. held' \in BOOLEAN /\ outcome' \in Outcomes \cup {None}
    BY <1>0, <1>3 DEF Reserve
  <2>9. QED
    BY <2>1, <2>2, <2>3, <2>4, <2>5, <2>6, <2>7, <2>8
<1>4. ASSUME CreateWorker PROVE TypeOK'
  BY <1>0, <1>4 DEF CreateWorker
<1>5. ASSUME CreationFails PROVE TypeOK'
  <2>1. object' \in [Bundle -> Trees] /\ pending' \in [Bundle -> Trees] /\ interrupted' \in [Bundle -> 0..Retained]
    BY <1>0, <1>5 DEF CreationFails
  <2>2. index' \in [App -> Bundle \cup {None}] /\ draft' \in [App -> Bundle \cup {None, "torn"}] /\ drafts' \in [App -> 0..Retained]
    BY <1>0, <1>5 DEF CreationFails
  <2>3. zip' \in Archives \cup {None} /\ uploading' \in BOOLEAN
    BY <1>0, <1>5 DEF CreationFails
  <2>4. flash' \in [Slots -> App \cup {None}] /\ image' \in [Slots -> Images]
    BY <1>0, <1>5 DEF CreationFails
  <2>5. boot' \in Slots /\ running' \in Slots /\ rollback' \in BOOLEAN /\ selection' \in Bundle \cup {None}
    BY <1>0, <1>5 DEF CreationFails
  <2>6. job' \in Jobs
    BY <1>0, <1>5 DEF CreationFails
  <2>7. pc' \in Places
    BY <1>0, <1>5 DEF CreationFails
  <2>8. held' \in BOOLEAN /\ outcome' \in Outcomes \cup {None}
    BY <1>0, <1>5 DEF CreationFails
  <2>9. QED
    BY <2>1, <2>2, <2>3, <2>4, <2>5, <2>6, <2>7, <2>8
<1>6. ASSUME TakeUpdate PROVE TypeOK'
  <2>1. object' \in [Bundle -> Trees] /\ pending' \in [Bundle -> Trees] /\ interrupted' \in [Bundle -> 0..Retained]
    BY <1>0, <1>6 DEF TakeUpdate
  <2>2. index' \in [App -> Bundle \cup {None}] /\ draft' \in [App -> Bundle \cup {None, "torn"}] /\ drafts' \in [App -> 0..Retained]
    BY <1>0, <1>6 DEF TakeUpdate
  <2>3. zip' \in Archives \cup {None} /\ uploading' \in BOOLEAN
    BY <1>0, <1>6 DEF TakeUpdate
  <2>4. flash' \in [Slots -> App \cup {None}] /\ image' \in [Slots -> Images]
    BY <1>0, <1>6 DEF TakeUpdate
  <2>5. boot' \in Slots /\ running' \in Slots /\ rollback' \in BOOLEAN /\ selection' \in Bundle \cup {None}
    BY <1>0, <1>6 DEF TakeUpdate
  <2>6. job' \in Jobs
    BY <1>0, <1>6 DEF TakeUpdate
  <2>7. pc' \in Places
    BY <1>0, <1>6 DEF TakeUpdate
  <2>8. held' \in BOOLEAN /\ outcome' \in Outcomes \cup {None}
    BY <1>0, <1>6 DEF TakeUpdate
  <2>9. QED
    BY <2>1, <2>2, <2>3, <2>4, <2>5, <2>6, <2>7, <2>8
<1>7. ASSUME OpenRejected PROVE TypeOK'
  <2>1. object' \in [Bundle -> Trees] /\ pending' \in [Bundle -> Trees] /\ interrupted' \in [Bundle -> 0..Retained]
    BY <1>0, <1>7 DEF OpenRejected
  <2>2. index' \in [App -> Bundle \cup {None}] /\ draft' \in [App -> Bundle \cup {None, "torn"}] /\ drafts' \in [App -> 0..Retained]
    BY <1>0, <1>7 DEF OpenRejected
  <2>3. zip' \in Archives \cup {None} /\ uploading' \in BOOLEAN
    BY <1>0, <1>7 DEF OpenRejected
  <2>4. flash' \in [Slots -> App \cup {None}] /\ image' \in [Slots -> Images]
    BY <1>0, <1>7 DEF OpenRejected
  <2>5. boot' \in Slots /\ running' \in Slots /\ rollback' \in BOOLEAN /\ selection' \in Bundle \cup {None}
    BY <1>0, <1>7 DEF OpenRejected
  <2>6. job' \in Jobs
    BY <1>0, <1>7 DEF OpenRejected
  <2>7. pc' \in Places
    BY <1>0, <1>7 DEF OpenRejected
  <2>8. held' \in BOOLEAN /\ outcome' \in Outcomes \cup {None}
    BY <1>0, <1>7 DEF OpenRejected
  <2>9. QED
    BY <2>1, <2>2, <2>3, <2>4, <2>5, <2>6, <2>7, <2>8
<1>8. ASSUME Open PROVE TypeOK'
  <2>1. object' \in [Bundle -> Trees] /\ pending' \in [Bundle -> Trees] /\ interrupted' \in [Bundle -> 0..Retained]
    BY <1>0, <1>8 DEF Open
  <2>2. index' \in [App -> Bundle \cup {None}] /\ draft' \in [App -> Bundle \cup {None, "torn"}] /\ drafts' \in [App -> 0..Retained]
    BY <1>0, <1>8 DEF Open
  <2>3. zip' \in Archives \cup {None} /\ uploading' \in BOOLEAN
    BY <1>0, <1>8 DEF Open
  <2>4. flash' \in [Slots -> App \cup {None}] /\ image' \in [Slots -> Images]
    BY <1>0, <1>8 DEF Open
  <2>5. boot' \in Slots /\ running' \in Slots /\ rollback' \in BOOLEAN /\ selection' \in Bundle \cup {None}
    BY <1>0, <1>8 DEF Open
  <2>6. job' \in Jobs
    BY <1>0, <1>8 DEF Open
  <2>7. pc' \in Places
    BY <1>0, <1>8 DEF Open
  <2>8. held' \in BOOLEAN /\ outcome' \in Outcomes \cup {None}
    BY <1>0, <1>8 DEF Open
  <2>9. QED
    BY <2>1, <2>2, <2>3, <2>4, <2>5, <2>6, <2>7, <2>8
<1>9. ASSUME Prepare PROVE TypeOK'
  <2>1. object' \in [Bundle -> Trees] /\ pending' \in [Bundle -> Trees] /\ interrupted' \in [Bundle -> 0..Retained]
    BY <1>0, <1>9 DEF Prepare
  <2>2. index' \in [App -> Bundle \cup {None}] /\ draft' \in [App -> Bundle \cup {None, "torn"}] /\ drafts' \in [App -> 0..Retained]
    BY <1>0, <1>9 DEF Prepare
  <2>3. zip' \in Archives \cup {None} /\ uploading' \in BOOLEAN
    BY <1>0, <1>9 DEF Prepare
  <2>4. flash' \in [Slots -> App \cup {None}] /\ image' \in [Slots -> Images]
    BY <1>0, <1>9 DEF Prepare
  <2>5. boot' \in Slots /\ running' \in Slots /\ rollback' \in BOOLEAN /\ selection' \in Bundle \cup {None}
    BY <1>0, <1>9 DEF Prepare
  <2>6. job' \in Jobs
    BY <1>0, <1>9 DEF Prepare
  <2>7. pc' \in Places
    BY <1>0, <1>9 DEF Prepare
  <2>8. held' \in BOOLEAN /\ outcome' \in Outcomes \cup {None}
    BY <1>0, <1>9 DEF Prepare
  <2>9. QED
    BY <2>1, <2>2, <2>3, <2>4, <2>5, <2>6, <2>7, <2>8
<1>10. ASSUME Remake PROVE TypeOK'
  BY <1>0, <1>10 DEF Remake
<1>11. ASSUME Extract PROVE TypeOK'
  BY <1>0, <1>11 DEF Extract
<1>12. ASSUME StageFails PROVE TypeOK'
  <2>1. object' \in [Bundle -> Trees] /\ pending' \in [Bundle -> Trees] /\ interrupted' \in [Bundle -> 0..Retained]
    BY <1>0, <1>12 DEF StageFails
  <2>2. index' \in [App -> Bundle \cup {None}] /\ draft' \in [App -> Bundle \cup {None, "torn"}] /\ drafts' \in [App -> 0..Retained]
    BY <1>0, <1>12 DEF StageFails
  <2>3. zip' \in Archives \cup {None} /\ uploading' \in BOOLEAN
    BY <1>0, <1>12 DEF StageFails
  <2>4. flash' \in [Slots -> App \cup {None}] /\ image' \in [Slots -> Images]
    BY <1>0, <1>12 DEF StageFails
  <2>5. boot' \in Slots /\ running' \in Slots /\ rollback' \in BOOLEAN /\ selection' \in Bundle \cup {None}
    BY <1>0, <1>12 DEF StageFails
  <2>6. job' \in Jobs
    BY <1>0, <1>12 DEF StageFails
  <2>7. pc' \in Places
    BY <1>0, <1>12 DEF StageFails
  <2>8. held' \in BOOLEAN /\ outcome' \in Outcomes \cup {None}
    BY <1>0, <1>12 DEF StageFails
  <2>9. QED
    BY <2>1, <2>2, <2>3, <2>4, <2>5, <2>6, <2>7, <2>8
<1>13. ASSUME Check PROVE TypeOK'
  <2>1. object' \in [Bundle -> Trees] /\ pending' \in [Bundle -> Trees] /\ interrupted' \in [Bundle -> 0..Retained]
    BY <1>0, <1>13 DEF Check
  <2>2. index' \in [App -> Bundle \cup {None}] /\ draft' \in [App -> Bundle \cup {None, "torn"}] /\ drafts' \in [App -> 0..Retained]
    BY <1>0, <1>13 DEF Check
  <2>3. zip' \in Archives \cup {None} /\ uploading' \in BOOLEAN
    BY <1>0, <1>13 DEF Check
  <2>4. flash' \in [Slots -> App \cup {None}] /\ image' \in [Slots -> Images]
    BY <1>0, <1>13 DEF Check
  <2>5. boot' \in Slots /\ running' \in Slots /\ rollback' \in BOOLEAN /\ selection' \in Bundle \cup {None}
    BY <1>0, <1>13 DEF Check
  <2>6. job' \in Jobs
    BY <1>0, <1>13 DEF Check
  <2>7. pc' \in Places
    BY <1>0, <1>13 DEF Check
  <2>8. held' \in BOOLEAN /\ outcome' \in Outcomes \cup {None}
    BY <1>0, <1>13 DEF Check
  <2>9. QED
    BY <2>1, <2>2, <2>3, <2>4, <2>5, <2>6, <2>7, <2>8
<1>14. ASSUME PublishObject PROVE TypeOK'
  <2>1. object' \in [Bundle -> Trees] /\ pending' \in [Bundle -> Trees] /\ interrupted' \in [Bundle -> 0..Retained]
    BY <1>0, <1>14 DEF PublishObject
  <2>2. index' \in [App -> Bundle \cup {None}] /\ draft' \in [App -> Bundle \cup {None, "torn"}] /\ drafts' \in [App -> 0..Retained]
    BY <1>0, <1>14 DEF PublishObject
  <2>3. zip' \in Archives \cup {None} /\ uploading' \in BOOLEAN
    BY <1>0, <1>14 DEF PublishObject
  <2>4. flash' \in [Slots -> App \cup {None}] /\ image' \in [Slots -> Images]
    BY <1>0, <1>14 DEF PublishObject
  <2>5. boot' \in Slots /\ running' \in Slots /\ rollback' \in BOOLEAN /\ selection' \in Bundle \cup {None}
    BY <1>0, <1>14 DEF PublishObject
  <2>6. job' \in Jobs
    BY <1>0, <1>14 DEF PublishObject
  <2>7. pc' \in Places
    BY <1>0, <1>14 DEF PublishObject
  <2>8. held' \in BOOLEAN /\ outcome' \in Outcomes \cup {None}
    BY <1>0, <1>14 DEF PublishObject
  <2>9. QED
    BY <2>1, <2>2, <2>3, <2>4, <2>5, <2>6, <2>7, <2>8
<1>15. ASSUME InstallFails PROVE TypeOK'
  <2>1. object' \in [Bundle -> Trees] /\ pending' \in [Bundle -> Trees] /\ interrupted' \in [Bundle -> 0..Retained]
    BY <1>0, <1>15 DEF InstallFails
  <2>2. index' \in [App -> Bundle \cup {None}] /\ draft' \in [App -> Bundle \cup {None, "torn"}] /\ drafts' \in [App -> 0..Retained]
    BY <1>0, <1>15 DEF InstallFails
  <2>3. zip' \in Archives \cup {None} /\ uploading' \in BOOLEAN
    BY <1>0, <1>15 DEF InstallFails
  <2>4. flash' \in [Slots -> App \cup {None}] /\ image' \in [Slots -> Images]
    BY <1>0, <1>15 DEF InstallFails
  <2>5. boot' \in Slots /\ running' \in Slots /\ rollback' \in BOOLEAN /\ selection' \in Bundle \cup {None}
    BY <1>0, <1>15 DEF InstallFails
  <2>6. job' \in Jobs
    BY <1>0, <1>15 DEF InstallFails
  <2>7. pc' \in Places
    BY <1>0, <1>15 DEF InstallFails
  <2>8. held' \in BOOLEAN /\ outcome' \in Outcomes \cup {None}
    BY <1>0, <1>15 DEF InstallFails
  <2>9. QED
    BY <2>1, <2>2, <2>3, <2>4, <2>5, <2>6, <2>7, <2>8
<1>16. ASSUME TakeGuards PROVE TypeOK'
  BY <1>0, <1>16 DEF TakeGuards
<1>17. ASSUME VerifyObject PROVE TypeOK'
  BY <1>0, <1>17 DEF VerifyObject
<1>18. ASSUME Begin PROVE TypeOK'
  BY <1>0, <1>18 DEF Begin, SdkAllowsBegin
<1>19. ASSUME Write PROVE TypeOK'
  BY <1>0, <1>19 DEF Write
<1>20. ASSUME PrepareIndex PROVE TypeOK'
  <2>1. object' \in [Bundle -> Trees] /\ pending' \in [Bundle -> Trees] /\ interrupted' \in [Bundle -> 0..Retained]
    BY <1>0, <1>20 DEF PrepareIndex
  <2>2. index' \in [App -> Bundle \cup {None}] /\ draft' \in [App -> Bundle \cup {None, "torn"}] /\ drafts' \in [App -> 0..Retained]
    BY <1>0, <1>20 DEF PrepareIndex
  <2>3. zip' \in Archives \cup {None} /\ uploading' \in BOOLEAN
    BY <1>0, <1>20 DEF PrepareIndex
  <2>4. flash' \in [Slots -> App \cup {None}] /\ image' \in [Slots -> Images]
    BY <1>0, <1>20 DEF PrepareIndex
  <2>5. boot' \in Slots /\ running' \in Slots /\ rollback' \in BOOLEAN /\ selection' \in Bundle \cup {None}
    BY <1>0, <1>20 DEF PrepareIndex
  <2>6. job' \in Jobs
    BY <1>0, <1>20 DEF PrepareIndex
  <2>7. pc' \in Places
    BY <1>0, <1>20 DEF PrepareIndex
  <2>8. held' \in BOOLEAN /\ outcome' \in Outcomes \cup {None}
    BY <1>0, <1>20 DEF PrepareIndex
  <2>9. QED
    BY <2>1, <2>2, <2>3, <2>4, <2>5, <2>6, <2>7, <2>8
<1>21. ASSUME SetDraftAside PROVE TypeOK'
  BY <1>0, <1>21 DEF SetDraftAside
<1>22. ASSUME CreateDraft PROVE TypeOK'
  BY <1>0, <1>22 DEF CreateDraft
<1>23. ASSUME FillDraft PROVE TypeOK'
  BY <1>0, <1>23 DEF FillDraft
<1>24. ASSUME PublishIndex PROVE TypeOK'
  <2>1. object' \in [Bundle -> Trees] /\ pending' \in [Bundle -> Trees] /\ interrupted' \in [Bundle -> 0..Retained]
    BY <1>0, <1>24 DEF PublishIndex
  <2>2. index' \in [App -> Bundle \cup {None}] /\ draft' \in [App -> Bundle \cup {None, "torn"}] /\ drafts' \in [App -> 0..Retained]
    BY <1>0, <1>24 DEF PublishIndex
  <2>3. zip' \in Archives \cup {None} /\ uploading' \in BOOLEAN
    BY <1>0, <1>24 DEF PublishIndex
  <2>4. flash' \in [Slots -> App \cup {None}] /\ image' \in [Slots -> Images]
    BY <1>0, <1>24 DEF PublishIndex
  <2>5. boot' \in Slots /\ running' \in Slots /\ rollback' \in BOOLEAN /\ selection' \in Bundle \cup {None}
    BY <1>0, <1>24 DEF PublishIndex
  <2>6. job' \in Jobs
    BY <1>0, <1>24 DEF PublishIndex
  <2>7. pc' \in Places
    BY <1>0, <1>24 DEF PublishIndex
  <2>8. held' \in BOOLEAN /\ outcome' \in Outcomes \cup {None}
    BY <1>0, <1>24 DEF PublishIndex
  <2>9. QED
    BY <2>1, <2>2, <2>3, <2>4, <2>5, <2>6, <2>7, <2>8
<1>25. ASSUME Select PROVE TypeOK'
  <2>1. object' \in [Bundle -> Trees] /\ pending' \in [Bundle -> Trees] /\ interrupted' \in [Bundle -> 0..Retained]
    BY <1>0, <1>25 DEF Select
  <2>2. index' \in [App -> Bundle \cup {None}] /\ draft' \in [App -> Bundle \cup {None, "torn"}] /\ drafts' \in [App -> 0..Retained]
    BY <1>0, <1>25 DEF Select
  <2>3. zip' \in Archives \cup {None} /\ uploading' \in BOOLEAN
    BY <1>0, <1>25 DEF Select
  <2>4. flash' \in [Slots -> App \cup {None}] /\ image' \in [Slots -> Images]
    BY <1>0, <1>25 DEF Select
  <2>5. boot' \in Slots /\ running' \in Slots /\ rollback' \in BOOLEAN /\ selection' \in Bundle \cup {None}
    BY <1>0, <1>25 DEF Select
  <2>6. job' \in Jobs
    BY <1>0, <1>25 DEF Select
  <2>7. pc' \in Places
    BY <1>0, <1>25 DEF Select
  <2>8. held' \in BOOLEAN /\ outcome' \in Outcomes \cup {None}
    BY <1>0, <1>25 DEF Select
  <2>9. QED
    BY <2>1, <2>2, <2>3, <2>4, <2>5, <2>6, <2>7, <2>8
<1>26. ASSUME Report PROVE TypeOK'
  <2>1. object' \in [Bundle -> Trees] /\ pending' \in [Bundle -> Trees] /\ interrupted' \in [Bundle -> 0..Retained]
    BY <1>0, <1>26 DEF Report
  <2>2. index' \in [App -> Bundle \cup {None}] /\ draft' \in [App -> Bundle \cup {None, "torn"}] /\ drafts' \in [App -> 0..Retained]
    BY <1>0, <1>26 DEF Report
  <2>3. zip' \in Archives \cup {None} /\ uploading' \in BOOLEAN
    BY <1>0, <1>26 DEF Report
  <2>4. flash' \in [Slots -> App \cup {None}] /\ image' \in [Slots -> Images]
    BY <1>0, <1>26 DEF Report
  <2>5. boot' \in Slots /\ running' \in Slots /\ rollback' \in BOOLEAN /\ selection' \in Bundle \cup {None}
    BY <1>0, <1>26 DEF Report
  <2>6. job' \in Jobs
    BY <1>0, <1>26 DEF Report
  <2>7. pc' \in Places
    BY <1>0, <1>26 DEF Report
  <2>8. held' \in BOOLEAN /\ outcome' \in Outcomes \cup {None}
    BY <1>0, <1>26 DEF Report
  <2>9. QED
    BY <2>1, <2>2, <2>3, <2>4, <2>5, <2>6, <2>7, <2>8
<1>27. ASSUME Accept PROVE TypeOK'
  BY <1>0, <1>27 DEF Accept
<1>28. ASSUME Restart PROVE TypeOK'
  <2>1. object' \in [Bundle -> Trees] /\ pending' \in [Bundle -> Trees] /\ interrupted' \in [Bundle -> 0..Retained]
    BY <1>0, <1>28 DEF Restart, Bootable, AtReset, Load, Idle
  <2>2. index' \in [App -> Bundle \cup {None}] /\ draft' \in [App -> Bundle \cup {None, "torn"}] /\ drafts' \in [App -> 0..Retained]
    BY <1>0, <1>28 DEF Restart, Bootable, AtReset, Load, Idle
  <2>3. zip' \in Archives \cup {None} /\ uploading' \in BOOLEAN
    BY <1>0, <1>28 DEF Restart, Bootable, AtReset, Load, Idle
  <2>4. flash' \in [Slots -> App \cup {None}] /\ image' \in [Slots -> Images]
    BY <1>0, <1>28 DEF Restart, Bootable, AtReset, Load, Idle
  <2>5. boot' \in Slots /\ running' \in Slots /\ rollback' \in BOOLEAN /\ selection' \in Bundle \cup {None}
    BY <1>0, <1>28 DEF Restart, Bootable, AtReset, Load, Idle
  <2>6. job' \in Jobs
    BY <1>0, <1>28 DEF Restart, Bootable, AtReset, Load, Idle
  <2>7. pc' \in Places
    BY <1>0, <1>28 DEF Restart, Bootable, AtReset, Load, Idle
  <2>8. held' \in BOOLEAN /\ outcome' \in Outcomes \cup {None}
    BY <1>0, <1>28 DEF Restart, Bootable, AtReset, Load, Idle
  <2>9. QED
    BY <2>1, <2>2, <2>3, <2>4, <2>5, <2>6, <2>7, <2>8
<1>29. CASE UNCHANGED vars
  BY <1>29 DEF vars
<1> HIDE DEF UpdateAssumption, TypeOK, Trees, Slots, Images, StagePhases, InstallPhases, Outcomes,
    Archives, trees, names, input, chip, task, Go, Leave, Target, Other, RunningApp, Jobs, Places
<1>30. QED
  BY <1>1, <1>2, <1>3, <1>4, <1>5, <1>6, <1>7, <1>8, <1>9, <1>10, <1>11, <1>12, <1>13, <1>14,
  <1>15, <1>16, <1>17, <1>18, <1>19, <1>20, <1>21, <1>22, <1>23, <1>24, <1>25, <1>26, <1>27,
  <1>28, <1>29 DEF Next, Worker, Stage, Install

\* Every step keeps the invariant, Restart and every failure included.
LEMMA StepInductive == UpdateAssumption /\ Inductive /\ [Next]_vars => Inductive'
<1> SUFFICES ASSUME UpdateAssumption, Inductive, [Next]_vars PROVE Inductive'
  OBVIOUS
<1> USE DEF UpdateAssumption, Inductive, TypeOK, JobConsistent, CardWhole, SlotsWhole, ReportTrue,
    JobHasWorker, Mapped, RunningApp, Target, Other, Using, Guarded, Trees, Slots, Images,
    StagePhases, InstallPhases, Outcomes, Archives, Staged, trees, names, input, chip, task, Go,
    Leave, Jobs, Places
<1>0. TypeOK'
  BY StepType DEF Inductive
<1>1. ASSUME Upload PROVE Inductive'
  <2>1. JobConsistent'
    BY <1>1 DEF Upload
  <2>2. CardWhole'
    BY <1>1 DEF Upload
  <2>3. SlotsWhole'
    BY <1>1 DEF Upload
  <2>4. ReportTrue'
    BY <1>1 DEF Upload
  <2>5. QED
    BY <1>0, <2>1, <2>2, <2>3, <2>4
<1>2. ASSUME UploadEnds PROVE Inductive'
  <2>1. JobConsistent'
    BY <1>2 DEF UploadEnds
  <2>2. CardWhole'
    BY <1>2 DEF UploadEnds
  <2>3. SlotsWhole'
    BY <1>2 DEF UploadEnds
  <2>4. ReportTrue'
    BY <1>2 DEF UploadEnds
  <2>5. QED
    BY <1>0, <2>1, <2>2, <2>3, <2>4
<1>3. ASSUME NEW id \in Bundle, NEW install \in BOOLEAN, Reserve(id, install)
      PROVE  Inductive'
  <2>1. JobConsistent'
    BY <1>3 DEF Reserve
  <2>2. CardWhole'
    BY <1>3 DEF Reserve
  <2>3. SlotsWhole'
    BY <1>3 DEF Reserve
  <2>4. ReportTrue'
    BY <1>3 DEF Reserve
  <2>5. QED
    BY <1>0, <2>1, <2>2, <2>3, <2>4
<1>4. ASSUME CreateWorker PROVE Inductive'
  <2>1. JobConsistent'
    BY <1>4 DEF CreateWorker
  <2>2. CardWhole'
    BY <1>4 DEF CreateWorker
  <2>3. SlotsWhole'
    BY <1>4 DEF CreateWorker
  <2>4. ReportTrue'
    BY <1>4 DEF CreateWorker
  <2>5. QED
    BY <1>0, <2>1, <2>2, <2>3, <2>4
<1>5. ASSUME CreationFails PROVE Inductive'
  <2>1. JobConsistent'
    BY <1>5 DEF CreationFails
  <2>2. CardWhole'
    BY <1>5 DEF CreationFails
  <2>3. SlotsWhole'
    BY <1>5 DEF CreationFails
  <2>4. ReportTrue'
    BY <1>5 DEF CreationFails
  <2>5. QED
    BY <1>0, <2>1, <2>2, <2>3, <2>4
<1>6. ASSUME TakeUpdate PROVE Inductive'
  <2>1. JobConsistent'
    BY <1>6 DEF TakeUpdate
  <2>2. CardWhole'
    BY <1>6 DEF TakeUpdate
  <2>3. SlotsWhole'
    BY <1>6 DEF TakeUpdate
  <2>4. ReportTrue'
    BY <1>6 DEF TakeUpdate
  <2>5. QED
    BY <1>0, <2>1, <2>2, <2>3, <2>4
<1>7. ASSUME OpenRejected PROVE Inductive'
  <2>1. JobConsistent'
    BY <1>7 DEF OpenRejected
  <2>2. CardWhole'
    BY <1>7 DEF OpenRejected
  <2>3. SlotsWhole'
    BY <1>7 DEF OpenRejected
  <2>4. ReportTrue'
    BY <1>7 DEF OpenRejected
  <2>5. QED
    BY <1>0, <2>1, <2>2, <2>3, <2>4
<1>8. ASSUME Open PROVE Inductive'
  <2>1. JobConsistent'
    BY <1>8 DEF Open
  <2>2. CardWhole'
    BY <1>8 DEF Open
  <2>3. SlotsWhole'
    BY <1>8 DEF Open
  <2>4. ReportTrue'
    BY <1>8 DEF Open
  <2>5. QED
    BY <1>0, <2>1, <2>2, <2>3, <2>4
<1>9. ASSUME Prepare PROVE Inductive'
  <2>1. JobConsistent'
    BY <1>9 DEF Prepare
  <2>2. CardWhole'
    BY <1>9 DEF Prepare
  <2>3. SlotsWhole'
    BY <1>9 DEF Prepare
  <2>4. ReportTrue'
    BY <1>9 DEF Prepare
  <2>5. QED
    BY <1>0, <2>1, <2>2, <2>3, <2>4
<1>10. ASSUME Remake PROVE Inductive'
  <2>1. JobConsistent'
    BY <1>10 DEF Remake
  <2>2. CardWhole'
    BY <1>10 DEF Remake
  <2>3. SlotsWhole'
    BY <1>10 DEF Remake
  <2>4. ReportTrue'
    BY <1>10 DEF Remake
  <2>5. QED
    BY <1>0, <2>1, <2>2, <2>3, <2>4
<1>11. ASSUME Extract PROVE Inductive'
  <2>1. JobConsistent'
    BY <1>11 DEF Extract
  <2>2. CardWhole'
    BY <1>11 DEF Extract
  <2>3. SlotsWhole'
    BY <1>11 DEF Extract
  <2>4. ReportTrue'
    BY <1>11 DEF Extract
  <2>5. QED
    BY <1>0, <2>1, <2>2, <2>3, <2>4
<1>12. ASSUME StageFails PROVE Inductive'
  <2>1. JobConsistent'
    BY <1>12 DEF StageFails
  <2>2. CardWhole'
    BY <1>12 DEF StageFails
  <2>3. SlotsWhole'
    BY <1>12 DEF StageFails
  <2>4. ReportTrue'
    BY <1>12 DEF StageFails
  <2>5. QED
    BY <1>0, <2>1, <2>2, <2>3, <2>4
<1>13. ASSUME Check PROVE Inductive'
  <2>1. JobConsistent'
    BY <1>13 DEF Check
  <2>2. CardWhole'
    BY <1>13 DEF Check
  <2>3. SlotsWhole'
    BY <1>13 DEF Check
  <2>4. ReportTrue'
    BY <1>13 DEF Check
  <2>5. QED
    BY <1>0, <2>1, <2>2, <2>3, <2>4
<1>14. ASSUME PublishObject PROVE Inductive'
  <2>1. JobConsistent'
    BY <1>14 DEF PublishObject
  <2>2. CardWhole'
    BY <1>14 DEF PublishObject
  <2>3. SlotsWhole'
    BY <1>14 DEF PublishObject
  <2>4. ReportTrue'
    BY <1>14 DEF PublishObject
  <2>5. QED
    BY <1>0, <2>1, <2>2, <2>3, <2>4
<1>15. ASSUME InstallFails PROVE Inductive'
  <2>1. JobConsistent'
    BY <1>15 DEF InstallFails
  <2>2. CardWhole'
    BY <1>15 DEF InstallFails
  <2>3. SlotsWhole'
    BY <1>15 DEF InstallFails
  <2>4. ReportTrue'
    BY <1>15 DEF InstallFails
  <2>5. QED
    BY <1>0, <2>1, <2>2, <2>3, <2>4
<1>16. ASSUME TakeGuards PROVE Inductive'
  <2>1. JobConsistent'
    BY <1>16 DEF TakeGuards
  <2>2. CardWhole'
    BY <1>16 DEF TakeGuards
  <2>3. SlotsWhole'
    BY <1>16 DEF TakeGuards
  <2>4. ReportTrue'
    BY <1>16 DEF TakeGuards
  <2>5. QED
    BY <1>0, <2>1, <2>2, <2>3, <2>4
<1>17. ASSUME VerifyObject PROVE Inductive'
  <2>1. JobConsistent'
    BY <1>17 DEF VerifyObject
  <2>2. CardWhole'
    BY <1>17 DEF VerifyObject
  <2>3. SlotsWhole'
    BY <1>17 DEF VerifyObject
  <2>4. ReportTrue'
    BY <1>17 DEF VerifyObject
  <2>5. QED
    BY <1>0, <2>1, <2>2, <2>3, <2>4
<1>18. ASSUME Begin PROVE Inductive'
  <2>1. JobConsistent'
    BY <1>18 DEF Begin, SdkAllowsBegin
  <2>2. CardWhole'
    BY <1>18 DEF Begin, SdkAllowsBegin
  <2>3. SlotsWhole'
    BY <1>18 DEF Begin, SdkAllowsBegin
  <2>4. ReportTrue'
    BY <1>18 DEF Begin, SdkAllowsBegin
  <2>5. QED
    BY <1>0, <2>1, <2>2, <2>3, <2>4
<1>19. ASSUME Write PROVE Inductive'
  <2>1. JobConsistent'
    BY <1>19 DEF Write
  <2>2. CardWhole'
    BY <1>19 DEF Write
  <2>3. SlotsWhole'
    BY <1>19 DEF Write
  <2>4. ReportTrue'
    BY <1>19 DEF Write
  <2>5. QED
    BY <1>0, <2>1, <2>2, <2>3, <2>4
<1>20. ASSUME PrepareIndex PROVE Inductive'
  <2>1. JobConsistent'
    BY <1>20 DEF PrepareIndex
  <2>2. CardWhole'
    BY <1>20 DEF PrepareIndex
  <2>3. SlotsWhole'
    BY <1>20 DEF PrepareIndex
  <2>4. ReportTrue'
    BY <1>20 DEF PrepareIndex
  <2>5. QED
    BY <1>0, <2>1, <2>2, <2>3, <2>4
<1>21. ASSUME SetDraftAside PROVE Inductive'
  <2>1. JobConsistent'
    BY <1>21 DEF SetDraftAside
  <2>2. CardWhole'
    BY <1>21 DEF SetDraftAside
  <2>3. SlotsWhole'
    BY <1>21 DEF SetDraftAside
  <2>4. ReportTrue'
    BY <1>21 DEF SetDraftAside
  <2>5. QED
    BY <1>0, <2>1, <2>2, <2>3, <2>4
<1>22. ASSUME CreateDraft PROVE Inductive'
  <2>1. JobConsistent'
    BY <1>22 DEF CreateDraft
  <2>2. CardWhole'
    BY <1>22 DEF CreateDraft
  <2>3. SlotsWhole'
    BY <1>22 DEF CreateDraft
  <2>4. ReportTrue'
    BY <1>22 DEF CreateDraft
  <2>5. QED
    BY <1>0, <2>1, <2>2, <2>3, <2>4
<1>23. ASSUME FillDraft PROVE Inductive'
  <2>1. JobConsistent'
    BY <1>23 DEF FillDraft
  <2>2. CardWhole'
    BY <1>23 DEF FillDraft
  <2>3. SlotsWhole'
    BY <1>23 DEF FillDraft
  <2>4. ReportTrue'
    BY <1>23 DEF FillDraft
  <2>5. QED
    BY <1>0, <2>1, <2>2, <2>3, <2>4
<1>24. ASSUME PublishIndex PROVE Inductive'
  <2>1. JobConsistent'
    BY <1>24 DEF PublishIndex
  <2>2. CardWhole'
    <3> DEFINE a == AppOf[job.id]
    <3>1. job.id \in Bundle /\ a \in App /\ object[job.id] = "whole" /\ draft[a] = job.id
      BY <1>24 DEF PublishIndex
    <3>2. index' = [index EXCEPT ![a] = job.id] /\ index'[a] = job.id
      BY <1>24, <3>1 DEF PublishIndex
    <3>3. UNCHANGED <<object, pending>> /\ pc' \in {"select", "report"} /\ job' = job
      BY <1>24 DEF PublishIndex
    <3>4. ASSUME NEW c \in App, index'[c] # None PROVE object'[index'[c]] = "whole" /\ AppOf[index'[c]] = c
      <4>1. CASE c = a
        BY <4>1, <3>1, <3>2, <3>3
      <4>2. CASE c # a
        BY <4>2, <3>1, <3>2, <3>3, <3>4
      <4>3. QED
        BY <4>1, <4>2
    <3>5. QED
      BY <3>2, <3>3, <3>4
  <2>3. SlotsWhole'
    <3> DEFINE a == AppOf[job.id]
    <3>1. job.id \in Bundle /\ a \in App /\ draft[a] = job.id /\ a # RunningApp
      BY <1>24 DEF PublishIndex
    <3>2. index' = [index EXCEPT ![a] = job.id]
      BY <1>24, <3>1 DEF PublishIndex
    <3>3. UNCHANGED <<flash, image, boot, running, rollback, selection>> /\ pc' \in {"select", "report"} /\ job' = job
      BY <1>24 DEF PublishIndex
    <3>4. \A c \in App : (index[c] # None => index'[c] # None) /\ (c # a => index'[c] = index[c])
      BY <3>1, <3>2
    <3>5. Mapped(running)' /\ selection' = index'[RunningApp'] /\ (boot # running => Mapped(boot)')
            /\ (image[running] = "pending" => Mapped(Target)')
      BY <3>1, <3>3, <3>4
    <3>6. pc = "map"
      BY <1>24 DEF PublishIndex
    <3>7. QED
      BY <3>3, <3>5, <3>6
  <2>4. ReportTrue'
    BY <1>24 DEF PublishIndex
  <2>5. QED
    BY <1>0, <2>1, <2>2, <2>3, <2>4
<1>25. ASSUME Select PROVE Inductive'
  <2>1. JobConsistent'
    BY <1>25 DEF Select
  <2>2. CardWhole'
    BY <1>25 DEF Select
  <2>3. SlotsWhole'
    BY <1>25 DEF Select
  <2>4. ReportTrue'
    BY <1>25 DEF Select
  <2>5. QED
    BY <1>0, <2>1, <2>2, <2>3, <2>4
<1>26. ASSUME Report PROVE Inductive'
  <2>1. JobConsistent'
    BY <1>26 DEF Report
  <2>2. CardWhole'
    BY <1>26 DEF Report
  <2>3. SlotsWhole'
    BY <1>26 DEF Report
  <2>4. ReportTrue'
    BY <1>26 DEF Report
  <2>5. QED
    BY <1>0, <2>1, <2>2, <2>3, <2>4
<1>27. ASSUME Accept PROVE Inductive'
  <2>1. JobConsistent'
    BY <1>27 DEF Accept
  <2>2. CardWhole'
    BY <1>27 DEF Accept
  <2>3. SlotsWhole'
    BY <1>27 DEF Accept
  <2>4. ReportTrue'
    BY <1>27 DEF Accept
  <2>5. QED
    BY <1>0, <2>1, <2>2, <2>3, <2>4
<1>28. ASSUME Restart PROVE Inductive'
  <2>1. JobConsistent'
    BY <1>28 DEF Restart, Bootable, AtReset, Load, Idle
  <2>2. CardWhole'
    BY <1>28 DEF Restart, Bootable, AtReset, Load, Idle
  <2>3. SlotsWhole'
    <3> DEFINE chosen == IF Bootable(boot) THEN boot ELSE Other(boot)
    <3>1. /\ Bootable(chosen) /\ chosen \in Slots
          /\ running' = chosen /\ image' = [AtReset EXCEPT ![chosen] = IF @ = "new" THEN "pending" ELSE @]
          /\ boot' = IF AtReset[boot] = "aborted" THEN Other(boot) ELSE boot
          /\ selection' = Load(flash[chosen]) /\ pc' = "idle"
          /\ UNCHANGED <<index, object, flash, rollback>>
      BY <1>28 DEF Restart
    <3>2. flash[boot] # None
      OBVIOUS
    <3>3. \A s \in Slots : /\ AtReset[s] # "pending" /\ (AtReset[s] = "new" => s = boot)
                           /\ image'[s] = IF s = chosen /\ AtReset[s] = "new" THEN "pending" ELSE AtReset[s]
      BY <3>1 DEF AtReset
    <3>4. boot' = chosen
      BY <3>1, <3>2 DEF Bootable
    <3>5. Mapped(chosen)
      BY <3>1, <3>2 DEF Bootable, AtReset
    <3>6. selection' = index[flash[chosen]]
      BY <3>1, <3>5 DEF Load
    <3>7. image'[chosen] \notin {"new", "aborted"}
      BY <3>1, <3>3 DEF Bootable
    <3>8. \A s \in Slots : image'[s] \in {"new", "pending", "aborted"} => rollback
      BY <3>3 DEF AtReset
    <3>9. ASSUME image'[chosen] = "pending" PROVE Mapped(Other(chosen)) /\ image'[Other(chosen)] # "aborted"
      <4>1. chosen = boot /\ AtReset[chosen] = "new" /\ image[chosen] = "new"
        BY <3>1, <3>3, <3>9 DEF AtReset
      <4>2. boot # running /\ Other(chosen) = running
        BY <4>1
      <4>3. QED
        BY <4>1, <4>2, <3>3 DEF AtReset
    <3>10. QED
      BY <3>1, <3>3, <3>4, <3>5, <3>6, <3>7, <3>8, <3>9
  <2>4. ReportTrue'
    BY <1>28 DEF Restart, Bootable, AtReset, Load, Idle
  <2>5. QED
    BY <1>0, <2>1, <2>2, <2>3, <2>4
<1>29. CASE UNCHANGED vars
  BY <1>29 DEF vars
<1> HIDE DEF UpdateAssumption, Inductive, TypeOK, JobConsistent, CardWhole, SlotsWhole,
    ReportTrue, JobHasWorker, Mapped, RunningApp, Target, Other, Using, Guarded, Trees, Slots,
    Images, StagePhases, InstallPhases, Outcomes, Archives, Staged, trees, names, input, chip,
    task, Go, Leave, Jobs, Places
<1>30. QED
  BY <1>1, <1>2, <1>3, <1>4, <1>5, <1>6, <1>7, <1>8, <1>9, <1>10, <1>11, <1>12, <1>13, <1>14,
  <1>15, <1>16, <1>17, <1>18, <1>19, <1>20, <1>21, <1>22, <1>23, <1>24, <1>25, <1>26, <1>27,
  <1>28, <1>29 DEF Next, Worker, Stage, Install

-----------------------------------------------------------------------------
(* What the invariant implies                                              *)

\* A mapped slot has its whole bundle, and only mapped slots can be booted.
LEMMA InductiveBootsComplete == UpdateAssumption /\ Inductive => BootsComplete
<1> SUFFICES ASSUME UpdateAssumption, Inductive PROVE BootsComplete
  OBVIOUS
<1> USE DEF UpdateAssumption, Inductive, TypeOK, CardWhole, SlotsWhole, Mapped, RunningApp, Target, Other, Slots
<1>1. \A s \in Slots : Mapped(s) => Usable(flash[s])
  BY DEF Usable, Load
<1>2. NextBootComplete
  BY <1>1 DEF NextBootComplete
<1>3. selection # None => Usable(RunningApp) /\ index[RunningApp] = selection
  BY <1>1
<1>4. ASSUME NEW s \in Slots, image[s] \in {"new", "pending"}
      PROVE  Usable(flash[Other(s)]) /\ image[Other(s)] \notin {"new", "pending", "aborted"}
  <2>1. CASE image[s] = "new"
    BY <1>1, <2>1
  <2>2. CASE image[s] = "pending"
    BY <1>1, <2>2
  <2>3. QED
    BY <1>4, <2>1, <2>2
<1>5. QED
  BY <1>2, <1>3, <1>4 DEF BootsComplete, AssetsKept

\* The report follows from what the job has got done.
LEMMA InductiveJobTrue == UpdateAssumption /\ Inductive => JobTrue
<1> SUFFICES ASSUME UpdateAssumption, Inductive PROVE JobTrue
  OBVIOUS
<1> USE DEF UpdateAssumption, Inductive, JobConsistent, ReportTrue, CardWhole
<1>1. job.selected => Load(flash[boot]) = job.id
  BY DEF Load, TypeOK
<1>2. QED
  BY <1>1 DEF JobTrue, StatusTrue

-----------------------------------------------------------------------------
(* What a step does                                                        *)

\* Only four actions take a tree out of pending/, write into it or count one set aside.
LEMMA StepEvidence == UpdateAssumption /\ Inductive /\ [Next]_vars => EvidenceStep
<1> SUFFICES ASSUME UpdateAssumption, Inductive, [Next]_vars PROVE EvidenceStep
  OBVIOUS
<1> USE DEF Inductive, TypeOK, EvidenceStep, Trees
<1>1. ASSUME UNCHANGED <<pending, interrupted>> PROVE EvidenceStep
  BY <1>1
<1>2. (pc # "idle" => job.id \in Bundle) /\ UpdateAssumption
  BY DEF JobConsistent
<1>3. ASSUME Prepare PROVE EvidenceStep
  BY <1>2, <1>3 DEF Prepare, UpdateAssumption
<1>4. ASSUME Remake PROVE EvidenceStep
  BY <1>2, <1>4 DEF Remake
<1>5. ASSUME Extract PROVE EvidenceStep
  BY <1>2, <1>5 DEF Extract
<1>6. ASSUME PublishObject PROVE EvidenceStep
  BY <1>2, <1>6 DEF PublishObject, trees
<1>7. Stage => Prepare \/ Remake \/ Extract \/ PublishObject \/ UNCHANGED trees
  BY DEF Stage, TakeUpdate, OpenRejected, Open, StageFails, Check
<1>8. Install => UNCHANGED trees
  BY DEF Install, InstallFails, TakeGuards, VerifyObject, Begin, Write, PrepareIndex, SetDraftAside,
         CreateDraft, FillDraft, PublishIndex, Select
<1>9. Next => Stage \/ UNCHANGED trees
  BY <1>8 DEF Next, Worker, Upload, UploadEnds, Reserve, CreateWorker, CreationFails, Report, Accept,
         Restart
<1>10. QED
  BY <1>1, <1>3, <1>4, <1>5, <1>6, <1>7, <1>9 DEF vars, trees

\* A restart runs the slot that it leaves selected.
LEMMA RestartRunsBoot ==
  UpdateAssumption /\ Inductive /\ Restart => boot' = running' /\ UNCHANGED <<object, index, flash>>
<1> SUFFICES ASSUME UpdateAssumption, Inductive, Restart
             PROVE  boot' = running' /\ UNCHANGED <<object, index, flash>>
  OBVIOUS
<1>1. flash[boot] # None
  BY DEF Inductive, SlotsWhole, Mapped
<1>2. QED
  BY <1>1 DEF Restart, Bootable, trees, names

\* Nothing is published at the start.
LEMMA InitManaged == UpdateAssumption /\ Init => Managed!Init
<1> SUFFICES ASSUME UpdateAssumption, Init PROVE Managed!Init
  OBVIOUS
<1>1. {b \in Bundle : object[b] = "whole"} = {Factory}
  BY DEF UpdateAssumption, Init
<1>2. RunningApp = AppOf[Factory] /\ flash[boot] = AppOf[Factory]
  BY DEF Init, RunningApp, Slots
<1>3. QED
  BY <1>1, <1>2 DEF Init, Managed!Init

\* Publishing, mapping, selecting and restarting are the four steps of ManagedUpdate; the others
\* leave what it sees alone, also while the inactive slot is written.
LEMMA StepManaged == UpdateAssumption /\ Inductive /\ [Next]_vars => [Managed!Next]_(Managed!vars)
<1> SUFFICES ASSUME UpdateAssumption, Inductive, [Next]_vars PROVE [Managed!Next]_(Managed!vars)
  OBVIOUS
<1> DEFINE published == {b \in Bundle : object[b] = "whole"}
<1>0. Inductive'
  BY StepInductive
<1>1. ASSUME UNCHANGED <<object, index, flash, boot, running>> PROVE UNCHANGED Managed!vars
  BY <1>1 DEF Managed!vars, RunningApp
<1>2. ASSUME PublishObject PROVE [Managed!Next]_(Managed!vars)
  <2>1. job.id \in Bundle /\ pending[job.id] = "whole" /\ object \in [Bundle -> Trees]
    BY <1>2 DEF PublishObject, Inductive, TypeOK, JobConsistent, CardWhole
  <2>2. UNCHANGED <<index, flash, boot, running>>
    BY <1>2 DEF PublishObject, names, chip
  <2>3. CASE object[job.id] # "none"
    BY <1>1, <1>2, <2>2, <2>3 DEF PublishObject, trees
  <2>4. CASE object[job.id] = "none"
    <3>1. object' = [object EXCEPT ![job.id] = "whole"]
      BY <1>2, <2>1, <2>4 DEF PublishObject
    <3>2. published' = published \cup {job.id} /\ job.id \in Bundle \ published
      BY <2>1, <2>4, <3>1
    <3>3. Managed!Publish
      BY <2>2, <3>2 DEF Managed!Publish, RunningApp
    <3>4. QED
      BY <3>3 DEF Managed!Next
  <2>5. QED
    BY <2>3, <2>4
<1>3. ASSUME Begin \/ Write PROVE UNCHANGED Managed!vars
  <2>1. boot = running /\ boot \in Slots /\ flash \in [Slots -> App \cup {None}]
    BY <1>3 DEF Begin, Write, Inductive, TypeOK, SlotsWhole, Using
  <2>2. UNCHANGED <<object, index, boot, running>> /\ flash'[boot] = flash[boot]
    BY <1>3, <2>1 DEF Begin, Write, trees, names, Target, Other, Slots
  <2>3. QED
    BY <2>1, <2>2 DEF Managed!vars, RunningApp
<1>4. ASSUME PublishIndex PROVE Managed!Next
  <2>1. /\ job.id \in Bundle /\ object[job.id] = "whole" /\ draft[AppOf[job.id]] = job.id
        /\ AppOf[job.id] # RunningApp /\ index[AppOf[job.id]] = None
    BY <1>4 DEF PublishIndex, Inductive, JobConsistent, CardWhole, SlotsWhole, Using, InstallPhases, JobHasWorker
  <2>2. UNCHANGED <<object, flash, boot, running>> /\ index' = [index EXCEPT ![AppOf[job.id]] = job.id]
    BY <1>4, <2>1 DEF PublishIndex, trees, chip
  <2>3. Managed!Map
    BY <2>1, <2>2 DEF Managed!Map, RunningApp
  <2>4. QED
    BY <2>3 DEF Managed!Next
<1>5. ASSUME Select PROVE Managed!Next
  <2>1. /\ job.id \in Bundle /\ boot = running /\ flash[Target] = AppOf[job.id]
        /\ AppOf[job.id] # RunningApp /\ index[AppOf[job.id]] = job.id /\ object[job.id] = "whole"
    BY <1>5 DEF Select, Inductive, JobConsistent, CardWhole, SlotsWhole, Using, InstallPhases, JobHasWorker
  <2>2. UNCHANGED <<object, index, flash, running>> /\ boot' = Target
    BY <1>5 DEF Select, trees, names
  <2>3. AppOf[job.id] \in App
    BY <2>1 DEF UpdateAssumption
  <2>4. Managed!Select
    BY <2>1, <2>2, <2>3 DEF Managed!Select, Managed!Usable, RunningApp
  <2>5. QED
    BY <2>4 DEF Managed!Next
<1>6. ASSUME Restart PROVE Managed!Next
  <2>1. boot' = running' /\ UNCHANGED <<object, index, flash>>
    BY <1>6, RestartRunsBoot
  <2>2. running' \in Slots /\ flash' \in [Slots -> App \cup {None}] /\ flash'[running'] # None
          /\ index'[flash'[running']] # None
    BY <1>0 DEF Inductive, TypeOK, SlotsWhole, Mapped
  <2>3. flash'[running'] \in App
    BY <2>2
  <2>4. index[flash'[running']] \in Bundle /\ object[index[flash'[running']]] = "whole"
    BY <2>1, <2>2, <2>3 DEF Inductive, TypeOK, CardWhole
  <2>5. Managed!Start
    BY <2>1, <2>3, <2>4 DEF Managed!Start, Managed!Usable, RunningApp
  <2>6. QED
    BY <2>5 DEF Managed!Next
<1>7. Stage => PublishObject \/ UNCHANGED <<object, index, flash, boot, running>>
  BY DEF Stage, TakeUpdate, OpenRejected, Open, Prepare, Remake, Extract, StageFails, Check, trees,
         names, chip
<1>8. Install => Begin \/ Write \/ PublishIndex \/ Select \/ UNCHANGED <<object, index, flash, boot, running>>
  BY DEF Install, InstallFails, TakeGuards, VerifyObject, PrepareIndex, SetDraftAside, CreateDraft,
         FillDraft, trees, names, chip
<1>9. Next => Stage \/ Install \/ Restart \/ UNCHANGED <<object, index, flash, boot, running>>
  BY DEF Next, Worker, Upload, UploadEnds, Reserve, CreateWorker, CreationFails, Report, Accept, trees,
         names, chip
<1>10. UNCHANGED vars => UNCHANGED <<object, index, flash, boot, running>>
  BY DEF vars, trees, names, chip
<1>11. QED
  BY <1>1, <1>2, <1>3, <1>4, <1>5, <1>6, <1>7, <1>8, <1>9, <1>10

-----------------------------------------------------------------------------
(* Theorems                                                                *)

\* In every reachable state the job, the card and the slots are consistent, wherever calls have
\* failed and the power has gone (stageZip, prepareIndex, ota_update_task, the bootloader).
THEOREM UpdateInvariant == ASSUME UpdateAssumption PROVE Spec => []Inductive
<1>1. Init => Inductive
  BY InitInductive
<1>2. Inductive /\ [Next]_vars => Inductive'
  BY StepInductive
<1>3. QED
  BY <1>1, <1>2, PTL DEF Spec

\* What runs, what boots next and what it could fall back to are whole, wherever the power goes.
THEOREM UpdateBootsComplete == ASSUME UpdateAssumption PROVE Spec => [](TypeOK /\ BootsComplete)
<1>1. Inductive => TypeOK /\ BootsComplete
  BY InductiveBootsComplete DEF Inductive
<1>2. QED
  BY <1>1, UpdateInvariant, PTL

\* What /bundle_status reports was done, and a job is active exactly while a worker has it.
THEOREM UpdateJobTrue == ASSUME UpdateAssumption PROVE Spec => []JobTrue
<1>1. Inductive => JobTrue
  BY InductiveJobTrue
<1>2. QED
  BY <1>1, UpdateInvariant, PTL

\* Interrupted work is published or set aside, never removed or written over (preparePending).
THEOREM UpdateEvidenceRetained == ASSUME UpdateAssumption PROVE Spec => EvidenceRetained
<1>1. Inductive /\ [Next]_vars => [EvidenceStep]_vars
  BY StepEvidence
<1>2. QED
  BY <1>1, UpdateInvariant, PTL DEF Spec, EvidenceRetained

\* Bundles are published for good, applications mapped once and before they are selected.
THEOREM UpdateImplementsManaged == ASSUME UpdateAssumption PROVE Spec => ImplementsManagedUpdate
<1>1. Init => Managed!Init
  BY InitManaged
<1>2. Inductive /\ [Next]_vars => [Managed!Next]_(Managed!vars)
  BY StepManaged
<1>3. QED
  BY <1>1, <1>2, UpdateInvariant, PTL DEF Spec, ImplementsManagedUpdate, Managed!Spec
=============================================================================
