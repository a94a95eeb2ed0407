---------------------------- MODULE MCDeviceProofs ----------------------------
(***************************************************************************)
(* Proofs of the properties of MCDevice, for every value of its constants. *)
(***************************************************************************)
EXTENDS MCDevice, Sequences, TLAPS

\* The inductive invariant of BundleUpdate, of the behaviours about a bundle.
UpdateInductive == subject = "bundle" => Update!Inductive

\* A run about a bundle starts as BundleUpdate does.
LEMMA InitUpdate == Init => UpdateInductive
  BY DeviceAssumption, Update!InitInductive DEF Init, UpdateInductive

\* While the subject is a bundle, a step of the device is a step of BundleUpdate.
LEMMA NextUpdate == [Next]_vars /\ subject = "bundle" => subject' = "bundle" /\ [Update!Next]_(Update!vars)
<1>1. ASSUME Next, subject = "bundle" PROVE subject' = "bundle" /\ [Update!Next]_(Update!vars)
  BY <1>1 DEF Next
<1>2. ASSUME UNCHANGED vars PROVE subject' = subject /\ UNCHANGED Update!vars
  BY <1>2 DEF vars, bundleVars, Update!vars, Update!trees, Update!names, Update!input, Update!chip, Update!task
<1>3. QED
  BY <1>1, <1>2

\* The subject of a behaviour is chosen once.
LEMMA NextOther == [Next]_vars => subject' = subject
  BY DEF Next, vars

\* The invariant of BundleUpdate is one of the composition.
LEMMA StepUpdate == UpdateInductive /\ [Next]_vars => UpdateInductive'
  BY DeviceAssumption, NextUpdate, NextOther, Update!StepInductive DEF UpdateInductive

(* Whatever is uploaded, installed or reset, the device keeps something    *)
(* whole to boot, reports what it did, and removes no interrupted work     *)
(* (bundle_storage.cpp, bundle_installer.cpp, bundle_boot.cpp).            *)
THEOREM DeviceUpdatesWhole == Spec => UpdatesWhole
<1>1. Init => UpdateInductive
  BY InitUpdate
<1>2. UpdateInductive /\ [Next]_vars => UpdateInductive'
  BY StepUpdate
<1>3. UpdateInductive => (subject = "bundle" => Update!TypeOK /\ Update!BootsComplete /\ Update!JobTrue)
  BY DeviceAssumption, Update!InductiveBootsComplete, Update!InductiveJobTrue DEF UpdateInductive, Update!Inductive
<1>4. UpdateInductive /\ [Next]_vars => [EvidenceStep]_vars
  BY DeviceAssumption, NextUpdate, Update!StepEvidence DEF UpdateInductive, EvidenceStep
<1>5. QED
  BY <1>1, <1>2, <1>3, <1>4, PTL DEF Spec, UpdatesWhole

(* The managed update of the device is the abstract one: bundles are       *)
(* published for good, applications mapped before they are selected.       *)
THEOREM DeviceImplementsManagedUpdate == Spec => ImplementsManagedUpdate
<1>1. Init => UpdateInductive
  BY InitUpdate
<1>2. UpdateInductive /\ [Next]_vars => UpdateInductive'
  BY StepUpdate
<1>3. Init => (subject = "bundle" => Update!Managed!Init)
  BY DeviceAssumption, Update!InitManaged DEF Init
<1>4. UpdateInductive /\ [Next]_vars => [ManagedStep]_(Update!Managed!vars)
  BY DeviceAssumption, NextUpdate, Update!StepManaged DEF UpdateInductive, ManagedStep
<1>5. QED
  BY <1>1, <1>2, <1>3, <1>4, PTL DEF Spec, ImplementsManagedUpdate

-----------------------------------------------------------------------------
(* The acceptance of a pending image                                       *)

\* The history of the last cycles is a bounded sequence.
LEMMA AcceptingRecentType ==
  ASSUME Accepting!AcceptanceAssumption
  PROVE  /\ recent \in Accepting!BoundedSeq(BOOLEAN, Needed)
              <=> recent \in Seq(BOOLEAN) /\ Len(recent) <= Needed
         /\ (recent \in Accepting!BoundedSeq(BOOLEAN, Needed))'
              <=> recent' \in Seq(BOOLEAN) /\ Len(recent') <= Needed
<1>1. ASSUME NEW s
      PROVE  s \in Accepting!BoundedSeq(BOOLEAN, Needed) <=> s \in Seq(BOOLEAN) /\ Len(s) <= Needed
  <2>1. ASSUME s \in Accepting!BoundedSeq(BOOLEAN, Needed) PROVE s \in Seq(BOOLEAN) /\ Len(s) <= Needed
    <3>1. PICK m \in 0..Needed : s \in [1..m -> BOOLEAN]
      BY <2>1 DEF Accepting!BoundedSeq, Accepting!SeqOf
    <3>2. QED
      BY <3>1 DEF Accepting!AcceptanceAssumption
  <2>2. ASSUME s \in Seq(BOOLEAN), Len(s) <= Needed PROVE s \in Accepting!BoundedSeq(BOOLEAN, Needed)
    <3>1. Len(s) \in 0..Needed /\ s \in [1..Len(s) -> BOOLEAN]
      BY <2>2 DEF Accepting!AcceptanceAssumption
    <3>2. QED
      BY <3>1 DEF Accepting!BoundedSeq, Accepting!SeqOf
  <2>3. QED
    BY <2>1, <2>2
<1>2. QED
  BY <1>1

\* A start satisfies the invariant: nothing counted, nothing held, no self-test reported.
LEMMA AcceptingInitInductive == Accepting!AcceptanceAssumption /\ Accepting!Init => Accepting!Inductive
<1> SUFFICES ASSUME Accepting!AcceptanceAssumption, Accepting!Init PROVE Accepting!Inductive
  OBVIOUS
<1> USE DEF Accepting!Init, Accepting!AcceptanceAssumption
<1>1. recent \in Accepting!BoundedSeq(BOOLEAN, Needed)
  BY AcceptingRecentType
<1>2. Accepting!TypeOK
  <2>1. /\ image \in {"pending", "valid"} /\ terminal \in Accepting!Terminals /\ pc \in Accepting!FlowSteps
        /\ started \in BOOLEAN /\ elapsed \in BOOLEAN /\ fresh \in BOOLEAN /\ readable \in BOOLEAN
    BY DEF Accepting!Terminals, Accepting!FlowSteps
  <2>5. streak \in 0..Needed
    OBVIOUS
  <2>2. /\ test \in [active : BOOLEAN, status : Accepting!Statuses] /\ outcome \in Accepting!Statuses
        /\ seen \in [passed : BOOLEAN, active : BOOLEAN, readable : BOOLEAN]
    BY DEF Accepting!Statuses, Accepting!NoEvidence
  <2>3. holder \in [Accepting!Guards -> {"free", "flow", "tester", "web"}]
    OBVIOUS
  <2>4. QED
    BY <1>1, <2>1, <2>2, <2>3, <2>5 DEF Accepting!TypeOK
<1>3. Accepting!StreakRecent
  BY DEF Accepting!StreakRecent
<1>4. Accepting!GuardsWhere
  BY DEF Accepting!GuardsWhere, Accepting!Guards, Accepting!HoldsAt
<1>5. Accepting!TestReported /\ Accepting!EvidenceStands
  BY DEF Accepting!TestReported, Accepting!OneReporter, Accepting!Testing, Accepting!TestStatuses,
       Accepting!EvidenceStands
<1>6. QED
  BY <1>2, <1>3, <1>4, <1>5 DEF Accepting!Inductive

\* A cycle that ends is remembered, and counted if it was accepted.
LEMMA AcceptingCycleCounted ==
  ASSUME Accepting!AcceptanceAssumption, Accepting!TypeOK, Accepting!StreakRecent, NEW ok \in BOOLEAN,
  Accepting!CycleEnds(ok)
  PROVE  recent' \in Seq(BOOLEAN) /\ Len(recent') <= Needed /\ streak' \in 0..Needed /\ Accepting!StreakRecent'
<1> DEFINE all == Append(recent, ok)
           Accepted(s, n) == \A i \in 1..Len(s) : i > Len(s) - n => s[i] = TRUE
<1>1. /\ Needed \in Nat \ {0} /\ streak \in 0..Needed /\ streak <= Len(recent)
      /\ recent \in Seq(BOOLEAN) /\ Len(recent) \in Nat /\ Len(recent) <= Needed
      /\ Accepted(recent, streak)
  BY AcceptingRecentType DEF Accepting!AcceptanceAssumption, Accepting!TypeOK, Accepting!StreakRecent
<1>2. /\ all \in Seq(BOOLEAN) /\ Len(all) = Len(recent) + 1 /\ all[Len(all)] = ok
      /\ \A i \in 1..Len(recent) : all[i] = recent[i]
  BY <1>1
<1>3. /\ streak' = IF ok THEN IF streak = Needed THEN Needed ELSE streak + 1 ELSE 0
      /\ recent' = IF Len(all) > Needed THEN Tail(all) ELSE all
  BY DEF Accepting!CycleEnds, Accepting!LastCycles
<1> HIDE DEF all
<1>4. streak' \in 0..Needed
  BY <1>1, <1>3
<1>5. ok = TRUE => Accepted(all, streak + 1)
  <2>1. SUFFICES ASSUME ok = TRUE, NEW i \in 1..Len(all), i > Len(all) - (streak + 1)
                 PROVE  all[i] = TRUE
    OBVIOUS
  <2>2. CASE i = Len(all)
    BY <1>2, <2>1, <2>2
  <2>3. CASE i # Len(all)
    <3>1. i \in 1..Len(recent) /\ i > Len(recent) - streak
      BY <1>1, <1>2, <2>1, <2>3
    <3>2. QED
      BY <1>1, <1>2, <3>1
  <2>4. QED
    BY <2>2, <2>3
<1>6. CASE Len(all) > Needed
  <2>1. /\ Len(all) = Needed + 1 /\ recent' = Tail(all)
        /\ recent' \in Seq(BOOLEAN) /\ Len(recent') = Needed
        /\ \A i \in 1..Needed : recent'[i] = all[i + 1]
    BY <1>1, <1>2, <1>3, <1>6
  <2>2. Accepted(recent', streak')
    <3>1. CASE ok = TRUE
      <4>1. SUFFICES ASSUME NEW i \in 1..Needed, i > Needed - streak' PROVE all[i + 1] = TRUE
        BY <2>1
      <4>2. i + 1 \in 1..Len(all) /\ i + 1 > Len(all) - (streak + 1)
        BY <1>1, <1>2, <1>3, <2>1, <3>1, <4>1
      <4>3. QED
        BY <1>5, <3>1, <4>2
    <3>2. CASE ok = FALSE
      <4>1. streak' = 0
        BY <1>3, <3>2
      <4>2. QED
        BY <1>1, <2>1, <4>1
    <3>3. QED
      BY <3>1, <3>2
  <2>3. QED
    BY <1>1, <1>4, <2>1, <2>2 DEF Accepting!StreakRecent
<1>7. CASE Len(all) <= Needed
  <2>1. recent' = all /\ Len(recent') = Len(recent) + 1
    BY <1>1, <1>2, <1>3, <1>7
  <2>2. streak' <= Len(recent') /\ Accepted(recent', streak')
    <3>1. CASE ok = TRUE
      <4>1. streak' = streak + 1
        BY <1>1, <1>2, <1>3, <1>7, <3>1
      <4>2. QED
        BY <1>1, <1>5, <2>1, <3>1, <4>1
    <3>2. CASE ok = FALSE
      <4>1. streak' = 0
        BY <1>3, <3>2
      <4>2. QED
        BY <1>1, <2>1, <4>1
    <3>3. QED
      BY <3>1, <3>2
  <2>3. QED
    BY <1>2, <1>4, <1>7, <2>1, <2>2 DEF Accepting!StreakRecent
<1>8. QED
  BY <1>1, <1>2, <1>4, <1>6, <1>7

\* Only the end of a cycle changes what is remembered of the cycles.
LEMMA AcceptingOnlyCycles == [Accepting!Next]_(Accepting!vars) => UNCHANGED <<streak,
recent>> \/ \E ok \in BOOLEAN : Accepting!CycleEnds(ok)
<1> SUFFICES ASSUME [Accepting!Next]_(Accepting!vars)
             PROVE  UNCHANGED <<streak, recent>> \/ \E ok \in BOOLEAN : Accepting!CycleEnds(ok)
  OBVIOUS
<1> USE DEF Accepting!cycles
<1>1. CASE Accepting!Flow
  BY <1>1 DEF Accepting!Flow, Accepting!Service, Accepting!Decide, Accepting!ReserveTest,
       Accepting!TestBegins, Accepting!TestRuns, Accepting!Tested, Accepting!Recheck, Accepting!Accept,
       Accepting!AcceptUpdate, Accepting!ObserveFresh, Accepting!Evaluate, Accepting!Mark, Accepting!CycleBegins
<1>2. CASE Accepting!Tester \/ Accepting!Environment \/ UNCHANGED Accepting!vars
  BY <1>2 DEF Accepting!Tester, Accepting!TesterStarts, Accepting!TesterCreationFails,
       Accepting!TesterBegins, Accepting!TesterRuns, Accepting!TesterReports,
       Accepting!Environment, Accepting!WebTakes, Accepting!WebGives, Accepting!SaveFails,
       Accepting!CaptureAges, Accepting!WindowElapses, Accepting!vars
<1> HIDE DEF Accepting!cycles
<1>3. QED
  BY <1>1, <1>2 DEF Accepting!Next

\* Every step keeps the types.
LEMMA AcceptingStepType == Accepting!AcceptanceAssumption /\ Accepting!Inductive /\ [Accepting!Next]_(Accepting!vars) => Accepting!TypeOK'
<1> SUFFICES ASSUME Accepting!AcceptanceAssumption, Accepting!Inductive, [Accepting!Next]_(Accepting!vars) PROVE Accepting!TypeOK'
  OBVIOUS
<1>1. streak' \in 0..Needed /\ (recent \in Accepting!BoundedSeq(BOOLEAN, Needed))'
  <2>1. ASSUME NEW ok \in BOOLEAN, Accepting!CycleEnds(ok)
        PROVE  streak' \in 0..Needed /\ (recent \in Accepting!BoundedSeq(BOOLEAN, Needed))'
    BY <2>1, AcceptingCycleCounted, AcceptingRecentType DEF Accepting!Inductive
  <2>2. CASE UNCHANGED <<streak, recent>>
    BY <2>2 DEF Accepting!Inductive, Accepting!TypeOK
  <2>3. QED
    BY <2>1, <2>2, AcceptingOnlyCycles
<1>2. Accepting!Observation \in [passed : BOOLEAN, active : BOOLEAN, readable : BOOLEAN]
  BY DEF Accepting!Observation, Accepting!Inductive, Accepting!TypeOK
<1>3. /\ image' \in {"pending", "valid"} /\ terminal' \in Accepting!Terminals
      /\ started' \in BOOLEAN /\ elapsed' \in BOOLEAN /\ fresh' \in BOOLEAN /\ readable' \in BOOLEAN
      /\ seen' \in [passed : BOOLEAN, active : BOOLEAN, readable : BOOLEAN] /\ pc' \in Accepting!FlowSteps
  <2> USE DEF Accepting!window, Accepting!cycles, Accepting!Terminals, Accepting!FlowSteps, Accepting!Return, Accepting!Finish
  <2>0. /\ image \in {"pending", "valid"} /\ terminal \in Accepting!Terminals
        /\ started \in BOOLEAN /\ elapsed \in BOOLEAN /\ fresh \in BOOLEAN /\ readable \in BOOLEAN
        /\ seen \in [passed : BOOLEAN, active : BOOLEAN, readable : BOOLEAN] /\ pc \in Accepting!FlowSteps
        /\ Accepting!NoEvidence \in [passed : BOOLEAN, active : BOOLEAN, readable : BOOLEAN]
    BY DEF Accepting!Inductive, Accepting!TypeOK, Accepting!NoEvidence
  <2>1. CASE Accepting!Service
    BY <1>2, <2>0, <2>1 DEF Accepting!Service
  <2>2. CASE Accepting!Decide
    <3>1. pc' \in {"cycle", "reserve", "accept"}
      BY <2>2 DEF Accepting!Decide
    <3>2. terminal' \in {terminal, "not_pending", "expired"} /\ (started' = started \/ started' = TRUE)
      BY <2>2 DEF Accepting!Decide
    <3>5. started' \in BOOLEAN
      BY <2>0, <3>2, Zenon
    <3>3. seen' = Accepting!NoEvidence /\ UNCHANGED <<image, elapsed, fresh, readable>>
      BY <2>2 DEF Accepting!Decide
    <3>4. QED
      BY <2>0, <3>1, <3>2, <3>3, <3>5
  <2>7. CASE Accepting!ReserveTest \/ Accepting!TestBegins \/ Accepting!Tested \/ Accepting!Recheck
    BY <2>0, <2>7 DEF Accepting!ReserveTest, Accepting!TestBegins, Accepting!Tested, Accepting!Recheck
  <2>8. CASE Accepting!Accept \/ Accepting!AcceptUpdate \/ Accepting!ObserveFresh \/ Accepting!CycleBegins
    BY <1>2, <2>0, <2>8 DEF Accepting!Accept, Accepting!AcceptUpdate, Accepting!ObserveFresh,
         Accepting!CycleBegins
  <2>9. CASE Accepting!Evaluate \/ Accepting!Mark
    <3>1. pc' \in {"mark", "cycle"} /\ terminal' \in {terminal, "accepted", "not_accepted"}
      BY <2>9 DEF Accepting!Evaluate, Accepting!Mark
    <3>2. image' \in {image, "pending", "valid"} /\ (seen' = seen \/ seen' = Accepting!NoEvidence)
      BY <2>9 DEF Accepting!Evaluate, Accepting!Mark
    <3>3. UNCHANGED <<started, elapsed, fresh, readable>>
      BY <2>9 DEF Accepting!Evaluate, Accepting!Mark
    <3>4. QED
      BY <2>0, <3>1, <3>2, <3>3
  <2>3. ASSUME NEW s \in Accepting!TestStatuses, Accepting!TestRuns(s)
        PROVE  UNCHANGED <<image, terminal, started, elapsed, fresh, readable, seen>> /\ pc' \in Accepting!FlowSteps
    BY <2>3 DEF Accepting!TestRuns
  <2>4. ASSUME NEW ok \in BOOLEAN, Accepting!CycleEnds(ok)
        PROVE  /\ UNCHANGED <<image, terminal, started, elapsed, readable, seen>>
               /\ fresh' \in BOOLEAN /\ pc' \in Accepting!FlowSteps
    <3>1. fresh' = (ok \/ fresh)
      BY <2>4 DEF Accepting!CycleEnds
    <3>2. fresh' \in BOOLEAN
      BY <3>1, Zenon
    <3>3. QED
      BY <2>4, <3>2 DEF Accepting!CycleEnds
  <2>5. CASE Accepting!Tester \/ Accepting!Environment \/ UNCHANGED Accepting!vars
    <3>1. CASE Accepting!Tester
      BY <2>0, <3>1 DEF Accepting!Tester, Accepting!TesterStarts, Accepting!TesterCreationFails,
           Accepting!TesterBegins, Accepting!TesterRuns,
           Accepting!TesterReports
    <3>2. CASE Accepting!Environment
      <4>1. UNCHANGED <<image, terminal, started, seen, pc>>
        BY <3>2 DEF Accepting!Environment, Accepting!WebTakes, Accepting!WebGives, Accepting!SaveFails,
             Accepting!CaptureAges, Accepting!WindowElapses
      <4>2. /\ elapsed' = elapsed \/ elapsed' = TRUE
            /\ fresh' = fresh \/ fresh' = FALSE
            /\ readable' = readable \/ readable' = FALSE
        BY <3>2 DEF Accepting!Environment, Accepting!WebTakes, Accepting!WebGives, Accepting!SaveFails,
             Accepting!CaptureAges, Accepting!WindowElapses
      <4>3. elapsed' \in BOOLEAN /\ fresh' \in BOOLEAN /\ readable' \in BOOLEAN
        BY <2>0, <4>2, Zenon
      <4>4. QED
        BY <2>0, <4>1, <4>3
    <3>3. CASE UNCHANGED Accepting!vars
      BY <2>0, <3>3 DEF Accepting!vars
    <3>4. QED
      BY <2>5, <3>1, <3>2, <3>3
  <2> HIDE DEF Accepting!window, Accepting!cycles, Accepting!Terminals, Accepting!FlowSteps, Accepting!Return, Accepting!Finish
  <2>10. QED
    BY <2>0, <2>1, <2>2, <2>3, <2>4, <2>5, <2>7, <2>8, <2>9 DEF Accepting!Next, Accepting!Flow
<1>4. /\ test' \in [active : BOOLEAN, status : Accepting!Statuses] /\ outcome' \in Accepting!Statuses
      /\ tester' \in {"idle", "queued", "running"} \cup Accepting!TestStatuses
      /\ ran' \in Accepting!TestStatuses \cup {"not_run"}
  <2> USE DEF Accepting!tests, Accepting!Statuses, Accepting!TestStatuses
  <2>0. /\ test \in [active : BOOLEAN, status : Accepting!Statuses] /\ outcome \in Accepting!Statuses
        /\ tester \in {"idle", "queued", "running"} \cup Accepting!TestStatuses
        /\ ran \in Accepting!TestStatuses \cup {"not_run"} /\ Accepting!BusyStatus \in Accepting!Statuses
    BY DEF Accepting!Inductive, Accepting!TypeOK, Accepting!BusyStatus
  <2>5. \A a \in BOOLEAN, s \in Accepting!Statuses :
          [active |-> a, status |-> s] \in [active : BOOLEAN, status : Accepting!Statuses]
    OBVIOUS
  <2>1. CASE Accepting!Flow
    <3>1. CASE Accepting!ReserveTest \/ Accepting!TestBegins \/ Accepting!Tested \/ \E s \in Accepting!TestStatuses : Accepting!TestRuns(s)
      <4>1. CASE Accepting!ReserveTest
        <5>1. test' = test \/ test' = [active |-> TRUE, status |-> "not_run"]
          BY <4>1 DEF Accepting!ReserveTest
        <5>2. test' \in [active : BOOLEAN, status : Accepting!Statuses]
          BY <2>0, <2>5, <5>1
        <5>3. QED
          BY <2>0, <4>1, <5>2 DEF Accepting!ReserveTest
      <4>2. CASE Accepting!TestBegins
        BY <2>0, <4>2 DEF Accepting!TestBegins
      <4>3. CASE Accepting!Tested
        BY <2>0, <4>3 DEF Accepting!Tested
      <4>4. ASSUME NEW s \in Accepting!TestStatuses, Accepting!TestRuns(s)
            PROVE  outcome' = s /\ ran' = s /\ UNCHANGED <<test, tester>>
        BY <4>4 DEF Accepting!TestRuns
      <4>5. QED
        BY <2>0, <3>1, <4>1, <4>2, <4>3, <4>4
    <3>2. CASE ~(Accepting!ReserveTest \/ Accepting!TestBegins \/ Accepting!Tested \/ \E s \in Accepting!TestStatuses : Accepting!TestRuns(s))
      <4>1. UNCHANGED Accepting!tests
        BY <2>1, <3>2 DEF Accepting!Flow, Accepting!Service, Accepting!Decide, Accepting!Recheck,
             Accepting!Accept, Accepting!AcceptUpdate, Accepting!ObserveFresh, Accepting!Evaluate,
             Accepting!Mark, Accepting!CycleBegins, Accepting!CycleEnds
      <4>2. QED
        BY <2>0, <4>1
    <3>3. QED
      BY <3>1, <3>2
  <2>2. CASE Accepting!Tester
    <3>1. CASE Accepting!TesterStarts \/ Accepting!TesterCreationFails
      <4>1. \/ test' = [active |-> TRUE, status |-> "queued_or_running"]
            \/ test' = [active |-> FALSE, status |-> "task_creation_failed"]
        BY <3>1 DEF Accepting!TesterStarts, Accepting!TesterCreationFails, Accepting!TesterEnds
      <4>2. tester' \in {"queued", "idle"} /\ UNCHANGED <<outcome, ran>>
        BY <3>1 DEF Accepting!TesterStarts, Accepting!TesterCreationFails, Accepting!TesterEnds
      <4>3. test' \in [active : BOOLEAN, status : Accepting!Statuses]
        BY <2>5, <4>1
      <4>4. QED
        BY <2>0, <4>2, <4>3
    <3>2. CASE Accepting!TesterBegins
      <4>1. test' = test \/ test' = [active |-> FALSE, status |-> Accepting!BusyStatus]
        BY <3>2 DEF Accepting!TesterBegins, Accepting!TesterEnds
      <4>2. tester' \in {"running", "idle"} /\ UNCHANGED <<outcome, ran>>
        BY <3>2 DEF Accepting!TesterBegins, Accepting!TesterEnds
      <4>3. test' \in [active : BOOLEAN, status : Accepting!Statuses]
        BY <2>0, <2>5, <4>1
      <4>4. QED
        BY <2>0, <4>2, <4>3
    <3>3. ASSUME NEW s \in Accepting!TestStatuses, Accepting!TesterRuns(s) PROVE ran' = s /\ tester' = s /\ UNCHANGED <<test, outcome>>
      BY <3>3 DEF Accepting!TesterRuns
    <3>4. CASE Accepting!TesterReports
      BY <2>0, <3>4 DEF Accepting!TesterReports, Accepting!TesterEnds
    <3>5. QED
      BY <2>0, <2>2, <3>1, <3>2, <3>3, <3>4 DEF Accepting!Tester
  <2>3. CASE Accepting!Environment \/ UNCHANGED Accepting!vars
    BY <2>0, <2>3 DEF Accepting!Environment, Accepting!WebTakes, Accepting!WebGives, Accepting!SaveFails,
         Accepting!CaptureAges, Accepting!WindowElapses, Accepting!vars
  <2> HIDE DEF Accepting!tests, Accepting!Statuses, Accepting!TestStatuses
  <2>4. QED
    BY <2>1, <2>2, <2>3 DEF Accepting!Next
<1>5. holder' \in [Accepting!Guards -> {"free", "flow", "tester", "web"}]
  <2> USE DEF Accepting!guards, Accepting!Give, Accepting!Take
  <2>0. holder \in [Accepting!Guards -> {"free", "flow", "tester", "web"}]
    BY DEF Accepting!Inductive, Accepting!TypeOK
  <2>1. CASE Accepting!Flow
    BY <2>0, <2>1 DEF Accepting!Flow, Accepting!Service, Accepting!Decide, Accepting!ReserveTest,
         Accepting!TestBegins, Accepting!TestRuns, Accepting!Tested, Accepting!Recheck, Accepting!Accept,
         Accepting!AcceptUpdate, Accepting!ObserveFresh, Accepting!Evaluate, Accepting!Mark,
         Accepting!CycleBegins, Accepting!CycleEnds
  <2>2. CASE Accepting!Tester
    BY <2>0, <2>2 DEF Accepting!Tester, Accepting!TesterStarts, Accepting!TesterCreationFails,
         Accepting!TesterBegins, Accepting!TesterRuns, Accepting!TesterReports
  <2>3. CASE Accepting!Environment \/ UNCHANGED Accepting!vars
    BY <2>0, <2>3 DEF Accepting!Environment, Accepting!WebTakes, Accepting!WebGives, Accepting!SaveFails,
         Accepting!CaptureAges, Accepting!WindowElapses, Accepting!vars
  <2> HIDE DEF Accepting!guards, Accepting!Give, Accepting!Take
  <2>4. QED
    BY <2>1, <2>2, <2>3 DEF Accepting!Next
<1>6. QED
  BY <1>1, <1>3, <1>4, <1>5 DEF Accepting!TypeOK

-----------------------------------------------------------------------------
(* Who holds what                                                          *)

\* Who is at a step that holds a guard holds it, and nobody else.
LEMMA AcceptingStepGuardsWhere == Accepting!Inductive /\ [Accepting!Next]_(Accepting!vars) => Accepting!GuardsWhere'
<1> SUFFICES ASSUME Accepting!Inductive, [Accepting!Next]_(Accepting!vars) PROVE Accepting!GuardsWhere'
  OBVIOUS
<1> USE DEF Accepting!guards, Accepting!Give, Accepting!Take, Accepting!Guards, Accepting!HoldsAt, Accepting!Free, Accepting!Return, Accepting!Finish, Accepting!GuardsWhere
<1>1. /\ holder \in [Accepting!Guards -> {"free", "flow", "tester", "web"}] /\ Accepting!GuardsWhere
      /\ tester \in {"idle", "queued", "running", "all_output_bytes_match", "mismatch"}
  BY DEF Accepting!Inductive, Accepting!TypeOK, Accepting!TestStatuses
<1>2. CASE Accepting!Service \/ Accepting!Decide \/ Accepting!ReserveTest \/ Accepting!Tested \/ Accepting!Recheck \/ Accepting!ObserveFresh
  <2>1. UNCHANGED <<holder, tester>>
    BY <1>2 DEF Accepting!Service, Accepting!Decide, Accepting!ReserveTest, Accepting!Tested,
         Accepting!Recheck, Accepting!ObserveFresh, Accepting!tests
  <2>2. \A g \in Accepting!Guards : pc' \in Accepting!HoldsAt[g] <=> pc \in Accepting!HoldsAt[g]
    BY <1>2 DEF Accepting!Service, Accepting!Decide, Accepting!ReserveTest, Accepting!Tested,
         Accepting!Recheck, Accepting!ObserveFresh
  <2>3. QED
    BY <1>1, <2>1, <2>2
<1>3. CASE Accepting!TestBegins
  BY <1>1, <1>3 DEF Accepting!TestBegins, Accepting!BothFree
<1>4. ASSUME NEW s \in Accepting!TestStatuses, Accepting!TestRuns(s) PROVE Accepting!GuardsWhere'
  BY <1>1, <1>4 DEF Accepting!TestRuns
<1>5. CASE Accepting!Accept \/ Accepting!CycleBegins
  BY <1>1, <1>5 DEF Accepting!Accept, Accepting!CycleBegins, Accepting!tests
<1>6. CASE Accepting!AcceptUpdate
  BY <1>1, <1>6 DEF Accepting!AcceptUpdate, Accepting!tests
<1>7. CASE Accepting!Evaluate \/ Accepting!Mark
  BY <1>1, <1>7 DEF Accepting!Evaluate, Accepting!Mark, Accepting!tests
<1>8. ASSUME NEW ok \in BOOLEAN, Accepting!CycleEnds(ok) PROVE Accepting!GuardsWhere'
  BY <1>1, <1>8 DEF Accepting!CycleEnds, Accepting!tests
<1>9. CASE Accepting!TesterStarts \/ Accepting!TesterCreationFails \/ Accepting!TesterReports
  BY <1>1, <1>9 DEF Accepting!TesterStarts, Accepting!TesterCreationFails, Accepting!TesterReports,
       Accepting!TesterEnds, Accepting!Statuses
<1>10. CASE Accepting!TesterBegins
  BY <1>1, <1>10 DEF Accepting!TesterBegins, Accepting!TesterEnds, Accepting!BothFree
<1>11. ASSUME NEW s \in Accepting!TestStatuses, Accepting!TesterRuns(s) PROVE Accepting!GuardsWhere'
  BY <1>1, <1>11 DEF Accepting!TesterRuns, Accepting!TestStatuses
<1>12. ASSUME NEW g \in Accepting!Guards, Accepting!WebTakes(g) \/ Accepting!WebGives(g) PROVE Accepting!GuardsWhere'
  BY <1>1, <1>12 DEF Accepting!WebTakes, Accepting!WebGives, Accepting!tests
<1>13. CASE Accepting!SaveFails \/ Accepting!CaptureAges \/ Accepting!WindowElapses \/ UNCHANGED Accepting!vars
  BY <1>1, <1>13 DEF Accepting!SaveFails, Accepting!CaptureAges, Accepting!WindowElapses, Accepting!tests,
       Accepting!vars
<1> HIDE DEF Accepting!guards, Accepting!Give, Accepting!Take, Accepting!Guards, Accepting!HoldsAt, Accepting!Free, Accepting!Return, Accepting!Finish, Accepting!GuardsWhere
<1>14. QED
  BY <1>2, <1>3, <1>4, <1>5, <1>6, <1>7, <1>8, <1>9, <1>10, <1>11, <1>12, <1>13
     DEF Accepting!Next, Accepting!Flow, Accepting!Tester, Accepting!Environment

\* What a self-test found stays the last result while the evidence is looked at.
LEMMA AcceptingStepReported == Accepting!Inductive /\ [Accepting!Next]_(Accepting!vars) => Accepting!TestReported' /\ Accepting!EvidenceStands'
<1> SUFFICES ASSUME Accepting!Inductive, [Accepting!Next]_(Accepting!vars) PROVE Accepting!TestReported' /\ Accepting!EvidenceStands'
  OBVIOUS
<1> USE DEF Accepting!Testing, Accepting!TestStatuses, Accepting!Return, Accepting!Finish, Accepting!OneReporter, Accepting!TestReported, Accepting!EvidenceStands
<1> DEFINE passed == "all_output_bytes_match"
<1>1. /\ test \in [active : BOOLEAN, status : Accepting!Statuses] /\ Accepting!TestReported /\ Accepting!EvidenceStands
      /\ tester \in {"idle", "queued", "running", passed, "mismatch"}
      /\ (tester = "running" => pc \notin {"fresh", "evaluate", "mark"})
      /\ (pc \in {"fresh", "evaluate", "mark"} => ~Accepting!Free("processing"))
      /\ (pc = "testing" => tester = "idle")
  BY DEF Accepting!Inductive, Accepting!TypeOK, Accepting!GuardsWhere, Accepting!HoldsAt, Accepting!Guards,
       Accepting!Free
<1>2. CASE Accepting!Service \/ Accepting!Decide \/ Accepting!Recheck \/ Accepting!Accept \/ Accepting!AcceptUpdate \/ Accepting!CycleBegins
  <2>1. UNCHANGED Accepting!tests /\ pc' \notin {"evaluate", "mark", "tested"} \cup Accepting!Testing /\ pc \notin Accepting!Testing
    BY <1>2 DEF Accepting!Service, Accepting!Decide, Accepting!Recheck, Accepting!Accept,
         Accepting!AcceptUpdate, Accepting!CycleBegins
  <2>2. QED
    BY <1>1, <2>1 DEF Accepting!tests
<1>3. CASE Accepting!ReserveTest
  BY <1>1, <1>3 DEF Accepting!ReserveTest
<1>4. CASE Accepting!TestBegins
  BY <1>1, <1>4 DEF Accepting!TestBegins, Accepting!BusyStatus
<1>5. ASSUME NEW s \in Accepting!TestStatuses, Accepting!TestRuns(s) PROVE Accepting!TestReported' /\ Accepting!EvidenceStands'
  BY <1>1, <1>5 DEF Accepting!TestRuns
<1>6. CASE Accepting!Tested
  BY <1>1, <1>6 DEF Accepting!Tested
<1>7. CASE Accepting!ObserveFresh
  <2>1. /\ UNCHANGED Accepting!tests /\ pc = "fresh" /\ pc' = "evaluate"
        /\ seen'.passed => test.status = passed
    BY <1>7 DEF Accepting!ObserveFresh, Accepting!Observation
  <2>2. QED
    BY <1>1, <2>1 DEF Accepting!tests
<1>8. CASE Accepting!Evaluate
  <2>1. /\ UNCHANGED Accepting!tests /\ UNCHANGED streak /\ pc = "evaluate" /\ pc' \in {"mark", "cycle"}
        /\ pc' = "mark" => seen.passed /\ streak >= Needed
    BY <1>8 DEF Accepting!Evaluate, Accepting!Ready, Accepting!cycles
  <2>2. QED
    BY <1>1, <2>1 DEF Accepting!tests
<1>9. CASE Accepting!Mark
  BY <1>1, <1>9 DEF Accepting!Mark, Accepting!tests
<1>10. ASSUME NEW ok \in BOOLEAN, Accepting!CycleEnds(ok) PROVE Accepting!TestReported' /\ Accepting!EvidenceStands'
  BY <1>1, <1>10 DEF Accepting!CycleEnds, Accepting!tests
<1>11. CASE Accepting!TesterStarts
  BY <1>1, <1>11 DEF Accepting!TesterStarts, Accepting!cycles
<1>12. CASE Accepting!TesterCreationFails
  BY <1>1, <1>12 DEF Accepting!TesterCreationFails, Accepting!TesterEnds, Accepting!cycles
<1>13. CASE Accepting!TesterBegins
  BY <1>1, <1>13 DEF Accepting!TesterBegins, Accepting!TesterEnds, Accepting!BusyStatus, Accepting!cycles
<1>14. ASSUME NEW s \in Accepting!TestStatuses, Accepting!TesterRuns(s) PROVE Accepting!TestReported' /\ Accepting!EvidenceStands'
  BY <1>1, <1>14 DEF Accepting!TesterRuns, Accepting!cycles
<1>15. CASE Accepting!TesterReports
  BY <1>1, <1>15 DEF Accepting!TesterReports, Accepting!TesterEnds, Accepting!cycles, Accepting!Statuses
<1>16. CASE Accepting!Environment \/ UNCHANGED Accepting!vars
  <2>1. UNCHANGED <<Accepting!tests, pc, seen, streak>>
    BY <1>16 DEF Accepting!Environment, Accepting!WebTakes, Accepting!WebGives, Accepting!SaveFails,
         Accepting!CaptureAges, Accepting!WindowElapses, Accepting!cycles, Accepting!vars
  <2>2. QED
    BY <1>1, <2>1 DEF Accepting!tests
<1> HIDE DEF Accepting!Testing, Accepting!TestStatuses, Accepting!Return, Accepting!Finish, Accepting!OneReporter, Accepting!TestReported, Accepting!EvidenceStands
<1>17. QED
  BY <1>2, <1>3, <1>4, <1>5, <1>6, <1>7, <1>8, <1>9, <1>10, <1>11, <1>12, <1>13, <1>14, <1>15, <1>16
     DEF Accepting!Next, Accepting!Flow, Accepting!Tester

\* The streak counts the accepted cycles the history ends with.
LEMMA AcceptingStepStreak == Accepting!AcceptanceAssumption /\ Accepting!Inductive /\ [Accepting!Next]_(Accepting!vars) => Accepting!StreakRecent'
<1> SUFFICES ASSUME Accepting!AcceptanceAssumption, Accepting!Inductive, [Accepting!Next]_(Accepting!vars) PROVE Accepting!StreakRecent'
  OBVIOUS
<1>1. ASSUME NEW ok \in BOOLEAN, Accepting!CycleEnds(ok) PROVE Accepting!StreakRecent'
  BY <1>1, AcceptingCycleCounted DEF Accepting!Inductive
<1>2. CASE UNCHANGED <<streak, recent>>
  BY <1>2 DEF Accepting!Inductive, Accepting!StreakRecent
<1>3. QED
  BY <1>1, <1>2, AcceptingOnlyCycles

\* Every step of the flow, the tester and their surroundings keeps the invariant.
LEMMA AcceptingStepInductive == Accepting!AcceptanceAssumption /\ Accepting!Inductive /\ [Accepting!Next]_(Accepting!vars) => Accepting!Inductive'
  BY AcceptingStepType, AcceptingStepStreak, AcceptingStepGuardsWhere,
       AcceptingStepReported DEF Accepting!Inductive

\* Where everybody has returned, nothing is held.
LEMMA AcceptingInductiveNothingHeld == Accepting!Inductive => Accepting!NothingHeld
  BY DEF Accepting!Inductive, Accepting!NothingHeld, Accepting!GuardsReturned, Accepting!GuardsWhere,
       Accepting!HoldsAt, Accepting!Guards, Accepting!TestReported

\* The image becomes valid in one place, and the evidence stands there.
LEMMA AcceptingStepAcceptance == Accepting!AcceptanceAssumption /\ Accepting!Inductive /\ [Accepting!Next]_(Accepting!vars) => Accepting!AcceptanceStep
<1> SUFFICES ASSUME Accepting!AcceptanceAssumption, Accepting!Inductive, [Accepting!Next]_(Accepting!vars), image = "pending", image' = "valid"
             PROVE  /\ Len(recent) = Needed /\ \A i \in 1..Needed : recent[i]
                    /\ ran = "all_output_bytes_match"
  BY DEF Accepting!AcceptanceStep
<1>1. Accepting!Mark
  <2>1. CASE Accepting!Flow /\ ~Accepting!Mark
    BY <2>1 DEF Accepting!Flow, Accepting!Service, Accepting!Decide, Accepting!ReserveTest,
         Accepting!TestBegins, Accepting!TestRuns, Accepting!Tested, Accepting!Recheck, Accepting!Accept,
         Accepting!AcceptUpdate, Accepting!ObserveFresh, Accepting!Evaluate, Accepting!CycleBegins,
         Accepting!CycleEnds
  <2>2. CASE Accepting!Tester \/ Accepting!Environment \/ UNCHANGED Accepting!vars
    BY <2>2 DEF Accepting!Tester, Accepting!TesterStarts, Accepting!TesterCreationFails,
         Accepting!TesterBegins, Accepting!TesterRuns, Accepting!TesterReports,
         Accepting!Environment, Accepting!WebTakes, Accepting!WebGives, Accepting!SaveFails,
         Accepting!CaptureAges, Accepting!WindowElapses, Accepting!vars
  <2>3. QED
    BY <2>1, <2>2 DEF Accepting!Next
<1>2. ran = "all_output_bytes_match" /\ streak >= Needed
  BY <1>1 DEF Accepting!Mark, Accepting!Inductive, Accepting!EvidenceStands
<1>3. /\ recent \in Seq(BOOLEAN) /\ Len(recent) <= Needed /\ streak \in 0..Needed /\ Needed \in Nat
      /\ streak <= Len(recent) /\ \A i \in 1..Len(recent) : i > Len(recent) - streak => recent[i] = TRUE
  BY AcceptingRecentType DEF Accepting!Inductive, Accepting!TypeOK, Accepting!StreakRecent,
       Accepting!AcceptanceAssumption
<1>4. Len(recent) = Needed /\ streak = Needed
  BY <1>2, <1>3
<1>5. ASSUME NEW i \in 1..Needed PROVE recent[i]
  <2>1. recent[i] = TRUE
    BY <1>3, <1>4
  <2>2. QED
    BY <2>1
<1>6. QED
  BY <1>2, <1>4, <1>5

\* The inductive invariant of ImageAcceptance, of the behaviours about a pending image.
AcceptingInductive == subject = "acceptance" => Accepting!Inductive

\* A run about a pending image starts as ImageAcceptance does.
LEMMA InitAccepting == Init => AcceptingInductive
  BY DeviceAssumption, AcceptingInitInductive DEF Init, AcceptingInductive

\* While the subject is a pending image, a step of the device is a step of ImageAcceptance.
LEMMA NextAccepting ==
  [Next]_vars /\ subject = "acceptance" => subject' = "acceptance" /\ [Accepting!Next]_(Accepting!vars)
<1>1. ASSUME Next, subject = "acceptance" PROVE subject' = "acceptance" /\ [Accepting!Next]_(Accepting!vars)
  BY <1>1 DEF Next
<1>2. ASSUME UNCHANGED vars PROVE subject' = subject /\ UNCHANGED Accepting!vars
  BY <1>2 DEF vars, acceptanceVars, Accepting!vars, Accepting!window, Accepting!tests, Accepting!cycles,
       Accepting!guards
<1>3. QED
  BY <1>1, <1>2

\* The invariant of ImageAcceptance is one of the composition.
LEMMA StepAccepting == AcceptingInductive /\ [Next]_vars => AcceptingInductive'
  BY DeviceAssumption, NextAccepting, NextOther, AcceptingStepInductive DEF AcceptingInductive

(* A pending image is accepted only on evidence that still stands, and     *)
(* whatever path a round or a self-test leaves by, it keeps neither a      *)
(* guard nor the self-test slot (acceptHealthyManagedImage,                *)
(* runPolarRuntimeTest, servicePendingImage).                              *)
THEOREM DeviceAcceptsOnEvidence == Spec => AcceptedOnEvidence
<1>1. Init => AcceptingInductive
  BY InitAccepting
<1>2. AcceptingInductive /\ [Next]_vars => AcceptingInductive'
  BY StepAccepting
<1>3. AcceptingInductive => (subject = "acceptance" => Accepting!TypeOK /\ Accepting!NothingHeld)
  BY AcceptingInductiveNothingHeld DEF AcceptingInductive, Accepting!Inductive
<1>4. AcceptingInductive /\ [Next]_vars => [AcceptanceStep]_vars
  BY DeviceAssumption, NextAccepting, AcceptingStepAcceptance DEF AcceptingInductive, AcceptanceStep
<1>5. QED
  BY <1>1, <1>2, <1>3, <1>4, PTL DEF Spec, AcceptedOnEvidence

-----------------------------------------------------------------------------
(* The pins for general use                                                *)

\* What is put at the end of a queue is its last element.
LEMMA PinAppended ==
  ASSUME NEW S, NEW s \in Seq(S), NEW e \in S
  PROVE  LET t == Append(s, e) IN
         t \in Seq(S) /\ t # <<>> /\ Len(t) = Len(s) + 1 /\ t[Len(t)] = e
  OBVIOUS

\* A queue is empty when nothing is in it.
LEMMA PinEmptied ==
  ASSUME NEW S, NEW s \in Seq(S)
  PROVE  s = <<>> <=> Len(s) = 0
  OBVIOUS

\* Taking the first element leaves the last one, unless it was the only one.
LEMMA PinTaken ==
  ASSUME NEW S, NEW s \in Seq(S), s # <<>>
  PROVE  LET t == Tail(s) IN
         /\ Head(s) \in S /\ t \in Seq(S) /\ Len(t) = Len(s) - 1
         /\ t # <<>> => t[Len(t)] = s[Len(s)]
         /\ t = <<>> => s[Len(s)] = Head(s)
<1>1. Len(s) \in Nat /\ Len(s) >= 1 /\ Head(s) = s[1]
  OBVIOUS
<1>2. Tail(s) \in Seq(S) /\ Len(Tail(s)) = Len(s) - 1
     /\ \A i \in 1 .. Len(s) - 1 : Tail(s)[i] = s[i + 1]
  OBVIOUS
<1>3. CASE Len(s) = 1
  <2>1. Tail(s) = <<>>
    <3>1. Len(Tail(s)) = 0
      BY <1>2, <1>3
    <3>2. QED
      BY <1>2, <3>1, PinEmptied
  <2>2. QED
    BY <1>1, <1>2, <1>3, <2>1
<1>4. CASE Len(s) > 1
  <2>1. Len(Tail(s)) \in 1 .. Len(s) - 1 /\ Tail(s) # <<>>
    <3>1. Len(Tail(s)) \in 1 .. Len(s) - 1
      BY <1>1, <1>2, <1>4
    <3>2. Len(Tail(s)) # 0
      BY <1>1, <1>2, <1>4
    <3>3. QED
      BY <1>2, <3>1, <3>2, PinEmptied
  <2>2. Tail(s)[Len(Tail(s))] = s[Len(s)]
    BY <1>1, <1>2, <2>1
  <2>3. QED
    BY <1>1, <1>2, <2>1, <2>2
<1>5. QED
  BY <1>1, <1>3, <1>4

\* What the broker has is told, and comes back last unless it is lost.
LEMMA PinTold ==
  ASSUME Pin!GpioAssumption, Pin!TypeOK, NEW value \in Pin!Levels, Pin!Told(value)
  PROVE  /\ lost' \in BOOLEAN /\ told' = value
         /\ echo' \in Seq(Pin!Levels) /\ Len(echo') <= Pending
         /\ session # "listening" => echo' = echo
         /\ ~lost' => echo' # <<>> /\ echo'[Len(echo')] = value
<1> USE DEF Pin!TypeOK, Pin!GpioAssumption
<1>1. ASSUME session = "listening", Len(echo) < Pending, echo' = Append(echo, value), lost' = FALSE, told' = value
      PROVE  /\ lost' \in BOOLEAN /\ echo' \in Seq(Pin!Levels) /\ Len(echo') <= Pending
             /\ echo' # <<>> /\ echo'[Len(echo')] = value
  <2>1. echo' \in Seq(Pin!Levels) /\ echo' # <<>> /\ Len(echo') = Len(echo) + 1
       /\ echo'[Len(echo')] = value
    BY <1>1, PinAppended
  <2>2. Len(echo) \in Nat /\ Len(echo') <= Pending
    BY <1>1, <2>1
  <2>3. QED
    BY <1>1, <2>1, <2>2
<1>2. QED
  BY <1>1 DEF Pin!Told

\* What is published of a pin that has been read is told of that pin only.
LEMMA PinPublished ==
  ASSUME Pin!GpioAssumption, Pin!TypeOK,
         NEW read, read.pin \in Pin!Pins, read.new \in Pin!Levels, Pin!PublishRead(read)
  PROVE  /\ lost' \in BOOLEAN /\ told' \in Pin!Levels \union {Pin!Unknown}
         /\ echo' \in Seq(Pin!Levels) /\ Len(echo') <= Pending
         /\ session # "listening" => echo' = echo
         /\ ~lost' => \/ read.pin = "watched" /\ ~lost /\ told' = told /\ echo' = echo
                      \/ read.pin = "output" /\ echo' # <<>> /\ told' = echo'[Len(echo')]
<1>1. CASE read.pin = "output" /\ Pin!Told(read.new)
  BY <1>1, PinTold
<1>2. CASE lost' = TRUE /\ UNCHANGED <<told, echo>>
  BY <1>2 DEF Pin!TypeOK
<1>3. CASE read.pin = "watched" /\ UNCHANGED Pin!messages
  BY <1>3 DEF Pin!TypeOK, Pin!messages
<1>4. QED
  BY <1>1, <1>2, <1>3 DEF Pin!PublishRead, Pin!Publish

\* What has been read of a pin is kept, if it is still the same pin.
LEMMA PinKept ==
  ASSUME Pin!TypeOK, NEW read, read.pin \in Pin!Pins, read.new \in Pin!Levels,
         state' = Pin!Kept(read)
  PROVE  /\ state' \in [Pin!Pins -> Pin!Levels \union {Pin!Unknown}]
         /\ read.from # pins => state' = state
         /\ read.from = pins => state'[read.pin] = read.new
         /\ \A p \in Pin!Pins \ {read.pin} : state'[p] = state[p]
  BY DEF Pin!TypeOK, Pin!Kept

\* No pins, no levels known, nothing under way.
LEMMA PinInitInductive == Pin!GpioAssumption /\ Pin!Init => Pin!Inductive
<1> SUFFICES ASSUME Pin!GpioAssumption, Pin!Init PROVE Pin!Inductive
  OBVIOUS
<1> USE DEF Pin!GpioAssumption, Pin!Init, Pin!Pins, Pin!Levels, Pin!Unknown, Pin!At, Pin!Greeters
<1>1. Pin!TypeOK
  <2>1. 0 \in 0 .. Inits /\ Len(queue) = 0 /\ Len(echo) = 0 /\ 0 <= QueueLimit /\ 0 <= Pending
    OBVIOUS
  <2>2. Pin!At("no") \in Pin!Reads /\ Pin!At("none") \in Pin!Reads
    BY <2>1 DEF Pin!Reads
  <2>3. /\ greeting \in [Pin!Greeters -> Pin!Reads] /\ task \in Pin!Reads /\ http \in Pin!Reads
        /\ level \in [Pin!Pins -> Pin!Levels] /\ state \in [Pin!Pins -> Pin!Levels \union {Pin!Unknown}]
    BY <2>2
  <2>4. queue \in Seq(Pin!Levels) /\ echo \in Seq(Pin!Levels)
    OBVIOUS
  <2>5. QED
    BY <2>1, <2>3, <2>4 DEF Pin!TypeOK
<1>2. Pin!Underway /\ Pin!PinsStand
  BY DEF Pin!Underway, Pin!PinsStand
<1>3. Pin!WatchStands /\ Pin!OutputStands
  BY DEF Pin!WatchStands, Pin!OutputStands, Pin!Keeps
<1>4. QED
  BY <1>1, <1>2, <1>3 DEF Pin!Inductive

\* What has been read of nothing.
LEMMA PinAtType ==
  ASSUME Pin!GpioAssumption, NEW at \in {"none", "queue", "publish", "no", "set", "due", "greet", "subscribe"}
  PROVE  Pin!At(at) \in Pin!Reads /\ Pin!At(at).at = at
  BY DEF Pin!At, Pin!Reads, Pin!GpioAssumption, Pin!Pins, Pin!Levels, Pin!Unknown

\* What has been read of a pin.
LEMMA PinReadType ==
  ASSUME Pin!TypeOK, NEW at \in {"none", "queue", "publish", "no", "set", "due", "greet", "subscribe"},
         NEW p \in Pin!Pins, NEW value \in Pin!Levels
  PROVE  LET read == Pin!Read(at, p, value) IN
         read \in Pin!Reads /\ read.at = at /\ read.pin = p /\ read.from = pins /\ read.new = value
  BY DEF Pin!Read, Pin!Reads, Pin!TypeOK

\* The pins are taken away with what is known of them.
LEMMA PinClearKeeps == Pin!GpioAssumption /\ Pin!Inductive /\ Pin!Clear => Pin!Inductive'
<1> SUFFICES ASSUME Pin!GpioAssumption, Pin!Inductive, Pin!Clear PROVE Pin!Inductive'
  OBVIOUS
<1> USE DEF Pin!Clear, Pin!ResetPin, Pin!Inductive
<1>1. /\ pins' = 0 /\ inits' \in 1 .. Inits /\ inits' > inits /\ flow' = "make" /\ hooked' = FALSE
      /\ state' = [p \in Pin!Pins |-> Pin!Unknown]
      /\ level' \in [Pin!Pins -> Pin!Levels] /\ level'["watched"] = level["watched"]
      /\ UNCHANGED <<latch, handler, greets, session, greeting, queue, task, http, told, echo, lost, missed>>
  BY DEF Pin!TypeOK, Pin!GpioAssumption, Pin!client, Pin!messages, Pin!Pins
<1>2. 0 \in 0 .. Inits /\ inits' \in 0 .. Inits /\ state' \in [Pin!Pins -> Pin!Levels \union {Pin!Unknown}]
  BY <1>1 DEF Pin!GpioAssumption
<1>3. Pin!TypeOK'
  BY <1>1, <1>2 DEF Pin!TypeOK
<1>4. Pin!Underway'
  BY <1>1 DEF Pin!Underway, Pin!TypeOK
<1>5. Pin!PinsStand'
  BY <1>1 DEF Pin!PinsStand, Pin!Underway, Pin!TypeOK, Pin!Greeters, Pin!Pins, Pin!Levels, Pin!Unknown
<1>6. Pin!WatchStands'
  BY <1>1 DEF Pin!WatchStands, Pin!Underway, Pin!Keeps, Pin!Pins, Pin!Levels, Pin!Unknown
<1>7. Pin!OutputStands'
  BY <1>1 DEF Pin!OutputStands
<1>8. QED
  BY <1>3, <1>4, <1>5, <1>6, <1>7

\* The new pins are not known yet, and nobody has read them.
LEMMA PinMakePinsKeeps == Pin!GpioAssumption /\ Pin!Inductive /\ Pin!MakePins => Pin!Inductive'
<1> SUFFICES ASSUME Pin!GpioAssumption, Pin!Inductive, Pin!MakePins PROVE Pin!Inductive'
  OBVIOUS
<1> USE DEF Pin!MakePins, Pin!Inductive
<1>1. /\ pins = 0 /\ pins' \in {0, inits} /\ inits > 0 /\ (flow' # "idle" => flow' = "hook" /\ pins' = inits)
      /\ flow' \in {"hook", "idle"}
      /\ UNCHANGED <<inits, hooked, level, latch, state, handler, greets, session, greeting, queue, task, http, told, echo, lost, missed>>
  BY DEF Pin!PinsStand, Pin!client, Pin!messages, Pin!wires
<1>2. Pin!TypeOK'
  BY <1>1 DEF Pin!TypeOK
<1>3. Pin!Underway'
  BY <1>1 DEF Pin!Underway
<1>4. Pin!PinsStand'
  BY <1>1 DEF Pin!PinsStand, Pin!Pins, Pin!Levels, Pin!Unknown
<1>5. Pin!WatchStands'
  BY <1>1 DEF Pin!WatchStands, Pin!Underway, Pin!PinsStand, Pin!Keeps, Pin!Pins, Pin!Levels, Pin!Unknown
<1>6. Pin!OutputStands'
  BY <1>1 DEF Pin!OutputStands
<1>7. QED
  BY <1>2, <1>3, <1>4, <1>5, <1>6

\* Once the interrupts are there, so is the handler.
LEMMA PinHookPinsKeeps == Pin!GpioAssumption /\ Pin!Inductive /\ Pin!HookPins => Pin!Inductive'
<1> SUFFICES ASSUME Pin!GpioAssumption, Pin!Inductive, Pin!HookPins PROVE Pin!Inductive'
  OBVIOUS
<1> USE DEF Pin!HookPins, Pin!Inductive
<1>1. Pin!At("due") \in Pin!Reads /\ Pin!At("due").at = "due"
  BY PinAtType
<1>2. UNCHANGED <<pins, inits, latch, state, session, queue, task, http, told, echo, lost, missed>>
  BY DEF Pin!messages, Pin!wires
<1>3. /\ greeting' \in [Pin!Greeters -> Pin!Reads]
      /\ \A g \in Pin!Greeters : greeting'[g] = greeting[g] \/ (g = "flow" /\ greeting'[g].at = "due")
  BY <1>1 DEF Pin!TypeOK, Pin!Greeters
<1>4. /\ level' \in [Pin!Pins -> Pin!Levels] /\ level'["watched"] = level["watched"]
       /\ level'["output"] = latch
  BY DEF Pin!TypeOK, Pin!Pins
<1>5. pins # 0
  BY DEF Pin!PinsStand
<1>6. handler' # 0 /\ (handler' = handler \/ handler' = pins)
  BY <1>5
<1>7. Pin!TypeOK'
  BY <1>2, <1>3, <1>4, <1>6 DEF Pin!TypeOK
<1>8. Pin!Underway'
  BY <1>2, <1>3 DEF Pin!Underway, Pin!Greeters
<1>9. Pin!PinsStand'
  BY <1>2, <1>3, <1>5, <1>6 DEF Pin!PinsStand
<1>10. Pin!WatchStands'
  BY <1>2, <1>3, <1>4 DEF Pin!WatchStands, Pin!Keeps, Pin!Greeters
<1>11. Pin!OutputStands'
  BY <1>2, <1>4 DEF Pin!OutputStands
<1>12. QED
  BY <1>7, <1>8, <1>9, <1>10, <1>11

\* The task starts with nothing read.
LEMMA PinStartTaskKeeps == Pin!GpioAssumption /\ Pin!Inductive /\ Pin!StartTask => Pin!Inductive'
<1> SUFFICES ASSUME Pin!GpioAssumption, Pin!Inductive, Pin!StartTask PROVE Pin!Inductive'
  OBVIOUS
<1> USE DEF Pin!StartTask, Pin!Inductive
<1>1. task' \in Pin!Reads /\ (task' = task \/ (task.at = "none" /\ task'.at = "queue"))
  BY PinAtType DEF Pin!TypeOK
<1>2. UNCHANGED <<pins, inits, hooked, level, latch, state, handler, greets, session, greeting, queue, http, told, echo, lost, missed>>
  BY DEF Pin!client, Pin!messages, Pin!wires
<1>3. handler # 0
  BY DEF Pin!PinsStand
<1>4. Pin!TypeOK'
  BY <1>1, <1>2 DEF Pin!TypeOK
<1>5. Pin!Underway'
  BY <1>1, <1>2 DEF Pin!Underway
<1>6. Pin!PinsStand'
  BY <1>1, <1>2, <1>3 DEF Pin!PinsStand
<1>7. Pin!WatchStands'
  BY <1>1, <1>2 DEF Pin!WatchStands, Pin!Keeps
<1>8. Pin!OutputStands'
  BY <1>2 DEF Pin!OutputStands
<1>9. QED
  BY <1>4, <1>5, <1>6, <1>7, <1>8

\* A session begins deaf.
LEMMA PinConnectKeeps == Pin!GpioAssumption /\ Pin!Inductive /\ Pin!Connect => Pin!Inductive'
<1> SUFFICES ASSUME Pin!GpioAssumption, Pin!Inductive, Pin!Connect PROVE Pin!Inductive'
  OBVIOUS
<1> USE DEF Pin!Connect, Pin!Inductive
<1>1. UNCHANGED <<pins, inits, flow, hooked, level, latch, state, handler, greets, queue, task, http, told, echo, lost, missed>>
  BY DEF Pin!init, Pin!messages, Pin!wires
<1>2. /\ greeting' \in [Pin!Greeters -> Pin!Reads]
      /\ \A g \in Pin!Greeters : greeting'[g] = greeting[g] \/ (g = "client" /\ greeting'[g].at = IF greets THEN "due" ELSE "subscribe")
  BY PinAtType DEF Pin!TypeOK, Pin!Greeters
<1>3. Pin!TypeOK'
  BY <1>1, <1>2 DEF Pin!TypeOK
<1>4. Pin!Underway'
  BY <1>1, <1>2 DEF Pin!Underway, Pin!Greeters
<1>5. Pin!PinsStand'
  BY <1>1, <1>2 DEF Pin!PinsStand
<1>6. Pin!WatchStands'
  BY <1>1, <1>2 DEF Pin!WatchStands, Pin!Keeps, Pin!Greeters
<1>7. Pin!OutputStands'
  BY <1>1 DEF Pin!OutputStands
<1>8. QED
  BY <1>3, <1>4, <1>5, <1>6, <1>7

\* The client subscribes when it has greeted.
LEMMA PinSubscribeKeeps == Pin!GpioAssumption /\ Pin!Inductive /\ Pin!Subscribe => Pin!Inductive'
<1> SUFFICES ASSUME Pin!GpioAssumption, Pin!Inductive, Pin!Subscribe PROVE Pin!Inductive'
  OBVIOUS
<1> USE DEF Pin!Subscribe, Pin!Inductive
<1>1. UNCHANGED <<pins, inits, flow, hooked, level, latch, state, handler, greets, queue, task, http, told, echo, lost, missed>>
  BY DEF Pin!init, Pin!messages, Pin!wires
<1>2. /\ greeting' \in [Pin!Greeters -> Pin!Reads] /\ greeting'["client"].at = "no"
      /\ \A g \in Pin!Greeters : greeting'[g] = greeting[g] \/ greeting'[g].at = "no"
  BY PinAtType DEF Pin!TypeOK, Pin!Greeters
<1>3. session = "deaf" /\ session' \in {"deaf", "listening"}
  BY DEF Pin!Underway
<1>4. Pin!TypeOK'
  BY <1>1, <1>2, <1>3 DEF Pin!TypeOK
<1>5. Pin!Underway'
  BY <1>1, <1>2, <1>3 DEF Pin!Underway, Pin!Greeters
<1>6. Pin!PinsStand'
  BY <1>1, <1>2 DEF Pin!PinsStand
<1>7. Pin!WatchStands'
  BY <1>1, <1>2 DEF Pin!WatchStands, Pin!Keeps, Pin!Greeters
<1>8. Pin!OutputStands'
  BY <1>1 DEF Pin!OutputStands
<1>9. QED
  BY <1>4, <1>5, <1>6, <1>7, <1>8

\* What is under way is lost with its session.
LEMMA PinDisconnectKeeps == Pin!GpioAssumption /\ Pin!Inductive /\ Pin!Disconnect => Pin!Inductive'
<1> SUFFICES ASSUME Pin!GpioAssumption, Pin!Inductive, Pin!Disconnect PROVE Pin!Inductive'
  OBVIOUS
<1> USE DEF Pin!Disconnect, Pin!Inductive
<1>1. UNCHANGED <<pins, inits, flow, hooked, level, latch, state, handler, greets, greeting, queue, task, http, told, missed>>
  BY DEF Pin!init, Pin!wires
<1>2. lost' \in BOOLEAN /\ (~lost' => ~lost /\ echo = <<>>)
  BY Zenon DEF Pin!TypeOK
<1>3. echo' = <<>> /\ Len(echo') <= Pending /\ session' = "no"
  BY DEF Pin!GpioAssumption
<1>4. Pin!TypeOK'
  BY <1>1, <1>2, <1>3 DEF Pin!TypeOK
<1>5. Pin!Underway'
  BY <1>1, <1>3 DEF Pin!Underway
<1>6. Pin!PinsStand'
  BY <1>1 DEF Pin!PinsStand
<1>7. Pin!WatchStands'
  BY <1>1 DEF Pin!WatchStands, Pin!Keeps
<1>8. Pin!OutputStands'
  BY <1>1, <1>2, <1>3 DEF Pin!OutputStands
<1>9. QED
  BY <1>4, <1>5, <1>6, <1>7, <1>8

\* A greeting reads the level as it is, or it is missed.
LEMMA PinGreetReadsKeeps == 
  ASSUME Pin!GpioAssumption, Pin!Inductive, NEW g \in Pin!Greeters, Pin!GreetReads(g) PROVE Pin!Inductive'
<1> USE DEF Pin!Inductive
<1>1. UNCHANGED <<pins, inits, flow, hooked, level, latch, state, handler, greets, session, queue, task, http, told, echo, lost>>
  BY DEF Pin!init, Pin!messages, Pin!wires, Pin!GreetReads
<1>2. "watched" \in Pin!Pins /\ level["watched"] \in Pin!Levels
  BY DEF Pin!TypeOK, Pin!Pins
<1>3. Pin!Greeted[g] \in Pin!Reads /\ Pin!Greeted[g].at = IF g = "client" THEN "subscribe" ELSE "no"
  BY PinAtType DEF Pin!Greeted, Pin!Greeters
<1>4. PICK value \in {level["watched"]} \union (IF hooked THEN {} ELSE {0}) :
        /\ greeting' = [greeting EXCEPT ![g] =
             IF pins # 0 /\ state["watched"] # value THEN Pin!Read("greet", "watched", value) ELSE Pin!Greeted[g]]
        /\ missed' = (missed \/ value # level["watched"])
  BY DEF Pin!GreetReads
<1>5. value \in Pin!Levels
  BY <1>2, <1>4 DEF Pin!Levels
<1>6. missed' \in BOOLEAN /\ (~missed' => ~missed /\ value = level["watched"])
  BY <1>4, Zenon DEF Pin!TypeOK
<1>7. LET read == Pin!Read("greet", "watched", value) IN
      read \in Pin!Reads /\ read.at = "greet" /\ read.pin = "watched" /\ read.from = pins /\ read.new = value
  BY <1>2, <1>5, PinReadType
<1>8. /\ greeting' \in [Pin!Greeters -> Pin!Reads]
      /\ \A h \in Pin!Greeters \ {g} : greeting'[h] = greeting[h]
      /\ \/ greeting'[g] = Pin!Greeted[g]
         \/ pins # 0 /\ greeting'[g] = Pin!Read("greet", "watched", value)
  BY <1>3, <1>4, <1>7 DEF Pin!TypeOK
<1>9. flow # "make" \/ pins = 0
  BY DEF Pin!PinsStand
<1>10. greeting[g].at = "due"
  BY DEF Pin!GreetReads
<1>11. handler # 0 /\ greeting[g].at # "no" /\ (pins # 0 => pins \in 1 .. inits)
  BY <1>10 DEF Pin!PinsStand, Pin!TypeOK
<1>12. \A h \in Pin!Greeters : greeting'[h] = greeting[h] \/ (h = g /\ greeting[h].at # "no" /\ (greeting'[h] = Pin!Greeted[g] \/ (pins # 0 /\ greeting'[h] = Pin!Read("greet", "watched", value))))
  BY <1>8, <1>11
<1>13. Pin!TypeOK'
  BY <1>1, <1>6, <1>8 DEF Pin!TypeOK
<1>14. Pin!Underway'
  BY <1>1, <1>3, <1>5, <1>7, <1>11, <1>12 DEF Pin!Underway, Pin!Greeters
<1>15. Pin!PinsStand'
  BY <1>1, <1>3, <1>7, <1>8, <1>9, <1>11 DEF Pin!PinsStand
<1>16. Pin!WatchStands'
  BY <1>1, <1>3, <1>6, <1>7, <1>8, <1>10 DEF Pin!WatchStands, Pin!Keeps
<1>17. Pin!OutputStands'
  BY <1>1 DEF Pin!OutputStands
<1>18. QED
  BY <1>13, <1>14, <1>15, <1>16, <1>17

\* What a greeting keeps is the level, if nothing newer is under way.
LEMMA PinGreetPublishesKeeps == 
  ASSUME Pin!GpioAssumption, Pin!Inductive, NEW g \in Pin!Greeters, Pin!GreetPublishes(g) PROVE Pin!Inductive'
<1> USE DEF Pin!GreetPublishes, Pin!Inductive
<1>1. UNCHANGED <<pins, inits, flow, hooked, level, latch, handler, greets, session, queue, task, http, missed>>
  BY DEF Pin!init
<1>2. /\ greeting[g] \in Pin!Reads /\ greeting[g].pin = "watched" /\ greeting[g].from \in 1 .. inits /\ greeting[g].new \in Pin!Levels
      /\ "watched" \in Pin!Pins /\ "output" \in Pin!Pins
  BY DEF Pin!TypeOK, Pin!Underway, Pin!Pins
<1>3. Pin!Greeted[g] \in Pin!Reads /\ Pin!Greeted[g].at = IF g = "client" THEN "subscribe" ELSE "no"
  BY PinAtType DEF Pin!Greeted, Pin!Greeters
<1>4. /\ greeting' \in [Pin!Greeters -> Pin!Reads] /\ greeting'[g] = Pin!Greeted[g]
      /\ \A h \in Pin!Greeters \ {g} : greeting'[h] = greeting[h]
  BY <1>3 DEF Pin!TypeOK
<1>5. /\ lost' \in BOOLEAN /\ told' \in Pin!Levels \union {Pin!Unknown}
      /\ echo' \in Seq(Pin!Levels) /\ Len(echo') <= Pending
      /\ session # "listening" => echo' = echo
      /\ ~lost' => ~lost /\ told' = told /\ echo' = echo
  BY <1>2, PinPublished
<1>6. /\ state' \in [Pin!Pins -> Pin!Levels \union {Pin!Unknown}]
      /\ greeting[g].from # pins => state' = state
      /\ greeting[g].from = pins => state'["watched"] = greeting[g].new
      /\ state'["output"] = state["output"]
  BY <1>2, PinKept
<1>7. handler # 0 /\ (pins = 0 => state' = state)
  BY <1>2, <1>6 DEF Pin!PinsStand
<1>8. Pin!TypeOK'
  BY <1>1, <1>4, <1>5, <1>6 DEF Pin!TypeOK
<1>9. Pin!Underway'
  BY <1>1, <1>3, <1>4, <1>5 DEF Pin!Underway, Pin!Greeters
<1>10. Pin!PinsStand'
  BY <1>1, <1>3, <1>4, <1>7 DEF Pin!PinsStand
<1>11. Pin!WatchStands'
  BY <1>1, <1>2, <1>3, <1>4, <1>6 DEF Pin!WatchStands, Pin!Keeps, Pin!Underway
<1>12. Pin!OutputStands'
  BY <1>1, <1>5 DEF Pin!OutputStands
<1>13. QED
  BY <1>8, <1>9, <1>10, <1>11, <1>12

\* A change of the watched pin is queued with its new level, or missed.
LEMMA PinChangeKeeps == Pin!GpioAssumption /\ Pin!Inductive /\ Pin!Change => Pin!Inductive'
<1> SUFFICES ASSUME Pin!GpioAssumption, Pin!Inductive, Pin!Change PROVE Pin!Inductive'
  OBVIOUS
<1> USE DEF Pin!Change, Pin!Inductive
<1>1. UNCHANGED <<pins, inits, flow, hooked, latch, state, handler, greets, session, greeting, task, http, told, echo, lost>>
  BY DEF Pin!init, Pin!client, Pin!messages
<1>2. level' \in [Pin!Pins -> Pin!Levels] /\ level'["output"] = level["output"]
  BY DEF Pin!TypeOK, Pin!Pins, Pin!Levels
<1>3. missed' \in BOOLEAN /\ queue' \in Seq(Pin!Levels) /\ Len(queue') <= QueueLimit
      /\ \/ ~missed' /\ queue' # <<>> /\ queue'[Len(queue')] = level'["watched"] /\ hooked
         \/ queue' = queue /\ (~missed' => ~missed /\ handler = 0)
  <2>1. CASE hooked /\ Len(queue) < QueueLimit
    <3>1. queue' = Append(queue, level'["watched"]) /\ level'["watched"] \in Pin!Levels /\ missed' = FALSE
      BY <1>2, <2>1 DEF Pin!Pins
    <3>2. queue' \in Seq(Pin!Levels) /\ queue' # <<>> /\ Len(queue') = Len(queue) + 1
          /\ queue'[Len(queue')] = level'["watched"]
      BY <3>1, PinAppended DEF Pin!TypeOK
    <3>3. Len(queue') <= QueueLimit
      BY <2>1, <3>2 DEF Pin!GpioAssumption, Pin!TypeOK
    <3>4. QED
      BY <2>1, <3>1, <3>2, <3>3
  <2>2. CASE ~(hooked /\ Len(queue) < QueueLimit)
    <3>1. missed' \in BOOLEAN /\ (~missed' => ~missed /\ handler = 0)
      BY <2>2, Zenon DEF Pin!TypeOK
    <3>2. QED
      BY <2>2, <3>1 DEF Pin!TypeOK
  <2>3. QED
    BY <2>1, <2>2
<1>4. Pin!TypeOK'
  BY <1>1, <1>2, <1>3 DEF Pin!TypeOK
<1>5. Pin!Underway'
  BY <1>1 DEF Pin!Underway
<1>6. Pin!PinsStand'
  BY <1>1, <1>3 DEF Pin!PinsStand
<1>7. Pin!WatchStands'
  BY <1>1, <1>3 DEF Pin!WatchStands, Pin!PinsStand, Pin!Keeps
<1>8. Pin!OutputStands'
  BY <1>1, <1>2 DEF Pin!OutputStands
<1>9. QED
  BY <1>4, <1>5, <1>6, <1>7, <1>8

\* The task takes the changes in their order.
LEMMA PinReceiveKeeps == Pin!GpioAssumption /\ Pin!Inductive /\ Pin!Receive => Pin!Inductive'
<1> SUFFICES ASSUME Pin!GpioAssumption, Pin!Inductive, Pin!Receive PROVE Pin!Inductive'
  OBVIOUS
<1> USE DEF Pin!Receive, Pin!Inductive
<1>1. UNCHANGED <<pins, inits, flow, hooked, level, latch, state, handler, greets, session, greeting, http, told, echo, lost>>
  BY DEF Pin!init, Pin!client, Pin!messages, Pin!wires
<1>2. /\ Head(queue) \in Pin!Levels /\ queue' \in Seq(Pin!Levels) /\ Len(queue') = Len(queue) - 1
      /\ queue' # <<>> => queue'[Len(queue')] = queue[Len(queue)]
      /\ queue' = <<>> => queue[Len(queue)] = Head(queue)
  BY PinTaken DEF Pin!TypeOK
<1>3. Len(queue') <= QueueLimit
  BY <1>2 DEF Pin!TypeOK, Pin!GpioAssumption
<1>4. missed' \in BOOLEAN /\ (~missed' => ~missed /\ pins # 0)
  BY Zenon DEF Pin!TypeOK
<1>5. LET read == Pin!Read("publish", "watched", Head(queue)) IN
      read \in Pin!Reads /\ read.at = "publish" /\ read.pin = "watched" /\ read.from = pins /\ read.new = Head(queue)
  BY <1>2, PinReadType DEF Pin!Pins
<1>6. /\ task' \in Pin!Reads /\ task'.at \in {"queue", "publish"}
      /\ task'.at = "publish" => /\ pins # 0 /\ task'.pin = "watched" /\ task'.from = pins
                                 /\ task'.new = Head(queue)
      /\ task'.at # "publish" => pins = 0
  BY <1>5 DEF Pin!TypeOK
<1>7. handler # 0 /\ pins \in {0, inits} /\ inits \in Nat /\ (flow = "make" => pins = 0)
  BY DEF Pin!PinsStand, Pin!TypeOK
<1>8. Pin!TypeOK'
  BY <1>1, <1>2, <1>3, <1>4, <1>6 DEF Pin!TypeOK
<1>9. Pin!Underway'
  BY <1>1, <1>2, <1>6, <1>7 DEF Pin!Underway
<1>10. Pin!PinsStand'
  BY <1>1, <1>6, <1>7 DEF Pin!PinsStand
<1>11. Pin!WatchStands'
  BY <1>1, <1>2, <1>4, <1>6 DEF Pin!WatchStands, Pin!Keeps
<1>12. Pin!OutputStands'
  BY <1>1 DEF Pin!OutputStands
<1>13. QED
  BY <1>8, <1>9, <1>10, <1>11, <1>12

\* A poll is of an output.
LEMMA PinPollKeeps == Pin!GpioAssumption /\ Pin!Inductive /\ Pin!Poll => Pin!Inductive'
<1> SUFFICES ASSUME Pin!GpioAssumption, Pin!Inductive, Pin!Poll PROVE Pin!Inductive'
  OBVIOUS
<1> USE DEF Pin!Poll, Pin!Inductive
<1>1. UNCHANGED <<pins, inits, flow, hooked, level, latch, state, handler, greets, session, greeting, queue, http, told, echo, lost, missed>>
  BY DEF Pin!init, Pin!client, Pin!messages, Pin!wires
<1>2. PICK value \in Pin!Levels : task' = Pin!Read("publish", "output", value)
  BY DEF Pin!TypeOK, Pin!Pins, Pin!Levels
<1>3. task' \in Pin!Reads /\ task'.at = "publish" /\ task'.pin = "output" /\ task'.from = pins /\ task'.new \in Pin!Levels
  BY <1>2, PinReadType DEF Pin!Pins
<1>4. handler # 0 /\ pins = inits /\ inits \in Nat /\ flow # "make" /\ task.at = "queue"
  BY DEF Pin!PinsStand, Pin!TypeOK
<1>5. Pin!TypeOK'
  BY <1>1, <1>3 DEF Pin!TypeOK
<1>6. Pin!Underway'
  BY <1>1, <1>3, <1>4 DEF Pin!Underway
<1>7. Pin!PinsStand'
  BY <1>1, <1>3, <1>4 DEF Pin!PinsStand
<1>8. Pin!WatchStands'
  BY <1>1, <1>3, <1>4 DEF Pin!WatchStands, Pin!Keeps
<1>9. Pin!OutputStands'
  BY <1>1 DEF Pin!OutputStands
<1>10. QED
  BY <1>5, <1>6, <1>7, <1>8, <1>9

\* The task leaves known what it has read, if it is still the same pin.
LEMMA PinPublishedKeeps == Pin!GpioAssumption /\ Pin!Inductive /\ Pin!Published => Pin!Inductive'
<1> SUFFICES ASSUME Pin!GpioAssumption, Pin!Inductive, Pin!Published PROVE Pin!Inductive'
  OBVIOUS
<1> USE DEF Pin!Published, Pin!Inductive
<1>1. UNCHANGED <<pins, inits, flow, hooked, level, latch, handler, greets, session, greeting, queue, http>>
  BY DEF Pin!init, Pin!client
<1>2. task.pin \in Pin!Pins /\ task.from \in 1 .. inits /\ task.new \in Pin!Levels
  BY DEF Pin!Underway, Pin!TypeOK, Pin!Reads
<1>3. task' \in Pin!Reads /\ task'.at = "queue"
  BY PinAtType
<1>4. /\ lost' \in BOOLEAN /\ told' \in Pin!Levels \union {Pin!Unknown}
      /\ echo' \in Seq(Pin!Levels) /\ Len(echo') <= Pending
      /\ session # "listening" => echo' = echo
      /\ ~lost' => \/ ~lost /\ told' = told /\ echo' = echo
                   \/ echo' # <<>> /\ told' = echo'[Len(echo')]
  BY <1>2, PinPublished
<1>5. /\ state' \in [Pin!Pins -> Pin!Levels \union {Pin!Unknown}]
      /\ task.from # pins => state' = state
      /\ task.from = pins => state'[task.pin] = task.new
      /\ task.pin # "watched" => state'["watched"] = state["watched"]
  BY <1>2, PinKept DEF Pin!Pins
<1>6. /\ missed' \in BOOLEAN
      /\ ~missed' => ~missed /\ (task.pin = "watched" => \A g \in Pin!Greeters : greeting[g].at = "greet" => greeting[g].new = task.new)
  BY Zenon DEF Pin!TypeOK
<1>7. handler # 0 /\ (pins = 0 => state' = state)
  BY <1>2, <1>5 DEF Pin!PinsStand
<1>8. Pin!TypeOK'
  BY <1>1, <1>3, <1>4, <1>5, <1>6 DEF Pin!TypeOK
<1>9. Pin!Underway'
  BY <1>1, <1>3, <1>4 DEF Pin!Underway
<1>10. Pin!PinsStand'
  BY <1>1, <1>3, <1>7 DEF Pin!PinsStand
<1>11. Pin!WatchStands'
  BY <1>1, <1>2, <1>3, <1>5, <1>6 DEF Pin!WatchStands, Pin!Keeps
<1>12. Pin!OutputStands'
  BY <1>1, <1>4 DEF Pin!OutputStands
<1>13. QED
  BY <1>8, <1>9, <1>10, <1>11, <1>12

\* A request sets the level and then tells it.
LEMMA PinHttpSetsKeeps == Pin!GpioAssumption /\ Pin!Inductive /\ Pin!HttpSets => Pin!Inductive'
<1> SUFFICES ASSUME Pin!GpioAssumption, Pin!Inductive, Pin!HttpSets PROVE Pin!Inductive'
  OBVIOUS
<1> USE DEF Pin!HttpSets, Pin!Inductive
<1>1. UNCHANGED <<pins, inits, flow, hooked, state, handler, greets, session, greeting, queue, task, told, echo, lost, missed>>
  BY DEF Pin!init, Pin!client, Pin!messages
<1>2. PICK value \in Pin!Levels : http' = Pin!Read("set", "output", value) /\ Pin!SetLevel(value)
  OBVIOUS
<1>3. http' \in Pin!Reads /\ http'.at = "set" /\ http'.pin = "output" /\ http'.new \in Pin!Levels
  BY <1>2, PinReadType DEF Pin!Pins
<1>4. /\ level' \in [Pin!Pins -> Pin!Levels] /\ latch' \in Pin!Levels /\ level'["watched"] = level["watched"]
      /\ hooked => level'["output"] = latch'
  BY <1>2 DEF Pin!TypeOK, Pin!Pins, Pin!SetLevel
<1>5. Pin!TypeOK'
  BY <1>1, <1>3, <1>4 DEF Pin!TypeOK
<1>6. Pin!Underway'
  BY <1>1, <1>3 DEF Pin!Underway
<1>7. Pin!PinsStand'
  BY <1>1 DEF Pin!PinsStand
<1>8. Pin!WatchStands'
  BY <1>1, <1>4 DEF Pin!WatchStands, Pin!Keeps
<1>9. Pin!OutputStands'
  BY <1>1, <1>3, <1>4 DEF Pin!OutputStands
<1>10. QED
  BY <1>5, <1>6, <1>7, <1>8, <1>9

\* What a request has set is told, and comes back unless it is lost.
LEMMA PinHttpPublishesKeeps == Pin!GpioAssumption /\ Pin!Inductive /\ Pin!HttpPublishes => Pin!Inductive'
<1> SUFFICES ASSUME Pin!GpioAssumption, Pin!Inductive, Pin!HttpPublishes PROVE Pin!Inductive'
  OBVIOUS
<1> USE DEF Pin!HttpPublishes, Pin!Inductive
<1>1. UNCHANGED <<pins, inits, flow, hooked, level, latch, state, handler, greets, session, greeting, queue, task, missed>>
  BY DEF Pin!init, Pin!client, Pin!wires
<1>2. http.pin = "output" /\ http.new \in Pin!Levels /\ "output" \in Pin!Pins
  BY DEF Pin!Underway, Pin!Pins
<1>3. http' \in Pin!Reads /\ http'.at = "no"
  BY PinAtType
<1>4. /\ lost' \in BOOLEAN /\ told' \in Pin!Levels \union {Pin!Unknown}
      /\ echo' \in Seq(Pin!Levels) /\ Len(echo') <= Pending
      /\ session # "listening" => echo' = echo
      /\ ~lost' => echo' # <<>> /\ told' = echo'[Len(echo')]
  BY <1>2, PinPublished
<1>5. Pin!TypeOK'
  BY <1>1, <1>3, <1>4 DEF Pin!TypeOK
<1>6. Pin!Underway'
  BY <1>1, <1>3, <1>4 DEF Pin!Underway
<1>7. Pin!PinsStand'
  BY <1>1 DEF Pin!PinsStand
<1>8. Pin!WatchStands'
  BY <1>1 DEF Pin!WatchStands, Pin!Keeps
<1>9. Pin!OutputStands'
  BY <1>1, <1>4 DEF Pin!OutputStands
<1>10. QED
  BY <1>5, <1>6, <1>7, <1>8, <1>9

\* What others send reaches the output, unless the device does not listen.
LEMMA PinCommandKeeps == Pin!GpioAssumption /\ Pin!Inductive /\ Pin!Command => Pin!Inductive'
<1> SUFFICES ASSUME Pin!GpioAssumption, Pin!Inductive, Pin!Command PROVE Pin!Inductive'
  OBVIOUS
<1> USE DEF Pin!Command, Pin!Inductive
<1>1. UNCHANGED <<pins, inits, flow, hooked, level, latch, state, handler, greets, session, greeting, queue, task, http, missed>>
  BY DEF Pin!init, Pin!client, Pin!wires
<1>2. PICK value \in Pin!Levels : Pin!Told(value)
  OBVIOUS
<1>3. /\ lost' \in BOOLEAN /\ told' \in Pin!Levels
      /\ echo' \in Seq(Pin!Levels) /\ Len(echo') <= Pending
      /\ session # "listening" => echo' = echo
      /\ ~lost' => echo' # <<>> /\ told' = echo'[Len(echo')]
  BY <1>2, PinTold
<1>4. Pin!TypeOK'
  BY <1>1, <1>3 DEF Pin!TypeOK
<1>5. Pin!Underway'
  BY <1>1, <1>3 DEF Pin!Underway
<1>6. Pin!PinsStand'
  BY <1>1 DEF Pin!PinsStand
<1>7. Pin!WatchStands'
  BY <1>1 DEF Pin!WatchStands, Pin!Keeps
<1>8. Pin!OutputStands'
  BY <1>1, <1>3 DEF Pin!OutputStands
<1>9. QED
  BY <1>4, <1>5, <1>6, <1>7, <1>8

\* The last message that comes back leaves the output at what subscribers were told.
LEMMA PinHandleMqttKeeps == Pin!GpioAssumption /\ Pin!Inductive /\ Pin!HandleMqtt => Pin!Inductive'
<1> SUFFICES ASSUME Pin!GpioAssumption, Pin!Inductive, Pin!HandleMqtt PROVE Pin!Inductive'
  OBVIOUS
<1> USE DEF Pin!HandleMqtt, Pin!Inductive
<1>1. UNCHANGED <<pins, inits, flow, hooked, state, handler, greets, session, greeting, queue, task, http, told, missed>>
  BY DEF Pin!init, Pin!client
<1>2. /\ Head(echo) \in Pin!Levels /\ echo' \in Seq(Pin!Levels) /\ Len(echo') = Len(echo) - 1
      /\ echo' # <<>> => echo'[Len(echo')] = echo[Len(echo)]
      /\ echo' = <<>> => echo[Len(echo)] = Head(echo)
  BY PinTaken DEF Pin!TypeOK
<1>3. Len(echo') <= Pending
  BY <1>2 DEF Pin!TypeOK, Pin!GpioAssumption
<1>4. session = "listening"
  BY DEF Pin!Underway
<1>5. \/ lost' = TRUE /\ UNCHANGED <<level, latch>>
      \/ lost' = lost /\ Pin!SetLevel(Head(echo))
  OBVIOUS
<1>6. /\ level' \in [Pin!Pins -> Pin!Levels] /\ latch' \in Pin!Levels /\ level'["watched"] = level["watched"]
      /\ lost' \in BOOLEAN /\ (hooked => level'["output"] = latch')
      /\ ~lost' => ~lost /\ latch' = Head(echo)
  <2>1. CASE lost' = TRUE /\ UNCHANGED <<level, latch>>
    BY <2>1 DEF Pin!TypeOK, Pin!OutputStands
  <2>2. CASE lost' = lost /\ Pin!SetLevel(Head(echo))
    BY <1>2, <2>2 DEF Pin!TypeOK, Pin!Pins, Pin!SetLevel
  <2>3. QED
    BY <1>5, <2>1, <2>2
<1>7. Pin!TypeOK'
  BY <1>1, <1>2, <1>3, <1>6 DEF Pin!TypeOK
<1>8. Pin!Underway'
  BY <1>1, <1>4 DEF Pin!Underway
<1>9. Pin!PinsStand'
  BY <1>1 DEF Pin!PinsStand
<1>10. Pin!WatchStands'
  BY <1>1, <1>6 DEF Pin!WatchStands, Pin!Keeps
<1>11. Pin!OutputStands'
  BY <1>1, <1>2, <1>6 DEF Pin!OutputStands
<1>12. QED
  BY <1>7, <1>8, <1>9, <1>10, <1>11

\* After a restart nothing is under way.
LEMMA PinRestartKeeps == Pin!GpioAssumption /\ Pin!Inductive /\ Pin!Restart => Pin!Inductive'
<1> SUFFICES ASSUME Pin!GpioAssumption, Pin!Inductive, Pin!Restart PROVE Pin!Inductive'
  OBVIOUS
<1> USE DEF Pin!Restart, Pin!ResetPin, Pin!Inductive
<1>1. /\ Pin!At("no") \in Pin!Reads /\ Pin!At("no").at = "no" /\ Pin!At("none") \in Pin!Reads /\ Pin!At("none").at = "none"
  BY PinAtType
<1>2. /\ pins' = 0 /\ flow' = "idle" /\ hooked' = FALSE /\ inits' = inits /\ handler' = 0 /\ greets' = FALSE /\ session' = "no"
      /\ queue' = <<>> /\ echo' = <<>> /\ missed' = FALSE /\ lost' = TRUE /\ told' = told
      /\ task'.at = "none" /\ http'.at = "no" /\ (\A g \in Pin!Greeters : greeting'[g].at = "no")
      /\ state' = [p \in Pin!Pins |-> Pin!Unknown] /\ "watched" \in Pin!Pins /\ "client" \in Pin!Greeters
  BY <1>1 DEF Pin!Pins, Pin!Greeters
<1>3. /\ task' \in Pin!Reads /\ http' \in Pin!Reads /\ greeting' \in [Pin!Greeters -> Pin!Reads]
      /\ level' \in [Pin!Pins -> Pin!Levels] /\ latch' \in Pin!Levels
      /\ state' \in [Pin!Pins -> Pin!Levels \union {Pin!Unknown}]
  BY <1>1 DEF Pin!TypeOK, Pin!Levels, Pin!Pins
<1>4. pins' \in 0 .. Inits /\ inits' \in 0 .. Inits /\ handler' \in 0 .. Inits /\ told' \in Pin!Levels \union {Pin!Unknown}
  BY <1>2 DEF Pin!TypeOK, Pin!GpioAssumption
<1>5. 0 \in 0 .. Inits /\ queue' \in Seq(Pin!Levels) /\ Len(queue') <= QueueLimit /\ echo' \in Seq(Pin!Levels) /\ Len(echo') <= Pending
  BY <1>2 DEF Pin!GpioAssumption
<1>6. Pin!TypeOK'
  BY <1>2, <1>3, <1>4, <1>5 DEF Pin!TypeOK
<1>7. Pin!Underway'
  BY <1>2 DEF Pin!Underway
<1>8. Pin!PinsStand'
  BY <1>2 DEF Pin!PinsStand, Pin!TypeOK
<1>9. Pin!WatchStands'
  BY <1>2 DEF Pin!WatchStands, Pin!Keeps
<1>10. Pin!OutputStands'
  BY <1>2 DEF Pin!OutputStands
<1>11. QED
  BY <1>6, <1>7, <1>8, <1>9, <1>10

\* Every step keeps the invariant.
LEMMA PinStepInductive == Pin!GpioAssumption /\ Pin!Inductive /\ [Pin!Next]_(Pin!vars) => Pin!Inductive'
<1> SUFFICES ASSUME Pin!GpioAssumption, Pin!Inductive, [Pin!Next]_(Pin!vars) PROVE Pin!Inductive'
  OBVIOUS
<1>1. CASE Pin!Next
  <2>1. CASE \E g \in Pin!Greeters : Pin!GreetReads(g) \/ Pin!GreetPublishes(g)
    BY <2>1, PinGreetReadsKeeps, PinGreetPublishesKeeps
  <2>2. CASE ~ \E g \in Pin!Greeters : Pin!GreetReads(g) \/ Pin!GreetPublishes(g)
    BY <1>1, <2>2, PinClearKeeps, PinMakePinsKeeps, PinHookPinsKeeps, PinStartTaskKeeps,
       PinConnectKeeps, PinSubscribeKeeps, PinDisconnectKeeps, PinChangeKeeps, PinReceiveKeeps,
       PinPollKeeps, PinPublishedKeeps, PinHttpSetsKeeps, PinHttpPublishesKeeps, PinCommandKeeps,
       PinHandleMqttKeeps, PinRestartKeeps DEF Pin!Next
  <2>3. QED
    BY <2>1, <2>2
<1>2. CASE UNCHANGED Pin!vars
  BY <1>2 DEF Pin!vars, Pin!init, Pin!wires, Pin!client, Pin!messages, Pin!Inductive, Pin!TypeOK,
     Pin!Underway, Pin!PinsStand, Pin!Keeps, Pin!WatchStands, Pin!OutputStands
<1>3. QED
  BY <1>1, <1>2

\* What is known stands.
LEMMA PinInductiveTrue == Pin!Inductive => Pin!GpioTrue
  BY DEF Pin!Inductive, Pin!TypeOK, Pin!Underway, Pin!WatchStands, Pin!OutputStands, Pin!Keeps, Pin!GpioTrue

\* The inductive invariant of Gpio, of the behaviours about the pins.
PinInductive == subject = "gpio" => Pin!Inductive

\* While the subject is the pins, a step of the device is a step of Gpio.
LEMMA NextPin == [Next]_vars /\ subject = "gpio" => [Pin!Next]_(Pin!vars)
<1>1. ASSUME Next, subject = "gpio" PROVE Pin!Next
  BY <1>1 DEF Next
<1>2. ASSUME UNCHANGED vars PROVE UNCHANGED Pin!vars
  BY <1>2 DEF vars, gpioVars, Pin!vars, Pin!init, Pin!wires, Pin!client, Pin!messages
<1>3. QED
  BY <1>1, <1>2

(* Whatever the order of changes, requests, polls, messages, connections   *)
(* and initialisations, for queues and messages of any number: the watched *)
(* pin is known as it is once the queue is empty, unless the last change   *)
(* was missed or a greeting has read another level, and an output that is  *)
(* one is at the level subscribers were told once nothing of it is under   *)
(* way, unless the last message was lost; deleted pins are reset, and an   *)
(* output made anew is at that level again (gpio_isr_handler,              *)
(* gpioHandlerTask, ~GpioPin, GpioPin::init, setValue, publishState,       *)
(* handleMQTTconnect, handleMQTT).                                         *)
THEOREM DeviceGpioTrue == Spec => []GpioTrue
<1>1. Init => PinInductive
  BY DeviceAssumption, PinInitInductive DEF Init, PinInductive
<1>2. PinInductive /\ [Next]_vars => PinInductive'
  BY DeviceAssumption, NextPin, NextOther, PinStepInductive DEF PinInductive
<1>3. PinInductive => GpioTrue
  BY PinInductiveTrue DEF PinInductive, GpioTrue, Pin!Inductive
<1>4. QED
  BY <1>1, <1>2, <1>3, PTL DEF Spec

-----------------------------------------------------------------------------
(* Camera settings                                                         *)

\* A flag is sent as 1 for the word "true" and 0 for the other.
LEMMA CameraFlag ==
  ASSUME NEW n \in Camera!Flags, NEW c \in 0 .. 1
  PROVE  Camera!Trial(n, IF c = 0 THEN 1 ELSE 0) = Camera!Read(n, Camera!Text(n, c))
<1>1. n \in Camera!Selects /\ Camera!Options[n] = <<"true", "false">>
  BY DEF Camera!Options, Camera!Selects
<1>2. ASSUME NEW k PROVE Camera!Trial(n, k) = (k # 0)
  <2>1. n # "waitb" /\ n \notin DOMAIN Camera!TrialPicture /\ n \notin DOMAIN Camera!TrialColours
        /\ n \notin DOMAIN Camera!TrialExposure
    BY DEF Camera!Flags, Camera!TrialPicture, Camera!TrialColours, Camera!TrialExposure
  <2>2. QED
    BY <2>1 DEF Camera!Trial
<1>3. ASSUME NEW t PROVE Camera!Read(n, t) = (t = "true")
  <2>1. n # "waitb" /\ n \notin DOMAIN Camera!ReadWords /\ n \notin DOMAIN Camera!ReadPicture
        /\ n \notin DOMAIN Camera!ReadExposure
    BY DEF Camera!Flags, Camera!ReadWords, Camera!ReadPicture, Camera!ReadExposure
  <2>2. QED
    BY <2>1 DEF Camera!Read
<1>4. Camera!Text(n, 0) = "true" /\ Camera!Text(n, 1) = "false"
  BY <1>1 DEF Camera!Text
<1>5. CASE c = 0
  <2>1. (1 # 0) = ("true" = "true")
    OBVIOUS
  <2>2. QED
    BY <1>2, <1>3, <1>4, <1>5, <2>1, Zenon
<1>6. CASE c = 1
  <2>1. (0 # 0) = ("false" = "true") /\ 1 # 0
    OBVIOUS
  <2>2. QED
    BY <1>2, <1>3, <1>4, <1>6, <2>1, Zenon
<1>7. QED
  BY <1>5, <1>6

\* A word of a list is read as its place, which is what is sent.
LEMMA CameraWord ==
  ASSUME NEW n \in {"aecgc", "spe", "wbm"}, NEW c \in 0 .. Len(Camera!Options[n]) - 1
  PROVE  Camera!Trial(n, c) = Camera!Read(n, Camera!Text(n, c))
<1>1. n \in Camera!Selects /\ Camera!Options[n] = Camera!Lists[n]
  BY DEF Camera!Options, Camera!Selects, Camera!Lists, Camera!Flags
<1>2. c \in 0 .. 6 /\ (n = "wbm" => c <= 4)
  <2>1. CASE n = "aecgc"
    <3>1. Camera!Options[n] = Camera!Gains /\ Len(Camera!Gains) = 7
      BY <1>1, <2>1 DEF Camera!Lists, Camera!Gains
    <3>2. QED
      BY <2>1, <3>1
  <2>2. CASE n = "spe"
    <3>1. Camera!Options[n] = Camera!Effects /\ Len(Camera!Effects) = 7
      BY <1>1, <2>2 DEF Camera!Lists, Camera!Effects
    <3>2. QED
      BY <2>2, <3>1
  <2>3. CASE n = "wbm"
    <3>1. Camera!Options[n] = Camera!Modes /\ Len(Camera!Modes) = 5
      BY <1>1, <2>3 DEF Camera!Lists, Camera!Modes
    <3>2. QED
      BY <2>3, <3>1
  <2>4. QED
    BY <2>1, <2>2, <2>3
<1>3. Camera!Trial(n, c) = c
  BY <1>2 DEF Camera!Trial, Camera!Flags, Camera!TrialPicture, Camera!TrialColours, Camera!TrialExposure,
       Camera!TrialGeometry, Camera!Within, Camera!Clip
<1>4. Camera!Read(n, Camera!Text(n, c)) = Camera!Word(Camera!ReadWords[n], Camera!Lists[n][c + 1])
  <2>1. n \notin Camera!Flags /\ n # "waitb" /\ n \in DOMAIN Camera!ReadWords
        /\ n \notin DOMAIN Camera!ReadPicture /\ n \notin DOMAIN Camera!ReadExposure
    BY DEF Camera!Flags, Camera!ReadWords, Camera!ReadPicture, Camera!ReadExposure
  <2>2. Camera!Text(n, c) = Camera!Lists[n][c + 1]
    BY <1>1 DEF Camera!Text
  <2>3. QED
    BY <2>1, <2>2 DEF Camera!Read
<1>5. /\ c # 0 => c \in DOMAIN Camera!ReadWords[n] /\ Camera!ReadWords[n][c] = Camera!Lists[n][c + 1]
      /\ \A i \in DOMAIN Camera!ReadWords[n] : Camera!ReadWords[n][i] = Camera!Lists[n][c + 1] => i = c
  <2>1. CASE n = "aecgc"
    BY <1>2, <2>1 DEF Camera!ReadWords, Camera!Lists, Camera!Gains
  <2>2. CASE n = "spe"
    BY <1>2, <2>2 DEF Camera!ReadWords, Camera!Lists, Camera!Effects
  <2>3. CASE n = "wbm"
    BY <1>2, <2>3 DEF Camera!ReadWords, Camera!Lists, Camera!Modes
  <2>4. QED
    BY <2>1, <2>2, <2>3
<1>6. 0 \notin DOMAIN Camera!ReadWords[n]
  BY DEF Camera!ReadWords
<1>7. Camera!Word(Camera!ReadWords[n], Camera!Lists[n][c + 1]) = c
  BY <1>5, <1>6 DEF Camera!Word
<1>8. QED
  BY <1>3, <1>4, <1>7

\* A number is cut to the same limits on both ways.
LEMMA CameraNumber ==
  ASSUME NEW n \in Camera!Numbers \ {"waitb"}, NEW c \in Int
  PROVE  Camera!Trial(n, c) = Camera!Read(n, Camera!Text(n, c))
<1>1. n \in {"bri", "con", "sat", "shp", "ael", "ledi", "zoomx", "zoomy", "zooms", "qual", "aecv", "agcg", "den"}
  BY DEF Camera!Numbers, Camera!Fields, Camera!Sliders
<1>2. Camera!Text(n, c) = c
  BY <1>1 DEF Camera!Text, Camera!Selects, Camera!Flags, Camera!Lists
<1>3. CASE n \in {"bri", "con", "sat", "shp", "qual"}
  <2>1. n \notin Camera!Flags /\ n # "waitb" /\ n \notin DOMAIN Camera!ReadWords
    BY <1>3 DEF Camera!Flags, Camera!ReadWords
  <2>2. n \in DOMAIN Camera!TrialPicture /\ n \in DOMAIN Camera!ReadPicture
        /\ Camera!TrialPicture[n] = Camera!ReadPicture[n]
    BY <1>3 DEF Camera!TrialPicture, Camera!ReadPicture
  <2>3. n \notin DOMAIN Camera!TrialColours /\ n \notin DOMAIN Camera!TrialExposure
        /\ n \notin DOMAIN Camera!ReadExposure
    BY <1>3 DEF Camera!TrialColours, Camera!TrialExposure, Camera!ReadExposure
  <2>4. QED
    BY <1>2, <2>1, <2>2, <2>3 DEF Camera!Trial, Camera!Read
<1>4. CASE n \in {"ael", "aecv", "agcg"}
  BY <1>2, <1>4 DEF Camera!Trial, Camera!Read, Camera!Flags, Camera!ReadWords, Camera!TrialPicture, Camera!ReadPicture,
       Camera!TrialColours, Camera!TrialExposure, Camera!ReadExposure
<1>5. CASE n \in {"den", "zoomx", "zoomy", "zooms", "ledi"}
  BY <1>2, <1>5 DEF Camera!Trial, Camera!Read, Camera!Flags, Camera!ReadWords, Camera!TrialPicture, Camera!ReadPicture,
       Camera!TrialColours, Camera!TrialExposure, Camera!ReadExposure, Camera!TrialGeometry, Camera!ReadGeometry
<1>6. QED
  BY <1>1, <1>3, <1>4, <1>5

\* A list of options is a sequence.
LEMMA CameraOptions ==
  \A n \in Camera!Selects : /\ DOMAIN Camera!Options[n] = 1 .. Len(Camera!Options[n])
                            /\ Len(Camera!Options[n]) \in Nat
                            /\ n \in Camera!Flags => Len(Camera!Options[n]) = 2
<1> TAKE n \in Camera!Selects
<1>1. CASE n \in Camera!Flags
  <2>1. Camera!Options[n] = <<"true", "false">>
    BY <1>1 DEF Camera!Options
  <2>2. QED
    BY <1>1, <2>1
<1>2. CASE n \notin Camera!Flags
  <2>1. Camera!Options[n] = Camera!Lists[n]
    BY <1>2 DEF Camera!Options
  <2>2. Camera!Lists[n] \in {Camera!Gains, Camera!Effects, Camera!Modes}
    BY <1>2 DEF Camera!Selects, Camera!Lists
  <2>3. DOMAIN Camera!Gains = 1 .. Len(Camera!Gains) /\ Len(Camera!Gains) = 7
    BY DEF Camera!Gains
  <2>4. DOMAIN Camera!Effects = 1 .. Len(Camera!Effects) /\ Len(Camera!Effects) = 7
    BY DEF Camera!Effects
  <2>5. DOMAIN Camera!Modes = 1 .. Len(Camera!Modes) /\ Len(Camera!Modes) = 5
    BY DEF Camera!Modes
  <2>6. DOMAIN Camera!Lists[n] = 1 .. Len(Camera!Lists[n]) /\ Len(Camera!Lists[n]) \in Nat
    BY <2>2, <2>3, <2>4, <2>5
  <2>7. QED
    BY <1>2, <2>1, <2>6
<1>3. QED
  BY <1>1, <1>2

\* What is entered is a place in a list or a number.
LEMMA CameraEntered ==
  ASSUME NEW p \in Camera!Pages, NEW n \in Camera!Settings, n \in Camera!OnPage(p)
  PROVE  Camera!Entered(p, n) \subseteq Camera!Positions(n)
<1>1. CASE n \in Camera!Selects
  BY <1>1 DEF Camera!Entered, Camera!Positions
<1>2. CASE n \notin Camera!Selects
  <2>1. \A m \in DOMAIN Camera!Sliders : Camera!Sliders[m] \subseteq Int
    BY DEF Camera!Sliders
  <2>2. \A m \in DOMAIN Camera!Fields : Camera!Fields[m] \subseteq Int
    BY DEF Camera!Fields
  <2>3. n \in DOMAIN Camera!Fields \/ n \in DOMAIN Camera!Sliders
    BY <1>2 DEF Camera!Settings, Camera!Numbers
  <2>4. p = "reference" => n \in DOMAIN Camera!Sliders
    BY <1>2 DEF Camera!OnPage, Camera!Sliders, Camera!Selects, Camera!Flags, Camera!Lists, Camera!Window
  <2>5. QED
    BY <1>2, <2>1, <2>2, <2>3, <2>4 DEF Camera!Entered, Camera!Positions
<1>3. QED
  BY <1>1, <1>2

\* A page shows what may be shown of what may be written, and writes what may be written.
LEMMA CameraShown ==
  ASSUME NEW p, NEW n \in Camera!Settings, NEW t \in Camera!Texts(n)
  PROVE  /\ Camera!Show(p, n, t) \in Camera!Positions(n)
         /\ p = "configuration" => Camera!Text(n, Camera!Show(p, n, t)) = t
<1>1. CASE n \in Camera!Selects
  <2>1. PICK i \in DOMAIN Camera!Options[n] : Camera!Options[n][i] = t
    BY <1>1 DEF Camera!Texts
  <2> DEFINE j == CHOOSE k \in DOMAIN Camera!Options[n] : Camera!Options[n][k] = t
  <2>2. j \in DOMAIN Camera!Options[n] /\ Camera!Options[n][j] = t
    BY <2>1
  <2>3. Camera!Show(p, n, t) = j - 1
    BY <1>1 DEF Camera!Show
  <2> HIDE DEF j
  <2>4. j \in 1 .. Len(Camera!Options[n]) /\ Len(Camera!Options[n]) \in Nat
    BY <1>1, <2>2, CameraOptions
  <2>5. Camera!Text(n, j - 1) = t
    BY <1>1, <2>2, <2>4 DEF Camera!Text
  <2>6. QED
    BY <1>1, <2>3, <2>4, <2>5 DEF Camera!Positions
<1>2. CASE n \notin Camera!Selects
  BY <1>2 DEF Camera!Texts, Camera!Positions, Camera!Show, Camera!Text, Camera!Clip
<1>3. QED
  BY <1>1, <1>2

\* What a page writes may be written.
LEMMA CameraText ==
  ASSUME NEW n \in Camera!Settings, NEW c \in Camera!Positions(n)
  PROVE  Camera!Text(n, c) \in Camera!Texts(n)
<1>1. CASE n \in Camera!Selects
  <2>1. c + 1 \in DOMAIN Camera!Options[n]
    BY <1>1, CameraOptions DEF Camera!Positions
  <2>2. QED
    BY <1>1, <2>1 DEF Camera!Texts, Camera!Text
<1>2. CASE n \notin Camera!Selects
  BY <1>2 DEF Camera!Texts, Camera!Positions, Camera!Text
<1>3. QED
  BY <1>1, <1>2

\* A request and a start make the same of what is shown and written, but for the wait.
LEMMA CameraTrial ==
  ASSUME NEW n \in Camera!Settings \ {"ashp", "waitb"}, NEW c \in Camera!Positions(n)
  PROVE  Camera!Trial(n, IF n \in Camera!Flags THEN IF c = 0 THEN 1 ELSE 0 ELSE c)
           = Camera!Read(n, Camera!Text(n, c))
<1>1. CASE n \in Camera!Flags
  <2>1. n \in Camera!Selects /\ Len(Camera!Options[n]) = 2
    BY <1>1, CameraOptions DEF Camera!Selects
  <2>2. c \in 0 .. 1
    BY <2>1 DEF Camera!Positions
  <2>3. QED
    BY <1>1, <2>2, CameraFlag
<1>2. CASE n \in DOMAIN Camera!Lists
  <2>1. n \in {"aecgc", "spe", "wbm"} /\ n \notin Camera!Flags
    BY <1>2 DEF Camera!Lists, Camera!Flags
  <2>2. c \in 0 .. Len(Camera!Options[n]) - 1
    BY <1>2 DEF Camera!Positions, Camera!Selects
  <2>3. QED
    BY <2>1, <2>2, CameraWord
<1>3. CASE n \notin Camera!Selects
  <2>1. n \in Camera!Numbers \ {"waitb"} /\ c \in Int /\ n \notin Camera!Flags
    BY <1>3 DEF Camera!Positions, Camera!Settings, Camera!Selects
  <2>2. QED
    BY <2>1, CameraNumber
<1>4. QED
  BY <1>1, <1>2, <1>3 DEF Camera!Selects

\* Values that agree with config.ini expose as those that are read from it.
LEMMA CameraAgree ==
  ASSUME group \subseteq Camera!Settings \ {"ashp"}, NEW values, NEW texts, DOMAIN values = group,
         \A n \in group \ {"waitb"} : Camera!Agrees(values, texts, n)
  PROVE  Camera!Registers(values) = Camera!Registers(Camera!ReadParameter(texts))
<1> DEFINE r == Camera!ReadParameter(texts)
<1>1. DOMAIN r = group /\ \A n \in group : r[n] = Camera!Read(n, texts[n])
  BY DEF Camera!ReadParameter
<1>2. \A n \in group \ ({"waitb"} \union Camera!Window) : values[n] = r[n]
  BY <1>1 DEF Camera!Agrees
<1>3. "zoom" \notin group \/ texts["zoom"] = "true" => \A n \in group \intersect Camera!Window : values[n] = r[n]
  BY <1>1 DEF Camera!Agrees, Camera!Window
<1>4. "zoom" \in group /\ texts["zoom"] # "true" => r["zoom"] = FALSE
  <2>1. SUFFICES ASSUME "zoom" \in group, texts["zoom"] # "true" PROVE Camera!Read("zoom", texts["zoom"]) = FALSE
    BY <1>1
  <2>2. "zoom" \in Camera!Flags /\ "zoom" # "waitb" /\ "zoom" \notin DOMAIN Camera!ReadWords
        /\ "zoom" \notin DOMAIN Camera!ReadPicture /\ "zoom" \notin DOMAIN Camera!ReadExposure
    BY DEF Camera!Flags, Camera!ReadWords, Camera!ReadPicture, Camera!ReadExposure
  <2>3. Camera!Read("zoom", texts["zoom"]) = (texts["zoom"] = "true")
    BY <2>2 DEF Camera!Read
  <2>4. QED
    BY <2>1, <2>3
<1> HIDE DEF r
<1>5. Camera!Registers(values).sharpness = Camera!Registers(r).sharpness
  <2>1. Camera!Value(values, "ashp", FALSE) = Camera!Value(r, "ashp", FALSE)
    BY <1>1 DEF Camera!Value
  <2>2. Camera!Value(values, "shp", 0) = Camera!Value(r, "shp", 0)
    BY <1>1, <1>2 DEF Camera!Value, Camera!Window
  <2>3. QED
    BY <2>1, <2>2 DEF Camera!Registers
<1>6. Camera!Registers(values).window = Camera!Registers(r).window
  <2>1. Camera!Value(values, "zoom", DOMAIN values \intersect Camera!Window # {})
        = Camera!Value(r, "zoom", DOMAIN r \intersect Camera!Window # {})
    BY <1>1, <1>2 DEF Camera!Value, Camera!Window
  <2>2. CASE "zoom" \in group /\ texts["zoom"] # "true"
    <3>1. Camera!Value(r, "zoom", DOMAIN r \intersect Camera!Window # {}) = FALSE
      BY <1>1, <1>4, <2>2 DEF Camera!Value
    <3>2. QED
      BY <2>1, <3>1 DEF Camera!Registers
  <2>3. CASE "zoom" \notin group \/ texts["zoom"] = "true"
    <3>1. \A n \in Camera!Window : Camera!Value(values, n, 0) = Camera!Value(r, n, 0)
      BY <1>1, <1>3, <2>3 DEF Camera!Value
    <3>2. QED
      BY <2>1, <3>1 DEF Camera!Registers, Camera!Window
  <2>4. QED
    BY <2>2, <2>3
<1>7. Camera!Registers(values).others = Camera!Registers(r).others
  BY <1>1, <1>2 DEF Camera!Registers
<1>8. QED
  BY <1>5, <1>6, <1>7 DEF Camera!Registers, r

\* A zoom stays within the frame, wherever it is set to.
LEMMA CameraInside ==
  ASSUME pid \in Camera!Sensors, NEW values,
         \A n \in DOMAIN values \intersect Camera!Window : values[n] \in Int /\ (n = "zooms" => values[n] >= 0)
  PROVE  Camera!Inside(Camera!Registers(values).window)
<1>1. Camera!Inside(Camera!WholeFrame)
  BY DEF Camera!Inside, Camera!WholeFrame, Camera!Sensors, Camera!FrameX, Camera!FrameY, Camera!Width, Camera!Height
<1>2. ASSUME NEW x \in Int, NEW y \in Int, NEW size \in Nat PROVE Camera!Inside(Camera!Zoomed(x, y, size))
  <2> DEFINE steps == IF size < Camera!ZoomLimit[pid] THEN Camera!ZoomLimit[pid] - size ELSE 0
             width == Camera!Width + steps * 32
             height == Camera!Height + steps * 24
             free == Camera!FrameX[pid] - width
             rest == Camera!FrameY[pid] - height
  <2>1. steps \in Nat /\ width \in Nat /\ height \in Nat /\ width >= 640 /\ height >= 480
        /\ free \in Nat /\ rest \in Nat /\ Camera!FrameX[pid] \in Nat /\ Camera!FrameY[pid] \in Nat
    BY DEF Camera!ZoomLimit, Camera!Sensors, Camera!FrameX, Camera!FrameY, Camera!Width, Camera!Height
  <2>2. ASSUME NEW f \in Nat, NEW offset \in Int PROVE Camera!Sanitize(f, offset) \in 0 .. f
    BY DEF Camera!Sanitize, Camera!Abs
  <2>3. Camera!Zoomed(x, y, size) = [x |-> Camera!Sanitize(free, x), y |-> Camera!Sanitize(rest, y),
                                     width |-> width, height |-> height]
    BY DEF Camera!Zoomed
  <2>4. free + width = Camera!FrameX[pid] /\ rest + height = Camera!FrameY[pid]
    BY <2>1
  <2> HIDE DEF steps, width, height, free, rest
  <2>5. Camera!Zoomed(x, y, size).x \in 0 .. free /\ Camera!Zoomed(x, y, size).y \in 0 .. rest
        /\ Camera!Zoomed(x, y, size).width = width /\ Camera!Zoomed(x, y, size).height = height
    BY <2>1, <2>2, <2>3
  <2>6. QED
    BY <2>1, <2>4, <2>5 DEF Camera!Inside, Camera!Width, Camera!Height
<1>3. Camera!Value(values, "zoomx", 0) \in Int /\ Camera!Value(values, "zoomy", 0) \in Int
      /\ Camera!Value(values, "zooms", 0) \in Nat
  BY DEF Camera!Value, Camera!Window
<1>4. QED
  BY <1>1, <1>2, <1>3 DEF Camera!Registers

\* The camera and the settings that are followed stay as they are.
LEMMA CameraRigid ==
  ASSUME pid' = pid, group' = group
  PROVE  /\ \A v : Camera!Registers(v)' = Camera!Registers(v)
         /\ \A t : Camera!ReadParameter(t)' = Camera!ReadParameter(t)
         /\ \A n, t : Camera!Read(n, t)' = Camera!Read(n, t)
         /\ \A w : Camera!Inside(w)' = Camera!Inside(w)
<1>1. \A v : Camera!Registers(v)' = Camera!Registers(v)
  BY DEF Camera!Registers, Camera!Sharpness, Camera!Zoomed, Camera!WholeFrame
<1>2. \A n, t : Camera!Read(n, t)' = Camera!Read(n, t)
  BY DEF Camera!Read, Camera!ReadPicture, Camera!ReadExposure, Camera!ReadGeometry, Camera!Older, Camera!PerSensor
<1>3. \A t : Camera!ReadParameter(t)' = Camera!ReadParameter(t)
  BY <1>2 DEF Camera!ReadParameter
<1>4. \A w : Camera!Inside(w)' = Camera!Inside(w)
  BY DEF Camera!Inside
<1>5. QED
  BY <1>1, <1>2, <1>3, <1>4

\* The window of a zoom is a number however it is set, its size none below 0.
LEMMA CameraWindowRead ==
  ASSUME pid \in Camera!Sensors, NEW n \in Camera!Window, NEW t \in Int
  PROVE  /\ Camera!Read(n, t) \in Int /\ Camera!Trial(n, t) \in Int
         /\ n = "zooms" => Camera!Read(n, t) >= 0 /\ Camera!Trial(n, t) >= 0
<1>1. /\ n \notin Camera!Flags /\ n # "waitb" /\ n \notin DOMAIN Camera!ReadWords
      /\ n \notin DOMAIN Camera!ReadPicture /\ n \notin DOMAIN Camera!ReadExposure
      /\ n \notin DOMAIN Camera!TrialPicture /\ n \notin DOMAIN Camera!TrialExposure
      /\ n \notin DOMAIN Camera!TrialColours
  BY DEF Camera!Window, Camera!Flags, Camera!ReadWords, Camera!ReadPicture, Camera!ReadExposure,
     Camera!TrialPicture, Camera!TrialExposure, Camera!TrialColours
<1>2. /\ Camera!Read(n, t) = Camera!Within(Camera!ReadGeometry[n], t)
      /\ Camera!Trial(n, t) = Camera!Within(Camera!TrialGeometry[n], t)
  BY <1>1 DEF Camera!Read, Camera!Trial
<1>3. /\ Camera!WidthLimit[pid] \in Nat /\ Camera!HeightLimit[pid] \in Nat /\ Camera!ZoomLimit[pid] \in Nat
  BY DEF Camera!Sensors, Camera!WidthLimit, Camera!HeightLimit, Camera!ZoomLimit
<1>4. CASE n = "zooms"
  BY <1>2, <1>3, <1>4 DEF Camera!ReadGeometry, Camera!TrialGeometry, Camera!Within, Camera!Clip
<1>5. CASE n \in {"zoomx", "zoomy"}
  BY <1>2, <1>3, <1>5 DEF Camera!ReadGeometry, Camera!TrialGeometry, Camera!Within, Camera!Clip, Camera!PerSensor
<1>6. QED
  BY <1>4, <1>5 DEF Camera!Window

\* Every setting is on the page of the configuration, the zoom with its window on both.
LEMMA CameraPages ==
  /\ Camera!OnPage("configuration") = Camera!Settings
  /\ \A p : Camera!Window \union {"zoom"} \subseteq Camera!OnPage(p)
<1>1. Camera!Window \union {"zoom"} \subseteq Camera!Settings
  BY DEF Camera!Window, Camera!Settings, Camera!Selects, Camera!Flags, Camera!Numbers, Camera!Sliders
<1>2. QED
  BY <1>1 DEF Camera!OnPage

\* What a page writes and sends agree.
LEMMA CameraEdit ==
  ASSUME Camera!SettingsAssumption, Camera!TypeOK, Camera!ValuesSound, page # Camera!Nothing
  PROVE  /\ DOMAIN Camera!EditFlow = group /\ DOMAIN Camera!Written = group
         /\ DOMAIN shown = group \intersect Camera!OnPage(page)
         /\ Camera!Written = [n \in group |-> Camera!Written[n]]
         /\ \A n \in group : Camera!Written[n] \in Camera!Texts(n)
         /\ \A n \in DOMAIN shown : Camera!Agrees(Camera!EditFlow, Camera!Written, n)
         /\ \A n \in group \ DOMAIN shown : /\ Camera!EditFlow[n] = cc[n] /\ Camera!Written[n] = config[n]
                                            /\ n \notin Camera!Window
         /\ \A n \in group \intersect Camera!Window :
              Camera!EditFlow[n] \in Int /\ (n = "zooms" => Camera!EditFlow[n] >= 0)
<1>1. group \subseteq Camera!Settings \ {"ashp"} /\ pid \in Camera!Sensors
  BY DEF Camera!SettingsAssumption, Camera!TypeOK
<1>2. DOMAIN shown = group \intersect Camera!OnPage(page) /\ \A n \in DOMAIN shown : shown[n] \in Camera!Positions(n)
  BY DEF Camera!TypeOK, Camera!ValuesSound
<1>3. /\ DOMAIN Camera!Written = group /\ Camera!Written = [n \in group |-> Camera!Written[n]]
      /\ \A n \in DOMAIN shown : Camera!Written[n] = Camera!Text(n, shown[n])
      /\ \A n \in group \ DOMAIN shown : Camera!Written[n] = config[n]
  BY <1>2 DEF Camera!Written
<1>4. /\ DOMAIN Camera!EditFlow = group
      /\ \A n \in DOMAIN shown : Camera!EditFlow[n] = Camera!Trial(n, Camera!Sent[n])
      /\ \A n \in group \ DOMAIN shown : Camera!EditFlow[n] = cc[n]
  BY <1>2 DEF Camera!EditFlow, Camera!Sent
<1>5. \A n \in group : Camera!Written[n] \in Camera!Texts(n)
  BY <1>1, <1>2, <1>3, CameraText DEF Camera!ValuesSound
<1>6. \A n \in group \ DOMAIN shown : n \notin Camera!Window
  BY <1>2, CameraPages
<1>7. ASSUME NEW n \in DOMAIN shown
      PROVE  Camera!Sent[n] = IF n \in Camera!Flags THEN IF shown[n] = 0 THEN 1 ELSE 0
                              ELSE IF n \in Camera!Window /\ ~Camera!Zooming THEN 0 ELSE shown[n]
  <2>1. n # "ashp" /\ n \in group /\ n \in Camera!OnPage(page)
    BY <1>1, <1>2, <1>7
  <2>2. n \in Camera!Window => n \notin Camera!Flags
    BY DEF Camera!Window, Camera!Flags
  <2>3. QED
    BY <2>1, <2>2 DEF Camera!Sent
<1>8. ASSUME NEW n \in DOMAIN shown PROVE Camera!Agrees(Camera!EditFlow, Camera!Written, n)
  <2>1. n \in Camera!Settings \ {"ashp"} /\ shown[n] \in Camera!Positions(n)
    BY <1>1, <1>2
  <2>2. CASE n \in Camera!Window /\ ~Camera!Zooming
    <3>1. "zoom" \in group /\ shown["zoom"] # 0 /\ "zoom" \in DOMAIN shown
      BY <1>2, <2>2, CameraPages DEF Camera!Zooming
    <3>2. "zoom" \in Camera!Selects /\ Camera!Options["zoom"] = <<"true", "false">>
      BY DEF Camera!Options, Camera!Selects, Camera!Flags
    <3>3. Camera!Positions("zoom") = 0 .. 1
      BY <3>2 DEF Camera!Positions
    <3>4. shown["zoom"] = 1
      BY <1>2, <3>1, <3>3
    <3>5. Camera!Written["zoom"] = "false"
      BY <1>3, <3>1, <3>2, <3>4 DEF Camera!Text
    <3>6. QED
      BY <2>2, <3>1, <3>5 DEF Camera!Agrees
  <2>3. CASE n = "waitb"
    <3>1. n \notin Camera!Flags /\ n \notin Camera!Window /\ n \notin Camera!Selects
      BY <2>3 DEF Camera!Flags, Camera!Window, Camera!Selects, Camera!Lists
    <3>2. Camera!EditFlow[n] = shown[n]
      <4>1. Camera!Sent[n] = shown[n]
        BY <1>7, <3>1
      <4>2. ASSUME NEW k PROVE Camera!Trial(n, k) = k
        <5>1. /\ n \notin DOMAIN Camera!TrialPicture /\ n \notin DOMAIN Camera!TrialColours
              /\ n \notin DOMAIN Camera!TrialExposure
          BY <2>3 DEF Camera!TrialPicture, Camera!TrialColours, Camera!TrialExposure
        <5>2. QED
          BY <2>3, <3>1, <5>1 DEF Camera!Trial
      <4>3. QED
        BY <1>4, <4>1, <4>2
    <3>3. Camera!Written[n] = shown[n]
      BY <1>3, <3>1 DEF Camera!Text
    <3>4. QED
      BY <2>3, <3>2, <3>3 DEF Camera!Agrees
  <2>4. CASE n # "waitb" /\ ~(n \in Camera!Window /\ ~Camera!Zooming)
    <3>1. Camera!EditFlow[n] = Camera!Trial(n, IF n \in Camera!Flags THEN IF shown[n] = 0 THEN 1 ELSE 0 ELSE shown[n])
      BY <1>4, <1>7, <2>4
    <3>2. Camera!EditFlow[n] = Camera!Read(n, Camera!Text(n, shown[n]))
      BY <2>1, <2>4, <3>1, CameraTrial
    <3>3. QED
      BY <1>3, <3>2 DEF Camera!Agrees
  <2>5. QED
    BY <2>2, <2>3, <2>4
<1>9. ASSUME NEW n \in group \intersect Camera!Window
      PROVE  Camera!EditFlow[n] \in Int /\ (n = "zooms" => Camera!EditFlow[n] >= 0)
  <2>1. n \in DOMAIN shown
    BY <1>6, <1>9
  <2>2. n \notin Camera!Selects /\ n \notin Camera!Flags
    BY <1>9 DEF Camera!Window, Camera!Selects, Camera!Flags, Camera!Lists
  <2>3. shown[n] \in Int
    BY <1>2, <2>1, <2>2 DEF Camera!Positions
  <2>4. Camera!Sent[n] \in Int
    BY <1>7, <2>1, <2>2, <2>3
  <2>5. QED
    BY <1>1, <1>4, <2>1, <2>4, CameraWindowRead
<1>10. QED
  BY <1>2, <1>3, <1>4, <1>5, <1>6, <1>8, <1>9

\* Everything but the page's controls stands as it did.
LEMMA CameraPagesKeep ==
  ASSUME Camera!SettingsAssumption, Camera!Inductive, UNCHANGED Camera!device, unsent' = unsent,
         page' \in Camera!Pages \union {Camera!Nothing},
         phase' \in {"viewed", "changed", "tried"}, touched' \in BOOLEAN,
         page' # Camera!Nothing =>
           /\ DOMAIN shown' = group \intersect Camera!OnPage(page')
           /\ \A n \in DOMAIN shown' : shown'[n] \in Camera!Positions(n),
         page' = "configuration" /\ ~touched' => Camera!Written' = config
  PROVE  Camera!Inductive'
<1> USE DEF Camera!device
<1>1. Camera!TypeOK'
  BY DEF Camera!Inductive, Camera!TypeOK
<1>2. Camera!TrialExposes'
  BY DEF Camera!TrialExposes
<1>3. Camera!RoundExposes' /\ Camera!ZoomInside'
  BY CameraRigid DEF Camera!Inductive, Camera!RoundExposes, Camera!ZoomInside
<1>4. Camera!ValuesSound'
  BY DEF Camera!Inductive, Camera!ValuesSound
<1>5. Camera!InUse'
  BY CameraRigid DEF Camera!Inductive, Camera!InUse, Camera!Agrees
<1>6. Camera!PagesSound'
  BY DEF Camera!PagesSound
<1>7. QED
  BY <1>1, <1>2, <1>3, <1>4, <1>5, <1>6 DEF Camera!Inductive

\* A page that is opened shows what config.ini says.
LEMMA CameraOpenKeeps ==
  ASSUME Camera!SettingsAssumption, Camera!Inductive, NEW p \in Camera!Pages, Camera!Open(p)
  PROVE  Camera!Inductive'
<1>1. UNCHANGED Camera!device /\ unsent' = unsent /\ page' = p /\ phase' = "viewed" /\ touched' = FALSE
      /\ shown' = [n \in group \intersect Camera!OnPage(p) |-> Camera!Show(p, n, config[n])]
  BY DEF Camera!Open
<1>2. group \subseteq Camera!Settings /\ \A n \in group : config[n] \in Camera!Texts(n)
  BY DEF Camera!SettingsAssumption, Camera!Inductive, Camera!TypeOK, Camera!ValuesSound
<1>3. /\ DOMAIN shown' = group \intersect Camera!OnPage(p)
      /\ \A n \in DOMAIN shown' : shown'[n] \in Camera!Positions(n)
  BY <1>1, <1>2, CameraShown
<1>4. p = "configuration" => Camera!Written' = config
  <2>1. SUFFICES ASSUME p = "configuration" PROVE Camera!Written' = config
    OBVIOUS
  <2>2. \A n \in group : Camera!Text(n, shown'[n]) = config[n]
    BY <1>1, <1>2, <2>1, CameraShown, CameraPages
  <2>3. Camera!Written' = [n \in group |-> config[n]]
    BY <1>1, <1>2, <2>1, <2>2, CameraPages DEF Camera!Written, Camera!device
  <2>4. QED
    BY <2>3 DEF Camera!Inductive, Camera!ValuesSound
<1>5. QED
  BY <1>1, <1>3, <1>4, CameraPagesKeep

\* A control is set to something that its page offers.
LEMMA CameraChangeKeeps ==
  ASSUME Camera!SettingsAssumption, Camera!Inductive, NEW m \in Camera!Settings, Camera!Change(m)
  PROVE  Camera!Inductive'
<1>1. UNCHANGED Camera!device /\ unsent' = unsent /\ page' = page /\ phase' = "changed" /\ touched' = TRUE
      /\ page \in Camera!Pages /\ m \in DOMAIN shown
  BY DEF Camera!Change, Camera!Inductive, Camera!TypeOK
<1>2. PICK control \in Camera!Entered(page, m) : shown' = [shown EXCEPT ![m] = control]
  BY DEF Camera!Change
<1>3. /\ DOMAIN shown = group \intersect Camera!OnPage(page)
      /\ \A n \in DOMAIN shown : shown[n] \in Camera!Positions(n)
  BY <1>1 DEF Camera!Inductive, Camera!TypeOK, Camera!ValuesSound, Camera!Pages, Camera!Nothing
<1>4. control \in Camera!Positions(m)
  BY <1>1, <1>2, <1>3, CameraEntered
<1>5. QED
  BY <1>1, <1>2, <1>3, <1>4, CameraPagesKeep

\* A trial whose picture is loaded, or that is given up, and a save that is cut short.
LEMMA CameraGoesOnKeeps ==
  ASSUME Camera!SettingsAssumption, Camera!Inductive,
         Camera!TryInVain \/ Camera!Load \/ Camera!GiveUp
  PROVE  Camera!Inductive'
<1>1. UNCHANGED Camera!device /\ UNCHANGED <<page, shown, touched, unsent>> /\ phase' \in {"viewed", "tried"}
  BY DEF Camera!TryInVain, Camera!Load, Camera!GiveUp
<1>2. Camera!Written' = Camera!Written
  BY <1>1 DEF Camera!Written, Camera!device
<1>3. QED
  BY <1>1, <1>2, CameraPagesKeep DEF Camera!Inductive, Camera!TypeOK, Camera!ValuesSound, Camera!PagesSound

\* A trial exposes what a restart after saving would.
LEMMA CameraTryKeeps ==
  ASSUME Camera!SettingsAssumption, Camera!Inductive, Camera!Try
  PROVE  Camera!Inductive'
<1>1. /\ UNCHANGED <<pid, group, config, cc, page, shown, touched, unsent>>
      /\ page = "reference" /\ page # Camera!Nothing /\ phase' = "asked" /\ changed' = TRUE
      /\ sensor' = Camera!Registers(Camera!EditFlow)
  BY DEF Camera!Try, Camera!Nothing
<1>2. Camera!Written' = Camera!Written
  BY <1>1 DEF Camera!Written
<1>3. group \subseteq Camera!Settings \ {"ashp"} /\ pid \in Camera!Sensors
  BY DEF Camera!SettingsAssumption, Camera!Inductive, Camera!TypeOK
<1>4. Camera!TypeOK'
  BY <1>1 DEF Camera!Inductive, Camera!TypeOK
<1>5. Camera!TrialExposes'
  <2>1. SUFFICES ASSUME unsent \subseteq Camera!OnPage("reference")
                 PROVE  Camera!Registers(Camera!EditFlow) = Camera!Registers(Camera!ReadParameter(Camera!Written))
    BY <1>1, <1>2, CameraRigid DEF Camera!TrialExposes
  <2>2. ASSUME NEW n \in group \ {"waitb"} PROVE Camera!Agrees(Camera!EditFlow, Camera!Written, n)
    <3>1. CASE n \in DOMAIN shown
      BY <1>1, <3>1, CameraEdit DEF Camera!Inductive
    <3>2. CASE n \notin DOMAIN shown
      <4>1. Camera!EditFlow[n] = cc[n] /\ Camera!Written[n] = config[n] /\ n \notin Camera!Window
        BY <1>1, <3>2, CameraEdit DEF Camera!Inductive
      <4>2. n \notin unsent
        BY <1>1, <2>1, <3>2, CameraEdit DEF Camera!Inductive
      <4>3. QED
        BY <4>1, <4>2 DEF Camera!Inductive, Camera!InUse, Camera!Agrees
    <3>3. QED
      BY <3>1, <3>2
  <2>3. DOMAIN Camera!EditFlow = group
    BY <1>1, CameraEdit DEF Camera!Inductive
  <2>4. QED
    BY <1>3, <2>2, <2>3, CameraAgree
<1>6. Camera!RoundExposes'
  BY <1>1 DEF Camera!RoundExposes
<1>7. Camera!ZoomInside'
  <2>1. Camera!Inside(Camera!Registers(Camera!EditFlow).window)
    BY <1>1, <1>3, CameraEdit, CameraInside DEF Camera!Inductive
  <2>2. QED
    BY <1>1, <2>1, CameraRigid DEF Camera!ZoomInside
<1>8. Camera!ValuesSound'
  <2>1. DOMAIN sensor' = {"sharpness", "window", "others"}
    BY <1>1 DEF Camera!Registers
  <2>2. QED
    BY <1>1, <2>1 DEF Camera!Inductive, Camera!ValuesSound
<1>9. Camera!InUse'
  BY <1>1, CameraRigid DEF Camera!Inductive, Camera!InUse, Camera!Agrees
<1>10. Camera!PagesSound'
  BY <1>1, <1>2 DEF Camera!Inductive, Camera!PagesSound
<1>11. QED
  BY <1>4, <1>5, <1>6, <1>7, <1>8, <1>9, <1>10 DEF Camera!Inductive

\* A round sets the sensor to the settings in use.
LEMMA CameraRoundKeeps ==
  ASSUME Camera!SettingsAssumption, Camera!Inductive, Camera!Round
  PROVE  Camera!Inductive'
<1>1. /\ UNCHANGED <<pid, group, config, cc, page, shown, phase, touched, unsent>>
      /\ changed' = FALSE /\ sensor' = Camera!Registers(cc)
  BY DEF Camera!Round
<1>2. Camera!Written' = Camera!Written
  BY <1>1 DEF Camera!Written
<1>3. Camera!TypeOK'
  BY <1>1 DEF Camera!Inductive, Camera!TypeOK
<1>4. Camera!TrialExposes'
  BY <1>1 DEF Camera!TrialExposes
<1>5. Camera!RoundExposes'
  BY <1>1, CameraRigid DEF Camera!RoundExposes
<1>6. Camera!ZoomInside'
  <2>1. Camera!Inside(Camera!Registers(cc).window)
    BY CameraInside DEF Camera!Inductive, Camera!TypeOK, Camera!ValuesSound
  <2>2. QED
    BY <1>1, <2>1, CameraRigid DEF Camera!ZoomInside
<1>7. Camera!ValuesSound'
  <2>1. DOMAIN sensor' = {"sharpness", "window", "others"}
    BY <1>1 DEF Camera!Registers
  <2>2. QED
    BY <1>1, <2>1 DEF Camera!Inductive, Camera!ValuesSound
<1>8. Camera!InUse'
  BY <1>1, CameraRigid DEF Camera!Inductive, Camera!InUse, Camera!Agrees
<1>9. Camera!PagesSound'
  BY <1>1, <1>2 DEF Camera!Inductive, Camera!PagesSound
<1>10. QED
  BY <1>3, <1>4, <1>5, <1>6, <1>7, <1>8, <1>9 DEF Camera!Inductive

\* What is not on the page stays in config.ini; what is, waits to be sent.
LEMMA CameraSaveKeeps ==
  ASSUME Camera!SettingsAssumption, Camera!Inductive, Camera!Save
  PROVE  Camera!Inductive'
<1>1. /\ UNCHANGED <<pid, group, cc, sensor, changed, page, shown, touched>>
      /\ page # Camera!Nothing /\ config' = Camera!Written /\ phase' \in {"saving", "viewed"}
  BY DEF Camera!Save
<1>2. /\ DOMAIN Camera!Written = group /\ Camera!Written = [n \in group |-> Camera!Written[n]]
      /\ DOMAIN shown = group \intersect Camera!OnPage(page)
      /\ \A n \in group : Camera!Written[n] \in Camera!Texts(n)
      /\ \A n \in group \ DOMAIN shown : Camera!Written[n] = config[n] /\ n \notin Camera!Window
  BY <1>1, CameraEdit DEF Camera!Inductive
<1>3. Camera!Written' = config'
  <2>1. Camera!Written' = [n \in group |-> IF n \in Camera!OnPage(page) THEN Camera!Text(n, shown[n])
                                           ELSE Camera!Written[n]]
    BY <1>1 DEF Camera!Written
  <2>2. \A n \in group : n \in Camera!OnPage(page) => Camera!Written[n] = Camera!Text(n, shown[n])
    BY DEF Camera!Written
  <2>3. Camera!Written' = [n \in group |-> Camera!Written[n]]
    BY <2>1, <2>2
  <2>4. QED
    BY <1>1, <1>2, <2>3
<1>4. \/ phase' = "saving" /\ unsent' = unsent \union DOMAIN shown
      \/ phase' = "viewed" /\ unsent' = unsent /\ page = "configuration" /\ ~touched
  BY <1>1 DEF Camera!Save, Camera!Inductive, Camera!TypeOK, Camera!Pages
<1>5. Camera!TypeOK'
  <2>1. unsent' \subseteq group
    BY <1>2, <1>4 DEF Camera!Inductive, Camera!TypeOK
  <2>2. QED
    BY <1>1, <1>2, <2>1 DEF Camera!Inductive, Camera!TypeOK
<1>6. Camera!TrialExposes'
  BY <1>1 DEF Camera!TrialExposes
<1>7. Camera!RoundExposes' /\ Camera!ZoomInside'
  BY <1>1, CameraRigid DEF Camera!Inductive, Camera!RoundExposes, Camera!ZoomInside
<1>8. Camera!ValuesSound'
  BY <1>1, <1>2 DEF Camera!Inductive, Camera!ValuesSound
<1>9. Camera!InUse'
  <2>1. ASSUME NEW n \in group \ unsent' PROVE Camera!Agrees(cc, config', n)
    <3>1. n \notin unsent /\ Camera!Agrees(cc, config, n)
      BY <1>4, <2>1 DEF Camera!Inductive, Camera!InUse
    <3>2. CASE config' = config
      BY <3>1, <3>2
    <3>3. CASE n \notin DOMAIN shown
      BY <1>1, <1>2, <2>1, <3>1, <3>3 DEF Camera!Agrees
    <3>4. config' = config \/ n \notin DOMAIN shown
      BY <1>1, <1>4, <2>1 DEF Camera!Inductive, Camera!PagesSound
    <3>5. QED
      BY <3>2, <3>3, <3>4
  <2>2. QED
    BY <1>1, <2>1, CameraRigid DEF Camera!InUse, Camera!Agrees
<1>10. Camera!PagesSound'
  BY <1>1, <1>3 DEF Camera!PagesSound
<1>11. QED
  BY <1>5, <1>6, <1>7, <1>8, <1>9, <1>10 DEF Camera!Inductive

\* What is in use after a request is what has been written.
LEMMA CameraSetKeeps ==
  ASSUME Camera!SettingsAssumption, Camera!Inductive, Camera!Set
  PROVE  Camera!Inductive'
<1>1. /\ UNCHANGED <<pid, group, config, page, shown, touched>> /\ phase' = "viewed" /\ changed' = TRUE
      /\ unsent' = unsent \ DOMAIN shown /\ cc' = Camera!EditFlow
      /\ page # Camera!Nothing /\ Camera!Written = config
  BY DEF Camera!Set, Camera!Inductive, Camera!PagesSound
<1>2. Camera!Written' = config'
  BY <1>1 DEF Camera!Written
<1>3. DOMAIN sensor' = {"sharpness", "window", "others"} /\ sensor'.window = sensor.window
  BY DEF Camera!Set, Camera!Lit, Camera!Inductive, Camera!ValuesSound
<1>4. Camera!TypeOK'
  <2>1. DOMAIN cc' = group
    BY <1>1, CameraEdit DEF Camera!Inductive
  <2>2. QED
    BY <1>1, <2>1 DEF Camera!Inductive, Camera!TypeOK
<1>5. Camera!TrialExposes' /\ Camera!RoundExposes'
  BY <1>1 DEF Camera!TrialExposes, Camera!RoundExposes
<1>6. Camera!ZoomInside'
  BY <1>1, <1>3, CameraRigid DEF Camera!Inductive, Camera!ZoomInside
<1>7. Camera!ValuesSound'
  <2>1. \A n \in group \intersect Camera!Window : cc'[n] \in Int /\ (n = "zooms" => cc'[n] >= 0)
    BY <1>1, CameraEdit DEF Camera!Inductive
  <2>2. QED
    BY <1>1, <1>3, <2>1 DEF Camera!Inductive, Camera!ValuesSound
<1>8. Camera!InUse'
  <2>1. ASSUME NEW n \in group \ unsent' PROVE Camera!Agrees(Camera!EditFlow, config, n)
    <3>1. CASE n \in DOMAIN shown
      BY <1>1, <3>1, CameraEdit DEF Camera!Inductive
    <3>2. CASE n \notin DOMAIN shown
      <4>1. Camera!EditFlow[n] = cc[n] /\ n \notin Camera!Window
        BY <1>1, <2>1, <3>2, CameraEdit DEF Camera!Inductive
      <4>2. Camera!Agrees(cc, config, n)
        BY <1>1, <2>1, <3>2 DEF Camera!Inductive, Camera!InUse
      <4>3. QED
        BY <4>1, <4>2 DEF Camera!Agrees
    <3>3. QED
      BY <3>1, <3>2
  <2>2. QED
    BY <1>1, <2>1, CameraRigid DEF Camera!InUse, Camera!Agrees
<1>9. Camera!PagesSound'
  BY <1>1, <1>2 DEF Camera!PagesSound
<1>10. QED
  BY <1>4, <1>5, <1>6, <1>7, <1>8, <1>9 DEF Camera!Inductive

\* A restart takes the settings from config.ini.
LEMMA CameraRestartKeeps ==
  ASSUME Camera!SettingsAssumption, Camera!Inductive, Camera!Restart
  PROVE  Camera!Inductive'
<1>1. /\ UNCHANGED <<pid, group, config, page, shown, phase, touched>>
      /\ cc' = Camera!ReadParameter(config) /\ unsent' = {} /\ changed' = FALSE
      /\ sensor' = Camera!Registers(cc')
  BY DEF Camera!Restart
<1>2. DOMAIN cc' = group /\ \A n \in group : cc'[n] = Camera!Read(n, config[n])
  BY <1>1 DEF Camera!ReadParameter
<1>3. Camera!Written' = Camera!Written
  BY <1>1 DEF Camera!Written
<1>4. Camera!TypeOK'
  BY <1>1, <1>2 DEF Camera!Inductive, Camera!TypeOK
<1>5. Camera!TrialExposes'
  BY <1>1 DEF Camera!TrialExposes
<1>6. Camera!RoundExposes'
  BY <1>1, CameraRigid DEF Camera!RoundExposes
<1>7. \A n \in group \intersect Camera!Window : cc'[n] \in Int /\ (n = "zooms" => cc'[n] >= 0)
  <2>1. SUFFICES ASSUME NEW n \in group \intersect Camera!Window
                 PROVE  cc'[n] \in Int /\ (n = "zooms" => cc'[n] >= 0)
    OBVIOUS
  <2>2. n \notin Camera!Selects
    BY <2>1 DEF Camera!Window, Camera!Selects, Camera!Flags, Camera!Lists
  <2>3. config[n] \in Int
    BY <2>1, <2>2 DEF Camera!Inductive, Camera!ValuesSound, Camera!Texts
  <2>4. QED
    BY <1>2, <2>1, <2>3, CameraWindowRead DEF Camera!Inductive, Camera!TypeOK
<1>8. Camera!ZoomInside'
  <2>1. Camera!Inside(Camera!Registers(cc').window)
    BY <1>2, <1>7, CameraInside DEF Camera!Inductive, Camera!TypeOK
  <2>2. QED
    BY <1>1, <2>1, CameraRigid DEF Camera!ZoomInside
<1>9. Camera!ValuesSound'
  <2>1. DOMAIN sensor' = {"sharpness", "window", "others"}
    BY <1>1 DEF Camera!Registers
  <2>2. QED
    BY <1>1, <1>7, <2>1 DEF Camera!Inductive, Camera!ValuesSound
<1>10. Camera!InUse'
  BY <1>1, <1>2, CameraRigid DEF Camera!InUse, Camera!Agrees
<1>11. Camera!PagesSound'
  BY <1>1, <1>3 DEF Camera!Inductive, Camera!PagesSound
<1>12. QED
  BY <1>4, <1>5, <1>6, <1>8, <1>9, <1>10, <1>11 DEF Camera!Inductive

\* The invariant holds at the start.
LEMMA CameraInitInductive == Camera!SettingsAssumption /\ Camera!Init => Camera!Inductive
<1> SUFFICES ASSUME Camera!SettingsAssumption, Camera!Init PROVE Camera!Inductive
  OBVIOUS
<1>1. /\ pid \in Camera!Sensors /\ group \in Followed /\ cc = Camera!ReadParameter(config)
      /\ sensor = Camera!Registers(cc) /\ changed = FALSE /\ page = Camera!Nothing /\ shown = <<>>
      /\ phase = "viewed" /\ touched = FALSE /\ unsent = {}
  BY DEF Camera!Init
<1>2. PICK controls \in [group -> Camera!Controls] :
        /\ \A n \in group : controls[n] \in Camera!Entered("configuration", n)
        /\ config = [n \in group |-> Camera!Text(n, controls[n])]
  BY DEF Camera!Init
<1>3. group \subseteq Camera!Settings
  BY <1>1 DEF Camera!SettingsAssumption
<1>4. config = [n \in group |-> config[n]] /\ \A n \in group : config[n] \in Camera!Texts(n)
  BY <1>2, <1>3, CameraEntered, CameraText, CameraPages DEF Camera!Pages
<1>5. DOMAIN cc = group /\ \A n \in group : cc[n] = Camera!Read(n, config[n])
  BY <1>1 DEF Camera!ReadParameter
<1>6. \A n \in group \intersect Camera!Window : cc[n] \in Int /\ (n = "zooms" => cc[n] >= 0)
  <2>1. SUFFICES ASSUME NEW n \in group \intersect Camera!Window
                 PROVE  cc[n] \in Int /\ (n = "zooms" => cc[n] >= 0)
    OBVIOUS
  <2>2. n \notin Camera!Selects
    BY <2>1 DEF Camera!Window, Camera!Selects, Camera!Flags, Camera!Lists
  <2>3. config[n] \in Int
    BY <1>4, <2>1, <2>2 DEF Camera!Texts
  <2>4. QED
    BY <1>1, <1>5, <2>1, <2>3, CameraWindowRead
<1>7. Camera!TypeOK
  BY <1>1, <1>4, <1>5 DEF Camera!TypeOK, Camera!Nothing
<1>8. Camera!TrialExposes /\ Camera!RoundExposes
  BY <1>1 DEF Camera!TrialExposes, Camera!RoundExposes
<1>9. Camera!ZoomInside
  BY <1>1, <1>5, <1>6, CameraInside DEF Camera!ZoomInside
<1>10. Camera!ValuesSound
  <2>1. DOMAIN sensor = {"sharpness", "window", "others"}
    BY <1>1 DEF Camera!Registers
  <2>2. QED
    BY <1>1, <1>4, <1>6, <2>1 DEF Camera!ValuesSound
<1>11. Camera!InUse
  BY <1>1, <1>5 DEF Camera!InUse, Camera!Agrees
<1>12. Camera!PagesSound
  BY <1>1 DEF Camera!PagesSound, Camera!Nothing
<1>13. QED
  BY <1>7, <1>8, <1>9, <1>10, <1>11, <1>12 DEF Camera!Inductive

\* Every step keeps the invariant.
LEMMA CameraStepInductive ==
  Camera!SettingsAssumption /\ Camera!Inductive /\ [Camera!Next]_(Camera!vars) => Camera!Inductive'
<1> SUFFICES ASSUME Camera!SettingsAssumption, Camera!Inductive, [Camera!Next]_(Camera!vars)
             PROVE  Camera!Inductive'
  OBVIOUS
<1>1. CASE Camera!Next
  BY <1>1, CameraOpenKeeps, CameraChangeKeeps, CameraTryKeeps, CameraGoesOnKeeps, CameraRoundKeeps,
     CameraSaveKeeps, CameraSetKeeps, CameraRestartKeeps DEF Camera!Next
<1>2. CASE UNCHANGED Camera!vars
  <2>1. Camera!Written' = Camera!Written
    BY <1>2 DEF Camera!vars, Camera!Written
  <2>2. UNCHANGED <<pid, group, config, cc, sensor, changed, page, shown, phase, touched, unsent>>
    BY <1>2 DEF Camera!vars
  <2>3. Camera!TypeOK' /\ Camera!ValuesSound' /\ Camera!PagesSound'
    BY <2>1, <2>2 DEF Camera!Inductive, Camera!TypeOK, Camera!ValuesSound, Camera!PagesSound
  <2>4. Camera!TrialExposes' /\ Camera!RoundExposes' /\ Camera!ZoomInside' /\ Camera!InUse'
    BY <2>1, <2>2, CameraRigid DEF Camera!Inductive, Camera!TrialExposes, Camera!RoundExposes,
       Camera!ZoomInside, Camera!InUse, Camera!Agrees
  <2>5. QED
    BY <2>3, <2>4 DEF Camera!Inductive
<1>3. QED
  BY <1>1, <1>2

\* Trials, rounds and saved settings agree.
LEMMA CameraInductiveTrue ==
  Camera!SettingsAssumption /\ Camera!Inductive => Camera!TypeOK /\ Camera!TrialsTrue /\ Camera!ZoomInside
<1> SUFFICES ASSUME Camera!SettingsAssumption, Camera!Inductive PROVE Camera!SavedInUse
  BY DEF Camera!Inductive, Camera!TrialsTrue
<1> SUFFICES ASSUME unsent = {}
             PROVE  /\ Camera!Registers(cc) = Camera!Registers(Camera!ReadParameter(config))
                    /\ Camera!Waits(cc) = Camera!Waits(Camera!ReadParameter(config))
  BY DEF Camera!SavedInUse
<1>1. /\ group \subseteq Camera!Settings \ {"ashp"} /\ DOMAIN cc = group
      /\ \A n \in group : Camera!Agrees(cc, config, n)
  BY DEF Camera!SettingsAssumption, Camera!Inductive, Camera!TypeOK, Camera!InUse
<1>2. Camera!Registers(cc) = Camera!Registers(Camera!ReadParameter(config))
  BY <1>1, CameraAgree
<1>3. Camera!Waits(cc) = Camera!Waits(Camera!ReadParameter(config))
  <2>1. DOMAIN Camera!ReadParameter(config) = group
    BY DEF Camera!ReadParameter
  <2>2. CASE "waitb" \notin group
    BY <1>1, <2>1, <2>2 DEF Camera!Waits, Camera!Value
  <2>3. CASE "waitb" \in group
    <3>1. Camera!Read("waitb", config["waitb"]) = IF config["waitb"] = 0 THEN 2 ELSE config["waitb"]
      <4>1. /\ "waitb" \notin Camera!Flags /\ "waitb" \notin DOMAIN Camera!ReadWords
            /\ "waitb" \notin DOMAIN Camera!ReadPicture /\ "waitb" \notin DOMAIN Camera!ReadExposure
        BY DEF Camera!Flags, Camera!ReadWords, Camera!ReadPicture, Camera!ReadExposure
      <4>2. QED
        BY <4>1 DEF Camera!Read
    <3>2. /\ Camera!ReadParameter(config)["waitb"] = Camera!Read("waitb", config["waitb"])
          /\ cc["waitb"] = Camera!Read("waitb", config["waitb"]) \/ cc["waitb"] = config["waitb"]
      BY <1>1, <2>3 DEF Camera!ReadParameter, Camera!Agrees, Camera!Window
    <3>3. QED
      BY <1>1, <2>1, <2>3, <3>1, <3>2 DEF Camera!Waits, Camera!Value
  <2>4. QED
    BY <2>2, <2>3
<1>4. QED
  BY <1>2, <1>3

\* The inductive invariant of CameraSettings, of the behaviours about the settings.
SettingsInductive == subject = "settings" => Camera!Inductive

\* While the subject is the settings, a step of the device is a step of CameraSettings.
LEMMA NextCamera == [Next]_vars /\ subject = "settings" => [Camera!Next]_(Camera!vars)
<1>1. ASSUME Next, subject = "settings" PROVE Camera!Next
  BY <1>1 DEF Next
<1>2. ASSUME UNCHANGED vars PROVE UNCHANGED Camera!vars
  BY <1>2 DEF vars, settingsVars, Camera!vars
<1>3. QED
  BY <1>1, <1>2

(* Whatever settings are followed together, for every sensor and whatever  *)
(* is entered: a trial exposes as a restart would after saving, unless a   *)
(* round came first or a save was cut short; what was saved is in use as   *)
(* config.ini has it; and a zoom lies within the sensor's frame            *)
(* (handler_editflow, ClassFlowTakeImage::ReadParameter, doFlow,           *)
(* SanitizeZoomParams).                                                    *)
THEOREM DeviceSettingsTrue == Spec => []SettingsTrue
<1>1. Init => SettingsInductive
  BY DeviceAssumption, CameraInitInductive DEF Init, SettingsInductive
<1>2. SettingsInductive /\ [Next]_vars => SettingsInductive'
  BY DeviceAssumption, NextCamera, NextOther, CameraStepInductive DEF SettingsInductive
<1>3. SettingsInductive => SettingsTrue
  BY DeviceAssumption, CameraInductiveTrue DEF SettingsInductive, SettingsTrue
<1>4. QED
  BY <1>1, <1>2, <1>3, PTL DEF Spec
=============================================================================
