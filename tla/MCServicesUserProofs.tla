------------------------ MODULE MCServicesUserProofs ------------------------
(***************************************************************************)
(* Proofs about the services somebody asks or sets up: the inductive       *)
(* invariants of the web pages, of access control, of the WLAN and of the  *)
(* configuration are kept by every step, for all values of the constants,  *)
(* and so are those of the composition.                                    *)
(***************************************************************************)
EXTENDS MCServices, SequenceTheorems, FiniteSetTheorems, WellFoundedInduction, TLAPS

-----------------------------------------------------------------------------
(* The pages: a connection that stays open has got one whole answer        *)

\* No request has been answered when the server starts.
LEMMA PagesInitInductive == Page!WebPagesAssumption /\ Page!Init => Page!Inductive
<1> SUFFICES ASSUME Page!WebPagesAssumption, Page!Init PROVE Page!Inductive
  OBVIOUS
<1>a. rounds = 0
  BY DEF Page!Init
<1>1. rounds \in 0..Rounds /\ Page!RoundsCounted
  <2>1. at = "start" /\ status # "FlowFinished"
    BY DEF Page!Init
  <2>2. QED
    BY <1>a, <2>1 DEF Page!WebPagesAssumption, Page!RoundsCounted
<1>2. Page!FlowTypes
  BY DEF Page!Init, Page!FlowTypes, Page!Stages, Page!Early, Page!Results
<1>3. Page!RequestTypes
  BY DEF Page!Init, Page!RequestTypes
<1>4. Page!Flags
  BY DEF Page!Init, Page!Flags
<1>5. Page!RepliesWhole /\ Page!AnswerSoFar
  BY DEF Page!Init, Page!RepliesWhole, Page!Answered, Page!AnswerSoFar
<1>6. Page!PageComplete /\ Page!ReadyStaysUp /\ Page!ValuesStay
  BY DEF Page!Init, Page!PageComplete, Page!ReadyStaysUp, Page!ValuesStay
<1>7. QED
  BY <1>1, <1>2, <1>3, <1>4, <1>5, <1>6 DEF Page!Inductive, Page!TypeOK, Page!PagesTrue

\* A request that is answered at once: whole, or its connection is closed, or it is one of those
\* that are not.
AnsweredAtOnce ==
  /\ step = "idle" /\ page = "none" /\ step' \in {"idle", "card"} /\ shown' = {}
  /\ page' \in {"plain", "full", "picture", "date", "card"}
  /\ wire' \in {"nothing", "open", "whole", "more"} /\ lost' \in BOOLEAN
  /\ fate' \in {"none", "ok", "failed"}
  /\ step' = "idle" /\ fate' = "ok" /\ ~lost' /\ page' \notin {"date", "card"} => wire' = "whole"

\* The three ways to answer at once.
LEMMA Replied ==
  ASSUME Page!Inductive, NEW r \in {"plain", "full", "picture"},
         Page!Answer(r) \/ Page!Passes(r) \/ Page!Refuse(r)
  PROVE  AnsweredAtOnce
<1>1. page = "none" => wire = "nothing" /\ ~lost
  BY DEF Page!Inductive, Page!AnswerSoFar
<1>2. CASE Page!Answer(r)
  BY <1>1, <1>2 DEF Page!Answer, Page!Asked, Page!Goes, Page!Done, AnsweredAtOnce
<1>3. CASE Page!Passes(r)
  BY <1>1, <1>3 DEF Page!Passes, Page!Asked, Page!Goes, Page!Done, AnsweredAtOnce
<1>4. CASE Page!Refuse(r)
  BY <1>1, <1>4 DEF Page!Refuse, Page!Asked, Page!Goes, Page!Done, Page!Closes, AnsweredAtOnce
<1>5. QED
  BY <1>2, <1>3, <1>4

\* The requests that only read, and the diagnostic, are answered at once.
LEMMA SimpleAnswered == ASSUME Page!Inductive, Page!Simple PROVE AnsweredAtOnce
<1>1. page = "none" => wire = "nothing" /\ ~lost
  BY DEF Page!Inductive, Page!AnswerSoFar

<1>2. CASE Page!InfoGet \/ Page!StartTimeGet \/ Page!StatusFlow \/ Page!CpuTemp \/ Page!Uptime
           \/ Page!GetHeap \/ Page!FlowStart \/ Page!SysInfo \/ Page!CycleTiming \/
           Page!ArchiveStatus \/ Page!HistoryStatus \/ Page!TestStatus \/ Page!FrameTestStatus
           \/ Page!OtaHealth \/ Page!StreamIntensity \/ Page!Rssi \/ Page!FrameTestStart \/
           Page!Capture \/ Page!CaptureLit \/ Page!CaptureSave
  BY <1>2, Replied DEF Page!InfoGet, Page!StartTimeGet, Page!StatusFlow, Page!CpuTemp,
       Page!Uptime, Page!GetHeap, Page!FlowStart, Page!SysInfo, Page!CycleTiming,
       Page!ArchiveStatus, Page!HistoryStatus, Page!TestStatus, Page!FrameTestStatus,
       Page!OtaHealth, Page!StreamIntensity, Page!Rssi, Page!FrameTestStart, Page!Capture,
       Page!CaptureLit, Page!CaptureSave
<1>3. CASE Page!CurrentDate
  BY <1>1, <1>3 DEF Page!CurrentDate, Page!Asked, Page!Goes, Page!Done, Page!Whole, Page!Last,
       AnsweredAtOnce
<1>4. QED
  BY <1>2, <1>3 DEF Page!Simple

\* What is answered at once keeps the invariant whatever becomes of the card and the camera.
LEMMA AnsweredKeeps ==
  ASSUME Page!Inductive, AnsweredAtOnce, UNCHANGED <<status, rounds, created, panic, at, safe, post, alg>>,
         testing' \in BOOLEAN, camera' \in {"free", "flow", "web"}, onCard' \subseteq {"placeholders", "saved"}
  PROVE  Page!Inductive'
<1>0. rounds \in 0..Rounds /\ Page!FlowTypes /\ Page!RequestTypes /\ Page!Flags /\ Page!RoundsCounted
  BY DEF Page!Inductive, Page!TypeOK
<1>a. Page!FlowTypes'
  BY <1>0 DEF Page!FlowTypes
<1>b. Page!RequestTypes'
  BY <1>0 DEF Page!RequestTypes, AnsweredAtOnce
<1>c. Page!Flags'
  BY <1>0 DEF Page!Flags, AnsweredAtOnce
<1>1. Page!TypeOK'
  BY <1>0, <1>a, <1>b, <1>c DEF Page!TypeOK
<1>2. Page!RepliesWhole' /\ Page!PageComplete' /\ Page!ReadyStaysUp' /\ Page!ValuesStay'
  BY DEF Page!RepliesWhole, Page!Answered, Page!Doubled, Page!Unanswered, Page!PageComplete,
       Page!ReadyStaysUp, Page!ValuesStay, AnsweredAtOnce
<1>3. Page!AnswerSoFar'
  BY DEF Page!AnswerSoFar, AnsweredAtOnce
<1>4. Page!RoundsCounted'
  BY <1>0 DEF Page!RoundsCounted
<1>5. QED
  BY <1>1, <1>2, <1>3, <1>4 DEF Page!Inductive, Page!PagesTrue

\* The flow task counts its round before it does anything else.
LEMMA PagesFlowKeeps == ASSUME Page!WebPagesAssumption, Page!Inductive, step # "crashed", Page!FlowTask PROVE Page!Inductive'
<1>0. /\ rounds \in 0..Rounds /\ Page!FlowTypes /\ Page!RequestTypes /\ Page!Flags /\ Page!RepliesWhole /\ Page!PageComplete /\ Page!ReadyStaysUp
      /\ Page!AnswerSoFar /\ Page!RoundsCounted /\ Page!ValuesStay
  BY DEF Page!Inductive, Page!TypeOK, Page!PagesTrue
<1>1. CASE Page!TaskStarts
  <2>1. Page!FlowTypes'
    BY <1>0, <1>1 DEF Page!TaskStarts, Page!request, Page!FlowTypes, Page!Stages, Page!Early,
         Page!Results, Page!WebPagesAssumption
  <2>2. Page!RequestTypes'
    BY <1>0, <1>1 DEF Page!TaskStarts, Page!request, Page!RequestTypes
  <2>3. Page!Flags'
    BY <1>0, <1>1 DEF Page!TaskStarts, Page!request, Page!Flags
  <2>4. Page!RepliesWhole' /\ Page!AnswerSoFar'
    BY <1>0, <1>1 DEF Page!TaskStarts, Page!request, Page!RepliesWhole, Page!Answered,
         Page!Doubled, Page!Unanswered, Page!AnswerSoFar
  <2>a. rounds' = rounds
    BY <1>0, <1>1 DEF Page!TaskStarts
  <2>5. rounds' \in 0..Rounds
    BY <1>0, <2>a DEF Page!WebPagesAssumption
  <2>6. Page!ReadyStaysUp' /\ Page!RoundsCounted'
    BY <1>0, <1>1, <2>a DEF Page!TaskStarts, Page!request, Page!ReadyStaysUp, Page!RoundsCounted
  <2>b. at = "start"
    BY <1>1 DEF Page!TaskStarts, Page!request
  <2>w. ~Page!Waits => ~Page!Waits'
    BY <1>0, <2>a, <2>b DEF Page!Waits, Page!RoundsCounted
  <2>c. UNCHANGED <<step, shown>>
    BY <1>1 DEF Page!TaskStarts, Page!request
  <2>7. Page!PageComplete' /\ Page!ValuesStay'
    BY <1>0, <2>w, <2>c DEF Page!PageComplete, Page!ValuesStay
  <2>8. QED
    BY <2>1, <2>2, <2>3, <2>4, <2>5, <2>6, <2>7 DEF Page!Inductive, Page!TypeOK, Page!PagesTrue
<1>2. CASE Page!DelayEnds
  <2>1. Page!FlowTypes'
    BY <1>0, <1>2 DEF Page!DelayEnds, Page!request, Page!FlowTypes, Page!Stages, Page!Early,
         Page!Results, Page!WebPagesAssumption
  <2>2. Page!RequestTypes'
    BY <1>0, <1>2 DEF Page!DelayEnds, Page!request, Page!RequestTypes
  <2>3. Page!Flags'
    BY <1>0, <1>2 DEF Page!DelayEnds, Page!request, Page!Flags
  <2>4. Page!RepliesWhole' /\ Page!AnswerSoFar'
    BY <1>0, <1>2 DEF Page!DelayEnds, Page!request, Page!RepliesWhole, Page!Answered,
         Page!Doubled, Page!Unanswered, Page!AnswerSoFar
  <2>a. rounds' = rounds
    BY <1>0, <1>2 DEF Page!DelayEnds
  <2>5. rounds' \in 0..Rounds
    BY <1>0, <2>a DEF Page!WebPagesAssumption
  <2>6. Page!ReadyStaysUp' /\ Page!RoundsCounted'
    BY <1>0, <1>2, <2>a DEF Page!DelayEnds, Page!request, Page!ReadyStaysUp, Page!RoundsCounted
  <2>b. at = "delay"
    BY <1>2 DEF Page!DelayEnds, Page!request
  <2>w. ~Page!Waits => ~Page!Waits'
    BY <1>0, <2>a, <2>b DEF Page!Waits, Page!RoundsCounted
  <2>c. UNCHANGED <<step, shown>>
    BY <1>2 DEF Page!DelayEnds, Page!request
  <2>7. Page!PageComplete' /\ Page!ValuesStay'
    BY <1>0, <2>w, <2>c DEF Page!PageComplete, Page!ValuesStay
  <2>8. QED
    BY <2>1, <2>2, <2>3, <2>4, <2>5, <2>6, <2>7 DEF Page!Inductive, Page!TypeOK, Page!PagesTrue
<1>3. CASE Page!InitFlow
  <2>1. Page!FlowTypes'
    BY <1>0, <1>3 DEF Page!InitFlow, Page!request, Page!WebProcesses, Page!ConfigurationFails,
         Page!ConfigurationRead, Page!FlowTypes, Page!Stages, Page!Early, Page!Results,
         Page!WebPagesAssumption
  <2>2. Page!RequestTypes'
    BY <1>0, <1>3 DEF Page!InitFlow, Page!request, Page!WebProcesses, Page!ConfigurationFails,
         Page!ConfigurationRead, Page!RequestTypes
  <2>3. Page!Flags'
    BY <1>0, <1>3 DEF Page!InitFlow, Page!request, Page!WebProcesses, Page!ConfigurationFails,
         Page!ConfigurationRead, Page!Flags
  <2>4. Page!RepliesWhole' /\ Page!AnswerSoFar'
    BY <1>0, <1>3 DEF Page!InitFlow, Page!request, Page!WebProcesses, Page!ConfigurationFails,
         Page!ConfigurationRead, Page!RepliesWhole, Page!Answered, Page!Doubled, Page!Unanswered,
         Page!AnswerSoFar
  <2>a. rounds' = rounds
    BY <1>0, <1>3 DEF Page!InitFlow
  <2>5. rounds' \in 0..Rounds
    BY <1>0, <2>a DEF Page!WebPagesAssumption
  <2>6. Page!ReadyStaysUp' /\ Page!RoundsCounted'
    BY <1>0, <1>3, <2>a DEF Page!InitFlow, Page!request, Page!WebProcesses,
         Page!ConfigurationFails, Page!ConfigurationRead, Page!ReadyStaysUp, Page!RoundsCounted
  <2>b. at = "init"
    BY <1>3 DEF Page!InitFlow, Page!request, Page!WebProcesses, Page!ConfigurationFails,
         Page!ConfigurationRead
  <2>w. ~Page!Waits => ~Page!Waits'
    BY <1>0, <2>a, <2>b DEF Page!Waits, Page!RoundsCounted
  <2>c. UNCHANGED <<step, shown>>
    BY <1>3 DEF Page!InitFlow, Page!request
  <2>7. Page!PageComplete' /\ Page!ValuesStay'
    BY <1>0, <2>w, <2>c DEF Page!PageComplete, Page!ValuesStay
  <2>8. QED
    BY <2>1, <2>2, <2>3, <2>4, <2>5, <2>6, <2>7 DEF Page!Inductive, Page!TypeOK, Page!PagesTrue
<1>4. CASE Page!InitReads
  <2>1. Page!FlowTypes'
    BY <1>0, <1>4 DEF Page!InitReads, Page!request, Page!ConfigurationFails, Page!StagesMade,
         Page!FlowTypes, Page!Stages, Page!Early, Page!Results, Page!WebPagesAssumption
  <2>2. Page!RequestTypes'
    BY <1>0, <1>4 DEF Page!InitReads, Page!request, Page!ConfigurationFails, Page!StagesMade,
         Page!RequestTypes
  <2>3. Page!Flags'
    BY <1>0, <1>4 DEF Page!InitReads, Page!request, Page!ConfigurationFails, Page!StagesMade,
         Page!Flags
  <2>4. Page!RepliesWhole' /\ Page!AnswerSoFar'
    BY <1>0, <1>4 DEF Page!InitReads, Page!request, Page!ConfigurationFails, Page!StagesMade,
         Page!RepliesWhole, Page!Answered, Page!Doubled, Page!Unanswered, Page!AnswerSoFar
  <2>a. rounds' = rounds
    BY <1>0, <1>4 DEF Page!InitReads
  <2>5. rounds' \in 0..Rounds
    BY <1>0, <2>a DEF Page!WebPagesAssumption
  <2>6. Page!ReadyStaysUp' /\ Page!RoundsCounted'
    BY <1>0, <1>4, <2>a DEF Page!InitReads, Page!request, Page!ConfigurationFails,
         Page!StagesMade, Page!ReadyStaysUp, Page!RoundsCounted
  <2>b. at = "reading"
    BY <1>4 DEF Page!InitReads, Page!request, Page!ConfigurationFails, Page!StagesMade
  <2>w. ~Page!Waits => ~Page!Waits'
    BY <1>0, <2>a, <2>b DEF Page!Waits, Page!RoundsCounted
  <2>c. UNCHANGED <<step, shown>>
    BY <1>4 DEF Page!InitReads, Page!request
  <2>7. Page!PageComplete' /\ Page!ValuesStay'
    BY <1>0, <2>w, <2>c DEF Page!PageComplete, Page!ValuesStay
  <2>8. QED
    BY <2>1, <2>2, <2>3, <2>4, <2>5, <2>6, <2>7 DEF Page!Inductive, Page!TypeOK, Page!PagesTrue
<1>5. CASE Page!RoundBegins
  <2>1. Page!FlowTypes'
    BY <1>0, <1>5 DEF Page!RoundBegins, Page!request, Page!WebProcesses, Page!FlowTypes,
         Page!Stages, Page!Early, Page!Results, Page!WebPagesAssumption
  <2>2. Page!RequestTypes'
    BY <1>0, <1>5 DEF Page!RoundBegins, Page!request, Page!WebProcesses, Page!RequestTypes
  <2>3. Page!Flags'
    BY <1>0, <1>5 DEF Page!RoundBegins, Page!request, Page!WebProcesses, Page!Flags
  <2>4. Page!RepliesWhole' /\ Page!AnswerSoFar'
    BY <1>0, <1>5 DEF Page!RoundBegins, Page!request, Page!WebProcesses, Page!RepliesWhole,
         Page!Answered, Page!Doubled, Page!Unanswered, Page!AnswerSoFar
  <2>a. rounds' = rounds + 1 /\ rounds < Rounds
    BY <1>0, <1>5 DEF Page!RoundBegins, Page!request, Page!WebProcesses
  <2>5. rounds' \in 0..Rounds
    BY <1>0, <2>a DEF Page!WebPagesAssumption
  <2>d. at = "idle" /\ at' \in {"idle", "begun"} /\ UNCHANGED <<status, step, post>>
    BY <1>0, <1>5 DEF Page!RoundBegins, Page!request
  <2>6. Page!ReadyStaysUp' /\ Page!RoundsCounted'
    BY <1>0, <2>a, <2>d DEF Page!ReadyStaysUp, Page!RoundsCounted
  <2>b. status' = status
    BY <1>5 DEF Page!RoundBegins, Page!request, Page!WebProcesses
  <2>w. ~Page!Waits => ~Page!Waits'
    BY <1>0, <2>a, <2>b DEF Page!Waits, Page!RoundsCounted
  <2>c. UNCHANGED <<step, shown>>
    BY <1>5 DEF Page!RoundBegins, Page!request
  <2>7. Page!PageComplete' /\ Page!ValuesStay'
    BY <1>0, <2>w, <2>c DEF Page!PageComplete, Page!ValuesStay
  <2>8. QED
    BY <2>1, <2>2, <2>3, <2>4, <2>5, <2>6, <2>7 DEF Page!Inductive, Page!TypeOK, Page!PagesTrue
<1>6. CASE Page!StageStarts
  <2>1. Page!FlowTypes'
    BY <1>0, <1>6 DEF Page!StageStarts, Page!request, Page!After, Page!FlowTypes, Page!Stages,
         Page!Early, Page!Results, Page!WebPagesAssumption
  <2>2. Page!RequestTypes'
    BY <1>0, <1>6 DEF Page!StageStarts, Page!request, Page!After, Page!RequestTypes, Page!Stages
  <2>3. Page!Flags'
    BY <1>0, <1>6 DEF Page!StageStarts, Page!request, Page!After, Page!Flags
  <2>4. Page!RepliesWhole' /\ Page!AnswerSoFar'
    BY <1>0, <1>6 DEF Page!StageStarts, Page!request, Page!After, Page!RepliesWhole,
         Page!Answered, Page!Doubled, Page!Unanswered, Page!AnswerSoFar
  <2>a. rounds' = rounds
    BY <1>0, <1>6 DEF Page!StageStarts
  <2>5. rounds' \in 0..Rounds
    BY <1>0, <2>a DEF Page!WebPagesAssumption
  <2>6. Page!ReadyStaysUp' /\ Page!RoundsCounted'
    BY <1>0, <1>6, <2>a DEF Page!StageStarts, Page!request, Page!After, Page!ReadyStaysUp,
         Page!RoundsCounted, Page!Stages
  <2>b. at \notin {"start", "delay", "init", "reading", "idle"}
    BY <1>6 DEF Page!StageStarts, Page!request, Page!After, Page!Stages
  <2>w. ~Page!Waits => ~Page!Waits'
    BY <1>0, <2>a, <2>b DEF Page!Waits, Page!RoundsCounted
  <2>c. UNCHANGED <<step, shown>>
    BY <1>6 DEF Page!StageStarts, Page!request
  <2>7. Page!PageComplete' /\ Page!ValuesStay'
    BY <1>0, <2>w, <2>c DEF Page!PageComplete, Page!ValuesStay
  <2>8. QED
    BY <2>1, <2>2, <2>3, <2>4, <2>5, <2>6, <2>7 DEF Page!Inductive, Page!TypeOK, Page!PagesTrue
<1>7. CASE Page!TakesCamera
  <2>1. Page!FlowTypes'
    BY <1>0, <1>7 DEF Page!TakesCamera, Page!request, Page!FlowTypes, Page!Stages, Page!Early,
         Page!Results, Page!WebPagesAssumption
  <2>2. Page!RequestTypes'
    BY <1>0, <1>7 DEF Page!TakesCamera, Page!request, Page!RequestTypes
  <2>3. Page!Flags'
    BY <1>0, <1>7 DEF Page!TakesCamera, Page!request, Page!Flags
  <2>4. Page!RepliesWhole' /\ Page!AnswerSoFar'
    BY <1>0, <1>7 DEF Page!TakesCamera, Page!request, Page!RepliesWhole, Page!Answered,
         Page!Doubled, Page!Unanswered, Page!AnswerSoFar
  <2>a. rounds' = rounds
    BY <1>0, <1>7 DEF Page!TakesCamera
  <2>5. rounds' \in 0..Rounds
    BY <1>0, <2>a DEF Page!WebPagesAssumption
  <2>6. Page!ReadyStaysUp' /\ Page!RoundsCounted'
    BY <1>0, <1>7, <2>a DEF Page!TakesCamera, Page!request, Page!ReadyStaysUp, Page!RoundsCounted
  <2>b. at \notin {"start", "delay", "init", "reading", "idle"}
    BY <1>7 DEF Page!TakesCamera, Page!request
  <2>w. ~Page!Waits => ~Page!Waits'
    BY <1>0, <2>a, <2>b DEF Page!Waits, Page!RoundsCounted
  <2>c. UNCHANGED <<step, shown>>
    BY <1>7 DEF Page!TakesCamera, Page!request
  <2>7. Page!PageComplete' /\ Page!ValuesStay'
    BY <1>0, <2>w, <2>c DEF Page!PageComplete, Page!ValuesStay
  <2>8. QED
    BY <2>1, <2>2, <2>3, <2>4, <2>5, <2>6, <2>7 DEF Page!Inductive, Page!TypeOK, Page!PagesTrue
<1>8. CASE Page!StageDone
  <2>1. Page!FlowTypes'
    BY <1>0, <1>8 DEF Page!StageDone, Page!request, Page!FlowTypes, Page!Stages, Page!Early,
         Page!Results, Page!WebPagesAssumption
  <2>2. Page!RequestTypes'
    BY <1>0, <1>8 DEF Page!StageDone, Page!request, Page!RequestTypes
  <2>3. Page!Flags'
    BY <1>0, <1>8 DEF Page!StageDone, Page!request, Page!Flags
  <2>4. Page!RepliesWhole' /\ Page!AnswerSoFar'
    BY <1>0, <1>8 DEF Page!StageDone, Page!request, Page!RepliesWhole, Page!Answered,
         Page!Doubled, Page!Unanswered, Page!AnswerSoFar
  <2>a. rounds' = rounds
    BY <1>0, <1>8 DEF Page!StageDone
  <2>5. rounds' \in 0..Rounds
    BY <1>0, <2>a DEF Page!WebPagesAssumption
  <2>6. Page!ReadyStaysUp' /\ Page!RoundsCounted'
    BY <1>0, <1>8, <2>a DEF Page!StageDone, Page!request, Page!ReadyStaysUp, Page!RoundsCounted
  <2>b. at \notin {"start", "delay", "init", "reading", "idle"}
    BY <1>8 DEF Page!StageDone, Page!request
  <2>w. ~Page!Waits => ~Page!Waits'
    BY <1>0, <2>a, <2>b DEF Page!Waits, Page!RoundsCounted
  <2>c. UNCHANGED <<step, shown>>
    BY <1>8 DEF Page!StageDone, Page!request
  <2>7. Page!PageComplete' /\ Page!ValuesStay'
    BY <1>0, <2>w, <2>c DEF Page!PageComplete, Page!ValuesStay
  <2>8. QED
    BY <2>1, <2>2, <2>3, <2>4, <2>5, <2>6, <2>7 DEF Page!Inductive, Page!TypeOK, Page!PagesTrue
<1>9. CASE Page!StageFails
  <2>1. Page!FlowTypes'
    BY <1>0, <1>9 DEF Page!StageFails, Page!request, Page!FlowTypes, Page!Stages, Page!Early,
         Page!Results, Page!WebPagesAssumption
  <2>2. Page!RequestTypes'
    BY <1>0, <1>9 DEF Page!StageFails, Page!request, Page!RequestTypes, Page!Stages
  <2>3. Page!Flags'
    BY <1>0, <1>9 DEF Page!StageFails, Page!request, Page!Flags
  <2>4. Page!RepliesWhole' /\ Page!AnswerSoFar'
    BY <1>0, <1>9 DEF Page!StageFails, Page!request, Page!RepliesWhole, Page!Answered,
         Page!Doubled, Page!Unanswered, Page!AnswerSoFar
  <2>a. rounds' = rounds
    BY <1>0, <1>9 DEF Page!StageFails
  <2>5. rounds' \in 0..Rounds
    BY <1>0, <2>a DEF Page!WebPagesAssumption
  <2>6. Page!ReadyStaysUp' /\ Page!RoundsCounted'
    BY <1>0, <1>9, <2>a DEF Page!StageFails, Page!request, Page!ReadyStaysUp, Page!RoundsCounted,
         Page!Stages
  <2>b. at \notin {"start", "delay", "init", "reading", "idle"}
    BY <1>9 DEF Page!StageFails, Page!request, Page!Stages
  <2>w. ~Page!Waits => ~Page!Waits'
    BY <1>0, <2>a, <2>b DEF Page!Waits, Page!RoundsCounted
  <2>c. UNCHANGED <<step, shown>>
    BY <1>9 DEF Page!StageFails, Page!request
  <2>7. Page!PageComplete' /\ Page!ValuesStay'
    BY <1>0, <2>w, <2>c DEF Page!PageComplete, Page!ValuesStay
  <2>8. QED
    BY <2>1, <2>2, <2>3, <2>4, <2>5, <2>6, <2>7 DEF Page!Inductive, Page!TypeOK, Page!PagesTrue
<1>10. QED
  BY <1>1, <1>2, <1>3, <1>4, <1>5, <1>6, <1>7, <1>8, <1>9 DEF Page!FlowTask

\* A page of values that is answered piece by piece.
LEMMA PagesReadingsKeep == ASSUME Page!WebPagesAssumption, Page!Inductive, step # "crashed", Page!Readings PROVE Page!Inductive'
<1>0. /\ rounds \in 0..Rounds /\ Page!FlowTypes /\ Page!RequestTypes /\ Page!Flags /\ Page!RepliesWhole /\ Page!PageComplete /\ Page!ReadyStaysUp
      /\ Page!AnswerSoFar /\ Page!RoundsCounted /\ Page!ValuesStay
  BY DEF Page!Inductive, Page!TypeOK, Page!PagesTrue
<1>1. CASE Page!Json
  <2>1. Page!FlowTypes'
    BY <1>0, <1>1 DEF Page!Json, Page!Answer, Page!Refuse, Page!Frame, Page!Crash, Page!Asked,
         Page!Goes, Page!Done, Page!Closes, Page!flow, Page!FlowTypes, Page!Stages, Page!Early,
         Page!Results, Page!WebPagesAssumption
  <2>2. Page!RequestTypes'
    BY <1>0, <1>1 DEF Page!Json, Page!Answer, Page!Refuse, Page!Frame, Page!Crash, Page!Asked,
         Page!Goes, Page!Done, Page!Closes, Page!flow, Page!RequestTypes
  <2>3. Page!Flags'
    BY <1>0, <1>1 DEF Page!Json, Page!Answer, Page!Refuse, Page!Frame, Page!Crash, Page!Asked,
         Page!Goes, Page!Done, Page!Closes, Page!flow, Page!Flags
  <2>4. Page!RepliesWhole' /\ Page!AnswerSoFar'
    BY <1>0, <1>1 DEF Page!Json, Page!Answer, Page!Refuse, Page!Frame, Page!Crash, Page!Asked,
         Page!Goes, Page!Done, Page!Closes, Page!flow, Page!RepliesWhole, Page!Answered,
         Page!Doubled, Page!Unanswered, Page!AnswerSoFar
  <2>a. rounds' = rounds
    BY <1>0, <1>1 DEF Page!Json, Page!Frame, Page!Crash, Page!flow
  <2>5. rounds' \in 0..Rounds
    BY <1>0, <2>a DEF Page!WebPagesAssumption
  <2>6. Page!ReadyStaysUp' /\ Page!RoundsCounted'
    BY <1>0, <1>1, <2>a DEF Page!Json, Page!Answer, Page!Refuse, Page!Frame, Page!Crash,
         Page!Asked, Page!Goes, Page!Done, Page!Closes, Page!flow, Page!ReadyStaysUp,
         Page!RoundsCounted, Page!FlowTypes
  <2>7. Page!PageComplete' /\ Page!ValuesStay'
    BY <1>0, <1>1 DEF Page!Json, Page!Answer, Page!Refuse, Page!Frame, Page!Crash, Page!Asked,
         Page!Goes, Page!Done, Page!Closes, Page!flow, Page!PageComplete, Page!ValuesStay,
         Page!Waits
  <2>8. QED
    BY <2>1, <2>2, <2>3, <2>4, <2>5, <2>6, <2>7 DEF Page!Inductive, Page!TypeOK, Page!PagesTrue
<1>2. CASE Page!OpenMetrics
  <2>1. Page!FlowTypes'
    BY <1>0, <1>2 DEF Page!OpenMetrics, Page!Answer, Page!Refuse, Page!Frame, Page!Crash,
         Page!Asked, Page!Goes, Page!Done, Page!Closes, Page!flow, Page!FlowTypes, Page!Stages,
         Page!Early, Page!Results, Page!WebPagesAssumption
  <2>2. Page!RequestTypes'
    BY <1>0, <1>2 DEF Page!OpenMetrics, Page!Answer, Page!Refuse, Page!Frame, Page!Crash,
         Page!Asked, Page!Goes, Page!Done, Page!Closes, Page!flow, Page!RequestTypes
  <2>3. Page!Flags'
    BY <1>0, <1>2 DEF Page!OpenMetrics, Page!Answer, Page!Refuse, Page!Frame, Page!Crash,
         Page!Asked, Page!Goes, Page!Done, Page!Closes, Page!flow, Page!Flags
  <2>4. Page!RepliesWhole' /\ Page!AnswerSoFar'
    BY <1>0, <1>2 DEF Page!OpenMetrics, Page!Answer, Page!Refuse, Page!Frame, Page!Crash,
         Page!Asked, Page!Goes, Page!Done, Page!Closes, Page!flow, Page!RepliesWhole,
         Page!Answered, Page!Doubled, Page!Unanswered, Page!AnswerSoFar
  <2>a. rounds' = rounds
    BY <1>0, <1>2 DEF Page!OpenMetrics, Page!Frame, Page!Crash, Page!flow
  <2>5. rounds' \in 0..Rounds
    BY <1>0, <2>a DEF Page!WebPagesAssumption
  <2>6. Page!ReadyStaysUp' /\ Page!RoundsCounted'
    BY <1>0, <1>2, <2>a DEF Page!OpenMetrics, Page!Answer, Page!Refuse, Page!Frame, Page!Crash,
         Page!Asked, Page!Goes, Page!Done, Page!Closes, Page!flow, Page!ReadyStaysUp,
         Page!RoundsCounted, Page!FlowTypes
  <2>7. Page!PageComplete' /\ Page!ValuesStay'
    BY <1>0, <1>2 DEF Page!OpenMetrics, Page!Answer, Page!Refuse, Page!Frame, Page!Crash,
         Page!Asked, Page!Goes, Page!Done, Page!Closes, Page!flow, Page!PageComplete,
         Page!ValuesStay, Page!Waits
  <2>8. QED
    BY <2>1, <2>2, <2>3, <2>4, <2>5, <2>6, <2>7 DEF Page!Inductive, Page!TypeOK, Page!PagesTrue
<1>3. CASE Page!ValueAll
  <2>1. Page!FlowTypes'
    BY <1>0, <1>3 DEF Page!ValueAll, Page!Passes, Page!Frame, Page!Asked, Page!Goes, Page!Done,
         Page!flow, Page!FlowTypes, Page!Stages, Page!Early, Page!Results, Page!WebPagesAssumption
  <2>2. Page!RequestTypes'
    BY <1>0, <1>3 DEF Page!ValueAll, Page!Passes, Page!Frame, Page!Asked, Page!Goes, Page!Done,
         Page!flow, Page!RequestTypes
  <2>3. Page!Flags'
    BY <1>0, <1>3 DEF Page!ValueAll, Page!Passes, Page!Frame, Page!Asked, Page!Goes, Page!Done,
         Page!flow, Page!Flags
  <2>4. Page!RepliesWhole' /\ Page!AnswerSoFar'
    BY <1>0, <1>3 DEF Page!ValueAll, Page!Passes, Page!Frame, Page!Asked, Page!Goes, Page!Done,
         Page!flow, Page!RepliesWhole, Page!Answered, Page!Doubled, Page!Unanswered,
         Page!AnswerSoFar
  <2>a. rounds' = rounds
    BY <1>0, <1>3 DEF Page!ValueAll, Page!Frame, Page!flow
  <2>5. rounds' \in 0..Rounds
    BY <1>0, <2>a DEF Page!WebPagesAssumption
  <2>6. Page!ReadyStaysUp' /\ Page!RoundsCounted'
    BY <1>0, <1>3, <2>a DEF Page!ValueAll, Page!Passes, Page!Frame, Page!Asked, Page!Goes,
         Page!Done, Page!flow, Page!ReadyStaysUp, Page!RoundsCounted, Page!FlowTypes
  <2>7. Page!PageComplete' /\ Page!ValuesStay'
    BY <1>0, <1>3 DEF Page!ValueAll, Page!Passes, Page!Frame, Page!Asked, Page!Goes, Page!Done,
         Page!flow, Page!PageComplete, Page!ValuesStay, Page!Waits
  <2>8. QED
    BY <2>1, <2>2, <2>3, <2>4, <2>5, <2>6, <2>7 DEF Page!Inductive, Page!TypeOK, Page!PagesTrue
<1>4. CASE Page!Value
  <2>1. Page!FlowTypes'
    BY <1>0, <1>4 DEF Page!Value, Page!Piece, Page!Last, Page!Asked, Page!Goes, Page!Done,
         Page!Passes, Page!Frame, Page!Crash, Page!Reading, Page!flow, Page!FlowTypes,
         Page!Stages, Page!Early, Page!Results, Page!WebPagesAssumption
  <2>2. Page!RequestTypes'
    BY <1>0, <1>4 DEF Page!Value, Page!Piece, Page!Last, Page!Asked, Page!Goes, Page!Done,
         Page!Passes, Page!Frame, Page!Crash, Page!Reading, Page!flow, Page!RequestTypes
  <2>3. Page!Flags'
    BY <1>0, <1>4 DEF Page!Value, Page!Piece, Page!Last, Page!Asked, Page!Goes, Page!Done,
         Page!Passes, Page!Frame, Page!Crash, Page!Reading, Page!flow, Page!Flags
  <2>4. Page!RepliesWhole' /\ Page!AnswerSoFar'
    BY <1>0, <1>4 DEF Page!Value, Page!Piece, Page!Last, Page!Asked, Page!Goes, Page!Done,
         Page!Passes, Page!Frame, Page!Crash, Page!Reading, Page!flow, Page!RepliesWhole,
         Page!Answered, Page!Doubled, Page!Unanswered, Page!AnswerSoFar
  <2>a. rounds' = rounds
    BY <1>0, <1>4 DEF Page!Value, Page!Frame, Page!Crash, Page!flow
  <2>5. rounds' \in 0..Rounds
    BY <1>0, <2>a DEF Page!WebPagesAssumption
  <2>6. Page!ReadyStaysUp' /\ Page!RoundsCounted'
    BY <1>0, <1>4, <2>a DEF Page!Value, Page!Piece, Page!Last, Page!Asked, Page!Goes, Page!Done,
         Page!Passes, Page!Frame, Page!Crash, Page!Reading, Page!flow, Page!ReadyStaysUp,
         Page!RoundsCounted, Page!FlowTypes
  <2>7. Page!PageComplete' /\ Page!ValuesStay'
    BY <1>0, <1>4 DEF Page!Value, Page!Piece, Page!Last, Page!Asked, Page!Goes, Page!Done,
         Page!Passes, Page!Frame, Page!Crash, Page!Reading, Page!flow, Page!PageComplete,
         Page!ValuesStay, Page!Waits
  <2>8. QED
    BY <2>1, <2>2, <2>3, <2>4, <2>5, <2>6, <2>7 DEF Page!Inductive, Page!TypeOK, Page!PagesTrue
<1>5. CASE Page!PageBegins
  <2>1. Page!FlowTypes'
    BY <1>0, <1>5 DEF Page!PageBegins, Page!Piece, Page!Asked, Page!Goes, Page!Frame, Page!Waits,
         Page!flow, Page!FlowTypes, Page!Stages, Page!Early, Page!Results, Page!WebPagesAssumption
  <2>2. Page!RequestTypes'
    BY <1>0, <1>5 DEF Page!PageBegins, Page!Piece, Page!Asked, Page!Goes, Page!Frame, Page!Waits,
         Page!flow, Page!RequestTypes
  <2>3. Page!Flags'
    BY <1>0, <1>5 DEF Page!PageBegins, Page!Piece, Page!Asked, Page!Goes, Page!Frame, Page!Waits,
         Page!flow, Page!Flags
  <2>4. Page!RepliesWhole' /\ Page!AnswerSoFar'
    BY <1>0, <1>5 DEF Page!PageBegins, Page!Piece, Page!Asked, Page!Goes, Page!Frame, Page!Waits,
         Page!flow, Page!RepliesWhole, Page!Answered, Page!Doubled, Page!Unanswered,
         Page!AnswerSoFar
  <2>a. rounds' = rounds
    BY <1>0, <1>5 DEF Page!PageBegins, Page!Frame, Page!flow
  <2>5. rounds' \in 0..Rounds
    BY <1>0, <2>a DEF Page!WebPagesAssumption
  <2>6. Page!ReadyStaysUp' /\ Page!RoundsCounted'
    BY <1>0, <1>5, <2>a DEF Page!PageBegins, Page!Piece, Page!Asked, Page!Goes, Page!Frame,
         Page!Waits, Page!flow, Page!ReadyStaysUp, Page!RoundsCounted, Page!FlowTypes
  <2>7. Page!PageComplete' /\ Page!ValuesStay'
    BY <1>0, <1>5 DEF Page!PageBegins, Page!Piece, Page!Asked, Page!Goes, Page!Frame, Page!Waits,
         Page!flow, Page!PageComplete, Page!ValuesStay
  <2>8. QED
    BY <2>1, <2>2, <2>3, <2>4, <2>5, <2>6, <2>7 DEF Page!Inductive, Page!TypeOK, Page!PagesTrue
<1>6. CASE Page!PageReading
  <2>1. Page!FlowTypes'
    BY <1>0, <1>6 DEF Page!PageReading, Page!flow, Page!Piece, Page!Goes, Page!Reading,
         Page!FlowTypes, Page!Stages, Page!Early, Page!Results, Page!WebPagesAssumption
  <2>2. Page!RequestTypes'
    BY <1>0, <1>6 DEF Page!PageReading, Page!flow, Page!Piece, Page!Goes, Page!Reading,
         Page!RequestTypes
  <2>3. Page!Flags'
    BY <1>0, <1>6 DEF Page!PageReading, Page!flow, Page!Piece, Page!Goes, Page!Reading, Page!Flags
  <2>4. Page!RepliesWhole' /\ Page!AnswerSoFar'
    BY <1>0, <1>6 DEF Page!PageReading, Page!flow, Page!Piece, Page!Goes, Page!Reading,
         Page!RepliesWhole, Page!Answered, Page!Doubled, Page!Unanswered, Page!AnswerSoFar
  <2>a. rounds' = rounds
    BY <1>0, <1>6 DEF Page!PageReading, Page!flow
  <2>5. rounds' \in 0..Rounds
    BY <1>0, <2>a DEF Page!WebPagesAssumption
  <2>6. Page!ReadyStaysUp' /\ Page!RoundsCounted'
    BY <1>0, <1>6, <2>a DEF Page!PageReading, Page!flow, Page!Piece, Page!Goes, Page!Reading,
         Page!ReadyStaysUp, Page!RoundsCounted, Page!FlowTypes
  <2>7. Page!PageComplete' /\ Page!ValuesStay'
    BY <1>0, <1>6 DEF Page!PageReading, Page!flow, Page!Piece, Page!Goes, Page!Reading,
         Page!PageComplete, Page!ValuesStay, Page!Waits
  <2>8. QED
    BY <2>1, <2>2, <2>3, <2>4, <2>5, <2>6, <2>7 DEF Page!Inductive, Page!TypeOK, Page!PagesTrue
<1>7. CASE Page!PageTables
  <2>1. Page!FlowTypes'
    BY <1>0, <1>7 DEF Page!PageTables, Page!flow, Page!Piece, Page!Goes, Page!Waits,
         Page!SavesDials, Page!FlowTypes, Page!Stages, Page!Early, Page!Results,
         Page!WebPagesAssumption
  <2>2. Page!RequestTypes'
    BY <1>0, <1>7 DEF Page!PageTables, Page!flow, Page!Piece, Page!Goes, Page!Waits,
         Page!SavesDials, Page!RequestTypes
  <2>3. Page!Flags'
    BY <1>0, <1>7 DEF Page!PageTables, Page!flow, Page!Piece, Page!Goes, Page!Waits,
         Page!SavesDials, Page!Flags
  <2>4. Page!RepliesWhole' /\ Page!AnswerSoFar'
    BY <1>0, <1>7 DEF Page!PageTables, Page!flow, Page!Piece, Page!Goes, Page!Waits,
         Page!SavesDials, Page!RepliesWhole, Page!Answered, Page!Doubled, Page!Unanswered,
         Page!AnswerSoFar
  <2>a. rounds' = rounds
    BY <1>0, <1>7 DEF Page!PageTables, Page!flow
  <2>5. rounds' \in 0..Rounds
    BY <1>0, <2>a DEF Page!WebPagesAssumption
  <2>6. Page!ReadyStaysUp' /\ Page!RoundsCounted'
    BY <1>0, <1>7, <2>a DEF Page!PageTables, Page!flow, Page!Piece, Page!Goes, Page!Waits,
         Page!SavesDials, Page!ReadyStaysUp, Page!RoundsCounted, Page!FlowTypes
  <2>7. Page!PageComplete' /\ Page!ValuesStay'
    BY <1>0, <1>7 DEF Page!PageTables, Page!flow, Page!Piece, Page!Goes, Page!Waits,
         Page!SavesDials, Page!PageComplete, Page!ValuesStay
  <2>8. QED
    BY <2>1, <2>2, <2>3, <2>4, <2>5, <2>6, <2>7 DEF Page!Inductive, Page!TypeOK, Page!PagesTrue
<1>8. CASE Page!PagePicture
  <2>1. Page!FlowTypes'
    BY <1>0, <1>8 DEF Page!PagePicture, Page!flow, Page!Piece, Page!Goes, Page!FlowTypes,
         Page!Stages, Page!Early, Page!Results, Page!WebPagesAssumption
  <2>2. Page!RequestTypes'
    BY <1>0, <1>8 DEF Page!PagePicture, Page!flow, Page!Piece, Page!Goes, Page!RequestTypes
  <2>3. Page!Flags'
    BY <1>0, <1>8 DEF Page!PagePicture, Page!flow, Page!Piece, Page!Goes, Page!Flags
  <2>4. Page!RepliesWhole' /\ Page!AnswerSoFar'
    BY <1>0, <1>8 DEF Page!PagePicture, Page!flow, Page!Piece, Page!Goes, Page!RepliesWhole,
         Page!Answered, Page!Doubled, Page!Unanswered, Page!AnswerSoFar
  <2>a. rounds' = rounds
    BY <1>0, <1>8 DEF Page!PagePicture, Page!flow
  <2>5. rounds' \in 0..Rounds
    BY <1>0, <2>a DEF Page!WebPagesAssumption
  <2>6. Page!ReadyStaysUp' /\ Page!RoundsCounted'
    BY <1>0, <1>8, <2>a DEF Page!PagePicture, Page!flow, Page!Piece, Page!Goes, Page!ReadyStaysUp,
         Page!RoundsCounted, Page!FlowTypes
  <2>7. Page!PageComplete' /\ Page!ValuesStay'
    BY <1>0, <1>8 DEF Page!PagePicture, Page!flow, Page!Piece, Page!Goes, Page!PageComplete,
         Page!ValuesStay, Page!Waits
  <2>8. QED
    BY <2>1, <2>2, <2>3, <2>4, <2>5, <2>6, <2>7 DEF Page!Inductive, Page!TypeOK, Page!PagesTrue
<1>9. CASE Page!PageEnds
  <2>1. Page!FlowTypes'
    BY <1>0, <1>9 DEF Page!PageEnds, Page!flow, Page!Last, Page!Goes, Page!Done, Page!FlowTypes,
         Page!Stages, Page!Early, Page!Results, Page!WebPagesAssumption
  <2>2. Page!RequestTypes'
    BY <1>0, <1>9 DEF Page!PageEnds, Page!flow, Page!Last, Page!Goes, Page!Done, Page!RequestTypes
  <2>3. Page!Flags'
    BY <1>0, <1>9 DEF Page!PageEnds, Page!flow, Page!Last, Page!Goes, Page!Done, Page!Flags
  <2>4. Page!RepliesWhole' /\ Page!AnswerSoFar'
    BY <1>0, <1>9 DEF Page!PageEnds, Page!flow, Page!Last, Page!Goes, Page!Done,
         Page!RepliesWhole, Page!Answered, Page!Doubled, Page!Unanswered, Page!AnswerSoFar
  <2>a. rounds' = rounds
    BY <1>0, <1>9 DEF Page!PageEnds, Page!flow
  <2>5. rounds' \in 0..Rounds
    BY <1>0, <2>a DEF Page!WebPagesAssumption
  <2>6. Page!ReadyStaysUp' /\ Page!RoundsCounted'
    BY <1>0, <1>9, <2>a DEF Page!PageEnds, Page!flow, Page!Last, Page!Goes, Page!Done,
         Page!ReadyStaysUp, Page!RoundsCounted, Page!FlowTypes
  <2>7. Page!PageComplete' /\ Page!ValuesStay'
    BY <1>0, <1>9 DEF Page!PageEnds, Page!flow, Page!Last, Page!Goes, Page!Done,
         Page!PageComplete, Page!ValuesStay, Page!Waits
  <2>8. QED
    BY <2>1, <2>2, <2>3, <2>4, <2>5, <2>6, <2>7 DEF Page!Inductive, Page!TypeOK, Page!PagesTrue
<1>10. QED
  BY <1>1, <1>2, <1>3, <1>4, <1>5, <1>6, <1>7, <1>8, <1>9 DEF Page!Readings

\* Pictures, files, and requests that begin something.
LEMMA PagesRoundsKeep == ASSUME Page!WebPagesAssumption, Page!Inductive, step # "crashed", Page!FromRounds PROVE Page!Inductive'
<1>0. /\ rounds \in 0..Rounds /\ Page!FlowTypes /\ Page!RequestTypes /\ Page!Flags /\ Page!RepliesWhole /\ Page!PageComplete /\ Page!ReadyStaysUp
      /\ Page!AnswerSoFar /\ Page!RoundsCounted /\ Page!ValuesStay
  BY DEF Page!Inductive, Page!TypeOK, Page!PagesTrue
<1>1. CASE Page!StaticPage
  <2>1. Page!FlowTypes'
    BY <1>0, <1>1 DEF Page!StaticPage, Page!Piece, Page!Last, Page!Asked, Page!Goes, Page!Done,
         Page!Passes, Page!Frame, Page!flow, Page!FlowTypes, Page!Stages, Page!Early,
         Page!Results, Page!WebPagesAssumption
  <2>2. Page!RequestTypes'
    BY <1>0, <1>1 DEF Page!StaticPage, Page!Piece, Page!Last, Page!Asked, Page!Goes, Page!Done,
         Page!Passes, Page!Frame, Page!flow, Page!RequestTypes
  <2>3. Page!Flags'
    BY <1>0, <1>1 DEF Page!StaticPage, Page!Piece, Page!Last, Page!Asked, Page!Goes, Page!Done,
         Page!Passes, Page!Frame, Page!flow, Page!Flags
  <2>4. Page!RepliesWhole' /\ Page!AnswerSoFar'
    BY <1>0, <1>1 DEF Page!StaticPage, Page!Piece, Page!Last, Page!Asked, Page!Goes, Page!Done,
         Page!Passes, Page!Frame, Page!flow, Page!RepliesWhole, Page!Answered, Page!Doubled,
         Page!Unanswered, Page!AnswerSoFar
  <2>a. rounds' = rounds
    BY <1>0, <1>1 DEF Page!StaticPage, Page!Frame, Page!flow
  <2>5. rounds' \in 0..Rounds
    BY <1>0, <2>a DEF Page!WebPagesAssumption
  <2>6. Page!ReadyStaysUp' /\ Page!RoundsCounted'
    BY <1>0, <1>1, <2>a DEF Page!StaticPage, Page!Piece, Page!Last, Page!Asked, Page!Goes,
         Page!Done, Page!Passes, Page!Frame, Page!flow, Page!ReadyStaysUp, Page!RoundsCounted,
         Page!FlowTypes
  <2>7. Page!PageComplete' /\ Page!ValuesStay'
    BY <1>0, <1>1 DEF Page!StaticPage, Page!Piece, Page!Last, Page!Asked, Page!Goes, Page!Done,
         Page!Passes, Page!Frame, Page!flow, Page!PageComplete, Page!ValuesStay, Page!Waits
  <2>8. QED
    BY <2>1, <2>2, <2>3, <2>4, <2>5, <2>6, <2>7 DEF Page!Inductive, Page!TypeOK, Page!PagesTrue
<1>2. CASE Page!RawPicture
  <2>1. Page!FlowTypes'
    BY <1>0, <1>2 DEF Page!RawPicture, Page!Closes, Page!Passes, Page!Refuse, Page!Frame,
         Page!Silent, Page!Done, Page!Asked, Page!Goes, Page!flow, Page!FlowTypes, Page!Stages,
         Page!Early, Page!Results, Page!WebPagesAssumption
  <2>2. Page!RequestTypes'
    BY <1>0, <1>2 DEF Page!RawPicture, Page!Closes, Page!Passes, Page!Refuse, Page!Frame,
         Page!Silent, Page!Done, Page!Asked, Page!Goes, Page!flow, Page!RequestTypes
  <2>3. Page!Flags'
    BY <1>0, <1>2 DEF Page!RawPicture, Page!Closes, Page!Passes, Page!Refuse, Page!Frame,
         Page!Silent, Page!Done, Page!Asked, Page!Goes, Page!flow, Page!Flags
  <2>4. Page!RepliesWhole' /\ Page!AnswerSoFar'
    BY <1>0, <1>2 DEF Page!RawPicture, Page!Closes, Page!Passes, Page!Refuse, Page!Frame,
         Page!Silent, Page!Done, Page!Asked, Page!Goes, Page!flow, Page!RepliesWhole,
         Page!Answered, Page!Doubled, Page!Unanswered, Page!AnswerSoFar
  <2>a. rounds' = rounds
    BY <1>0, <1>2 DEF Page!RawPicture, Page!Frame, Page!flow
  <2>5. rounds' \in 0..Rounds
    BY <1>0, <2>a DEF Page!WebPagesAssumption
  <2>6. Page!ReadyStaysUp' /\ Page!RoundsCounted'
    BY <1>0, <1>2, <2>a DEF Page!RawPicture, Page!Closes, Page!Passes, Page!Refuse, Page!Frame,
         Page!Silent, Page!Done, Page!Asked, Page!Goes, Page!flow, Page!ReadyStaysUp,
         Page!RoundsCounted, Page!FlowTypes
  <2>7. Page!PageComplete' /\ Page!ValuesStay'
    BY <1>0, <1>2 DEF Page!RawPicture, Page!Closes, Page!Passes, Page!Refuse, Page!Frame,
         Page!Silent, Page!Done, Page!Asked, Page!Goes, Page!flow, Page!PageComplete,
         Page!ValuesStay, Page!Waits
  <2>8. QED
    BY <2>1, <2>2, <2>3, <2>4, <2>5, <2>6, <2>7 DEF Page!Inductive, Page!TypeOK, Page!PagesTrue
<1>3. CASE Page!AlignedPicture
  <2>1. Page!FlowTypes'
    BY <1>0, <1>3 DEF Page!AlignedPicture, Page!Frame, Page!FromMemory, Page!NotInMemory,
         Page!flow, Page!Piece, Page!Last, Page!Asked, Page!Goes, Page!Done, Page!Unless,
         Page!ToCard, Page!Silent, Page!FlowTypes, Page!Stages, Page!Early, Page!Results,
         Page!WebPagesAssumption
  <2>2. Page!RequestTypes'
    BY <1>0, <1>3 DEF Page!AlignedPicture, Page!Frame, Page!FromMemory, Page!NotInMemory,
         Page!flow, Page!Piece, Page!Last, Page!Asked, Page!Goes, Page!Done, Page!Unless,
         Page!ToCard, Page!Silent, Page!RequestTypes
  <2>3. Page!Flags'
    BY <1>0, <1>3 DEF Page!AlignedPicture, Page!Frame, Page!FromMemory, Page!NotInMemory,
         Page!flow, Page!Piece, Page!Last, Page!Asked, Page!Goes, Page!Done, Page!Unless,
         Page!ToCard, Page!Silent, Page!Flags
  <2>4. Page!RepliesWhole' /\ Page!AnswerSoFar'
    BY <1>0, <1>3 DEF Page!AlignedPicture, Page!Frame, Page!FromMemory, Page!NotInMemory,
         Page!flow, Page!Piece, Page!Last, Page!Asked, Page!Goes, Page!Done, Page!Unless,
         Page!ToCard, Page!Silent, Page!RepliesWhole, Page!Answered, Page!Doubled,
         Page!Unanswered, Page!AnswerSoFar
  <2>a. rounds' = rounds
    BY <1>0, <1>3 DEF Page!AlignedPicture, Page!Frame, Page!flow
  <2>5. rounds' \in 0..Rounds
    BY <1>0, <2>a DEF Page!WebPagesAssumption
  <2>6. Page!ReadyStaysUp' /\ Page!RoundsCounted'
    BY <1>0, <1>3, <2>a DEF Page!AlignedPicture, Page!Frame, Page!FromMemory, Page!NotInMemory,
         Page!flow, Page!Piece, Page!Last, Page!Asked, Page!Goes, Page!Done, Page!Unless,
         Page!ToCard, Page!Silent, Page!ReadyStaysUp, Page!RoundsCounted, Page!FlowTypes
  <2>7. Page!PageComplete' /\ Page!ValuesStay'
    BY <1>0, <1>3 DEF Page!AlignedPicture, Page!Frame, Page!FromMemory, Page!NotInMemory,
         Page!flow, Page!Piece, Page!Last, Page!Asked, Page!Goes, Page!Done, Page!Unless,
         Page!ToCard, Page!Silent, Page!PageComplete, Page!ValuesStay, Page!Waits
  <2>8. QED
    BY <2>1, <2>2, <2>3, <2>4, <2>5, <2>6, <2>7 DEF Page!Inductive, Page!TypeOK, Page!PagesTrue
<1>4. CASE Page!PictureWithDials
  <2>1. Page!FlowTypes'
    BY <1>0, <1>4 DEF Page!PictureWithDials, Page!Frame, Page!AlgROI, Page!Placeholder,
         Page!WithoutDials, Page!flow, Page!Asked, Page!Goes, Page!Unless, Page!Answer,
         Page!FromMemory, Page!Done, Page!ToCard, Page!Piece, Page!Last, Page!FlowTypes,
         Page!Stages, Page!Early, Page!Results, Page!WebPagesAssumption
  <2>2. Page!RequestTypes'
    BY <1>0, <1>4 DEF Page!PictureWithDials, Page!Frame, Page!AlgROI, Page!Placeholder,
         Page!WithoutDials, Page!flow, Page!Asked, Page!Goes, Page!Unless, Page!Answer,
         Page!FromMemory, Page!Done, Page!ToCard, Page!Piece, Page!Last, Page!RequestTypes
  <2>3. Page!Flags'
    BY <1>0, <1>4 DEF Page!PictureWithDials, Page!Frame, Page!AlgROI, Page!Placeholder,
         Page!WithoutDials, Page!flow, Page!Asked, Page!Goes, Page!Unless, Page!Answer,
         Page!FromMemory, Page!Done, Page!ToCard, Page!Piece, Page!Last, Page!Flags
  <2>4. Page!RepliesWhole' /\ Page!AnswerSoFar'
    BY <1>0, <1>4 DEF Page!PictureWithDials, Page!Frame, Page!AlgROI, Page!Placeholder,
         Page!WithoutDials, Page!flow, Page!Asked, Page!Goes, Page!Unless, Page!Answer,
         Page!FromMemory, Page!Done, Page!ToCard, Page!Piece, Page!Last, Page!RepliesWhole,
         Page!Answered, Page!Doubled, Page!Unanswered, Page!AnswerSoFar
  <2>a. rounds' = rounds
    BY <1>0, <1>4 DEF Page!PictureWithDials, Page!Frame, Page!flow
  <2>5. rounds' \in 0..Rounds
    BY <1>0, <2>a DEF Page!WebPagesAssumption
  <2>6. Page!ReadyStaysUp' /\ Page!RoundsCounted'
    BY <1>0, <1>4, <2>a DEF Page!PictureWithDials, Page!Frame, Page!AlgROI, Page!Placeholder,
         Page!WithoutDials, Page!flow, Page!Asked, Page!Goes, Page!Unless, Page!Answer,
         Page!FromMemory, Page!Done, Page!ToCard, Page!Piece, Page!Last, Page!ReadyStaysUp,
         Page!RoundsCounted, Page!FlowTypes
  <2>7. Page!PageComplete' /\ Page!ValuesStay'
    BY <1>0, <1>4 DEF Page!PictureWithDials, Page!Frame, Page!AlgROI, Page!Placeholder,
         Page!WithoutDials, Page!flow, Page!Asked, Page!Goes, Page!Unless, Page!Answer,
         Page!FromMemory, Page!Done, Page!ToCard, Page!Piece, Page!Last, Page!PageComplete,
         Page!ValuesStay, Page!Waits
  <2>8. QED
    BY <2>1, <2>2, <2>3, <2>4, <2>5, <2>6, <2>7 DEF Page!Inductive, Page!TypeOK, Page!PagesTrue
<1>5. CASE Page!DialPicture
  <2>1. Page!FlowTypes'
    BY <1>0, <1>5 DEF Page!DialPicture, Page!flow, Page!SavesDials, Page!FromMemory,
         Page!NotInMemory, Page!Piece, Page!Last, Page!Asked, Page!Goes, Page!Done, Page!Unless,
         Page!ToCard, Page!Silent, Page!FlowTypes, Page!Stages, Page!Early, Page!Results,
         Page!WebPagesAssumption
  <2>2. Page!RequestTypes'
    BY <1>0, <1>5 DEF Page!DialPicture, Page!flow, Page!SavesDials, Page!FromMemory,
         Page!NotInMemory, Page!Piece, Page!Last, Page!Asked, Page!Goes, Page!Done, Page!Unless,
         Page!ToCard, Page!Silent, Page!RequestTypes
  <2>3. Page!Flags'
    BY <1>0, <1>5 DEF Page!DialPicture, Page!flow, Page!SavesDials, Page!FromMemory,
         Page!NotInMemory, Page!Piece, Page!Last, Page!Asked, Page!Goes, Page!Done, Page!Unless,
         Page!ToCard, Page!Silent, Page!Flags
  <2>4. Page!RepliesWhole' /\ Page!AnswerSoFar'
    BY <1>0, <1>5 DEF Page!DialPicture, Page!flow, Page!SavesDials, Page!FromMemory,
         Page!NotInMemory, Page!Piece, Page!Last, Page!Asked, Page!Goes, Page!Done, Page!Unless,
         Page!ToCard, Page!Silent, Page!RepliesWhole, Page!Answered, Page!Doubled,
         Page!Unanswered, Page!AnswerSoFar
  <2>a. rounds' = rounds
    BY <1>0, <1>5 DEF Page!DialPicture, Page!flow
  <2>5. rounds' \in 0..Rounds
    BY <1>0, <2>a DEF Page!WebPagesAssumption
  <2>6. Page!ReadyStaysUp' /\ Page!RoundsCounted'
    BY <1>0, <1>5, <2>a DEF Page!DialPicture, Page!flow, Page!SavesDials, Page!FromMemory,
         Page!NotInMemory, Page!Piece, Page!Last, Page!Asked, Page!Goes, Page!Done, Page!Unless,
         Page!ToCard, Page!Silent, Page!ReadyStaysUp, Page!RoundsCounted, Page!FlowTypes
  <2>7. Page!PageComplete' /\ Page!ValuesStay'
    BY <1>0, <1>5 DEF Page!DialPicture, Page!flow, Page!SavesDials, Page!FromMemory,
         Page!NotInMemory, Page!Piece, Page!Last, Page!Asked, Page!Goes, Page!Done, Page!Unless,
         Page!ToCard, Page!Silent, Page!PageComplete, Page!ValuesStay, Page!Waits
  <2>8. QED
    BY <2>1, <2>2, <2>3, <2>4, <2>5, <2>6, <2>7 DEF Page!Inductive, Page!TypeOK, Page!PagesTrue
<1>6. CASE Page!FromCard
  <2>1. Page!FlowTypes'
    BY <1>0, <1>6 DEF Page!FromCard, Page!flow, Page!Whole, Page!Piece, Page!Last, Page!Goes,
         Page!Done, Page!Closes, Page!FlowTypes, Page!Stages, Page!Early, Page!Results,
         Page!WebPagesAssumption
  <2>2. Page!RequestTypes'
    BY <1>0, <1>6 DEF Page!FromCard, Page!flow, Page!Whole, Page!Piece, Page!Last, Page!Goes,
         Page!Done, Page!Closes, Page!RequestTypes
  <2>3. Page!Flags'
    BY <1>0, <1>6 DEF Page!FromCard, Page!flow, Page!Whole, Page!Piece, Page!Last, Page!Goes,
         Page!Done, Page!Closes, Page!Flags
  <2>d. /\ step = "card" /\ step' = "idle" /\ page' # "none"
        /\ page' = "card" \/ fate' = "failed"
    BY <1>0, <1>6 DEF Page!FromCard, Page!Done, Page!Closes, Page!AnswerSoFar
  <2>4. Page!RepliesWhole' /\ Page!AnswerSoFar'
    BY <2>d DEF Page!RepliesWhole, Page!Answered, Page!Doubled, Page!Unanswered, Page!AnswerSoFar
  <2>a. rounds' = rounds
    BY <1>0, <1>6 DEF Page!FromCard, Page!flow
  <2>5. rounds' \in 0..Rounds
    BY <1>0, <2>a DEF Page!WebPagesAssumption
  <2>6. Page!ReadyStaysUp' /\ Page!RoundsCounted'
    BY <1>0, <1>6, <2>a DEF Page!FromCard, Page!flow, Page!Whole, Page!Piece, Page!Last,
         Page!Goes, Page!Done, Page!Closes, Page!ReadyStaysUp, Page!RoundsCounted, Page!FlowTypes
  <2>7. Page!PageComplete' /\ Page!ValuesStay'
    BY <1>0, <1>6 DEF Page!FromCard, Page!flow, Page!Whole, Page!Piece, Page!Last, Page!Goes,
         Page!Done, Page!Closes, Page!PageComplete, Page!ValuesStay, Page!Waits
  <2>8. QED
    BY <2>1, <2>2, <2>3, <2>4, <2>5, <2>6, <2>7 DEF Page!Inductive, Page!TypeOK, Page!PagesTrue
<1>7. CASE Page!DoInitAnswers
  <2>1. Page!FlowTypes'
    BY <1>0, <1>7 DEF Page!DoInitAnswers, Page!Asked, Page!Goes, Page!Frame, Page!flow,
         Page!FlowTypes, Page!Stages, Page!Early, Page!Results, Page!WebPagesAssumption
  <2>2. Page!RequestTypes'
    BY <1>0, <1>7 DEF Page!DoInitAnswers, Page!Asked, Page!Goes, Page!Frame, Page!flow,
         Page!RequestTypes
  <2>3. Page!Flags'
    BY <1>0, <1>7 DEF Page!DoInitAnswers, Page!Asked, Page!Goes, Page!Frame, Page!flow, Page!Flags
  <2>4. Page!RepliesWhole' /\ Page!AnswerSoFar'
    BY <1>0, <1>7 DEF Page!DoInitAnswers, Page!Asked, Page!Goes, Page!Frame, Page!flow,
         Page!RepliesWhole, Page!Answered, Page!Doubled, Page!Unanswered, Page!AnswerSoFar
  <2>a. rounds' = rounds
    BY <1>0, <1>7 DEF Page!DoInitAnswers, Page!Frame, Page!flow
  <2>5. rounds' \in 0..Rounds
    BY <1>0, <2>a DEF Page!WebPagesAssumption
  <2>6. Page!ReadyStaysUp' /\ Page!RoundsCounted'
    BY <1>0, <1>7, <2>a DEF Page!DoInitAnswers, Page!Asked, Page!Goes, Page!Frame, Page!flow,
         Page!ReadyStaysUp, Page!RoundsCounted, Page!FlowTypes
  <2>7. Page!PageComplete' /\ Page!ValuesStay'
    BY <1>0, <1>7 DEF Page!DoInitAnswers, Page!Asked, Page!Goes, Page!Frame, Page!flow,
         Page!PageComplete, Page!ValuesStay, Page!Waits
  <2>8. QED
    BY <2>1, <2>2, <2>3, <2>4, <2>5, <2>6, <2>7 DEF Page!Inductive, Page!TypeOK, Page!PagesTrue
<1>8. CASE Page!DoInit
  <2>1. Page!FlowTypes'
    BY <1>0, <1>8 DEF Page!DoInit, Page!ConfigurationFails, Page!StagesMade, Page!FlowTypes,
         Page!Stages, Page!Early, Page!Results, Page!WebPagesAssumption
  <2>2. Page!RequestTypes'
    BY <1>0, <1>8 DEF Page!DoInit, Page!ConfigurationFails, Page!StagesMade, Page!RequestTypes
  <2>3. Page!Flags'
    BY <1>0, <1>8 DEF Page!DoInit, Page!ConfigurationFails, Page!StagesMade, Page!Flags
  <2>4. Page!RepliesWhole' /\ Page!AnswerSoFar'
    BY <1>0, <1>8 DEF Page!DoInit, Page!ConfigurationFails, Page!StagesMade, Page!RepliesWhole,
         Page!Answered, Page!Doubled, Page!Unanswered, Page!AnswerSoFar
  <2>a. rounds' = rounds
    BY <1>0, <1>8 DEF Page!DoInit
  <2>5. rounds' \in 0..Rounds
    BY <1>0, <2>a DEF Page!WebPagesAssumption
  <2>6. Page!ReadyStaysUp' /\ Page!RoundsCounted'
    BY <1>0, <1>8, <2>a DEF Page!DoInit, Page!ConfigurationFails, Page!StagesMade,
         Page!ReadyStaysUp, Page!RoundsCounted
  <2>7. Page!PageComplete' /\ Page!ValuesStay'
    BY <1>0, <1>8 DEF Page!DoInit, Page!ConfigurationFails, Page!StagesMade, Page!PageComplete,
         Page!ValuesStay, Page!Waits
  <2>8. QED
    BY <2>1, <2>2, <2>3, <2>4, <2>5, <2>6, <2>7 DEF Page!Inductive, Page!TypeOK, Page!PagesTrue
<1>9. CASE Page!DoInitEnds
  <2>1. Page!FlowTypes'
    BY <1>0, <1>9 DEF Page!DoInitEnds, Page!flow, Page!Whole, Page!Goes, Page!Done,
         Page!FlowTypes, Page!Stages, Page!Early, Page!Results, Page!WebPagesAssumption
  <2>2. Page!RequestTypes'
    BY <1>0, <1>9 DEF Page!DoInitEnds, Page!flow, Page!Whole, Page!Goes, Page!Done,
         Page!RequestTypes
  <2>3. Page!Flags'
    BY <1>0, <1>9 DEF Page!DoInitEnds, Page!flow, Page!Whole, Page!Goes, Page!Done, Page!Flags
  <2>4. Page!RepliesWhole' /\ Page!AnswerSoFar'
    BY <1>0, <1>9 DEF Page!DoInitEnds, Page!flow, Page!Whole, Page!Goes, Page!Done,
         Page!RepliesWhole, Page!Answered, Page!Doubled, Page!Unanswered, Page!AnswerSoFar
  <2>a. rounds' = rounds
    BY <1>0, <1>9 DEF Page!DoInitEnds, Page!flow
  <2>5. rounds' \in 0..Rounds
    BY <1>0, <2>a DEF Page!WebPagesAssumption
  <2>6. Page!ReadyStaysUp' /\ Page!RoundsCounted'
    BY <1>0, <1>9, <2>a DEF Page!DoInitEnds, Page!flow, Page!Whole, Page!Goes, Page!Done,
         Page!ReadyStaysUp, Page!RoundsCounted, Page!FlowTypes
  <2>7. Page!PageComplete' /\ Page!ValuesStay'
    BY <1>0, <1>9 DEF Page!DoInitEnds, Page!flow, Page!Whole, Page!Goes, Page!Done,
         Page!PageComplete, Page!ValuesStay, Page!Waits
  <2>8. QED
    BY <2>1, <2>2, <2>3, <2>4, <2>5, <2>6, <2>7 DEF Page!Inductive, Page!TypeOK, Page!PagesTrue
<1>10. CASE Page!EditFlowBusy
  <2>1. Page!FlowTypes'
    BY <1>0, <1>10 DEF Page!EditFlowBusy, Page!Passes, Page!Frame, Page!Busy, Page!Asked,
         Page!Goes, Page!Done, Page!flow, Page!FlowTypes, Page!Stages, Page!Early, Page!Results,
         Page!WebPagesAssumption
  <2>2. Page!RequestTypes'
    BY <1>0, <1>10 DEF Page!EditFlowBusy, Page!Passes, Page!Frame, Page!Busy, Page!Asked,
         Page!Goes, Page!Done, Page!flow, Page!RequestTypes
  <2>3. Page!Flags'
    BY <1>0, <1>10 DEF Page!EditFlowBusy, Page!Passes, Page!Frame, Page!Busy, Page!Asked,
         Page!Goes, Page!Done, Page!flow, Page!Flags
  <2>4. Page!RepliesWhole' /\ Page!AnswerSoFar'
    BY <1>0, <1>10 DEF Page!EditFlowBusy, Page!Passes, Page!Frame, Page!Busy, Page!Asked,
         Page!Goes, Page!Done, Page!flow, Page!RepliesWhole, Page!Answered, Page!Doubled,
         Page!Unanswered, Page!AnswerSoFar
  <2>a. rounds' = rounds
    BY <1>0, <1>10 DEF Page!EditFlowBusy, Page!Frame, Page!flow
  <2>5. rounds' \in 0..Rounds
    BY <1>0, <2>a DEF Page!WebPagesAssumption
  <2>6. Page!ReadyStaysUp' /\ Page!RoundsCounted'
    BY <1>0, <1>10, <2>a DEF Page!EditFlowBusy, Page!Passes, Page!Frame, Page!Busy, Page!Asked,
         Page!Goes, Page!Done, Page!flow, Page!ReadyStaysUp, Page!RoundsCounted, Page!FlowTypes
  <2>7. Page!PageComplete' /\ Page!ValuesStay'
    BY <1>0, <1>10 DEF Page!EditFlowBusy, Page!Passes, Page!Frame, Page!Busy, Page!Asked,
         Page!Goes, Page!Done, Page!flow, Page!PageComplete, Page!ValuesStay, Page!Waits
  <2>8. QED
    BY <2>1, <2>2, <2>3, <2>4, <2>5, <2>6, <2>7 DEF Page!Inductive, Page!TypeOK, Page!PagesTrue
<1>11. CASE Page!EditFlowLists
  <2>1. Page!FlowTypes'
    BY <1>0, <1>11 DEF Page!EditFlowLists, Page!Answer, Page!Frame, Page!Busy, Page!Crash,
         Page!Asked, Page!Goes, Page!Done, Page!flow, Page!FlowTypes, Page!Stages, Page!Early,
         Page!Results, Page!WebPagesAssumption
  <2>2. Page!RequestTypes'
    BY <1>0, <1>11 DEF Page!EditFlowLists, Page!Answer, Page!Frame, Page!Busy, Page!Crash,
         Page!Asked, Page!Goes, Page!Done, Page!flow, Page!RequestTypes
  <2>3. Page!Flags'
    BY <1>0, <1>11 DEF Page!EditFlowLists, Page!Answer, Page!Frame, Page!Busy, Page!Crash,
         Page!Asked, Page!Goes, Page!Done, Page!flow, Page!Flags
  <2>4. Page!RepliesWhole' /\ Page!AnswerSoFar'
    BY <1>0, <1>11 DEF Page!EditFlowLists, Page!Answer, Page!Frame, Page!Busy, Page!Crash,
         Page!Asked, Page!Goes, Page!Done, Page!flow, Page!RepliesWhole, Page!Answered,
         Page!Doubled, Page!Unanswered, Page!AnswerSoFar
  <2>a. rounds' = rounds
    BY <1>0, <1>11 DEF Page!EditFlowLists, Page!Frame, Page!Crash, Page!flow
  <2>5. rounds' \in 0..Rounds
    BY <1>0, <2>a DEF Page!WebPagesAssumption
  <2>6. Page!ReadyStaysUp' /\ Page!RoundsCounted'
    BY <1>0, <1>11, <2>a DEF Page!EditFlowLists, Page!Answer, Page!Frame, Page!Busy, Page!Crash,
         Page!Asked, Page!Goes, Page!Done, Page!flow, Page!ReadyStaysUp, Page!RoundsCounted,
         Page!FlowTypes
  <2>7. Page!PageComplete' /\ Page!ValuesStay'
    BY <1>0, <1>11 DEF Page!EditFlowLists, Page!Answer, Page!Frame, Page!Busy, Page!Crash,
         Page!Asked, Page!Goes, Page!Done, Page!flow, Page!PageComplete, Page!ValuesStay,
         Page!Waits
  <2>8. QED
    BY <2>1, <2>2, <2>3, <2>4, <2>5, <2>6, <2>7 DEF Page!Inductive, Page!TypeOK, Page!PagesTrue
<1>12. CASE Page!EditFlow
  <2>1. Page!FlowTypes'
    BY <1>0, <1>12 DEF Page!EditFlow, Page!flow, Page!Asked, Page!Goes, Page!Busy, Page!FlowTypes,
         Page!Stages, Page!Early, Page!Results, Page!WebPagesAssumption
  <2>2. Page!RequestTypes'
    BY <1>0, <1>12 DEF Page!EditFlow, Page!flow, Page!Asked, Page!Goes, Page!Busy,
         Page!RequestTypes
  <2>3. Page!Flags'
    BY <1>0, <1>12 DEF Page!EditFlow, Page!flow, Page!Asked, Page!Goes, Page!Busy, Page!Flags
  <2>4. Page!RepliesWhole' /\ Page!AnswerSoFar'
    BY <1>0, <1>12 DEF Page!EditFlow, Page!flow, Page!Asked, Page!Goes, Page!Busy,
         Page!RepliesWhole, Page!Answered, Page!Doubled, Page!Unanswered, Page!AnswerSoFar
  <2>a. rounds' = rounds
    BY <1>0, <1>12 DEF Page!EditFlow, Page!flow
  <2>5. rounds' \in 0..Rounds
    BY <1>0, <2>a DEF Page!WebPagesAssumption
  <2>6. Page!ReadyStaysUp' /\ Page!RoundsCounted'
    BY <1>0, <1>12, <2>a DEF Page!EditFlow, Page!flow, Page!Asked, Page!Goes, Page!Busy,
         Page!ReadyStaysUp, Page!RoundsCounted, Page!FlowTypes
  <2>7. Page!PageComplete' /\ Page!ValuesStay'
    BY <1>0, <1>12 DEF Page!EditFlow, Page!flow, Page!Asked, Page!Goes, Page!Busy,
         Page!PageComplete, Page!ValuesStay, Page!Waits
  <2>8. QED
    BY <2>1, <2>2, <2>3, <2>4, <2>5, <2>6, <2>7 DEF Page!Inductive, Page!TypeOK, Page!PagesTrue
<1>13. CASE Page!EditFlowLooks
  <2>1. Page!FlowTypes'
    BY <1>0, <1>13 DEF Page!EditFlowLooks, Page!flow, Page!Whole, Page!Goes, Page!Done,
         Page!FlowTypes, Page!Stages, Page!Early, Page!Results, Page!WebPagesAssumption
  <2>2. Page!RequestTypes'
    BY <1>0, <1>13 DEF Page!EditFlowLooks, Page!flow, Page!Whole, Page!Goes, Page!Done,
         Page!RequestTypes
  <2>3. Page!Flags'
    BY <1>0, <1>13 DEF Page!EditFlowLooks, Page!flow, Page!Whole, Page!Goes, Page!Done, Page!Flags
  <2>4. Page!RepliesWhole' /\ Page!AnswerSoFar'
    BY <1>0, <1>13 DEF Page!EditFlowLooks, Page!flow, Page!Whole, Page!Goes, Page!Done,
         Page!RepliesWhole, Page!Answered, Page!Doubled, Page!Unanswered, Page!AnswerSoFar
  <2>a. rounds' = rounds
    BY <1>0, <1>13 DEF Page!EditFlowLooks, Page!flow
  <2>5. rounds' \in 0..Rounds
    BY <1>0, <2>a DEF Page!WebPagesAssumption
  <2>6. Page!ReadyStaysUp' /\ Page!RoundsCounted'
    BY <1>0, <1>13, <2>a DEF Page!EditFlowLooks, Page!flow, Page!Whole, Page!Goes, Page!Done,
         Page!ReadyStaysUp, Page!RoundsCounted, Page!FlowTypes
  <2>7. Page!PageComplete' /\ Page!ValuesStay'
    BY <1>0, <1>13 DEF Page!EditFlowLooks, Page!flow, Page!Whole, Page!Goes, Page!Done,
         Page!PageComplete, Page!ValuesStay, Page!Waits
  <2>8. QED
    BY <2>1, <2>2, <2>3, <2>4, <2>5, <2>6, <2>7 DEF Page!Inductive, Page!TypeOK, Page!PagesTrue
<1>14. QED
  BY <1>1, <1>2, <1>3, <1>4, <1>5, <1>6, <1>7, <1>8, <1>9, <1>10, <1>11, <1>12, <1>13 DEF
       Page!FromRounds

\* The server turns to the next request, and comes back after a crash.
LEMMA PagesServerKeeps == ASSUME Page!WebPagesAssumption, Page!Inductive, Page!NextRequest \/ Page!FrameTestEnds \/ Page!Restart PROVE Page!Inductive'
<1>0. /\ rounds \in 0..Rounds /\ Page!FlowTypes /\ Page!RequestTypes /\ Page!Flags /\ Page!RepliesWhole /\ Page!PageComplete /\ Page!ReadyStaysUp
      /\ Page!AnswerSoFar /\ Page!RoundsCounted /\ Page!ValuesStay
  BY DEF Page!Inductive, Page!TypeOK, Page!PagesTrue
<1>1. CASE Page!NextRequest
  <2>1. Page!FlowTypes'
    BY <1>0, <1>1 DEF Page!NextRequest, Page!flow, Page!FlowTypes, Page!Stages, Page!Early,
         Page!Results, Page!WebPagesAssumption
  <2>2. Page!RequestTypes'
    BY <1>0, <1>1 DEF Page!NextRequest, Page!flow, Page!RequestTypes
  <2>3. Page!Flags'
    BY <1>0, <1>1 DEF Page!NextRequest, Page!flow, Page!Flags
  <2>4. Page!RepliesWhole' /\ Page!AnswerSoFar'
    BY <1>0, <1>1 DEF Page!NextRequest, Page!flow, Page!RepliesWhole, Page!Answered, Page!Doubled,
         Page!Unanswered, Page!AnswerSoFar
  <2>a. rounds' = rounds
    BY <1>0, <1>1 DEF Page!NextRequest, Page!flow
  <2>5. rounds' \in 0..Rounds
    BY <1>0, <2>a DEF Page!WebPagesAssumption
  <2>6. Page!ReadyStaysUp' /\ Page!RoundsCounted'
    BY <1>0, <1>1, <2>a DEF Page!NextRequest, Page!flow, Page!ReadyStaysUp, Page!RoundsCounted,
         Page!FlowTypes
  <2>7. Page!PageComplete' /\ Page!ValuesStay'
    BY <1>0, <1>1 DEF Page!NextRequest, Page!flow, Page!PageComplete, Page!ValuesStay, Page!Waits
  <2>8. QED
    BY <2>1, <2>2, <2>3, <2>4, <2>5, <2>6, <2>7 DEF Page!Inductive, Page!TypeOK, Page!PagesTrue
<1>2. CASE Page!FrameTestEnds
  <2>1. Page!FlowTypes'
    BY <1>0, <1>2 DEF Page!FrameTestEnds, Page!request, Page!FlowTypes, Page!Stages, Page!Early,
         Page!Results, Page!WebPagesAssumption
  <2>2. Page!RequestTypes'
    BY <1>0, <1>2 DEF Page!FrameTestEnds, Page!request, Page!RequestTypes
  <2>3. Page!Flags'
    BY <1>0, <1>2 DEF Page!FrameTestEnds, Page!request, Page!Flags
  <2>4. Page!RepliesWhole' /\ Page!AnswerSoFar'
    BY <1>0, <1>2 DEF Page!FrameTestEnds, Page!request, Page!RepliesWhole, Page!Answered,
         Page!Doubled, Page!Unanswered, Page!AnswerSoFar
  <2>a. rounds' = rounds
    BY <1>0, <1>2 DEF Page!FrameTestEnds
  <2>5. rounds' \in 0..Rounds
    BY <1>0, <2>a DEF Page!WebPagesAssumption
  <2>6. Page!ReadyStaysUp' /\ Page!RoundsCounted'
    BY <1>0, <1>2, <2>a DEF Page!FrameTestEnds, Page!request, Page!ReadyStaysUp,
         Page!RoundsCounted, Page!FlowTypes
  <2>7. Page!PageComplete' /\ Page!ValuesStay'
    BY <1>0, <1>2 DEF Page!FrameTestEnds, Page!request, Page!PageComplete, Page!ValuesStay,
         Page!Waits
  <2>8. QED
    BY <2>1, <2>2, <2>3, <2>4, <2>5, <2>6, <2>7 DEF Page!Inductive, Page!TypeOK, Page!PagesTrue
<1>3. CASE Page!Restart
  <2>1. Page!FlowTypes'
    BY <1>0, <1>3 DEF Page!Restart, Page!FlowTypes, Page!Stages, Page!Early, Page!Results,
         Page!WebPagesAssumption
  <2>2. Page!RequestTypes'
    BY <1>0, <1>3 DEF Page!Restart, Page!RequestTypes
  <2>3. Page!Flags'
    BY <1>0, <1>3 DEF Page!Restart, Page!Flags
  <2>4. Page!RepliesWhole' /\ Page!AnswerSoFar'
    BY <1>0, <1>3 DEF Page!Restart, Page!RepliesWhole, Page!Answered, Page!Doubled,
         Page!Unanswered, Page!AnswerSoFar
  <2>a. rounds' = 0
    BY <1>0, <1>3 DEF Page!Restart
  <2>5. rounds' \in 0..Rounds
    BY <1>0, <2>a DEF Page!WebPagesAssumption
  <2>6. Page!ReadyStaysUp' /\ Page!RoundsCounted'
    BY <1>0, <1>3, <2>a DEF Page!Restart, Page!ReadyStaysUp, Page!RoundsCounted, Page!FlowTypes
  <2>7. Page!PageComplete' /\ Page!ValuesStay'
    BY <1>0, <1>3 DEF Page!Restart, Page!PageComplete, Page!ValuesStay, Page!Waits
  <2>8. QED
    BY <2>1, <2>2, <2>3, <2>4, <2>5, <2>6, <2>7 DEF Page!Inductive, Page!TypeOK, Page!PagesTrue
<1>4. QED
  BY <1>1, <1>2, <1>3

\* Every step of the website and of the flow keeps the invariant.
LEMMA PagesStepInductive ==
  Page!WebPagesAssumption /\ Page!Inductive /\ [Page!Next]_Page!vars => Page!Inductive'
<1> SUFFICES ASSUME Page!WebPagesAssumption, Page!Inductive, [Page!Next]_Page!vars PROVE Page!Inductive'
  OBVIOUS
<1>1. CASE step # "crashed" /\ Page!Simple
  <2>1. /\ UNCHANGED <<status, rounds, created, panic, at, safe, post, alg>>
        /\ testing' \in BOOLEAN /\ UNCHANGED <<camera, onCard>>
    BY <1>1 DEF Page!Simple, Page!InfoGet, Page!StartTimeGet, Page!StatusFlow, Page!CpuTemp,
         Page!Uptime, Page!GetHeap, Page!FlowStart, Page!SysInfo, Page!CycleTiming,
         Page!ArchiveStatus, Page!HistoryStatus, Page!TestStatus, Page!FrameTestStatus,
         Page!OtaHealth, Page!StreamIntensity, Page!Rssi, Page!CurrentDate, Page!FrameTestStart,
         Page!Capture, Page!CaptureLit, Page!CaptureSave, Page!Inductive, Page!TypeOK, Page!Flags,
         Page!Frame, Page!flow
  <2>2. QED
    BY <1>1, <2>1, SimpleAnswered, AnsweredKeeps DEF Page!Inductive, Page!TypeOK, Page!RequestTypes
<1>2. CASE UNCHANGED Page!vars
  <2>a. /\ rounds \in 0..Rounds /\ Page!FlowTypes /\ Page!RequestTypes /\ Page!Flags
    BY DEF Page!Inductive, Page!TypeOK
  <2>b. UNCHANGED <<status, at, rounds, post, alg, camera, onCard, step, wire, fate, shown, created, panic, safe, testing, lost>>
    BY <1>2 DEF Page!vars, Page!flow, Page!request
  <2>c. Page!FlowTypes' /\ Page!RequestTypes' /\ rounds' \in 0..Rounds
    BY <2>a, <2>b DEF Page!FlowTypes, Page!RequestTypes
  <2>1. Page!Flags' /\ Page!FlowTypes' /\ Page!RequestTypes' /\ rounds' \in 0..Rounds
    BY <2>a, <2>b, <2>c DEF Page!Flags
  <2>2. Page!RepliesWhole' /\ Page!PageComplete' /\ Page!ReadyStaysUp' /\ Page!AnswerSoFar'
    BY <1>2 DEF Page!vars, Page!flow, Page!request, Page!Inductive, Page!PagesTrue,
         Page!RepliesWhole, Page!Answered, Page!PageComplete, Page!ReadyStaysUp, Page!AnswerSoFar
  <2>3. Page!RoundsCounted' /\ Page!ValuesStay'
    BY <1>2 DEF Page!vars, Page!flow, Page!request, Page!Inductive, Page!RoundsCounted,
         Page!ValuesStay, Page!Waits
  <2>4. QED
    BY <2>1, <2>2, <2>3 DEF Page!Inductive, Page!TypeOK, Page!PagesTrue
<1>3. QED
  BY <1>1, <1>2, PagesFlowKeeps, PagesReadingsKeep, PagesRoundsKeep, PagesServerKeeps DEF Page!Next

-----------------------------------------------------------------------------
(* The password of the website: what was reported saved is stored          *)

\* Before the first start the record is what was reported last, and nothing is in use.
LEMMA AccessInitInductive == Login!AccessAssumption /\ Login!Init => Login!Inductive
<1> SUFFICES ASSUME Login!AccessAssumption, Login!Init PROVE Login!Inductive
  OBVIOUS
<1>1. Login!RecordTypes /\ Login!LineTypes
  BY DEF Login!Init, Login!RecordTypes, Login!LineTypes, Login!Records
<1>a. Login!QueueTypes
  BY DEF Login!AccessAssumption, Login!Init, Login!QueueTypes
<1>2. Login!CodesDrawn
  BY DEF Login!AccessAssumption, Login!Init, Login!CodesDrawn, Login!NoCode
<1>3. Login!AccessTrue
  BY DEF Login!Init, Login!AccessTrue
<1>4. Login!WorkSound
  BY DEF Login!Init, Login!WorkSound, Login!Works, Login!Idle
<1>5. Login!MemorySound /\ Login!Heard
  BY DEF Login!Init, Login!MemorySound, Login!Heard, Login!NoCode
<1>6. QED
  BY <1>1, <1>2, <1>3, <1>4, <1>5, <1>a DEF Login!Inductive, Login!TypeOK

\* Every step keeps the record, what is in memory, and what is heard in order.
LEMMA AccessStepKeeps ==
  ASSUME Login!AccessAssumption, Login!Inductive, Login!Next
  PROVE  Login!Inductive'
<1>0. /\ Login!RecordTypes /\ Login!CodesDrawn /\ Login!LineTypes /\ Login!QueueTypes /\ Login!AccessTrue
      /\ Login!WorkSound /\ Login!MemorySound /\ Login!Heard
  BY DEF Login!Inductive, Login!TypeOK
<1>1. CASE Login!Start
  <2>1. Login!RecordTypes'
    BY <1>0, <1>1 DEF Login!Start, Login!Idle, Login!Initialize, Login!NoCode, Login!Loaded,
         Login!RecordTypes, Login!Records, Login!WorkSound, Login!Works
  <2>2. Login!CodesDrawn'
    BY <1>0, <1>1 DEF Login!Start, Login!Idle, Login!Initialize, Login!NoCode, Login!Loaded,
         Login!CodesDrawn, Login!AccessAssumption
  <2>3. Login!LineTypes'
    BY <1>0, <1>1 DEF Login!Start, Login!Idle, Login!Initialize, Login!NoCode, Login!Loaded,
         Login!LineTypes
  <2>4. Login!QueueTypes'
    BY <1>0, <1>1 DEF Login!Start, Login!Idle, Login!Initialize, Login!NoCode, Login!Loaded,
         Login!QueueTypes, Login!AccessAssumption
  <2>5. Login!AccessTrue'
    BY <1>0, <1>1 DEF Login!Start, Login!Idle, Login!Initialize, Login!NoCode, Login!Loaded,
         Login!AccessTrue, Login!RecordTypes, Login!WorkSound, Login!MemorySound, Login!Works
  <2>6. Login!WorkSound'
    BY <1>0, <1>1 DEF Login!Start, Login!Idle, Login!Initialize, Login!NoCode, Login!Loaded,
         Login!WorkSound, Login!Works, Login!AccessTrue, Login!MemorySound
  <2>7. Login!MemorySound'
    BY <1>0, <1>1 DEF Login!Start, Login!Idle, Login!Initialize, Login!NoCode, Login!Loaded,
         Login!MemorySound, Login!WorkSound, Login!AccessTrue, Login!Works, Login!CodesDrawn
  <2>8. Login!Heard'
    BY <1>0, <1>1 DEF Login!Start, Login!Idle, Login!Initialize, Login!NoCode, Login!Loaded,
         Login!Heard
  <2>9. QED
    BY <2>1, <2>2, <2>3, <2>4, <2>5, <2>6, <2>7, <2>8 DEF Login!Inductive, Login!TypeOK
<1>2. CASE Login!SaveWrites
  <2>1. Login!RecordTypes'
    BY <1>0, <1>2 DEF Login!SaveWrites, Login!memory, Login!serial, Login!RecordTypes,
         Login!Records, Login!WorkSound, Login!Works, Login!Idle
  <2>2. Login!CodesDrawn'
    BY <1>0, <1>2 DEF Login!SaveWrites, Login!memory, Login!serial, Login!CodesDrawn,
         Login!AccessAssumption
  <2>3. Login!LineTypes'
    BY <1>0, <1>2 DEF Login!SaveWrites, Login!memory, Login!serial, Login!LineTypes
  <2>4. Login!QueueTypes'
    BY <1>0, <1>2 DEF Login!SaveWrites, Login!memory, Login!serial, Login!QueueTypes,
         Login!AccessAssumption
  <2>5. Login!AccessTrue'
    BY <1>0, <1>2 DEF Login!SaveWrites, Login!memory, Login!serial, Login!AccessTrue,
         Login!RecordTypes, Login!WorkSound, Login!MemorySound, Login!Idle, Login!Works
  <2>6. Login!WorkSound'
    BY <1>0, <1>2 DEF Login!SaveWrites, Login!memory, Login!serial, Login!WorkSound, Login!Works,
         Login!Idle, Login!AccessTrue, Login!MemorySound
  <2>7. Login!MemorySound'
    BY <1>0, <1>2 DEF Login!SaveWrites, Login!memory, Login!serial, Login!MemorySound,
         Login!WorkSound, Login!AccessTrue, Login!Idle, Login!Works, Login!CodesDrawn
  <2>8. Login!Heard'
    BY <1>0, <1>2 DEF Login!SaveWrites, Login!memory, Login!serial, Login!Heard
  <2>9. QED
    BY <2>1, <2>2, <2>3, <2>4, <2>5, <2>6, <2>7, <2>8 DEF Login!Inductive, Login!TypeOK
<1>3. CASE Login!Saved
  <2>a. work.password \in Passwords
    BY <1>0, <1>3 DEF Login!Saved, Login!WorkSound, Login!Works, Login!Idle
  <2>1. Login!RecordTypes'
    BY <1>0, <1>3, <2>a DEF Login!Saved, Login!serial, Login!Idle, Login!RecordTypes,
         Login!Records, Login!WorkSound, Login!Works
  <2>2. Login!CodesDrawn'
    BY <1>0, <1>3, <2>a DEF Login!Saved, Login!serial, Login!Idle, Login!CodesDrawn,
         Login!AccessAssumption
  <2>3. Login!LineTypes'
    BY <1>0, <1>3, <2>a DEF Login!Saved, Login!serial, Login!Idle, Login!LineTypes
  <2>4. Login!QueueTypes'
    BY <1>0, <1>3, <2>a DEF Login!Saved, Login!serial, Login!Idle, Login!QueueTypes,
         Login!AccessAssumption
  <2>5. Login!AccessTrue'
    BY <1>0, <1>3, <2>a DEF Login!Saved, Login!serial, Login!Idle, Login!AccessTrue,
         Login!RecordTypes, Login!WorkSound, Login!MemorySound, Login!Works
  <2>6. Login!WorkSound'
    BY <1>0, <1>3, <2>a DEF Login!Saved, Login!serial, Login!Idle, Login!WorkSound, Login!Works,
         Login!AccessTrue, Login!MemorySound
  <2>7. Login!MemorySound'
    BY <1>0, <1>3, <2>a DEF Login!Saved, Login!serial, Login!Idle, Login!MemorySound,
         Login!WorkSound, Login!AccessTrue, Login!Works, Login!CodesDrawn
  <2>8. Login!Heard'
    BY <1>0, <1>3, <2>a DEF Login!Saved, Login!serial, Login!Idle, Login!Heard
  <2>9. QED
    BY <2>1, <2>2, <2>3, <2>4, <2>5, <2>6, <2>7, <2>8 DEF Login!Inductive, Login!TypeOK
<1>4. CASE Login!NotSaved
  <2>1. Login!RecordTypes'
    BY <1>0, <1>4 DEF Login!NotSaved, Login!serial, Login!Idle, Login!RecordTypes, Login!Records,
         Login!WorkSound, Login!Works
  <2>2. Login!CodesDrawn'
    BY <1>0, <1>4 DEF Login!NotSaved, Login!serial, Login!Idle, Login!CodesDrawn,
         Login!AccessAssumption
  <2>3. Login!LineTypes'
    BY <1>0, <1>4 DEF Login!NotSaved, Login!serial, Login!Idle, Login!LineTypes
  <2>4. Login!QueueTypes'
    BY <1>0, <1>4 DEF Login!NotSaved, Login!serial, Login!Idle, Login!QueueTypes,
         Login!AccessAssumption
  <2>5. Login!AccessTrue'
    BY <1>0, <1>4 DEF Login!NotSaved, Login!serial, Login!Idle, Login!AccessTrue,
         Login!RecordTypes, Login!WorkSound, Login!MemorySound, Login!Works
  <2>6. Login!WorkSound'
    BY <1>0, <1>4 DEF Login!NotSaved, Login!serial, Login!Idle, Login!WorkSound, Login!Works,
         Login!AccessTrue, Login!MemorySound
  <2>7. Login!MemorySound'
    BY <1>0, <1>4 DEF Login!NotSaved, Login!serial, Login!Idle, Login!MemorySound,
         Login!WorkSound, Login!AccessTrue, Login!Works, Login!CodesDrawn
  <2>8. Login!Heard'
    BY <1>0, <1>4 DEF Login!NotSaved, Login!serial, Login!Idle, Login!Heard
  <2>9. QED
    BY <2>1, <2>2, <2>3, <2>4, <2>5, <2>6, <2>7, <2>8 DEF Login!Inductive, Login!TypeOK
<1>5. CASE Login!SecondPasses
  <2>1. Login!RecordTypes'
    BY <1>0, <1>5 DEF Login!SecondPasses, Login!serial, Login!RecordTypes, Login!Records,
         Login!WorkSound, Login!Works, Login!Idle
  <2>2. Login!CodesDrawn'
    BY <1>0, <1>5 DEF Login!SecondPasses, Login!serial, Login!CodesDrawn, Login!AccessAssumption
  <2>3. Login!LineTypes'
    BY <1>0, <1>5 DEF Login!SecondPasses, Login!serial, Login!LineTypes
  <2>4. Login!QueueTypes'
    BY <1>0, <1>5 DEF Login!SecondPasses, Login!serial, Login!QueueTypes, Login!AccessAssumption
  <2>5. Login!AccessTrue'
    BY <1>0, <1>5 DEF Login!SecondPasses, Login!serial, Login!AccessTrue, Login!RecordTypes,
         Login!WorkSound, Login!MemorySound, Login!Idle, Login!Works
  <2>6. Login!WorkSound'
    BY <1>0, <1>5 DEF Login!SecondPasses, Login!serial, Login!WorkSound, Login!Works, Login!Idle,
         Login!AccessTrue, Login!MemorySound
  <2>7. Login!MemorySound'
    BY <1>0, <1>5 DEF Login!SecondPasses, Login!serial, Login!MemorySound, Login!WorkSound,
         Login!AccessTrue, Login!Idle, Login!Works, Login!CodesDrawn
  <2>8. Login!Heard'
    BY <1>0, <1>5 DEF Login!SecondPasses, Login!serial, Login!Heard
  <2>9. QED
    BY <2>1, <2>2, <2>3, <2>4, <2>5, <2>6, <2>7, <2>8 DEF Login!Inductive, Login!TypeOK
<1>6. CASE Login!MinutePasses
  <2>1. Login!RecordTypes'
    BY <1>0, <1>6 DEF Login!MinutePasses, Login!serial, Login!RecordTypes, Login!Records,
         Login!WorkSound, Login!Works, Login!Idle
  <2>2. Login!CodesDrawn'
    BY <1>0, <1>6 DEF Login!MinutePasses, Login!serial, Login!CodesDrawn, Login!AccessAssumption
  <2>3. Login!LineTypes'
    BY <1>0, <1>6 DEF Login!MinutePasses, Login!serial, Login!LineTypes
  <2>4. Login!QueueTypes'
    BY <1>0, <1>6 DEF Login!MinutePasses, Login!serial, Login!QueueTypes, Login!AccessAssumption
  <2>5. Login!AccessTrue'
    BY <1>0, <1>6 DEF Login!MinutePasses, Login!serial, Login!AccessTrue, Login!RecordTypes,
         Login!WorkSound, Login!MemorySound, Login!Idle, Login!Works
  <2>6. Login!WorkSound'
    BY <1>0, <1>6 DEF Login!MinutePasses, Login!serial, Login!WorkSound, Login!Works, Login!Idle,
         Login!AccessTrue, Login!MemorySound
  <2>7. Login!MemorySound'
    BY <1>0, <1>6 DEF Login!MinutePasses, Login!serial, Login!MemorySound, Login!WorkSound,
         Login!AccessTrue, Login!Idle, Login!Works, Login!CodesDrawn
  <2>8. Login!Heard'
    BY <1>0, <1>6 DEF Login!MinutePasses, Login!serial, Login!Heard
  <2>9. QED
    BY <2>1, <2>2, <2>3, <2>4, <2>5, <2>6, <2>7, <2>8 DEF Login!Inductive, Login!TypeOK
<1>7. ASSUME NEW p \in Passwords, Login!Change(p) PROVE Login!Inductive'
  <2>1. Login!RecordTypes'
    BY <1>0, <1>7 DEF Login!Change, Login!serial, Login!Idle, Login!Saves, Login!RecordTypes,
         Login!Records, Login!WorkSound, Login!Works
  <2>2. Login!CodesDrawn'
    BY <1>0, <1>7 DEF Login!Change, Login!serial, Login!Idle, Login!Saves, Login!CodesDrawn,
         Login!AccessAssumption
  <2>3. Login!LineTypes'
    BY <1>0, <1>7 DEF Login!Change, Login!serial, Login!Idle, Login!Saves, Login!LineTypes
  <2>4. Login!QueueTypes'
    BY <1>0, <1>7 DEF Login!Change, Login!serial, Login!Idle, Login!Saves, Login!QueueTypes,
         Login!AccessAssumption
  <2>5. Login!AccessTrue'
    BY <1>0, <1>7 DEF Login!Change, Login!serial, Login!Idle, Login!Saves, Login!AccessTrue,
         Login!RecordTypes, Login!WorkSound, Login!MemorySound, Login!Works
  <2>6. Login!WorkSound'
    BY <1>0, <1>7 DEF Login!Change, Login!serial, Login!Idle, Login!Saves, Login!WorkSound,
         Login!Works, Login!AccessTrue, Login!MemorySound
  <2>7. Login!MemorySound'
    BY <1>0, <1>7 DEF Login!Change, Login!serial, Login!Idle, Login!Saves, Login!MemorySound,
         Login!WorkSound, Login!AccessTrue, Login!Works, Login!CodesDrawn
  <2>8. Login!Heard'
    BY <1>0, <1>7 DEF Login!Change, Login!serial, Login!Idle, Login!Saves, Login!Heard
  <2>9. QED
    BY <2>1, <2>2, <2>3, <2>4, <2>5, <2>6, <2>7, <2>8 DEF Login!Inductive, Login!TypeOK
<1>8. ASSUME NEW p \in Passwords, Login!Allowed(p) PROVE Login!Inductive'
  <2>a. p = stored
    BY <1>0, <1>8 DEF Login!Allowed, Login!AccessTrue, Login!AccessAssumption
  <2>1. Login!RecordTypes'
    BY <1>0, <1>8, <2>a DEF Login!Allowed, Login!serial, Login!Idle, Login!Answered,
         Login!RecordTypes, Login!Records, Login!WorkSound, Login!Works
  <2>2. Login!CodesDrawn'
    BY <1>0, <1>8, <2>a DEF Login!Allowed, Login!serial, Login!Idle, Login!Answered,
         Login!CodesDrawn, Login!AccessAssumption
  <2>3. Login!LineTypes'
    BY <1>0, <1>8, <2>a DEF Login!Allowed, Login!serial, Login!Idle, Login!Answered,
         Login!LineTypes
  <2>4. Login!QueueTypes'
    BY <1>0, <1>8, <2>a DEF Login!Allowed, Login!serial, Login!Idle, Login!Answered,
         Login!QueueTypes, Login!AccessAssumption
  <2>5. Login!AccessTrue'
    BY <1>0, <1>8, <2>a DEF Login!Allowed, Login!serial, Login!Idle, Login!Answered,
         Login!AccessTrue, Login!RecordTypes, Login!WorkSound, Login!MemorySound, Login!Works
  <2>6. Login!WorkSound'
    BY <1>0, <1>8, <2>a DEF Login!Allowed, Login!serial, Login!Idle, Login!Answered,
         Login!WorkSound, Login!Works, Login!AccessTrue, Login!MemorySound
  <2>7. Login!MemorySound'
    BY <1>0, <1>8, <2>a DEF Login!Allowed, Login!serial, Login!Idle, Login!Answered,
         Login!MemorySound, Login!WorkSound, Login!AccessTrue, Login!Works, Login!CodesDrawn
  <2>8. Login!Heard'
    BY <1>0, <1>8, <2>a DEF Login!Allowed, Login!serial, Login!Idle, Login!Answered, Login!Heard
  <2>9. QED
    BY <2>1, <2>2, <2>3, <2>4, <2>5, <2>6, <2>7, <2>8 DEF Login!Inductive, Login!TypeOK
<1>9. ASSUME NEW p \in Passwords, Login!Unauthorized(p) PROVE Login!Inductive'
  <2>1. Login!RecordTypes'
    BY <1>0, <1>9 DEF Login!Unauthorized, Login!serial, Login!Idle, Login!RecordTypes,
         Login!Records, Login!WorkSound, Login!Works
  <2>2. Login!CodesDrawn'
    BY <1>0, <1>9 DEF Login!Unauthorized, Login!serial, Login!Idle, Login!CodesDrawn,
         Login!AccessAssumption
  <2>3. Login!LineTypes'
    BY <1>0, <1>9 DEF Login!Unauthorized, Login!serial, Login!Idle, Login!LineTypes
  <2>4. Login!QueueTypes'
    BY <1>0, <1>9 DEF Login!Unauthorized, Login!serial, Login!Idle, Login!QueueTypes,
         Login!AccessAssumption
  <2>5. Login!AccessTrue'
    BY <1>0, <1>9 DEF Login!Unauthorized, Login!serial, Login!Idle, Login!AccessTrue,
         Login!RecordTypes, Login!WorkSound, Login!MemorySound, Login!Works
  <2>6. Login!WorkSound'
    BY <1>0, <1>9 DEF Login!Unauthorized, Login!serial, Login!Idle, Login!WorkSound, Login!Works,
         Login!AccessTrue, Login!MemorySound
  <2>7. Login!MemorySound'
    BY <1>0, <1>9 DEF Login!Unauthorized, Login!serial, Login!Idle, Login!MemorySound,
         Login!WorkSound, Login!AccessTrue, Login!Works, Login!CodesDrawn
  <2>8. Login!Heard'
    BY <1>0, <1>9 DEF Login!Unauthorized, Login!serial, Login!Idle, Login!Heard
  <2>9. QED
    BY <2>1, <2>2, <2>3, <2>4, <2>5, <2>6, <2>7, <2>8 DEF Login!Inductive, Login!TypeOK
<1>10. ASSUME NEW p \in Passwords, NEW c \in 1..Codes, Login!Setup(c, p) PROVE Login!Inductive'
  <2>1. Login!RecordTypes'
    BY <1>0, <1>10 DEF Login!Setup, Login!serial, Login!Idle, Login!Saves, Login!RecordTypes,
         Login!Records, Login!WorkSound, Login!Works
  <2>2. Login!CodesDrawn'
    BY <1>0, <1>10 DEF Login!Setup, Login!serial, Login!Idle, Login!Saves, Login!CodesDrawn,
         Login!AccessAssumption
  <2>3. Login!LineTypes'
    BY <1>0, <1>10 DEF Login!Setup, Login!serial, Login!Idle, Login!Saves, Login!LineTypes
  <2>4. Login!QueueTypes'
    BY <1>0, <1>10 DEF Login!Setup, Login!serial, Login!Idle, Login!Saves, Login!QueueTypes,
         Login!AccessAssumption
  <2>5. Login!AccessTrue'
    BY <1>0, <1>10 DEF Login!Setup, Login!serial, Login!Idle, Login!Saves, Login!AccessTrue,
         Login!RecordTypes, Login!WorkSound, Login!MemorySound, Login!Works
  <2>6. Login!WorkSound'
    BY <1>0, <1>10 DEF Login!Setup, Login!serial, Login!Idle, Login!Saves, Login!WorkSound,
         Login!Works, Login!AccessTrue, Login!MemorySound
  <2>7. Login!MemorySound'
    BY <1>0, <1>10 DEF Login!Setup, Login!serial, Login!Idle, Login!Saves, Login!MemorySound,
         Login!WorkSound, Login!AccessTrue, Login!Works, Login!CodesDrawn
  <2>8. Login!Heard'
    BY <1>0, <1>10 DEF Login!Setup, Login!serial, Login!Idle, Login!Saves, Login!Heard
  <2>9. QED
    BY <2>1, <2>2, <2>3, <2>4, <2>5, <2>6, <2>7, <2>8 DEF Login!Inductive, Login!TypeOK
<1>11. CASE Login!Pause
  <2>1. Login!RecordTypes'
    BY <1>0, <1>11 DEF Login!Pause, Login!memory, Login!RecordTypes, Login!Records,
         Login!WorkSound, Login!Works, Login!Idle
  <2>2. Login!CodesDrawn'
    BY <1>0, <1>11 DEF Login!Pause, Login!memory, Login!CodesDrawn, Login!AccessAssumption
  <2>3. Login!LineTypes'
    BY <1>0, <1>11 DEF Login!Pause, Login!memory, Login!LineTypes
  <2>4. Login!QueueTypes'
    BY <1>0, <1>11 DEF Login!Pause, Login!memory, Login!QueueTypes, Login!AccessAssumption
  <2>5. Login!AccessTrue'
    BY <1>0, <1>11 DEF Login!Pause, Login!memory, Login!AccessTrue, Login!RecordTypes,
         Login!WorkSound, Login!MemorySound, Login!Idle, Login!Works
  <2>6. Login!WorkSound'
    BY <1>0, <1>11 DEF Login!Pause, Login!memory, Login!WorkSound, Login!Works, Login!Idle,
         Login!AccessTrue, Login!MemorySound
  <2>7. Login!MemorySound'
    BY <1>0, <1>11 DEF Login!Pause, Login!memory, Login!MemorySound, Login!WorkSound,
         Login!AccessTrue, Login!Idle, Login!Works, Login!CodesDrawn
  <2>8. Login!Heard'
    BY <1>0, <1>11 DEF Login!Pause, Login!memory, Login!Heard
  <2>9. QED
    BY <2>1, <2>2, <2>3, <2>4, <2>5, <2>6, <2>7, <2>8 DEF Login!Inductive, Login!TypeOK
<1>12. CASE Login!Noise
  <2>1. Login!RecordTypes'
    BY <1>0, <1>12 DEF Login!Noise, Login!memory, Login!RecordTypes, Login!Records,
         Login!WorkSound, Login!Works, Login!Idle
  <2>2. Login!CodesDrawn'
    BY <1>0, <1>12 DEF Login!Noise, Login!memory, Login!CodesDrawn, Login!AccessAssumption
  <2>3. Login!LineTypes'
    BY <1>0, <1>12 DEF Login!Noise, Login!memory, Login!LineTypes
  <2>4. Login!QueueTypes'
    BY <1>0, <1>12 DEF Login!Noise, Login!memory, Login!QueueTypes, Login!AccessAssumption
  <2>5. Login!AccessTrue'
    BY <1>0, <1>12 DEF Login!Noise, Login!memory, Login!AccessTrue, Login!RecordTypes,
         Login!WorkSound, Login!MemorySound, Login!Idle, Login!Works
  <2>6. Login!WorkSound'
    BY <1>0, <1>12 DEF Login!Noise, Login!memory, Login!WorkSound, Login!Works, Login!Idle,
         Login!AccessTrue, Login!MemorySound
  <2>7. Login!MemorySound'
    BY <1>0, <1>12 DEF Login!Noise, Login!memory, Login!MemorySound, Login!WorkSound,
         Login!AccessTrue, Login!Idle, Login!Works, Login!CodesDrawn
  <2>8. Login!Heard'
    BY <1>0, <1>12 DEF Login!Noise, Login!memory, Login!Heard
  <2>9. QED
    BY <2>1, <2>2, <2>3, <2>4, <2>5, <2>6, <2>7, <2>8 DEF Login!Inductive, Login!TypeOK
<1>13. CASE Login!Types
  <2>a. /\ Login!Follows["empty"] = "part" /\ Login!Follows["part"] = "command"
        /\ Login!Follows["command"] = "other" /\ Login!Follows["other"] = "other"
    BY DEF Login!Follows
  <2>1. Login!RecordTypes'
    BY <1>0, <1>13, <2>a DEF Login!Types, Login!memory, Login!RecordTypes, Login!Records,
         Login!WorkSound, Login!Works, Login!Idle
  <2>2. Login!CodesDrawn'
    BY <1>0, <1>13, <2>a DEF Login!Types, Login!memory, Login!CodesDrawn, Login!AccessAssumption
  <2>3. Login!LineTypes'
    BY <1>0, <1>13, <2>a DEF Login!Types, Login!memory, Login!LineTypes
  <2>4. Login!QueueTypes'
    BY <1>0, <1>13, <2>a DEF Login!Types, Login!memory, Login!QueueTypes, Login!AccessAssumption
  <2>5. Login!AccessTrue'
    BY <1>0, <1>13, <2>a DEF Login!Types, Login!memory, Login!AccessTrue, Login!RecordTypes,
         Login!WorkSound, Login!MemorySound, Login!Idle, Login!Works
  <2>6. Login!WorkSound'
    BY <1>0, <1>13, <2>a DEF Login!Types, Login!memory, Login!WorkSound, Login!Works, Login!Idle,
         Login!AccessTrue, Login!MemorySound
  <2>7. Login!MemorySound'
    BY <1>0, <1>13, <2>a DEF Login!Types, Login!memory, Login!MemorySound, Login!WorkSound,
         Login!AccessTrue, Login!Idle, Login!Works, Login!CodesDrawn
  <2>8. Login!Heard'
    BY <1>0, <1>13, <2>a DEF Login!Types, Login!memory, Login!Heard
  <2>9. QED
    BY <2>1, <2>2, <2>3, <2>4, <2>5, <2>6, <2>7, <2>8 DEF Login!Inductive, Login!TypeOK
<1>14. ASSUME NEW command \in Login!Commands, Login!Newline(command) PROVE Login!Inductive'
  <2>a. since = "command" => ~discarded /\ line = "command"
    BY <1>0 DEF Login!Heard
  <2>b. queue' = queue \/ (Len(queue) < Jobs /\ queue' = Append(queue, command))
    BY <1>14 DEF Login!Newline
  <2>1. Login!RecordTypes'
    BY <1>0, <1>14, <2>a, <2>b DEF Login!Newline, Login!memory, Login!RecordTypes, Login!Records,
         Login!WorkSound, Login!Works, Login!Idle
  <2>2. Login!CodesDrawn'
    BY <1>0, <1>14, <2>a, <2>b DEF Login!Newline, Login!memory, Login!CodesDrawn,
         Login!AccessAssumption
  <2>3. Login!LineTypes'
    BY <1>0, <1>14, <2>a, <2>b DEF Login!Newline, Login!memory, Login!LineTypes
  <2>4. Login!QueueTypes'
    BY <1>0, <1>14, <2>b DEF Login!QueueTypes, Login!AccessAssumption
  <2>5. Login!AccessTrue'
    BY <1>0, <1>14, <2>a, <2>b DEF Login!Newline, Login!memory, Login!AccessTrue,
         Login!RecordTypes, Login!WorkSound, Login!MemorySound, Login!Idle, Login!Works
  <2>6. Login!WorkSound'
    BY <1>0, <1>14, <2>a, <2>b DEF Login!Newline, Login!memory, Login!WorkSound, Login!Works,
         Login!Idle, Login!AccessTrue, Login!MemorySound
  <2>7. Login!MemorySound'
    BY <1>0, <1>14, <2>a, <2>b DEF Login!Newline, Login!memory, Login!MemorySound,
         Login!WorkSound, Login!AccessTrue, Login!Idle, Login!Works, Login!CodesDrawn
  <2>8. Login!Heard'
    BY <1>0, <1>14, <2>a, <2>b DEF Login!Newline, Login!memory, Login!Heard
  <2>9. QED
    BY <2>1, <2>2, <2>3, <2>4, <2>5, <2>6, <2>7, <2>8 DEF Login!Inductive, Login!TypeOK
<1>15. CASE Login!SetupCommand
  <2>a. work = Login!Idle /\ UNCHANGED work
    BY <1>15 DEF Login!SetupCommand, Login!Serves
  <2>b. \/ UNCHANGED <<state, code, cached, recovery>>
        \/ recovery' = Login!NoCode /\ cached' = None /\ (code' # 0 => state' = "NeedsSetup")
    BY <1>15 DEF Login!SetupCommand, Login!Initialize, Login!memory
  <2>1. Login!RecordTypes'
    BY <1>0, <1>15, <2>a, <2>b DEF Login!SetupCommand, Login!memory, Login!Command,
         Login!Initialize, Login!Serves, Login!NoCode, Login!Loaded, Login!Idle,
         Login!RecordTypes, Login!Records, Login!WorkSound, Login!Works
  <2>2. Login!CodesDrawn'
    BY <1>0, <1>15, <2>a, <2>b DEF Login!SetupCommand, Login!memory, Login!Command,
         Login!Initialize, Login!Serves, Login!NoCode, Login!Loaded, Login!Idle, Login!CodesDrawn,
         Login!AccessAssumption
  <2>3. Login!LineTypes'
    BY <1>0, <1>15, <2>a, <2>b DEF Login!SetupCommand, Login!memory, Login!Command,
         Login!Initialize, Login!Serves, Login!NoCode, Login!Loaded, Login!Idle, Login!LineTypes
  <2>4. Login!QueueTypes'
    BY <1>0, <1>15, <2>a, <2>b DEF Login!SetupCommand, Login!memory, Login!Command,
         Login!Initialize, Login!Serves, Login!NoCode, Login!Loaded, Login!Idle, Login!QueueTypes,
         Login!AccessAssumption
  <2>5. Login!AccessTrue'
    BY <1>0, <1>15, <2>a, <2>b DEF Login!SetupCommand, Login!memory, Login!Command,
         Login!Initialize, Login!Serves, Login!NoCode, Login!Loaded, Login!Idle, Login!AccessTrue,
         Login!RecordTypes, Login!WorkSound, Login!MemorySound, Login!Works
  <2>6. Login!WorkSound'
    BY <1>0, <1>15, <2>a, <2>b DEF Login!SetupCommand, Login!memory, Login!Command,
         Login!Initialize, Login!Serves, Login!NoCode, Login!Loaded, Login!Idle, Login!WorkSound,
         Login!Works, Login!AccessTrue, Login!MemorySound
  <2>7. Login!MemorySound'
    <3>1. CASE UNCHANGED <<state, code, cached, recovery>>
      BY <1>0, <2>a, <3>1 DEF Login!MemorySound
    <3>2. CASE recovery' = Login!NoCode /\ cached' = None /\ (code' # 0 => state' = "NeedsSetup")
      BY <3>2 DEF Login!MemorySound, Login!NoCode
    <3>3. QED
      BY <2>b, <3>1, <3>2
  <2>8. Login!Heard'
    BY <1>0, <1>15, <2>a, <2>b DEF Login!SetupCommand, Login!memory, Login!Command,
         Login!Initialize, Login!Serves, Login!NoCode, Login!Loaded, Login!Idle, Login!Heard
  <2>9. QED
    BY <2>1, <2>2, <2>3, <2>4, <2>5, <2>6, <2>7, <2>8 DEF Login!Inductive, Login!TypeOK
<1>16. CASE Login!ResetCommand
  <2>1. Login!RecordTypes'
    BY <1>0, <1>16 DEF Login!ResetCommand, Login!Command, Login!Serves, Login!Idle,
         Login!RecordTypes, Login!Records, Login!WorkSound, Login!Works
  <2>2. Login!CodesDrawn'
    BY <1>0, <1>16 DEF Login!ResetCommand, Login!Command, Login!Serves, Login!Idle,
         Login!CodesDrawn, Login!AccessAssumption
  <2>3. Login!LineTypes'
    BY <1>0, <1>16 DEF Login!ResetCommand, Login!Command, Login!Serves, Login!Idle,
         Login!LineTypes
  <2>4. Login!QueueTypes'
    BY <1>0, <1>16 DEF Login!ResetCommand, Login!Command, Login!Serves, Login!Idle,
         Login!QueueTypes, Login!AccessAssumption
  <2>5. Login!AccessTrue'
    BY <1>0, <1>16 DEF Login!ResetCommand, Login!Command, Login!Serves, Login!Idle,
         Login!AccessTrue, Login!RecordTypes, Login!WorkSound, Login!MemorySound, Login!Works
  <2>6. Login!WorkSound'
    BY <1>0, <1>16 DEF Login!ResetCommand, Login!Command, Login!Serves, Login!Idle,
         Login!WorkSound, Login!Works, Login!AccessTrue, Login!MemorySound
  <2>7. Login!MemorySound'
    BY <1>0, <1>16 DEF Login!ResetCommand, Login!Command, Login!Serves, Login!Idle,
         Login!MemorySound, Login!WorkSound, Login!AccessTrue, Login!Works, Login!CodesDrawn
  <2>8. Login!Heard'
    BY <1>0, <1>16 DEF Login!ResetCommand, Login!Command, Login!Serves, Login!Idle, Login!Heard
  <2>9. QED
    BY <2>1, <2>2, <2>3, <2>4, <2>5, <2>6, <2>7, <2>8 DEF Login!Inductive, Login!TypeOK
<1>17. ASSUME NEW c \in 1..Codes, Login!ConfirmCommand(c) PROVE Login!Inductive'
  <2>1. Login!RecordTypes'
    BY <1>0, <1>17 DEF Login!ConfirmCommand, Login!NoCode, Login!Command, Login!Serves,
         Login!Idle, Login!RecordTypes, Login!Records, Login!WorkSound, Login!Works
  <2>2. Login!CodesDrawn'
    BY <1>0, <1>17 DEF Login!ConfirmCommand, Login!NoCode, Login!Command, Login!Serves,
         Login!Idle, Login!CodesDrawn, Login!AccessAssumption
  <2>3. Login!LineTypes'
    BY <1>0, <1>17 DEF Login!ConfirmCommand, Login!NoCode, Login!Command, Login!Serves,
         Login!Idle, Login!LineTypes
  <2>4. Login!QueueTypes'
    BY <1>0, <1>17 DEF Login!ConfirmCommand, Login!NoCode, Login!Command, Login!Serves,
         Login!Idle, Login!QueueTypes, Login!AccessAssumption
  <2>5. Login!AccessTrue'
    BY <1>0, <1>17 DEF Login!ConfirmCommand, Login!NoCode, Login!Command, Login!Serves,
         Login!Idle, Login!AccessTrue, Login!RecordTypes, Login!WorkSound, Login!MemorySound,
         Login!Works
  <2>6. Login!WorkSound'
    BY <1>0, <1>17 DEF Login!ConfirmCommand, Login!NoCode, Login!Command, Login!Serves,
         Login!Idle, Login!WorkSound, Login!Works, Login!AccessTrue, Login!MemorySound
  <2>7. Login!MemorySound'
    BY <1>0, <1>17 DEF Login!ConfirmCommand, Login!NoCode, Login!Command, Login!Serves,
         Login!Idle, Login!MemorySound, Login!WorkSound, Login!AccessTrue, Login!Works,
         Login!CodesDrawn
  <2>8. Login!Heard'
    BY <1>0, <1>17 DEF Login!ConfirmCommand, Login!NoCode, Login!Command, Login!Serves,
         Login!Idle, Login!Heard
  <2>9. QED
    BY <2>1, <2>2, <2>3, <2>4, <2>5, <2>6, <2>7, <2>8 DEF Login!Inductive, Login!TypeOK
<1>18. CASE Login!Erases
  <2>1. Login!RecordTypes'
    BY <1>0, <1>18 DEF Login!Erases, Login!memory, Login!serial, Login!Idle, Login!RecordTypes,
         Login!Records, Login!WorkSound, Login!Works
  <2>2. Login!CodesDrawn'
    BY <1>0, <1>18 DEF Login!Erases, Login!memory, Login!serial, Login!Idle, Login!CodesDrawn,
         Login!AccessAssumption
  <2>3. Login!LineTypes'
    BY <1>0, <1>18 DEF Login!Erases, Login!memory, Login!serial, Login!Idle, Login!LineTypes
  <2>4. Login!QueueTypes'
    BY <1>0, <1>18 DEF Login!Erases, Login!memory, Login!serial, Login!Idle, Login!QueueTypes,
         Login!AccessAssumption
  <2>5. Login!AccessTrue'
    BY <1>0, <1>18 DEF Login!Erases, Login!memory, Login!serial, Login!Idle, Login!AccessTrue,
         Login!RecordTypes, Login!WorkSound, Login!MemorySound, Login!Works
  <2>6. Login!WorkSound'
    BY <1>0, <1>18 DEF Login!Erases, Login!memory, Login!serial, Login!Idle, Login!WorkSound,
         Login!Works, Login!AccessTrue, Login!MemorySound
  <2>7. Login!MemorySound'
    BY <1>0, <1>18 DEF Login!Erases, Login!memory, Login!serial, Login!Idle, Login!MemorySound,
         Login!WorkSound, Login!AccessTrue, Login!Works, Login!CodesDrawn
  <2>8. Login!Heard'
    BY <1>0, <1>18 DEF Login!Erases, Login!memory, Login!serial, Login!Idle, Login!Heard
  <2>9. QED
    BY <2>1, <2>2, <2>3, <2>4, <2>5, <2>6, <2>7, <2>8 DEF Login!Inductive, Login!TypeOK
<1>19. CASE Login!Removed
  <2>1. Login!RecordTypes'
    BY <1>0, <1>19 DEF Login!Removed, Login!serial, Login!Idle, Login!Initialize, Login!NoCode,
         Login!Loaded, Login!RecordTypes, Login!Records, Login!WorkSound, Login!Works
  <2>2. Login!CodesDrawn'
    BY <1>0, <1>19 DEF Login!Removed, Login!serial, Login!Idle, Login!Initialize, Login!NoCode,
         Login!Loaded, Login!CodesDrawn, Login!AccessAssumption
  <2>3. Login!LineTypes'
    BY <1>0, <1>19 DEF Login!Removed, Login!serial, Login!Idle, Login!Initialize, Login!NoCode,
         Login!Loaded, Login!LineTypes
  <2>4. Login!QueueTypes'
    BY <1>0, <1>19 DEF Login!Removed, Login!serial, Login!Idle, Login!Initialize, Login!NoCode,
         Login!Loaded, Login!QueueTypes, Login!AccessAssumption
  <2>5. Login!AccessTrue'
    BY <1>0, <1>19 DEF Login!Removed, Login!serial, Login!Idle, Login!Initialize, Login!NoCode,
         Login!Loaded, Login!AccessTrue, Login!RecordTypes, Login!WorkSound, Login!MemorySound,
         Login!Works
  <2>6. Login!WorkSound'
    BY <1>0, <1>19 DEF Login!Removed, Login!serial, Login!Idle, Login!Initialize, Login!NoCode,
         Login!Loaded, Login!WorkSound, Login!Works, Login!AccessTrue, Login!MemorySound
  <2>7. Login!MemorySound'
    BY <1>0, <1>19 DEF Login!Removed, Login!serial, Login!Idle, Login!Initialize, Login!NoCode,
         Login!Loaded, Login!MemorySound, Login!WorkSound, Login!AccessTrue, Login!Works,
         Login!CodesDrawn
  <2>8. Login!Heard'
    BY <1>0, <1>19 DEF Login!Removed, Login!serial, Login!Idle, Login!Initialize, Login!NoCode,
         Login!Loaded, Login!Heard
  <2>9. QED
    BY <2>1, <2>2, <2>3, <2>4, <2>5, <2>6, <2>7, <2>8 DEF Login!Inductive, Login!TypeOK
<1>20. CASE Login!NotRemoved
  <2>1. Login!RecordTypes'
    BY <1>0, <1>20 DEF Login!NotRemoved, Login!memory, Login!serial, Login!Idle,
         Login!RecordTypes, Login!Records, Login!WorkSound, Login!Works
  <2>2. Login!CodesDrawn'
    BY <1>0, <1>20 DEF Login!NotRemoved, Login!memory, Login!serial, Login!Idle, Login!CodesDrawn,
         Login!AccessAssumption
  <2>3. Login!LineTypes'
    BY <1>0, <1>20 DEF Login!NotRemoved, Login!memory, Login!serial, Login!Idle, Login!LineTypes
  <2>4. Login!QueueTypes'
    BY <1>0, <1>20 DEF Login!NotRemoved, Login!memory, Login!serial, Login!Idle, Login!QueueTypes,
         Login!AccessAssumption
  <2>5. Login!AccessTrue'
    BY <1>0, <1>20 DEF Login!NotRemoved, Login!memory, Login!serial, Login!Idle, Login!AccessTrue,
         Login!RecordTypes, Login!WorkSound, Login!MemorySound, Login!Works
  <2>6. Login!WorkSound'
    BY <1>0, <1>20 DEF Login!NotRemoved, Login!memory, Login!serial, Login!Idle, Login!WorkSound,
         Login!Works, Login!AccessTrue, Login!MemorySound
  <2>7. Login!MemorySound'
    BY <1>0, <1>20 DEF Login!NotRemoved, Login!memory, Login!serial, Login!Idle,
         Login!MemorySound, Login!WorkSound, Login!AccessTrue, Login!Works, Login!CodesDrawn
  <2>8. Login!Heard'
    BY <1>0, <1>20 DEF Login!NotRemoved, Login!memory, Login!serial, Login!Idle, Login!Heard
  <2>9. QED
    BY <2>1, <2>2, <2>3, <2>4, <2>5, <2>6, <2>7, <2>8 DEF Login!Inductive, Login!TypeOK
<1>21. QED
  BY <1>1, <1>2, <1>3, <1>4, <1>5, <1>6, <1>7, <1>8, <1>9, <1>10, <1>11, <1>12, <1>13, <1>14,
       <1>15, <1>16, <1>17, <1>18, <1>19, <1>20 DEF Login!Next

\* So does every step, or none.
LEMMA AccessStepInductive ==
  Login!AccessAssumption /\ Login!Inductive /\ [Login!Next]_Login!vars => Login!Inductive'
<1> SUFFICES ASSUME Login!AccessAssumption, Login!Inductive, [Login!Next]_Login!vars PROVE Login!Inductive'
  OBVIOUS
<1>1. CASE UNCHANGED Login!vars
  <2>0. /\ Login!RecordTypes /\ Login!CodesDrawn /\ Login!LineTypes /\ Login!QueueTypes /\ Login!AccessTrue
        /\ Login!WorkSound /\ Login!MemorySound /\ Login!Heard
    BY DEF Login!Inductive, Login!TypeOK
  <2>1. Login!RecordTypes'
    BY <1>1, <2>0 DEF Login!vars, Login!memory, Login!serial, Login!RecordTypes
  <2>2. Login!CodesDrawn'
    BY <1>1, <2>0 DEF Login!vars, Login!memory, Login!serial, Login!CodesDrawn
  <2>3. Login!LineTypes'
    BY <1>1, <2>0 DEF Login!vars, Login!memory, Login!serial, Login!LineTypes
  <2>4. Login!QueueTypes'
    BY <1>1, <2>0 DEF Login!vars, Login!memory, Login!serial, Login!QueueTypes
  <2>5. Login!AccessTrue'
    BY <1>1, <2>0 DEF Login!vars, Login!memory, Login!serial, Login!AccessTrue
  <2>6. Login!WorkSound'
    BY <1>1, <2>0 DEF Login!vars, Login!memory, Login!serial, Login!WorkSound
  <2>7. Login!MemorySound'
    BY <1>1, <2>0 DEF Login!vars, Login!memory, Login!serial, Login!MemorySound
  <2>8. Login!Heard'
    BY <1>1, <2>0 DEF Login!vars, Login!memory, Login!serial, Login!Heard
  <2>9. QED
    BY <2>1, <2>2, <2>3, <2>4, <2>5, <2>6, <2>7, <2>8 DEF Login!Inductive, Login!TypeOK
<1>2. QED
  BY <1>1, AccessStepKeeps

-----------------------------------------------------------------------------
(* The network: the device knows whether it is connected                   *)

\* Before the network is started nothing is under way.
LEMMA WlanInitInductive == Network!WlanAssumption /\ Network!Init => Network!Inductive
<1> SUFFICES ASSUME Network!WlanAssumption, Network!Init PROVE Network!Inductive
  OBVIOUS
<1>a. PICK address \in Addresses \union {None} : wlan = [connected |-> FALSE, count |-> 0, address |-> address]
  BY DEF Network!Init
<1>1. Network!NetTypes
  BY DEF Network!Init, Network!NetTypes, Network!NoLink
<1>2. Network!CountTypes
  BY <1>a DEF Network!WlanAssumption, Network!Init, Network!CountTypes
<1>3. Network!LedTypes /\ Network!LampSound
  BY DEF Network!Init, Network!LedTypes, Network!LampSound, Network!BlinkCodes
<1>4. Network!EventsTell
  BY DEF Network!Init, Network!NoLink, Network!EventsTell, Network!NewestTells, Network!HandlerKnows
<1>5. Network!RowCounted
  BY <1>a DEF Network!Init, Network!RowCounted
<1>6. QED
  BY <1>1, <1>2, <1>3, <1>4, <1>5 DEF Network!Inductive, Network!TypeOK

\* An event more: a connection changes nothing about the newest of the others.
LEMMA WlanAppended ==
  ASSUME events \in Seq(Network!Events), NEW e \in Network!Events \ {"start"}, events' = Append(events, e)
  PROVE  /\ events' \in Seq(Network!Events)
         /\ e = "connected" =>
              /\ Network!Settled' => Network!Settled
              /\ \A i \in DOMAIN events' : Network!Newest(i)' => 
                   i \in DOMAIN events /\ Network!Newest(i) /\ events'[i] = events[i]
         /\ e # "connected" =>
              ~Network!Settled' /\ \A i \in DOMAIN events' : Network!Newest(i)' => events'[i] = e
         /\ \A i \in DOMAIN events' : events'[i] = "start" => i \in DOMAIN events /\ events[i] = "start"
<1>1. events' \in Seq(Network!Events) /\ Len(events') = Len(events) + 1
  OBVIOUS
<1>2. events'[Len(events) + 1] = e /\ \A i \in 1..Len(events) : events'[i] = events[i]
  OBVIOUS
<1>3. DOMAIN events = 1..Len(events) /\ DOMAIN events' = 1..(Len(events) + 1) /\ Len(events) \in Nat
  BY <1>1
<1>4. ASSUME e = "connected"
      PROVE  /\ Network!Settled' => Network!Settled
             /\ \A i \in DOMAIN events' : Network!Newest(i)' =>
                  i \in DOMAIN events /\ Network!Newest(i) /\ events'[i] = events[i]
  BY <1>2, <1>3, <1>4 DEF Network!Settled, Network!Newest
<1>5. ASSUME e # "connected"
      PROVE  ~Network!Settled' /\ \A i \in DOMAIN events' : Network!Newest(i)' => events'[i] = e
  BY <1>2, <1>3, <1>5 DEF Network!Settled, Network!Newest
<1>6. \A i \in DOMAIN events' : events'[i] = "start" => i \in DOMAIN events /\ events[i] = "start"
  BY <1>2, <1>3
<1>7. QED
  BY <1>1, <1>4, <1>5, <1>6

\* An event less: each of the others moves up by one.
LEMMA WlanTaken ==
  ASSUME events \in Seq(Network!Events), events # <<>>, events' = Tail(events)
  PROVE  /\ events' \in Seq(Network!Events) /\ Len(events') = Len(events) - 1 /\ 1 \in DOMAIN events
         /\ \A i \in DOMAIN events' :
              /\ i + 1 \in DOMAIN events /\ i + 1 # 1 /\ events'[i] = events[i + 1]
              /\ Network!Newest(i)' => Network!Newest(i + 1)
         /\ Network!Settled' => IF Head(events) = "connected" THEN Network!Settled ELSE Network!Newest(1)
<1>1. events' \in Seq(Network!Events) /\ Len(events') = Len(events) - 1
  OBVIOUS
<1>2. Len(events) \in Nat \ {0}
  OBVIOUS
<1>3. DOMAIN events = 1..Len(events) /\ DOMAIN events' = 1..(Len(events) - 1)
  BY <1>1
<1>4. Head(events) = events[1] /\ \A i \in 1..(Len(events) - 1) : events'[i] = events[i + 1]
  OBVIOUS
<1>5. \A j \in DOMAIN events : j # 1 => j - 1 \in DOMAIN events' /\ events'[j - 1] = events[j]
  BY <1>2, <1>3, <1>4
<1>6. \A i \in DOMAIN events' : i + 1 \in DOMAIN events /\ i + 1 # 1 /\ events'[i] = events[i + 1]
  BY <1>2, <1>3, <1>4
<1>7. ASSUME NEW i \in DOMAIN events', Network!Newest(i)' PROVE Network!Newest(i + 1)
  <2>1. events[i + 1] # "connected"
    BY <1>6, <1>7 DEF Network!Newest
  <2>2. ASSUME NEW j \in DOMAIN events, j > i + 1 PROVE events[j] = "connected"
    <3>1. j # 1 /\ j - 1 > i
      BY <1>2, <1>3, <2>2
    <3>2. QED
      BY <1>5, <1>7, <3>1 DEF Network!Newest
  <2>3. QED
    BY <2>1, <2>2 DEF Network!Newest
<1>8. ASSUME Network!Settled'
      PROVE  IF Head(events) = "connected" THEN Network!Settled ELSE Network!Newest(1)
  <2>1. \A j \in DOMAIN events : j # 1 => events[j] = "connected"
    BY <1>5, <1>8 DEF Network!Settled
  <2>2. QED
    BY <1>2, <1>3, <1>4, <2>1 DEF Network!Settled, Network!Newest
<1>9. QED
  BY <1>1, <1>2, <1>3, <1>6, <1>7, <1>8

\* A request for the LED, whether its task is there, busy, or cannot be made.
LEMMA StatusLEDSound ==
  ASSUME Network!LedTypes, Network!LampSound, off' = off,
         NEW blinks \in Network!BlinkCodes, NEW forever \in BOOLEAN, Network!StatusLED(blinks, forever)
  PROVE  Network!LedTypes' /\ Network!LampSound'
<1>1. Network!LedTypes'
  BY DEF Network!StatusLED, Network!LedTypes
<1>2. Network!LampSound'
  BY DEF Network!StatusLED, Network!LedTypes, Network!LampSound
<1>3. QED
  BY <1>1, <1>2

\* With nothing on the driver's and the handler's side it stays as it is.
LEMMA NetStays ==
  ASSUME Network!NetTypes, Network!CountTypes, Network!EventsTell, Network!RowCounted, Network!NetUnchanged
  PROVE  Network!NetTypes' /\ Network!CountTypes' /\ Network!EventsTell' /\ Network!RowCounted'
<1>1. Network!NetTypes' /\ Network!CountTypes'
  BY DEF Network!NetUnchanged, Network!NetTypes, Network!CountTypes
<1>2. Network!EventsTell'
  BY DEF Network!NetUnchanged, Network!EventsTell, Network!NewestTells, Network!HandlerKnows,
       Network!Newest,
     Network!Settled
<1>3. Network!RowCounted'
  BY DEF Network!NetUnchanged, Network!RowCounted
<1>4. QED
  BY <1>1, <1>2, <1>3

\* Every step keeps what the events tell true.
LEMMA WlanStepKeeps ==
  ASSUME Network!WlanAssumption, Network!Inductive, Network!Next
  PROVE  Network!Inductive'
<1>0. /\ Network!NetTypes /\ Network!CountTypes /\ Network!LedTypes /\ Network!EventsTell
      /\ Network!RowCounted /\ Network!LampSound
  BY DEF Network!Inductive, Network!TypeOK
<1>1. CASE Network!CardChecked
  <2>a. Network!StatusLED("SDCARD_CHECK", TRUE) \/ UNCHANGED <<led, lamp>>
    BY <1>1 DEF Network!CardChecked
  <2>b. off' = off /\ "SDCARD_CHECK" \in Network!BlinkCodes
    BY <1>1 DEF Network!CardChecked, Network!BlinkCodes
  <2>1. Network!NetTypes'
    BY <1>0, <1>1 DEF Network!CardChecked, Network!NetTypes, Network!WlanAssumption
  <2>2. Network!CountTypes'
    BY <1>0, <1>1 DEF Network!CardChecked, Network!CountTypes, Network!WlanAssumption
  <2>3. Network!LedTypes'
    <3>1. CASE Network!StatusLED("SDCARD_CHECK", TRUE)
      BY <1>0, <2>b, <3>1, StatusLEDSound
    <3>2. CASE UNCHANGED <<led, lamp>>
      BY <1>0, <2>b, <3>2 DEF Network!LedTypes
    <3>3. QED
      BY <2>a, <3>1, <3>2
  <2>4. Network!EventsTell'
    BY <1>0, <1>1 DEF Network!CardChecked, Network!EventsTell, Network!NewestTells,
         Network!HandlerKnows, Network!Newest, Network!Settled
  <2>5. Network!RowCounted'
    BY <1>0, <1>1 DEF Network!CardChecked, Network!RowCounted
  <2>6. Network!LampSound'
    <3>1. CASE Network!StatusLED("SDCARD_CHECK", TRUE)
      BY <1>0, <2>b, <3>1, StatusLEDSound
    <3>2. CASE UNCHANGED <<led, lamp>>
      BY <1>0, <2>b, <3>2 DEF Network!LampSound
    <3>3. QED
      BY <2>a, <3>1, <3>2
  <2>7. QED
    BY <2>1, <2>2, <2>3, <2>4, <2>5, <2>6 DEF Network!Inductive, Network!TypeOK
<1>2. CASE Network!InitSta
  <2>1. Network!NetTypes'
    BY <1>0, <1>2 DEF Network!InitSta, Network!NoLink, Network!LedUnchanged, Network!NetTypes,
         Network!WlanAssumption
  <2>2. Network!CountTypes'
    BY <1>0, <1>2 DEF Network!InitSta, Network!NoLink, Network!LedUnchanged, Network!CountTypes,
         Network!WlanAssumption
  <2>3. Network!LedTypes'
    BY <1>0, <1>2 DEF Network!InitSta, Network!NoLink, Network!LedUnchanged, Network!LedTypes,
         Network!BlinkCodes
  <2>4. Network!EventsTell'
    <3>1. events' = <<"start">> /\ main' = "up" /\ link'.is = "idle"
      BY <1>2 DEF Network!InitSta, Network!NoLink
    <3>2. events' \in Seq(Network!Events) /\ DOMAIN events' = {1} /\ events'[1] = "start"
      BY <3>1 DEF Network!Events
    <3>3. "start" \notin Addresses
      BY DEF Network!WlanAssumption
    <3>4. ~Network!Settled' /\ Network!NewestTells'
      BY <3>1, <3>2, <3>3 DEF Network!Settled, Network!NewestTells
    <3>5. QED
      BY <3>1, <3>2, <3>4 DEF Network!EventsTell, Network!HandlerKnows
  <2>5. Network!RowCounted'
    BY <1>0, <1>2 DEF Network!InitSta, Network!NoLink, Network!LedUnchanged, Network!RowCounted
  <2>6. Network!LampSound'
    BY <1>0, <1>2 DEF Network!InitSta, Network!NoLink, Network!LedUnchanged, Network!LampSound,
         Network!LedTypes
  <2>7. QED
    BY <2>1, <2>2, <2>3, <2>4, <2>5, <2>6 DEF Network!Inductive, Network!TypeOK
<1>3. CASE Network!InitFails
  <2>a. Network!StatusLED("WLAN_INIT", TRUE) /\ off' = off /\ "WLAN_INIT" \in Network!BlinkCodes
    BY <1>3 DEF Network!InitFails, Network!BlinkCodes
  <2>1. Network!NetTypes'
    BY <1>0, <1>3 DEF Network!InitFails, Network!NetTypes, Network!WlanAssumption
  <2>2. Network!CountTypes'
    BY <1>0, <1>3 DEF Network!InitFails, Network!CountTypes, Network!WlanAssumption
  <2>3. Network!LedTypes'
    BY <1>0, <2>a, StatusLEDSound
  <2>4. Network!EventsTell'
    BY <1>0, <1>3 DEF Network!InitFails, Network!EventsTell, Network!NewestTells,
         Network!HandlerKnows, Network!Newest, Network!Settled
  <2>5. Network!RowCounted'
    BY <1>0, <1>3 DEF Network!InitFails, Network!RowCounted
  <2>6. Network!LampSound'
    BY <1>0, <2>a, StatusLEDSound
  <2>7. QED
    BY <2>1, <2>2, <2>3, <2>4, <2>5, <2>6 DEF Network!Inductive, Network!TypeOK
<1>4. CASE Network!Joins
  <2>a. events' = Append(events, "connected") /\ Len(events) < Pending /\ "connected" \in Network!Events \ {"start"}
    BY <1>4 DEF Network!Joins, Network!Tells, Network!Events
  <2>b. link.is = "connecting" /\ link'.is = "joined" /\ UNCHANGED <<main, wlan, attempts>>
    BY <1>0, <1>4 DEF Network!Joins, Network!DriverStep, Network!NetTypes
  <2>c. events \in Seq(Network!Events) /\ "connected" \notin Addresses
    BY <1>0 DEF Network!EventsTell, Network!WlanAssumption
  <2>1. Network!NetTypes'
    BY <1>0, <1>4 DEF Network!Joins, Network!Tells, Network!DriverStep, Network!LedUnchanged,
         Network!NetTypes, Network!WlanAssumption
  <2>2. Network!CountTypes'
    BY <1>0, <2>a, <2>b, <2>c DEF Network!CountTypes, Network!WlanAssumption
  <2>3. Network!LedTypes'
    BY <1>0, <1>4 DEF Network!Joins, Network!Tells, Network!DriverStep, Network!LedUnchanged,
         Network!LedTypes, Network!BlinkCodes
  <2>4. Network!EventsTell'
    BY <1>0, <2>a, <2>b, <2>c, WlanAppended DEF Network!EventsTell, Network!NewestTells,
         Network!HandlerKnows
  <2>5. Network!RowCounted'
    BY <1>0, <2>a, <2>b, <2>c, WlanAppended DEF Network!EventsTell, Network!RowCounted
  <2>6. Network!LampSound'
    BY <1>0, <1>4 DEF Network!Joins, Network!Tells, Network!DriverStep, Network!LedUnchanged,
         Network!LampSound, Network!LedTypes
  <2>7. QED
    BY <2>1, <2>2, <2>3, <2>4, <2>5, <2>6 DEF Network!Inductive, Network!TypeOK
<1>5. CASE Network!Addressed
  <2>a. PICK address \in Addresses : link' = [link EXCEPT !.is = "online", !.address = address]
        /\ events' = Append(events, address) /\ Len(events) < Pending
    BY <1>5 DEF Network!Addressed, Network!Tells
  <2>b. link.is # "off" /\ link'.is = "online" /\ link'.address = address /\ UNCHANGED <<main, wlan, attempts>>
    BY <1>0, <1>5, <2>a DEF Network!Addressed, Network!DriverStep, Network!NetTypes
  <2>c. events \in Seq(Network!Events) /\ address \in Network!Events \ {"start"} /\ address # "connected"
    BY <1>0, <2>a DEF Network!EventsTell, Network!WlanAssumption, Network!Events
  <2>1. Network!NetTypes'
    BY <1>0, <1>5 DEF Network!Addressed, Network!Tells, Network!DriverStep, Network!LedUnchanged,
         Network!NetTypes, Network!WlanAssumption
  <2>2. Network!CountTypes'
    BY <1>0, <2>a, <2>b, <2>c DEF Network!CountTypes, Network!WlanAssumption
  <2>3. Network!LedTypes'
    BY <1>0, <1>5 DEF Network!Addressed, Network!Tells, Network!DriverStep, Network!LedUnchanged,
         Network!LedTypes, Network!BlinkCodes
  <2>4. Network!EventsTell'
    BY <1>0, <2>a, <2>b, <2>c, WlanAppended DEF Network!EventsTell, Network!NewestTells,
         Network!HandlerKnows
  <2>5. Network!RowCounted'
    BY <1>0, <2>a, <2>b, <2>c, WlanAppended DEF Network!EventsTell, Network!RowCounted
  <2>6. Network!LampSound'
    BY <1>0, <1>5 DEF Network!Addressed, Network!Tells, Network!DriverStep, Network!LedUnchanged,
         Network!LampSound, Network!LedTypes
  <2>7. QED
    BY <2>1, <2>2, <2>3, <2>4, <2>5, <2>6 DEF Network!Inductive, Network!TypeOK
<1>6. CASE Network!Loses
  <2>a. events' = Append(events, "disconnected") /\ Len(events) < Pending /\ "disconnected" \in Network!Events \ {"start"}
    BY <1>6 DEF Network!Loses, Network!Tells, Network!Events
  <2>b. link.is # "off" /\ link'.is = "idle" /\ UNCHANGED <<main, wlan, attempts>>
    BY <1>6 DEF Network!Loses, Network!DriverStep, Network!NoLink
  <2>c. events \in Seq(Network!Events) /\ "disconnected" \notin Addresses
    BY <1>0 DEF Network!EventsTell, Network!WlanAssumption
  <2>1. Network!NetTypes'
    BY <1>0, <1>6 DEF Network!Loses, Network!NoLink, Network!Tells, Network!DriverStep,
         Network!LedUnchanged, Network!NetTypes, Network!WlanAssumption
  <2>2. Network!CountTypes'
    BY <1>0, <2>a, <2>b, <2>c DEF Network!CountTypes, Network!WlanAssumption
  <2>3. Network!LedTypes'
    BY <1>0, <1>6 DEF Network!Loses, Network!NoLink, Network!Tells, Network!DriverStep,
         Network!LedUnchanged, Network!LedTypes, Network!BlinkCodes
  <2>4. Network!EventsTell'
    BY <1>0, <2>a, <2>b, <2>c, WlanAppended DEF Network!EventsTell, Network!NewestTells,
         Network!HandlerKnows
  <2>5. Network!RowCounted'
    BY <1>0, <2>a, <2>b, <2>c, WlanAppended DEF Network!EventsTell, Network!RowCounted
  <2>6. Network!LampSound'
    BY <1>0, <1>6 DEF Network!Loses, Network!NoLink, Network!Tells, Network!DriverStep,
         Network!LedUnchanged, Network!LampSound, Network!LedTypes
  <2>7. QED
    BY <2>1, <2>2, <2>3, <2>4, <2>5, <2>6 DEF Network!Inductive, Network!TypeOK
<1>7. CASE Network!HandleStart
  <2>a. events # <<>> /\ events' = Tail(events) /\ events \in Seq(Network!Events) /\ Head(events) = "start" /\ main' = main
    BY <1>0, <1>7 DEF Network!HandleStart, Network!Handles, Network!EventsTell
  <2>b. link'.address = link.address /\ link' \in [is : {"off", "idle", "connecting", "joined", "online"}, ap : Network!AccessPoints \union {None},
               address : Addresses \union {None}]
        /\ (link'.is = "online" <=> link.is = "online") /\ link'.is # "idle" /\ (link'.is = "off" <=> link.is = "off")
    BY <1>0, <1>7 DEF Network!HandleStart, Network!Connect, Network!NetTypes
  <2>c. ~wlan'.connected
    BY <1>0, <1>7 DEF Network!HandleStart, Network!CountTypes
  <2>1. Network!NetTypes'
    BY <1>0, <1>7 DEF Network!HandleStart, Network!LedUnchanged, Network!Connect, Network!Handles,
         Network!NetTypes, Network!WlanAssumption
  <2>2. Network!CountTypes'
    <3>1. wlan' = [wlan EXCEPT !.connected = FALSE] /\ attempts' = attempts + 1
      BY <1>7 DEF Network!HandleStart
    <3>2. attempts = 0
      BY <1>0, <2>a, WlanTaken DEF Network!RowCounted
    <3>3. Len(events') <= Pending
      BY <1>0, <2>a, WlanTaken DEF Network!CountTypes, Network!WlanAssumption
    <3>4. wlan' \in [connected : BOOLEAN, count : 0..(Tries - 1), address : Addresses \union {None}]
      BY <1>0, <3>1 DEF Network!CountTypes
    <3>5. attempts' \in 0..Tries
      BY <3>1, <3>2 DEF Network!WlanAssumption
    <3>6. QED
      BY <3>3, <3>4, <3>5 DEF Network!CountTypes
  <2>3. Network!LedTypes'
    BY <1>0, <1>7 DEF Network!HandleStart, Network!LedUnchanged, Network!Connect, Network!Handles,
         Network!LedTypes, Network!BlinkCodes
  <2>4. Network!EventsTell'
    <3>1. Head(events) = events[1] /\ events[1] # "connected" /\ events[1] \notin Addresses
      BY <2>a DEF Network!WlanAssumption
    <3>2. Network!Settled' => link.is # "online"
      BY <1>0, <2>a, <3>1, WlanTaken DEF Network!EventsTell, Network!NewestTells
    <3>3. Network!HandlerKnows'
      BY <2>b, <2>c, <3>2 DEF Network!HandlerKnows
    <3>4. Network!NewestTells'
      BY <1>0, <2>a, <2>b, WlanTaken DEF Network!EventsTell, Network!NewestTells
    <3>5. QED
      BY <1>0, <2>a, <2>b, <3>3, <3>4, WlanTaken DEF Network!EventsTell
  <2>5. Network!RowCounted'
    <3>1. wlan' = [wlan EXCEPT !.connected = FALSE] /\ attempts' = attempts + 1
      BY <1>7 DEF Network!HandleStart
    <3>2. attempts = 0 /\ wlan.count = 0 /\ main \notin {"checks", "init"}
      BY <1>0, <2>a, WlanTaken DEF Network!RowCounted
    <3>3. \A i \in DOMAIN events' : events'[i] # "start"
      BY <1>0, <2>a, WlanTaken DEF Network!RowCounted
    <3>4. wlan'.count = 0
      BY <1>0, <3>1, <3>2 DEF Network!CountTypes
    <3>5. QED
      BY <2>a, <3>1, <3>2, <3>3, <3>4 DEF Network!RowCounted
  <2>6. Network!LampSound'
    BY <1>0, <1>7 DEF Network!HandleStart, Network!LedUnchanged, Network!Connect, Network!Handles,
         Network!LampSound, Network!LedTypes
  <2>7. QED
    BY <2>1, <2>2, <2>3, <2>4, <2>5, <2>6 DEF Network!Inductive, Network!TypeOK
<1>8. CASE Network!HandleDisconnected
  <2>a. Network!StatusLED("WLAN_CONN", FALSE) /\ off' = off /\ "WLAN_CONN" \in Network!BlinkCodes
    BY <1>8 DEF Network!HandleDisconnected, Network!BlinkCodes
  <2>b. events # <<>> /\ events' = Tail(events) /\ events \in Seq(Network!Events) /\ Head(events) = "disconnected" /\ main' = main
    BY <1>0, <1>8 DEF Network!HandleDisconnected, Network!Handles, Network!EventsTell
  <2>c. link'.address = link.address /\ link' \in [is : {"off", "idle", "connecting", "joined", "online"}, ap : Network!AccessPoints \union {None},
               address : Addresses \union {None}]
        /\ (link'.is = "online" <=> link.is = "online") /\ link'.is # "idle" /\ (link'.is = "off" <=> link.is = "off")
    BY <1>0, <1>8 DEF Network!HandleDisconnected, Network!Connect, Network!NetTypes
  <2>d. ~wlan'.connected
    BY <1>0, <1>8 DEF Network!HandleDisconnected, Network!CountTypes
  <2>1. Network!NetTypes'
    BY <1>0, <1>8 DEF Network!HandleDisconnected, Network!Connect, Network!Handles,
         Network!NetTypes, Network!WlanAssumption
  <2>2. Network!CountTypes'
    <3>1. \/ wlan' = [wlan EXCEPT !.connected = FALSE, !.count = 0] /\ attempts' = 0
          \/ /\ wlan' = [wlan EXCEPT !.connected = FALSE, !.count = wlan.count + 1]
             /\ attempts' = attempts + 1 /\ ~(wlan.count + 1 >= Tries)
      BY <1>8 DEF Network!HandleDisconnected
    <3>2. attempts <= wlan.count + 1 /\ wlan.count \in 0..(Tries - 1) /\ attempts \in 0..Tries /\ Tries \in Nat \ {0}
      BY <1>0 DEF Network!RowCounted, Network!CountTypes, Network!WlanAssumption
    <3>3. Len(events') <= Pending
      BY <1>0, <2>b, WlanTaken DEF Network!CountTypes, Network!WlanAssumption
    <3> DEFINE Counts == 0..(Tries - 1)
    <3>4. 0 \in Counts /\ (~(wlan.count + 1 >= Tries) => wlan.count + 1 \in Counts)
      BY <3>2
    <3>5. wlan \in [connected : BOOLEAN, count : Counts, address : Addresses \union {None}]
      BY <1>0 DEF Network!CountTypes
    <3> HIDE DEF Counts
    <3>6. wlan' \in [connected : BOOLEAN, count : Counts, address : Addresses \union {None}]
      BY <3>1, <3>4, <3>5
    <3>7. attempts' \in 0..Tries
      BY <3>1, <3>2
    <3>8. QED
      BY <3>3, <3>6, <3>7 DEF Network!CountTypes, Counts
  <2>3. Network!LedTypes'
    BY <1>0, <2>a, StatusLEDSound
  <2>4. Network!EventsTell'
    <3>1. Head(events) = events[1] /\ events[1] # "connected" /\ events[1] \notin Addresses
      BY <2>b DEF Network!WlanAssumption
    <3>2. Network!Settled' => link.is # "online"
      BY <1>0, <2>b, <3>1, WlanTaken DEF Network!EventsTell, Network!NewestTells
    <3>3. Network!HandlerKnows'
      BY <2>c, <2>d, <3>2 DEF Network!HandlerKnows
    <3>4. Network!NewestTells'
      BY <1>0, <2>b, <2>c, WlanTaken DEF Network!EventsTell, Network!NewestTells
    <3>5. QED
      BY <1>0, <2>b, <2>c, <3>3, <3>4, WlanTaken DEF Network!EventsTell
  <2>5. Network!RowCounted'
    <3>1. \/ wlan' = [wlan EXCEPT !.connected = FALSE, !.count = 0] /\ attempts' = 0
          \/ /\ wlan' = [wlan EXCEPT !.connected = FALSE, !.count = wlan.count + 1]
             /\ attempts' = attempts + 1
      BY <1>8 DEF Network!HandleDisconnected
    <3>2. attempts <= wlan.count + 1 /\ wlan.count \in Nat /\ attempts \in Nat
      BY <1>0 DEF Network!RowCounted, Network!CountTypes, Network!WlanAssumption
    <3>a. /\ wlan' = [wlan EXCEPT !.connected = FALSE, !.count = 0] => wlan'.count = 0
          /\ wlan' = [wlan EXCEPT !.connected = FALSE, !.count = wlan.count + 1] => wlan'.count = wlan.count + 1
      BY <1>0 DEF Network!CountTypes
    <3>3. attempts' <= wlan'.count + 1
      BY <3>1, <3>2, <3>a
    <3>4. main \notin {"checks", "init"} /\ \A i \in DOMAIN events' : events'[i] # "start"
      BY <1>0, <2>b, WlanTaken DEF Network!RowCounted
    <3>5. QED
      BY <2>b, <3>3, <3>4 DEF Network!RowCounted
  <2>6. Network!LampSound'
    BY <1>0, <2>a, StatusLEDSound
  <2>7. QED
    BY <2>1, <2>2, <2>3, <2>4, <2>5, <2>6 DEF Network!Inductive, Network!TypeOK
<1>9. CASE Network!HandleConnected
  <2>a. events # <<>> /\ events' = Tail(events) /\ events \in Seq(Network!Events) /\ Head(events) = "connected" /\ main' = main
    BY <1>0, <1>9 DEF Network!HandleConnected, Network!Handles, Network!EventsTell
  <2>b. UNCHANGED <<link, wlan, attempts>>
    BY <1>9 DEF Network!HandleConnected
  <2>1. Network!NetTypes'
    BY <1>0, <1>9 DEF Network!HandleConnected, Network!LedUnchanged, Network!Handles,
         Network!NetTypes, Network!WlanAssumption
  <2>2. Network!CountTypes'
    BY <1>0, <2>a, <2>b, WlanTaken DEF Network!CountTypes, Network!WlanAssumption
  <2>3. Network!LedTypes'
    BY <1>0, <1>9 DEF Network!HandleConnected, Network!LedUnchanged, Network!Handles,
         Network!LedTypes, Network!BlinkCodes
  <2>4. Network!EventsTell'
    BY <1>0, <2>a, <2>b, WlanTaken DEF Network!EventsTell, Network!NewestTells, Network!HandlerKnows
  <2>5. Network!RowCounted'
    BY <1>0, <2>a, <2>b, WlanTaken DEF Network!RowCounted
  <2>6. Network!LampSound'
    BY <1>0, <1>9 DEF Network!HandleConnected, Network!LedUnchanged, Network!Handles,
         Network!LampSound, Network!LedTypes
  <2>7. QED
    BY <2>1, <2>2, <2>3, <2>4, <2>5, <2>6 DEF Network!Inductive, Network!TypeOK
<1>10. CASE Network!HandleGotIP
  <2>a. PICK address \in Addresses :
        Network!Handles(address) /\ wlan' = [connected |-> TRUE, count |-> 0, address |-> address]
    BY <1>10 DEF Network!HandleGotIP
  <2>b. events # <<>> /\ events' = Tail(events) /\ events \in Seq(Network!Events) /\ Head(events) = address /\ UNCHANGED <<main, link>> /\ attempts' = 0
    BY <1>0, <1>10, <2>a DEF Network!HandleGotIP, Network!Handles, Network!EventsTell
  <2>1. Network!NetTypes'
    BY <1>0, <1>10 DEF Network!HandleGotIP, Network!LedUnchanged, Network!Handles,
         Network!NetTypes, Network!WlanAssumption
  <2>2. Network!CountTypes'
    BY <1>0, <2>a, <2>b, WlanTaken DEF Network!CountTypes, Network!WlanAssumption
  <2>3. Network!LedTypes'
    BY <1>0, <1>10 DEF Network!HandleGotIP, Network!LedUnchanged, Network!Handles,
         Network!LedTypes, Network!BlinkCodes
  <2>4. Network!EventsTell'
    <3>1. Head(events) = events[1] /\ events[1] # "connected" /\ 1 \in DOMAIN events
      BY <2>a, <2>b, WlanTaken DEF Network!WlanAssumption
    <3>2. Network!Settled' => link.is = "online" /\ link.address = address
      BY <1>0, <2>a, <2>b, <3>1, WlanTaken DEF Network!EventsTell, Network!NewestTells
    <3>3. Network!HandlerKnows'
      BY <2>a, <2>b, <3>2 DEF Network!HandlerKnows
    <3>4. Network!NewestTells'
      BY <1>0, <2>b, WlanTaken DEF Network!EventsTell, Network!NewestTells
    <3>5. QED
      BY <1>0, <2>b, <3>3, <3>4, WlanTaken DEF Network!EventsTell
  <2>5. Network!RowCounted'
    BY <1>0, <2>a, <2>b, WlanTaken DEF Network!RowCounted
  <2>6. Network!LampSound'
    BY <1>0, <1>10 DEF Network!HandleGotIP, Network!LedUnchanged, Network!Handles,
         Network!LampSound, Network!LedTypes
  <2>7. QED
    BY <2>1, <2>2, <2>3, <2>4, <2>5, <2>6 DEF Network!Inductive, Network!TypeOK
<1>11. CASE Network!HandlerWakes
  <2>1. Network!NetTypes'
    BY <1>0, <1>11 DEF Network!HandlerWakes, Network!LedUnchanged, Network!NetTypes,
         Network!WlanAssumption
  <2>2. Network!CountTypes'
    BY <1>0, <1>11 DEF Network!HandlerWakes, Network!LedUnchanged, Network!CountTypes,
         Network!WlanAssumption
  <2>3. Network!LedTypes'
    BY <1>0, <1>11 DEF Network!HandlerWakes, Network!LedUnchanged, Network!LedTypes,
         Network!BlinkCodes
  <2>4. Network!EventsTell'
    BY <1>0, <1>11 DEF Network!HandlerWakes, Network!LedUnchanged, Network!EventsTell,
         Network!NewestTells, Network!HandlerKnows, Network!Newest, Network!Settled
  <2>5. Network!RowCounted'
    BY <1>0, <1>11 DEF Network!HandlerWakes, Network!LedUnchanged, Network!RowCounted
  <2>6. Network!LampSound'
    BY <1>0, <1>11 DEF Network!HandlerWakes, Network!LedUnchanged, Network!LampSound,
         Network!LedTypes
  <2>7. QED
    BY <2>1, <2>2, <2>3, <2>4, <2>5, <2>6 DEF Network!Inductive, Network!TypeOK
<1>12. CASE Network!RoamBegins
  <2>1. Network!NetTypes'
    BY <1>0, <1>12 DEF Network!RoamBegins, Network!LedUnchanged, Network!NetTypes,
         Network!WlanAssumption
  <2>2. Network!CountTypes'
    BY <1>0, <1>12 DEF Network!RoamBegins, Network!LedUnchanged, Network!CountTypes,
         Network!WlanAssumption
  <2>3. Network!LedTypes'
    BY <1>0, <1>12 DEF Network!RoamBegins, Network!LedUnchanged, Network!LedTypes,
         Network!BlinkCodes
  <2>4. Network!EventsTell'
    BY <1>0, <1>12 DEF Network!RoamBegins, Network!LedUnchanged, Network!EventsTell,
         Network!NewestTells, Network!HandlerKnows, Network!Newest, Network!Settled
  <2>5. Network!RowCounted'
    BY <1>0, <1>12 DEF Network!RoamBegins, Network!LedUnchanged, Network!RowCounted
  <2>6. Network!LampSound'
    BY <1>0, <1>12 DEF Network!RoamBegins, Network!LedUnchanged, Network!LampSound,
         Network!LedTypes
  <2>7. QED
    BY <2>1, <2>2, <2>3, <2>4, <2>5, <2>6 DEF Network!Inductive, Network!TypeOK
<1>13. CASE Network!Scanned
  <2>1. Network!NetTypes'
    BY <1>0, <1>13 DEF Network!Scanned, Network!LedUnchanged, Network!NetTypes,
         Network!WlanAssumption
  <2>2. Network!CountTypes'
    BY <1>0, <1>13 DEF Network!Scanned, Network!LedUnchanged, Network!CountTypes,
         Network!WlanAssumption
  <2>3. Network!LedTypes'
    BY <1>0, <1>13 DEF Network!Scanned, Network!LedUnchanged, Network!LedTypes, Network!BlinkCodes
  <2>4. Network!EventsTell'
    BY <1>0, <1>13 DEF Network!Scanned, Network!LedUnchanged, Network!EventsTell,
         Network!NewestTells, Network!HandlerKnows, Network!Newest, Network!Settled
  <2>5. Network!RowCounted'
    BY <1>0, <1>13 DEF Network!Scanned, Network!LedUnchanged, Network!RowCounted
  <2>6. Network!LampSound'
    BY <1>0, <1>13 DEF Network!Scanned, Network!LedUnchanged, Network!LampSound, Network!LedTypes
  <2>7. QED
    BY <2>1, <2>2, <2>3, <2>4, <2>5, <2>6 DEF Network!Inductive, Network!TypeOK
<1>14. CASE Network!Roams
  <2>a. \/ UNCHANGED <<link, events>>
        \/ /\ link' = Network!NoLink /\ link.is # "off"
           /\ events' = Append(events, "disconnected") /\ Len(events) < Pending
    BY <1>14 DEF Network!Roams, Network!Tells
  <2>b. UNCHANGED <<main, wlan, attempts>>
    BY <1>14 DEF Network!Roams
  <2>c. events \in Seq(Network!Events) /\ "disconnected" \in Network!Events \ {"start"} /\ "disconnected" \notin Addresses
    BY <1>0 DEF Network!EventsTell, Network!WlanAssumption, Network!Events
  <2>1. Network!NetTypes'
    BY <1>0, <1>14 DEF Network!Roams, Network!NoLink, Network!LedUnchanged, Network!Tells,
         Network!NetTypes, Network!WlanAssumption
  <2>2. Network!CountTypes'
    <3>1. CASE UNCHANGED <<link, events>>
      BY <1>0, <2>b, <3>1 DEF Network!CountTypes
    <3>2. CASE /\ link' = Network!NoLink /\ link.is # "off"
               /\ events' = Append(events, "disconnected") /\ Len(events) < Pending
      BY <1>0, <2>b, <2>c, <3>2 DEF Network!CountTypes, Network!WlanAssumption
    <3>3. QED
      BY <2>a, <3>1, <3>2
  <2>3. Network!LedTypes'
    BY <1>0, <1>14 DEF Network!Roams, Network!NoLink, Network!LedUnchanged, Network!Tells,
         Network!LedTypes, Network!BlinkCodes
  <2>4. Network!EventsTell'
    <3>1. CASE UNCHANGED <<link, events>>
      BY <1>0, <2>b, <3>1 DEF Network!EventsTell, Network!NewestTells, Network!HandlerKnows,
           Network!Newest,
         Network!Settled
    <3>2. CASE /\ link' = Network!NoLink /\ link.is # "off"
               /\ events' = Append(events, "disconnected") /\ Len(events) < Pending
      BY <1>0, <2>b, <2>c, <3>2, WlanAppended DEF Network!EventsTell, Network!NewestTells,
           Network!HandlerKnows, Network!NoLink
    <3>3. QED
      BY <2>a, <3>1, <3>2
  <2>5. Network!RowCounted'
    <3>1. CASE UNCHANGED <<link, events>>
      BY <1>0, <2>b, <3>1 DEF Network!RowCounted
    <3>2. CASE /\ link' = Network!NoLink /\ link.is # "off"
               /\ events' = Append(events, "disconnected") /\ Len(events) < Pending
      BY <1>0, <2>b, <2>c, <3>2, WlanAppended DEF Network!EventsTell, Network!RowCounted
    <3>3. QED
      BY <2>a, <3>1, <3>2
  <2>6. Network!LampSound'
    BY <1>0, <1>14 DEF Network!Roams, Network!NoLink, Network!LedUnchanged, Network!Tells,
         Network!LampSound, Network!LedTypes
  <2>7. QED
    BY <2>1, <2>2, <2>3, <2>4, <2>5, <2>6 DEF Network!Inductive, Network!TypeOK
<1>15. CASE Network!LedBegins
  <2>1. Network!NetTypes'
    BY <1>0, <1>15, NetStays DEF Network!LedBegins
  <2>2. Network!CountTypes'
    BY <1>0, <1>15, NetStays DEF Network!LedBegins
  <2>3. Network!LedTypes'
    BY <1>0, <1>15 DEF Network!LedBegins, Network!NetUnchanged, Network!LedTypes,
         Network!BlinkCodes
  <2>4. Network!EventsTell'
    BY <1>0, <1>15, NetStays DEF Network!LedBegins
  <2>5. Network!RowCounted'
    BY <1>0, <1>15, NetStays DEF Network!LedBegins
  <2>6. Network!LampSound'
    BY <1>0, <1>15 DEF Network!LedBegins, Network!NetUnchanged, Network!LampSound,
         Network!LedTypes
  <2>7. QED
    BY <2>1, <2>2, <2>3, <2>4, <2>5, <2>6 DEF Network!Inductive, Network!TypeOK
<1>16. CASE Network!LedBlinks
  <2>1. Network!NetTypes'
    BY <1>0, <1>16, NetStays DEF Network!LedBlinks
  <2>2. Network!CountTypes'
    BY <1>0, <1>16, NetStays DEF Network!LedBlinks
  <2>3. Network!LedTypes'
    BY <1>0, <1>16 DEF Network!LedBlinks, Network!NetUnchanged, Network!LedTypes,
         Network!BlinkCodes
  <2>4. Network!EventsTell'
    BY <1>0, <1>16, NetStays DEF Network!LedBlinks
  <2>5. Network!RowCounted'
    BY <1>0, <1>16, NetStays DEF Network!LedBlinks
  <2>6. Network!LampSound'
    BY <1>0, <1>16 DEF Network!LedBlinks, Network!NetUnchanged, Network!LampSound,
         Network!LedTypes
  <2>7. QED
    BY <2>1, <2>2, <2>3, <2>4, <2>5, <2>6 DEF Network!Inductive, Network!TypeOK
<1>17. CASE Network!LedDone
  <2>1. Network!NetTypes'
    BY <1>0, <1>17, NetStays DEF Network!LedDone
  <2>2. Network!CountTypes'
    BY <1>0, <1>17, NetStays DEF Network!LedDone
  <2>3. Network!LedTypes'
    BY <1>0, <1>17 DEF Network!LedDone, Network!NetUnchanged, Network!LedTypes, Network!BlinkCodes
  <2>4. Network!EventsTell'
    BY <1>0, <1>17, NetStays DEF Network!LedDone
  <2>5. Network!RowCounted'
    BY <1>0, <1>17, NetStays DEF Network!LedDone
  <2>6. Network!LampSound'
    BY <1>0, <1>17 DEF Network!LedDone, Network!NetUnchanged, Network!LampSound, Network!LedTypes
  <2>7. QED
    BY <2>1, <2>2, <2>3, <2>4, <2>5, <2>6 DEF Network!Inductive, Network!TypeOK
<1>18. CASE Network!LedWaited
  <2>1. Network!NetTypes'
    BY <1>0, <1>18, NetStays DEF Network!LedWaited
  <2>2. Network!CountTypes'
    BY <1>0, <1>18, NetStays DEF Network!LedWaited
  <2>3. Network!LedTypes'
    BY <1>0, <1>18 DEF Network!LedWaited, Network!NetUnchanged, Network!LedTypes,
         Network!BlinkCodes
  <2>4. Network!EventsTell'
    BY <1>0, <1>18, NetStays DEF Network!LedWaited
  <2>5. Network!RowCounted'
    BY <1>0, <1>18, NetStays DEF Network!LedWaited
  <2>6. Network!LampSound'
    BY <1>0, <1>18 DEF Network!LedWaited, Network!NetUnchanged, Network!LampSound,
         Network!LedTypes
  <2>7. QED
    BY <2>1, <2>2, <2>3, <2>4, <2>5, <2>6 DEF Network!Inductive, Network!TypeOK
<1>19. CASE Network!LedEnds
  <2>1. Network!NetTypes'
    BY <1>0, <1>19, NetStays DEF Network!LedEnds
  <2>2. Network!CountTypes'
    BY <1>0, <1>19, NetStays DEF Network!LedEnds
  <2>3. Network!LedTypes'
    BY <1>0, <1>19 DEF Network!LedEnds, Network!NetUnchanged, Network!LedTypes, Network!BlinkCodes
  <2>4. Network!EventsTell'
    BY <1>0, <1>19, NetStays DEF Network!LedEnds
  <2>5. Network!RowCounted'
    BY <1>0, <1>19, NetStays DEF Network!LedEnds
  <2>6. Network!LampSound'
    BY <1>0, <1>19 DEF Network!LedEnds, Network!NetUnchanged, Network!LampSound, Network!LedTypes
  <2>7. QED
    BY <2>1, <2>2, <2>3, <2>4, <2>5, <2>6 DEF Network!Inductive, Network!TypeOK
<1>20. CASE Network!StatusLEDOff
  <2>1. Network!NetTypes'
    BY <1>0, <1>20, NetStays DEF Network!StatusLEDOff
  <2>2. Network!CountTypes'
    BY <1>0, <1>20, NetStays DEF Network!StatusLEDOff
  <2>3. Network!LedTypes'
    BY <1>0, <1>20 DEF Network!StatusLEDOff, Network!NetUnchanged, Network!LedTypes,
         Network!BlinkCodes
  <2>4. Network!EventsTell'
    BY <1>0, <1>20, NetStays DEF Network!StatusLEDOff
  <2>5. Network!RowCounted'
    BY <1>0, <1>20, NetStays DEF Network!StatusLEDOff
  <2>6. Network!LampSound'
    BY <1>0, <1>20 DEF Network!StatusLEDOff, Network!NetUnchanged, Network!LampSound,
         Network!LedTypes
  <2>7. QED
    BY <2>1, <2>2, <2>3, <2>4, <2>5, <2>6 DEF Network!Inductive, Network!TypeOK
<1>21. CASE Network!StatusLEDDeletes
  <2>1. Network!NetTypes'
    BY <1>0, <1>21, NetStays DEF Network!StatusLEDDeletes
  <2>2. Network!CountTypes'
    BY <1>0, <1>21, NetStays DEF Network!StatusLEDDeletes
  <2>3. Network!LedTypes'
    BY <1>0, <1>21 DEF Network!StatusLEDDeletes, Network!NetUnchanged, Network!LedTypes,
         Network!BlinkCodes
  <2>4. Network!EventsTell'
    BY <1>0, <1>21, NetStays DEF Network!StatusLEDDeletes
  <2>5. Network!RowCounted'
    BY <1>0, <1>21, NetStays DEF Network!StatusLEDDeletes
  <2>6. Network!LampSound'
    BY <1>0, <1>21 DEF Network!StatusLEDDeletes, Network!NetUnchanged, Network!LampSound,
         Network!LedTypes
  <2>7. QED
    BY <2>1, <2>2, <2>3, <2>4, <2>5, <2>6 DEF Network!Inductive, Network!TypeOK
<1>22. QED
  BY <1>1, <1>2, <1>3, <1>4, <1>5, <1>6, <1>7, <1>8, <1>9, <1>10, <1>11, <1>12, <1>13, <1>14,
       <1>15, <1>16, <1>17, <1>18, <1>19, <1>20, <1>21 DEF Network!Next

\* So does every step, or none.
LEMMA WlanStepInductive ==
  Network!WlanAssumption /\ Network!Inductive /\ [Network!Next]_Network!vars => Network!Inductive'
<1> SUFFICES ASSUME Network!WlanAssumption, Network!Inductive, [Network!Next]_Network!vars PROVE Network!Inductive'
  OBVIOUS
<1>1. CASE UNCHANGED Network!vars
  <2>0. /\ Network!NetTypes /\ Network!CountTypes /\ Network!LedTypes /\ Network!EventsTell
        /\ Network!RowCounted /\ Network!LampSound
    BY DEF Network!Inductive, Network!TypeOK
  <2>1. Network!NetTypes'
    BY <1>1, <2>0 DEF Network!vars, Network!NetTypes
  <2>2. Network!CountTypes'
    BY <1>1, <2>0 DEF Network!vars, Network!CountTypes
  <2>3. Network!LedTypes'
    BY <1>1, <2>0 DEF Network!vars, Network!LedTypes
  <2>4. Network!EventsTell'
    BY <1>1, <2>0 DEF Network!vars, Network!EventsTell, Network!NewestTells, Network!HandlerKnows,
         Network!Newest, Network!Settled
  <2>5. Network!RowCounted'
    BY <1>1, <2>0 DEF Network!vars, Network!RowCounted
  <2>6. Network!LampSound'
    BY <1>1, <2>0 DEF Network!vars, Network!LampSound
  <2>7. QED
    BY <2>1, <2>2, <2>3, <2>4, <2>5, <2>6 DEF Network!Inductive, Network!TypeOK
<1>2. QED
  BY <1>1, WlanStepKeeps

\* When no event waits and the handler is awake the device knows its link.
LEMMA InductiveWlan == Network!WlanAssumption /\ Network!Inductive => Network!TypeOK /\ Network!WlanTrue
<1> SUFFICES ASSUME Network!WlanAssumption, Network!Inductive PROVE Network!TypeOK /\ Network!WlanTrue
  OBVIOUS
<1>1. events = <<>> => Network!Settled
  BY DEF Network!Settled
<1>2. attempts <= Tries
  BY DEF Network!Inductive, Network!TypeOK, Network!CountTypes, Network!WlanAssumption
<1>3. main = "up" /\ events = <<>> =>
        /\ wlan.connected <=> link.is = "online"
        /\ wlan.connected => wlan.address = link.address
        /\ link.is \in {"connecting", "joined", "online"}
  BY <1>1 DEF Network!Inductive, Network!TypeOK, Network!NetTypes, Network!EventsTell,
       Network!HandlerKnows
<1>4. QED
  BY <1>2, <1>3 DEF Network!Inductive, Network!TypeOK, Network!LampSound, Network!WlanTrue

-----------------------------------------------------------------------------
(* The configuration: a stage has what its section says, the last line of  *)
(* it that is for a key and a number                                       *)

\* Of some numbers one is the least.
LEMMA ConfLeast ==
  ASSUME NEW S \in SUBSET Nat, S # {}
  PROVE  \E m \in S : \A k \in S : m <= k
<1>1. PICK m \in S : \A k \in S : ~(<<k, m>> \in OpToRel(<, Nat))
  BY NatLessThanWellFounded, WFMin
<1>2. \A k \in S : <<k, m>> \in Nat \X Nat /\ <<k, m>>[1] = k /\ <<k, m>>[2] = m
  OBVIOUS
<1>3. \A k \in S : ~(k < m)
  BY <1>1, <1>2, Zenon DEF OpToRel
<1>4. QED
  BY <1>3

\* And of no more than so many one is the greatest.
LEMMA ConfGreatest ==
  ASSUME NEW n \in Nat, NEW S \in SUBSET (0..n), S # {}
  PROVE  \E m \in S : \A k \in S : k <= m
<1> DEFINE T == {n - k : k \in S}
<1>1. T \in SUBSET Nat /\ T # {}
  <2>1. \A k \in S : k \in Int /\ 0 <= k /\ k <= n
    OBVIOUS
  <2>2. \A k \in S : n - k \in Nat
    BY <2>1
  <2>3. QED
    BY <2>2
<1>2. PICK d \in T : \A k \in T : d <= k
  BY <1>1, ConfLeast
<1>3. PICK m \in S : d = n - m
  BY <1>2
<1>4. \A k \in S : n - m <= n - k
  BY <1>2, <1>3
<1>5. QED
  BY <1>4

\* The file in hand is one of those that there are, or none yet.
LEMMA ConfFile ==
  ASSUME Config!ConfigurationAssumption, Config!StagesSound
  PROVE  /\ Len(file) \in Nat /\ DOMAIN file = 1..Len(file)
         /\ \A n \in DOMAIN file :
              /\ file[n].is \in {"header", "setting", "dial", "comment"}
              /\ file[n].is = "dial" => file[n].number # None
<1>1. CASE file = <<>>
  BY <1>1
<1>2. CASE file \in ConfigFiles
  BY <1>2 DEF Config!ConfigurationAssumption
<1>3. QED
  BY <1>1, <1>2 DEF Config!StagesSound

\* Up to the next line there are comments only.
LEMMA ConfNextLine ==
  ASSUME Len(file) \in Nat, NEW n \in Nat, n <= Len(file), NEW m, m = Config!NextLine(n)
  PROVE  /\ m \in (n + 1)..(Len(file) + 1) /\ (m <= Len(file) => file[m].is # "comment")
         /\ \A k \in (n + 1)..(m - 1) : file[k].is = "comment"
<1> DEFINE S == {k \in (n + 1)..(Len(file) + 1) : k = Len(file) + 1 \/ file[k].is # "comment"}
<1>1. S \in SUBSET Nat /\ Len(file) + 1 \in S
  OBVIOUS
<1>2. PICK k \in S : \A l \in S : k <= l
  BY <1>1, ConfLeast
<1>3. \A l \in (n + 1)..(k - 1) : file[l].is = "comment"
  <2>1. TAKE l \in (n + 1)..(k - 1)
  <2>2. l \in (n + 1)..(Len(file) + 1) /\ ~(k <= l) /\ l # Len(file) + 1
    BY <1>2
  <2>3. l \notin S
    BY <1>2, <2>2
  <2>4. QED
    BY <2>2, <2>3
<1>4. \E k1 \in (n + 1)..(Len(file) + 1) :
        /\ k1 = Len(file) + 1 \/ file[k1].is # "comment"
        /\ \A l \in (n + 1)..(k1 - 1) : file[l].is = "comment"
  BY <1>2, <1>3
<1>5. /\ m \in (n + 1)..(Len(file) + 1) /\ (m = Len(file) + 1 \/ file[m].is # "comment")
      /\ \A k1 \in (n + 1)..(m - 1) : file[k1].is = "comment"
  BY <1>4 DEF Config!NextLine
<1>6. QED
  BY <1>5

\* A line counts for a key and a number when it is a setting for them.
ConfCounts(m, key, n) ==
  file[m].is = "setting" /\ file[m].key = key /\ (n = None \/ file[m].number \in {"default", n})

\* What the line says of them.
ConfSaid(m, key, n) == [key |-> key, number |-> n, value |-> file[m].value]

\* Lines that come before another one.
ConfBefore(L, m) == L \in SUBSET Nat /\ m \in Nat /\ \A k \in L : k < m

\* These and another one.
ConfPlus(L, m) == L \union {m}

\* What is said last counts.
LEMMA ConfLast ==
  ASSUME NEW L, NEW m, ConfBefore(L, m), NEW key, NEW n
  PROVE  Config!LastValue(ConfPlus(L, m), key, n) =
           IF ConfCounts(m, key, n) THEN {ConfSaid(m, key, n)} ELSE Config!LastValue(L, key, n)
<1> DEFINE Of(S) == {k \in S : ConfCounts(k, key, n)}
<1>1. CASE ConfCounts(m, key, n)
  <2>1. m \in Of(L \union {m}) /\ \A k \in Of(L \union {m}) : k \in Nat /\ k <= m
    BY <1>1 DEF ConfBefore
  <2>2. m = CHOOSE k \in Of(L \union {m}) : \A l \in Of(L \union {m}) : l <= k
    <3>1. \A k \in Of(L \union {m}) : (\A l \in Of(L \union {m}) : l <= k) <=> k = m
      BY <2>1
    <3>2. QED
      BY <2>1, <3>1
  <2>3. QED
    BY <1>1, <2>1, <2>2 DEF Config!LastValue, ConfCounts, ConfSaid, ConfPlus
<1>2. CASE ~ConfCounts(m, key, n)
  <2>1. Of(L \union {m}) = Of(L)
    BY <1>2
  <2>2. QED
    BY <1>2, <2>1 DEF Config!LastValue, ConfCounts, ConfPlus
<1>3. QED
  BY <1>1, <1>2

\* It is of its key and its number.
LEMMA ConfLastOf ==
  ASSUME NEW L, NEW key, NEW n, NEW v \in Config!LastValue(L, key, n)
  PROVE  v.key = key /\ v.number = n
  BY DEF Config!LastValue

\* And of no lines there is none.
LEMMA ConfLastNone == \A key, n : Config!LastValue({}, key, n) = {}
  BY DEF Config!LastValue

\* The last stage of a section, when there is one.
LEMMA ConfLastStage ==
  ASSUME Config!StagesSound, NEW s
  PROVE  /\ Config!LastOf(s) \in 0..Len(flows)
         /\ Config!LastOf(s) # 0 => flows[Config!LastOf(s)].section = s
         /\ Config!LastOf(s) = 0 => \A i \in DOMAIN flows : flows[i].section # s
<1>1. Len(flows) \in Nat /\ DOMAIN flows = 1..Len(flows)
  BY DEF Config!StagesSound
<1> DEFINE S == {i \in DOMAIN flows : flows[i].section = s}
<1>2. CASE S = {}
  BY <1>1, <1>2 DEF Config!LastOf
<1>3. CASE S # {}
  <2>1. S \in SUBSET (0..Len(flows))
    BY <1>1
  <2>2. \E i \in S : \A j \in S : j <= i
    BY <1>1, <1>3, <2>1, ConfGreatest
  <2>3. Config!LastOf(s) = CHOOSE i \in S : \A j \in S : j <= i
    BY <1>3 DEF Config!LastOf
  <2>4. Config!LastOf(s) \in S
    BY <2>2, <2>3
  <2>5. QED
    BY <1>1, <2>4
<1>4. QED
  BY <1>2, <1>3

\* A step that adds no stage, and leaves each as it was but for its numbers and settings.
ConfShaped ==
  /\ flows' \in Seq({flows'[i] : i \in DOMAIN flows'})
  /\ DOMAIN flows' = DOMAIN flows /\ Len(flows') = Len(flows)
  /\ \A i \in DOMAIN flows :
       /\ DOMAIN flows'[i] = DOMAIN flows[i] /\ flows'[i].section = flows[i].section
       /\ flows'[i].header = flows[i].header /\ flows'[i].post = flows[i].post

\* A sequence is one of its own elements.
LEMMA ConfOwnElements == \A S : \A q \in Seq(S) : q \in Seq({q[i] : i \in DOMAIN q})
  OBVIOUS

\* Such is a step that gives one stage another record.
LEMMA ConfExcept ==
  ASSUME Config!StagesSound, NEW r \in DOMAIN flows, NEW new, flows' = [flows EXCEPT ![r] = new],
         DOMAIN new = DOMAIN flows[r], new.section = flows[r].section, new.header = flows[r].header,
         new.post = flows[r].post
  PROVE  ConfShaped /\ flows'[r] = new /\ \A i \in DOMAIN flows \ {r} : flows'[i] = flows[i]
<1> DEFINE S == {flows[i] : i \in DOMAIN flows} \union {new}
<1>1. flows \in Seq(S) /\ Len(flows) \in Nat /\ DOMAIN flows = 1..Len(flows)
  BY DEF Config!StagesSound
<1>2. /\ flows' \in Seq(S) /\ Len(flows') = Len(flows) /\ DOMAIN flows' = DOMAIN flows
      /\ flows'[r] = new /\ \A i \in DOMAIN flows \ {r} : flows'[i] = flows[i]
  BY <1>1
<1>3. flows' \in Seq({flows'[i] : i \in DOMAIN flows'})
  <2> DEFINE q == flows'
  <2>1. q \in Seq(S)
    BY <1>2
  <2> HIDE DEF q, S
  <2>2. q \in Seq({q[i] : i \in DOMAIN q})
    BY <2>1, ConfOwnElements
  <2>3. QED
    BY <2>2 DEF q
<1>4. QED
  BY <1>2, <1>3 DEF ConfShaped

\* And one that leaves the stages alone.
LEMMA ConfSame == Config!StagesSound /\ UNCHANGED flows => ConfShaped
  BY DEF ConfShaped, Config!StagesSound

\* What is often needed of the lines.
LEMMA ConfLines ==
  ASSUME Config!ConfigurationAssumption, Config!Inductive
  PROVE  /\ Len(file) \in Nat /\ Len(flows) \in Nat /\ DOMAIN flows = 1..Len(flows)
         /\ line \in Nat /\ first \in Nat /\ reading \in Nat /\ 1 <= first
         /\ \A i \in Config!Now : i \in DOMAIN flows
         /\ \A h \in Nat : \A n \in Config!LinesOf(h) : n \in Nat /\ h < n /\ n <= Len(file)
         /\ \A h, t : Config!Accepted(h, t) \subseteq Config!LinesOf(h)
<1>1. Len(file) \in Nat
  BY ConfFile DEF Config!Inductive
<1>2. Len(flows) \in Nat /\ DOMAIN flows = 1..Len(flows)
  BY DEF Config!Inductive, Config!StagesSound
<1>3. line \in Nat /\ first \in Nat /\ reading \in Nat /\ 1 <= first
  BY <1>1, <1>2 DEF Config!Inductive, Config!TypeOK
<1>4. \A i \in Config!Now : i \in DOMAIN flows
  BY <1>2, <1>3 DEF Config!Now
<1>5. QED
  BY <1>1, <1>2, <1>3, <1>4 DEF Config!Accepted, Config!LinesOf

\* In the section that is read: the next line belongs to it, and only that.
LEMMA ConfAccepts ==
  ASSUME Config!ConfigurationAssumption, Config!Inductive, at = "section", reading # 0,
         NEW m, m = Config!NextLine(line), m <= Len(file), file[m].is # "header",
         NEW h, h = flows[reading].header, NEW t, t = flows[reading].section
  PROVE  /\ m \in Config!LinesOf(h) /\ m \in Nat /\ line < m
         /\ \A n \in Config!LinesOf(h) : n <= line \/ m <= n
         /\ m \in Config!Accepted(h, t) <=>
              (t \in Config!Readers /\ file[m].is = "setting" /\ file[m].key = "Reader"
                 => t = "Analog" /\ file[m].value = "PolarV1")
         /\ m \notin Config!Accepted(h, t) => \A n \in Config!Accepted(h, t) : n <= line
<1>1. /\ Len(file) \in Nat /\ line \in Nat /\ line <= Len(file) /\ h \in Nat
      /\ line = h \/ line \in Config!Accepted(h, t)
  <2>1. reading \in Config!Now /\ line \in 1..Len(file) /\ (line = h \/ line \in Config!Accepted(h, t))
    BY DEF Config!Inductive, Config!SectionOpen, Config!section
  <2>2. h \in Config!Written(t)
    BY <2>1 DEF Config!Inductive, Config!HeadersMade
  <2>3. QED
    BY <2>1, <2>2, ConfLines DEF Config!Written
<1>2. /\ m \in Nat /\ line < m /\ file[m].is # "comment"
      /\ \A k \in (line + 1)..(m - 1) : file[k].is = "comment"
  BY <1>1, ConfNextLine
<1>3. h <= line /\ \A k \in (h + 1)..line : file[k].is # "header"
  BY <1>1 DEF Config!Accepted, Config!LinesOf
<1>4. m \in Config!LinesOf(h)
  <2>1. \A k \in (h + 1)..m : file[k].is # "header"
    <3>1. TAKE k \in (h + 1)..m
    <3>2. k \in (h + 1)..line \/ k \in (line + 1)..(m - 1) \/ k = m
      BY <1>1, <1>2, <1>3
    <3>3. QED
      BY <1>2, <1>3, <3>2
  <2>2. QED
    BY <1>1, <1>2, <1>3, <2>1 DEF Config!LinesOf
<1>5. \A n \in Config!LinesOf(h) : n \in Nat /\ (n <= line \/ m <= n)
  <2>1. TAKE n \in Config!LinesOf(h)
  <2>2. n \in (h + 1)..Len(file) /\ file[n].is # "comment"
    BY DEF Config!LinesOf
  <2>3. n \notin (line + 1)..(m - 1)
    BY <1>2, <2>2
  <2>4. QED
    BY <1>1, <1>2, <2>2, <2>3
<1> DEFINE Good(k) == file[k].is = "setting" /\ file[k].key = "Reader" => t = "Analog" /\ file[k].value = "PolarV1"
<1>6. \A n : n \in Config!Accepted(h, t) <=>
            n \in Config!LinesOf(h) /\ (t \in Config!Readers => \A k \in Config!LinesOf(h) : k <= n => Good(k))
  BY DEF Config!Accepted
<1>7. t \in Config!Readers => \A k \in Config!LinesOf(h) : k <= line => Good(k)
  <2>1. CASE line = h
    BY <1>1, <2>1, ConfLines DEF Config!LinesOf
  <2>2. CASE line \in Config!Accepted(h, t)
    BY <1>6, <2>2
  <2>3. QED
    BY <1>1, <2>1, <2>2
<1> HIDE DEF Good
<1>8. m \in Config!Accepted(h, t) <=> (t \in Config!Readers => Good(m))
  BY <1>2, <1>4, <1>5, <1>6, <1>7
<1>9. m \notin Config!Accepted(h, t) => \A n \in Config!Accepted(h, t) : n <= line
  BY <1>2, <1>4, <1>5, <1>6, <1>8
<1>10. QED
  BY <1>2, <1>4, <1>5, <1>8, <1>9 DEF Good

\* The next header, or the end of the file, ends it.
LEMMA ConfEnds ==
  ASSUME Config!ConfigurationAssumption, Config!Inductive, at = "section", reading # 0,
         NEW m, m = Config!NextLine(line), m <= Len(file) => file[m].is = "header",
         NEW h, h = flows[reading].header, NEW t
  PROVE  \A n \in Config!Accepted(h, t) : n <= line
<1>1. Len(file) \in Nat /\ line \in Nat /\ line <= Len(file) /\ h \in Nat /\ h <= line
  <2>1. reading \in Config!Now /\ line \in 1..Len(file)
        /\ (line = h \/ line \in Config!Accepted(h, flows[reading].section))
    BY DEF Config!Inductive, Config!SectionOpen, Config!section
  <2>2. h \in Config!Written(flows[reading].section)
    BY <2>1 DEF Config!Inductive, Config!HeadersMade
  <2>3. QED
    BY <2>1, <2>2, ConfLines DEF Config!Written, Config!Accepted, Config!LinesOf
<1>2. /\ m \in (line + 1)..(Len(file) + 1)
      /\ \A k \in (line + 1)..(m - 1) : file[k].is = "comment"
  BY <1>1, ConfNextLine
<1>3. TAKE n \in Config!Accepted(h, t)
<1>4. n \in (h + 1)..Len(file) /\ file[n].is # "comment" /\ \A k \in (h + 1)..n : file[k].is # "header"
  BY DEF Config!Accepted, Config!LinesOf
<1>5. n \notin (line + 1)..(m - 1)
  BY <1>2, <1>4
<1>6. ~(m <= n)
  <2>1. SUFFICES ASSUME m <= n PROVE FALSE
    OBVIOUS
  <2>2. m \in (h + 1)..n /\ m <= Len(file)
    BY <1>1, <1>2, <1>4, <2>1
  <2>3. QED
    BY <1>4, <2>2
<1>7. QED
  BY <1>1, <1>2, <1>4, <1>5, <1>6

\* What the stages have been given when the next line is in hand.
LEMMA ConfGot ==
  ASSUME Config!ConfigurationAssumption, Config!Inductive, at = "section",
         line' = Config!NextLine(line), UNCHANGED <<file, first>>, ConfShaped
  PROVE  /\ line' \in Nat /\ line < line' /\ line' <= Len(file) + 1
         /\ Config!Now' = Config!Now
         /\ \A h, t : Config!Accepted(h, t)' = Config!Accepted(h, t) /\ Config!Written(t)' = Config!Written(t)
                      /\ Config!LinesOf(h)' = Config!LinesOf(h)
         /\ \A i \in Config!Now :
              /\ ConfBefore(Config!Got(i), line')
              /\ i # reading => Config!Got(i)' = Config!Got(i)
                   /\ \A n \in Config!Accepted(flows[i].header, flows[i].section) : n <= line'
<1>1. /\ Len(file) \in Nat /\ Len(flows) \in Nat /\ DOMAIN flows = 1..Len(flows) /\ line \in Nat /\ line <= Len(file)
  BY ConfLines DEF Config!Inductive, Config!SectionOpen
<1>2. line' \in Nat /\ line < line' /\ line' <= Len(file) + 1
  BY <1>1, ConfNextLine
<1>3. Config!Now' = Config!Now
  BY DEF Config!Now, ConfShaped
<1>4. \A h, t : Config!Accepted(h, t)' = Config!Accepted(h, t) /\ Config!Written(t)' = Config!Written(t)
                /\ Config!LinesOf(h)' = Config!LinesOf(h)
  BY DEF Config!Accepted, Config!LinesOf, Config!Written
<1>5. ASSUME NEW i \in Config!Now
      PROVE  /\ ConfBefore(Config!Got(i), line')
             /\ i # reading => Config!Got(i)' = Config!Got(i)
                  /\ \A n \in Config!Accepted(flows[i].header, flows[i].section) : n <= line'
  <2>1. flows[i].header \in Nat /\ i \in DOMAIN flows
    <3>1. flows[i].header \in Config!Written(flows[i].section)
      BY DEF Config!Inductive, Config!HeadersMade
    <3>2. QED
      BY <1>1, <3>1, ConfLines DEF Config!Written
  <2>2. \A n \in Config!Accepted(flows[i].header, flows[i].section) : n \in Nat
    BY <2>1, ConfLines
  <2>3. flows'[i].header = flows[i].header /\ flows'[i].section = flows[i].section
    BY <2>1 DEF ConfShaped
  <2>4. ConfBefore(Config!Got(i), line')
    BY <1>1, <1>2, <2>2 DEF Config!Got, ConfBefore
  <2>5. ASSUME i # reading PROVE \A n \in Config!Accepted(flows[i].header, flows[i].section) : n <= line
    <3>1. ~Config!Stuck(i)
      BY DEF Config!Stuck
    <3>2. QED
      BY <2>5, <3>1 DEF Config!Inductive, Config!SectionsOver
  <2>6. Config!Got(i)' = {n \in Config!Accepted(flows[i].header, flows[i].section) : n <= line'}
    BY <1>4, <2>3 DEF Config!Got
  <2>7. ASSUME i # reading PROVE Config!Got(i)' = Config!Got(i)
    BY <1>1, <1>2, <2>2, <2>5, <2>6, <2>7 DEF Config!Got
  <2>8. QED
    BY <1>1, <1>2, <2>2, <2>4, <2>5, <2>7
<1>6. QED
  BY <1>2, <1>3, <1>4, <1>5

\* Reading a section makes no stage, and leaves no header behind without one.
LEMMA ConfHeadersKeep ==
  ASSUME Config!ConfigurationAssumption, Config!Inductive, at = "section",
         line' = Config!NextLine(line), UNCHANGED <<file, first, reading>>, ConfShaped,
         at' \in {"section", "flows"}, at' = "section" => line' <= Len(file) /\ file[line'].is # "header"
  PROVE  Config!HeadersMade'
<1>1. /\ Len(file) \in Nat /\ line \in Nat /\ line <= Len(file)
      /\ \A k \in (line + 1)..(line' - 1) : file[k].is = "comment"
  <2>1. Len(file) \in Nat /\ line \in Nat /\ line <= Len(file)
    BY ConfLines DEF Config!Inductive, Config!SectionOpen
  <2>2. QED
    BY <2>1, ConfNextLine
<1>2. /\ line' \in Nat /\ line < line' /\ Config!Now' = Config!Now
      /\ \A t : Config!Written(t)' = Config!Written(t)
  BY ConfGot
<1>3. /\ \A i \in Config!Now : i \in DOMAIN flows
      /\ \A i \in Config!Now : flows'[i].section = flows[i].section /\ flows'[i].header = flows[i].header
           /\ flows'[i].post = flows[i].post
  BY ConfLines DEF ConfShaped
<1>4. \A i \in Config!Now : ~Config!Stuck(i)
  BY DEF Config!Stuck
<1>5. \A i \in Config!Now :
        /\ flows[i].section \in Supported \ Config!Own /\ flows[i].header \in Config!Written(flows[i].section)
        /\ flows[i].header \in Nat /\ flows[i].header < line'
        /\ \A j \in Config!Now : i < j => flows[i].header < flows[j].header
        /\ flows[i].section = "MQTT" /\ flows[i].post = 0 =>
             \A j \in Config!Now : flows[j].section = "PostProcessing" => i < j
  <2>1. TAKE i \in Config!Now
  <2>2. flows[i].header \in Config!Written(flows[i].section)
        /\ (flows[i].header < line \/ flows[i].header = line)
    BY <1>4 DEF Config!Inductive, Config!HeadersMade
  <2>3. flows[i].header \in Nat /\ flows[i].header < line'
    BY <1>1, <1>2, <2>2 DEF Config!Written
  <2>4. QED
    BY <1>4, <2>2, <2>3 DEF Config!Inductive, Config!HeadersMade
<1>6. ASSUME NEW t \in Supported \ Config!Own, NEW h \in Config!Written(t),
             h < line' \/ (h = line' /\ at' = "section")
      PROVE  \E i \in Config!Now : flows[i].header = h
  <2>1. h \in 1..Len(file) /\ file[h].is = "header"
    BY DEF Config!Written
  <2>2. h # line' \/ at' # "section"
    BY <2>1
  <2>3. h \notin (line + 1)..(line' - 1)
    BY <1>1, <2>1
  <2>4. h <= line
    BY <1>1, <1>2, <1>6, <2>1, <2>2, <2>3
  <2>5. h < line \/ (h = line /\ at = "section")
    BY <1>1, <2>1, <2>4
  <2>6. QED
    BY <2>5 DEF Config!Inductive, Config!HeadersMade
<1>7. QED
  BY <1>2, <1>3, <1>5, <1>6 DEF Config!HeadersMade

\* What reading a section keeps besides what the stages are given.
LEMMA ConfReadsKeep ==
  ASSUME Config!ConfigurationAssumption, Config!Inductive, at = "section",
         line' = Config!NextLine(line), UNCHANGED <<file, first, reading, inits>>, ConfShaped,
         at' \in {"section", "flows"},
         at' = "section" => line' <= Len(file) /\ file[line'].is # "header"
           /\ (reading # 0 => line' \in Config!Accepted(flows[reading].header, flows[reading].section)),
         at' = "flows" /\ reading # 0 =>
           \A n \in Config!Accepted(flows[reading].header, flows[reading].section) : n <= line,
         \A i \in DOMAIN flows : /\ \A d, e \in flows'[i].numbers : d.name = e.name => d = e
                                 /\ None \notin Config!NamesOf(flows'[i].numbers),
         Config!SettingsRead', Config!DialsRead', Config!ShiftsRead', Config!IdxRead'
  PROVE  Config!Inductive'
<1> USE DEF Config!Inductive
<1>1. /\ Len(file) \in Nat /\ Len(flows) \in Nat /\ DOMAIN flows = 1..Len(flows) /\ line \in Nat
      /\ \A i \in Config!Now : i \in DOMAIN flows
      /\ line' \in Nat /\ line < line' /\ line' <= Len(file) + 1 /\ Config!Now' = Config!Now
      /\ \A h, t : Config!Accepted(h, t)' = Config!Accepted(h, t) /\ Config!Written(t)' = Config!Written(t)
  BY ConfLines, ConfGot
<1>2. \A i \in DOMAIN flows : flows'[i].section = flows[i].section /\ flows'[i].header = flows[i].header
        /\ flows'[i].post = flows[i].post /\ DOMAIN flows'[i] = DOMAIN flows[i]
  BY DEF ConfShaped
<1>3. Config!TypeOK'
  <2>1. Len(flows') = Len(flows) /\ DOMAIN flows' = DOMAIN flows
    BY DEF ConfShaped
  <2>2. \A i \in DOMAIN flows' : flows'[i].section \in Config!SectionNames \ Config!Own /\ flows'[i].post \in 0..Len(flows')
    BY <1>2, <2>1 DEF Config!TypeOK
  <2>3. QED
    BY <1>1, <2>1, <2>2 DEF Config!TypeOK
<1>4. Config!StagesSound'
  <2>1. flows' \in Seq({flows'[i] : i \in DOMAIN flows'}) /\ DOMAIN flows' = DOMAIN flows
    BY DEF ConfShaped
  <2>2. \A i \in DOMAIN flows : flows[i].post # 0 => flows[i].post \in DOMAIN flows
    BY <1>1 DEF Config!TypeOK
  <2>3. \A i \in DOMAIN flows' :
          /\ DOMAIN flows'[i] = {"section", "header", "disabled", "numbers", "post", "set"}
          /\ flows'[i].post # 0 => flows'[flows'[i].post].section = "PostProcessing"
    BY <1>2, <2>1, <2>2 DEF Config!StagesSound
  <2>4. file \in ConfigFiles
    BY DEF Config!StagesSound
  <2>5. file' \in ConfigFiles /\ line' > 0 /\ at' # "idle"
    BY <1>1, <2>4
  <2>6. \A i \in DOMAIN flows' :
          /\ DOMAIN flows'[i] = {"section", "header", "disabled", "numbers", "post", "set"}
          /\ \A d, e \in flows'[i].numbers : d.name = e.name => d = e
          /\ None \notin Config!NamesOf(flows'[i].numbers)
          /\ flows'[i].post # 0 => flows'[flows'[i].post].section = "PostProcessing"
    BY <2>1, <2>3
  <2>7. QED
    BY <2>1, <2>5, <2>6 DEF Config!StagesSound
<1>5. Config!HeadersMade'
  BY ConfHeadersKeep
<1>6. Config!SectionOpen'
  <2>1. SUFFICES ASSUME at' = "section" PROVE Config!SectionOpen'
    BY DEF Config!SectionOpen
  <2>2. line' \in 1..Len(file)
    BY <1>1, <2>1
  <2>3. ASSUME reading # 0
        PROVE  reading = Len(flows') /\ reading \in Config!Now /\ line' \in Config!Accepted(flows'[reading].header, flows'[reading].section)
    <3>1. reading = Len(flows) /\ reading \in Config!Now
      BY <2>3 DEF Config!SectionOpen
    <3>2. flows'[reading].header = flows[reading].header /\ flows'[reading].section = flows[reading].section
      BY <1>1, <1>2, <3>1
    <3>3. QED
      BY <1>1, <2>1, <2>3, <3>1, <3>2 DEF ConfShaped
  <2>4. QED
    BY <1>1, <2>2, <2>3 DEF Config!SectionOpen, Config!section
<1>7. Config!SectionsOver'
  <2>1. ASSUME NEW i \in Config!Now
        PROVE  (at' = "section" /\ reading = i) \/ \A n \in Config!Accepted(flows'[i].header, flows'[i].section) : n <= line'
    <3>1. flows'[i].header = flows[i].header /\ flows'[i].section = flows[i].section
      BY <1>1, <1>2
    <3>2. CASE i # reading
      BY <1>1, <3>1, <3>2, ConfGot
    <3>3. CASE i = reading /\ at' = "flows"
      <4>1. flows[i].header \in Nat
        BY DEF Config!HeadersMade, Config!Written
      <4>2. reading # 0
        BY <1>1, <3>3
      <4>3. \A n \in Config!Accepted(flows[i].header, flows[i].section) : n <= line /\ n \in Nat
        BY <3>3, <4>1, <4>2, ConfLines
      <4>4. QED
        BY <1>1, <3>1, <4>3
    <3>4. QED
      BY <3>2, <3>3
  <2>2. QED
    BY <1>1, <2>1 DEF Config!SectionsOver
<1>8. Config!MemoryEnough'
  <2>1. Config!Misspelt' = Config!Misspelt /\ \A n : Config!HeadersUpTo(n)' = Config!HeadersUpTo(n)
    BY <1>1 DEF Config!Misspelt, Config!HeadersUpTo
  <2>2. QED
    BY <1>1, <1>2, <2>1 DEF Config!MemoryEnough
<1>9. Config!CrashMeant'
  BY DEF Config!CrashMeant
<1>10. QED
  BY <1>3, <1>4, <1>5, <1>6, <1>7, <1>8, <1>9

\* The next line of a section is in hand.
ConfNext ==
  /\ at = "section" /\ line' = Config!NextLine(line) /\ UNCHANGED <<file, first, reading>> /\ ConfShaped

\* It is given to the stage whose section is read, if it counts.
ConfGiven(i, m) ==
  IF i = reading /\ m \in Config!Accepted(flows[i].header, flows[i].section) THEN {m} ELSE {}

\* What each stage has been given when the next line is in hand.
LEMMA ConfGotNext ==
  ASSUME Config!ConfigurationAssumption, Config!Inductive, ConfNext
  PROVE  /\ Config!Now' = Config!Now /\ line' \in Nat
         /\ \A i \in Config!Now :
              /\ i \in DOMAIN flows /\ i # 0
              /\ Config!Got(i)' = Config!Got(i) \union ConfGiven(i, line')
              /\ ConfBefore(Config!Got(i), line')
<1>1. /\ Config!Now' = Config!Now /\ line' \in Nat /\ line < line' /\ line \in Nat
      /\ \A h, t : Config!Accepted(h, t)' = Config!Accepted(h, t)
      /\ \A i \in Config!Now : i \in DOMAIN flows /\ i # 0
  BY ConfGot, ConfLines DEF ConfNext
<1>2. SUFFICES ASSUME NEW i \in Config!Now
               PROVE  /\ Config!Got(i)' = Config!Got(i) \union ConfGiven(i, line')
                      /\ ConfBefore(Config!Got(i), line')
  BY <1>1
<1>3. /\ ConfBefore(Config!Got(i), line')
      /\ i # reading => Config!Got(i)' = Config!Got(i)
  BY ConfGot DEF ConfNext
<1>4. CASE i # reading
  BY <1>1, <1>3, <1>4 DEF ConfGiven
<1>5. CASE i = reading
  <2>1. /\ flows'[i].header = flows[i].header /\ flows'[i].section = flows[i].section
        /\ flows[i].header \in Nat
    BY <1>1 DEF ConfNext, ConfShaped, Config!Inductive, Config!HeadersMade, Config!Written
  <2>2. \A n \in Config!Accepted(flows[i].header, flows[i].section) : n \in Nat /\ (n <= line \/ line' <= n)
    <3>1. \A n \in Config!Accepted(flows[i].header, flows[i].section) : n \in Nat /\ n \in Config!LinesOf(flows[i].header)
      BY <2>1, ConfLines
    <3>2. CASE line' <= Len(file) /\ file[line'].is # "header"
      BY <1>1, <1>5, <3>1, <3>2, ConfAccepts DEF ConfNext
    <3>3. CASE line' <= Len(file) => file[line'].is = "header"
      BY <1>1, <1>5, <3>1, <3>3, ConfEnds DEF ConfNext
    <3>4. QED
      BY <3>2, <3>3
  <2>3. Config!Got(i)' = {n \in Config!Accepted(flows[i].header, flows[i].section) : n <= line'}
    BY <1>1, <2>1 DEF Config!Got
  <2>4. Config!Got(i)' = Config!Got(i) \union ConfGiven(i, line')
    BY <1>1, <1>5, <2>2, <2>3 DEF Config!Got, ConfGiven
  <2>5. QED
    BY <1>1, <1>3, <2>4
<1>6. QED
  BY <1>4, <1>5

\* A line that is given does not count for a value, or nobody is given it.
ConfApart(t, m, is, key) ==
  \/ reading = 0 \/ flows[reading].section \notin t
  \/ m \notin Config!Accepted(flows[reading].header, flows[reading].section)
  \/ ~(file[m].is = is /\ (is = "setting" => file[m].key = key))

\* What a stage is given then leaves what was said last alone.
LEMMA ConfLastKeeps ==
  ASSUME Config!ConfigurationAssumption, Config!Inductive, ConfNext, NEW t, NEW key, ConfApart(t, line', "setting", key),
         NEW i \in Config!Now, flows[i].section \in t
  PROVE  \A n : Config!LastValue(Config!Got(i), key, n)' = Config!LastValue(Config!Got(i), key, n)
<1>1. /\ Config!Got(i)' = Config!Got(i) \union ConfGiven(i, line') /\ line' \in Nat
      /\ ConfBefore(Config!Got(i), line')
  BY ConfGotNext
<1>2. TAKE n
<1>3. \A L : Config!LastValue(L, key, n)' = Config!LastValue(L, key, n)
  BY DEF Config!LastValue, ConfNext
<1>4. Config!LastValue(Config!Got(i) \union ConfGiven(i, line'), key, n) = Config!LastValue(Config!Got(i), key, n)
  <2>1. CASE ConfGiven(i, line') = {}
    BY <2>1
  <2>2. CASE ConfGiven(i, line') # {}
    <3>1. i = reading /\ line' \in Config!Accepted(flows[i].header, flows[i].section) /\ ConfGiven(i, line') = {line'}
          /\ i # 0
      BY <2>2, ConfGotNext DEF ConfGiven
    <3>2. ~ConfCounts(line', key, n)
      BY <3>1 DEF ConfApart, ConfCounts
    <3>3. Config!LastValue(ConfPlus(Config!Got(i), line'), key, n) = Config!LastValue(Config!Got(i), key, n)
      BY <1>1, <3>2, ConfLast
    <3>4. QED
      BY <3>1, <3>3 DEF ConfPlus
  <2>3. QED
    BY <2>1, <2>2
<1>5. QED
  BY <1>1, <1>3, <1>4

\* A step that changes no value of a kind, and gives no line for one, keeps what is said of them.
LEMMA ConfSettingsKeep ==
  ASSUME Config!ConfigurationAssumption, Config!Inductive, ConfNext,
         ConfApart(Config!Plain \union Config!Readers, line', "setting", "SaveAllFiles"),
         \A i \in DOMAIN flows : flows[i].section \in Config!Plain \union Config!Readers => flows'[i].set = flows[i].set
  PROVE  Config!SettingsRead'
<1>1. SUFFICES ASSUME NEW i \in Config!Now, flows[i].section \in Config!Plain \union Config!Readers
               PROVE  flows'[i].set = Config!LastValue(Config!Got(i), "SaveAllFiles", None)'
  <2>1. Config!Now' = Config!Now /\ \A i \in Config!Now : flows'[i].section = flows[i].section
    BY ConfGotNext DEF ConfNext, ConfShaped
  <2>2. QED
    BY <2>1 DEF Config!SettingsRead
<1>2. flows'[i].set = Config!LastValue(Config!Got(i), "SaveAllFiles", None)
  BY <1>1, ConfGotNext DEF Config!Inductive, Config!SettingsRead, ConfNext
<1>3. QED
  BY <1>1, <1>2, ConfLastKeeps

\* So it is with the numbers of the dials.
LEMMA ConfDialsKeep ==
  ASSUME Config!ConfigurationAssumption, Config!Inductive, ConfNext,
         ConfApart(Config!Readers, line', "dial", None),
         \A i \in DOMAIN flows : flows[i].section \in Config!Readers =>
           Config!NamesOf(flows'[i].numbers) = Config!NamesOf(flows[i].numbers)
  PROVE  Config!DialsRead'
<1>1. SUFFICES ASSUME NEW i \in Config!Now, flows[i].section \in Config!Readers
               PROVE  Config!NamesOf(flows'[i].numbers) = {file[n].number : n \in {k \in Config!Got(i)' : file[k].is = "dial"}}
  <2>1. Config!Now' = Config!Now /\ file' = file /\ \A i \in Config!Now : flows'[i].section = flows[i].section
    BY ConfGotNext DEF ConfNext, ConfShaped
  <2>2. \A i : (Config!NamesOf(flows[i].numbers))' = Config!NamesOf(flows'[i].numbers)
    BY DEF Config!NamesOf
  <2>3. QED
    BY <2>1, <2>2 DEF Config!DialsRead
<1>2. Config!NamesOf(flows'[i].numbers) = {file[n].number : n \in {k \in Config!Got(i) : file[k].is = "dial"}}
  BY <1>1, ConfGotNext DEF Config!Inductive, Config!DialsRead, ConfNext
<1>3. {k \in Config!Got(i)' : file[k].is = "dial"} = {k \in Config!Got(i) : file[k].is = "dial"}
  <2>1. Config!Got(i)' = Config!Got(i) \union ConfGiven(i, line') /\ i # 0
    BY ConfGotNext
  <2>2. \A k \in ConfGiven(i, line') : file[k].is # "dial"
    BY <1>1, <2>1 DEF ConfGiven, ConfApart
  <2>3. QED
    BY <2>1, <2>2
<1>4. QED
  BY <1>2, <1>3

\* With the decimal shifts of the numbers.
LEMMA ConfShiftsKeep ==
  ASSUME Config!ConfigurationAssumption, Config!Inductive, ConfNext,
         ConfApart({"PostProcessing"}, line', "setting", "DecimalShift"),
         \A i \in DOMAIN flows : flows[i].section = "PostProcessing" =>
           /\ {v \in flows'[i].set : v.key = "DecimalShift"} = {v \in flows[i].set : v.key = "DecimalShift"}
           /\ flows'[i].numbers = flows[i].numbers
  PROVE  Config!ShiftsRead'
<1>1. SUFFICES ASSUME NEW i \in Config!Now, flows[i].section = "PostProcessing"
               PROVE  {v \in flows'[i].set : v.key = "DecimalShift"} =
                        UNION {Config!LastValue(Config!Got(i), "DecimalShift", n)' : n \in Config!NamesOf(flows[i].numbers)}
  <2>1. Config!Now' = Config!Now /\ \A i \in Config!Now : flows'[i].section = flows[i].section /\ i \in DOMAIN flows
    BY ConfGotNext DEF ConfNext, ConfShaped
  <2>2. \A i : (Config!NamesOf(flows[i].numbers))' = Config!NamesOf(flows'[i].numbers)
    BY DEF Config!NamesOf
  <2>3. \A i, n : (Config!LastValue(Config!Got(i), "DecimalShift", n))' = Config!LastValue(Config!Got(i), "DecimalShift", n)'
    OBVIOUS
  <2>4. QED
    BY <1>1, <2>1, <2>2, <2>3 DEF Config!ShiftsRead
<1>2. \A n : Config!LastValue(Config!Got(i), "DecimalShift", n)' = Config!LastValue(Config!Got(i), "DecimalShift", n)
  BY <1>1, ConfLastKeeps
<1>3. {v \in flows[i].set : v.key = "DecimalShift"} =
        UNION {Config!LastValue(Config!Got(i), "DecimalShift", n) : n \in Config!NamesOf(flows[i].numbers)}
  BY <1>1 DEF Config!Inductive, Config!ShiftsRead, ConfNext
<1>4. i \in DOMAIN flows
  BY ConfGotNext
<1>5. QED
  BY <1>1, <1>2, <1>3, <1>4

\* All lines that the stages of MQTT have been given for this one.
ConfIdxLines(i) == UNION {Config!Got(m) : m \in Config!Writers(i)}

\* The stages of MQTT write into the same post processing; only the one that is read is given a line.
LEMMA ConfIdxNext ==
  ASSUME Config!ConfigurationAssumption, Config!Inductive, ConfNext, NEW i \in Config!Now
  PROVE  /\ Config!Writers(i)' = Config!Writers(i)
         /\ ConfBefore(ConfIdxLines(i), line')
         /\ ConfIdxLines(i)' = ConfIdxLines(i) \union
              (IF reading \in Config!Writers(i) /\ line' \in Config!Accepted(flows[reading].header, "MQTT")
               THEN {line'} ELSE {})
<1>1. Config!Writers(i)' = Config!Writers(i) /\ Config!Writers(i) \subseteq Config!Now
  <2>1. Config!Now' = Config!Now /\ \A m \in Config!Now : flows'[m].section = flows[m].section /\ flows'[m].post = flows[m].post
    BY ConfGotNext DEF ConfNext, ConfShaped
  <2>2. QED
    BY <2>1 DEF Config!Writers
<1>2. \A m \in Config!Now : /\ Config!Got(m)' = Config!Got(m) \union ConfGiven(m, line')
                            /\ ConfBefore(Config!Got(m), line')
  BY ConfGotNext
<1>3. ConfBefore(ConfIdxLines(i), line')
  <2>1. \A m \in Config!Writers(i) : Config!Got(m) \in SUBSET Nat /\ \A k \in Config!Got(m) : k < line'
    BY <1>1, <1>2 DEF ConfBefore
  <2>2. line' \in Nat
    BY ConfGotNext
  <2>3. QED
    BY <2>1, <2>2 DEF ConfIdxLines, ConfBefore
<1>4. ConfIdxLines(i)' = UNION {Config!Got(m)' : m \in Config!Writers(i)}
  <2>1. ConfIdxLines(i)' = UNION {Config!Got(m)' : m \in Config!Writers(i)'}
    BY DEF ConfIdxLines
  <2>2. QED
    BY <1>1, <2>1
<1>5. UNION {Config!Got(m)' : m \in Config!Writers(i)} =
        ConfIdxLines(i) \union UNION {ConfGiven(m, line') : m \in Config!Writers(i)}
  <2>1. \A m \in Config!Writers(i) : Config!Got(m)' = Config!Got(m) \union ConfGiven(m, line')
    BY <1>1, <1>2
  <2>2. QED
    BY <2>1 DEF ConfIdxLines
<1>6. UNION {ConfGiven(m, line') : m \in Config!Writers(i)} =
        IF reading \in Config!Writers(i) /\ line' \in Config!Accepted(flows[reading].header, "MQTT")
        THEN {line'} ELSE {}
  <2>1. \A m \in Config!Writers(i) : flows[m].section = "MQTT"
    BY DEF Config!Writers
  <2>2. QED
    BY <2>1 DEF ConfGiven
<1>7. QED
  BY <1>1, <1>3, <1>4, <1>5, <1>6

\* And with the indices that MQTT writes.
LEMMA ConfIdxKeep ==
  ASSUME Config!ConfigurationAssumption, Config!Inductive, ConfNext,
         ConfApart({"MQTT"}, line', "setting", "DomoticzIDX"),
         \A i \in DOMAIN flows : flows[i].section = "PostProcessing" =>
           /\ {v \in flows'[i].set : v.key = "DomoticzIDX"} = {v \in flows[i].set : v.key = "DomoticzIDX"}
           /\ flows'[i].numbers = flows[i].numbers
  PROVE  Config!IdxRead'
<1>1. SUFFICES ASSUME NEW i \in Config!Now, flows[i].section = "PostProcessing"
               PROVE  {v \in flows'[i].set : v.key = "DomoticzIDX"} =
                        UNION {Config!LastValue(ConfIdxLines(i)', "DomoticzIDX", n) : n \in Config!NamesOf(flows[i].numbers)}
  <2>1. Config!Now' = Config!Now /\ \A i \in Config!Now : flows'[i].section = flows[i].section /\ i \in DOMAIN flows
    BY ConfGotNext DEF ConfNext, ConfShaped
  <2>2. \A i : (Config!NamesOf(flows[i].numbers))' = Config!NamesOf(flows'[i].numbers)
    BY DEF Config!NamesOf
  <2>3. \A i, n : (Config!LastValue(ConfIdxLines(i), "DomoticzIDX", n))' = Config!LastValue(ConfIdxLines(i)', "DomoticzIDX", n)
    BY DEF Config!LastValue, ConfNext
  <2>4. Config!IdxRead' <=> \A i \in Config!Now' : flows'[i].section = "PostProcessing" =>
          {v \in flows'[i].set : v.key = "DomoticzIDX"} =
            UNION {Config!LastValue(ConfIdxLines(i), "DomoticzIDX", n)' : n \in Config!NamesOf(flows[i].numbers)'}
    BY DEF Config!IdxRead, ConfIdxLines
  <2>5. QED
    BY <1>1, <2>1, <2>2, <2>3, <2>4
<1>2. \A n : Config!LastValue(ConfIdxLines(i)', "DomoticzIDX", n) = Config!LastValue(ConfIdxLines(i), "DomoticzIDX", n)
  <2>1. /\ ConfBefore(ConfIdxLines(i), line')
        /\ ConfIdxLines(i)' = ConfIdxLines(i) \union
              (IF reading \in Config!Writers(i) /\ line' \in Config!Accepted(flows[reading].header, "MQTT")
               THEN {line'} ELSE {})
        /\ line' \in Nat
    BY ConfIdxNext, ConfGotNext
  <2>2. CASE reading \in Config!Writers(i) /\ line' \in Config!Accepted(flows[reading].header, "MQTT")
    <3>1. flows[reading].section = "MQTT" /\ reading # 0
      BY <2>2, ConfGotNext DEF Config!Writers
    <3>2. \A n : ~ConfCounts(line', "DomoticzIDX", n)
      BY <2>2, <3>1 DEF ConfApart, ConfCounts
    <3>3. ConfIdxLines(i)' = ConfPlus(ConfIdxLines(i), line')
      BY <2>1, <2>2 DEF ConfPlus
    <3>4. \A n : Config!LastValue(ConfPlus(ConfIdxLines(i), line'), "DomoticzIDX", n) =
                Config!LastValue(ConfIdxLines(i), "DomoticzIDX", n)
      BY <2>1, <3>2, ConfLast
    <3>5. QED
      BY <3>3, <3>4
  <2>3. CASE ~(reading \in Config!Writers(i) /\ line' \in Config!Accepted(flows[reading].header, "MQTT"))
    <3>1. ConfIdxLines(i)' = ConfIdxLines(i)
      BY <2>1, <2>3
    <3>2. QED
      BY <3>1
  <2>4. QED
    BY <2>2, <2>3
<1>3. {v \in flows[i].set : v.key = "DomoticzIDX"} =
        UNION {Config!LastValue(ConfIdxLines(i), "DomoticzIDX", n) : n \in Config!NamesOf(flows[i].numbers)}
  BY <1>1 DEF Config!Inductive, Config!IdxRead, ConfNext, ConfIdxLines
<1>4. i \in DOMAIN flows
  BY ConfGotNext
<1>5. QED
  BY <1>1, <1>2, <1>3, <1>4

\* Which keys are known where.
LEMMA ConfKnown ==
  /\ \A s \in Config!Plain \union Config!Readers : "SaveAllFiles" \in Config!Known[s]
  /\ \A s \in Config!Readers : "Reader" \in Config!Known[s]
  /\ "DecimalShift" \in Config!Known["PostProcessing"] /\ "DomoticzIDX" \in Config!Known["MQTT"]
<1>1. \A s \in Config!Plain : s \in Config!SectionNames /\ Config!Known[s] = {"SaveAllFiles"}
  BY DEF Config!Known, Config!SectionNames, Config!Plain, Config!Readers
<1>2. \A s \in Config!Readers : s \in Config!SectionNames /\ Config!Known[s] = {"SaveAllFiles", "Reader"}
  BY DEF Config!Known, Config!SectionNames, Config!Plain, Config!Readers
<1>3. Config!Known["PostProcessing"] = {"DecimalShift"}
  BY DEF Config!Known, Config!SectionNames, Config!Plain, Config!Readers
<1>4. Config!Known["MQTT"] = {"DomoticzIDX"}
  BY DEF Config!Known, Config!SectionNames, Config!Plain, Config!Readers
<1>5. QED
  BY <1>1, <1>2, <1>3, <1>4

\* A setting for some numbers leaves the other keys alone.
LEMMA ConfPutOther ==
  ASSUME NEW set, NEW key, NEW ns, NEW value1, NEW other, other # key
  PROVE  \A v : v.key = other => (v \in Config!Put(set, key, ns, value1) <=> v \in set)
<1> DEFINE put == Config!Put(set, key, ns, value1)
<1>1. put = {w \in set : w.key # key \/ w.number \notin ns} \union {[key |-> key, number |-> n, value |-> value1] : n \in ns}
  BY DEF Config!Put
<1> HIDE DEF put
<1>2. \A v : v.key = other => (v \in put <=> v \in set)
  BY <1>1
<1>3. QED
  BY <1>2 DEF put

\* And is what was said last for each of its numbers.
ConfHas(set, key, numbers, L) ==
  \A v : v \in set /\ v.key = key <=> \E n \in Config!NamesOf(numbers) : v \in Config!LastValue(L, key, n)

\* So it is when the line has been read.
LEMMA ConfPut ==
  ASSUME NEW set, NEW key, NEW numbers, None \notin Config!NamesOf(numbers),
         NEW L, NEW m, ConfBefore(L, m), file[m].is = "setting", file[m].key = key, ConfHas(set, key, numbers, L)
  PROVE  ConfHas(Config!Put(set, key, Config!For(numbers, file[m].number), file[m].value), key, numbers, ConfPlus(L, m))
<1> DEFINE ns == Config!For(numbers, file[m].number)
           put == Config!Put(set, key, ns, file[m].value)
           new(n) == ConfSaid(m, key, n)
<1>1. put = {w \in set : w.key # key \/ w.number \notin ns} \union {new(n) : n \in ns}
  BY DEF Config!Put, ConfSaid
<1>2. \A n : new(n).key = key /\ new(n).number = n
  BY DEF ConfSaid
<1>3. \A n : n \in ns <=> n \in Config!NamesOf(numbers) /\ file[m].number \in {"default", n}
  BY DEF Config!For
<1> HIDE DEF ns
<1>4. \A n \in Config!NamesOf(numbers) :
        Config!LastValue(ConfPlus(L, m), key, n) = IF n \in ns THEN {new(n)} ELSE Config!LastValue(L, key, n)
  <2>1. TAKE n \in Config!NamesOf(numbers)
  <2>2. n # None
    OBVIOUS
  <2>3. ConfCounts(m, key, n) <=> n \in ns
    BY <1>3, <2>2 DEF ConfCounts
  <2>4. QED
    BY <2>3, ConfLast
<1> HIDE DEF put, new
<1>5. \A n : \A v \in Config!LastValue(L, key, n) : v.key = key /\ v.number = n
  BY ConfLastOf
<1>6. \A w : w \in put /\ w.key = key <=> (w \in set /\ w.key = key /\ w.number \notin ns) \/ \E n \in ns : w = new(n)
  BY <1>1, <1>2
<1>7. \A w : w \in set /\ w.key = key <=> \E n \in Config!NamesOf(numbers) : w \in Config!LastValue(L, key, n)
  BY DEF ConfHas
<1>8. \A w : (w \in set /\ w.key = key /\ w.number \notin ns) <=>
             \E n \in Config!NamesOf(numbers) : n \notin ns /\ w \in Config!LastValue(L, key, n)
  BY <1>5, <1>7
<1>9. ns \subseteq Config!NamesOf(numbers)
  BY <1>3
<1>10. \A w : (\E n \in Config!NamesOf(numbers) : w \in Config!LastValue(ConfPlus(L, m), key, n)) <=>
               (\E n \in Config!NamesOf(numbers) : n \notin ns /\ w \in Config!LastValue(L, key, n)) \/ \E n \in ns : w = new(n)
  BY <1>4, <1>9
<1>11. \A w : w \in put /\ w.key = key <=> \E n \in Config!NamesOf(numbers) : w \in Config!LastValue(ConfPlus(L, m), key, n)
  BY <1>6, <1>8, <1>10
<1>12. QED
  BY <1>11 DEF put, ns, ConfHas

\* A line of the section is read: the reader that cannot accept it gives the section up.
ConfReads ==
  /\ ConfNext /\ UNCHANGED inits
  /\ line' <= Len(file) /\ file[line'].is \in {"setting", "dial"} /\ at' \in {"section", "flows"}
  /\ IF reading # 0 /\ flows[reading].section \in Config!Readers /\ file[line'].is = "setting" /\ file[line'].key = "Reader"
     THEN at' = "section" <=> flows[reading].section = "Analog" /\ file[line'].value = "PolarV1"
     ELSE at' = "section"

\* No number is in a list twice, afterwards.
ConfOnce ==
  \A i \in DOMAIN flows : /\ \A d, e \in flows'[i].numbers : d.name = e.name => d = e
                          /\ None \notin Config!NamesOf(flows'[i].numbers)

\* Such a step keeps the invariant when the numbers and values of the stages are right.
LEMMA ConfReadStep ==
  ASSUME Config!ConfigurationAssumption, Config!Inductive, ConfReads
  PROVE  /\ line' \in Nat /\ (reading # 0 => reading \in Config!Now /\ reading \in DOMAIN flows)
         /\ reading # 0 => (line' \in Config!Accepted(flows[reading].header, flows[reading].section) <=> at' = "section")
         /\ ConfOnce /\ Config!SettingsRead' /\ Config!DialsRead' /\ Config!ShiftsRead' /\ Config!IdxRead' => Config!Inductive'
<1> USE DEF ConfReads
<1>1. line' \in Nat /\ (reading # 0 => reading \in Config!Now /\ reading \in DOMAIN flows)
  BY ConfGotNext, ConfLines DEF Config!Inductive, Config!SectionOpen, ConfNext
<1>2. ASSUME reading # 0
      PROVE  /\ line' \in Config!Accepted(flows[reading].header, flows[reading].section) <=> at' = "section"
             /\ at' = "flows" => \A n \in Config!Accepted(flows[reading].header, flows[reading].section) : n <= line
  <2>1. at = "section" /\ line' = Config!NextLine(line) /\ file[line'].is # "header"
    BY DEF ConfNext
  <2>2. /\ line' \in Config!Accepted(flows[reading].header, flows[reading].section) <=>
              (flows[reading].section \in Config!Readers /\ file[line'].is = "setting" /\ file[line'].key = "Reader"
                 => flows[reading].section = "Analog" /\ file[line'].value = "PolarV1")
        /\ line' \notin Config!Accepted(flows[reading].header, flows[reading].section) =>
              \A n \in Config!Accepted(flows[reading].header, flows[reading].section) : n <= line
    BY <1>2, <2>1, ConfAccepts
  <2>3. QED
    BY <1>2, <2>2
<1>3. /\ at = "section" /\ line' = Config!NextLine(line) /\ UNCHANGED <<file, first, reading, inits>> /\ ConfShaped
      /\ at' \in {"section", "flows"} /\ line' <= Len(file) /\ file[line'].is # "header"
      /\ at' = "section" /\ reading # 0 => line' \in Config!Accepted(flows[reading].header, flows[reading].section)
      /\ at' = "flows" /\ reading # 0 => \A n \in Config!Accepted(flows[reading].header, flows[reading].section) : n <= line
  BY <1>2 DEF ConfNext
<1>4. ASSUME ConfOnce, Config!SettingsRead', Config!DialsRead', Config!ShiftsRead', Config!IdxRead'
      PROVE  Config!Inductive'
  BY <1>3, <1>4, ConfReadsKeep DEF ConfOnce
<1>5. QED
  BY <1>1, <1>2, <1>4

\* A list in which no number is twice stays so when the stages keep theirs.
LEMMA ConfOnceKeep ==
  ASSUME Config!StagesSound, \A i \in DOMAIN flows : flows'[i].numbers = flows[i].numbers
  PROVE  ConfOnce
BY DEF Config!StagesSound, ConfOnce

\* A line that counts for nothing, while the stages keep their numbers and values.
LEMMA ConfQuiet ==
  ASSUME Config!ConfigurationAssumption, Config!Inductive, ConfNext,
         \A i \in DOMAIN flows : flows'[i].numbers = flows[i].numbers /\ flows'[i].set = flows[i].set,
         ConfApart(Config!Plain \union Config!Readers, line', "setting", "SaveAllFiles"),
         ConfApart(Config!Readers, line', "dial", None),
         ConfApart({"PostProcessing"}, line', "setting", "DecimalShift"),
         ConfApart({"MQTT"}, line', "setting", "DomoticzIDX")
  PROVE  ConfOnce /\ Config!SettingsRead' /\ Config!DialsRead' /\ Config!ShiftsRead' /\ Config!IdxRead'
<1>1. ConfOnce
  BY ConfOnceKeep DEF Config!Inductive
<1>2. Config!SettingsRead'
  BY ConfSettingsKeep
<1>3. Config!DialsRead'
  BY ConfDialsKeep
<1>4. Config!ShiftsRead'
  BY ConfShiftsKeep
<1>5. Config!IdxRead'
  BY ConfIdxKeep
<1>6. QED
  BY <1>1, <1>2, <1>3, <1>4, <1>5

\* A line that nobody asks for, or that is for ClassFlowControll itself.
LEMMA ConfUnknown ==
  ASSUME Config!ConfigurationAssumption, Config!Inductive, Config!ReadUnknown \/ Config!ReadOwn
  PROVE  Config!Inductive'
<1>1. ConfShaped
  BY ConfSame DEF Config!ReadUnknown, Config!ReadOwn, Config!Inductive
<1>2. at = "section" /\ at' = at /\ flows' = flows /\ ConfNext /\ UNCHANGED inits /\ line' <= Len(file)
  BY <1>1 DEF Config!ReadUnknown, Config!ReadOwn, Config!Takes, ConfNext
<1>3. \/ reading = 0 /\ file[line'].is = "setting"
      \/ reading # 0 /\ file[line'].is = "setting" /\ file[line'].key \notin Config!Known[flows[reading].section]
      \/ file[line'].is = "dial" /\ (reading # 0 => flows[reading].section \notin Config!Readers)
  BY DEF Config!ReadUnknown, Config!ReadOwn, Config!Takes, Config!section
<1>4. ConfReads
  BY <1>2, <1>3, ConfKnown DEF ConfReads
<1>5. /\ ConfApart(Config!Plain \union Config!Readers, line', "setting", "SaveAllFiles")
      /\ ConfApart(Config!Readers, line', "dial", None)
      /\ ConfApart({"PostProcessing"}, line', "setting", "DecimalShift")
      /\ ConfApart({"MQTT"}, line', "setting", "DomoticzIDX")
  BY <1>3, ConfKnown DEF ConfApart
<1>6. QED
  BY <1>2, <1>4, <1>5, ConfQuiet, ConfReadStep

\* A setting of the reader: it goes on, or the rest of the section is not read.
LEMMA ConfReader ==
  ASSUME Config!ConfigurationAssumption, Config!Inductive, Config!ReadReader
  PROVE  Config!Inductive'
<1>1. /\ at = "section" /\ line' = Config!NextLine(line) /\ UNCHANGED <<file, reading, first, inits>> /\ line' <= Len(file)
      /\ file[line'].is = "setting" /\ file[line'].key = "Reader"
      /\ reading # 0 /\ flows[reading].section \in Config!Readers
  BY DEF Config!ReadReader, Config!Takes, Config!section, Config!Readers
<1>2. reading \in DOMAIN flows
  BY <1>1, ConfLines DEF Config!Inductive, Config!SectionOpen
<1>3. ConfShaped /\ \A i \in DOMAIN flows : flows'[i].numbers = flows[i].numbers /\ flows'[i].set = flows[i].set
  <2>1. CASE flows' = flows
    BY <2>1, ConfSame DEF Config!Inductive
  <2>2. CASE flows' = [flows EXCEPT ![reading].disabled = TRUE]
    <3> DEFINE new == [flows[reading] EXCEPT !.disabled = TRUE]
    <3>1. flows' = [flows EXCEPT ![reading] = new]
      BY <2>2
    <3>2. /\ DOMAIN new = DOMAIN flows[reading] /\ new.section = flows[reading].section /\ new.header = flows[reading].header
          /\ new.post = flows[reading].post /\ new.numbers = flows[reading].numbers /\ new.set = flows[reading].set
      OBVIOUS
    <3> HIDE DEF new
    <3>3. ConfShaped /\ flows'[reading] = new /\ \A i \in DOMAIN flows \ {reading} : flows'[i] = flows[i]
      BY <1>2, <3>1, <3>2, ConfExcept DEF Config!Inductive
    <3>4. QED
      BY <3>2, <3>3
  <2>3. QED
    BY <2>1, <2>2 DEF Config!ReadReader
<1>4. ConfNext
  BY <1>1, <1>3 DEF ConfNext
<1>5. ConfReads
  BY <1>1, <1>4 DEF ConfReads, Config!ReadReader, Config!section
<1>6. /\ ConfApart(Config!Plain \union Config!Readers, line', "setting", "SaveAllFiles")
      /\ ConfApart(Config!Readers, line', "dial", None)
      /\ ConfApart({"PostProcessing"}, line', "setting", "DecimalShift")
      /\ ConfApart({"MQTT"}, line', "setting", "DomoticzIDX")
  BY <1>1 DEF ConfApart
<1>7. QED
  BY <1>3, <1>4, <1>5, <1>6, ConfQuiet, ConfReadStep

\* The next header, or the end of the file.
LEMMA ConfSectionEnds ==
  ASSUME Config!ConfigurationAssumption, Config!Inductive, Config!SectionEnds
  PROVE  Config!Inductive'
<1>1. /\ at = "section" /\ line' = Config!NextLine(line) /\ UNCHANGED <<file, reading, first, inits>> /\ at' = "flows"
      /\ (line' <= Len(file) => file[line'].is = "header")
  BY DEF Config!SectionEnds
<1>2. reading # 0 => reading \in DOMAIN flows
  BY <1>1, ConfLines DEF Config!Inductive, Config!SectionOpen
<1>3. ConfShaped /\ \A i \in DOMAIN flows : flows'[i].numbers = flows[i].numbers /\ flows'[i].set = flows[i].set
  <2>1. CASE flows' = flows
    BY <2>1, ConfSame DEF Config!Inductive
  <2>2. CASE reading # 0 /\ flows' = [flows EXCEPT ![reading].disabled = TRUE]
    <3> DEFINE new == [flows[reading] EXCEPT !.disabled = TRUE]
    <3>1. flows' = [flows EXCEPT ![reading] = new]
      BY <2>2
    <3>2. /\ DOMAIN new = DOMAIN flows[reading] /\ new.section = flows[reading].section /\ new.header = flows[reading].header
          /\ new.post = flows[reading].post /\ new.numbers = flows[reading].numbers /\ new.set = flows[reading].set
      OBVIOUS
    <3> HIDE DEF new
    <3>3. ConfShaped /\ flows'[reading] = new /\ \A i \in DOMAIN flows \ {reading} : flows'[i] = flows[i]
      BY <1>2, <2>2, <3>1, <3>2, ConfExcept DEF Config!Inductive
    <3>4. QED
      BY <3>2, <3>3
  <2>3. QED
    BY <2>1, <2>2 DEF Config!SectionEnds, Config!section, Config!Readers
<1>4. ConfNext
  BY <1>1, <1>3 DEF ConfNext
<1>5. reading # 0 => \A n \in Config!Accepted(flows[reading].header, flows[reading].section) : n <= line
  BY <1>1, ConfEnds
<1>6. reading # 0 => line' \notin Config!Accepted(flows[reading].header, flows[reading].section)
  BY <1>1, <1>3, <1>5, ConfLines, ConfGot
<1>7. /\ ConfApart(Config!Plain \union Config!Readers, line', "setting", "SaveAllFiles")
      /\ ConfApart(Config!Readers, line', "dial", None)
      /\ ConfApart({"PostProcessing"}, line', "setting", "DecimalShift")
      /\ ConfApart({"MQTT"}, line', "setting", "DomoticzIDX")
  BY <1>6 DEF ConfApart
<1>8. ConfOnce /\ Config!SettingsRead' /\ Config!DialsRead' /\ Config!ShiftsRead' /\ Config!IdxRead'
  BY <1>3, <1>4, <1>7, ConfQuiet
<1>9. QED
  BY <1>1, <1>3, <1>5, <1>8, ConfReadsKeep DEF ConfOnce

\* A stage is given another record with the same section, header and post processing.
LEMMA ConfStageChanges ==
  ASSUME Config!StagesSound, at = "section", line' = Config!NextLine(line), UNCHANGED <<file, first, reading>>,
         NEW r \in DOMAIN flows, NEW new, flows' = [flows EXCEPT ![r] = new],
         DOMAIN new = DOMAIN flows[r], new.section = flows[r].section, new.header = flows[r].header,
         new.post = flows[r].post
  PROVE  ConfNext /\ flows'[r] = new /\ \A i \in DOMAIN flows \ {r} : flows'[i] = flows[i]
BY ConfExcept DEF ConfNext

\* A setting of a stage of its own.
LEMMA ConfSetting ==
  ASSUME Config!ConfigurationAssumption, Config!Inductive, Config!ReadSetting
  PROVE  Config!Inductive'
<1>1. /\ at = "section" /\ line' = Config!NextLine(line) /\ UNCHANGED <<file, reading, first, inits>> /\ line' <= Len(file)
      /\ at' = at /\ file[line'].is = "setting" /\ file[line'].key = "SaveAllFiles"
      /\ reading # 0 /\ flows[reading].section \in Config!Plain \union Config!Readers
  BY DEF Config!ReadSetting, Config!Takes, Config!section
<1>2. reading \in DOMAIN flows /\ reading \in Config!Now
  BY <1>1, ConfLines DEF Config!Inductive, Config!SectionOpen
<1> DEFINE put == Config!Put(flows[reading].set, "SaveAllFiles", {None}, file[line'].value)
           new == [flows[reading] EXCEPT !.set = put]
<1>3. flows' = [flows EXCEPT ![reading] = new]
  BY DEF Config!ReadSetting
<1>4. /\ DOMAIN new = DOMAIN flows[reading] /\ new.section = flows[reading].section /\ new.header = flows[reading].header
      /\ new.post = flows[reading].post /\ new.numbers = flows[reading].numbers /\ new.set = put
  BY <1>2 DEF Config!Inductive, Config!StagesSound
<1> HIDE DEF new, put
<1>5. ConfNext /\ flows'[reading] = new /\ \A i \in DOMAIN flows \ {reading} : flows'[i] = flows[i]
  BY <1>1, <1>2, <1>3, <1>4, ConfStageChanges DEF Config!Inductive
<1>6. ConfReads
  BY <1>1, <1>5 DEF ConfReads
<1>7. /\ ConfApart(Config!Readers, line', "dial", None)
      /\ ConfApart({"PostProcessing"}, line', "setting", "DecimalShift")
      /\ ConfApart({"MQTT"}, line', "setting", "DomoticzIDX")
  BY <1>1 DEF ConfApart
<1>8. \A i \in DOMAIN flows :
        /\ flows'[i].numbers = flows[i].numbers
        /\ flows[i].section = "PostProcessing" => flows'[i] = flows[i]
  BY <1>1, <1>4, <1>5 DEF Config!Plain, Config!Readers
<1>9. ConfOnce /\ Config!DialsRead' /\ Config!ShiftsRead' /\ Config!IdxRead'
  <2>1. ConfOnce
    BY <1>8, ConfOnceKeep DEF Config!Inductive
  <2>2. Config!DialsRead'
    BY <1>5, <1>7, <1>8, ConfDialsKeep
  <2>3. Config!ShiftsRead'
    BY <1>5, <1>7, <1>8, ConfShiftsKeep
  <2>4. Config!IdxRead'
    BY <1>5, <1>7, <1>8, ConfIdxKeep
  <2>5. QED
    BY <2>1, <2>2, <2>3, <2>4
<1>10. ASSUME NEW i \in Config!Now, flows[i].section \in Config!Plain \union Config!Readers
       PROVE  flows'[i].set = Config!LastValue(Config!Got(i)', "SaveAllFiles", None)
  <2>1. /\ Config!Got(i)' = Config!Got(i) \union ConfGiven(i, line') /\ line' \in Nat /\ i \in DOMAIN flows
        /\ ConfBefore(Config!Got(i), line')
        /\ flows[i].set = Config!LastValue(Config!Got(i), "SaveAllFiles", None)
    BY <1>1, <1>5, <1>10, ConfGotNext DEF Config!Inductive, Config!SettingsRead
  <2>2. CASE i # reading
    <3>1. Config!Got(i)' = Config!Got(i) /\ flows'[i] = flows[i]
      BY <1>5, <2>1, <2>2 DEF ConfGiven
    <3>2. QED
      BY <2>1, <3>1
  <2>3. CASE i = reading
    <3>1. Config!Got(i)' = ConfPlus(Config!Got(i), line')
      BY <1>1, <1>6, <2>1, <2>3, ConfReadStep DEF ConfGiven, ConfPlus
    <3>2. Config!LastValue(Config!Got(i)', "SaveAllFiles", None) =
            {ConfSaid(line', "SaveAllFiles", None)}
      <4>1. ConfCounts(line', "SaveAllFiles", None)
        BY <1>1 DEF ConfCounts
      <4>2. QED
        BY <2>1, <3>1, <4>1, ConfLast
    <3>3. \A v \in flows[i].set : v.key = "SaveAllFiles" /\ v.number = None
      BY <2>1, ConfLastOf
    <3>4. put = {ConfSaid(line', "SaveAllFiles", None)}
      BY <2>3, <3>3 DEF put, Config!Put, ConfSaid
    <3>5. QED
      BY <1>4, <1>5, <2>3, <3>2, <3>4
  <2>4. QED
    BY <2>2, <2>3
<1>11. Config!SettingsRead'
  <2>1. Config!Now' = Config!Now /\ \A i \in Config!Now : flows'[i].section = flows[i].section
    BY <1>5, ConfGotNext DEF ConfNext, ConfShaped
  <2>2. \A i : (Config!LastValue(Config!Got(i), "SaveAllFiles", None))' = Config!LastValue(Config!Got(i)', "SaveAllFiles", None)
    BY <1>1 DEF Config!LastValue
  <2>3. QED
    BY <1>10, <2>1, <2>2 DEF Config!SettingsRead
<1>12. QED
  BY <1>6, <1>9, <1>11, ConfReadStep

\* A setting for the numbers of the post processing.
LEMMA ConfNumberSetting ==
  ASSUME Config!ConfigurationAssumption, Config!Inductive, Config!ReadNumberSetting
  PROVE  Config!Inductive'
<1>1. /\ at = "section" /\ line' = Config!NextLine(line) /\ UNCHANGED <<file, reading, first, inits>> /\ line' <= Len(file)
      /\ at' = at /\ file[line'].is = "setting" /\ file[line'].key = "DecimalShift"
      /\ reading # 0 /\ flows[reading].section = "PostProcessing"
  BY DEF Config!ReadNumberSetting, Config!Takes, Config!section
<1>2. reading \in DOMAIN flows /\ reading \in Config!Now
  BY <1>1, ConfLines DEF Config!Inductive, Config!SectionOpen
<1> DEFINE ns == Config!For(flows[reading].numbers, file[line'].number)
           put == Config!Put(flows[reading].set, "DecimalShift", ns, file[line'].value)
           new == [flows[reading] EXCEPT !.set = put]
<1>3. flows' = [flows EXCEPT ![reading] = new]
  BY DEF Config!ReadNumberSetting
<1>4. /\ DOMAIN new = DOMAIN flows[reading] /\ new.section = flows[reading].section /\ new.header = flows[reading].header
      /\ new.post = flows[reading].post /\ new.numbers = flows[reading].numbers /\ new.set = put
  BY <1>2 DEF Config!Inductive, Config!StagesSound
<1> HIDE DEF new, put
<1>5. ConfNext /\ flows'[reading] = new /\ \A i \in DOMAIN flows \ {reading} : flows'[i] = flows[i]
  BY <1>1, <1>2, <1>3, <1>4, ConfStageChanges DEF Config!Inductive
<1>6. ConfReads
  BY <1>1, <1>5 DEF ConfReads
<1>7. /\ ConfApart(Config!Plain \union Config!Readers, line', "setting", "SaveAllFiles")
      /\ ConfApart(Config!Readers, line', "dial", None)
      /\ ConfApart({"MQTT"}, line', "setting", "DomoticzIDX")
  BY <1>1 DEF ConfApart
<1>8. {v \in put : v.key = "DomoticzIDX"} = {v \in flows[reading].set : v.key = "DomoticzIDX"}
  <2>1. "DomoticzIDX" # "DecimalShift"
    OBVIOUS
  <2>2. \A v : v.key = "DomoticzIDX" => (v \in put <=> v \in flows[reading].set)
    BY <2>1, ConfPutOther, Zenon DEF put
  <2>3. QED
    BY <2>2
<1>9. \A i \in DOMAIN flows :
        /\ flows'[i].numbers = flows[i].numbers
        /\ flows[i].section \in Config!Plain \union Config!Readers => flows'[i].set = flows[i].set
        /\ {v \in flows'[i].set : v.key = "DomoticzIDX"} = {v \in flows[i].set : v.key = "DomoticzIDX"}
  BY <1>1, <1>4, <1>5, <1>8 DEF Config!Plain, Config!Readers
<1>10. ConfOnce /\ Config!SettingsRead' /\ Config!DialsRead' /\ Config!IdxRead'
  BY <1>5, <1>7, <1>9, ConfOnceKeep, ConfSettingsKeep, ConfDialsKeep, ConfIdxKeep DEF Config!Inductive
<1>11. ASSUME NEW i \in Config!Now, flows[i].section = "PostProcessing"
       PROVE  {v \in flows'[i].set : v.key = "DecimalShift"} =
                UNION {Config!LastValue(Config!Got(i)', "DecimalShift", n) : n \in Config!NamesOf(flows[i].numbers)}
  <2>1. /\ Config!Got(i)' = Config!Got(i) \union ConfGiven(i, line') /\ line' \in Nat /\ i \in DOMAIN flows
        /\ ConfBefore(Config!Got(i), line')
    BY <1>5, ConfGotNext
  <2>2. {v \in flows[i].set : v.key = "DecimalShift"} =
          UNION {Config!LastValue(Config!Got(i), "DecimalShift", n) : n \in Config!NamesOf(flows[i].numbers)}
    BY <1>1, <1>11 DEF Config!Inductive, Config!ShiftsRead
  <2>3. CASE i # reading
    <3>1. Config!Got(i)' = Config!Got(i) /\ flows'[i] = flows[i]
      BY <1>5, <2>1, <2>3 DEF ConfGiven
    <3>2. QED
      BY <2>2, <3>1
  <2>4. CASE i = reading
    <3>1. Config!Got(i)' = ConfPlus(Config!Got(i), line')
      BY <1>1, <1>6, <2>1, <2>4, ConfReadStep DEF ConfGiven, ConfPlus
    <3>2. None \notin Config!NamesOf(flows[i].numbers)
      BY <2>1 DEF Config!Inductive, Config!StagesSound
    <3>3. ConfHas(flows[i].set, "DecimalShift", flows[i].numbers, Config!Got(i))
      <4>1. \A n : \A v \in Config!LastValue(Config!Got(i), "DecimalShift", n) : v.key = "DecimalShift"
        BY ConfLastOf
      <4>2. QED
        BY <2>2, <4>1 DEF ConfHas
    <3>4. ConfHas(put, "DecimalShift", flows[i].numbers, ConfPlus(Config!Got(i), line'))
      <4>1. put = Config!Put(flows[i].set, "DecimalShift", Config!For(flows[i].numbers, file[line'].number), file[line'].value)
        BY <2>4 DEF put
      <4>2. QED
        BY <1>1, <2>1, <3>2, <3>3, <4>1, ConfPut
    <3>5. flows'[i].set = put
      BY <1>4, <1>5, <2>4
    <3>6. QED
      BY <3>1, <3>4, <3>5 DEF ConfHas
  <2>5. QED
    BY <2>3, <2>4
<1>12. Config!ShiftsRead'
  <2>1. Config!Now' = Config!Now /\ \A i \in Config!Now : flows'[i].section = flows[i].section /\ i \in DOMAIN flows
    BY <1>5, ConfGotNext DEF ConfNext, ConfShaped
  <2>2. \A i : Config!NamesOf(flows[i].numbers)' = Config!NamesOf(flows'[i].numbers)
    BY DEF Config!NamesOf
  <2>3. \A i, n : (Config!LastValue(Config!Got(i), "DecimalShift", n))' = Config!LastValue(Config!Got(i)', "DecimalShift", n)
    BY <1>1 DEF Config!LastValue
  <2>4. QED
    BY <1>9, <1>11, <2>1, <2>2, <2>3 DEF Config!ShiftsRead
<1>13. QED
  BY <1>6, <1>10, <1>12, ConfReadStep

\* MQTT counts for a post processing that it has found.
LEMMA ConfIdx ==
  ASSUME Config!ConfigurationAssumption, Config!Inductive, Config!ReadIdx, flows[reading].post # 0
  PROVE  Config!Inductive'
<1> DEFINE post1 == flows[reading].post
<1>1. /\ at = "section" /\ line' = Config!NextLine(line) /\ UNCHANGED <<file, reading, first, inits>> /\ line' <= Len(file)
      /\ file[line'].is = "setting" /\ file[line'].key = "DomoticzIDX" /\ at' = at
      /\ reading # 0 /\ flows[reading].section = "MQTT"
  BY DEF Config!ReadIdx, Config!Takes, Config!section
<1>2. /\ reading \in DOMAIN flows /\ reading \in Config!Now
      /\ post1 \in DOMAIN flows /\ flows[post1].section = "PostProcessing"
  <2>1. reading \in DOMAIN flows /\ reading \in Config!Now
    BY <1>1, ConfLines DEF Config!Inductive, Config!SectionOpen
  <2>2. post1 \in 0..Len(flows) /\ Len(flows) \in Nat /\ DOMAIN flows = 1..Len(flows)
    BY <2>1, ConfLines DEF Config!Inductive, Config!TypeOK
  <2>3. flows[post1].section = "PostProcessing"
    BY <2>1 DEF Config!Inductive, Config!StagesSound
  <2>4. QED
    BY <2>1, <2>2, <2>3
<1> DEFINE put == Config!Put(flows[post1].set, "DomoticzIDX", Config!For(flows[post1].numbers, file[line'].number), file[line'].value)
           new == [flows[post1] EXCEPT !.set = put]
<1>3. flows' = [flows EXCEPT ![post1] = new]
  BY DEF Config!ReadIdx
<1>4. /\ DOMAIN new = DOMAIN flows[post1] /\ new.section = flows[post1].section /\ new.header = flows[post1].header
      /\ new.post = flows[post1].post /\ new.numbers = flows[post1].numbers /\ new.set = put
  BY <1>2 DEF Config!Inductive, Config!StagesSound
<1> HIDE DEF new, put
<1>5. ConfNext /\ flows'[post1] = new /\ \A i \in DOMAIN flows \ {post1} : flows'[i] = flows[i]
  BY <1>1, <1>2, <1>3, <1>4, ConfStageChanges DEF Config!Inductive
<1>6. ConfReads
  BY <1>1, <1>5 DEF ConfReads
<1>7. /\ ConfApart(Config!Plain \union Config!Readers, line', "setting", "SaveAllFiles")
      /\ ConfApart(Config!Readers, line', "dial", None)
      /\ ConfApart({"PostProcessing"}, line', "setting", "DecimalShift")
  BY <1>1 DEF ConfApart
<1>8. {v \in put : v.key = "DecimalShift"} = {v \in flows[post1].set : v.key = "DecimalShift"}
  <2>1. "DomoticzIDX" # "DecimalShift"
    OBVIOUS
  <2>2. \A v : v.key = "DecimalShift" => (v \in put <=> v \in flows[post1].set)
    BY <2>1, ConfPutOther, Zenon DEF put
  <2>3. QED
    BY <2>2
<1>9. \A i \in DOMAIN flows :
        /\ flows'[i].numbers = flows[i].numbers
        /\ flows[i].section \in Config!Plain \union Config!Readers => flows'[i].set = flows[i].set
        /\ {v \in flows'[i].set : v.key = "DecimalShift"} = {v \in flows[i].set : v.key = "DecimalShift"}
  BY <1>2, <1>4, <1>5, <1>8 DEF Config!Plain, Config!Readers
<1>10. ConfOnce /\ Config!SettingsRead' /\ Config!DialsRead' /\ Config!ShiftsRead'
  BY <1>5, <1>7, <1>9, ConfOnceKeep, ConfSettingsKeep, ConfDialsKeep, ConfShiftsKeep DEF Config!Inductive
<1>11. ASSUME NEW i \in Config!Now, flows[i].section = "PostProcessing"
       PROVE  {v \in flows'[i].set : v.key = "DomoticzIDX"} =
                UNION {Config!LastValue(ConfIdxLines(i)', "DomoticzIDX", n) : n \in Config!NamesOf(flows[i].numbers)}
  <2>1. /\ line' \in Nat /\ i \in DOMAIN flows /\ ConfBefore(ConfIdxLines(i), line')
        /\ ConfIdxLines(i)' = ConfIdxLines(i) \union
             (IF reading \in Config!Writers(i) /\ line' \in Config!Accepted(flows[reading].header, "MQTT")
              THEN {line'} ELSE {})
    BY <1>5, ConfGotNext, ConfIdxNext
  <2>2. {v \in flows[i].set : v.key = "DomoticzIDX"} =
          UNION {Config!LastValue(ConfIdxLines(i), "DomoticzIDX", n) : n \in Config!NamesOf(flows[i].numbers)}
    BY <1>1, <1>11 DEF Config!Inductive, Config!IdxRead, ConfIdxLines
  <2>3. CASE i # post1
    <3>1. reading \notin Config!Writers(i)
      BY <2>3 DEF Config!Writers
    <3>2. ConfIdxLines(i)' = ConfIdxLines(i) /\ flows'[i] = flows[i]
      BY <1>5, <2>1, <2>3, <3>1
    <3>3. QED
      BY <2>2, <3>2
  <2>4. CASE i = post1
    <3>1. ConfIdxLines(i)' = ConfPlus(ConfIdxLines(i), line')
      <4>1. reading \in Config!Writers(i)
        BY <1>1, <1>2, <2>4 DEF Config!Writers
      <4>2. line' \in Config!Accepted(flows[reading].header, "MQTT")
        BY <1>1, <1>6, ConfReadStep
      <4>3. QED
        BY <2>1, <4>1, <4>2 DEF ConfPlus
    <3>2. None \notin Config!NamesOf(flows[i].numbers)
      BY <2>1 DEF Config!Inductive, Config!StagesSound
    <3>3. ConfHas(flows[i].set, "DomoticzIDX", flows[i].numbers, ConfIdxLines(i))
      <4>1. \A n : \A v \in Config!LastValue(ConfIdxLines(i), "DomoticzIDX", n) : v.key = "DomoticzIDX"
        BY ConfLastOf
      <4>2. QED
        BY <2>2, <4>1 DEF ConfHas
    <3>4. ConfHas(put, "DomoticzIDX", flows[i].numbers, ConfPlus(ConfIdxLines(i), line'))
      <4>1. put = Config!Put(flows[i].set, "DomoticzIDX", Config!For(flows[i].numbers, file[line'].number), file[line'].value)
        BY <2>4 DEF put
      <4>2. QED
        BY <1>1, <2>1, <3>2, <3>3, <4>1, ConfPut
    <3>5. flows'[i].set = put
      BY <1>4, <1>5, <2>4
    <3>6. QED
      BY <3>1, <3>4, <3>5 DEF ConfHas
  <2>5. QED
    BY <2>3, <2>4
<1>12. Config!IdxRead'
  <2>1. Config!Now' = Config!Now /\ \A i \in Config!Now : flows'[i].section = flows[i].section /\ i \in DOMAIN flows
    BY <1>5, ConfGotNext DEF ConfNext, ConfShaped
  <2>2. \A i : Config!NamesOf(flows[i].numbers)' = Config!NamesOf(flows'[i].numbers)
    BY DEF Config!NamesOf
  <2>3. \A i, n : (Config!LastValue(ConfIdxLines(i), "DomoticzIDX", n))' = Config!LastValue(ConfIdxLines(i)', "DomoticzIDX", n)
    BY <1>1 DEF Config!LastValue
  <2>4. Config!IdxRead' <=> \A i \in Config!Now' : flows'[i].section = "PostProcessing" =>
          {v \in flows'[i].set : v.key = "DomoticzIDX"} =
            UNION {Config!LastValue(ConfIdxLines(i), "DomoticzIDX", n)' : n \in Config!NamesOf(flows[i].numbers)'}
    BY DEF Config!IdxRead, ConfIdxLines
  <2>5. QED
    BY <1>9, <1>11, <2>1, <2>2, <2>3, <2>4
<1>13. QED
  BY <1>6, <1>10, <1>12, ConfReadStep

\* MQTT without a post processing before it: the device crashes.
LEMMA ConfIdxCrashes ==
  ASSUME Config!ConfigurationAssumption, Config!Inductive, Config!ReadIdx, flows[reading].post = 0
  PROVE  Config!Inductive'
<1>1. /\ at = "section" /\ line' = Config!NextLine(line) /\ UNCHANGED <<file, reading, first, inits, flows>> /\ line' <= Len(file)
      /\ file[line'].is = "setting" /\ file[line'].key = "DomoticzIDX" /\ at' = "crashed"
      /\ reading # 0 /\ flows[reading].section = "MQTT"
  BY DEF Config!ReadIdx, Config!Takes, Config!section
<1>2. /\ reading \in DOMAIN flows /\ reading \in Config!Now /\ reading = Len(flows) /\ Len(flows) \in Nat
      /\ DOMAIN flows = 1..Len(flows) /\ line \in Nat
      /\ line' \in Nat /\ line < line' /\ Len(file) \in Nat
      /\ \A i \in Config!Now : i \in DOMAIN flows
  BY <1>1, ConfLines, ConfGot, ConfSame DEF Config!Inductive, Config!SectionOpen
<1> DEFINE h == flows[reading].header
<1>3. h \in Config!Written("MQTT") /\ line' \in Config!LinesOf(h) /\ h <= line
  <2>1. h \in Config!Written("MQTT")
    BY <1>1, <1>2 DEF Config!Inductive, Config!HeadersMade
  <2>2. line' \in Config!LinesOf(h)
    BY <1>1, ConfAccepts
  <2>3. h <= line
    <3>1. h \in Nat /\ (line = h \/ line \in Config!Accepted(h, "MQTT"))
      BY <1>1, <1>2, <2>1 DEF Config!Inductive, Config!SectionOpen, Config!section, Config!Written
    <3>2. line \in Config!Accepted(h, "MQTT") => h < line
      BY <3>1, ConfLines
    <3>3. QED
      BY <1>2, <3>1, <3>2
  <2>4. QED
    BY <2>1, <2>2, <2>3
<1>4. ASSUME NEW p \in Config!Written("PostProcessing") PROVE h < p
  <2>1. SUFFICES ASSUME ~(h < p) PROVE FALSE
    OBVIOUS
  <2>2. p \in Nat /\ h \in Nat /\ p # h /\ p < line
    BY <1>2, <1>3, <2>1 DEF Config!Written
  <2>3. "PostProcessing" \in Supported \ Config!Own
    BY DEF Config!ConfigurationAssumption, Config!Own
  <2>4. PICK j \in Config!Now : flows[j].header = p
    BY <1>1, <2>2, <2>3 DEF Config!Inductive, Config!HeadersMade
  <2>5. flows[j].section = "PostProcessing"
    BY <1>1, <2>4 DEF Config!Inductive, Config!HeadersMade, Config!Written
  <2>6. reading < j
    BY <1>1, <1>2, <2>5 DEF Config!Inductive, Config!HeadersMade
  <2>7. QED
    BY <1>2, <2>4, <2>6
<1>5. Config!Misordered'
  <2>1. Config!Misordered
    BY <1>1, <1>3, <1>4 DEF Config!Misordered
  <2>2. QED
    BY <1>1, <2>1 DEF Config!Misordered, Config!Written, Config!LinesOf
<1>6. Config!TypeOK'
  BY <1>1, <1>2 DEF Config!Inductive, Config!TypeOK
<1>7. Config!StagesSound'
  BY <1>1, <1>2 DEF Config!Inductive, Config!StagesSound, Config!NamesOf
<1>8. QED
  BY <1>1, <1>5, <1>6, <1>7 DEF Config!Inductive, Config!CrashMeant

\* A dial adds its number to the list of its reader.
LEMMA ConfDial ==
  ASSUME Config!ConfigurationAssumption, Config!Inductive, Config!ReadDial
  PROVE  Config!Inductive'
<1>1. /\ at = "section" /\ line' = Config!NextLine(line) /\ UNCHANGED <<file, reading, first, inits>> /\ line' <= Len(file)
      /\ at' = at /\ file[line'].is = "dial"
      /\ reading # 0 /\ flows[reading].section \in Config!Readers
  BY DEF Config!ReadDial, Config!Takes, Config!section, Config!Readers
<1>2. reading \in DOMAIN flows /\ reading \in Config!Now
  BY <1>1, ConfLines DEF Config!Inductive, Config!SectionOpen
<1> DEFINE dial1 == [name |-> file[line'].number, line |-> line']
           list == Config!With(flows[reading].numbers, {dial1})
           new == [flows[reading] EXCEPT !.numbers = list]
<1>3. flows' = [flows EXCEPT ![reading] = new]
  BY DEF Config!ReadDial
<1>4. /\ DOMAIN new = DOMAIN flows[reading] /\ new.section = flows[reading].section /\ new.header = flows[reading].header
      /\ new.post = flows[reading].post /\ new.numbers = list /\ new.set = flows[reading].set
  BY <1>2 DEF Config!Inductive, Config!StagesSound
<1>5. Config!NamesOf(list) = Config!NamesOf(flows[reading].numbers) \union {file[line'].number}
  <2>1. list = flows[reading].numbers \union
                 {e \in {dial1} : e.name \notin Config!NamesOf(flows[reading].numbers)}
    BY DEF Config!With
  <2>2. dial1.name = file[line'].number
    OBVIOUS
  <2> HIDE DEF dial1, list
  <2>3. CASE file[line'].number \in Config!NamesOf(flows[reading].numbers)
    BY <2>1, <2>2, <2>3 DEF Config!NamesOf
  <2>4. CASE file[line'].number \notin Config!NamesOf(flows[reading].numbers)
    <3>1. list = flows[reading].numbers \union {dial1}
      BY <2>1, <2>2, <2>4
    <3>2. QED
      BY <2>2, <3>1 DEF Config!NamesOf
  <2>5. QED
    BY <2>3, <2>4
<1>6. \A d, e \in list : d.name = e.name => d = e
  <2>1. \A d, e \in flows[reading].numbers : d.name = e.name => d = e
    BY <1>2 DEF Config!Inductive, Config!StagesSound
  <2>2. QED
    BY <2>1 DEF Config!With, Config!NamesOf
<1>7. None \notin Config!NamesOf(list)
  <2>1. line' \in DOMAIN file
    BY <1>1, ConfFile, ConfGot, ConfLines, ConfNextLine DEF Config!Inductive, Config!SectionOpen
  <2>2. file[line'].number # None
    BY <1>1, <2>1, ConfFile DEF Config!Inductive
  <2>3. QED
    BY <1>2, <1>5, <2>2 DEF Config!Inductive, Config!StagesSound
<1> HIDE DEF new, list
<1>8. ConfNext /\ flows'[reading] = new /\ \A i \in DOMAIN flows \ {reading} : flows'[i] = flows[i]
  BY <1>1, <1>2, <1>3, <1>4, ConfStageChanges DEF Config!Inductive
<1>9. ConfReads
  BY <1>1, <1>8 DEF ConfReads
<1>10. /\ ConfApart(Config!Plain \union Config!Readers, line', "setting", "SaveAllFiles")
       /\ ConfApart({"PostProcessing"}, line', "setting", "DecimalShift")
       /\ ConfApart({"MQTT"}, line', "setting", "DomoticzIDX")
  BY <1>1 DEF ConfApart
<1>11. \A i \in DOMAIN flows :
        /\ flows'[i].set = flows[i].set
        /\ flows[i].section = "PostProcessing" => flows'[i] = flows[i]
  BY <1>1, <1>4, <1>8 DEF Config!Readers
<1>12. ConfOnce /\ Config!SettingsRead' /\ Config!ShiftsRead' /\ Config!IdxRead'
  <2>1. ConfOnce
    <3>1. \A i \in DOMAIN flows \ {reading} : /\ \A d, e \in flows[i].numbers : d.name = e.name => d = e
                                            /\ None \notin Config!NamesOf(flows[i].numbers)
      BY DEF Config!Inductive, Config!StagesSound
    <3>2. QED
      BY <1>4, <1>6, <1>7, <1>8, <3>1 DEF ConfOnce
  <2>2. Config!SettingsRead'
    BY <1>8, <1>10, <1>11, ConfSettingsKeep
  <2>3. Config!ShiftsRead'
    BY <1>8, <1>10, <1>11, ConfShiftsKeep
  <2>4. Config!IdxRead'
    BY <1>8, <1>10, <1>11, ConfIdxKeep
  <2>5. QED
    BY <2>1, <2>2, <2>3, <2>4
<1>13. ASSUME NEW i \in Config!Now, flows[i].section \in Config!Readers
       PROVE  Config!NamesOf(flows'[i].numbers) = {file[n].number : n \in {k \in Config!Got(i)' : file[k].is = "dial"}}
  <2>1. /\ Config!Got(i)' = Config!Got(i) \union ConfGiven(i, line') /\ i \in DOMAIN flows
        /\ Config!NamesOf(flows[i].numbers) = {file[n].number : n \in {k \in Config!Got(i) : file[k].is = "dial"}}
    BY <1>1, <1>8, <1>13, ConfGotNext DEF Config!Inductive, Config!DialsRead
  <2>2. CASE i # reading
    <3>1. Config!Got(i)' = Config!Got(i) /\ flows'[i] = flows[i]
      BY <1>8, <2>1, <2>2 DEF ConfGiven
    <3>2. QED
      BY <2>1, <3>1
  <2>3. CASE i = reading
    <3>1. Config!Got(i)' = Config!Got(i) \union {line'}
      BY <1>1, <1>9, <2>1, <2>3, ConfReadStep DEF ConfGiven
    <3>2. {k \in Config!Got(i)' : file[k].is = "dial"} = {k \in Config!Got(i) : file[k].is = "dial"} \union {line'}
      BY <1>1, <3>1
    <3>3. {file[n].number : n \in {k \in Config!Got(i)' : file[k].is = "dial"}} =
            {file[n].number : n \in {k \in Config!Got(i) : file[k].is = "dial"}} \union {file[line'].number}
      BY <3>2
    <3>4. QED
      BY <1>4, <1>5, <1>8, <2>1, <2>3, <3>3
  <2>4. QED
    BY <2>2, <2>3
<1>14. Config!DialsRead'
  <2>1. Config!Now' = Config!Now /\ file' = file /\ \A i \in Config!Now : flows'[i].section = flows[i].section
    BY <1>8, ConfGotNext DEF ConfNext, ConfShaped
  <2>2. \A i : (Config!NamesOf(flows[i].numbers))' = Config!NamesOf(flows'[i].numbers)
    BY DEF Config!NamesOf
  <2>3. QED
    BY <1>13, <2>1, <2>2 DEF Config!DialsRead
<1>15. QED
  BY <1>9, <1>12, <1>14, ConfReadStep

\* What the file says is the same as long as it is the same file.
LEMMA ConfSameFile ==
  ASSUME UNCHANGED file
  PROVE  /\ \A h, t : Config!Accepted(h, t)' = Config!Accepted(h, t) /\ Config!Written(t)' = Config!Written(t)
         /\ \A L, key, n : Config!LastValue(L, key, n)' = Config!LastValue(L, key, n)
         /\ \A n : Config!HeadersUpTo(n)' = Config!HeadersUpTo(n)
         /\ Config!Misspelt' = Config!Misspelt /\ Config!Misordered' = Config!Misordered
<1>1. \A h, t : Config!Accepted(h, t)' = Config!Accepted(h, t) /\ Config!Written(t)' = Config!Written(t)
  BY DEF Config!Accepted, Config!LinesOf, Config!Written
<1>2. \A L, key, n : Config!LastValue(L, key, n)' = Config!LastValue(L, key, n)
  BY DEF Config!LastValue
<1>3. \A n : Config!HeadersUpTo(n)' = Config!HeadersUpTo(n)
  BY DEF Config!HeadersUpTo
<1>4. Config!Misspelt' = Config!Misspelt
  BY DEF Config!Misspelt, Config!Written
<1>5. Config!Misordered' = Config!Misordered
  BY DEF Config!Misordered, Config!Written, Config!LinesOf
<1>6. QED
  BY <1>1, <1>2, <1>3, <1>4, <1>5

\* While no stage is given a line, and none is new, what they have stays right.
LEMMA ConfValuesKeep ==
  ASSUME Config!SettingsRead, Config!DialsRead, Config!ShiftsRead, Config!IdxRead,
         UNCHANGED <<file, flows, first>>, \A i \in Config!Now : Config!Got(i)' = Config!Got(i)
  PROVE  Config!SettingsRead' /\ Config!DialsRead' /\ Config!ShiftsRead' /\ Config!IdxRead'
<1>1. /\ Config!Now' = Config!Now
      /\ \A i : Config!NamesOf(flows[i].numbers)' = Config!NamesOf(flows[i].numbers) /\ Config!Writers(i)' = Config!Writers(i)
      /\ \A i : Config!Writers(i) \subseteq Config!Now
  BY DEF Config!Now, Config!NamesOf, Config!Writers
<1>2. \A L, key, n : Config!LastValue(L, key, n)' = Config!LastValue(L, key, n)
  BY ConfSameFile
<1>3. \A i, key, n : (Config!LastValue(Config!Got(i), key, n))' = Config!LastValue(Config!Got(i)', key, n)
  BY DEF Config!LastValue
<1>4. Config!SettingsRead'
  BY <1>1, <1>2, <1>3 DEF Config!SettingsRead
<1>5. Config!DialsRead'
  BY <1>1 DEF Config!DialsRead
<1>6. Config!ShiftsRead'
  BY <1>1, <1>2, <1>3 DEF Config!ShiftsRead
<1>7. Config!IdxRead'
  <2>1. \A i : ConfIdxLines(i)' = ConfIdxLines(i)
    <3>1. TAKE i
    <3>2. ConfIdxLines(i)' = UNION {Config!Got(m)' : m \in Config!Writers(i)'}
      BY DEF ConfIdxLines
    <3>3. \A m \in Config!Writers(i) : Config!Got(m)' = Config!Got(m)
      BY <1>1
    <3>4. QED
      BY <1>1, <3>2, <3>3 DEF ConfIdxLines
  <2>2. Config!IdxRead' <=> \A i \in Config!Now' : flows'[i].section = "PostProcessing" =>
          {v \in flows'[i].set : v.key = "DomoticzIDX"} =
            UNION {Config!LastValue(ConfIdxLines(i), "DomoticzIDX", n)' : n \in Config!NamesOf(flows[i].numbers)'}
    BY DEF Config!IdxRead, ConfIdxLines
  <2>3. \A i, n : (Config!LastValue(ConfIdxLines(i), "DomoticzIDX", n))' = Config!LastValue(ConfIdxLines(i)', "DomoticzIDX", n)
    BY DEF Config!LastValue
  <2>4. \A i \in Config!Now : flows[i].section = "PostProcessing" =>
          {v \in flows[i].set : v.key = "DomoticzIDX"} =
            UNION {Config!LastValue(ConfIdxLines(i), "DomoticzIDX", n) : n \in Config!NamesOf(flows[i].numbers)}
    BY DEF Config!IdxRead, ConfIdxLines
  <2>5. QED
    BY <1>1, <1>2, <2>1, <2>2, <2>3, <2>4
<1>8. QED
  BY <1>4, <1>5, <1>6, <1>7

\* A step between the sections that makes no stage.
LEMMA ConfBetween ==
  ASSUME Config!ConfigurationAssumption, Config!Inductive, at = "flows", UNCHANGED <<file, flows, first, inits>>,
         line' \in line..(Len(file) + 1), reading' \in 0..Len(flows), at' \in {"flows", "idle", "section"},
         \A i \in Config!Now : ~Config!Stuck(i),
         at' = "section" => reading' = 0 /\ line' \in 1..Len(file),
         at' = "idle" => line' > Len(file),
         \A t \in Supported \ Config!Own : \A h \in Config!Written(t) :
           h < line' \/ (h = line' /\ at' = "section") => h < line
  PROVE  Config!Inductive'
<1> USE DEF Config!Inductive
<1>1. /\ Len(file) \in Nat /\ Len(flows) \in Nat /\ DOMAIN flows = 1..Len(flows) /\ line \in Nat /\ line' \in Nat /\ line <= line'
      /\ \A i \in Config!Now : i \in DOMAIN flows /\ i # 0
      /\ \A h, t : Config!Accepted(h, t)' = Config!Accepted(h, t) /\ Config!Written(t)' = Config!Written(t)
      /\ Config!Now' = Config!Now
  BY ConfLines, ConfSameFile DEF Config!Now
<1>2. \A i \in Config!Now :
        /\ flows[i].header \in Nat /\ flows[i].header < line
        /\ \A n \in Config!Accepted(flows[i].header, flows[i].section) : n \in Nat /\ n <= line
  <2>1. TAKE i \in Config!Now
  <2>2. ~Config!Stuck(i)
    OBVIOUS
  <2>3. flows[i].header \in Config!Written(flows[i].section) /\ flows[i].header < line
    BY <2>2 DEF Config!HeadersMade
  <2>4. flows[i].header \in Nat
    BY <1>1, <2>3 DEF Config!Written
  <2>5. \A n \in Config!Accepted(flows[i].header, flows[i].section) : n \in Nat
    BY <2>4, ConfLines
  <2>6. \A n \in Config!Accepted(flows[i].header, flows[i].section) : n <= line
    BY <2>2 DEF Config!SectionsOver
  <2>7. QED
    BY <2>3, <2>4, <2>5, <2>6
<1>3. \A i \in Config!Now : Config!Got(i)' = Config!Got(i)
  <2>1. TAKE i \in Config!Now
  <2>2. Config!Got(i)' = {n \in Config!Accepted(flows[i].header, flows[i].section) : n <= line'}
    BY <1>1 DEF Config!Got
  <2>3. QED
    BY <1>1, <1>2, <2>2 DEF Config!Got
<1>4. Config!SettingsRead' /\ Config!DialsRead' /\ Config!ShiftsRead' /\ Config!IdxRead'
  BY <1>3, ConfValuesKeep
<1>5. Config!TypeOK'
  BY <1>1 DEF Config!TypeOK
<1>6. Config!StagesSound'
  <2>1. \A i : Config!NamesOf(flows[i].numbers)' = Config!NamesOf(flows[i].numbers)
    BY DEF Config!NamesOf
  <2>2. file \in ConfigFiles /\ line > 0
    BY DEF Config!StagesSound
  <2>3. QED
    BY <1>1, <2>1, <2>2 DEF Config!StagesSound
<1>7. Config!HeadersMade'
  <2>1. \A i \in Config!Now :
          /\ flows[i].section \in Supported \ Config!Own /\ flows[i].header \in Config!Written(flows[i].section)
          /\ flows[i].header < line'
          /\ \A j \in Config!Now : i < j => flows[i].header < flows[j].header
          /\ flows[i].section = "MQTT" /\ flows[i].post = 0 =>
               \A j \in Config!Now : flows[j].section = "PostProcessing" => i < j
    BY <1>1, <1>2 DEF Config!HeadersMade
  <2>2. \A t \in Supported \ Config!Own : \A h \in Config!Written(t) :
          h < line' \/ (h = line' /\ at' = "section") => \E i \in Config!Now : flows[i].header = h
    BY DEF Config!HeadersMade
  <2>3. QED
    BY <1>1, <2>1, <2>2 DEF Config!HeadersMade
<1>8. Config!SectionOpen'
  BY DEF Config!SectionOpen
<1>9. Config!SectionsOver'
  <2>1. \A i \in Config!Now : \A n \in Config!Accepted(flows[i].header, flows[i].section) : n <= line'
    BY <1>1, <1>2
  <2>2. QED
    BY <1>1, <2>1 DEF Config!SectionsOver
<1>10. Config!MemoryEnough'
  BY <1>1, ConfSameFile DEF Config!MemoryEnough
<1>11. Config!CrashMeant'
  BY DEF Config!CrashMeant
<1>12. QED
  BY <1>4, <1>5, <1>6, <1>7, <1>8, <1>9, <1>10, <1>11

\* A header that has been turned down is one that can be made again.
LEMMA ConfStuck ==
  ASSUME Config!ConfigurationAssumption, Config!Inductive, NEW i \in Config!Now, Config!Stuck(i)
  PROVE  /\ line \in 1..Len(file) /\ file[line].is = "header" /\ file[line].on /\ ~file[line].exact
         /\ file[line].section \in Supported \ Config!Own /\ file[line].section \in Config!Exact
         /\ Config!Misspelt
<1>1. /\ at = "flows" /\ flows[i].header = line /\ flows[i].section \in Config!Exact /\ ~file[line].exact
      /\ flows[i].section \in Supported \ Config!Own /\ line \in Config!Written(flows[i].section)
  BY DEF Config!Stuck, Config!Inductive, Config!HeadersMade
<1>2. QED
  BY <1>1 DEF Config!Written, Config!Misspelt

\* A line that is passed over, and the end of the file.
LEMMA ConfSkipDone ==
  ASSUME Config!ConfigurationAssumption, Config!Inductive, Config!Skip \/ Config!Done
  PROVE  Config!Inductive'
<1>1. /\ at = "flows" /\ UNCHANGED <<file, flows, first, inits, reading>>
      /\ Len(file) \in Nat /\ line \in Nat /\ line <= Len(file) + 1 /\ reading \in 0..Len(flows)
  BY ConfLines DEF Config!Skip, Config!Done, Config!Inductive, Config!TypeOK
<1>2. CASE Config!Skip
  <2>1. /\ line' = line + 1 /\ line <= Len(file) /\ at' = "flows"
        /\ ~(file[line].is = "header" /\ file[line].on /\ file[line].section \in Supported)
    BY <1>1, <1>2 DEF Config!Skip, Config!IsHeader
  <2>2. \A i \in Config!Now : ~Config!Stuck(i)
    BY <2>1, ConfStuck
  <2>3. \A t \in Supported \ Config!Own : \A h \in Config!Written(t) : h < line' => h < line
    BY <1>1, <2>1 DEF Config!Written
  <2>4. QED
    BY <1>1, <2>1, <2>2, <2>3, ConfBetween
<1>3. CASE Config!Done
  <2>1. line' = line /\ line > Len(file) /\ at' = "idle"
    BY <1>3 DEF Config!Done
  <2>2. \A i \in Config!Now : ~Config!Stuck(i)
    BY <1>1, <2>1, ConfStuck
  <2>3. QED
    BY <1>1, <2>1, <2>2, ConfBetween
<1>4. QED
  BY <1>2, <1>3

\* A section of ClassFlowControll itself makes no stage.
LEMMA ConfCreateOwn ==
  ASSUME Config!ConfigurationAssumption, Config!Inductive, Config!Create, file[line].section \in Config!Own
  PROVE  Config!Inductive'
<1>1. /\ at = "flows" /\ UNCHANGED <<file, flows, first, inits>> /\ line' = line /\ at' = "section" /\ reading' = 0
      /\ Len(file) \in Nat /\ line \in Nat /\ line <= Len(file) /\ Len(flows) \in Nat
  BY ConfLines DEF Config!Create, Config!IsHeader
<1>2. line > 0
  BY <1>1 DEF Config!Inductive, Config!StagesSound
<1>3. \A i \in Config!Now : ~Config!Stuck(i)
  BY ConfStuck
<1>4. \A t \in Supported \ Config!Own : \A h \in Config!Written(t) : h < line \/ h = line => h < line
  BY DEF Config!Written
<1>5. QED
  BY <1>1, <1>2, <1>3, <1>4, ConfBetween

\* The cardinality of the module is the one of the library.
LEMMA ConfCardinality == \A S : Config!Cardinality(S) = Cardinality(S)
BY DEF Config!Cardinality, Cardinality

\* The headers up to a line are no more than memory has room for; one more is one more.
LEMMA ConfHeaders ==
  ASSUME Config!ConfigurationAssumption, Config!Inductive, NEW h \in Nat, NEW m \in 1..Len(file), file[m].is = "header"
  PROVE  /\ Config!Cardinality(Config!HeadersUpTo(h)) \in Nat
         /\ h < m => Config!Cardinality(Config!HeadersUpTo(h)) + 1 <= Config!Cardinality(Config!HeadersUpTo(m))
         /\ file \in ConfigFiles => Config!Cardinality(Config!HeadersUpTo(m)) <= Memory
         /\ 1 <= Config!Cardinality(Config!HeadersUpTo(m))
<1>1. Len(file) \in Nat /\ DOMAIN file = 1..Len(file)
  BY ConfFile DEF Config!Inductive
<1> DEFINE all == Config!HeaderLines(file)
           S(n) == Config!HeadersUpTo(n)
<1>2. IsFiniteSet(all) /\ \A n \in all : n \in Nat
  <2>1. IsFiniteSet(1..Len(file))
    BY <1>1, FS_Interval
  <2>2. all \in SUBSET (1..Len(file))
    BY <1>1 DEF Config!HeaderLines
  <2> HIDE DEF all
  <2>3. IsFiniteSet(all)
    BY <2>1, <2>2, FS_Subset
  <2>4. QED
    BY <1>1, <2>2, <2>3
<1>3. \A n \in Nat : IsFiniteSet(S(n)) /\ Cardinality(S(n)) \in Nat
  <2>1. TAKE n \in Nat
  <2>2. S(n) \in SUBSET all
    BY DEF Config!HeadersUpTo
  <2> HIDE DEF S, all
  <2>3. QED
    BY <1>2, <2>2, FS_Subset, FS_CardinalityType
<1>4. m \in S(m) /\ S(m) \in SUBSET all
  BY <1>1 DEF Config!HeadersUpTo, Config!HeaderLines
<1>5. \A n \in Nat : n < m => S(n) \union {m} \in SUBSET S(m) /\ m \notin S(n)
  BY <1>2, <1>4 DEF Config!HeadersUpTo
<1>6. file \in ConfigFiles => Cardinality(all) <= Memory
  BY ConfCardinality DEF Config!ConfigurationAssumption
<1>7. m \in Nat
  OBVIOUS
<1> HIDE DEF S, all
<1>8. ASSUME NEW n \in Nat, n < m PROVE Cardinality(S(n)) + 1 <= Cardinality(S(m))
  <2>1. Cardinality(S(n) \union {m}) = Cardinality(S(n)) + 1
    BY <1>3, <1>5, <1>8, FS_AddElement
  <2>2. Cardinality(S(n) \union {m}) <= Cardinality(S(m))
    BY <1>3, <1>5, <1>7, <1>8, FS_Subset
  <2>3. QED
    BY <2>1, <2>2
<1>9. Cardinality(S(m)) <= Cardinality(all) /\ Cardinality(all) \in Nat
  BY <1>2, <1>4, FS_Subset, FS_CardinalityType
<1>10. 1 <= Cardinality(S(m))
  <2>1. 0 < m /\ 0 \in Nat
    OBVIOUS
  <2>2. Cardinality(S(0)) + 1 <= Cardinality(S(m)) /\ Cardinality(S(0)) \in Nat /\ Cardinality(S(m)) \in Nat
    BY <1>3, <1>7, <1>8, <2>1
  <2>3. QED
    BY <2>2
<1>11. Memory \in Nat
  BY DEF Config!ConfigurationAssumption
<1>12. file \in ConfigFiles => Cardinality(S(m)) <= Memory
  BY <1>3, <1>6, <1>7, <1>9, <1>11
<1>13. QED
  BY <1>3, <1>8, <1>10, <1>12, ConfCardinality DEF S

\* No memory for another stage: a header was turned down, or stages of an earlier call are there.
LEMMA ConfOutOfMemory ==
  ASSUME Config!ConfigurationAssumption, Config!Inductive, Config!OutOfMemory
  PROVE  Config!Inductive'
<1>1. /\ at = "flows" /\ at' = "crashed" /\ UNCHANGED <<file, line, flows, own, reading, first, inits>>
      /\ line <= Len(file) /\ file[line].is = "header" /\ Len(flows) = Memory
      /\ Len(file) \in Nat /\ line \in Nat /\ first \in Nat /\ 1 <= first /\ Len(flows) \in Nat /\ DOMAIN flows = 1..Len(flows)
  BY ConfLines DEF Config!OutOfMemory, Config!IsHeader
<1>2. line \in 1..Len(file) /\ file \in ConfigFiles
  BY <1>1 DEF Config!Inductive, Config!StagesSound
<1>3. Config!Misspelt \/ first > 1
  <2>1. SUFFICES ASSUME first = 1, ~Config!Misspelt PROVE FALSE
    BY <1>1
  <2>2. Memory \in Config!Now /\ Memory \in Nat /\ Memory \in DOMAIN flows
    BY <1>1, <2>1 DEF Config!Now, Config!ConfigurationAssumption
  <2>3. flows[Memory].header < line /\ flows[Memory].header \in Nat
    <3>1. ~Config!Stuck(Memory)
      BY <2>1, <2>2, ConfStuck
    <3>2. flows[Memory].header < line /\ flows[Memory].header \in Config!Written(flows[Memory].section)
      BY <1>1, <2>2, <3>1 DEF Config!Inductive, Config!HeadersMade
    <3>3. QED
      BY <1>1, <3>2 DEF Config!Written
  <2> DEFINE c(n) == Config!Cardinality(Config!HeadersUpTo(n))
  <2>4. c(flows[Memory].header) \in Nat /\ c(line) \in Nat
    BY <1>1, <1>2, <2>2, <2>3, ConfHeaders
  <2>5. c(flows[Memory].header) + 1 <= c(line) /\ c(line) <= Memory
    BY <1>1, <1>2, <2>3, ConfHeaders
  <2>6. Memory - first + 1 <= c(flows[Memory].header)
    <3>1. Config!MemoryEnough
      BY <1>1 DEF Config!Inductive
    <3>2. QED
      BY <2>1, <2>2, <3>1 DEF Config!MemoryEnough
  <2> HIDE DEF c
  <2>7. QED
    BY <2>1, <2>2, <2>4, <2>5, <2>6
<1>4. Config!CrashMeant'
  BY <1>1, <1>3, ConfSameFile DEF Config!CrashMeant
<1>5. Config!TypeOK'
  BY <1>1 DEF Config!Inductive, Config!TypeOK
<1>6. Config!StagesSound'
  BY <1>1, <1>2 DEF Config!Inductive, Config!StagesSound, Config!NamesOf
<1>7. QED
  BY <1>1, <1>4, <1>5, <1>6 DEF Config!Inductive

\* A stage is added for the header in hand.
ConfAdded(new) ==
  /\ flows' \in Seq({flows'[i] : i \in DOMAIN flows'})
  /\ Len(flows') = Len(flows) + 1 /\ DOMAIN flows' = 1..(Len(flows) + 1)
  /\ \A i \in DOMAIN flows : flows'[i] = flows[i]
  /\ flows'[Len(flows) + 1] = new

\* Appending it is such a step.
LEMMA ConfAppend ==
  ASSUME Config!StagesSound, NEW new, flows' = Append(flows, new)
  PROVE  ConfAdded(new)
<1> DEFINE S == {flows[i] : i \in DOMAIN flows} \union {new}
<1>1. flows \in Seq(S) /\ Len(flows) \in Nat /\ DOMAIN flows = 1..Len(flows)
  BY DEF Config!StagesSound
<1>2. new \in S
  OBVIOUS
<1>3. /\ flows' \in Seq(S) /\ Len(flows') = Len(flows) + 1 /\ flows'[Len(flows) + 1] = new
      /\ \A i \in 1..Len(flows) : flows'[i] = flows[i]
  BY <1>1, <1>2, AppendProperties
<1>4. flows' \in Seq({flows'[i] : i \in DOMAIN flows'}) /\ DOMAIN flows' = 1..Len(flows')
  <2> DEFINE q == flows'
  <2>1. q \in Seq(S)
    BY <1>3
  <2> HIDE DEF q, S
  <2>2. q \in Seq({q[i] : i \in DOMAIN q}) /\ DOMAIN q = 1..Len(q)
    BY <2>1, ConfOwnElements
  <2>3. QED
    BY <2>2 DEF q
<1>5. QED
  BY <1>1, <1>3, <1>4 DEF ConfAdded

\* What a new stage is.
LEMMA ConfStage ==
  ASSUME Config!ConfigurationAssumption, Config!StagesSound, NEW sec, NEW new, new = Config!Stage(sec)
  PROVE  /\ DOMAIN new = {"section", "header", "disabled", "numbers", "post", "set"}
         /\ new.section = sec /\ new.header = line /\ new.set = {}
         /\ \A d, e \in new.numbers : d.name = e.name => d = e
         /\ None \notin Config!NamesOf(new.numbers)
         /\ sec # "PostProcessing" => new.numbers = {}
         /\ new.post \in 0..Len(flows) /\ (new.post # 0 => flows[new.post].section = "PostProcessing")
         /\ sec = "MQTT" /\ new.post = 0 => \A i \in DOMAIN flows : flows[i].section # "PostProcessing"
<1> DEFINE last1 == [r \in Config!Readers |-> Config!LastOf(r)]
           list == Config!NumbersOf(last1)
<1>1. /\ DOMAIN new = {"section", "header", "disabled", "numbers", "post", "set"}
      /\ new.section = sec /\ new.header = line /\ new.set = {}
      /\ new.numbers = (IF sec = "PostProcessing" THEN list ELSE {})
      /\ new.post = (IF sec = "MQTT" THEN Config!LastOf("PostProcessing") ELSE 0)
  BY DEF Config!Stage
<1>2. (\A d, e \in list : d.name = e.name => d = e) /\ None \notin Config!NamesOf(list)
  <2> DEFINE listed(i) == IF i = 0 THEN {} ELSE flows[i].numbers
  <2>1. \A r \in Config!Readers : last1[r] = 0 \/ last1[r] \in DOMAIN flows
    <3>1. TAKE r \in Config!Readers
    <3>2. Len(flows) \in Nat /\ DOMAIN flows = 1..Len(flows) /\ Config!LastOf(r) \in 0..Len(flows)
      BY ConfLastStage DEF Config!StagesSound
    <3>3. QED
      BY <3>2
  <2>2. \A r \in Config!Readers : /\ \A d, e \in listed(last1[r]) : d.name = e.name => d = e
                                 /\ None \notin Config!NamesOf(listed(last1[r]))
    <3>1. TAKE r \in Config!Readers
    <3>2. CASE last1[r] = 0
      BY <3>2 DEF Config!NamesOf
    <3>3. CASE last1[r] # 0
      <4>1. last1[r] \in DOMAIN flows /\ listed(last1[r]) = flows[last1[r]].numbers
        BY <2>1, <3>3
      <4> HIDE DEF last1, listed
      <4>2. QED
        BY <4>1 DEF Config!StagesSound
    <3>4. QED
      BY <3>2, <3>3
  <2>3. list = Config!With(listed(last1["Digits"]), listed(last1["Analog"]))
    BY DEF Config!NumbersOf
  <2>4. "Digits" \in Config!Readers /\ "Analog" \in Config!Readers
    BY DEF Config!Readers
  <2> HIDE DEF last1, list, listed
  <2>5. QED
    BY <2>2, <2>3, <2>4 DEF Config!With, Config!NamesOf
<1> HIDE DEF list
<1>3. new.post \in 0..Len(flows) /\ (new.post # 0 => flows[new.post].section = "PostProcessing")
      /\ (sec = "MQTT" /\ new.post = 0 => \A i \in DOMAIN flows : flows[i].section # "PostProcessing")
  <2>1. Len(flows) \in Nat
    BY DEF Config!StagesSound
  <2>2. QED
    BY <1>1, <2>1, ConfLastStage
<1>4. QED
  BY <1>1, <1>2, <1>3 DEF Config!NamesOf

\* A stage is made for the header in hand, which may turn it down.
ConfMakes ==
  /\ at = "flows" /\ line \in 1..Len(file) /\ file[line].is = "header" /\ file[line].on
  /\ file[line].section \in Supported \ Config!Own /\ Len(flows) < Memory
  /\ ConfAdded(Config!Stage(file[line].section))
  /\ at' = (IF file[line].section \in Config!Exact /\ ~file[line].exact THEN "flows" ELSE "section")
  /\ reading' = Len(flows) + 1
  /\ UNCHANGED <<file, line, first, inits>>

\* It is the last of the stages of this call.
LEMMA ConfMade ==
  ASSUME Config!ConfigurationAssumption, Config!Inductive, ConfMakes, NEW k, k = Len(flows) + 1
  PROVE  /\ k \in Nat /\ k \in Config!Now' /\ k \notin Config!Now /\ Len(flows') = k
         /\ \A i : i \in Config!Now' <=> i \in Config!Now \/ i = k
         /\ \A i \in Config!Now : i \in Nat /\ i < k /\ flows'[i] = flows[i]
         /\ flows'[k].section = file[line].section /\ flows'[k].header = line
         /\ line \in Config!Written(file[line].section)
         /\ \A i \in Config!Now :
              /\ flows[i].header \in Nat
              /\ flows[i].header < line \/ (Config!Stuck(i) /\ Config!Stuck(i)' /\ at' = "flows")
              /\ Config!Stuck(i) => at' = "flows"
         /\ at' = "flows" => Config!Stuck(k)'
<1>1. /\ Len(flows) \in Nat /\ DOMAIN flows = 1..Len(flows) /\ first \in 1..(Len(flows) + 1)
      /\ \A i \in Config!Now : i \in DOMAIN flows
      /\ Len(file) \in Nat /\ line \in Nat
  BY ConfLines DEF Config!Inductive, Config!TypeOK
<1>2. /\ Len(flows') = k /\ \A i \in DOMAIN flows : flows'[i] = flows[i]
      /\ flows'[k] = Config!Stage(file[line].section)
  BY DEF ConfMakes, ConfAdded
<1>3. /\ k \in Nat /\ k \in Config!Now' /\ k \notin Config!Now
      /\ \A i : i \in Config!Now' <=> i \in Config!Now \/ i = k
      /\ \A i \in Config!Now : i \in Nat /\ i < k /\ flows'[i] = flows[i]
  <2>1. Config!Now' = first..k /\ Config!Now = first..Len(flows)
    BY <1>2 DEF Config!Now, ConfMakes
  <2>2. QED
    BY <1>1, <1>2, <2>1
<1>4. flows'[k].section = file[line].section /\ flows'[k].header = line
  BY <1>2 DEF Config!Stage
<1>5. line \in Config!Written(file[line].section)
  BY DEF ConfMakes, Config!Written
<1>6. ASSUME NEW i \in Config!Now
      PROVE  /\ flows[i].header \in Nat
             /\ flows[i].header < line \/ (Config!Stuck(i) /\ Config!Stuck(i)' /\ at' = "flows")
             /\ Config!Stuck(i) => at' = "flows"
  <2>1. /\ flows[i].header \in Config!Written(flows[i].section)
        /\ flows[i].header < line \/ Config!Stuck(i)
    BY DEF Config!Inductive, Config!HeadersMade, ConfMakes
  <2>2. ASSUME Config!Stuck(i) PROVE Config!Stuck(i)' /\ at' = "flows"
    <3>1. file[line].section \in Config!Exact /\ ~file[line].exact
      BY <2>2, ConfStuck
    <3>2. at' = "flows"
      BY <3>1 DEF ConfMakes
    <3>3. QED
      BY <1>3, <2>2, <3>2 DEF Config!Stuck, ConfMakes
  <2>3. QED
    BY <1>1, <2>1, <2>2 DEF Config!Written
<1>7. at' = "flows" => Config!Stuck(k)'
  <2>1. ASSUME at' = "flows" PROVE file[line].section \in Config!Exact /\ ~file[line].exact
    BY <2>1 DEF ConfMakes
  <2>2. QED
    BY <1>4, <2>1 DEF Config!Stuck, ConfMakes
<1>8. QED
  BY <1>2, <1>3, <1>4, <1>5, <1>6, <1>7

\* The headers behind have their stages, the one in hand too.
LEMMA ConfMadeHeaders ==
  ASSUME Config!ConfigurationAssumption, Config!Inductive, ConfMakes
  PROVE  Config!HeadersMade'
<1> DEFINE new == Config!Stage(file[line].section)
<1>0. PICK k : k = Len(flows) + 1
  OBVIOUS
<1>1. /\ k \in Nat /\ k \in Config!Now' /\ k \notin Config!Now /\ Len(flows') = k
      /\ \A i : i \in Config!Now' <=> i \in Config!Now \/ i = k
      /\ \A i \in Config!Now : i \in Nat /\ i < k /\ flows'[i] = flows[i]
      /\ flows'[k].section = file[line].section /\ flows'[k].header = line
      /\ line \in Config!Written(file[line].section)
      /\ \A i \in Config!Now :
           /\ flows[i].header \in Nat
           /\ flows[i].header < line \/ (Config!Stuck(i) /\ Config!Stuck(i)' /\ at' = "flows")
           /\ Config!Stuck(i) => at' = "flows"
      /\ at' = "flows" => Config!Stuck(k)'
  BY <1>0, ConfMade
<1>2. /\ flows'[k] = new /\ reading' = k /\ UNCHANGED <<file, line, first, inits>> /\ at' \in {"flows", "section"}
      /\ at = "flows" /\ file[line].section \in Supported \ Config!Own
  BY <1>0 DEF ConfMakes, ConfAdded
<1>3. new.section = "MQTT" /\ new.post = 0 => \A i \in DOMAIN flows : flows[i].section # "PostProcessing"
  BY ConfStage DEF Config!Inductive
<1> HIDE DEF new
<1>4. \A h, t : Config!Written(t)' = Config!Written(t)
  BY <1>2, ConfSameFile
<1>5. \A i \in Config!Now : i \in DOMAIN flows
  BY ConfLines
<1>6. Config!HeadersMade
  BY <1>2 DEF Config!Inductive
<1>7. ASSUME NEW i \in Config!Now'
      PROVE  /\ flows'[i].section \in Supported \ Config!Own /\ flows'[i].header \in Config!Written(flows'[i].section)
             /\ flows'[i].header < line' \/ Config!Stuck(i)' \/ (at' = "section" /\ reading' = i /\ flows'[i].header = line')
  <2>1. CASE i = k
    BY <1>1, <1>2, <2>1
  <2>2. CASE i \in Config!Now
    BY <1>1, <1>2, <1>6, <2>2 DEF Config!HeadersMade
  <2>3. QED
    BY <1>1, <2>1, <2>2
<1>8. ASSUME NEW i \in Config!Now', NEW j \in Config!Now', i < j
      PROVE  flows'[i].header < flows'[j].header \/ (Config!Stuck(i)' /\ Config!Stuck(j)')
  <2>1. i \in Config!Now /\ flows'[i] = flows[i]
    BY <1>1, <1>8
  <2>2. CASE j = k
    BY <1>1, <1>2, <2>1, <2>2
  <2>3. CASE j \in Config!Now
    <3>1. flows'[j] = flows[j]
      BY <1>1, <2>3
    <3>2. flows[i].header < flows[j].header \/ (Config!Stuck(i) /\ Config!Stuck(j))
      BY <1>6, <1>8, <2>1, <2>3 DEF Config!HeadersMade
    <3>3. ASSUME NEW l \in Config!Now, Config!Stuck(l) PROVE Config!Stuck(l)'
      <4>1. flows[l].header = line /\ line \in Nat
        BY <3>3, ConfLines DEF Config!Stuck
      <4>2. QED
        BY <1>1, <4>1
    <3>4. QED
      BY <2>1, <2>3, <3>1, <3>2, <3>3
  <2>4. QED
    BY <1>1, <2>2, <2>3
<1>9. ASSUME NEW i \in Config!Now', flows'[i].section = "MQTT", flows'[i].post = 0,
             NEW j \in Config!Now', flows'[j].section = "PostProcessing"
      PROVE  i < j
  <2>1. CASE i = k
    <3>1. \A l \in DOMAIN flows : flows[l].section # "PostProcessing"
      BY <1>1, <1>2, <1>3, <1>9, <2>1
    <3>2. j = k
      BY <1>1, <1>5, <1>9, <3>1
    <3>3. QED
      BY <1>9, <2>1, <3>2
  <2>2. CASE i \in Config!Now
    <3>1. CASE j = k
      BY <1>1, <2>2, <3>1
    <3>2. CASE j \in Config!Now
      BY <1>1, <1>6, <1>9, <2>2, <3>2 DEF Config!HeadersMade
    <3>3. QED
      BY <1>1, <3>1, <3>2
  <2>3. QED
    BY <1>1, <2>1, <2>2
<1>10. ASSUME NEW t \in Supported \ Config!Own, NEW h \in Config!Written(t), h < line \/ h = line
       PROVE  \E i \in Config!Now' : flows'[i].header = h
  <2>1. CASE h = line
    BY <1>1, <2>1
  <2>2. CASE h < line
    <3>1. PICK i \in Config!Now : flows[i].header = h
      BY <1>6, <2>2 DEF Config!HeadersMade
    <3>2. QED
      BY <1>1, <3>1
  <2>3. QED
    BY <1>10, <2>1, <2>2
<1>11. QED
  BY <1>2, <1>4, <1>7, <1>8, <1>9, <1>10 DEF Config!HeadersMade

\* The new stage has been given no line yet, the others what they had.
LEMMA ConfMadeGot ==
  ASSUME Config!ConfigurationAssumption, Config!Inductive, ConfMakes, NEW k, k = Len(flows) + 1
  PROVE  /\ \A i \in Config!Now : Config!Got(i)' = Config!Got(i)
         /\ Config!Got(k)' = {}
         /\ \A i \in Config!Now : ConfIdxLines(i)' = ConfIdxLines(i)
         /\ ConfIdxLines(k)' = {}
<1>1. /\ k \in Nat /\ k \in Config!Now' /\ k \notin Config!Now /\ Len(flows') = k
      /\ \A i : i \in Config!Now' <=> i \in Config!Now \/ i = k
      /\ \A i \in Config!Now : i \in Nat /\ i < k /\ flows'[i] = flows[i]
      /\ flows'[k].section = file[line].section /\ flows'[k].header = line
  BY ConfMade
<1>2. \A h, t : Config!Accepted(h, t)' = Config!Accepted(h, t)
  BY ConfSameFile DEF ConfMakes
<1>3. line' = line /\ line \in Nat
  BY ConfLines DEF ConfMakes
<1>4. \A i \in Config!Now : Config!Got(i)' = Config!Got(i)
  BY <1>1, <1>2, <1>3 DEF Config!Got
<1>5. Config!Got(k)' = {}
  <2>1. Config!Got(k)' = {n \in Config!Accepted(line, file[line].section) : n <= line}
    BY <1>1, <1>2, <1>3 DEF Config!Got
  <2>2. \A n \in Config!Accepted(line, file[line].section) : n \in Nat /\ line < n
    BY <1>3, ConfLines
  <2>3. QED
    BY <1>3, <2>1, <2>2
<1>6. \A i \in Config!Now' : Config!Writers(i)' = {m \in Config!Now' : flows'[m].section = "MQTT" /\ flows'[m].post = i}
  BY DEF Config!Writers
<1>7. \A i \in Config!Now' : ConfIdxLines(i)' = UNION {Config!Got(m)' : m \in Config!Writers(i)'}
  BY DEF ConfIdxLines
<1>8. ASSUME NEW i \in Config!Now PROVE ConfIdxLines(i)' = ConfIdxLines(i)
  <2>1. Config!Writers(i) = {m \in Config!Now : flows[m].section = "MQTT" /\ flows[m].post = i}
    BY DEF Config!Writers
  <2>2. i \in Config!Now'
    BY <1>1
  <2>3. \A m : m \in Config!Writers(i)' /\ m # k <=> m \in Config!Writers(i)
    <3>1. \A m : m \in Config!Writers(i)' <=> m \in Config!Now' /\ flows'[m].section = "MQTT" /\ flows'[m].post = i
      BY <1>6, <2>2
    <3>2. \A m : m \in Config!Writers(i) <=> m \in Config!Now /\ flows[m].section = "MQTT" /\ flows[m].post = i
      BY <2>1
    <3>3. QED
      BY <1>1, <3>1, <3>2
  <2>4. \A m \in Config!Writers(i)' : m \in Config!Writers(i) \/ Config!Got(m)' = {}
    BY <1>5, <2>3
  <2>5. \A m \in Config!Writers(i) : m \in Config!Writers(i)' /\ Config!Got(m)' = Config!Got(m)
    BY <1>4, <2>1, <2>3
  <2>6. ConfIdxLines(i)' = UNION {Config!Got(m)' : m \in Config!Writers(i)'}
    BY <1>7, <2>2
  <2>7. \A n : n \in ConfIdxLines(i)' <=> \E m \in Config!Writers(i)' : n \in Config!Got(m)'
    BY <2>6
  <2>8. \A n : n \in ConfIdxLines(i) <=> \E m \in Config!Writers(i) : n \in Config!Got(m)
    BY DEF ConfIdxLines
  <2>9. \A n : n \in ConfIdxLines(i)' <=> n \in ConfIdxLines(i)
    BY <2>4, <2>5, <2>7, <2>8
  <2>10. ConfIdxLines(i)' = {n \in UNION {ConfIdxLines(i)'} : TRUE} /\ ConfIdxLines(i) = {n \in UNION {ConfIdxLines(i)} : TRUE}
    OBVIOUS
  <2>11. QED
    BY <2>9, <2>10
<1>9. ConfIdxLines(k)' = {}
  <2>1. \A m \in Config!Now' : flows'[m].post # k
    <3>1. \A i \in DOMAIN flows : flows[i].post \in 0..Len(flows)
      BY DEF Config!Inductive, Config!TypeOK
    <3>2. flows'[k] = Config!Stage(file[line].section) /\ Config!Stage(file[line].section).post \in 0..Len(flows)
      BY ConfStage DEF ConfMakes, ConfAdded, Config!Inductive
    <3>3. Len(flows) \in Nat /\ \A i \in Config!Now : i \in DOMAIN flows
      BY ConfLines
    <3>4. QED
      BY <1>1, <3>1, <3>2, <3>3
  <2>2. Config!Writers(k)' = {}
    BY <1>1, <1>6, <2>1
  <2>3. QED
    BY <1>1, <1>7, <2>2
<1>10. QED
  BY <1>4, <1>5, <1>8, <1>9

\* It has no value and, unless it is the post processing, no number yet.
LEMMA ConfMadeValues ==
  ASSUME Config!ConfigurationAssumption, Config!Inductive, ConfMakes
  PROVE  Config!SettingsRead' /\ Config!DialsRead' /\ Config!ShiftsRead' /\ Config!IdxRead'
<1>0. PICK k : k = Len(flows) + 1
  OBVIOUS
<1>1. /\ k \in Config!Now' /\ k \notin Config!Now
      /\ \A i : i \in Config!Now' <=> i \in Config!Now \/ i = k
      /\ \A i \in Config!Now : flows'[i] = flows[i]
      /\ flows'[k].section = file[line].section
  BY <1>0, ConfMade
<1>2. /\ \A i \in Config!Now : Config!Got(i)' = Config!Got(i) /\ ConfIdxLines(i)' = ConfIdxLines(i)
      /\ Config!Got(k)' = {} /\ ConfIdxLines(k)' = {}
  BY <1>0, ConfMadeGot
<1>3. /\ flows'[k].set = {} /\ (file[line].section # "PostProcessing" => flows'[k].numbers = {})
  <2>1. flows'[k] = Config!Stage(file[line].section)
    BY <1>0 DEF ConfMakes, ConfAdded
  <2>2. QED
    BY <2>1, ConfStage DEF Config!Inductive
<1>4. /\ \A L, key, n : Config!LastValue(L, key, n)' = Config!LastValue(L, key, n)
      /\ \A key, n : Config!LastValue({}, key, n) = {}
  BY ConfSameFile, ConfLastNone DEF ConfMakes
<1>5. /\ \A i, key, n : (Config!LastValue(Config!Got(i), key, n))' = Config!LastValue(Config!Got(i)', key, n)
      /\ \A i, n : (Config!LastValue(ConfIdxLines(i), "DomoticzIDX", n))' = Config!LastValue(ConfIdxLines(i)', "DomoticzIDX", n)
      /\ \A i : (Config!NamesOf(flows[i].numbers))' = Config!NamesOf(flows'[i].numbers)
      /\ file' = file
  BY DEF Config!LastValue, Config!NamesOf, ConfMakes
<1>6. Config!SettingsRead'
  <2>1. \A i \in Config!Now : flows[i].section \in Config!Plain \union Config!Readers =>
          flows[i].set = Config!LastValue(Config!Got(i), "SaveAllFiles", None)
    BY DEF Config!Inductive, Config!SettingsRead, ConfMakes
  <2>2. \A i \in Config!Now' : flows'[i].section \in Config!Plain \union Config!Readers =>
          flows'[i].set = Config!LastValue(Config!Got(i)', "SaveAllFiles", None)
    BY <1>1, <1>2, <1>3, <1>4, <2>1
  <2>3. QED
    BY <1>5, <2>2 DEF Config!SettingsRead
<1>7. Config!DialsRead'
  <2>1. \A i \in Config!Now : flows[i].section \in Config!Readers =>
          Config!NamesOf(flows[i].numbers) = {file[n].number : n \in {m \in Config!Got(i) : file[m].is = "dial"}}
    BY DEF Config!Inductive, Config!DialsRead, ConfMakes
  <2>2. Config!NamesOf({}) = {}
    BY DEF Config!NamesOf
  <2>3. \A i \in Config!Now' : flows'[i].section \in Config!Readers =>
          Config!NamesOf(flows'[i].numbers) = {file[n].number : n \in {m \in Config!Got(i)' : file[m].is = "dial"}}
    <3>1. TAKE i \in Config!Now'
    <3>2. CASE i \in Config!Now
      BY <1>1, <1>2, <2>1, <3>2
    <3>3. CASE i = k
      BY <1>1, <1>2, <1>3, <2>2, <3>3 DEF Config!Readers
    <3>4. QED
      BY <1>1, <3>2, <3>3
  <2>4. QED
    BY <1>5, <2>3 DEF Config!DialsRead
<1>8. Config!ShiftsRead'
  <2>1. \A i \in Config!Now : flows[i].section = "PostProcessing" =>
          {v \in flows[i].set : v.key = "DecimalShift"} =
            UNION {Config!LastValue(Config!Got(i), "DecimalShift", n) : n \in Config!NamesOf(flows[i].numbers)}
    BY DEF Config!Inductive, Config!ShiftsRead, ConfMakes
  <2>2. \A i \in Config!Now' : flows'[i].section = "PostProcessing" =>
          {v \in flows'[i].set : v.key = "DecimalShift"} =
            UNION {Config!LastValue(Config!Got(i)', "DecimalShift", n) : n \in Config!NamesOf(flows'[i].numbers)}
    <3>1. TAKE i \in Config!Now'
    <3>2. CASE i \in Config!Now
      BY <1>1, <1>2, <2>1, <3>2
    <3>3. CASE i = k
      BY <1>2, <1>3, <1>4, <3>3
    <3>4. QED
      BY <1>1, <3>2, <3>3
  <2>3. QED
    BY <1>4, <1>5, <2>2 DEF Config!ShiftsRead
<1>9. Config!IdxRead'
  <2>1. \A i \in Config!Now : flows[i].section = "PostProcessing" =>
          {v \in flows[i].set : v.key = "DomoticzIDX"} =
            UNION {Config!LastValue(ConfIdxLines(i), "DomoticzIDX", n) : n \in Config!NamesOf(flows[i].numbers)}
    BY DEF Config!Inductive, Config!IdxRead, ConfMakes, ConfIdxLines
  <2>2. \A i \in Config!Now' : flows'[i].section = "PostProcessing" =>
          {v \in flows'[i].set : v.key = "DomoticzIDX"} =
            UNION {Config!LastValue(ConfIdxLines(i)', "DomoticzIDX", n) : n \in Config!NamesOf(flows'[i].numbers)}
    <3>1. TAKE i \in Config!Now'
    <3>2. CASE i \in Config!Now
      BY <1>1, <1>2, <2>1, <3>2
    <3>3. CASE i = k
      BY <1>2, <1>3, <1>4, <3>3
    <3>4. QED
      BY <1>1, <3>2, <3>3
  <2>3. Config!IdxRead' <=> \A i \in Config!Now' : flows'[i].section = "PostProcessing" =>
          {v \in flows'[i].set : v.key = "DomoticzIDX"} =
            UNION {Config!LastValue(ConfIdxLines(i), "DomoticzIDX", n)' : n \in Config!NamesOf(flows[i].numbers)'}
    BY DEF Config!IdxRead, ConfIdxLines
  <2>4. QED
    BY <1>5, <2>2, <2>3
<1>10. QED
  BY <1>6, <1>7, <1>8, <1>9

\* There is a header for the new stage as for the others, unless one is turned down.
LEMMA ConfMadeMemory ==
  ASSUME Config!ConfigurationAssumption, Config!Inductive, ConfMakes
  PROVE  Config!MemoryEnough'
<1>0. PICK k : k = Len(flows) + 1
  OBVIOUS
<1>1. /\ k \in Nat /\ k \in Config!Now'
      /\ \A i : i \in Config!Now' <=> i \in Config!Now \/ i = k
      /\ \A i \in Config!Now : flows'[i] = flows[i]
      /\ flows'[k].header = line
      /\ \A i \in Config!Now : flows[i].header \in Nat /\ (flows[i].header < line \/ Config!Stuck(i))
  BY <1>0, ConfMade
<1>2. /\ \A n : Config!HeadersUpTo(n)' = Config!HeadersUpTo(n)
      /\ Config!Misspelt' = Config!Misspelt /\ first' = first /\ line \in 1..Len(file) /\ file[line].is = "header"
  BY ConfSameFile DEF ConfMakes
<1>3. /\ Len(flows) \in Nat /\ first \in 1..(Len(flows) + 1) /\ Config!Now = first..Len(flows)
      /\ Config!MemoryEnough /\ Len(file) \in Nat /\ line \in Nat
  BY ConfLines DEF Config!Inductive, Config!TypeOK, Config!Now, ConfMakes
<1> DEFINE c(n) == Config!Cardinality(Config!HeadersUpTo(n))
<1>4. c(line) \in Nat /\ 1 <= c(line) /\ \A n \in Nat : c(n) \in Nat /\ (n < line => c(n) + 1 <= c(line))
  BY <1>2, <1>3, ConfHeaders
<1>5. \A i \in Config!Now : Config!Misspelt \/ i - first + 1 <= c(flows[i].header)
  BY <1>3 DEF Config!MemoryEnough
<1> HIDE DEF c
<1>6. Config!Misspelt \/ k - first + 1 <= c(line)
  <2>1. SUFFICES ASSUME ~Config!Misspelt PROVE k - first + 1 <= c(line)
    OBVIOUS
  <2>2. CASE k = first
    BY <1>1, <1>4, <2>2
  <2>3. CASE k # first
    <3>1. k - 1 \in Config!Now
      BY <1>0, <1>3, <2>3
    <3>2. flows[k - 1].header \in Nat /\ flows[k - 1].header < line
      BY <1>1, <2>1, <3>1, ConfStuck
    <3>3. (k - 1) - first + 1 <= c(flows[k - 1].header)
      BY <1>5, <2>1, <3>1
    <3>4. c(flows[k - 1].header) + 1 <= c(line) /\ c(flows[k - 1].header) \in Nat
      BY <1>4, <3>2
    <3>5. QED
      BY <1>0, <1>1, <1>3, <1>4, <3>3, <3>4
  <2>4. QED
    BY <2>2, <2>3
<1>7. \A i \in Config!Now' : Config!Misspelt \/ i - first + 1 <= c(flows'[i].header)
  BY <1>1, <1>5, <1>6
<1>8. QED
  BY <1>2, <1>7 DEF c, Config!MemoryEnough

\* A header makes the stage of its section.
LEMMA ConfCreateStage ==
  ASSUME Config!ConfigurationAssumption, Config!Inductive, Config!Create, file[line].section \notin Config!Own
  PROVE  Config!Inductive'
<1>0. PICK k : k = Len(flows) + 1
  OBVIOUS
<1>1. ConfMakes
  <2>1. /\ at = "flows" /\ line <= Len(file) /\ file[line].is = "header" /\ file[line].on
        /\ file[line].section \in Supported \ Config!Own /\ Len(flows) < Memory
        /\ flows' = Append(flows, Config!Stage(file[line].section))
        /\ at' = (IF file[line].section \in Config!Exact /\ ~file[line].exact THEN "flows" ELSE "section")
        /\ reading' = Len(flows') /\ UNCHANGED <<file, line, first, inits>>
    BY DEF Config!Create, Config!IsHeader
  <2>2. ConfAdded(Config!Stage(file[line].section))
    BY <2>1, ConfAppend DEF Config!Inductive
  <2>3. line \in 1..Len(file)
    BY <2>1, ConfLines DEF Config!Inductive, Config!StagesSound
  <2>4. QED
    BY <2>1, <2>2, <2>3 DEF ConfMakes, ConfAdded
<1>2. /\ k \in Nat /\ k \in Config!Now' /\ Len(flows') = k
      /\ \A i : i \in Config!Now' <=> i \in Config!Now \/ i = k
      /\ \A i \in Config!Now : i < k /\ flows'[i] = flows[i]
      /\ flows'[k].section = file[line].section /\ flows'[k].header = line
      /\ \A i \in Config!Now : Config!Stuck(i) => Config!Stuck(i)'
      /\ at' = "flows" => Config!Stuck(k)'
  <2>1. \A i \in Config!Now : Config!Stuck(i) => flows[i].header = line /\ line \in Nat
    BY ConfLines DEF Config!Stuck
  <2>2. QED
    BY <1>0, <1>1, <2>1, ConfMade
<1>3. /\ at = "flows" /\ at' \in {"flows", "section"} /\ line \in 1..Len(file) /\ reading' = k
      /\ UNCHANGED <<file, line, first, inits>> /\ file[line].section \in Supported \ Config!Own /\ Len(flows) < Memory
  BY <1>0, <1>1 DEF ConfMakes
<1>4. /\ Len(flows) \in Nat /\ DOMAIN flows = 1..Len(flows) /\ DOMAIN flows' = 1..k
      /\ flows' \in Seq({flows'[i] : i \in DOMAIN flows'})
      /\ \A i \in DOMAIN flows : flows'[i] = flows[i]
      /\ flows'[k] = Config!Stage(file[line].section)
  BY <1>0, <1>1, ConfLines DEF ConfMakes, ConfAdded
<1>5. /\ DOMAIN flows'[k] = {"section", "header", "disabled", "numbers", "post", "set"}
      /\ \A d, e \in flows'[k].numbers : d.name = e.name => d = e
      /\ None \notin Config!NamesOf(flows'[k].numbers)
      /\ flows'[k].post \in 0..Len(flows) /\ (flows'[k].post # 0 => flows[flows'[k].post].section = "PostProcessing")
  BY <1>4, ConfStage DEF Config!Inductive
<1>6. \A i \in DOMAIN flows' : i = k \/ i \in DOMAIN flows
  BY <1>0, <1>4
<1>7. Config!TypeOK'
  <2>1. \A i \in DOMAIN flows : flows[i].section \in Config!SectionNames \ Config!Own /\ flows[i].post \in 0..Len(flows)
    BY DEF Config!Inductive, Config!TypeOK
  <2>2. flows'[k].section \in Config!SectionNames \ Config!Own
    BY <1>2, <1>3 DEF Config!ConfigurationAssumption
  <2>3. \A i \in DOMAIN flows' : flows'[i].section \in Config!SectionNames \ Config!Own /\ flows'[i].post \in 0..Len(flows')
    BY <1>0, <1>2, <1>4, <1>5, <1>6, <2>1, <2>2
  <2>4. line \in 0..(Len(file) + 1) /\ first \in 1..(Len(flows) + 1) /\ inits \in 0..Inits /\ Memory \in Nat
    BY DEF Config!Inductive, Config!TypeOK, Config!ConfigurationAssumption
  <2>5. Len(flows') <= Memory /\ reading' \in 0..Len(flows') /\ first' \in 1..(Len(flows') + 1)
    BY <1>0, <1>2, <1>3, <1>4, <2>4
  <2>6. QED
    BY <1>3, <2>3, <2>4, <2>5 DEF Config!TypeOK
<1>8. Config!StagesSound'
  <2>1. \A i \in DOMAIN flows :
          /\ DOMAIN flows[i] = {"section", "header", "disabled", "numbers", "post", "set"}
          /\ \A d, e \in flows[i].numbers : d.name = e.name => d = e
          /\ None \notin Config!NamesOf(flows[i].numbers)
          /\ flows[i].post \in 0..Len(flows)
          /\ flows[i].post # 0 => flows[flows[i].post].section = "PostProcessing"
    BY DEF Config!Inductive, Config!StagesSound, Config!TypeOK
  <2>2. file \in ConfigFiles /\ line > 0
    BY <1>3 DEF Config!Inductive, Config!StagesSound
  <2>3. \A i \in DOMAIN flows' : flows'[i].post # 0 => flows'[flows'[i].post].section = "PostProcessing"
    <3>1. TAKE i \in DOMAIN flows'
    <3>2. HAVE flows'[i].post # 0
    <3>3. /\ flows'[i].post \in 0..Len(flows) /\ flows[flows'[i].post].section = "PostProcessing"
      BY <1>4, <1>5, <1>6, <2>1, <3>2
    <3>4. flows'[i].post \in DOMAIN flows
      BY <1>4, <3>2, <3>3
    <3>5. QED
      BY <1>4, <3>3, <3>4
  <2>4. \A i \in DOMAIN flows' :
          /\ DOMAIN flows'[i] = {"section", "header", "disabled", "numbers", "post", "set"}
          /\ \A d, e \in flows'[i].numbers : d.name = e.name => d = e
          /\ None \notin Config!NamesOf(flows'[i].numbers)
    BY <1>4, <1>5, <1>6, <2>1
  <2>5. \A i : Config!NamesOf(flows[i].numbers)' = Config!NamesOf(flows'[i].numbers)
    BY DEF Config!NamesOf
  <2>6. QED
    BY <1>3, <1>4, <2>2, <2>3, <2>4, <2>5 DEF Config!StagesSound
<1>9. Config!SectionOpen'
  BY <1>2, <1>3 DEF Config!SectionOpen
<1>10. Config!SectionsOver'
  <2>1. \A i \in Config!Now' : (at' = "section" /\ reading' = i) \/ Config!Stuck(i)' \/
          \A n \in Config!Accepted(flows'[i].header, flows'[i].section) : n <= line
    BY <1>2, <1>3 DEF Config!Inductive, Config!SectionsOver
  <2>2. \A h, t : Config!Accepted(h, t)' = Config!Accepted(h, t)
    BY <1>3, ConfSameFile
  <2>3. QED
    BY <1>3, <2>1, <2>2 DEF Config!SectionsOver
<1>11. Config!CrashMeant'
  BY <1>3 DEF Config!CrashMeant
<1>12. QED
  BY <1>1, <1>7, <1>8, <1>9, <1>10, <1>11, ConfMadeHeaders, ConfMadeValues, ConfMadeMemory DEF Config!Inductive

\* Another call of InitFlow begins with no stage of its own.
LEMMA ConfInitFlow ==
  ASSUME Config!ConfigurationAssumption, Config!Inductive, Config!InitFlow
  PROVE  Config!Inductive'
<1>1. /\ at' = "flows" /\ line' = 1 /\ reading' = 0 /\ inits' = inits + 1 /\ inits < Inits /\ file' \in ConfigFiles
      /\ Len(file') \in Nat /\ Len(flows) \in Nat
  BY ConfLines DEF Config!InitFlow, Config!ConfigurationAssumption
<1>2. flows' = <<>> \/ flows' = flows
  BY DEF Config!InitFlow
<1>3. first' = Len(flows') + 1 /\ Len(flows') \in Nat /\ Len(flows') <= Memory
  <2>1. CASE at = "crashed"
    <3>1. flows' = <<>> /\ first' = 1
      BY <2>1 DEF Config!InitFlow
    <3>2. QED
      BY <3>1 DEF Config!ConfigurationAssumption
  <2>2. CASE at # "crashed"
    BY <1>1, <2>2 DEF Config!InitFlow, Config!Inductive, Config!TypeOK
  <2>3. QED
    BY <2>1, <2>2
<1>4. Config!Now' = {}
  <2>1. Config!Now' = (Len(flows') + 1)..Len(flows')
    BY <1>3 DEF Config!Now
  <2>2. QED
    BY <1>3, <2>1
<1>5. Config!TypeOK'
  <2>1. \A i \in DOMAIN flows' : flows'[i].section \in Config!SectionNames \ Config!Own /\ flows'[i].post \in 0..Len(flows')
    BY <1>2 DEF Config!Inductive, Config!TypeOK
  <2>2. inits \in 0..Inits /\ Inits \in Nat
    BY DEF Config!Inductive, Config!TypeOK, Config!ConfigurationAssumption
  <2>3. QED
    BY <1>1, <1>3, <2>1, <2>2 DEF Config!TypeOK
<1>6. Config!StagesSound'
  <2>1. CASE flows' = <<>>
    BY <1>1, <2>1 DEF Config!StagesSound
  <2>2. CASE flows' = flows
    BY <1>1, <2>2 DEF Config!Inductive, Config!StagesSound, Config!NamesOf
  <2>3. QED
    BY <1>2, <2>1, <2>2
<1>7. Config!HeadersMade'
  <2>1. \A t, h : h \in Config!Written(t)' => h \in Nat /\ 1 <= h
    BY <1>1 DEF Config!Written
  <2>2. QED
    BY <1>1, <1>4, <2>1 DEF Config!HeadersMade
<1>8. /\ Config!SectionOpen' /\ Config!SectionsOver' /\ Config!MemoryEnough'
      /\ Config!SettingsRead' /\ Config!DialsRead' /\ Config!ShiftsRead' /\ Config!IdxRead'
  BY <1>1, <1>4 DEF Config!SectionOpen, Config!SectionsOver, Config!MemoryEnough,
       Config!SettingsRead, Config!DialsRead, Config!ShiftsRead, Config!IdxRead
<1>9. Config!CrashMeant'
  BY <1>1 DEF Config!CrashMeant
<1>10. QED
  BY <1>5, <1>6, <1>7, <1>8, <1>9 DEF Config!Inductive

\* Before the first call.
LEMMA ConfInit == Config!ConfigurationAssumption /\ Config!Init => Config!Inductive
<1>1. SUFFICES ASSUME Config!ConfigurationAssumption, Config!Init PROVE Config!Inductive
  OBVIOUS
<1>2. /\ file = <<>> /\ at = "idle" /\ line = 0 /\ flows = <<>> /\ reading = 0 /\ first = 1 /\ inits = 0
      /\ Memory \in Nat /\ Inits \in Nat
  BY <1>1 DEF Config!Init, Config!ConfigurationAssumption
<1>3. Config!Now = {}
  BY <1>2 DEF Config!Now
<1>4. Config!TypeOK
  BY <1>2 DEF Config!TypeOK
<1>5. Config!StagesSound
  BY <1>2 DEF Config!StagesSound
<1>6. Config!HeadersMade
  BY <1>2, <1>3 DEF Config!HeadersMade, Config!Written
<1>7. /\ Config!SectionOpen /\ Config!SectionsOver /\ Config!MemoryEnough
      /\ Config!SettingsRead /\ Config!DialsRead /\ Config!ShiftsRead /\ Config!IdxRead
  BY <1>2, <1>3 DEF Config!SectionOpen, Config!SectionsOver, Config!MemoryEnough,
       Config!SettingsRead, Config!DialsRead, Config!ShiftsRead, Config!IdxRead
<1>8. Config!CrashMeant
  BY <1>2 DEF Config!CrashMeant
<1>9. QED
  BY <1>4, <1>5, <1>6, <1>7, <1>8 DEF Config!Inductive

\* A step of something else.
LEMMA ConfUnchanged == Config!Inductive /\ UNCHANGED Config!vars => Config!Inductive'
<1>1. SUFFICES ASSUME Config!Inductive, UNCHANGED Config!vars PROVE Config!Inductive'
  OBVIOUS
<1>2. UNCHANGED <<file, at, line, flows, own, reading, first, inits>>
  BY <1>1 DEF Config!vars
<1>3. /\ \A h, t : Config!Accepted(h, t)' = Config!Accepted(h, t) /\ Config!Written(t)' = Config!Written(t)
      /\ \A n : Config!HeadersUpTo(n)' = Config!HeadersUpTo(n)
      /\ Config!Misspelt' = Config!Misspelt /\ Config!Misordered' = Config!Misordered
      /\ Config!Now' = Config!Now
  BY <1>2, ConfSameFile DEF Config!Now
<1>4. \A i : /\ Config!NamesOf(flows[i].numbers)' = Config!NamesOf(flows[i].numbers)
             /\ Config!Got(i)' = Config!Got(i) /\ Config!Stuck(i)' = Config!Stuck(i)
  BY <1>2, <1>3 DEF Config!NamesOf, Config!Got, Config!Stuck
<1>5. Config!TypeOK' /\ Config!StagesSound' /\ Config!CrashMeant'
  BY <1>1, <1>2, <1>3, <1>4 DEF Config!Inductive, Config!TypeOK, Config!StagesSound, Config!CrashMeant
<1>6. SUFFICES ASSUME at # "crashed"
      PROVE  /\ Config!HeadersMade' /\ Config!SectionOpen' /\ Config!SectionsOver' /\ Config!MemoryEnough'
             /\ Config!SettingsRead' /\ Config!DialsRead' /\ Config!ShiftsRead' /\ Config!IdxRead'
  BY <1>2, <1>5 DEF Config!Inductive
<1>7. Config!HeadersMade'
  BY <1>1, <1>2, <1>3, <1>4, <1>6 DEF Config!Inductive, Config!HeadersMade
<1>8. Config!SectionOpen' /\ Config!SectionsOver'
  BY <1>1, <1>2, <1>3, <1>4, <1>6 DEF Config!Inductive, Config!SectionOpen, Config!SectionsOver, Config!section
<1>9. Config!MemoryEnough'
  BY <1>1, <1>2, <1>3, <1>6 DEF Config!Inductive, Config!MemoryEnough
<1>10. Config!SettingsRead' /\ Config!DialsRead' /\ Config!ShiftsRead' /\ Config!IdxRead'
  BY <1>1, <1>2, <1>4, <1>6, ConfValuesKeep DEF Config!Inductive
<1>11. QED
  BY <1>7, <1>8, <1>9, <1>10

\* So every step keeps it.
LEMMA ConfStep ==
  ASSUME Config!ConfigurationAssumption, Config!Inductive, Config!Next
  PROVE  Config!Inductive'
<1>1. CASE Config!InitFlow
  BY <1>1, ConfInitFlow
<1>2. CASE Config!Create
  BY <1>2, ConfCreateOwn, ConfCreateStage
<1>3. CASE Config!OutOfMemory
  BY <1>3, ConfOutOfMemory
<1>4. CASE Config!Skip \/ Config!Done
  BY <1>4, ConfSkipDone
<1>5. CASE Config!ReadUnknown \/ Config!ReadOwn
  BY <1>5, ConfUnknown
<1>6. CASE Config!ReadSetting
  BY <1>6, ConfSetting
<1>7. CASE Config!ReadNumberSetting
  BY <1>7, ConfNumberSetting
<1>8. CASE Config!ReadIdx
  BY <1>8, ConfIdx, ConfIdxCrashes
<1>9. CASE Config!ReadReader
  BY <1>9, ConfReader
<1>10. CASE Config!ReadDial
  BY <1>10, ConfDial
<1>11. CASE Config!SectionEnds
  BY <1>11, ConfSectionEnds
<1>12. QED
  BY <1>1, <1>2, <1>3, <1>4, <1>5, <1>6, <1>7, <1>8, <1>9, <1>10, <1>11 DEF Config!Next

\* When the file has been read each stage has been given all the lines that count for it.
LEMMA ConfAllGiven ==
  ASSUME Config!ConfigurationAssumption, Config!Inductive, at = "idle", inits > 0
  PROVE  /\ \A i \in Config!Now : ~Config!Stuck(i) /\ Config!Got(i) = Config!Accepted(flows[i].header, flows[i].section)
         /\ \A i \in Config!Now : flows[i].section = "MQTT" => Config!Got(i) = Config!LinesOf(flows[i].header)
         /\ line > Len(file)
<1>1. line > Len(file) /\ line \in Nat /\ Len(file) \in Nat
  BY ConfLines DEF Config!Inductive, Config!StagesSound
<1>2. ASSUME NEW i \in Config!Now
      PROVE  ~Config!Stuck(i) /\ Config!Got(i) = Config!Accepted(flows[i].header, flows[i].section)
  <2>1. ~Config!Stuck(i)
    BY DEF Config!Stuck
  <2>2. \A n \in Config!Accepted(flows[i].header, flows[i].section) : n <= line
    BY <2>1 DEF Config!Inductive, Config!SectionsOver
  <2>3. QED
    BY <2>1, <2>2 DEF Config!Got
<1>3. \A h : Config!Accepted(h, "MQTT") = Config!LinesOf(h)
  BY DEF Config!Accepted, Config!Readers
<1>4. QED
  BY <1>1, <1>2, <1>3

\* A stage has what its section says.
ConfSays(i) ==
  /\ flows[i].header \in Config!Written(flows[i].section)
  /\ flows[i].section \in Config!Plain \union Config!Readers =>
       flows[i].set = Config!LastValue(Config!Accepted(flows[i].header, flows[i].section), "SaveAllFiles", None)
  /\ flows[i].section \in Config!Readers =>
       Config!NamesOf(flows[i].numbers) =
         {file[n].number : n \in {k \in Config!Accepted(flows[i].header, flows[i].section) : file[k].is = "dial"}}
  /\ flows[i].section = "PostProcessing" =>
       /\ \A d, e \in flows[i].numbers : d.name = e.name => d = e
       /\ {v \in flows[i].set : v.key = "DecimalShift"} =
            UNION {Config!LastValue(Config!Accepted(flows[i].header, flows[i].section), "DecimalShift", n) :
                     n \in Config!NamesOf(flows[i].numbers)}
       /\ {v \in flows[i].set : v.key = "DomoticzIDX"} =
            UNION {Config!LastValue(UNION {Config!LinesOf(flows[m].header) : m \in Config!Writers(i)}, "DomoticzIDX", n) :
                     n \in Config!NamesOf(flows[i].numbers)}

\* What has been read is what the file says.
LEMMA ConfTrue ==
  ASSUME Config!ConfigurationAssumption, Config!Inductive
  PROVE  Config!TypeOK /\ Config!ConfigurationTrue
<1>1. Config!TypeOK /\ Config!CrashMeant
  BY DEF Config!Inductive
<1>2. SUFFICES ASSUME at = "idle", inits > 0
      PROVE  /\ {flows[i].header : i \in Config!Now} = UNION {Config!Written(s) : s \in Supported \ Config!Own}
             /\ \A i, j \in Config!Now : i < j <=> flows[i].header < flows[j].header
             /\ \A i \in Config!Now : ConfSays(i)
  BY <1>1 DEF Config!ConfigurationTrue, Config!CrashMeant, Config!Now, Config!Writers, ConfSays
<1>4. /\ Config!HeadersMade /\ Config!StagesSound
      /\ Config!SettingsRead /\ Config!DialsRead /\ Config!ShiftsRead /\ Config!IdxRead
  BY <1>2 DEF Config!Inductive
<1>5. /\ \A i \in Config!Now : ~Config!Stuck(i) /\ Config!Got(i) = Config!Accepted(flows[i].header, flows[i].section)
      /\ \A i \in Config!Now : flows[i].section = "MQTT" => Config!Got(i) = Config!LinesOf(flows[i].header)
      /\ line > Len(file) /\ line \in Nat /\ Len(file) \in Nat
      /\ \A i \in Config!Now : i \in DOMAIN flows /\ i \in Nat
  BY <1>2, ConfAllGiven, ConfLines
<1>6. {flows[i].header : i \in Config!Now} = UNION {Config!Written(s) : s \in Supported \ Config!Own}
  <2>1. \A i \in Config!Now : flows[i].section \in Supported \ Config!Own /\ flows[i].header \in Config!Written(flows[i].section)
    BY <1>4 DEF Config!HeadersMade
  <2>2. ASSUME NEW s \in Supported \ Config!Own, NEW h \in Config!Written(s)
        PROVE  \E i \in Config!Now : flows[i].header = h
    <3>1. h < line
      BY <1>5 DEF Config!Written
    <3>2. QED
      BY <1>4, <3>1 DEF Config!HeadersMade
  <2>3. QED
    BY <2>1, <2>2
<1>7. \A i, j \in Config!Now : i < j <=> flows[i].header < flows[j].header
  <2>1. \A i, j \in Config!Now : i < j => flows[i].header < flows[j].header
    BY <1>4, <1>5 DEF Config!HeadersMade
  <2>2. \A i \in Config!Now : flows[i].header \in Nat
    BY <1>4, <1>5 DEF Config!HeadersMade, Config!Written
  <2>3. QED
    BY <1>5, <2>1, <2>2
<1>8. ASSUME NEW i \in Config!Now PROVE ConfSays(i)
  <2>1. Config!Got(i) = Config!Accepted(flows[i].header, flows[i].section)
    BY <1>5
  <2>2. flows[i].header \in Config!Written(flows[i].section)
    BY <1>4 DEF Config!HeadersMade
  <2>3. flows[i].section \in Config!Plain \union Config!Readers =>
          flows[i].set = Config!LastValue(Config!Accepted(flows[i].header, flows[i].section), "SaveAllFiles", None)
    <3>1. flows[i].section \in Config!Plain \union Config!Readers =>
            flows[i].set = Config!LastValue(Config!Got(i), "SaveAllFiles", None)
      BY <1>4 DEF Config!SettingsRead
    <3>2. QED
      BY <2>1, <3>1
  <2>4. flows[i].section \in Config!Readers =>
          Config!NamesOf(flows[i].numbers) =
            {file[n].number : n \in {k \in Config!Accepted(flows[i].header, flows[i].section) : file[k].is = "dial"}}
    <3>1. flows[i].section \in Config!Readers =>
            Config!NamesOf(flows[i].numbers) = {file[n].number : n \in {k \in Config!Got(i) : file[k].is = "dial"}}
      BY <1>4 DEF Config!DialsRead
    <3>2. QED
      BY <2>1, <3>1
  <2>5. flows[i].section = "PostProcessing" =>
          {v \in flows[i].set : v.key = "DecimalShift"} =
            UNION {Config!LastValue(Config!Accepted(flows[i].header, flows[i].section), "DecimalShift", n) :
                     n \in Config!NamesOf(flows[i].numbers)}
    <3>1. flows[i].section = "PostProcessing" =>
            {v \in flows[i].set : v.key = "DecimalShift"} =
              UNION {Config!LastValue(Config!Got(i), "DecimalShift", n) : n \in Config!NamesOf(flows[i].numbers)}
      BY <1>4 DEF Config!ShiftsRead
    <3>2. QED
      BY <2>1, <3>1
  <2>6. \A d, e \in flows[i].numbers : d.name = e.name => d = e
    BY <1>4, <1>5 DEF Config!StagesSound
  <2>7. ASSUME flows[i].section = "PostProcessing"
        PROVE  {v \in flows[i].set : v.key = "DomoticzIDX"} =
                 UNION {Config!LastValue(UNION {Config!LinesOf(flows[m].header) : m \in Config!Writers(i)},
                                         "DomoticzIDX", n) :
                          n \in Config!NamesOf(flows[i].numbers)}
    <3>1. {v \in flows[i].set : v.key = "DomoticzIDX"} =
            UNION {Config!LastValue(ConfIdxLines(i), "DomoticzIDX", n) : n \in Config!NamesOf(flows[i].numbers)}
      BY <1>4, <2>7 DEF Config!IdxRead, ConfIdxLines
    <3>2. \A m \in Config!Writers(i) : Config!Got(m) = Config!LinesOf(flows[m].header)
      BY <1>5 DEF Config!Writers
    <3>3. ConfIdxLines(i) = UNION {Config!LinesOf(flows[m].header) : m \in Config!Writers(i)}
      BY <3>2 DEF ConfIdxLines
    <3>4. QED
      BY <3>1, <3>3
  <2>8. QED
    BY <2>2, <2>3, <2>4, <2>5, <2>6, <2>7 DEF ConfSays
<1>9. QED
  BY <1>6, <1>7, <1>8

-----------------------------------------------------------------------------
(* The composition: a behaviour is about one of the services               *)

LEMMA NextSubject == [Next]_vars => subject' = subject
  BY DEF Next, vars

\* The invariant of WebPages, of the behaviours that are about it.
PageInductive == subject = "pages" => Page!Inductive

\* A step of such a behaviour is a step of WebPages.
LEMMA PageNext ==
  [Next]_vars /\ subject = "pages" => [Page!Next]_(Page!vars)
<1>1. ASSUME Next, subject = "pages" PROVE Page!Next
  BY <1>1 DEF Next
<1>2. ASSUME UNCHANGED vars PROVE UNCHANGED Page!vars
  BY <1>2 DEF vars, pagesVars, Page!vars, Page!flow, Page!request
<1>3. QED
  BY <1>1, <1>2

\* The invariant of WebPages is one of the composition.
LEMMA PageInvariant == Spec => []PageInductive
<1>1. Init => PageInductive
  BY ServicesAssumption, PagesInitInductive DEF Init, PageInductive
<1>2. PageInductive /\ [Next]_vars => PageInductive'
  BY ServicesAssumption, PageNext, NextSubject, PagesStepInductive DEF PageInductive
<1>3. QED
  BY <1>1, <1>2, PTL DEF Spec

\* The invariant of Access, of the behaviours that are about it.
LoginInductive == subject = "access" => Login!Inductive

\* A step of such a behaviour is a step of Access.
LEMMA LoginNext ==
  [Next]_vars /\ subject = "access" => [Login!Next]_(Login!vars)
<1>1. ASSUME Next, subject = "access" PROVE Login!Next
  BY <1>1 DEF Next
<1>2. ASSUME UNCHANGED vars PROVE UNCHANGED Login!vars
  BY <1>2 DEF vars, accessVars, Login!vars, Login!memory, Login!serial
<1>3. QED
  BY <1>1, <1>2

\* The invariant of Access is one of the composition.
LEMMA LoginInvariant == Spec => []LoginInductive
<1>1. Init => LoginInductive
  BY ServicesAssumption, AccessInitInductive DEF Init, LoginInductive
<1>2. LoginInductive /\ [Next]_vars => LoginInductive'
  BY ServicesAssumption, LoginNext, NextSubject, AccessStepInductive DEF LoginInductive
<1>3. QED
  BY <1>1, <1>2, PTL DEF Spec

\* The invariant of Wlan, of the behaviours that are about it.
NetworkInductive == subject = "wlan" => Network!Inductive

\* A step of such a behaviour is a step of Wlan.
LEMMA NetworkNext ==
  [Next]_vars /\ subject = "wlan" => [Network!Next]_(Network!vars)
<1>1. ASSUME Next, subject = "wlan" PROVE Network!Next
  BY <1>1 DEF Next
<1>2. ASSUME UNCHANGED vars PROVE UNCHANGED Network!vars
  BY <1>2 DEF vars, wlanVars, Network!vars
<1>3. QED
  BY <1>1, <1>2

\* The invariant of Wlan is one of the composition.
LEMMA NetworkInvariant == Spec => []NetworkInductive
<1>1. Init => NetworkInductive
  BY ServicesAssumption, WlanInitInductive DEF Init, NetworkInductive
<1>2. NetworkInductive /\ [Next]_vars => NetworkInductive'
  BY ServicesAssumption, NetworkNext, NextSubject, WlanStepInductive DEF NetworkInductive
<1>3. QED
  BY <1>1, <1>2, PTL DEF Spec

\* The invariant of Configuration, of the behaviours that are about it.
ConfigInductive == subject = "configuration" => Config!Inductive

\* A step of such a behaviour is a step of Configuration.
LEMMA ConfigNext ==
  [Next]_vars /\ subject = "configuration" => [Config!Next]_(Config!vars)
<1>1. ASSUME Next, subject = "configuration" PROVE Config!Next
  BY <1>1 DEF Next
<1>2. ASSUME UNCHANGED vars PROVE UNCHANGED Config!vars
  BY <1>2 DEF vars, configurationVars, Config!vars
<1>3. QED
  BY <1>1, <1>2

\* The invariant of Configuration is one of the composition.
LEMMA ConfigInvariant == Spec => []ConfigInductive
<1>1. Init => ConfigInductive
  BY ServicesAssumption, ConfInit DEF Init, ConfigInductive
<1>2. ConfigInductive /\ [Next]_vars => ConfigInductive'
  BY ServicesAssumption, ConfigNext, NextSubject, ConfStep, ConfUnchanged DEF ConfigInductive
<1>3. QED
  BY <1>1, <1>2, PTL DEF Spec

(* A connection that stays open has got one whole answer, a page of values *)
(* has its dials, and a request brings no configured device down, whatever *)
(* round runs meanwhile and however many rounds there are                  *)
(* (handler_wasserzaehler, GetJPGStream, handler_json, handler_editflow).  *)
THEOREM ServicesPages == Spec => []PagesTrue
<1>1. PageInductive => PagesTrue
  BY DEF PageInductive, PagesTrue, Page!Inductive
<1>2. QED
  BY <1>1, PageInvariant, PTL

(* What was reported of the password is so after any restart, no failure   *)
(* leads back to asking for a first one, and nobody is let in with another *)
(* than the stored one, for any passwords, codes and commands that wait    *)
(* (Credential::save, WebsiteAccess, SerialParser).                        *)
THEOREM ServicesAccess == Spec => []AccessTrue
<1>1. LoginInductive => AccessTrue
  BY DEF LoginInductive, AccessTrue, Login!Inductive
<1>2. QED
  BY <1>1, LoginInvariant, PTL

(* The device believes to be connected exactly when it is, and otherwise   *)
(* an attempt is under way, whatever the network did, for any length of    *)
(* the event queue and any number of tries (event_handler,                 *)
(* wifiRoamByScanning, task_StatusLED).                                    *)
THEOREM ServicesWlan == Spec => []WlanTrue
<1>1. NetworkInductive => WlanTrue
  BY ServicesAssumption, InductiveWlan DEF NetworkInductive, WlanTrue
<1>2. QED
  BY <1>1, NetworkInvariant, PTL

(* Once config.ini has been read, the stages are those of the sections     *)
(* that are switched on, in their order, and each has what its own section *)
(* says last for every number, whatever lines the file has in whatever     *)
(* order and however often it is read; only a header that is spelled       *)
(* wrong, MQTT before the post processing, or the stages of an earlier     *)
(* call bring the device down (InitFlow, ReadParameter of the stages,      *)
(* handleDecimalSeparator, handleIdx, GetGENERAL).                         *)
THEOREM ServicesConfiguration == Spec => []ConfigurationTrue
<1>1. ConfigInductive => ConfigurationTrue
  BY ServicesAssumption, ConfTrue DEF ConfigInductive, ConfigurationTrue
<1>2. QED
  BY <1>1, ConfigInvariant, PTL
=============================================================================
