---------------------------- MODULE ImageAcceptance ----------------------------
(***************************************************************************)
(* The first boots of an updated image, on a bootloader with rollback: the *)
(* flow task runs recognition cycles and, between them, decides whether to *)
(* accept the image that is pending verification.                          *)
(*   - servicePendingImage, observeOtaHealth, acceptHealthyManagedImage;   *)
(*   - the model self-test, which a web request may run as well;           *)
(*   - CycleTelemetry::Span, which counts consecutive accepted cycles;     *)
(*   - the processing, camera and update guards, taken without waiting and *)
(*     taken by web requests as well.                                      *)
(***************************************************************************)
EXTENDS Naturals, Sequences, SequencesExt

CONSTANT Needed   \* consecutive accepted cycles the policy asks for (3)

\* What the constants must be; assumed where they have values.
AcceptanceAssumption == Needed \in Nat \ {0}

VARIABLES
  image,      \* what the SDK reports of the running image
  terminal,   \* why servicePendingImage has finished for this boot, or "no"
  started,    \* firstCheckUs is set
  elapsed,    \* ten minutes have passed since
  test,       \* polarTestActive and the status of polarTestResult
  outcome,    \* status of the self-test the flow task ran itself
  tester,     \* progress of the self-test a web request started
  ran,        \* history: status of the last self-test that ran to its end
  streak,     \* acceptedReaderStreak, counted up to Needed
  recent,     \* history: the outcomes of the last Needed cycles
  fresh,      \* the last capture is recent enough
  readable,   \* ConfigStorage::safe
  holder,     \* holder[g]: who holds guard g
  seen,       \* the evidence of an observation, while it is looked at
  pc          \* progress of the flow task

guards == <<holder>>
tests  == <<test, outcome, tester, ran>>
cycles == <<streak, recent, fresh>>
window == <<started, elapsed>>
vars   == <<image, terminal, window, tests, cycles, readable, guards, seen, pc>>

Guards   == {"processing", "camera", "update"}
Statuses == {"not_run", "queued_or_running", "all_output_bytes_match", "mismatch",
             "processing_busy", "camera_busy", "task_creation_failed"}
Terminals == {"no", "not_pending", "expired", "self_test_failed", "accepted", "not_accepted"}
FlowSteps == {"service", "decide", "reserve", "test", "testing", "tested", "recheck",
              "accept", "acceptUpdate", "fresh", "evaluate", "mark", "cycle", "cycling"}
Free(g)  == holder[g] = "free"
Take(gs, who) == holder' = [g \in Guards |-> IF g \in gs THEN who ELSE holder[g]]
Give(gs) == Take(gs, "free")

NoEvidence == [passed |-> FALSE, active |-> FALSE, readable |-> FALSE]

Init ==
  /\ image = "pending" /\ terminal = "no" /\ started = FALSE /\ elapsed = FALSE
  /\ test = [active |-> FALSE, status |-> "not_run"]
  /\ outcome = "not_run" /\ tester = "idle" /\ ran = "not_run"
  /\ streak = 0 /\ recent = <<>> /\ fresh = FALSE
  /\ readable = TRUE
  /\ holder = [g \in Guards |-> "free"]
  /\ seen = NoEvidence
  /\ pc = "service"

-----------------------------------------------------------------------------
(* Evidence                                                                *)

\* observeOtaHealth: snapshots taken one after the other; what they say may pass.
Observation == [passed   |-> ~test.active /\ test.status = "all_output_bytes_match",
                active   |-> test.active,
                readable |-> readable]

\* MeterOtaHealth::evaluate, for an image that is pending with its bundle verified.
\* The flow task observes between its cycles, so no cycle is active.
Ready == /\ seen.readable /\ seen.passed /\ ~seen.active
         /\ streak >= Needed /\ fresh

-----------------------------------------------------------------------------
(* servicePendingImage                                                     *)

Return == pc' = "cycle"
Finish(reason) == terminal' = reason /\ Return

Service ==
  /\ pc = "service"
  /\ IF terminal # "no" THEN Return /\ UNCHANGED seen
     ELSE seen' = Observation /\ pc' = "decide"
  /\ UNCHANGED <<image, terminal, window, tests, cycles, readable, guards>>

\* Mutant: the window is only looked at once the configuration is readable.
DecideVetoFirst ==
  /\ pc = "decide"
  /\ IF image # "pending" THEN Finish("not_pending") /\ UNCHANGED started
     ELSE /\ started' = TRUE
          /\ CASE ~seen.readable     -> Return /\ UNCHANGED terminal
               [] started /\ elapsed -> Finish("expired")
               [] ~seen.passed       -> pc' = "reserve" /\ UNCHANGED terminal
               [] Ready              -> pc' = "accept" /\ UNCHANGED terminal
               [] OTHER              -> Return /\ UNCHANGED terminal
  /\ seen' = NoEvidence
  /\ UNCHANGED <<image, elapsed, tests, cycles, readable, guards>>

Decide ==
  /\ pc = "decide"
  /\ IF image # "pending" THEN Finish("not_pending") /\ UNCHANGED started
     ELSE /\ started' = TRUE
          /\ CASE started /\ elapsed -> Finish("expired")
               [] ~seen.readable     -> Return /\ UNCHANGED terminal
               [] ~seen.passed       -> pc' = "reserve" /\ UNCHANGED terminal
               [] Ready              -> pc' = "accept" /\ UNCHANGED terminal
               [] OTHER              -> Return /\ UNCHANGED terminal
  /\ seen' = NoEvidence
  /\ UNCHANGED <<image, elapsed, tests, cycles, readable, guards>>

\* The self-test has one result, which a web request may be filling.
ReserveTest ==
  /\ pc = "reserve"
  /\ IF test.active THEN Return /\ UNCHANGED test
     ELSE test' = [active |-> TRUE, status |-> "not_run"] /\ pc' = "test"
  /\ UNCHANGED <<image, terminal, window, outcome, tester, ran, cycles, readable, guards, seen>>

\* runPolarRuntimeTest: processing, then camera, neither waited for.
BusyStatus == IF ~Free("processing") THEN "processing_busy" ELSE "camera_busy"
BothFree   == Free("processing") /\ Free("camera")

TestBegins ==
  /\ pc = "test"
  /\ IF BothFree
     THEN Take({"processing", "camera"}, "flow") /\ pc' = "testing" /\ UNCHANGED outcome
     ELSE outcome' = BusyStatus /\ pc' = "tested" /\ UNCHANGED holder
  /\ UNCHANGED <<image, terminal, window, test, tester, ran, cycles, readable, seen>>

TestRuns(status) ==
  /\ pc = "testing"
  /\ outcome' = status /\ ran' = status
  /\ Give({"processing", "camera"})
  /\ pc' = "tested"
  /\ UNCHANGED <<image, terminal, window, test, tester, cycles, readable, seen>>

Tested ==
  /\ pc = "tested"
  /\ test' = [active |-> FALSE, status |-> outcome]
  /\ IF outcome = "processing_busy" THEN Return ELSE pc' = "recheck"
  /\ UNCHANGED <<image, terminal, window, outcome, tester, ran, cycles, readable, guards, seen>>

\* A web request may have reset the result in between.
Recheck ==
  /\ pc = "recheck"
  /\ IF Observation.passed THEN Return /\ UNCHANGED terminal ELSE Finish("self_test_failed")
  /\ UNCHANGED <<image, window, tests, cycles, readable, guards, seen>>

-----------------------------------------------------------------------------
(* acceptHealthyManagedImage                                               *)

\* Mutant: the processing guard is not taken.
AcceptUnguarded ==
  /\ pc = "accept"
  /\ pc' = "acceptUpdate"
  /\ UNCHANGED <<image, terminal, window, tests, cycles, readable, holder, seen>>

Accept ==
  /\ pc = "accept"
  /\ IF Free("processing") THEN Take({"processing"}, "flow") /\ pc' = "acceptUpdate"
     ELSE Return /\ UNCHANGED holder
  /\ UNCHANGED <<image, terminal, window, tests, cycles, readable, seen>>

AcceptUpdate ==
  /\ pc = "acceptUpdate"
  /\ IF Free("update") THEN Take({"update"}, "flow") /\ pc' = "fresh"
     ELSE Give({"processing"}) /\ Return
  /\ UNCHANGED <<image, terminal, window, tests, cycles, readable, seen>>

ObserveFresh ==
  /\ pc = "fresh"
  /\ seen' = Observation /\ pc' = "evaluate"
  /\ UNCHANGED <<image, terminal, window, tests, cycles, readable, guards>>

\* Any reason but a busy guard is terminal.
Evaluate ==
  /\ pc = "evaluate"
  /\ IF Ready THEN pc' = "mark" /\ UNCHANGED <<terminal, holder>>
     ELSE Give({"processing", "update"}) /\ Finish("not_accepted")
  /\ seen' = NoEvidence
  /\ UNCHANGED <<image, window, tests, cycles, readable>>

\* The write or its readback may fail, whichever the flash holds then; neither is retried.
Mark ==
  /\ pc = "mark"
  /\ \/ image' = "valid" /\ Finish("accepted")
     \/ image' \in {"pending", "valid"} /\ Finish("not_accepted")
  /\ Give({"processing", "update"})
  /\ UNCHANGED <<window, tests, cycles, readable, seen>>

-----------------------------------------------------------------------------
(* doFlow and its Span                                                     *)

\* A guard held by another request rejects the round; the streak stays.
CycleBegins ==
  /\ pc = "cycle"
  /\ IF Free("processing") THEN Take({"processing"}, "flow") /\ pc' = "cycling"
     ELSE pc' = "service" /\ UNCHANGED holder
  /\ UNCHANGED <<image, terminal, window, tests, cycles, readable, seen>>

LastCycles(ok) == LET all == Append(recent, ok) IN
                  IF Len(all) > Needed THEN Tail(all) ELSE all

\* finish: completed with an accepted reading, or not (broken off, or no reading).
CycleEnds(ok) ==
  /\ pc = "cycling"
  /\ streak' = IF ok THEN IF streak = Needed THEN Needed ELSE streak + 1 ELSE 0
  /\ recent' = LastCycles(ok)
  /\ fresh' = (ok \/ fresh)
  /\ Give({"processing"}) /\ pc' = "service"
  /\ UNCHANGED <<image, terminal, window, tests, readable, seen>>

-----------------------------------------------------------------------------
(* A self-test requested over the web: handler_polar_test_start, its worker *)

TesterStarts ==
  /\ tester = "idle" /\ ~test.active
  /\ test' = [active |-> TRUE, status |-> "queued_or_running"]
  /\ tester' = "queued"
  /\ UNCHANGED <<image, terminal, window, outcome, ran, cycles, readable, guards, seen, pc>>

TesterEnds(status) == test' = [active |-> FALSE, status |-> status] /\ tester' = "idle"

TesterCreationFails ==
  /\ tester = "queued"
  /\ TesterEnds("task_creation_failed")
  /\ UNCHANGED <<image, terminal, window, outcome, ran, cycles, readable, guards, seen, pc>>

TesterBegins ==
  /\ tester = "queued"
  /\ IF BothFree
     THEN Take({"processing", "camera"}, "tester") /\ tester' = "running" /\ UNCHANGED test
     ELSE TesterEnds(BusyStatus) /\ UNCHANGED holder
  /\ UNCHANGED <<image, terminal, window, outcome, ran, cycles, readable, seen, pc>>

\* The guards are released when the test returns, the result is stored after that.
TesterRuns(status) ==
  /\ tester = "running"
  /\ ran' = status
  /\ Give({"processing", "camera"})
  /\ tester' = status
  /\ UNCHANGED <<image, terminal, window, test, outcome, cycles, readable, seen, pc>>

TesterReports ==
  /\ tester \in Statuses
  /\ TesterEnds(tester)
  /\ UNCHANGED <<image, terminal, window, outcome, ran, cycles, readable, guards, seen, pc>>

-----------------------------------------------------------------------------
(* Other requests, and time                                                *)

WebTakes(g) ==
  /\ Free(g) /\ Take({g}, "web")
  /\ UNCHANGED <<image, terminal, window, tests, cycles, readable, seen, pc>>

WebGives(g) ==
  /\ holder[g] = "web" /\ Give({g})
  /\ UNCHANGED <<image, terminal, window, tests, cycles, readable, seen, pc>>

\* A save that failed leaves the configuration unsafe until the device is initialised again.
SaveFails ==
  /\ holder["update"] = "web" /\ readable' = FALSE
  /\ UNCHANGED <<image, terminal, window, tests, cycles, guards, seen, pc>>

CaptureAges ==
  /\ fresh /\ fresh' = FALSE
  /\ UNCHANGED <<image, terminal, window, tests, streak, recent, readable, guards, seen, pc>>

WindowElapses ==
  /\ started /\ elapsed' = TRUE
  /\ UNCHANGED <<image, terminal, started, tests, cycles, readable, guards, seen, pc>>

-----------------------------------------------------------------------------
TestStatuses == {"all_output_bytes_match", "mismatch"}

Flow ==
  \/ Service \/ Decide \/ ReserveTest \/ TestBegins \/ Tested \/ Recheck
  \/ Accept \/ AcceptUpdate \/ ObserveFresh \/ Evaluate \/ Mark \/ CycleBegins
  \/ \E s \in TestStatuses : TestRuns(s)
  \/ \E ok \in BOOLEAN : CycleEnds(ok)

Tester ==
  \/ TesterStarts \/ TesterCreationFails \/ TesterBegins \/ TesterReports
  \/ \E s \in TestStatuses : TesterRuns(s)

Environment ==
  \/ \E g \in Guards : WebTakes(g) \/ WebGives(g)
  \/ SaveFails \/ CaptureAges \/ WindowElapses

Next == Flow \/ Tester \/ Environment

Spec == Init /\ [][Next]_vars

\* The flow task is scheduled and time passes; requests and the self-test over the web owe nothing.
LiveSpec == Spec /\ WF_vars(Flow) /\ WF_vars(WindowElapses)

-----------------------------------------------------------------------------
(* Properties                                                              *)

\* Every variable stays in its domain.
TypeOK ==
  /\ image \in {"pending", "valid"} /\ terminal \in Terminals
  /\ started \in BOOLEAN /\ elapsed \in BOOLEAN
  /\ test \in [active : BOOLEAN, status : Statuses] /\ outcome \in Statuses
  /\ tester \in {"idle", "queued", "running"} \cup TestStatuses
  /\ ran \in TestStatuses \cup {"not_run"}
  /\ streak \in 0..Needed /\ recent \in BoundedSeq(BOOLEAN, Needed)
  /\ fresh \in BOOLEAN /\ readable \in BOOLEAN
  /\ holder \in [Guards -> {"free", "flow", "tester", "web"}]
  /\ seen \in [passed : BOOLEAN, active : BOOLEAN, readable : BOOLEAN]
  /\ pc \in FlowSteps

\* The image is accepted only on evidence that still stands when it is written: the last cycles
\* were all accepted, and the last self-test that ran, whoever asked for it, passed.
AcceptanceStep ==
  image = "pending" /\ image' = "valid" =>
    /\ Len(recent) = Needed /\ \A i \in 1..Needed : recent[i]
    /\ ran = "all_output_bytes_match"
AcceptedOnEvidence == [][AcceptanceStep]_vars

\* Between its rounds the flow task holds no guard, so that requests are not locked out.
GuardsReturned == pc \in {"service", "decide", "cycle"} => \A g \in Guards : holder[g] # "flow"

\* The self-test slot is active exactly while somebody is going to report into it.
OneReporter ==
  test.active <=> (tester # "idle" \/ pc \in {"test", "testing", "tested"})

\* Whatever path a round or a self-test leaves by, it keeps neither a guard nor the self-test slot.
NothingHeld == GuardsReturned /\ OneReporter

\* A pending image does not stay undecided: it is accepted, given up, or its window ends.
Decided == <>(terminal # "no")

\* OTA-STATUS.md: a busy lock defers the decision to a later cycle, only a failed test is terminal.
BusyLocksDefer ==
  terminal = "self_test_failed" => outcome \notin {"processing_busy", "camera_busy"}

-----------------------------------------------------------------------------
(* The inductive invariant                                                 *)

\* The streak counts accepted cycles that are still remembered.
StreakRecent ==
  streak <= Len(recent) /\ \A i \in 1..Len(recent) : i > Len(recent) - streak => recent[i] = TRUE

\* Who holds a guard is where it needs it.
HoldsAt == [processing |-> {"testing", "acceptUpdate", "fresh", "evaluate", "mark", "cycling"},
            camera     |-> {"testing"},
            update     |-> {"fresh", "evaluate", "mark"}]
GuardsWhere ==
  /\ \A g \in Guards : holder[g] = "flow" <=> pc \in HoldsAt[g]
  /\ \A g \in {"processing", "camera"} : holder[g] = "tester" <=> tester = "running"
  /\ holder["update"] # "tester"

\* One self-test at a time, and what is reported of it is what it found.
Testing == {"test", "testing", "tested"}
TestReported ==
  /\ OneReporter /\ ~(tester # "idle" /\ pc \in Testing)
  /\ test.active => test.status # "all_output_bytes_match"
  /\ test.status = "all_output_bytes_match" => ran = "all_output_bytes_match"
  /\ tester \in TestStatuses => ran = tester
  /\ pc = "tested" /\ outcome = "all_output_bytes_match" => ran = "all_output_bytes_match"

\* No self-test runs while the evidence for the acceptance is looked at: it needs the same guard.
EvidenceStands ==
  /\ pc = "evaluate" /\ seen.passed => ran = "all_output_bytes_match"
  /\ pc = "mark" => ran = "all_output_bytes_match" /\ streak >= Needed

Inductive == TypeOK /\ StreakRecent /\ GuardsWhere /\ TestReported /\ EvidenceStands
=============================================================================
