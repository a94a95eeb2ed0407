------------------------------- MODULE WebPages -------------------------------
(***************************************************************************)
(* What the website answers while rounds run.  The web server is one task  *)
(* that serves one request at a time; it reads the status, the count of    *)
(* rounds and the stages' results of the flow task without a lock.  A      *)
(* handler answers through httpd, which neither counts nor checks what it  *)
(* is given: one whole answer (httpd_resp_send), or pieces of one, the     *)
(* last of them empty (httpd_resp_send_chunk).  A handler that returns     *)
(* ESP_OK leaves the connection open for the next request, so what it has  *)
(* sent must be one whole answer; any other return closes it.              *)
(***************************************************************************)
EXTENDS Naturals

CONSTANTS
  Rounds   \* bound on the rounds of a start

\* What the constant must be; assumed where it has a value.
WebPagesAssumption == Rounds \in Nat \ {0}

VARIABLES
  status,    \* aktstatus; all errors of a stage are "failed", of InitFlow "NoConfiguration"
  rounds,    \* countRounds
  created,   \* bTaskAutoFlowCreated
  panic,     \* the last restart was a crash
  at,        \* what the flow task is doing
  safe,      \* ConfigStorage::safe
  post,      \* flowpostprocessing: "missing", "empty" (no number) or "ready"
  alg,       \* flowalignment: "missing", "plain" (AlgROI not allocated) or "drawn"
  camera,    \* who has the camera's lock
  onCard,    \* which pictures are on the card: the placeholders, saved ones
  testing,   \* polarFrameTestActive
  page,      \* the request that is, or was last, served
  step,      \* how far its handler has come
  wire,      \* what the client has got of an answer
  lost,      \* a piece of it did not go out
  fate,      \* what the handler returned
  shown      \* the parts of the page with everything

flow    == <<status, rounds, created, panic, at, safe, post, alg, testing>>
request == <<page, step, wire, lost, fate, shown>>
vars    == <<flow, camera, onCard, request>>

Early   == {"Initialization", "InitializationDelayed", "TakeImage"}
Stages  == {"TakeImage", "Aligning", "Digitization", "PostProcessing"}
Results == {"FlowFinished", "failed"}

(* The flow task has not been made when the server starts.                 *)
Init ==
  /\ status = "NotCreated" /\ rounds = 0 /\ created = FALSE /\ panic \in BOOLEAN
  /\ at = "start" /\ safe = FALSE /\ post = "missing" /\ alg = "missing"
  /\ testing = FALSE /\ camera = "free" /\ onCard \in SUBSET {"placeholders"}
  /\ page = "none" /\ step = "idle" /\ wire = "nothing" /\ lost = FALSE /\ fate = "none"
  /\ shown = {}

------------------------------------------------------------------------------
(* The flow task: its start, InitFlow, and round after round.  InitFlow    *)
(* that a request repeats adds the stages once more (FlowControl has that);*)
(* their statuses follow each other in the same order.                     *)
TaskStarts ==
  /\ at = "start"
  /\ created' = TRUE
  /\ IF panic THEN status' = "InitializationDelayed" /\ at' = "delay"
     ELSE at' = "init" /\ UNCHANGED status
  /\ UNCHANGED <<rounds, panic, safe, post, alg, testing, camera, onCard, request>>

DelayEnds ==
  /\ at = "delay" /\ at' = "init"
  /\ UNCHANGED <<status, rounds, created, panic, safe, post, alg, testing, camera, onCard,
                 request>>

WebProcesses == step = "initialises"

(* Camera busy, a profile or journal that cannot be recovered, or no       *)
(* configuration at all: the stages there are stay, and no round runs.     *)
ConfigurationFails ==
  status' = "NoConfiguration" /\ safe' = FALSE /\ post' \in {post, "missing"} /\ UNCHANGED alg

ConfigurationRead ==
  status' = "Initialization" /\ safe' = FALSE /\ post' = "missing" /\ UNCHANGED alg

(* Which sections there are, and whether there was memory for AlgROI.      *)
StagesMade ==
  /\ safe' \in BOOLEAN /\ post' \in {"missing", "empty", "ready"}
  /\ alg' \in {alg, "plain", "drawn"}

InitFlow ==
  /\ at = "init"
  /\ \/ WebProcesses /\ at' = "idle" /\ UNCHANGED <<status, safe, post, alg, camera>>
     \/ ~WebProcesses /\ at' = "idle" /\ ConfigurationFails /\ UNCHANGED camera
     \/ ~WebProcesses /\ camera = "free" /\ camera' = "flow" /\ at' = "reading" /\ ConfigurationRead
  /\ UNCHANGED <<rounds, created, panic, testing, onCard, request>>

InitReads ==
  /\ at = "reading" /\ at' = "idle" /\ camera' = "free"
  /\ \/ StagesMade /\ UNCHANGED status
     \/ ConfigurationFails
  /\ UNCHANGED <<rounds, created, panic, testing, onCard, request>>

\* Mutant: only a round that does not run is counted before it is tried.
RoundBeginsUncounted ==
  /\ at = "idle" /\ rounds < Rounds
  /\ IF WebProcesses \/ ~safe THEN at' = "idle" /\ rounds' = rounds + 1
     ELSE at' = "begun" /\ UNCHANGED rounds
  /\ UNCHANGED <<status, created, panic, safe, post, alg, testing, camera, onCard, request>>

(* The round is counted before doFlow looks whether it may run.            *)
RoundBegins ==
  /\ at = "idle" /\ rounds < Rounds
  /\ rounds' = rounds + 1
  /\ at' = IF WebProcesses \/ ~safe THEN "idle" ELSE "begun"
  /\ UNCHANGED <<status, created, panic, safe, post, alg, testing, camera, onCard, request>>

\* A section that the configuration lacks has no stage; the outputs' come last.
After(s) ==
  CASE s = "TakeImage" -> {"begun"}
    [] s = "Aligning" -> IF alg = "missing" THEN {} ELSE {"begun", "taken"}
    [] s = "Digitization" -> {"begun", "taken", "aligned"}
    [] s = "PostProcessing" ->
         IF post = "missing" THEN {} ELSE {"begun", "taken", "aligned", "read"}

StageStarts ==
  /\ \E s \in Stages : at \in After(s) /\ at' = s /\ status' = s
  /\ UNCHANGED <<rounds, created, panic, safe, post, alg, testing, camera, onCard, request>>

TakesCamera ==
  /\ at = "TakeImage" /\ camera = "free" /\ camera' = "flow"
  /\ at' = "taking"
  /\ UNCHANGED <<status, rounds, created, panic, safe, post, alg, testing, onCard, request>>

(* AlgROI is asked for again in every round that finds it missing.         *)
StageDone ==
  /\ \/ at = "taking" /\ camera' = "free" /\ at' = "taken" /\ UNCHANGED <<status, alg>>
     \/ at = "Aligning" /\ at' = "aligned" /\ alg' \in {alg, "drawn"}
        /\ UNCHANGED <<status, camera>>
     \/ at = "Digitization" /\ at' = "read" /\ UNCHANGED <<status, alg, camera>>
     \/ at = "PostProcessing" /\ at' = "done" /\ UNCHANGED <<status, alg, camera>>
     \/ at \in {"begun", "taken", "aligned", "read", "done"} /\ at' = "idle"
        /\ status' = "FlowFinished" /\ UNCHANGED <<alg, camera>>
  /\ UNCHANGED <<rounds, created, panic, safe, post, testing, onCard, request>>

StageFails ==
  /\ at \in Stages \cup {"taking"}
  /\ status' = "failed" /\ at' = "idle"
  /\ camera' = IF camera = "flow" THEN "free" ELSE camera
  /\ UNCHANGED <<rounds, created, panic, safe, post, alg, testing, onCard, request>>

------------------------------------------------------------------------------
(* httpd: what the client has after one more whole answer, a piece, or the *)
(* empty piece that ends one.                                              *)
Whole(w) == IF w = "nothing" THEN "whole" ELSE "more"
Piece(w) == IF w \in {"nothing", "open"} THEN "open" ELSE "more"
Last(w)  == IF w \in {"nothing", "open"} THEN "whole" ELSE "more"

(* The server turns to the next request when a handler has returned.       *)
NextRequest ==
  /\ step = "idle" /\ page # "none"
  /\ page' = "none" /\ wire' = "nothing" /\ lost' = FALSE /\ fate' = "none" /\ shown' = {}
  /\ UNCHANGED <<flow, camera, onCard, step>>

Asked(r) == step = "idle" /\ page = "none" /\ page' = r
Goes(before, after) == \E gone \in BOOLEAN :
  /\ lost' = (lost \/ gone)
  /\ wire' = IF gone THEN before ELSE after
Done(returned) == step' = "idle" /\ fate' = returned
Closes == Done("failed")

(* The handler returns ESP_OK whatever became of its answer.               *)
Answer(r) == Asked(r) /\ Goes("nothing", "whole") /\ Done("ok") /\ shown' = {}
(* It returns what sending returned.                                       *)
Passes(r) ==
  Asked(r) /\ Goes("nothing", "whole") /\ Done(IF lost' THEN "failed" ELSE "ok") /\ shown' = {}
(* It reports an error and has the connection closed.                      *)
Refuse(r) == Asked(r) /\ Goes("nothing", "whole") /\ Closes /\ shown' = {}

Frame == UNCHANGED <<flow, camera, onCard>>

InfoGet        == Frame /\ (Answer("plain") \/ Passes("plain"))
StartTimeGet   == Frame /\ Answer("plain")
StatusFlow     == Frame /\ Answer("plain")
CpuTemp        == Frame /\ Answer("plain")
Uptime         == Frame /\ Answer("plain")
GetHeap        == Frame /\ Answer("plain")
FlowStart      == Frame /\ (Answer("plain") \/ Passes("plain"))
SysInfo        == Frame /\ Passes("plain")
CycleTiming    == Frame /\ Passes("plain")
ArchiveStatus  == Frame /\ Passes("plain")
HistoryStatus  == Frame /\ Passes("plain")
TestStatus     == Frame /\ Passes("plain")
FrameTestStatus == Frame /\ Passes("plain")
OtaHealth      == Frame /\ Passes("plain")
StreamIntensity == Frame /\ Passes("plain")
Rssi           == Frame /\ (Answer("plain") \/ Refuse("plain"))

(* The whole answer, and then the last piece of another.                   *)
CurrentDate ==
  /\ Asked("date") /\ Goes("nothing", Last(Whole("nothing"))) /\ Done("ok") /\ shown' = {}
  /\ Frame

(* One diagnostic at a time; a worker that cannot be made gives it back.   *)
FrameTestStart ==
  /\ Passes("plain")
  /\ \/ UNCHANGED testing
     \/ ~testing /\ testing' = TRUE
  /\ UNCHANGED <<status, rounds, created, panic, at, safe, post, alg, camera, onCard>>
FrameTestEnds ==
  /\ testing /\ testing' = FALSE
  /\ UNCHANGED <<status, rounds, created, panic, at, safe, post, alg, camera, onCard, request>>

(* A picture of the moment, from the camera or to a file: an error is      *)
(* answered with 500 and returned.                                         *)
Busy == camera = "flow"
Capture     == Frame /\ (Passes("plain") \/ (~Busy /\ Refuse("plain")))
CaptureLit  == Frame /\ (Passes("plain") \/ (~Busy /\ Refuse("plain")))
CaptureSave == Frame /\ (Passes("plain") \/ (~Busy /\ (Answer("plain") \/ Refuse("plain"))))

------------------------------------------------------------------------------
(* The flow may not have the stage that a request reads.                   *)
Crash ==
  /\ Asked("plain") /\ step' = "crashed"
  /\ UNCHANGED <<flow, camera, onCard, wire, lost, fate, shown>>

Json ==
  \/ Frame /\ ~created /\ Refuse("plain")
  \/ Frame /\ created /\ post # "missing" /\ Answer("plain")
  \/ created /\ post = "missing" /\ Crash

OpenMetrics ==
  \/ Frame /\ ~created /\ Refuse("plain")
  \/ Frame /\ created /\ post # "missing" /\ Answer("plain")
  \/ created /\ post = "missing" /\ Crash

Restart ==
  /\ step = "crashed"
  /\ status' = "NotCreated" /\ rounds' = 0 /\ created' = FALSE /\ panic' = TRUE
  /\ at' = "start" /\ safe' = FALSE /\ post' = "missing" /\ alg' = "missing"
  /\ testing' = FALSE /\ camera' = "free"
  /\ page' = "none" /\ step' = "idle" /\ wire' = "nothing" /\ lost' = FALSE /\ fate' = "none"
  /\ shown' = {}
  /\ UNCHANGED onCard

(* /value: all numbers at once, the first alone, or a page with            *)
(* everything.  Without a query the buffer that is searched for the word   *)
(* "full" holds anything, so the page comes for such a request as well.    *)
ValueAll == Frame /\ created /\ Passes("plain")

Reading == post # "empty"
Value ==
  \/ Frame /\ ~created /\ Passes("plain")
  \/ /\ Frame /\ created /\ Reading
     /\ Asked("plain") /\ Goes("nothing", Last(Piece("nothing"))) /\ Done("ok") /\ shown' = {}
  \/ created /\ ~Reading /\ Crash

(* The first round has not been completed, as far as one can see here.     *)
Waits == rounds <= 1 /\ status # "FlowFinished"

PageBegins ==
  /\ Asked("full") /\ created
  /\ shown' = {IF Waits THEN "wait" ELSE "value"}
  /\ Goes("nothing", Piece("nothing"))
  /\ step' = "reading" /\ fate' = "none"
  /\ Frame

PageReading ==
  /\ step = "reading"
  /\ IF Reading
       THEN \/ Goes(wire, Piece(wire)) /\ step' = "tables"
            \/ UNCHANGED <<wire, lost>> /\ step' = "tables"
       ELSE step' = "crashed" /\ UNCHANGED <<wire, lost>>
  /\ UNCHANGED <<flow, camera, onCard, page, fate, shown>>

\* Whoever lists the dials saves their pictures to the card (GetHTMLInfo).
SavesDials == onCard' = onCard \cup (IF alg = "missing" THEN {} ELSE {"saved"})

(* The second look at the same condition decides on the dials.             *)
PageTables ==
  /\ step = "tables"
  /\ IF Waits THEN step' = "end" /\ UNCHANGED <<wire, lost, shown, onCard>>
     ELSE /\ step' = "picture" /\ shown' = shown \cup {"dials"} /\ Goes(wire, Piece(wire))
          /\ SavesDials
  /\ UNCHANGED <<flow, camera, page, fate>>

PagePicture ==
  /\ step = "picture" /\ step' = "end"
  /\ shown' = shown \cup {IF status \in Early THEN "state" ELSE "picture"}
  /\ Goes(wire, Piece(wire))
  /\ UNCHANGED <<flow, camera, onCard, page, fate>>

PageEnds ==
  /\ step = "end" /\ Goes(wire, Last(wire)) /\ Done("ok")
  /\ UNCHANGED <<flow, camera, onCard, page, shown>>

------------------------------------------------------------------------------
(* /img_tmp/: a picture from memory, and if that fails, whatever has been  *)
(* sent by then, the file of its name.                                     *)
ToCard == step' = "card" /\ fate' = "none"
Unless(failed) == IF failed THEN ToCard ELSE Done("ok")
Silent(r) == Asked(r) /\ wire' = "nothing" /\ lost' = FALSE /\ shown' = {}

FromMemory  == Asked("picture") /\ Goes("open", Last(Piece("nothing"))) /\ shown' = {}
               /\ (Unless(lost') \/ (lost' /\ Done("ok")))
AlgROI      == Asked("picture") /\ Goes("nothing", "whole") /\ shown' = {} /\ Unless(lost')
Placeholder ==
  /\ Asked("picture") /\ Goes("nothing", "whole") /\ shown' = {}
  /\ Unless(lost' \/ "placeholders" \notin onCard)
NotInMemory == Silent("picture") /\ ToCard

(* As it was taken: there may be no stage that takes one.                  *)
RawPicture == Frame /\ (Passes("plain") \/ Refuse("plain") \/ (Silent("plain") /\ Closes))

AlignedPicture ==
  /\ NotInMemory \/ (alg # "missing" /\ FromMemory)
  /\ Frame

\* When there is no picture with the dials, the one without them, or nothing.
WithoutDials == Answer("plain") \/ (alg # "missing" /\ FromMemory)
PictureWithDials ==
  /\ IF status \in Early
       THEN IF (status # "TakeImage") \/ (alg = "drawn") THEN Placeholder ELSE WithoutDials
       ELSE IF alg = "drawn" THEN AlgROI ELSE WithoutDials
  /\ Frame

DialPicture ==
  /\ \/ FromMemory
     \/ NotInMemory
  /\ SavesDials
  /\ UNCHANGED <<flow, camera>>

(* send_file ends its answer with an empty piece; img_tmp_handler sends    *)
(* another.  A file that is not there is answered with 404.                *)
FromCard ==
  /\ step = "card"
  /\ IF "saved" \in onCard
       THEN /\ Goes(wire, Last(Last(Piece(wire))))
            /\ Done(IF lost' /\ ~lost THEN "failed" ELSE "ok") /\ page' = "card"
       ELSE Goes(wire, Whole(wire)) /\ Closes /\ UNCHANGED page
  /\ UNCHANGED <<flow, camera, onCard, shown>>

\* A file of the interface, or of another page, is followed by an empty piece too.
StaticPage ==
  /\ Frame
  /\ \/ Passes("plain")
     \/ Asked("card") /\ Goes("nothing", Last(Last(Piece("nothing")))) /\ Done("ok") /\ shown' = {}

------------------------------------------------------------------------------
(* /doinit answers before and after it has initialised the flow, with a    *)
(* whole answer each.                                                      *)
DoInitAnswers ==
  /\ Asked("doinit") /\ Goes("nothing", "whole") /\ shown' = {} /\ fate' = "none"
  /\ step' = IF at \in {"start", "delay", "init", "idle"} THEN "initialises" ELSE "initialised"
  /\ Frame

DoInit ==
  /\ step = "initialises" /\ step' = "initialised"
  /\ ConfigurationFails \/ (status' = "Initialization" /\ StagesMade)
  /\ UNCHANGED <<rounds, created, panic, at, testing, camera, onCard, page, wire, lost, fate,
                 shown>>

DoInitEnds ==
  /\ step = "initialised" /\ Goes(wire, Whole(wire)) /\ Done("ok")
  /\ UNCHANGED <<flow, camera, onCard, page, shown>>

(* /editflow holds the camera's lock; copying and cutting answer and then  *)
(* come to the question whether the device is busy as every other task.    *)
EditFlowBusy == Busy /\ Passes("plain") /\ Frame

EditFlowLists ==
  \/ ~Busy /\ Frame /\ Answer("plain")
  \/ ~Busy /\ post = "missing" /\ Crash

EditFlow ==
  /\ ~Busy /\ camera' = "web"
  /\ step' = "look" /\ fate' = "none" /\ shown' = {}
  /\ \/ Asked("copy") /\ Goes("nothing", "whole")
     \/ \E task \in {"step", "unknown"} : Asked(task) /\ wire' = "nothing" /\ lost' = FALSE
  /\ UNCHANGED <<flow, onCard>>

EditFlowLooks ==
  /\ step = "look" /\ camera' = "free" /\ Done("ok")
  /\ IF status \in {"TakeImage", "Aligning"} \/ page = "step"
       THEN Goes(wire, Whole(wire)) ELSE UNCHANGED <<wire, lost>>
  /\ UNCHANGED <<flow, onCard, page, shown>>

------------------------------------------------------------------------------
FlowTask ==
  \/ TaskStarts \/ DelayEnds \/ InitFlow \/ InitReads
  \/ RoundBegins \/ StageStarts \/ TakesCamera \/ StageDone \/ StageFails

Simple ==
  \/ InfoGet \/ StartTimeGet \/ StatusFlow \/ CpuTemp \/ Uptime \/ GetHeap \/ FlowStart \/ SysInfo
  \/ CycleTiming \/ ArchiveStatus \/ HistoryStatus \/ TestStatus \/ FrameTestStatus \/ OtaHealth
  \/ StreamIntensity \/ Rssi \/ CurrentDate \/ FrameTestStart
  \/ Capture \/ CaptureLit \/ CaptureSave

Readings ==
  \/ Json \/ OpenMetrics \/ ValueAll \/ Value
  \/ PageBegins \/ PageReading \/ PageTables \/ PagePicture \/ PageEnds

FromRounds ==
  \/ StaticPage \/ RawPicture \/ AlignedPicture \/ PictureWithDials \/ DialPicture \/ FromCard
  \/ DoInitAnswers \/ DoInit \/ DoInitEnds
  \/ EditFlowBusy \/ EditFlowLists \/ EditFlow \/ EditFlowLooks

Next ==
  \/ Restart
  \/ /\ step # "crashed"
     /\ FlowTask \/ FrameTestEnds \/ NextRequest \/ Simple \/ Readings \/ FromRounds

Spec == Init /\ [][Next]_vars

------------------------------------------------------------------------------
FlowTypes ==
  /\ status \in Stages \cup Early \cup Results
                  \cup {"NotCreated", "NoConfiguration"}
  /\ at \in Stages \cup {"start", "delay", "init", "reading", "idle", "begun", "taking", "taken",
                         "aligned", "read", "done"}
  /\ post \in {"missing", "empty", "ready"} /\ alg \in {"missing", "plain", "drawn"}
RequestTypes ==
  /\ camera \in {"free", "flow", "web"} /\ onCard \subseteq {"placeholders", "saved"}
  /\ step \in {"idle", "crashed", "reading", "tables", "picture", "end", "card", "initialises",
               "initialised", "look"}
  /\ wire \in {"nothing", "open", "whole", "more"} /\ fate \in {"none", "ok", "failed"}
  /\ shown \subseteq {"wait", "value", "dials", "state", "picture"}
Flags ==
  created \in BOOLEAN /\ panic \in BOOLEAN /\ safe \in BOOLEAN /\ testing \in BOOLEAN /\ lost \in BOOLEAN
TypeOK == rounds \in 0..Rounds /\ FlowTypes /\ RequestTypes /\ Flags

\* The connection stays open for the next request, and nothing was lost.
Answered == step = "idle" /\ fate = "ok" /\ ~lost

\* They complete their answer twice, or give none.
Doubled    == {"date", "doinit", "card", "copy"}
Unanswered == {"unknown"}

(* Any other request whose connection stays open has got one whole answer, *)
(* through whatever the flow task did meanwhile (img_tmp_virtual_handler,  *)
(* GetJPGStream, handler_wasserzaehler, handler_editflow).                 *)
RepliesWhole == Answered /\ page \notin Doubled \cup Unanswered => wire = "whole"

(* A page that is headed as showing values has the dials they were read    *)
(* from, although the second look comes later than the first: a round is   *)
(* counted before the status changes (handler_wasserzaehler).              *)
PageComplete == step \in {"picture", "end"} /\ "value" \in shown => "dials" \in shown

(* No request brings down a device whose configuration has numbers (getJSON,*)
(* getNumbers, getReadoutParam).                                            *)
ReadyStaysUp == step = "crashed" => post # "ready"

PagesTrue == RepliesWhole /\ PageComplete /\ ReadyStaysUp

------------------------------------------------------------------------------
(* The inductive invariant                                                 *)

\* Nothing has been answered before a request; what a handler has sent when it has come to a step.
AnswerSoFar ==
  /\ page = "none" => step = "idle" /\ wire = "nothing" /\ ~lost /\ fate = "none"
  /\ step \in {"reading", "tables", "picture", "end"} /\ ~lost => wire = "open"
  /\ step \in {"initialises", "initialised"} => page = "doinit"
  /\ step = "look" => page \in {"copy", "step", "unknown"}
  /\ step = "look" /\ page = "step" => wire = "nothing" /\ ~lost

\* A round is counted before it does anything, so that the status of a finished one is of the
\* count, or of the one before.
RoundsCounted ==
  /\ at \in {"start", "delay", "init", "reading"} => rounds = 0
  /\ at \notin {"start", "delay", "init", "reading", "idle"} => rounds > 0
  /\ status = "FlowFinished" => rounds > 0 /\ (rounds = 1 => at = "idle")

\* What was worth showing at the first look is so at the second.
ValuesStay == step \in {"reading", "tables"} /\ "value" \in shown => ~Waits

Inductive == TypeOK /\ PagesTrue /\ AnswerSoFar /\ RoundsCounted /\ ValuesStay
=============================================================================
