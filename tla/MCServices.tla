------------------------------ MODULE MCServices ------------------------------
(***************************************************************************)
(* The configuration, what a round reads and reports, and the services     *)
(* around it, checked side by side: `subject` is chosen at the start and   *)
(* says which of them the behaviour is one of; a variable that the subject *)
(* lacks is None.                                                          *)
(***************************************************************************)
EXTENDS Integers, Sequences, FiniteSets

CONSTANTS
  Packages,                                               \* LegacyUpdate
  Passwords, Codes, Jobs,                                 \* Access
  a1, a2, Signal, Addresses, Pending, Tries,              \* Wlan
  ConfigFiles, Supported, Inits, Memory,                  \* Configuration
  Today, Halves, Winter, Retention, MaxFiles, Runs, LogLines,   \* Logs
  CardFiles, Versions, Chunks, Gone, Part,                \* FileServer
  Names, Lines, Sections, UploadImg, MaxTime,             \* Outputs
  Places, Window, Count, Fits, Setups, Networks, Unset,   \* Recognition
  Rounds,                                                 \* WebPages
  None

VARIABLES
  subject, at, network, line, since, wrong, main, last, clock, lines,
  package, marker, html, tmp, aside, image, flash, boot, running, todo, copying, asked, unkept,
  stored, state, active, cached, code, delayed, recovery, drawn, work, discarded, queue, told,
  link, events, handler, wlan, roam, attempts, led, lamp, off,
  file, flows, own, reading, first, inits,
  shift, zone, runs, unset, kind, files, filled, early, logging, task, handle, open, refused,
  overlapped,
  card, update, journal, request, selection, bundled, cut, answer,
  picture, aligned, value, error, flag, utc, dirty, points, report, setter, unsaved,
  setup, type, disabled, template, fast, found, saved, place, stage, dial, piece, result, okay,
  doubt,
  status, rounds, created, panic, safe, post, alg, camera, onCard, testing, page, step, wire, lost,
  fate, shown

Legacy  == INSTANCE LegacyUpdate
Login   == INSTANCE Access
Network == INSTANCE Wlan
Config  == INSTANCE Configuration WITH Files <- ConfigFiles
Log     == INSTANCE Logs WITH Lines <- LogLines
File    == INSTANCE FileServer WITH Files <- CardFiles
Output  == INSTANCE Outputs
Reading == INSTANCE Recognition
Page    == INSTANCE WebPages

ASSUME ServicesAssumption ==
  /\ Legacy!LegacyAssumption /\ Login!AccessAssumption /\ Network!WlanAssumption
  /\ Config!ConfigurationAssumption /\ Log!LogsAssumption /\ File!FilesAssumption /\ Output!OutputsAssumption
  /\ Reading!RecognitionAssumption /\ Page!WebPagesAssumption

Zip(parts, firmware) == [kind |-> "zip", parts |-> parts, firmware |-> firmware]
MCPackages == {Zip({"a", "b", "firmware"}, "sound"), Zip({"firmware"}, "damaged"),
               [kind |-> "bin", parts |-> {}, firmware |-> "damaged"]}

MCSignal == [a \in {a1, a2} |-> IF a = a1 THEN 1 ELSE 10]

\* A file is put together of a beginning, readers, post processing and a tail.
On(s)  == [is |-> "header", section |-> s, on |-> TRUE, exact |-> TRUE]
Off(s) == [is |-> "header", section |-> s, on |-> FALSE, exact |-> TRUE]
Misspelt(s) == [is |-> "header", section |-> s, on |-> TRUE, exact |-> FALSE]
Dial(n) == [is |-> "dial", number |-> n]
Comment == [is |-> "comment"]
Set(key, n, v) == [is |-> "setting", key |-> key, number |-> n, value |-> v]
Beginning == <<On("TakeImage"), Set("SaveAllFiles", None, 1)>>
Digits == {<<On("Digits"), Dial("b")>>, <<Off("Digits"), Dial("b"), Comment>>}
Analog == {<<On("Analog"), Dial("a"), Set("Reader", None, r), Dial("b"), Set("SaveAllFiles", None, 1)>> :
             r \in {"PolarV1", "other"}}
Posts == {<<On("PostProcessing"), Set("DecimalShift", n, 1), Comment, Set("DecimalShift", m, 2)>> :
            n \in {"a", "default"}, m \in {"b", "default"}}
           \union {<<Misspelt("PostProcessing"), Set("DecimalShift", "default", 1)>>}
Tails == {<<On("MQTT"), Set("DomoticzIDX", "default", 1), Comment, Set("DomoticzIDX", "b", 2)>>,
          <<Off("MQTT"), Set("DecimalShift", "default", 2)>>,
          <<On("System"), Set("SaveAllFiles", None, 2), Dial("a")>>}
MCConfigFiles == {Beginning \o d \o a \o p \o t : d \in Digits, a \in Analog, p \in Posts, t \in Tails}
                   \union {Beginning \o t \o a \o p : t \in Tails, a \in Analog, p \in Posts}
MCSupported   == {"TakeImage", "Analog", "Digits", "PostProcessing", "MQTT", "System", "AutoTimer",
                  "Debug", "DataLogging"}

InDir(d, n, packed) == [dir |-> d, name |-> n, packed |-> packed]
MCCardFiles == {InDir("config", "wlan", FALSE), InDir("config", "config", FALSE),
                InDir("html", "page", FALSE), InDir("bundles", "page", TRUE)}

FieldLine(n, v) == [number |-> n, value |-> v]
MCNames    == <<"main", "gas">>
MCLines    == {<<FieldLine("default", "x"), FieldLine("gas", "y")>>}
MCSections == [v1 |-> {"uri", "database"}, v2 |-> {"uri", "bucket", "token"}]

MCPlaces == <<{"at", "off"}, {"b"}>>
MCWindow == <<{"at"}, {"b"}>>
MCSetups == {[reader |-> "tflite", algo |-> "fast"], [reader |-> "polar", algo |-> "off"],
             [reader |-> "unsupported", algo |-> "default"]}

Subjects == {"legacy", "access", "wlan", "configuration", "logs", "files", "outputs", "recognition",
             "pages"}

\* The variables of one module alone.
legacyVars == <<package, marker, html, tmp, aside, image, flash, boot, running, todo, copying,
                asked, unkept>>
accessVars == <<stored, state, active, cached, code, delayed, recovery, drawn, work, discarded,
                queue, told>>
wlanVars == <<link, events, handler, wlan, roam, attempts, led, lamp, off>>
configurationVars == <<file, flows, own, reading, first, inits>>
logsVars == <<shift, zone, runs, unset, kind, files, filled, early, logging, task, handle, open,
             refused, overlapped>>
filesVars == <<card, update, journal, request, selection, bundled, cut, answer>>
outputsVars == <<picture, aligned, value, error, flag, utc, dirty, points, report, setter, unsaved>>
recognitionVars == <<setup, type, disabled, template, fast, found, saved, place, stage, dial, piece,
                     result, okay, doubt>>
pagesVars == <<status, rounds, created, panic, safe, post, alg, camera, onCard, testing, page, step,
               wire, lost, fate, shown>>
vars == <<subject, at, network, line, since, wrong, main, last, clock, lines, legacyVars,
          accessVars, wlanVars, configurationVars, logsVars, filesVars, outputsVars, recognitionVars,
          pagesVars>>

NoLegacy ==
  /\ package = None /\ marker = None /\ html = None /\ tmp = None /\ aside = None /\ image = None
  /\ flash = None /\ boot = None /\ running = None /\ todo = None /\ copying = None
  /\ asked = None /\ unkept = None
NoLogin ==
  /\ stored = None /\ state = None /\ active = None /\ cached = None /\ code = None
  /\ delayed = None /\ recovery = None /\ drawn = None /\ work = None /\ discarded = None
  /\ queue = None /\ told = None
NoNetwork ==
  /\ link = None /\ events = None /\ handler = None /\ wlan = None /\ roam = None /\ attempts = None
  /\ led = None /\ lamp = None /\ off = None
NoConfig ==
  /\ file = None /\ flows = None /\ own = None /\ reading = None /\ first = None /\ inits = None
NoLog ==
  /\ shift = None /\ zone = None /\ runs = None /\ unset = None /\ kind = None /\ files = None
  /\ filled = None /\ early = None /\ logging = None /\ task = None /\ handle = None /\ open = None
  /\ refused = None /\ overlapped = None
NoFile ==
  /\ card = None /\ update = None /\ journal = None /\ request = None /\ selection = None
  /\ bundled = None /\ cut = None /\ answer = None
NoOutput ==
  /\ picture = None /\ aligned = None /\ value = None /\ error = None /\ flag = None /\ utc = None
  /\ dirty = None /\ points = None /\ report = None /\ setter = None /\ unsaved = None
NoReading ==
  /\ setup = None /\ type = None /\ disabled = None /\ template = None /\ fast = None
  /\ found = None /\ saved = None /\ place = None /\ stage = None /\ dial = None /\ piece = None
  /\ result = None /\ okay = None /\ doubt = None
NoPage ==
  /\ status = None /\ rounds = None /\ created = None /\ panic = None /\ safe = None /\ post = None
  /\ alg = None /\ camera = None /\ onCard = None /\ testing = None /\ page = None /\ step = None
  /\ wire = None /\ lost = None /\ fate = None /\ shown = None

Init ==
  /\ subject \in Subjects
  /\ IF subject = "legacy" THEN Legacy!Init ELSE NoLegacy
  /\ IF subject = "access" THEN Login!Init ELSE NoLogin
  /\ IF subject = "wlan" THEN Network!Init ELSE NoNetwork
  /\ IF subject = "configuration" THEN Config!Init ELSE NoConfig
  /\ IF subject = "logs" THEN Log!Init ELSE NoLog
  /\ IF subject = "files" THEN File!Init ELSE NoFile
  /\ IF subject = "outputs" THEN Output!Init ELSE NoOutput
  /\ IF subject = "recognition" THEN Reading!Init ELSE NoReading
  /\ IF subject = "pages" THEN Page!Init ELSE NoPage
  /\ subject \notin {"legacy", "configuration", "outputs", "pages"} => at = None
  /\ subject \notin {"legacy", "recognition"} => network = None
  /\ subject \notin {"access", "configuration"} => line = None
  /\ subject \notin {"access", "outputs"} => since = None
  /\ subject \notin {"access", "logs"} => wrong = None
  /\ subject \notin {"wlan", "logs"} => main = None
  /\ subject \notin {"logs", "outputs"} => last = None
  /\ subject \notin {"logs", "outputs"} => clock = None
  /\ subject \notin {"logs", "outputs"} => lines = None

Next ==
  /\ UNCHANGED subject
  /\ \/ /\ subject = "legacy" /\ Legacy!Next
        /\ UNCHANGED <<line, since, wrong, main, last, clock, lines, accessVars, wlanVars,
                       configurationVars, logsVars, filesVars, outputsVars, recognitionVars, pagesVars>>
     \/ /\ subject = "access" /\ Login!Next
        /\ UNCHANGED <<at, network, main, last, clock, lines, legacyVars, wlanVars,
                       configurationVars, logsVars, filesVars, outputsVars, recognitionVars, pagesVars>>
     \/ /\ subject = "wlan" /\ Network!Next
        /\ UNCHANGED <<at, network, line, since, wrong, last, clock, lines, legacyVars, accessVars,
                       configurationVars, logsVars, filesVars, outputsVars, recognitionVars, pagesVars>>
     \/ /\ subject = "configuration" /\ Config!Next
        /\ UNCHANGED <<network, since, wrong, main, last, clock, lines, legacyVars, accessVars,
                       wlanVars, logsVars, filesVars, outputsVars, recognitionVars, pagesVars>>
     \/ /\ subject = "logs" /\ Log!Next
        /\ UNCHANGED <<at, network, line, since, legacyVars, accessVars, wlanVars,
                       configurationVars, filesVars, outputsVars, recognitionVars, pagesVars>>
     \/ /\ subject = "files" /\ File!Next
        /\ UNCHANGED <<at, network, line, since, wrong, main, last, clock, lines, legacyVars,
                       accessVars, wlanVars, configurationVars, logsVars, outputsVars,
                       recognitionVars, pagesVars>>
     \/ /\ subject = "outputs" /\ Output!Next
        /\ UNCHANGED <<network, line, wrong, main, legacyVars, accessVars, wlanVars,
                       configurationVars, logsVars, filesVars, recognitionVars, pagesVars>>
     \/ /\ subject = "recognition" /\ Reading!Next
        /\ UNCHANGED <<at, line, since, wrong, main, last, clock, lines, legacyVars, accessVars,
                       wlanVars, configurationVars, logsVars, filesVars, outputsVars, pagesVars>>
     \/ /\ subject = "pages" /\ Page!Next
        /\ UNCHANGED <<network, line, since, wrong, main, last, clock, lines, legacyVars, accessVars,
                       wlanVars, configurationVars, logsVars, filesVars, outputsVars,
                       recognitionVars>>

------------------------------------------------------------------------------
Spec == Init /\ [][Next]_vars

(* A package is tried once for each request, unless the card keeps         *)
(* update.txt; an application that boots has been validated, and the       *)
(* interface and an uploaded network are whole, wherever the power goes    *)
(* but between two renames (CheckUpdate, ota_update_task, unzip_new,       *)
(* handler_ota_update).                                                    *)
LegacyKept ==
  subject = "legacy" => Legacy!TypeOK /\ Legacy!TriedOnce /\ Legacy!BootsSound /\ Legacy!InterfaceKept

(* What was reported of the password is so after any restart, no failure   *)
(* leads back to asking for a first one, and nobody is let in with another *)
(* than the stored one (Credential::save, WebsiteAccess, SerialParser).    *)
AccessTrue == subject = "access" => Login!TypeOK /\ Login!AccessTrue

(* The device believes to be connected exactly when it is, and otherwise   *)
(* an attempt is under way, whatever the network did (event_handler,       *)
(* wifiRoamByScanning, task_StatusLED).                                    *)
WlanTrue == subject = "wlan" => Network!TypeOK /\ Network!WlanTrue

(* Every stage of a round has what its own section says, for every number  *)
(* what was said last (InitFlow, ReadParameter of the stages).             *)
ConfigurationTrue == subject = "configuration" => Config!TypeOK /\ Config!ConfigurationTrue

(* No log of the last days is removed; and as long as no two tasks use the *)
(* log at the same time, each line that the card takes is in the file of   *)
(* its day, no file stays open, and only a log of which the card refused   *)
(* lines makes a request hang (WriteToFile, send_logfile,                  *)
(* RemoveOldLogFile).                                                      *)
LogsTrue == subject = "logs" => Log!TypeOK /\ Log!LogsTrue

CardStep == subject = "files" => File!CardStep

(* What the file manager says of the card is so, and no request changes a  *)
(* file while a journal or another task owns the card, or one of a bundle  *)
(* (upload_post_handler, delete_post_handler, send_file).                  *)
FilesTrue == [](subject = "files" => File!TypeOK /\ File!AnswersTrue) /\ [][CardStep]_vars

(* A reading is stored under a time of its own, and a report has readings  *)
(* and the picture of its round only (SavePreValue, InfluxDBPublish,       *)
(* WebhookPublish, WebhookUploadPic).                                      *)
OutputsTrue == subject = "outputs" => Output!TypeOK /\ Output!OutputsTrue

(* Every dial shows what was read from its own piece of the round's own    *)
(* picture, cut where the marks are (Align, doAlignAndCut,                 *)
(* doNeuralNetwork, doPolarNetwork).                                       *)
RecognitionTrue == subject = "recognition" => Reading!TypeOK /\ Reading!RecognitionTrue

(* A connection that stays open has got one whole answer, a page of values *)
(* has its dials, and a request brings no configured device down, whatever *)
(* round runs meanwhile (handler_wasserzaehler, GetJPGStream, handler_json,*)
(* handler_editflow).                                                      *)
PagesTrue == subject = "pages" => Page!TypeOK /\ Page!PagesTrue
=============================================================================
