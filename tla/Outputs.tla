-------------------------------- MODULE Outputs --------------------------------
(***************************************************************************)
(* What a round tells the databases and the webhook.  The numbers are      *)
(* judged and saved by post processing; the stages after it send what they *)
(* find in NUMBERS: a point for each number and database, then one report  *)
(* of all numbers, and the aligned picture after it.  Nothing is sent a    *)
(* second time, and the answer of a server is not looked at.  A request    *)
(* may set a previous value meanwhile and saves all of them as a round     *)
(* does; nobody keeps the two apart.                                       *)
(*                                                                         *)
(* A reading is named by the time of its picture.                          *)
(***************************************************************************)
EXTENDS Naturals, Sequences, SequencesExt

CONSTANTS
  Names,     \* the numbers of the meter, in order
  Lines,     \* what the sections may say of fields: sequences of lines for a number
  Sections,  \* the keys that the section of each database has: [v1, v2 -> keys]
  UploadImg, \* when the picture is sent: 0 never, 1 always, 2 on an error
  MaxTime,   \* bound on time
  None

\* What the constants must be; assumed where they have values.
OutputsAssumption ==
  /\ Names \in Seq(STRING) /\ Names # <<>> /\ None \notin Nat /\ UploadImg \in 0..2 /\ MaxTime \in Nat
  /\ \A lines \in Lines : \A i \in DOMAIN lines : lines[i].value # None

VARIABLES
  clock,    \* the time, counted by the events that read it
  at,       \* what the round does next
  picture,  \* when the picture of the round was taken
  aligned,  \* AlgROI: the picture encoded for sending, 0 for none
  value,    \* ReturnValue of a number: the time of its reading, or None
  error,    \* a number has an error text
  flag,     \* NumberPost::ErrorMessage, which nothing assigns, happens to be set in a number
  since,    \* timeStampLastPreValue
  utc,      \* timeStampTimeUTC
  dirty,    \* UpdatePreValueINI
  lines,    \* the lines on fields
  last,     \* _lastTimestamp of the webhook
  points,   \* what the databases have been sent
  report,   \* the last report, and the picture sent after it
  setter,   \* a request that sets a previous value: "none", to "save" it, or to "close" the file
  unsaved   \* history: the readings of the round were not saved, for the file did not open, or a
            \* request that had saved before it cleared UpdatePreValueINI after it

numbers == <<value, error, since, utc, dirty>>
fixed   == <<flag, lines>>
vars    == <<clock, at, picture, aligned, numbers, fixed, last, points, report, setter, unsaved>>

Numbers   == DOMAIN Names
Stages    == {"idle", "align", "judge", "save", "close", "v1", "v2", "webhook", "upload"}
After     == [v1 |-> "v2", v2 |-> "webhook"]

------------------------------------------------------------------------------
(* the sections of config.ini *)

EnabledV1 == {"uri", "database"} \subseteq Sections.v1
EnabledV2 == {"uri", "bucket", "token", "org"} \subseteq Sections.v2
Enabled   == [v1 |-> EnabledV1, v2 |-> EnabledV2]

\* A line without a number is for "default", and a line for "default" is for all.
FieldAfter(field, line) ==
  [n \in Numbers |-> IF line.number \in {"default", Names[n]} THEN line.value ELSE field[n]]

Field == FoldLeft(FieldAfter, [n \in Numbers |-> None], lines)

\* The name of a number's points.
Series(n) == IF Field[n] # None THEN Field[n] ELSE Names[n]

------------------------------------------------------------------------------
Init ==
  /\ clock = 0 /\ at = "idle" /\ picture = 0 /\ aligned = 0
  /\ value = [n \in Numbers |-> None] /\ error = [n \in Numbers |-> FALSE]
  /\ flag \in BOOLEAN
  /\ since = [n \in Numbers |-> 0] /\ utc = since /\ dirty = FALSE
  /\ lines \in Lines
  /\ last = 0 /\ points = {} /\ report = None /\ setter = "none" /\ unsaved = FALSE

Passes == clock < MaxTime /\ clock' = clock + 1

TakePicture ==
  /\ at = "idle" /\ Passes
  /\ picture' = clock' /\ at' = "align"
  /\ UNCHANGED <<aligned, numbers, fixed, last, points, report, setter, unsaved>>

\* The length is cleared first; encoding may fail.
Align ==
  /\ at = "align"
  /\ aligned' \in {0, picture} /\ at' = "judge"
  /\ UNCHANGED <<clock, picture, numbers, fixed, last, points, report, setter, unsaved>>

\* A stage that fails ends the round: alignment, recognition, or MQTT before the databases.
StageFails ==
  /\ at \in {"align", "judge", "v1"}
  /\ at' = "idle" /\ aligned' = (IF at = "align" THEN 0 ELSE aligned)
  /\ UNCHANGED <<clock, picture, numbers, fixed, last, points, report, setter, unsaved>>

\* A number is read, rejected with an error text, or has a digit that was not recognised.
Judge ==
  /\ at = "judge" /\ at' = "save"
  /\ \E verdict \in [Numbers -> {"read", "rejected", "unknown"}] :
       /\ value' = [n \in Numbers |-> IF verdict[n] = "read" THEN picture ELSE None]
       /\ error' = [n \in Numbers |-> verdict[n] = "rejected"]
       /\ since' = [n \in Numbers |-> IF verdict[n] = "read" THEN picture ELSE since[n]]
       /\ dirty' = (dirty \/ \E n \in Numbers : verdict[n] = "read")
  /\ unsaved' = FALSE
  /\ UNCHANGED <<clock, picture, aligned, utc, fixed, last, points, report, setter>>

\* Mutant: a time is set only where there is none.
StampsOnce == [n \in Numbers |-> IF utc[n] = 0 THEN since[n] ELSE utc[n]]

\* What a line of the file says, and the number's own time with it.
Stamps == since

\* There is nothing to save, the file does not open, or all lines are written.
SavePreValue(outcome) ==
  /\ outcome \in {"nothing", "failed", "written"}
  /\ outcome = "nothing" <=> ~dirty
  /\ utc' = (IF outcome = "written" THEN Stamps ELSE utc)

\* The file is closed, with or without a failure; whose change it was does not matter.
ClosePreValue == dirty' = FALSE \/ UNCHANGED dirty

Save ==
  /\ at = "save"
  /\ \E outcome \in {"nothing", "failed", "written"} :
       /\ SavePreValue(outcome)
       /\ at' = (IF outcome = "written" THEN "close" ELSE "v1")
       /\ unsaved' = (unsaved \/ outcome = "failed")
  /\ UNCHANGED <<clock, picture, aligned, value, error, since, dirty, fixed, last, points, report, setter>>

Close ==
  /\ at = "close" /\ at' = "v1"
  /\ ClosePreValue
  /\ UNCHANGED <<clock, picture, aligned, value, error, since, utc, fixed, last, points, report, setter,
                 unsaved>>

\* A request sets the previous value of a number, at any time, and saves all numbers.
SetPreValue(n) ==
  /\ setter = "none" /\ Passes
  /\ since' = [since EXCEPT ![n] = clock'] /\ dirty' = TRUE /\ setter' = "save"
  /\ UNCHANGED <<at, picture, aligned, value, error, utc, fixed, last, points, report, unsaved>>

RequestSaves ==
  /\ setter = "save"
  /\ \E outcome \in {"nothing", "failed", "written"} :
       /\ SavePreValue(outcome)
       /\ setter' = (IF outcome = "written" THEN "close" ELSE "none")
  /\ UNCHANGED <<clock, at, picture, aligned, value, error, since, dirty, fixed, last, points, report, unsaved>>

RequestCloses ==
  /\ setter = "close" /\ setter' = "none"
  /\ ClosePreValue
  /\ unsaved' = (unsaved \/ (at = "save" /\ dirty' # dirty))
  /\ UNCHANGED <<clock, at, picture, aligned, value, error, since, utc, fixed, last, points, report>>

------------------------------------------------------------------------------
(* ClassFlowInfluxDB::doFlow, ClassFlowInfluxDBv2::doFlow *)

\* A number without a result is passed over.  A point replaces that of its series and time, if it
\* arrives; without a time it gets that of the server.
Sent(database) ==
  {[database |-> database, series |-> Series(n), time |-> IF utc[n] > 0 THEN utc[n] ELSE clock,
    number |-> n, value |-> value[n], kept |-> ~unsaved] : n \in {m \in Numbers : value[m] # None}}

InfluxDBPublish(database) ==
  /\ at = database /\ at' = After[database]
  /\ points' = (IF Enabled[database] THEN points \union Sent(database) ELSE points)
  /\ UNCHANGED <<clock, picture, aligned, numbers, fixed, last, report, setter, unsaved>>

InfluxDBFlow   == InfluxDBPublish("v1")
InfluxDBv2Flow == InfluxDBPublish("v2")

------------------------------------------------------------------------------
(* ClassFlowWebhook::doFlow *)

\* All numbers in one report, whatever the other servers did, and with or without an address.
WebhookPublish ==
  /\ at = "webhook" /\ at' = "upload"
  /\ last' = since[Len(Names)]
  /\ report' = [values |-> value, error |-> \E n \in Numbers : error[n], taken |-> picture,
                sent |-> FALSE, picture |-> 0, stamp |-> 0]
  /\ UNCHANGED <<clock, picture, aligned, numbers, fixed, points, setter, unsaved>>

\* The picture goes with the time of the last number's previous value.
Uploads == UploadImg = 1 \/ (UploadImg = 2 /\ flag)

WebhookUploadPic ==
  /\ at = "upload" /\ at' = "idle"
  /\ report' = (IF Uploads THEN [report EXCEPT !.sent = TRUE, !.picture = aligned, !.stamp = last] ELSE report)
  /\ UNCHANGED <<clock, picture, aligned, numbers, fixed, last, points, setter, unsaved>>

Next ==
  \/ TakePicture \/ Align \/ StageFails \/ Judge \/ Save \/ Close \/ InfluxDBFlow \/ InfluxDBv2Flow
  \/ WebhookPublish \/ WebhookUploadPic
  \/ \E n \in Numbers : SetPreValue(n)
  \/ RequestSaves \/ RequestCloses

Spec == Init /\ [][Next]_vars
------------------------------------------------------------------------------
Times ==
  /\ clock \in 0..MaxTime /\ picture \in 0..clock /\ aligned \in 0..clock /\ last \in 0..clock
  /\ since \in [Numbers -> 0..clock] /\ utc \in [Numbers -> 0..clock]
Values == value \in [Numbers -> (1..clock) \union {None}] /\ error \in [Numbers -> BOOLEAN]
Flags ==
  /\ at \in Stages /\ setter \in {"none", "save", "close"} /\ dirty \in BOOLEAN /\ unsaved \in BOOLEAN
TypeOK == Flags /\ Times /\ Values

(* A point is stored under a time of its own: not before its picture was   *)
(* taken, and no later reading of its number takes its place, though a     *)
(* request may set and save the previous value at any moment.  Only when   *)
(* the file does not open, or a request that had saved before the round    *)
(* judged closes its file before the round saves, the time is that of an   *)
(* earlier reading.  A report has readings of its round only, and the      *)
(* picture after it is of that round or empty (SetPreValue, SavePreValue,  *)
(* InfluxDBPublish, WebhookPublish, WebhookUploadPic).                     *)
OutputsTrue ==
  /\ \A p \in points : p.kept =>
       /\ p.time >= p.value
       /\ \A q \in points : q.kept /\ q.database = p.database /\ q.number = p.number /\ q.time = p.time
                               => q.value = p.value
  /\ report # None => /\ \A n \in Numbers : report.values[n] \in {None, report.taken}
                      /\ report.picture \in {0, report.taken}

------------------------------------------------------------------------------
(* The inductive invariant                                                 *)

Reports == [values : [Numbers -> Nat \union {None}], error : BOOLEAN, taken : Nat,
            sent : BOOLEAN, picture : Nat, stamp : Nat]

\* What the round knows is of its picture, and since then nothing older was set.
RoundSound ==
  /\ at # "idle" => picture > 0
  /\ at \notin {"idle", "align"} => aligned \in {0, picture}
  /\ at \notin {"idle", "align", "judge"} =>
       \A n \in Numbers : value[n] # None => value[n] = picture /\ picture <= since[n]
  /\ report \in Reports \union {None}
  /\ at = "upload" => /\ report \in Reports /\ report.taken = picture
                      /\ \A n \in Numbers : report.values[n] \in {None, picture}

\* A round that has read a number saves, and what it sends is then no older than its picture.
TimesSaved ==
  /\ at = "save" /\ ~unsaved => dirty \/ \A n \in Numbers : value[n] = None
  /\ at \in {"close", "v1", "v2", "webhook", "upload"} /\ ~unsaved =>
       \A n \in Numbers : value[n] # None => picture <= utc[n]

\* What was sent before this picture has an earlier time.
PointsPast ==
  \A p \in points : /\ p.value \in 1..picture /\ p.time \in 0..clock
                    /\ p.value # picture => p.time < picture

Inductive == TypeOK /\ OutputsTrue /\ RoundSound /\ TimesSaved /\ PointsPast
=============================================================================
