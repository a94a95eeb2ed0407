---------------------------------- MODULE Logs ----------------------------------
(***************************************************************************)
(* The daily files of the device - its log, the readings or the pictures   *)
(* of the rounds - and the clock that names them.  A start                 *)
(* without a clock writes into the files of 1970 until the time server     *)
(* answers.  Every line of the log is written by opening, putting and      *)
(* closing, through one handle that the tasks share without a lock, and    *)
(* nobody looks whether a card that is full or fails has taken it; after a *)
(* round the files that are too old are removed.                           *)
(*                                                                         *)
(* Time is counted in halves of a day, day 0 is 1970-01-01.                *)
(***************************************************************************)
EXTENDS Integers, FiniteSets, Functions

CONSTANTS
  Today,     \* the day on which the model begins
  Halves,    \* bound on the half days that pass
  Winter,    \* the first day of winter time
  Retention, \* how many days are kept, 0 for all of them
  MaxFiles,  \* how many files can be open at a time
  Runs,      \* bound on the starts
  Lines,     \* bound on the uses of the log
  None

\* What the constants must be; assumed where they have values.
LogsAssumption ==
  /\ Today \in Nat /\ Halves \in Nat /\ Winter \in Nat /\ Retention \in Nat
  /\ Today > Retention + Halves + 1 /\ MaxFiles \in Nat \ {0} /\ Runs \in Nat /\ Lines \in Nat
  /\ None \notin 1..MaxFiles

VARIABLES
  last,       \* the time the clock had when it was last set
  clock,      \* the time the device takes it for
  shift,      \* the time zone in force: 0 until setTimeZone, then -1 west or 1 east of UTC
  zone,       \* config.ini: the time zone, or 0 without a time server
  main,       \* "starts" before setupTime, "up" or "crashed"
  runs,       \* the starts so far
  lines,      \* how often the log was written to or sent
  unset,      \* timeWasNotSetAtBoot
  kind,       \* which of the files: "log", "data" for readings, or "images"
  files,      \* the days that have one
  filled,     \* those of them that have a line in it
  early,      \* history: the file of 1970-01-01 has a line that this run wrote before its time was set
  logging,    \* doDataLogToSD, isLogImage
  task,       \* what the flow task and the web server are at
  handle,     \* logFileAppendHandle: an open file or None
  open,       \* the open files of the log: the day of each, and whether a line is in its buffer
  refused,    \* history: the days of which the card did not take a line, or not give it back
  overlapped, \* history: two tasks were busy with a file of the log, or power was lost in the middle
  wrong       \* history: what should not happen

time   == <<last, clock, shift, zone, unset>>
daily  == <<files, filled, early, refused>>
kept   == <<kind, logging>>
shared == <<handle, open>>
vars   == <<time, main, runs, lines, daily, kept, task, shared, overlapped, wrong>>

Tasks == {"flow", "web"}
Idle  == [at |-> "idle", day |-> None, view |-> FALSE]

\* strftime of localtime; and getTimeIsSet.
Local       == clock + shift
Day(half)   == half \div 2
IsSet       == Day(clock) >= Today - 1
Begins      == 2 * Today + 1
Ends        == Begins + Halves

\* Mutant: the day is counted from the one after.
ComparedOlder == {Day(Local) - Retention + 2}

\* addDays: a day that is Retention - 1 days back.  From winter back into summer an hour is
\* gained, which the last hour of a day spends on the next day.
Compared ==
  LET day == Day(Local) - Retention + 1
  IN {day} \union (IF Local % 2 = 1 /\ Day(Local) >= Winter /\ day < Winter THEN {day + 1} ELSE {})

Init ==
  /\ last = Begins /\ clock \in {0, Begins} /\ shift = 0 /\ zone \in {-1, 0, 1}
  /\ main = "starts" /\ runs = 0 /\ lines = 0 /\ unset = FALSE
  /\ kind \in {"log", "data", "images"} /\ logging = TRUE
  /\ files = {} /\ filled = {} /\ early = FALSE /\ refused = {}
  /\ task = [t \in Tasks |-> Idle] /\ handle = None /\ open = <<>>
  /\ overlapped = FALSE /\ wrong = {}

------------------------------------------------------------------------------
(* The clock                                                               *)

HalfDayPasses ==
  /\ clock' = clock + 1
  /\ IF IsSet THEN clock' <= Ends /\ last' = clock' ELSE clock' <= Halves /\ UNCHANGED last
  /\ UNCHANGED <<shift, zone, unset, main, runs, lines, daily, kept, task, shared, overlapped, wrong>>

\* setupTime: without a time server the time zone is not set either.
SetupTime ==
  /\ main = "starts" /\ main' = "up"
  /\ shift' = zone /\ unset' = (zone # 0 /\ ~IsSet)
  /\ UNCHANGED <<last, clock, zone, runs, lines, daily, kept, task, shared, overlapped, wrong>>

\* The time server answers; whether it does is only of interest to a clock that is not set.
TimeSync ==
  /\ main = "up" /\ zone # 0 /\ ~IsSet
  /\ clock' \in last..Ends /\ last' = clock'
  /\ UNCHANGED <<shift, zone, unset, main, runs, lines, daily, kept, task, shared, overlapped, wrong>>

\* A restart keeps the clock, power that is lost does not; an open file loses its buffer.
\* After an overlap no start is looked at: a bound.
Starts ==
  /\ runs < Runs /\ runs' = runs + 1 /\ ~overlapped
  /\ clock' \in {clock, 0} /\ shift' = 0 /\ unset' = FALSE /\ main' = "starts"
  /\ early' = FALSE /\ logging' = TRUE
  /\ task' = [t \in Tasks |-> Idle] /\ handle' = None /\ open' = <<>>
  /\ overlapped' = (open # <<>>)
  /\ UNCHANGED <<last, zone, lines, files, filled, refused, kind, wrong>>

------------------------------------------------------------------------------
(* ClassLogFile::WriteToFile, in any task                                  *)

AtStep(t, at) == main # "crashed" /\ task[t].at = at
Goes(t, at)   == task' = [task EXCEPT ![t].at = at]
Overlap(t)    == overlapped' = (overlapped \/ \E u \in Tasks \ {t} : task[u].at \notin {"idle", "clean"})
Closed(t)     == task' = [task EXCEPT ![t] = IF @.view THEN [@ EXCEPT !.at = "read"] ELSE Idle]
LogUnchanged  == UNCHANGED <<time, runs, kept>>
Uses          == lines < Lines /\ lines' = lines + 1

\* The name of the file: a line before setupTime comes from app_main.
WriteToFile(t) ==
  /\ kind = "log" /\ AtStep(t, "idle") /\ (main = "starts" => t = "flow")
  /\ task' = [task EXCEPT ![t] = [at |-> "open", day |-> Day(Local), view |-> FALSE]]
  /\ Overlap(t) /\ Uses /\ LogUnchanged /\ UNCHANGED <<main, daily, shared, wrong>>

\* fopen, which the card may refuse, with or without an empty file.
Opens(t) ==
  /\ AtStep(t, "open")
  /\ LET free == 1..MaxFiles \ DOMAIN open
         new  == CHOOSE f \in free : \A g \in free : f <= g
         day  == task[t].day
     IN \/ /\ free # {} /\ handle' = new /\ Goes(t, "put")
           /\ open' = [f \in DOMAIN open \union {new} |->
                         IF f = new THEN [day |-> day, line |-> FALSE] ELSE open[f]]
           /\ files' = files \union {day} /\ UNCHANGED <<refused, wrong>>
        \/ /\ handle' = None /\ task' = [task EXCEPT ![t] = Idle] /\ UNCHANGED open
           /\ \/ free = {} /\ wrong' = wrong \union {"lost"} /\ UNCHANGED <<files, refused>>
              \/ /\ files' \in {files, files \union {day}} /\ refused' = refused \union {day}
                 /\ UNCHANGED wrong
  /\ LogUnchanged /\ UNCHANGED <<lines, main, filled, early, overlapped>>

\* fputs, with whichever file the handle is now: none, or one that another task has closed.
Puts(t) ==
  /\ AtStep(t, "put")
  /\ IF handle \in DOMAIN open
     THEN /\ \/ open' = [open EXCEPT ![handle].line = TRUE] /\ UNCHANGED refused
             \/ refused' = refused \union {open[handle].day} /\ UNCHANGED open
          /\ Goes(t, "check") /\ UNCHANGED main
          /\ wrong' = wrong \union (IF open[handle].day = task[t].day THEN {} ELSE {"misplaced"})
     ELSE /\ wrong' = wrong \union {"lost"} /\ UNCHANGED <<open, refused>>
          /\ \/ main' = "crashed" /\ UNCHANGED task
             \/ handle # None /\ Goes(t, "check") /\ UNCHANGED main
  /\ LogUnchanged /\ UNCHANGED <<lines, files, filled, early, handle, overlapped>>

\* CloseLogFileAppendHandle: a look at the handle,
Checks(t) ==
  /\ AtStep(t, "check")
  /\ IF handle = None THEN Closed(t) ELSE Goes(t, "close")
  /\ LogUnchanged /\ UNCHANGED <<lines, main, daily, shared, overlapped, wrong>>

\* the file is closed, which writes the buffer, if the card takes it; closing one twice may do
\* anything,
Closes(t) ==
  /\ AtStep(t, "close")
  /\ IF handle \in DOMAIN open
     THEN LET day == open[handle].day
              put == IF open[handle].line THEN {day} ELSE {}
          IN /\ \/ /\ filled' = filled \union (put \intersect files)
                   /\ early' = (early \/ (~IsSet /\ 0 \in put)) /\ UNCHANGED refused
                \/ refused' = refused \union {day} /\ UNCHANGED <<filled, early>>
             /\ open' = Restrict(open, DOMAIN open \ {handle})
             /\ Goes(t, "clear") /\ UNCHANGED main
     ELSE /\ UNCHANGED <<filled, early, refused, open>>
          /\ \/ handle # None /\ main' = "crashed" /\ UNCHANGED task
             \/ Goes(t, "clear") /\ UNCHANGED main
  /\ LogUnchanged /\ UNCHANGED <<lines, files, handle, overlapped, wrong>>

\* and the handle is cleared, whichever it is now.
Clears(t) ==
  /\ AtStep(t, "clear") /\ handle' = None /\ Closed(t)
  /\ LogUnchanged /\ UNCHANGED <<lines, main, daily, open, overlapped, wrong>>

------------------------------------------------------------------------------
(* send_logfile: the log of today, closed by whoever has it open           *)

SendLogfile ==
  /\ kind = "log" /\ main = "up" /\ AtStep("web", "idle")
  /\ task' = [task EXCEPT !["web"] = [at |-> "check", day |-> Day(Local), view |-> TRUE]]
  /\ Overlap("web") /\ Uses /\ LogUnchanged /\ UNCHANGED <<main, daily, shared, wrong>>

\* Not found, or the whole file, or its end from the first line that begins there: a file
\* without a line is searched for ever, as is one that cannot be read.
Sends ==
  /\ AtStep("web", "read")
  /\ \/ task' = [task EXCEPT !["web"] = Idle] /\ UNCHANGED <<refused, wrong>>
     \/ /\ task["web"].day \in files
        /\ IF task["web"].day \in filled THEN refused' = refused \union {task["web"].day}
           ELSE UNCHANGED refused
        /\ Goes("web", "hung") /\ wrong' = wrong \union {"hung"}
  /\ LogUnchanged /\ UNCHANGED <<lines, main, files, filled, early, shared, overlapped>>

------------------------------------------------------------------------------
(* The rounds                                                              *)

Round == main = "up" /\ AtStep("flow", "idle")

\* WriteDataLog, CreateLogFolder and LogImage.  The readings of a day have a file of their
\* own, which may stay empty; a folder that cannot be made ends the pictures until the next
\* start.
Keeps ==
  /\ Round /\ kind # "log" /\ logging
  /\ \/ /\ files' = files \union {Day(Local)} /\ UNCHANGED logging
        /\ \/ filled' = filled \union {Day(Local)} /\ UNCHANGED refused
           \/ refused' = refused \union {Day(Local)} /\ UNCHANGED filled
     \/ kind = "images" /\ logging' = FALSE /\ UNCHANGED <<files, filled, refused>>
  /\ UNCHANGED <<time, main, runs, lines, early, kind, task, shared, overlapped, wrong>>

\* RemoveOldLogFile, RemoveOldDataLog, RemoveOldLogs: the day to compare with,
CleanupBegins ==
  /\ Round /\ Retention # 0 /\ logging
  /\ \E day \in Compared : task' = [task EXCEPT !["flow"] = [at |-> "clean", day |-> day, view |-> FALSE]]
  /\ UNCHANGED <<time, main, runs, lines, daily, kept, shared, overlapped, wrong>>

\* A file is too young to go while its day is one of the last; the hour above may take one more.
TooYoung(day) ==
  /\ IsSet /\ day > Day(Local) - Retention
  /\ ~(Local % 2 = 1 /\ Day(Local) >= Winter /\ day < Winter /\ day + Retention = Day(Local) + 1)

\* and every older file, one by one; that of a start without a clock is kept while it runs.
Removes(day) ==
  /\ AtStep("flow", "clean") /\ day < task["flow"].day
  /\ wrong' = wrong \union (IF TooYoung(day) THEN {"removed"} ELSE {})
  /\ day \in files /\ ~(kind = "log" /\ day = 0 /\ unset)
  /\ files' = files \ {day} /\ filled' = filled \ {day}
  /\ overlapped' = (overlapped \/ \E f \in DOMAIN open : open[f].day = day)
  /\ UNCHANGED <<time, main, runs, lines, early, refused, kept, task, shared>>

\* The end of the folder, with what could not be removed.
CleanupEnds ==
  /\ AtStep("flow", "clean") /\ task' = [task EXCEPT !["flow"] = Idle]
  /\ UNCHANGED <<time, main, runs, lines, daily, kept, shared, overlapped, wrong>>

\* What goes wrong once ends the behaviour: a bound.
Next ==
  /\ wrong = {}
  /\ \/ HalfDayPasses \/ SetupTime \/ TimeSync \/ Starts
     \/ \E t \in Tasks :
          WriteToFile(t) \/ Opens(t) \/ Puts(t) \/ Checks(t) \/ Closes(t) \/ Clears(t)
     \/ SendLogfile \/ Sends
     \/ Keeps \/ CleanupBegins
     \/ (\E day \in files : Removes(day)) \/ CleanupEnds

Spec == Init /\ [][Next]_vars

------------------------------------------------------------------------------
TypeOK ==
  /\ last \in Begins..Ends /\ clock \in 0..last /\ shift \in {-1, 0, 1}
  /\ main \in {"starts", "up", "crashed"} /\ runs \in 0..Runs /\ lines \in 0..Lines
  /\ unset \in BOOLEAN /\ logging \in BOOLEAN
  /\ kind \in {"log", "data", "images"} /\ filled \subseteq files /\ files \subseteq -1..(Today + Halves + 1)
  /\ task["web"].at \in {"idle", "open", "put", "check", "close", "clear", "read", "hung"}
  /\ handle \in 1..MaxFiles \union {None} /\ DOMAIN open \subseteq 1..MaxFiles
  /\ wrong \subseteq {"lost", "misplaced", "hung", "removed"} /\ refused \subseteq -1..(Today + Halves + 1)

\* Only where the card has refused a line, a file has none.
Written == files \ filled \subseteq refused

(* No file of the last days is ever removed, whenever the clock is set     *)
(* between a look at it and the removal; and the log of 1970 of a start    *)
(* without a clock stays while that run lasts.  As long as no two tasks    *)
(* are busy with the log at the same time, none removes what another has   *)
(* open and no power is lost while a line is written: a line is put into   *)
(* the file of its day, and written, no file stays open, no request for    *)
(* the log hangs, unless the card has refused a line of that day, and      *)
(* nothing crashes the device.  The handle they share and the card are the *)
(* only ways to lose a line (WriteToFile, CloseLogFileAppendHandle,        *)
(* send_logfile, RemoveOldLogFile).                                        *)
LogsTrue ==
  /\ "removed" \notin wrong
  /\ unset /\ early => 0 \in filled
  /\ ~overlapped =>
       /\ wrong \subseteq {"hung"} /\ main # "crashed"
       /\ "hung" \in wrong => task["web"].day \in refused
       /\ \A t \in Tasks : task[t].at \in {"put", "check", "close"} /\ ~task[t].view =>
            /\ handle \in DOMAIN open /\ open[handle].day = task[t].day
            /\ task[t].at # "put" => open[handle].line \/ task[t].day \in refused
       /\ (\A t \in Tasks : task[t].at \in {"idle", "clean"}) => handle = None /\ open = <<>> /\ Written

------------------------------------------------------------------------------
(* The inductive invariant of the proofs.                                  *)

Days  == -1..(Today + Halves + 1)
Steps == {"idle", "open", "put", "check", "close", "clear", "read", "hung", "clean"}
Busy(t) == task[t].at \notin {"idle", "clean"}

\* What each task is at; only the log has an open file.
TasksSound ==
  /\ zone \in {-1, 0, 1} /\ (clock <= Halves \/ clock >= Begins)
  /\ task \in [Tasks -> [at : Steps, day : Int \union {None}, view : BOOLEAN]]
  /\ task["flow"].at \notin {"read", "hung"} /\ ~task["flow"].view /\ task["web"].at # "clean"
  /\ \A t \in Tasks : Busy(t) => task[t].day \in Days
  /\ \A f \in DOMAIN open : open[f] \in [day : Days, line : BOOLEAN]
  /\ kind # "log" => open = <<>> /\ ~early /\ \A t \in Tasks : ~Busy(t)

\* Nothing as old as this is one of the last days; with the hour of the winter, one day less.
Spared(day) ==
  \/ day <= Day(Local) - Retention + 1
  \/ /\ day = Day(Local) - Retention + 2
     /\ Local % 2 = 1 /\ Day(Local) >= Winter /\ day - 1 < Winter

\* The day that a cleanup compares with stays right while the clock runs or is set.
RemovalSound ==
  /\ "removed" \notin wrong
  /\ task["flow"].at = "clean" => main # "starts" /\ task["flow"].day \in Int /\ Spared(task["flow"].day)

\* The log of 1970 is not removed from a start until it is known that the time is set.
EarlyKept ==
  main = "starts" \/ unset =>
    /\ early => 0 \in filled
    /\ \A f \in DOMAIN open : open[f].day = 0 => 0 \in files

\* No file is open, or the one of this task and no other.
NoneOpen    == handle = None /\ open = <<>> /\ Written
OpenFor(t)  ==
  /\ DOMAIN open = {handle} /\ open[handle].day = task[t].day
  /\ task[t].day \in files /\ files \ filled \subseteq refused \union {task[t].day}
  /\ task[t].at # "put" => open[handle].line \/ task[t].day \in refused

\* What the handle is while a task is at a step and no other is busy.
Holds(t) ==
  /\ task[t].at \in {"open", "read", "hung"} => NoneOpen
  /\ task[t].at = "check" /\ task[t].view => NoneOpen
  /\ task[t].at \in {"put", "check", "close"} /\ ~task[t].view => OpenFor(t)
  /\ task[t].at = "clear" => open = <<>> /\ Written
  /\ task[t].at \in {"open", "put", "close", "clear"} => ~task[t].view

\* Who is busy with the log without another has the handle to itself.
HandleSound ==
  ~overlapped =>
    /\ wrong \subseteq {"hung"} /\ main # "crashed"
    /\ "hung" \in wrong => task["web"].at = "hung" /\ task["web"].day \in refused
    /\ Busy("flow") => ~Busy("web")
    /\ (\A t \in Tasks : ~Busy(t)) => NoneOpen
    /\ \A t \in Tasks : Holds(t)

Inductive == TypeOK /\ TasksSound /\ RemovalSound /\ EarlyKept /\ HandleSound
=============================================================================
