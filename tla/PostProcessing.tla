---------------------------- MODULE PostProcessing ----------------------------
(***************************************************************************)
(* Post processing of recognised digits into meter readings                *)
(* (ClassFlowPostProcessing):                                              *)
(*   - doFlow judges each number's raw reading against its previous value: *)
(*     hidden digits are filled in, lagging digits repaired, small changes *)
(*     ignored, negative and too fast changes rejected;                    *)
(*   - the previous values are kept in prevalue.ini, rewritten after a     *)
(*     round and loaded at start-up;                                       *)
(*   - SetPreValue, called from web and MQTT handlers, takes no guard and  *)
(*     runs at any time, also in the middle of a round or of a save.       *)
(* Values are counted in units of the last digit, time in minutes.         *)
(***************************************************************************)
EXTENDS Integers, Sequences

CONSTANTS
  Base,         \* of a digit (10)
  Config,       \* a sequence: the settings of each number
  Raws,         \* Raws[n]: the raw readings, most significant digit first
  SetValues,    \* SetValues[n]: values a request may set
  PreValueUse,  \* previous values are used for the checks
  MaxAge,       \* PreValueAgeStartup
  MaxTime,      \* bound of the clock
  Beyond,       \* a time that cannot be written as a date with a year of four digits
  Limit,        \* bound of the values
  Hidden,       \* the digit N
  Damaged       \* a line that cannot be parsed

Numbers == DOMAIN Config
Count   == Len(Config)
Tasks   == {"flow", "web"}
Times   == 0..MaxTime
Values  == 0..Limit
Row     == [value : Values, time : Times \cup {Beyond}]

\* What the constants must be; assumed where they have values.
PostProcessingAssumption ==
  /\ Base \in Nat \ {0, 1} /\ Count > 0 /\ Beyond > MaxTime + MaxAge
  /\ \A n \in Numbers : Config[n] \in
       [analog : Nat, decimals : Nat, threshold : Nat, negative : BOOLEAN,
        limited : BOOLEAN, maxRate : Nat, perMinute : BOOLEAN,
        consistent : BOOLEAN, ignoreLeading : BOOLEAN]

VARIABLES
  clock,      \* minutes since the epoch
  pre,        \* PreValue
  okay,       \* PreValueOkay
  stamp,      \* timeStampLastPreValue
  raw,        \* ReturnRawValue
  dirty,      \* UpdatePreValueINI
  file,       \* the lines of prevalue.ini; missing, empty and truncated are <<>>
  at,         \* progress of the flow task and of a request
  round,      \* what doFlow remembers
  asked,      \* the number a request sets
  lines,      \* what each task has written to its open file
  overlapped  \* history: a request and a round have met since the last undisturbed save

numbers == <<pre, okay, stamp, raw>>
tasks   == <<at, round, asked, lines, overlapped>>
vars    == <<clock, numbers, dirty, file, tasks>>

-------------------------------------------------------------------------------
(* Digits *)

Digit(v, i) == (v \div Base^i) % Base
ValueOf(s)  ==
  LET v[i \in 0..Len(s)] == IF i = 0 THEN 0 ELSE v[i - 1] * Base + s[i]
  IN v[Len(s)]
IsHidden(s) == \E i \in DOMAIN s : s[i] = Hidden

\* Leading hidden digits are dropped, but never the last character.
Leading(n, s) ==
  {i \in DOMAIN s : /\ i < Len(s) /\ i + Config[n].decimals <= Len(s)
                    /\ \A k \in 1..i : s[k] = Hidden}
Shown(n, s) ==
  IF Config[n].ignoreLeading
  THEN [i \in DOMAIN s |-> IF i \in Leading(n, s) THEN 0 ELSE s[i]]
  ELSE s

\* ErsetzteN: a hidden digit is the previous value's.
Filled(s, p) == [i \in DOMAIN s |-> IF s[i] = Hidden THEN Digit(p, Len(s) - i) ELSE s[i]]

\* checkDigitConsistency: each digit is compared with the previous value's, and
\* whether it should have moved on is told by the digit below it.
FirstChecked(n) == IF Config[n].analog = 0 THEN 1 ELSE Config[n].analog
Magnitude(v)    == CHOOSE d \in 0..v : Base^d <= v /\ v < Base^(d + 1)
LastChecked(n, v) ==
  IF Magnitude(v) >= Config[n].decimals \/ v = Base^Magnitude(v)
  THEN Magnitude(v) + 1 ELSE Magnitude(v) + 2

\* A digit that should not have moved is set back, one that should have moved on.
Repaired(v, p, i) ==
  CASE Digit(p, i - 1) <= Digit(v, i - 1) -> v + (Digit(p, i) - Digit(v, i)) * Base^i
    [] Digit(p, i - 1) > Digit(v, i - 1) /\ Digit(p, i) = Digit(v, i) -> v + Base^i
    [] OTHER -> v

CheckDigits(n, v, p) ==
  LET w[i \in Nat] == IF i < FirstChecked(n) THEN v ELSE Repaired(w[i - 1], p, i)
  IN IF v = 0 THEN v ELSE w[LastChecked(n, v)]

\* strtod stops at the first hidden digit, and takes what it has read for a whole number.
Prefix(n, s) ==
  LET hidden == {i \in DOMAIN s : s[i] = Hidden}
      h == CHOOSE i \in hidden : \A k \in hidden : i <= k
      places == IF h + Config[n].decimals > Len(s) THEN Len(s) - h + 1 ELSE Config[n].decimals
  IN IF hidden = {} THEN ValueOf(s) ELSE ValueOf(SubSeq(s, 1, h - 1)) * Base^places

Distance(a, b) == IF a >= b THEN a - b ELSE b - a

-------------------------------------------------------------------------------
(* The saved previous values *)

MemoryLines == [n \in Numbers |-> [value |-> pre[n], time |-> stamp[n]]]
Readable(ls) == ls # <<>> /\ \A n \in DOMAIN ls : ls[n] # Damaged /\ ls[n].time # Beyond

\* What is left of lines whose writing fails on the way: the first ones, and the
\* beginning of the next, which may still read as a line with a shorter value.
Shortened(n, v) ==
  {(v \div Base^k) * Base^(IF k <= Config[n].decimals THEN k ELSE Config[n].decimals) :
     k \in {j \in 1..Count + 1 : j <= Config[n].decimals \/ v \div Base^j > 0}}
Cut(n, line) == {Damaged} \cup {[line EXCEPT !.value = v] : v \in Shortened(n, line.value)}
Partials(ls) ==
  {SubSeq(ls, 1, k) : k \in 0..Count}
    \cup UNION {{Append(SubSeq(ls, 1, n - 1), line) : line \in Cut(n, ls[n])} : n \in Numbers}

\* InitNUMBERS and LoadPreValue.  All lines are taken or none; a number without a
\* line starts with the time its memory happens to hold, which nothing initialises.
Load(now) ==
  LET loaded == PreValueUse /\ Readable(file)
      has(n) == loaded /\ n \in DOMAIN file
  IN /\ pre'   = [n \in Numbers |-> IF has(n) THEN file[n].value ELSE 0]
     /\ okay'  = [n \in Numbers |-> has(n) /\ now - file[n].time \in 0..MaxAge]
     /\ \E garbage \in [{n \in Numbers : ~has(n)} -> {0, Beyond}] :
          stamp' = [n \in Numbers |-> IF has(n) THEN file[n].time ELSE garbage[n]]
     /\ raw'   = [n \in Numbers |-> <<>>]
     /\ dirty' = FALSE

Idle == [t \in Tasks |-> "idle"]
NoRound == [number |-> 1, time |-> 0, value |-> 0, trusted |-> FALSE]

Init ==
  /\ clock = 0 /\ file = <<>>
  /\ pre = [n \in Numbers |-> 0] /\ okay = [n \in Numbers |-> FALSE]
  /\ stamp \in [Numbers -> {0, Beyond}]
  /\ raw = [n \in Numbers |-> <<>>]
  /\ dirty = FALSE
  /\ at = Idle /\ round = NoRound /\ asked = 1
  /\ lines = [t \in Tasks |-> <<>>] /\ overlapped = FALSE

\* The device restarts at any time; without a time server its clock starts again.
\* What a task has written is lost unless its file was closed.
Restart ==
  \E now \in {0, clock} :
    /\ clock' = now /\ Load(now)
    /\ at' = Idle /\ round' = NoRound /\ asked' = 1
    /\ lines' = [t \in Tasks |-> <<>>] /\ overlapped' = FALSE
    /\ UNCHANGED file

Tick ==
  /\ clock < MaxTime /\ clock' = clock + 1
  /\ UNCHANGED <<numbers, dirty, file, tasks>>

Other(t) == IF t = "flow" THEN "web" ELSE "flow"
Meets(t) == overlapped' = (overlapped \/ at[Other(t)] # "idle")
Goto(t, step) == at' = [at EXCEPT ![t] = step]

-------------------------------------------------------------------------------
(* SavePreValue, run by either task *)

SaveNothing(t) ==
  /\ at[t] = "open" /\ ~dirty
  /\ Goto(t, "idle") /\ Meets(t)
  /\ UNCHANGED <<clock, numbers, dirty, file, round, asked, lines>>

SaveOpenFails(t) ==
  /\ at[t] = "open" /\ dirty
  /\ Goto(t, "idle") /\ Meets(t)
  /\ UNCHANGED <<clock, numbers, dirty, file, round, asked, lines>>

SaveOpen(t) ==
  /\ at[t] = "open" /\ dirty
  /\ file' = <<>>
  /\ Goto(t, "write") /\ Meets(t)
  /\ UNCHANGED <<clock, numbers, dirty, round, asked, lines>>

SaveWrite(t) ==
  /\ at[t] = "write"
  /\ lines' = [lines EXCEPT ![t] = MemoryLines]
  /\ Goto(t, "close") /\ Meets(t)
  /\ UNCHANGED <<clock, numbers, dirty, file, round, asked>>

\* The file ends up with the lines of the task that closes it last.
SaveClose(t) ==
  /\ at[t] = "close"
  /\ file' = lines[t] /\ dirty' = FALSE
  /\ lines' = [lines EXCEPT ![t] = <<>>]
  /\ Goto(t, "idle")
  /\ overlapped' = (at[Other(t)] # "idle" \/ (overlapped /\ lines[t] # MemoryLines))
  /\ UNCHANGED <<clock, numbers, round, asked>>

\* Mutant: a failed save is taken for done.
SaveCloseFailsDone(t) ==
  /\ at[t] = "close"
  /\ file' \in Partials(lines[t]) /\ dirty' = FALSE
  /\ lines' = [lines EXCEPT ![t] = <<>>]
  /\ Goto(t, "idle") /\ Meets(t)
  /\ UNCHANGED <<clock, numbers, round, asked>>

\* UpdatePreValueINI stays set, so that a later round saves again.
SaveCloseFails(t) ==
  /\ at[t] = "close"
  /\ file' \in Partials(lines[t])
  /\ lines' = [lines EXCEPT ![t] = <<>>]
  /\ Goto(t, "idle") /\ Meets(t)
  /\ UNCHANGED <<clock, numbers, dirty, round, asked>>

-------------------------------------------------------------------------------
(* SetPreValue *)

SetTo(n, v) ==
  /\ pre' = [pre EXCEPT ![n] = v] /\ okay' = [okay EXCEPT ![n] = TRUE]
  /\ asked' = n /\ Goto("web", "stamp") /\ Meets("web")
  /\ UNCHANGED <<clock, stamp, raw, dirty, file, round, lines>>

SetPreValue(n, v) == at["web"] = "idle" /\ SetTo(n, v)

\* A negative value asks for the last raw reading; none or zero is refused.
SetPreValueFromRaw(n) ==
  LET v == Prefix(n, Shown(n, raw[n]))
  IN at["web"] = "idle" /\ v # 0 /\ SetTo(n, v)

SetStamp ==
  /\ at["web"] = "stamp"
  /\ stamp' = [stamp EXCEPT ![asked] = clock] /\ dirty' = TRUE /\ asked' = 1
  /\ Goto("web", "open") /\ Meets("web")
  /\ UNCHANGED <<clock, pre, okay, raw, file, round, lines>>

-------------------------------------------------------------------------------
(* doFlow *)

RoundBegins ==
  /\ at["flow"] = "idle"
  /\ round' = [NoRound EXCEPT !.time = clock]
  /\ Goto("flow", "judge") /\ Meets("flow")
  /\ UNCHANGED <<clock, numbers, dirty, file, asked, lines>>

Trusted(n) == PreValueUse /\ okay[n]

\* What the digits say, once filled in and repaired.
Reading(n, r) ==
  LET shown == Shown(n, r)
      v == ValueOf(IF Trusted(n) THEN Filled(shown, pre[n]) ELSE shown)
  IN IF Config[n].consistent THEN CheckDigits(n, v, pre[n]) ELSE v

\* A change of the last digit below the threshold is no change.
Steadied(n, v) ==
  IF Config[n].decimals > 0 /\ Distance(v, pre[n]) <= Config[n].threshold THEN pre[n] ELSE v

Negative(n, v) == v < pre[n] /\ ~Config[n].negative
TooFast(n, v) ==
  /\ Config[n].limited /\ v # pre[n]
  /\ Distance(v, pre[n]) > Config[n].maxRate *
       (IF Config[n].perMinute THEN Distance(round.time, stamp[n]) ELSE 1)

Judging(n) == at["flow"] = "judge" /\ round.number = n
Seen(n, r) == raw' = [raw EXCEPT ![n] = r]

\* On to the next number, or to the file.
NextNumber(r) ==
  IF r.number = Count THEN round' = NoRound /\ Goto("flow", "open")
  ELSE round' = [r EXCEPT !.number = @ + 1, !.value = 0, !.trusted = FALSE] /\ Goto("flow", "judge")

Rejects(n, r) ==
  /\ Seen(n, r) /\ NextNumber(round) /\ Meets("flow")
  /\ UNCHANGED <<clock, pre, okay, stamp, dirty, file, asked, lines>>

\* A digit stays hidden.
Unreadable(n, r) ==
  Judging(n) /\ ~Trusted(n) /\ IsHidden(Shown(n, r)) /\ Rejects(n, r)

NegativeRate(n, r) ==
  /\ Judging(n) /\ Trusted(n) /\ Negative(n, Steadied(n, Reading(n, r)))
  /\ Rejects(n, r)

RateTooHigh(n, r) ==
  LET v == Steadied(n, Reading(n, r))
  IN Judging(n) /\ Trusted(n) /\ ~Negative(n, v) /\ TooFast(n, v) /\ Rejects(n, r)

Takes(n, r, v) ==
  /\ Seen(n, r)
  /\ round' = [round EXCEPT !.value = v, !.trusted = Trusted(n)]
  /\ Goto("flow", "accept") /\ Meets("flow")
  /\ UNCHANGED <<clock, pre, okay, stamp, dirty, file, asked, lines>>

Plausible(n, r) ==
  LET v == Steadied(n, Reading(n, r))
  IN Judging(n) /\ Trusted(n) /\ ~Negative(n, v) /\ ~TooFast(n, v) /\ Takes(n, r, v)

Unchecked(n, r) ==
  Judging(n) /\ ~Trusted(n) /\ ~IsHidden(Shown(n, r)) /\ Takes(n, r, Reading(n, r))

Accept ==
  LET n == round.number
  IN /\ at["flow"] = "accept"
     /\ pre' = [pre EXCEPT ![n] = round.value] /\ okay' = [okay EXCEPT ![n] = TRUE]
     /\ stamp' = [stamp EXCEPT ![n] = round.time]
     /\ dirty' = TRUE
     /\ NextNumber(round) /\ Meets("flow")
     /\ UNCHANGED <<clock, raw, file, asked, lines>>

Save == \E t \in Tasks :
  \/ SaveNothing(t) \/ SaveOpenFails(t) \/ SaveOpen(t)
  \/ SaveWrite(t) \/ SaveClose(t) \/ SaveCloseFails(t)

Request == \/ \E n \in Numbers : SetPreValueFromRaw(n) \/ \E v \in SetValues[n] : SetPreValue(n, v)
           \/ SetStamp

\* One turn of the loop over the numbers.
Judge == \E n \in Numbers : \E r \in Raws[n] :
  \/ Unreadable(n, r) \/ NegativeRate(n, r) \/ RateTooHigh(n, r)
  \/ Plausible(n, r) \/ Unchecked(n, r)

Next == Restart \/ Tick \/ RoundBegins \/ Judge \/ Accept \/ Request \/ Save
Spec == Init /\ [][Next]_vars

-------------------------------------------------------------------------------
(* Properties *)

\* Numbers, times, steps and lines stay in range, and a save in progress has
\* written the lines of every number (SavePreValue).
TypeOK ==
  /\ clock \in Times /\ dirty \in BOOLEAN /\ overlapped \in BOOLEAN
  /\ pre \in [Numbers -> Values] /\ okay \in [Numbers -> BOOLEAN]
  /\ stamp \in [Numbers -> Times \cup {Beyond}]
  /\ \A n \in Numbers : raw[n] \in {<<>>} \cup Raws[n]
  /\ Len(file) <= Count /\ \A i \in DOMAIN file : file[i] = Damaged \/ file[i] \in Row
  /\ at["flow"] \in {"idle", "judge", "accept", "open", "write", "close"}
  /\ at["web"] \in {"idle", "stamp", "open", "write", "close"}
  /\ round \in [number : Numbers, time : Times, value : Values, trusted : BOOLEAN]
  /\ asked \in Numbers
  /\ \A t \in Tasks : lines[t] # <<>> <=> at[t] = "close"

\* A value that is in use and not in the file will be saved: UpdatePreValueINI stays
\* set through every failure to open, write or close it, in rounds and requests,
\* as long as the two have not met since the last undisturbed save.
RetryKept ==
  at = Idle /\ ~overlapped /\ ~dirty =>
    \A n \in Numbers : okay[n] =>
      n \in DOMAIN file /\ file[n] = [value |-> pre[n], time |-> stamp[n]]

\* checkDigitConsistency repairs what it is for: when the digits it relies on have
\* advanced by less than a turn, a reading whose other digits all lag behind, and one
\* with a single misread digit where nothing had to move, come out as they should.  This
\* depends on no state and is stated of the initial ones.
ConsistencyRepairs ==
  Init => \A n \in Numbers : Config[n].consistent =>
    LET turn == Base^FirstChecked(n)
        step == 0..((Base - 1) * Base^(FirstChecked(n) - 1))
    IN \A p \in turn..(Base * turn - 1), s \in step :
         LET true == p + s
             lagging == (p - (p % turn)) + (true % turn)
         IN /\ CheckDigits(n, lagging, p) = true
            /\ (true % turn) >= (p % turn) =>
                 \A d \in 1..(Base - 1) : CheckDigits(n, (true % turn) + d * turn, p) = true

\* A previous value that is not valid - none was saved, or it is too old - does not
\* change what is read (param-docs: it is valid for PreValueAgeStartup after a reboot).
UntrustedUnused ==
  at["flow"] = "accept" /\ ~round.trusted =>
    round.value = ValueOf(Shown(round.number, raw[round.number]))
===============================================================================
