------------------------------ MODULE MCReadings ------------------------------
(***************************************************************************)
(* What becomes of a reading: the digits that are made of what is seen of  *)
(* the dials, the value of a number that is judged against a previous one, *)
(* or the frame of a gas meter that is accounted for.  `subject` says      *)
(* which of these the behaviour is one of; a variable it lacks is None.    *)
(***************************************************************************)
EXTENDS Integers, Sequences

CONSTANTS
  Base, Config, Raws, SetValues, PreValueUse, MaxAge, MaxTime, Beyond, Limit, N, Damaged, \* PostProcessing
  Devices, Gaps, Readings, Segments,                                                     \* MeterConsumption
  Meters, Positions, Unsure,                                                          \* Readout
  None

VARIABLES
  subject, clock,
  pre, okay, stamp, raw, dirty, file, at, round, asked, lines, overlapped,
  rate, used, start, tried, session, records,
  number, position, place, below, prev, result

Post  == INSTANCE PostProcessing WITH Hidden <- N
Meter == INSTANCE MeterConsumption
Dials == INSTANCE Readout

ASSUME ReadingsAssumption ==
  Post!PostProcessingAssumption /\ Meter!ConsumptionAssumption /\ Dials!ReadoutAssumption

postVars  == <<pre, okay, stamp, raw, dirty, file, at, round, asked, lines, overlapped>>
meterVars == <<rate, used, start, tried, session, records>>
dialVars  == <<number, position, place, below, prev, result>>
vars      == <<subject, clock, postVars, meterVars, dialVars>>

NoPost ==
  /\ pre = None /\ okay = None /\ stamp = None /\ raw = None /\ dirty = None /\ file = None
  /\ at = None /\ round = None /\ asked = None /\ lines = None /\ overlapped = None
NoMeter ==
  /\ rate = None /\ used = None /\ start = None /\ tried = None /\ session = None /\ records = None

NoDials ==
  /\ number = None /\ position = None /\ place = None /\ below = None /\ prev = None /\ result = None

Init ==
  \/ subject = "post"  /\ Post!Init  /\ NoMeter /\ NoDials
  \/ subject = "meter" /\ Meter!Init /\ NoPost  /\ NoDials
  \/ subject = "dials" /\ Dials!InitReadout /\ NoPost /\ NoMeter /\ clock = 0

Next ==
  /\ UNCHANGED subject
  /\ \/ subject = "post"  /\ Post!Next  /\ UNCHANGED <<meterVars, dialVars>>
     \/ subject = "meter" /\ Meter!Next /\ UNCHANGED <<postVars, dialVars>>
     \/ subject = "dials" /\ Dials!NextReadout /\ UNCHANGED <<clock, postVars, meterVars>>

Spec == Init /\ [][Next]_vars

\* A meter of rolling digits, and one with a dial for the last digit that may run back.
MCSettings(consistent) ==
  <<[analog |-> 0, decimals |-> 0, threshold |-> 2, negative |-> FALSE, limited |-> TRUE,
     maxRate |-> 10, perMinute |-> TRUE, consistent |-> consistent, ignoreLeading |-> FALSE],
    [analog |-> 1, decimals |-> 1, threshold |-> 1, negative |-> TRUE, limited |-> TRUE,
     maxRate |-> 9, perMinute |-> FALSE, consistent |-> TRUE, ignoreLeading |-> TRUE]>>
MCConfig == MCSettings(FALSE)
\* The first meter checks the increase of its digits as well.
MCConfigConsistent == MCSettings(TRUE)
MCRaws == <<{<<1, 2>>, <<2, N>>}, {<<N, 1>>}>>
MCSetValues == <<{12}, {}>>

\* The register about to carry through five dials with a maximum flow set, and
\* about to come round without one.
MCDevices == {<<19999990, 40>>, <<199998000, 0>>}
\* The register just above zero.
MCDevicesAtZero == {<<100, 0>>}
\* Nothing, the most that may flow in one tick and in three, and 200 cubic feet.
MCGaps == {<<0, 1>>, <<40, 1>>, <<120, 3>>, <<4000, 1>>}

\* Three pointers that turn either way and are misjudged by two tenths; two wheels
\* misjudged by one; three seen as they are, unless not at all; and two wheels above
\* a pointer that lag behind it.
Seen(wheels, pointers, extended, seenWheel, seenPointer) ==
  [wheels |-> wheels, pointers |-> pointers, extended |-> extended, start |-> 92,
   seenWheel |-> seenWheel, seenPointer |-> seenPointer]
MCMeters ==
  LET cw == "clockwise"  ccw == "counterclockwise"
  IN  {Seen(0, <<ccw, ccw, cw>>, TRUE, {}, -2..2),
       Seen(2, << >>, TRUE, {-1, 0, 1, Unsure}, {}),
       Seen(3, << >>, FALSE, {0, Unsure}, {}),
       Seen(2, <<cw>>, TRUE, {-1, 0, Unsure}, {0, 1})}
\* Every seventh tenth of the turns of four dials.
MCPositions == {7 * k : k \in 0..1428}

------------------------------------------------------------------------------
(* The digits are those of a position the lowest dial was seen at: as long *)
(* as the dials are misjudged by no more than is given with each number,   *)
(* no place is ever a turn ahead of or behind the one below it; a digit    *)
(* above one that could not be read has nothing to go by (getReadout).     *)
ReadoutTrue == subject = "dials" => Dials!TypeOK /\ Dials!ReadoutTrue

(* A value that is in use and not in the file will be saved, through every *)
(* failure to open, write or close it, as long as a request and a round    *)
(* have not met since the last undisturbed save.  The repair of digits     *)
(* that lag makes a reading what it should be whenever the digits it       *)
(* relies on have advanced by less than a turn, and mends one misread      *)
(* digit where nothing had to move (SavePreValue, checkDigitConsistency).  *)
PreviousKept ==
  subject = "post" => Post!TypeOK /\ Post!RetryKept /\ Post!ConsistencyRepairs

(* While readings err by no more than is assumed, what has really flowed   *)
(* is within the bounds that are reported, every estimate is as near as    *)
(* its dial can be read, and such a reading is turned down only when the   *)
(* whole register comes round.  A segment can be saved at any moment and   *)
(* rebuilt from the card with bounds that hold, and the summary of the     *)
(* segments on the card covers each stretch once (resolve, Cumulative,     *)
(* Session::observe, checkpointSegment, summarizeSegments).                *)
TotalsBounded ==
  subject = "meter" =>
    /\ Meter!TypeOK /\ Meter!ConsumptionBounded
    /\ Meter!HonestAccepted /\ Meter!HistoryCounts

(* The part of the last that METER-ACCOUNTING.md states of every meter: a  *)
(* rollover is never assumed, so no turn of the register is invented.      *)
ConsumptionBounded == subject = "meter" => Meter!ConsumptionBounded

(* A previous value that is not valid, because none was saved or it is too *)
(* old, does not change what is read (checkDigitConsistency; param-docs:   *)
(* it is valid for PreValueAgeStartup after a reboot).                     *)
UntrustedUnused == subject = "post" => Post!UntrustedUnused
=============================================================================
