------------------------------- MODULE Readout -------------------------------
(***************************************************************************)
(* From what is seen of each dial to the digits of the number: the loop of *)
(* ClassFlowCNNGeneral::getReadout over the pointers and over the wheels,  *)
(* from the lowest place to the highest, each place settled with the one   *)
(* below it (src/code/components/jomjol_flowcontroll).                     *)
(*                                                                         *)
(* A dial is seen in tenths of a division, 0..99, and one that turns       *)
(* counterclockwise 1..100.  The limits the code compares with are given   *)
(* as the floating-point comparison decides them for tenths: 0.7 as a      *)
(* float is below 0.7 as a double, 9.3 and 0.2 are above theirs.           *)
(***************************************************************************)
EXTENDS Integers, Sequences

CONSTANTS
  Meters,    \* set of [wheels, pointers (their directions), extended, start, seenWheel, seenPointer]
  Positions,  \* where the lowest dial may stand, in tenths of its division
  Unsure,   \* a wheel the network is not sure of (result_float = -1)
  N           \* the character of a digit that cannot be read

Directions == {"clockwise", "counterclockwise"}

ReadoutAssumption ==
  /\ \A n \in Meters :
       /\ n.wheels \in Nat
       /\ n.pointers \in Seq(Directions)
       /\ n.wheels + Len(n.pointers) > 0
       /\ n.extended \in BOOLEAN /\ n.start \in 0..99
       /\ n.seenPointer \subseteq Int            \* how far a pointer may be misjudged
       /\ n.seenWheel \subseteq Int \union {Unsure}
  /\ Positions \subseteq Nat
  /\ N \notin Int /\ Unsure \notin Int

VARIABLES
  number,     \* the number that is read
  position,   \* where its lowest dial really stands, all its turns counted
  place,      \* the dial that is judged next, the highest is 1; 0 when all are
  below,      \* what was seen of the dial below it (result_float)
  prev,       \* the digit that one was taken for (prev, previous_value); -1 for none
  result      \* the digits so far, the highest first (ReturnRawValue)

readoutVars == <<number, position, place, below, prev, result>>

Places(n)      == n.wheels + Len(n.pointers)
IsWheel(i)     == i <= number.wheels
LowestWheel(i) == i = number.wheels
Lowest(i)      == i = Places(number)

\* The position in tenths of the division of the dial at place i.
Turned(i) == position \div (10 ^ (Places(number) - i))

TypeOK ==
  /\ number \in Meters /\ position \in Positions
  /\ place \in 0..Places(number)
  /\ below \in 0..100 \union {Unsure}
  /\ prev \in -1..9
  /\ \A i \in 1..Len(result) : result[i] \in 0..9 \union {N}
  /\ Len(result) <= Places(number) + 1

------------------------------------------------------------------------------
\* What the camera can see.  A pointer turns all the time; a wheel turns while
\* the pointer or all the wheels below it go from 9 to 0.

PointerAt(i) == Turned(i) % 100

WheelAt(i) ==
  LET digit == (Turned(i) \div 10) % 10
      last  == number.wheels
      carry == IF last = Places(number) THEN position % 10
               ELSE IF PointerAt(last + 1) >= 90 THEN PointerAt(last + 1) - 90 ELSE 0
      moves == \A k \in (i + 1)..last : (Turned(k) \div 10) % 10 = 9
  IN  10 * digit + (IF moves THEN carry ELSE 0)

\* result_float of a pointer whose image shows it at t: one that turns
\* counterclockwise is subtracted from 10, at zero as well.
PointerSeen(t, direction) ==
  IF direction = "clockwise" THEN t ELSE 100 - ((100 - t) % 100)

------------------------------------------------------------------------------
\* Mutant: a pointer near its zero always goes up.
PointerUpwards(seen, preceder) ==
  IF preceder = -1 THEN seen \div 10 ELSE ((seen + 3) \div 10) % 10

\* The digit of a pointer: near a zero it is moved to the side the digit below asks for.
PointerEvalAnalogNew(seen, preceder) ==
  LET high == seen + 3
      low  == IF seen = 13 THEN 9 ELSE seen - 3      \* 1.3 - 0.3 is below 1 as a float
      ambiguous == high \div 10 # low \div 10
  IN  IF preceder = -1 THEN seen \div 10
      ELSE IF ambiguous /\ preceder <= 3 THEN (high \div 10) % 10
      ELSE IF ambiguous /\ preceder >= 7 THEN (low \div 10) % 10
      ELSE (seen \div 10) % 10

\* The digit of the wheel above a pointer.
PointerEvalAnalogToDigitNew(seen, preceder, eval, start) ==
  LET digit   == seen \div 10
      after   == seen % 10
      rounded == after >= 8 \/ (eval <= 4 /\ after >= 6)
      notYet  == eval >= 6 /\ (preceder > start \/ preceder <= 1)   \* no zero crossing below
  IN  IF rounded /\ ~notYet THEN (digit + 1) % 10 ELSE digit

\* The digit of a wheel above another wheel, or of one with nothing to go by.
PointerEvalHybridNew(seen, preceder, eval) ==
  LET digit == seen \div 10
      after == seen % 10
  IN  IF eval < 0 THEN digit
      ELSE IF preceder \in 8..92                      \* far from its zero crossing: rounded near a digit
        THEN IF after >= 7 THEN (digit + 1) % 10 ELSE digit
      ELSE IF eval <= 1                               \* it has crossed
        THEN IF after > 5 THEN (digit + 1) % 10 ELSE digit
      ELSE IF preceder = Unsure \/ preceder <= 97 \/ after >= 4
        THEN digit                                    \* neither has crossed
      ELSE (digit - 1) % 10                           \* this one is ahead of it

------------------------------------------------------------------------------
InitReadout ==
  /\ number \in Meters /\ position \in Positions
  /\ place = Places(number)
  /\ below = 0 /\ prev = -1 /\ result = << >>

Judge(seen, digit, written) ==
  /\ place' = place - 1 /\ below' = seen /\ prev' = digit
  /\ result' = written \o result
  /\ UNCHANGED <<number, position>>

\* The loop over the analogue dials.  With extended resolution the tenth of the
\* lowest one is written behind it.
ReadPointer ==
  /\ place > number.wheels
  /\ \E error \in number.seenPointer :
       LET t     == (PointerAt(place) + error) % 100
           seen  == PointerSeen(t, number.pointers[place - number.wheels])
           digit == PointerEvalAnalogNew(seen, prev)
       IN  Judge(seen, digit,
                 IF Lowest(place) /\ number.extended THEN <<digit, seen % 10>> ELSE <<digit>>)

WheelSeen(error) == IF error = Unsure THEN Unsure ELSE (WheelAt(place) + error) % 100

\* The last wheel of the loop over the digits: it knows the pointer below it, if
\* there is one, and has extended resolution if there is none.
ReadLowestWheel ==
  /\ place > 0 /\ LowestWheel(place)
  /\ \E error \in number.seenWheel :
       LET seen     == WheelSeen(error)
           extended == number.extended /\ Lowest(place)
           digit    == IF Lowest(place) \/ prev < 0 THEN PointerEvalHybridNew(seen, below, prev)
                       ELSE PointerEvalAnalogToDigitNew(seen, below, prev, number.start)
       IN  IF seen = Unsure
           THEN Judge(seen, prev, IF extended THEN <<N, N>> ELSE <<N>>)
           ELSE Judge(seen, digit, IF extended THEN <<digit, seen % 10>> ELSE <<digit>>)

\* The wheels above it.
ReadUpperWheel ==
  /\ place > 0 /\ place < number.wheels
  /\ \E error \in number.seenWheel :
       LET seen  == WheelSeen(error)
           digit == PointerEvalHybridNew(seen, below, prev)
       IN  IF seen = Unsure THEN Judge(seen, -1, <<N>>) ELSE Judge(seen, digit, <<digit>>)

\* The next round reads the number anew.
ReadAgain ==
  /\ place = 0
  /\ place' = Places(number) /\ below' = 0 /\ prev' = -1 /\ result' = << >>
  /\ UNCHANGED <<number, position>>

NextReadout == ReadPointer \/ ReadLowestWheel \/ ReadUpperWheel \/ ReadAgain

------------------------------------------------------------------------------
\* The digit that is at the index i of the result when the number stands at p.
DigitOf(p, i) ==
  LET behind == Len(result) - i
      tenth  == number.extended
      unit   == 10 ^ (IF tenth THEN behind ELSE behind + 1)
  IN  (p \div unit) % 10

\* The misjudgements of the lowest dial, which the value cannot be free of.
Errors ==
  (IF number.pointers # << >> THEN number.seenPointer ELSE number.seenWheel) \ {Unsure}

(* The digits are those of a position the lowest dial was seen at: however *)
(* the dials above it are misjudged, within what is allowed, no place is   *)
(* ever a turn ahead of or behind the one below it.  What is above a digit *)
(* that could not be read has nothing to go by (getReadout).               *)
ReadoutTrue ==
  LET full == 10 ^ (Places(number) + 1)
      known(i) == \A k \in i..Len(result) : result[k] # N
  IN  \E error \in Errors :
        \A i \in 1..Len(result) : known(i) => result[i] = DigitOf((position + error) % full, i)

=============================================================================
