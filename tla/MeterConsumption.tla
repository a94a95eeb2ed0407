--------------------------- MODULE MeterConsumption ---------------------------
(***************************************************************************)
(* What the meter accounting makes of the dial readings: the register from *)
(* five dials that each err, the consumption between two frames, the       *)
(* cumulative consumption since an anchor, and the summary of the segments *)
(* that restarts leave behind.  MeterCheckpoints says how those segments   *)
(* reach the card.                                                         *)
(*                                                                         *)
(* Volumes are integers: a unit is 0.05 cubic feet, the error of one       *)
(* reading of the secondary dial.  Positions are in the same unit, so that *)
(* dial i runs through Revolution(i) of them.  Every reading errs by at    *)
(* most what the accounting assumes; a dial that cannot be read is a       *)
(* rejected reading.                                                       *)
(***************************************************************************)
EXTENDS Integers, Sequences, FiniteSetsExt, SequencesExt

CONSTANTS Devices,     \* <<where the register stands at first, the maximum flow per tick or 0>>
          Gaps,        \* <<what flows, the ticks that pass>> between two readings
          Readings,    \* bound: readings attempted
          Segments     \* bound: segments on the card

Dials         == 0 .. 4
Turn          == 100                      \* secondaryRevolutionFt3
Reading(i)    == 20 * 10 ^ (5 - i)        \* Bounds::mainDial of each dial, a tenth of a step
Step(i)       == 10 * Reading(i)
Revolution(i) == 10 * Step(i)             \* lastMainRevolutionFt3 for dial 4
Register      == 200000000                \* registerRevolutionFt3, the revolution of dial 0
MainError     == 2 * Reading(4)
PhaseError    == 2

ConsumptionAssumption ==
  /\ Devices \subseteq (0 .. (Register - 1)) \X Nat
  /\ Gaps \subseteq Nat \X (Nat \ {0})
  /\ Readings \in Nat /\ Segments \in Nat

VARIABLES
  rate,      \* Bounds::maximumRateFt3S, 0 without hasMaximumRate
  used,      \* history: what has flowed since the first reading
  start,     \* history: where the register stood then
  clock,     \* [boot, now]: the clock domain and its time
  tried,     \* readings attempted
  session,   \* Session, with the Cumulative it owns
  records    \* the checkpointed segments on the card, oldest first

vars == <<rate, used, start, clock, tried, session, records>>

------------------------------------------------------------------------------
(* MeterAccounting.h *)

Larger(a, b)  == IF a > b THEN a ELSE b
Smaller(a, b) == IF a < b THEN a ELSE b
Ceil(a, b)    == -((-a) \div b)

CircularDistance(a, b, period) ==
  LET d == (((a - b) + period \div 2) % period) - period \div 2 IN IF d < 0 THEN -d ELSE d

\* From the last dial up, each dial only chooses the decade of those below it: the nearest.
Reconstruct(dial) ==
  LET total[i \in Dials] ==
        IF i = 4 THEN dial[4]
        ELSE LET below == total[i + 1]
             IN below + Step(i) * CHOOSE k \in 0 .. 9 :
                  2 * CircularDistance(k * Step(i) + below, dial[i], Revolution(i)) <= Step(i)
  IN total[0]

Consistent(dial) ==
  \A i \in 0 .. 3 : \E k \in 0 .. 9 :
    CircularDistance(k * Step(i) + dial[i + 1], dial[i], Revolution(i)) <= Reading(i) + Reading(i + 1)

Unresolved(reason) == [status |-> "review", reason |-> reason, min |-> 0, max |-> 0,
                       first |-> 0, last |-> 0, phase |-> 0, estimate |-> 0]

\* The bounds, narrowed by the turns of the secondary dial that fit between them.
Turned(phase, lower, upper, first, last) ==
  LET Bounded(status, estimate) ==
        [status |-> status, reason |-> "bounds",
         min |-> Larger(lower, (phase + Turn * first) - PhaseError),
         max |-> Smaller(upper, phase + Turn * last + PhaseError),
         first |-> first, last |-> last, phase |-> phase, estimate |-> estimate]
      Single(estimate) ==
        Bounded(IF estimate <= PhaseError THEN "noise"
                ELSE IF estimate < lower \/ estimate > upper THEN "tails" ELSE "estimated",
                estimate)
  IN IF upper < lower     THEN Unresolved("rate")
     ELSE IF last < first THEN Unresolved("secondary")
     ELSE IF last > first THEN Bounded("ambiguous", phase + Turn * first)
     ELSE Single(phase + Turn * first)

Counted(phase, lower, upper) ==
  Turned(phase, lower, upper,
         Ceil((lower - PhaseError) - phase, Turn), ((upper + PhaseError) - phase) \div Turn)

\* What may have flowed by the main dials, and no faster than the maximum rate.
Measured(main, phase, ticks) ==
  IF main < -(Register \div 2)    THEN Unresolved("rollover")
  ELSE IF main + MainError < 0    THEN Unresolved("backward")
  ELSE Counted(phase, Larger(0, main - MainError),
               IF rate = 0 THEN main + MainError ELSE Smaller(main + MainError, rate * ticks))

Resolve(previous, current) ==
  IF current.at <= previous.at          THEN Unresolved("time")
  ELSE IF current.boot # previous.boot  THEN Unresolved("clock")
  ELSE Measured(current.total - previous.total, current.phase - previous.phase,
                current.at - previous.at)

------------------------------------------------------------------------------
(* MeterCumulative.h *)

NoFrame == [total |-> 0, phase |-> 0, boot |-> 0, at |-> 0, used |-> 0]

\* `previous` of the class is the reference of the session whenever the segment is available.
NoSegment == [available |-> FALSE, current |-> FALSE, anchor |-> NoFrame,
              min |-> 0, max |-> 0, status |-> "none", estimate |-> 0, tracked |-> FALSE, turns |-> 0]

Reset(frame) == [NoSegment EXCEPT !.available = TRUE, !.current = TRUE, !.anchor = frame,
                                  !.status = "noise", !.tracked = TRUE]

Contradiction == [NoSegment EXCEPT !.status = "contradiction"]

\* A turn count that every step since the anchor establishes narrows the bounds.
Narrowed(whole, estimate) ==
  LET lo == Larger(whole.min, estimate - PhaseError)
      hi == Smaller(whole.max, estimate + PhaseError)
  IN [whole EXCEPT !.min = lo, !.max = hi, !.estimate = estimate,
        !.status = IF estimate <= PhaseError THEN "noise"
                   ELSE IF estimate < lo \/ estimate > hi THEN "tails" ELSE "estimated"]

\* The segment with new bounds, which never fall.
Grown(segment, bounds, lower, tracked, turns) ==
  [segment EXCEPT
     !.current = TRUE, !.min = lower, !.max = bounds.max, !.estimate = bounds.estimate,
     !.status = IF bounds.status = "estimated" /\ bounds.estimate < lower
                THEN "tails" ELSE bounds.status,
     !.tracked = tracked, !.turns = turns]

GrownOrNot(segment, bounds, tracked, turns) ==
  IF bounds.status = "review" \/ bounds.min > bounds.max \/ bounds.max < segment.min
  THEN Contradiction
  ELSE Grown(segment, bounds, Larger(segment.min, bounds.min), tracked, turns)

\* `whole` spans the segment, `step` the last two frames.
Tracked(segment, whole, turns) ==
  IF whole.status = "review" \/ turns < whole.first \/ turns > whole.last THEN Contradiction
  ELSE GrownOrNot(segment, Narrowed(whole, whole.phase + Turn * turns), TRUE, turns)

ExtendedBy(segment, whole, step) ==
  IF segment.tracked /\ step.status # "review" /\ step.first = step.last
  THEN Tracked(segment, whole, segment.turns + step.first)
  ELSE GrownOrNot(segment, whole, whole.first = whole.last,
                  IF whole.first = whole.last THEN whole.first ELSE segment.turns)

Extended(segment, previous, frame) ==
  ExtendedBy(segment, Resolve(segment.anchor, frame), Resolve(previous, frame))

------------------------------------------------------------------------------
(* MeterSession.h *)

\* "awaiting" is NaN throughout: no interval is shown.
NoInterval == Unresolved("none")

Init ==
  /\ \E d \in Devices : start = d[1] /\ rate = d[2]
  /\ used = 0
  /\ clock = [boot |-> 1, now |-> 1] /\ tried = 0
  /\ session = [state |-> "empty", reference |-> NoFrame, restored |-> FALSE,
                interval |-> NoInterval, from |-> NoFrame, segment |-> NoSegment]
  /\ records = <<>>

Rejected(reason) ==
  [session EXCEPT !.state = "rejected", !.interval = Unresolved(reason),
                  !.segment.current = FALSE]

Baseline(frame) ==
  [session EXCEPT !.state = IF session.reference = NoFrame THEN "baseline" ELSE "restarted",
                  !.reference = frame, !.restored = FALSE,
                  !.interval = Unresolved("clock"), !.segment = Reset(frame)]

FollowedBy(frame, candidate, segment) ==
  IF candidate.status = "review" THEN Rejected(candidate.reason)
  ELSE IF segment = Contradiction THEN Rejected("cumulative")
  ELSE [session EXCEPT !.state = "interval", !.reference = frame, !.from = session.reference,
                       !.interval = candidate, !.segment = segment]

Followed(frame) ==
  FollowedBy(frame, Resolve(session.reference, frame),
             Extended(session.segment, session.reference, frame))

Observed(frame) ==
  IF \/ session.reference = NoFrame \/ session.restored
     \/ frame.boot # session.reference.boot
  THEN Baseline(frame) ELSE Followed(frame)

\* The dials of a register that has turned by `total`: the last errs one way, the others,
\* the secondary dial too, the same or the other way.
Shown(total, err) ==
  [i \in Dials |-> (total + (IF i = 4 THEN err.last ELSE err.others) * Reading(i)) % Revolution(i)]

Errors == [last : {-1, 1}, others : {-1, 1}]

Observe ==
  /\ tried < Readings /\ tried' = tried + 1
  /\ \E gap \in Gaps, err \in Errors :
       /\ session.reference = NoFrame => gap[1] = 0
       /\ rate # 0 => gap[1] <= rate * gap[2]
       /\ used' = used + gap[1] /\ clock' = [clock EXCEPT !.now = @ + gap[2]]
       /\ LET dial == Shown(start + used', err)
          IN session' =
               IF ~Consistent(dial) THEN Rejected("inconsistent")
               ELSE Observed([total |-> Reconstruct(dial),
                              phase |-> (start + used' + err.others) % Turn,
                              boot |-> clock.boot, at |-> clock'.now, used |-> used'])
  /\ UNCHANGED <<rate, start, records>>

\* A dial is not read, or the stages before the accounting fail.
Unread ==
  /\ session' = Rejected("unread")
  /\ UNCHANGED <<rate, used, start, clock, tried, records>>

------------------------------------------------------------------------------
(* MeterCheckpoint.h and MeterHistory.h *)

Checkpoint == [anchor |-> session.segment.anchor, reference |-> session.reference,
               min |-> session.segment.min]

\* checkpointSegment rebuilds a segment from its ends.
WithLower(segment, lower) ==
  IF segment = Contradiction \/ lower < segment.min \/ lower > segment.max
  THEN Contradiction ELSE [segment EXCEPT !.min = lower]

Rebuilt(record) ==
  WithLower(IF record.anchor = record.reference THEN Reset(record.anchor)
            ELSE Extended(Reset(record.anchor), record.anchor, record.reference), record.min)

\* encodeCheckpoint: what could not be read again is not written.
Save ==
  /\ session.state # "rejected" /\ session.segment.available /\ Rebuilt(Checkpoint) # Contradiction
  /\ Len(records) < Segments /\ ~Contains(records, Checkpoint)
  /\ records' = Append(records, Checkpoint)
  /\ UNCHANGED <<rate, used, start, clock, tried, session>>

\* A restored reference is not continued: the next frame is a new anchor.
Restart ==
  /\ Len(records) > 0 /\ clock.boot = 1
  /\ clock' = [boot |-> 2, now |-> 1]
  /\ session' = [session EXCEPT !.state = "restarted", !.reference = Last(records).reference,
                                !.restored = TRUE, !.interval = NoInterval, !.segment = NoSegment]
  /\ UNCHANGED <<rate, used, start, tried, records>>

Next == Observe \/ Unread \/ Save \/ Restart

Spec == Init /\ [][Next]_vars

SameAnchor(a, b) == a.anchor.boot = b.anchor.boot /\ a.anchor.at = b.anchor.at
Progress(early, late) ==
  late.min >= early.min /\ Resolve(early.reference, late.reference).status # "review"

Conflict == [conflict |-> TRUE, segments |-> {}]

\* Mutant: every copy of a segment counts.
MergeCountingTwice(summary, item) == [summary EXCEPT !.segments = @ \union {item}]

\* Two copies of one segment count once, as far as the later one reaches.
Merge(summary, item) ==
  LET old == {u \in summary.segments : SameAnchor(u, item)}
      u   == CHOOSE o \in old : TRUE
  IN IF summary.conflict THEN summary
     ELSE IF old = {} THEN [summary EXCEPT !.segments = @ \union {item}]
     ELSE IF u.anchor # item.anchor THEN Conflict
     ELSE IF u.reference.at = item.reference.at
          THEN IF u = item THEN summary ELSE Conflict
     ELSE LET early == IF u.reference.at < item.reference.at THEN u ELSE item
              late  == IF early = u THEN item ELSE u
          IN IF Progress(early, late)
             THEN [summary EXCEPT !.segments = (@ \ {u}) \union {late}] ELSE Conflict

Overlap(a, b) ==
  /\ a.anchor.boot = b.anchor.boot /\ a.anchor.at <= b.anchor.at /\ a # b
  /\ a.reference.at > b.anchor.at \/ (a.reference.at = b.anchor.at /\ a.reference # b.anchor)

Summary(all) ==
  LET merged == FoldLeft(Merge, [conflict |-> FALSE, segments |-> {}], all)
  IN IF \/ merged.conflict
        \/ \E r \in ToSet(all) : Rebuilt(r) = Contradiction
        \/ \E a, b \in merged.segments : Overlap(a, b)
     THEN Conflict ELSE merged

------------------------------------------------------------------------------
Length(frame, anchor) == frame.used - anchor.used
Within(min, used1, max) == min <= used1 /\ used1 <= max
Near(estimate, used1) == Within(estimate - PhaseError, used1, estimate + PhaseError)

TypeOK ==
  /\ <<start, rate>> \in Devices /\ used \in Nat
  /\ clock.boot \in 1 .. 2 /\ clock.now \in Nat /\ tried \in 0 .. Readings
  /\ session.state \in {"empty", "baseline", "restarted", "rejected", "interval"}
  /\ session.reference.total \in 0 .. (Register - 1) /\ session.reference.phase \in 0 .. (Turn - 1)
  /\ session.segment.min \in Nat /\ session.segment.max \in Nat
  /\ Len(records) <= Segments

(* While every reading errs by no more than is assumed, what has really    *)
(* flowed lies within the bounds of the interval and within those of the   *)
(* cumulative consumption, and an estimate is as near as its dial can be   *)
(* read: no turn is invented and none is lost, at carries of the dials,    *)
(* over rejected readings, ambiguous gaps and restarts (resolve,           *)
(* Cumulative::observe, Session::observe).                                 *)
ConsumptionBounded ==
  /\ session.state = "interval" =>
       LET flowed == Length(session.reference, session.from)
       IN /\ Within(session.interval.min, flowed, session.interval.max)
          /\ session.interval.status = "estimated" => Near(session.interval.estimate, flowed)
  /\ session.segment.available =>
       LET flowed == Length(session.reference, session.segment.anchor)
       IN /\ Within(session.segment.min, flowed, session.segment.max)
          /\ session.segment.status = "estimated" => Near(session.segment.estimate, flowed)

(* An honest reading is only turned down where the whole register has come *)
(* round (Session::observe, resolve).                                      *)
HonestAccepted ==
  session.state = "rejected" => session.interval.reason \in {"unread", "rollover"}

(* A segment can be saved at any moment, what was saved can be rebuilt     *)
(* with bounds that hold, and the summary of all segments on the card,     *)
(* each found twice, in the archive and in a slot, covers each stretch     *)
(* once (checkpointSegment, summarizeSegments).                            *)
HistoryCounts ==
  /\ session.segment.available => Rebuilt(Checkpoint) # Contradiction
  /\ records # <<>> =>
       LET summary == Summary(records \o records)
           Covered(F(_)) == MapThenSumSet(F, summary.segments)
       IN /\ ~summary.conflict
          /\ Within(Covered(LAMBDA s : Rebuilt(s).min),
                    Covered(LAMBDA s : Length(s.reference, s.anchor)),
                    Covered(LAMBDA s : Rebuilt(s).max))
          /\ \A i \in DOMAIN records : \E s \in summary.segments :
               SameAnchor(s, records[i]) /\ s.reference.at >= records[i].reference.at
=============================================================================
