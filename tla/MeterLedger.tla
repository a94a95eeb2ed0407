----------------------------- MODULE MeterLedger -----------------------------
(***************************************************************************)
(* What the meter's checkpoint files promise: per namespace one newest     *)
(* checkpoint that only moves forward, and the segments archived so far,   *)
(* none of which is ever dropped.                                          *)
(***************************************************************************)
EXTENDS Naturals

CONSTANTS Name, Checkpoint, None

VARIABLES head, kept

vars == <<head, kept>>

Init ==
  /\ head \in [Name -> Checkpoint \cup {None}]
  /\ kept = [n \in Name |-> {}]

\* A checkpoint either continues the segment of its predecessor, or starts
\* over once that segment is archived.
Follows(last, segments, new) ==
  last # None =>
    /\ new.by = last.by
    /\ new.reference.at >= last.reference.at
    /\ last.anchor \in {None, new.anchor} \/ last \in segments

Advance(n) ==
  /\ head'[n] \in Checkpoint
  /\ Follows(head[n], kept[n], head'[n])
  /\ head' = [head EXCEPT ![n] = head'[n]]
  /\ UNCHANGED kept

Archive(n) ==
  /\ head[n] # None
  /\ kept' = [kept EXCEPT ![n] = @ \cup {head[n]}]
  /\ UNCHANGED head

Next == \E n \in Name : Advance(n) \/ Archive(n)

Spec == Init /\ [][Next]_vars
=============================================================================
