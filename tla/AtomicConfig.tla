----------------------------- MODULE AtomicConfig -----------------------------
(***************************************************************************)
(* What the journaled config.ini promises its clients: one register whose  *)
(* content is always one of the values the answers given so far allow.     *)
(***************************************************************************)
CONSTANTS Config, Damaged

VARIABLES value, promised

vars == <<value, promised>>

Init == value \in Config /\ promised = {}

\* A save from one configuration to another is under way: it may take effect
\* or not, but only if the register still holds what the client had read.
Begin(from, to) ==
  /\ value = from
  /\ promised' = {from, to}
  /\ UNCHANGED value

Settle == value' \in promised /\ UNCHANGED promised

\* The client learns the outcome.
Reply == promised' = {value} /\ value \in Config /\ UNCHANGED value

\* An unjournaled writer: no promise survives, any content may follow.
Raw == promised' = {} /\ value' \in Config \cup Damaged

Next == Settle \/ Reply \/ Raw \/ \E from, to \in Config : Begin(from, to)

Spec == Init /\ [][Next]_vars
=============================================================================
