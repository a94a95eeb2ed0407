----------------------------- MODULE ManagedUpdate -----------------------------
(***************************************************************************)
(* What a managed update promises: complete bundles are published for      *)
(* good, an application is mapped to one bundle for good, and the          *)
(* application that boots next always has its assets.                      *)
(***************************************************************************)
CONSTANTS Bundle, App, AppOf, Factory, None

VARIABLES
  published,  \* the bundles whose objects are complete
  mapped,     \* mapped[a]: the bundle application a runs with, or None
  selected,   \* the application that boots next
  running     \* the application that runs

vars == <<published, mapped, selected, running>>

Usable(a) == mapped[a] \in published

Init ==
  /\ published = {Factory}
  /\ mapped = [a \in App |-> IF a = AppOf[Factory] THEN Factory ELSE None]
  /\ selected = AppOf[Factory] /\ running = AppOf[Factory]

Publish == /\ \E b \in Bundle \ published : published' = published \cup {b}
           /\ UNCHANGED <<mapped, selected, running>>

\* Never replaces a mapping, and never maps the application that runs.
Map ==
  /\ \E b \in published :
       /\ mapped[AppOf[b]] = None /\ AppOf[b] # running
       /\ mapped' = [mapped EXCEPT ![AppOf[b]] = b]
  /\ UNCHANGED <<published, selected, running>>

\* Only once per start, and only an application with its assets.
Select ==
  /\ selected = running
  /\ \E a \in App \ {running} : Usable(a) /\ selected' = a
  /\ UNCHANGED <<published, mapped, running>>

\* The bootloader may fall back, again to an application with its assets.
Start ==
  /\ \E a \in App : Usable(a) /\ selected' = a /\ running' = a
  /\ UNCHANGED <<published, mapped>>

Next == Publish \/ Map \/ Select \/ Start

Spec == Init /\ [][Next]_vars
=============================================================================
