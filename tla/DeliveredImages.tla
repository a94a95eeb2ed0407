---------------------------- MODULE DeliveredImages ----------------------------
(***************************************************************************)
(* What the image archive promises: a verified image stays on the card     *)
(* until the receiver holds it, together with the settings it was taken    *)
(* with.                                                                   *)
(***************************************************************************)
CONSTANTS Capture, Settings, SettingsOf

VARIABLES card, images, settings

vars == <<card, images, settings>>

Init == card = {} /\ images = {} /\ settings = {}

Store(c)    == card' = card \cup {c} /\ UNCHANGED <<images, settings>>
Describe(s) == settings' = settings \cup {s} /\ UNCHANGED <<card, images>>

\* Only images that were on the card arrive, never before their settings.
Arrive(c) ==
  /\ SettingsOf[c] \in settings
  /\ images' = images \cup {c}
  /\ UNCHANGED <<card, settings>>

Discard(c) ==
  /\ c \in images
  /\ card' = card \ {c}
  /\ UNCHANGED <<images, settings>>

Next == \/ \E c \in Capture : Store(c) \/ Arrive(c) \/ Discard(c)
        \/ \E s \in Settings : Describe(s)

Spec == Init /\ [][Next]_vars
=============================================================================
