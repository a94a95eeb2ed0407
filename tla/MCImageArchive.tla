---------------------------- MODULE MCImageArchive ----------------------------
EXTENDS ImageArchive, TLC

CONSTANTS c1, c2, c3, c4, day, night
MCCapture == {c1, c2, c3, c4}
\* Three images with the same settings, enough to fill the queue, and one with others.
MCSettingsOf == (c1 :> day) @@ (c2 :> day) @@ (c3 :> day) @@ (c4 :> night)
\* What differs in nothing may be exchanged.
MCSymmetry    == Permutations({c1, c2, c3})
=============================================================================
