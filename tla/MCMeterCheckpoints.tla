-------------------------- MODULE MCMeterCheckpoints --------------------------
EXTENDS MeterCheckpoints, TLC

\* Two assumptions; no action tells one from the other.
CONSTANTS unlimited, limited
MCName == {unlimited, limited}
MCSymmetry == Permutations(MCName)
=============================================================================
