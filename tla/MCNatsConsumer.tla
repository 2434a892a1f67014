--------------------------- MODULE MCNatsConsumer ---------------------------
(* The consumer with up to three messages and two slots.                   *)
EXTENDS NatsConsumer, TLC

CONSTANTS m1, m2, m3, s1, s2

TwoMsgs    == {m1, m2}
ThreeMsgs  == {m1, m2, m3}
OneSlot    == {s1}
TwoSlots   == {s1, s2}
NoneBroken == {}
LastBroken == {m2}

Symmetry == Permutations(Msgs \ NoMetadata) \cup Permutations(Slots)
=============================================================================
