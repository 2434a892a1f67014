---------------------------- MODULE MCConfLoader ----------------------------
(* One entry, a getter, the poller and two Stop calls.                     *)
EXTENDS ConfLoader

CONSTANTS e1, g1, s1, s2

OneEntry    == {e1}
NoEntries   == {}
OneGetter   == {g1}
TwoStoppers == {s1, s2}
Bad         == {2}
=============================================================================
