--------------------------- MODULE MCNatsProducer ---------------------------
(* The producer with two topics, two publishes at a time and two shutdowns, *)
(* and the streams of up to two subjects that its Start sees to.            *)
EXTENDS NatsProducer

CONSTANTS t1, t2, p1, p2, s1, s2

TwoTopics   == {t1, t2}
TwoPubs     == {p1, p2}
TwoStoppers == {s1, s2}
ThreeTokens == {"schedules", "t", "x"}

SmallStreams == {{}} \cup {S \in {{s, t} : s, t \in Subjects} : Apart(S)}
=============================================================================
