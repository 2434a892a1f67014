----------------------------- MODULE MCErrGroup -----------------------------
EXTENDS ErrGroup

CONSTANTS p, c, d, t1, t2, u1, v1

\* A group p, a child c that the task t1 of p owns, and a child d of c that the
\* task u1 of c owns.
ThreeGroups == {p, c, d}
FourTasks   == {t1, t2, u1, v1}
Parents == [g \in ThreeGroups |-> IF g = c THEN p ELSE IF g = d THEN c ELSE NoGroup]
Owners  == [g \in ThreeGroups |-> IF g = c THEN t1 ELSE IF g = d THEN u1 ELSE Main]
GivenTo == [t \in FourTasks |-> IF t \in {t1, t2} THEN p ELSE IF t = u1 THEN c ELSE d]
ZeroAndOne == {0, 1}

\* What the theorem GroupsNeverStuck assumes of the groups holds of these.
ASSUME TheseAreNested == \E height \in [Groups -> 0..2] : Nested(height)
=============================================================================
