----------------------------- MODULE MCTimeline -----------------------------
\* Small instances of Timeline: the newest status and the one before it boost
\* the oldest.
EXTENDS Timeline

\* BoostedOnce is checked on lists SkipInsert looks through to the end.
ASSUME ListIsShallow == DepthCovers

Boosts == [x \in Ids |-> IF x >= 2 /\ x >= N - 1 THEN 1 ELSE 0]
Author == [x \in Ids |-> IF x = 1 THEN "a" ELSE "b"]
==============================================================================
