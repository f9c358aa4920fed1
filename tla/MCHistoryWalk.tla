--------------------------- MODULE MCHistoryWalk ---------------------------
EXTENDS HistoryWalk

\* The oldest message is in a DM without a name, the others are in one space.
MCSpaceOf == [m \in Messages |-> IF m = 1 THEN "dm" ELSE "s1"]
=============================================================================
