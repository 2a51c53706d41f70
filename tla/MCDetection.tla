---------------------------- MODULE MCDetection ----------------------------
\* Detection for TLC: where the player walks and how he turns.
EXTENDS Detection

\* The ends of the range of atan2f.
SomeHeadings == {UNITS \div 2, 1 - UNITS \div 2}
SmallTurns == {-1, 0, 1}

\* None, equip, attack, its follow-through and the pause after it.
SomeActions == {-1, 0, 2, 3, 4}
=============================================================================
