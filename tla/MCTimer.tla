------------------------------- MODULE MCTimer --------------------------------
\* Small instances of Timer for TLC.
EXTENDS Timer

CONSTANTS d1, e1, e2

MCTask == {owner}
MCService == {d1}
MCTimerEvent == {e1, e2}
MCRequest == {d1, e1, e2}
MCNoService == {}
=============================================================================
