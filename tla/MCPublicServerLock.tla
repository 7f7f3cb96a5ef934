------------------------- MODULE MCPublicServerLock -------------------------
\* Model values for the run of PublicServerLock with two processes at once.
EXTENDS PublicServerLock
CONSTANTS w1, w2, f1, f2, f3
MCTwoWizards == {w1, w2}
MCThreeFiles == {f1, f2, f3}
=============================================================================
