--------------------------- MODULE MCUDPPeerRelay ---------------------------
\* Model values for the liveness run of UDPPeerRelay.
EXTENDS UDPPeerRelay
CONSTANTS s1, s2, p1
=============================================================================
