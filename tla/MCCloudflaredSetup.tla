-------------------------- MODULE MCCloudflaredSetup --------------------------
\* Two tunnels of which one has the other's name in its line, as "road-eu" has "road".
EXTENDS CloudflaredSetup

CONSTANTS n1, n2

MCShown == [name \in TunnelNames |-> IF name = n2 THEN {n1, n2} ELSE {name}]
=============================================================================
