------------------------------ MODULE LeasePool ------------------------------
(***************************************************************************)
(* What the admission of WebSocket upgrades promises: a pool of leases,    *)
(* each held by one handler for one client address, granted only while     *)
(* there is room and given back exactly once.  It keeps no counters: who   *)
(* holds what is the whole state.  AdmissionControl implements it with an  *)
(* integer and a map of integers.                                          *)
(***************************************************************************)
EXTENDS Naturals, FiniteSets

CONSTANTS Holders, Peers, Capacity, PeerCapacity   \* a capacity of 0 is unlimited

VARIABLE leases       \* the leases held: records of a holder and its address

LeaseRecord == [holder : Holders, peer : Peers]

HeldFor(p) == {l \in leases : l.peer = p}

Room(p) ==
    /\ Capacity > 0 => Cardinality(leases) < Capacity
    /\ PeerCapacity > 0 => Cardinality(HeldFor(p)) < PeerCapacity

Grant(h, p) ==
    /\ \A l \in leases : l.holder # h
    /\ Room(p)
    /\ leases' = leases \cup {[holder |-> h, peer |-> p]}

Return(h, p) ==
    /\ [holder |-> h, peer |-> p] \in leases
    /\ leases' = leases \ {[holder |-> h, peer |-> p]}

Init == leases = {}
Next == \E h \in Holders, p \in Peers : Grant(h, p) \/ Return(h, p)
Spec == Init /\ [][Next]_leases
=============================================================================
