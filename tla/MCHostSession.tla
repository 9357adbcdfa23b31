---------------------------- MODULE MCHostSession ----------------------------
(* A small instance of HostSession: u1 of two frames, which the badge may  *)
(* hold locked and which a neighbour offers unlocked.                        *)
EXTENDS HostSession

CONSTANTS u1, send, recv, Peer

HostAnimLen == [n \in Name |-> IF n = u1 THEN MaxFrames ELSE 1]

(* The order of these fields is the one TLC is to compare messages in.     *)
Offered2(n) == [op |-> "PUTFILE", from |-> Peer,
                body |-> [name |-> n, len |-> HostAnimLen[n], delay |-> 1, id |-> 0,
                          unlocked |-> TRUE, direct |-> FALSE]]

HostSystem == <<send, recv>>
HostNames == {u1, send, recv}
SeedHost == {[name |-> u1, len |-> HostAnimLen[u1], delay |-> 1, id |-> 0,
              unlocked |-> FALSE, direct |-> FALSE]}
NeighbourOffers == {Offered2(u1)}
=============================================================================
