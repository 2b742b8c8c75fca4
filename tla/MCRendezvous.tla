---------------------------- MODULE MCRendezvous ----------------------------
(* Small instances of Rendezvous for TLC. *)
EXTENDS Rendezvous
CONSTANTS k, p1, p2, tk, t1, t2, t3

\* The init daemon's threads and a thread of the other process.
ThreePeers == {<<p1, t1>>, <<p1, t3>>, <<p2, t2>>}

\* The init daemon's thread and a thread of the other process.
TwoPeers == {<<p1, t1>>, <<p2, t2>>}
=============================================================================
