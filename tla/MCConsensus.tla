---------------------------- MODULE MCConsensus ----------------------------
(* A user, a storage node, a miner and a full node, with every setting of    *)
(* their clocks.                                                           *)
EXTENDS Consensus

CONSTANTS u, uPeer, s, sHost, sPeer, m1, m2, f

MCUsers        == {[key |-> u, ipfs |-> uPeer]}
MCStorageNodes == {[key |-> s, host |-> sHost, ipfs |-> sPeer]}
MCMiners       == {m1}
MCFullNodes    == {m2}
MCFiles        == {f}
=============================================================================
