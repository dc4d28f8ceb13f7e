---------------------------- MODULE MCMiningNode ----------------------------
(* The mining node with one transaction, a few own blocks and a few of the  *)
(* other miners.                                                             *)
EXTENDS MiningNode

CONSTANT t
OneTx == {t}
=============================================================================
