---------------------------- MODULE MCDiscovery ----------------------------
(* Two bootstrap nodes and three others, one of them with only private      *)
(* addresses.                                                              *)
EXTENDS Discovery

CONSTANTS b, c, n, o, p
MCBootstraps == {b, c}
MCPeers      == {n, o, p}
MCPublic     == {n, o}
=============================================================================
