---------------------------- MODULE MCBlockchain ----------------------------
(* Two instances of Blockchain.  The wide one has a chain b1 <- b2 <- b3     *)
(* with a fork b1 <- f2, the narrow one b1 <- b2 with the same fork.  Two    *)
(* peers follow the two branches, or one of them lags behind the other.      *)
EXTENDS Blockchain, TLC

CONSTANTS b1, b2, b3, f2, p, q, self

WideBlocks == {b1, b2, b3, f2}
WideParent == b1 :> None @@ b2 :> b1 @@ b3 :> b2 @@ f2 :> b1
WideHeight == b1 :> 1 @@ b2 :> 2 @@ b3 :> 3 @@ f2 :> 2

NarrowBlocks == {b1, b2, f2}
NarrowParent == b1 :> None @@ b2 :> b1 @@ f2 :> b1
NarrowHeight == b1 :> 1 @@ b2 :> 2 @@ f2 :> 2

MCPeers == {p, q}

\* p has one branch, and a shorter registry from before it; q has the other.
WidePeerRegistries   == p :> {<<b1>>, <<b1, b2, b3>>} @@ q :> {<<b1, f2>>}
ShortPeerRegistries  == p :> {<<b1, b2>>} @@ q :> {<<b1>>}
NarrowPeerRegistries == p :> {<<b1>>, <<b1, b2>>} @@ q :> {<<b1, f2>>}

AllOnTime == {}
TipAhead  == {b3}
=============================================================================
