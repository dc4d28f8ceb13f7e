-------------------------- MODULE MiningNodeProofs --------------------------
(***************************************************************************)
(* Proofs about MiningNode, for any transactions, any number of blocks and *)
(* any order of announcements: which blocks the node itself announces.     *)
(***************************************************************************)
EXTENDS MiningNode, TLAPS

\* One more announcement leaves the older blocks, and what their hashes stand for.
LEMMA BlocksGrow ==
    ASSUME blocks \in Seq(Announced), NEW b \in Announced, blocks' = Append(blocks, b)
    PROVE  /\ blocks' \in Seq(Announced)
           /\ Len(blocks) \in Nat /\ Ids' = 1 .. Len(blocks) + 1
           /\ \A i \in Ids : i \in Ids' /\ i # Len(blocks) + 1 /\ blocks'[i] = blocks[i]
           /\ blocks'[Len(blocks) + 1] = b
           /\ \A q \in Seq(Ids) : q \in Seq(Ids')
<1>1. /\ blocks' \in Seq(Announced)
      /\ Len(blocks) \in Nat /\ Ids' = 1 .. Len(blocks) + 1
      /\ \A i \in Ids : i \in Ids' /\ i # Len(blocks) + 1 /\ blocks'[i] = blocks[i]
      /\ blocks'[Len(blocks) + 1] = b
      BY DEF Ids
<1>2. \A q \in Seq(Ids) : q \in Seq(Ids')
      BY <1>1
<1> QED BY <1>1, <1>2

LEMMA BlockTypes ==
    ASSUME TypeOK
    PROVE  /\ \A i \in Ids : blocks[i] \in Announced
           /\ \A p : HeightOf(p) \in Nat
<1>1. \A i \in Ids : blocks[i] \in Announced
      BY DEF TypeOK, Ids
<1>2. \A i \in Ids : blocks[i].height \in Nat
      BY <1>1 DEF Announced
<1> QED BY <1>1, <1>2 DEF HeightOf

LEMMA ForeignBlockIs ==
    ASSUME TypeOK, ForeignBlock
    PROVE  \E b \in Announced :
              b.own = FALSE /\ b.height # 0 /\ blocks' = Append(blocks, b)
<1>1. PICK p \in Ids \cup {0}, T \in SUBSET Txs :
         blocks' = Append(blocks, [parent |-> p, height |-> HeightOf(p) + 1, txs |-> T, own |-> FALSE])
      BY DEF ForeignBlock, Highest
<1> DEFINE b == [parent |-> p, height |-> HeightOf(p) + 1, txs |-> T, own |-> FALSE]
<1>2. p \in Nat /\ HeightOf(p) \in Nat
      BY BlockTypes DEF Ids
<1>3. b \in Announced /\ b.own = FALSE /\ b.height # 0
      BY <1>2 DEF Announced
<1> QED BY <1>1, <1>3

LEMMA AnnouncedBlockIs ==
    ASSUME TypeOK, Announce
    PROVE  \E b \in Announced :
              /\ b.own = TRUE /\ b.height = currentBlock.height /\ b.parent = currentBlock.parent
              /\ blocks' = Append(blocks, b)
BY DEF TypeOK, Headers, Announce, Announced

-----------------------------------------------------------------------------

\* saveBlock has a block.
TypeInv == TypeOK /\ (handler.at = "unlink" => handler.block # 0)

LEMMA InitTypeInv == Init => TypeInv
<1> SUFFICES ASSUME Init PROVE TypeInv
    OBVIOUS
<1>1. CASE Founded
  <2>1. blocks \in Seq(Announced) /\ Len(blocks) = 1 /\ Ids = {1} /\ <<>> \in Seq(Ids)
        BY <1>1 DEF Init, Ids, Announced
  <2> QED BY <2>1 DEF Init, TypeInv, TypeOK, NewBlock, Headers
<1>2. CASE ~Founded
  <2>1. blocks \in Seq(Announced) /\ Len(blocks) = 0 /\ Ids = {} /\ <<>> \in Seq(Ids)
        BY <1>2 DEF Init, Ids
  <2> QED BY <2>1 DEF Init, TypeInv, TypeOK, NewBlock, Headers
<1> QED BY <1>1, <1>2

LEMMA GrowthTypeInv ==
    ASSUME TypeInv, ForeignBlock \/ Announce
    PROVE  TypeInv'
<1>1. PICK b \in Announced : blocks' = Append(blocks, b)
      BY ForeignBlockIs, AnnouncedBlockIs DEF TypeInv
<1>2. /\ blocks' \in Seq(Announced) /\ Ids \subseteq Ids' /\ blockReceived' \in Seq(Ids')
      BY <1>1, BlocksGrow DEF TypeInv, TypeOK, ForeignBlock, Announce
<1>3. CASE ForeignBlock
      BY <1>2, <1>3 DEF TypeInv, TypeOK, ForeignBlock, chain, mining, pool
<1>4. CASE Announce
      BY <1>2, <1>4 DEF TypeInv, TypeOK, Announce, chain, pool
<1> QED BY <1>3, <1>4

LEMMA NextTypeInv == TypeInv /\ [Next]_vars => TypeInv'
<1> SUFFICES ASSUME TypeInv, [Next]_vars, ~ForeignBlock, ~Announce PROVE TypeInv'
    BY GrowthTypeInv
<1>0. blocks' = blocks /\ Ids' = Ids
      BY DEF Next, vars, network, DeliverBlock, LoseBlock, Chain, HandleBlock, FallBehind,
          SetAside,
         Unlink, Link, SignalMiner, CatchUp, Cleaner, CleanerReceives, CleanerCompares,
         CleanerForwards,
         ReceiveTx, AppendTx, Miner, StartMiner, DrainSignals, DrainCleanedSignals, ChooseBlock,
         ResetPool, KeepBlock, StopMining, MineInVain, FindNonce, AnnounceFails, ReadPool,
         PutBack,
         StopWaiting, Ids
<1> USE <1>0 DEF TypeInv, TypeOK, chain, mining, pool
<1>1. CASE DeliverBlock
  <2>1. blockReceived' \in Seq(Ids) /\ delivered' \subseteq Ids
        BY <1>1 DEF DeliverBlock
  <2> QED BY <1>1, <2>1 DEF DeliverBlock
<1>2. CASE LoseBlock
      BY <1>2 DEF LoseBlock
<1>3. CASE HandleBlock \/ FallBehind \/ SetAside
  <2>1. /\ blockReceived # <<>> /\ blockReceived' = Tail(blockReceived)
        /\ UNCHANGED <<store, lastBlock, delivered, cleaner, mining, pool>>
        BY <1>3 DEF HandleBlock, FallBehind, SetAside
  <2>2. Head(blockReceived) \in Ids /\ blockReceived' \in Seq(Ids)
        BY <2>1
  <2>3. currentState' \in {"UpToDate", "Syncing"}
        BY <1>3 DEF HandleBlock, FallBehind, SetAside
  <2>4. handler' \in [at : {"idle", "unlink", "link", "publish", "signal"}, block : Ids \cup {0}]
        BY <1>3, <2>2 DEF HandleBlock, FallBehind, SetAside
  <2>5. handler'.at = "unlink" => handler'.block # 0
        BY <1>3, <2>2 DEF HandleBlock, FallBehind, SetAside, Ids
  <2> QED BY <2>1, <2>2, <2>3, <2>4, <2>5
<1>4. CASE Unlink
  <2>1. store' \subseteq Ids
        BY <1>4 DEF Unlink
  <2> QED BY <1>4, <2>1 DEF network, Unlink
<1>5. CASE Link
  <2>1. PICK b \in Ids \cup {0} : handler = [at |-> "link", block |-> b]
        BY <1>5 DEF Link
  <2>2. handler' = [at |-> "publish", block |-> b] /\ lastBlock' = b
        BY <1>5, <2>1 DEF Link
  <2> QED BY <1>5, <2>2 DEF network, Link
<1>6. CASE SignalMiner
  <2>1. PICK b \in Ids \cup {0} : handler = [at |-> "publish", block |-> b]
        BY <1>6 DEF SignalMiner
  <2>2. handler' = [at |-> "signal", block |-> b]
        BY <1>6, <2>1 DEF SignalMiner
  <2> QED BY <1>6, <2>2 DEF network, SignalMiner
<1>7. CASE CatchUp
      BY <1>7 DEF network, CatchUp
<1>8. CASE CleanerReceives
      BY <1>8 DEF network, CleanerReceives
<1>9. CASE CleanerCompares \/ CleanerForwards
      BY <1>9 DEF network, CleanerCompares, CleanerForwards
<1>10. CASE ReceiveTx \/ AppendTx
      BY <1>10 DEF network, ReceiveTx, AppendTx
<1>11. CASE ChooseBlock
  <2>1. currentBlock' \in Headers
        BY <1>11, MiningAssumptions, BlockTypes DEF ChooseBlock, LastReads, NewBlock, NoHash,
            Headers, Ids
  <2> QED BY <1>11, <2>1 DEF network, ChooseBlock
<1>12. CASE StartMiner
      BY <1>12 DEF network, StartMiner
<1>13. CASE ResetPool \/ KeepBlock
      BY <1>13 DEF network, ResetPool, KeepBlock
<1>14. CASE StopMining
      BY <1>14 DEF network, StopMining
<1>15. CASE DrainSignals
      BY <1>15 DEF network, DrainSignals
<1>16. CASE DrainCleanedSignals
      BY <1>16 DEF network, DrainCleanedSignals
<1>17. CASE MineInVain \/ FindNonce \/ AnnounceFails \/ ReadPool \/ PutBack \/ StopWaiting
      BY <1>17 DEF network, MineInVain, FindNonce, AnnounceFails, ReadPool, PutBack,
          StopWaiting, Headers
<1>18. CASE UNCHANGED vars
      BY <1>18 DEF network, vars
<1> QED BY <1>1, <1>2, <1>3, <1>4, <1>5, <1>6, <1>7, <1>8, <1>9, <1>10, <1>11, <1>12, <1>15,
    <1>16, <1>13, <1>14, <1>17, <1>18
        DEF Next, Chain, Cleaner, Miner

\* Every variable of the mining node keeps its type; a hash in use is that of a block.
THEOREM TypeCorrect == Spec => []TypeOK
<1>1. TypeInv => TypeOK
      BY DEF TypeInv
<1> QED BY <1>1, InitTypeInv, NextTypeInv, PTL DEF Spec

-----------------------------------------------------------------------------
(* What the goroutines know of one another.                                *)

Chosen == {"reset", "mine", "announce"}

\* The node has announced its child of p, and will not do so again.
Taken(p) == HeightOf(p) # 1 /\ \E i \in Own : blocks[i].parent = p

HeightsInv == \A i \in Ids : blocks[i].height # 0

\* The miner's block is a genesis, built on the empty block, or on a stored block.
CurrentInv ==
    /\ currentBlock.height # 0
    /\ currentBlock.height # 1 =>
          /\ currentBlock.parent \in store
          /\ currentBlock.height = HeightOf(currentBlock.parent) + 1
    /\ miner \in {"announce", "wait"} => Valid(currentBlock)

\* saveBlock of a new block, or of a genesis, in UpToDate.
HandlerInv ==
    /\ lastBlock \in store \cup {0}
    /\ handler.at \in {"unlink", "link"} => currentState = "UpToDate" /\ handler.block # 0
    /\ handler.at = "unlink" => handler.block \notin store \/ IsGenesis(blocks[handler.block])
    /\ handler.at = "link" =>
          /\ lastBlock = 0
          /\ handler.block \in store
          /\ ~Taken(handler.block)
          /\ currentBlock.height # 1 /\ currentBlock.parent = handler.block =>
                HeightOf(handler.block) = 1

\* The last block has an own child on its way to the node only while the miner waits
\* for it; what the miner works on has no own sibling.
MinerInv ==
    /\ lastBlock # 0 /\ Taken(lastBlock) => miner = "wait" /\ currentBlock.parent = lastBlock
    /\ miner \in Chosen /\ Valid(currentBlock) => ~Taken(currentBlock.parent)

\* Without a last block the miner has its first genesis, or one that is refused.
UnknownInv ==
    /\ miner = "start" => ~lastKnown
    /\ ~lastKnown /\ miner # "wait" =>
          currentBlock.height = 1 /\ (currentBlock.parent = 0 => ~Taken(0))

MiningInv ==
    /\ TypeInv
    /\ OneOwnChildPerParent
    /\ OwnBlocksExtendStore
    /\ HeightsInv
    /\ CurrentInv
    /\ HandlerInv
    /\ MinerInv
    /\ UnknownInv

LEMMA InitMiningInv == Init => MiningInv
<1> SUFFICES ASSUME Init PROVE MiningInv
    OBVIOUS
<1>1. Own = {} /\ \A i \in Ids : blocks[i].height = 1
      BY DEF Init, Own, Ids
<1>2. TypeInv /\ lastBlock \in store \cup {0}
      BY InitTypeInv DEF TypeInv, TypeOK, Init
<1> QED BY <1>1, <1>2 DEF Init, MiningInv, OneOwnChildPerParent, OwnBlocksExtendStore,
    HeightsInv, CurrentInv,
       HandlerInv, MinerInv, UnknownInv, Taken, NewBlock, Valid

\* The chain and the cleaner: no announcement, and the miner goes on.
LEMMA ChainMiningInv ==
    ASSUME MiningInv, TypeInv', blocks' = blocks, Chain \/ CatchUp \/ Cleaner
    PROVE  MiningInv'
<1>0. Ids' = Ids /\ Own' = Own
      BY DEF Ids, Own
<1> USE <1>0 DEF MiningInv, TypeInv, TypeOK, OneOwnChildPerParent, OwnBlocksExtendStore,
    HeightsInv, CurrentInv,
        HandlerInv, MinerInv, UnknownInv, Taken, HeightOf, Valid, IsGenesis, Chosen,
        chain, network, mining, pool
<1>1. CASE HandleBlock
      BY <1>1 DEF HandleBlock
<1>2. CASE FallBehind \/ SetAside
      BY <1>2 DEF FallBehind, SetAside
<1>3. CASE Unlink
      BY <1>3 DEF Unlink
<1>4. CASE Link
      BY <1>4 DEF Link
<1>5. CASE SignalMiner
      BY <1>5 DEF SignalMiner
<1>6. CASE CatchUp
      BY <1>6 DEF CatchUp
<1>7. CASE CleanerReceives
      BY <1>7 DEF CleanerReceives
<1>8. CASE CleanerCompares \/ CleanerForwards
      BY <1>8 DEF CleanerCompares, CleanerForwards
<1> QED BY <1>1, <1>2, <1>3, <1>4, <1>5, <1>6, <1>7, <1>8 DEF Chain, Cleaner

\* The miner's next block: a child of the last block, which has no own child on its way,
\* or one built on the empty block.
LEMMA ChooseMiningInv ==
    ASSUME MiningInv, TypeInv', ChooseBlock
    PROVE  MiningInv'
<1>1. /\ miner = "choose" /\ miner' = "reset"
      /\ UNCHANGED <<blocks, store, lastBlock, currentState, handler>>
      BY DEF ChooseBlock, network, chain
<1>2. /\ Ids' = Ids /\ Own' = Own
      /\ \A p : HeightOf(p)' = HeightOf(p) /\ (Taken(p)' <=> Taken(p))
      BY <1>1 DEF Ids, Own, HeightOf, Taken
<1>3. /\ currentBlock' \in Headers /\ lastBlock \in Ids \cup {0}
      /\ OneOwnChildPerParent' /\ OwnBlocksExtendStore' /\ HeightsInv'
      BY <1>1, <1>2
      DEF TypeInv, TypeOK, MiningInv, OneOwnChildPerParent, OwnBlocksExtendStore, HeightsInv,
          Own, IsGenesis, HeightOf, Ids
<1>4. lastBlock # 0 => ~Taken(lastBlock)
      BY <1>1 DEF MiningInv, MinerInv
<1>5. /\ currentBlock'.height # 0
      /\ lastKnown' => /\ lastBlock # 0
                       /\ currentBlock'.parent = lastBlock
                       /\ currentBlock'.height = HeightOf(lastBlock) + 1
                       /\ currentBlock'.height # 1
      /\ ~lastKnown' => currentBlock'.height = 1 /\ currentBlock'.parent # 0
  <2>1. PICK last \in {lastBlock, 0} :
            /\ lastKnown' = (last # 0)
            /\ currentBlock' = IF last # 0 THEN NewBlock(trxPool, last, HeightOf(last) + 1)
                               ELSE NewBlock(trxPool, NoHash, 1)
        BY DEF ChooseBlock, LastReads
  <2>2. CASE last = 0
    <3>1. currentBlock' = [parent |-> NoHash, height |-> 1, txs |-> trxPool] /\ ~lastKnown'
          BY <2>1, <2>2 DEF NewBlock
    <3>2. currentBlock'.height = 1 /\ currentBlock'.parent = NoHash /\ NoHash # 0
          BY <3>1, MiningAssumptions DEF NoHash
    <3> QED BY <3>1, <3>2
  <2>3. CASE last # 0
    <3>1. HeightOf(lastBlock) \in Nat \ {0}
          BY <1>3, <2>1, <2>3, BlockTypes DEF MiningInv, TypeInv, HeightsInv, HeightOf
    <3>2. /\ currentBlock' = [parent |-> lastBlock, height |-> HeightOf(lastBlock) + 1, txs |-> trxPool]
          /\ lastKnown' = TRUE /\ lastBlock # 0
          BY <2>1, <2>3 DEF NewBlock
    <3>3. currentBlock'.height = HeightOf(lastBlock) + 1 /\ currentBlock'.parent = lastBlock
          BY <3>2
    <3> QED BY <3>1, <3>2, <3>3
  <2> QED BY <2>2, <2>3
<1>6. CurrentInv'
      BY <1>1, <1>2, <1>5 DEF MiningInv, HandlerInv, CurrentInv
<1>7. HandlerInv'
      BY <1>1, <1>2, <1>5 DEF MiningInv, HandlerInv, IsGenesis
<1>8. MinerInv' /\ UnknownInv'
      BY <1>1, <1>2, <1>4, <1>5 DEF MinerInv, UnknownInv, Valid
<1> QED BY <1>3, <1>6, <1>7, <1>8 DEF MiningInv

\* The miner between two announcements.
LEMMA MinerMiningInv ==
    ASSUME MiningInv, TypeInv', blocks' = blocks, ~Announce, Miner \/ ReceiveTx \/ AppendTx
    PROVE  MiningInv'
<1>0. Ids' = Ids /\ Own' = Own
      BY DEF Ids, Own
<1> USE <1>0 DEF MiningInv, TypeInv, TypeOK, OneOwnChildPerParent, OwnBlocksExtendStore,
    HeightsInv, CurrentInv,
        HandlerInv, MinerInv, UnknownInv, Taken, HeightOf, Valid, IsGenesis, Chosen,
        chain, network, mining, pool
<1>1. CASE StartMiner
      BY <1>1 DEF StartMiner
<1>2. CASE DrainSignals
      BY <1>2 DEF DrainSignals
<1>3. CASE DrainCleanedSignals
      BY <1>3 DEF DrainCleanedSignals
<1>4. CASE ChooseBlock
      BY <1>4, ChooseMiningInv
<1>5. CASE ResetPool \/ KeepBlock
      BY <1>5 DEF ResetPool, KeepBlock
<1>6. CASE StopMining
      BY <1>6 DEF StopMining
<1>7. CASE MineInVain \/ AnnounceFails
      BY <1>7 DEF MineInVain, AnnounceFails
<1>8. CASE FindNonce
      BY <1>8 DEF FindNonce
<1>9. CASE ReadPool \/ PutBack
      BY <1>9 DEF ReadPool, PutBack
<1>10. CASE StopWaiting
  <2>1. /\ miner = "wait" /\ lastBlock # 0 /\ HeightOf(lastBlock) >= currentBlock.height
        /\ miner' = "drain" /\ lastKnown' /\ UNCHANGED <<store, lastBlock, currentState, handler, currentBlock>>
        BY <1>10 DEF StopWaiting
  <2>2. ~Taken(lastBlock)
    <3>1. HeightOf(lastBlock) \in Nat /\ currentBlock.height \in Nat
          BY BlockTypes DEF Headers
    <3> QED BY <2>1, <3>1
  <2> QED BY <2>1, <2>2
<1>11. CASE ReceiveTx \/ AppendTx
      BY <1>11 DEF ReceiveTx, AppendTx
<1> QED BY <1>1, <1>2, <1>3, <1>4, <1>5, <1>6, <1>7, <1>8, <1>9, <1>10, <1>11 DEF Miner

\* Another announcement: what hashes stand for, and whose child is announced, stays,
\* but for the child of the block the node itself announces.
LEMMA GrowthMining ==
    ASSUME TypeInv, NEW b \in Announced, blocks' = Append(blocks, b)
    PROVE  /\ \A p \in Ids \cup {0} : HeightOf(p)' = HeightOf(p)
           /\ Own' = IF b.own THEN Own \cup {Len(blocks) + 1} ELSE Own
           /\ \A i \in Ids : blocks'[i] = blocks[i]
           /\ \A p \in Ids \cup {0} :
                 Taken(p)' <=> (Taken(p) \/ (b.own /\ HeightOf(p) # 1 /\ b.parent = p))
<1>1. /\ Len(blocks) \in Nat /\ Ids' = 1 .. Len(blocks) + 1
      /\ \A i \in Ids : i \in Ids' /\ i # Len(blocks) + 1 /\ blocks'[i] = blocks[i]
      /\ blocks'[Len(blocks) + 1] = b
      BY BlocksGrow DEF TypeInv, TypeOK
<1>2. \A p \in Ids \cup {0} : HeightOf(p)' = HeightOf(p)
      BY <1>1 DEF HeightOf, Ids
<1>3. Own' = IF b.own THEN Own \cup {Len(blocks) + 1} ELSE Own
      BY <1>1 DEF Own, Ids
<1>4. \A p \in Ids \cup {0} :
         Taken(p)' <=> (Taken(p) \/ (b.own /\ HeightOf(p) # 1 /\ b.parent = p))
      BY <1>1, <1>2, <1>3 DEF Taken, Own
<1> QED BY <1>1, <1>2, <1>3, <1>4

\* The hashes the invariants speak of are those of blocks announced before, or 0.
LEMMA HashesInUse ==
    ASSUME MiningInv
    PROVE  /\ store \subseteq Ids /\ lastBlock \in Ids \cup {0} /\ handler.block \in Ids \cup {0}
           /\ Own \subseteq Ids
           /\ \A i \in Own : blocks[i].parent \in Ids \cup {0}
           /\ currentBlock.height # 1 => currentBlock.parent \in Ids
<1>1. /\ store \subseteq Ids /\ lastBlock \in Ids \cup {0} /\ handler.block \in Ids \cup {0}
      /\ Own \subseteq Ids
      BY DEF MiningInv, TypeInv, TypeOK, Own
<1> QED BY <1>1 DEF MiningInv, OwnBlocksExtendStore, CurrentInv, IsGenesis

LEMMA ForeignMiningInv ==
    ASSUME MiningInv, TypeInv', ForeignBlock
    PROVE  MiningInv'
<1>1. PICK b \in Announced : b.own = FALSE /\ b.height # 0 /\ blocks' = Append(blocks, b)
      BY ForeignBlockIs DEF MiningInv, TypeInv
<1>2. /\ \A p \in Ids \cup {0} : HeightOf(p)' = HeightOf(p) /\ (Taken(p)' <=> Taken(p))
      /\ Own' = Own
      /\ \A i \in Ids : blocks'[i] = blocks[i]
      BY <1>1, GrowthMining DEF MiningInv
<1>3. UNCHANGED <<chain, handler, mining>>
      BY DEF ForeignBlock
<1>4. OneOwnChildPerParent' /\ OwnBlocksExtendStore'
      BY <1>2, <1>3, HashesInUse
      DEF MiningInv, OneOwnChildPerParent, OwnBlocksExtendStore, IsGenesis, chain
<1>5. HeightsInv'
      BY <1>1, BlocksGrow DEF MiningInv, TypeInv, TypeOK, HeightsInv, Ids
<1>6. CurrentInv'
      BY <1>2, <1>3, HashesInUse DEF MiningInv, CurrentInv, Valid, chain, mining
<1>7. HandlerInv'
      BY <1>2, <1>3, HashesInUse DEF MiningInv, HandlerInv, IsGenesis, chain, mining
<1>8. MinerInv'
      BY <1>2, <1>3, HashesInUse DEF MiningInv, MinerInv, Valid, chain, mining
<1>9. UnknownInv'
      BY <1>2, <1>3, HashesInUse DEF MiningInv, UnknownInv, chain, mining
<1> QED BY <1>4, <1>5, <1>6, <1>7, <1>8, <1>9 DEF MiningInv

\* The node's own announcement, of a block that has no own sibling.
LEMMA AnnounceMiningInv ==
    ASSUME MiningInv, TypeInv', Announce
    PROVE  MiningInv'
<1> DEFINE n == Len(blocks) + 1
           p0 == currentBlock.parent
<1>1. PICK b \in Announced :
         /\ b.own = TRUE /\ b.height = currentBlock.height /\ b.parent = p0
         /\ blocks' = Append(blocks, b)
      BY AnnouncedBlockIs DEF MiningInv, TypeInv
<1>2. /\ \A p \in Ids \cup {0} :
            /\ HeightOf(p)' = HeightOf(p)
            /\ Taken(p)' <=> (Taken(p) \/ (HeightOf(p) # 1 /\ p0 = p))
      /\ Own' = Own \cup {n} /\ n \notin Ids /\ blocks'[n] = b
      /\ \A i \in Ids : blocks'[i] = blocks[i]
  <2>1. TypeInv /\ blocks \in Seq(Announced)
        BY DEF MiningInv, TypeInv, TypeOK
  <2>2. n \notin Ids /\ blocks'[n] = b
        BY <1>1, <2>1, BlocksGrow
  <2> QED BY <1>1, <2>1, <2>2, GrowthMining
<1>3. /\ miner = "announce" /\ miner' = "wait"
      /\ UNCHANGED <<store, lastBlock, currentState, handler, lastKnown, currentBlock>>
      BY DEF Announce, chain
<1>4. /\ Valid(currentBlock) /\ ~Taken(p0)
      /\ p0 \in store \/ IsGenesis(currentBlock)
      /\ p0 \in Ids \cup {0}
      BY <1>3, HashesInUse DEF MiningInv, MinerInv, CurrentInv, Chosen, Valid, IsGenesis
<1> HIDE DEF n
<1>5. OneOwnChildPerParent'
  <2>1. \A i \in Own : blocks[i].parent = p0 => HeightOf(p0) = 1
        BY <1>4 DEF Taken
  <2>2. ASSUME NEW i \in Own \cup {n}, NEW j \in Own \cup {n},
               (blocks[i].parent = blocks[j].parent /\ HeightOf(blocks[i].parent) # 1)'
        PROVE  i = j
    <3>1. CASE i \in Own /\ j \in Own
          BY <1>2, <2>2, <3>1, HashesInUse DEF MiningInv, OneOwnChildPerParent
    <3>2. CASE i = n /\ j \in Own
      <4>1. blocks'[i].parent = p0 /\ blocks[j].parent = p0
            BY <1>1, <1>2, <2>2, <3>2, HashesInUse
      <4>2. HeightOf(blocks[i].parent)' = HeightOf(p0)
            BY <1>2, <1>4, <2>2, <4>1
      <4> QED BY <2>1, <2>2, <3>2, <4>1, <4>2
    <3>3. CASE j = n /\ i \in Own
      <4>1. blocks'[j].parent = p0 /\ blocks[i].parent = p0
            BY <1>1, <1>2, <2>2, <3>3, HashesInUse
      <4>2. HeightOf(blocks[i].parent)' = HeightOf(p0)
            BY <1>2, <1>4, <2>2, <4>1
      <4> QED BY <2>1, <2>2, <3>3, <4>1, <4>2
    <3> QED BY <2>2, <3>1, <3>2, <3>3
  <2> QED BY <1>2, <2>2 DEF OneOwnChildPerParent
<1>6. OwnBlocksExtendStore'
  <2>1. \A i \in Own : blocks'[i] = blocks[i] /\ (blocks[i].parent \in store \/ IsGenesis(blocks[i]))
        BY <1>2, HashesInUse DEF MiningInv, OwnBlocksExtendStore
  <2>2. blocks'[n].parent \in store \/ IsGenesis(blocks'[n])
        BY <1>1, <1>2, <1>4 DEF IsGenesis
  <2> QED BY <1>2, <1>3, <2>1, <2>2 DEF OwnBlocksExtendStore, IsGenesis
<1>7. HeightsInv'
      BY <1>1, BlocksGrow DEF MiningInv, TypeInv, TypeOK, HeightsInv, CurrentInv, Ids
<1>8. CurrentInv'
      BY <1>2, <1>3, <1>4, HashesInUse DEF MiningInv, CurrentInv, Valid
<1>9. HandlerInv'
      BY <1>2, <1>3, <1>4, HashesInUse DEF MiningInv, HandlerInv, IsGenesis, Valid
<1>10. MinerInv'
      BY <1>2, <1>3, <1>4, HashesInUse DEF MiningInv, MinerInv, Chosen
<1>11. UnknownInv'
      BY <1>3 DEF MiningInv, UnknownInv
<1> QED BY <1>5, <1>6, <1>7, <1>8, <1>9, <1>10, <1>11 DEF MiningInv

LEMMA NextMiningInv == MiningInv /\ [Next]_vars => MiningInv'
<1> SUFFICES ASSUME MiningInv, [Next]_vars PROVE MiningInv'
    OBVIOUS
<1>1. TypeInv'
      BY NextTypeInv DEF MiningInv
<1>2. CASE ForeignBlock
      BY <1>1, <1>2, ForeignMiningInv
<1>3. CASE Announce
      BY <1>1, <1>3, AnnounceMiningInv
<1>4. CASE Chain \/ CatchUp \/ Cleaner
  <2>1. blocks' = blocks
        BY <1>4 DEF Chain, HandleBlock, FallBehind, SetAside, Unlink, Link, SignalMiner,
            CatchUp, Cleaner,
           CleanerReceives, CleanerCompares, CleanerForwards, network
  <2> QED BY <1>1, <1>4, <2>1, ChainMiningInv
<1>5. CASE ~Announce /\ (Miner \/ ReceiveTx \/ AppendTx)
  <2>1. blocks' = blocks
        BY <1>5 DEF Miner, StartMiner, DrainSignals, DrainCleanedSignals, ChooseBlock,
            ResetPool, KeepBlock,
           StopMining, MineInVain, FindNonce, AnnounceFails, ReadPool, PutBack, StopWaiting,
           ReceiveTx, AppendTx, network
  <2> QED BY <1>1, <1>5, <2>1, MinerMiningInv
<1>6. CASE DeliverBlock \/ LoseBlock \/ UNCHANGED vars
  <2>1. UNCHANGED <<blocks, chain, handler, mining>>
        BY <1>6 DEF DeliverBlock, LoseBlock, vars, network
  <2>2. Ids' = Ids /\ Own' = Own
        BY <2>1 DEF Ids, Own
  <2> QED BY <1>1, <2>1, <2>2
      DEF MiningInv, OneOwnChildPerParent, OwnBlocksExtendStore, HeightsInv, CurrentInv,
          HandlerInv,
          MinerInv, UnknownInv, Taken, HeightOf, Valid, IsGenesis, chain, mining
<1> QED BY <1>2, <1>3, <1>4, <1>5, <1>6 DEF Next

LEMMA MiningInvariant == Spec => []MiningInv
BY InitMiningInv, NextMiningInv, PTL DEF Spec

\* The node never forks its own chain, however late, lost or out of order the
\* announcements and stop signals are, and however often a synchronisation moves the
\* last block away: only a genesis may get a second child of its own.
THEOREM NoOwnForks == Spec => []OneOwnChildPerParent
<1>1. MiningInv => OneOwnChildPerParent
      BY DEF MiningInv
<1> QED BY <1>1, MiningInvariant, PTL

\* What the node announces extends a block it has stored, or is its first genesis: the
\* block the miner builds when the last block could not be read is never announced.
THEOREM OwnBlocksAreLinked == Spec => []OwnBlocksExtendStore
<1>1. MiningInv => OwnBlocksExtendStore
      BY DEF MiningInv
<1> QED BY <1>1, MiningInvariant, PTL
=============================================================================
