----------------------------- MODULE MiningNode -----------------------------
(***************************************************************************)
(* The mining node around its chain (cmd/securachain-mining-node/main.go): *)
(* the goroutine that hands announced blocks to the chain, the one that    *)
(* filters stop signals, the one that fills the transaction pool and the   *)
(* miner.  They share currentBlock, trxPool and two unbuffered channels,   *)
(* with no lock.                                                           *)
(*                                                                         *)
(* Of the chain itself, which Blockchain models step by step, only what    *)
(* the miner can see is kept: the state, the stored blocks, the last block *)
(* and the instant it is missing while saveBlock replaces it.              *)
(***************************************************************************)
EXTENDS Naturals, Sequences, FiniteSets

CONSTANTS
    Txs,         \* the transactions storage nodes publish
    MaxOwn,      \* bound: blocks this node announces
    MaxForeign,  \* bound: blocks the other miners announce
    Forks,       \* are blocks found while others are on their way to the node
    Reorder,     \* may announcements arrive out of order, or get lost
    SlowNonce,   \* does a nonce take longer than the cleaner needs for a signal
    Founded      \* does the node start on a database that holds the genesis

ASSUME MiningAssumptions ==
    /\ IsFiniteSet(Txs)
    /\ MaxOwn \in Nat /\ MaxForeign \in Nat
    /\ {Forks, Reorder, SlowNonce, Founded} \subseteq BOOLEAN

VARIABLES
    blocks,        \* every block announced so far; the index is its hash
    delivered,     \* announcements that reached blockReceived, or were lost
    blockReceived, \* the channel in front of HandleBlock
    currentState,  \* "UpToDate" or "Syncing" (until PostSync is over)
    store,         \* the stored blocks
    lastBlock,     \* GetLastBlock, 0 when it finds nothing
    handler,       \* the goroutine of HandleBlock: [at, block]
    cleaner,       \* the goroutine that filters the signals: [at, block]
    miner,         \* where the miner stands
    lastKnown,     \* lastBlockStored is not the empty block
    currentBlock,  \* the block being mined, not yet announced
    trxPool,
    poolCopy,      \* the pool as the miner's append has read it
    receiver,      \* the goroutine that appends to the pool: [at, tx, pool]
    received       \* the transactions it was sent

chain   == <<currentState, store, lastBlock>>
network == <<blocks, delivered, blockReceived>>
mining  == <<miner, lastKnown, currentBlock, poolCopy>>
pool    == <<trxPool, receiver, received>>
vars    == <<network, chain, handler, cleaner, mining, pool>>

Ids == 1 .. Len(blocks)

\* A block by its header: 0 is the hash of no block, NoHash that of the empty block.
NoHash == MaxOwn + MaxForeign + 2
Own == {i \in Ids : blocks[i].own}
HeightOf(id) == IF id \in Ids THEN blocks[id].height ELSE 0
IsGenesis(b) == b.parent = 0 /\ b.height = 1

\* The blocks of the branch that ends in a block, and their transactions.
Branch(id) ==
    LET up[i \in 0 .. Len(blocks)] ==
            IF i = 0 THEN {} ELSE {i} \cup up[blocks[i].parent]
    IN  up[id]
BranchTxs(id) == UNION {blocks[i].txs : i \in Branch(id)}

NewBlock(txs, parent, height) == [parent |-> parent, height |-> height, txs |-> txs]

(* Mutant of Valid: no check of the previous hash of a genesis.             *)
ValidAlways(b) == TRUE

\* Validate(currentBlock, previousBlock), of what the miner can get wrong: a block
\* built on the empty block is a genesis with a previous hash.
Valid(b) == b.height = 1 => b.parent = 0

-----------------------------------------------------------------------------

Init ==
    /\ blocks = IF Founded THEN <<[parent |-> 0, height |-> 1, txs |-> {}, own |-> FALSE]>>
                ELSE <<>>
    /\ delivered = Ids
    /\ blockReceived = <<>>
    /\ currentState = "UpToDate"
    /\ store = Ids
    /\ lastBlock = Len(blocks)
    /\ handler = [at |-> "idle", block |-> 0]
    /\ cleaner = [at |-> "idle", block |-> 0]
    /\ miner = "start"
    /\ lastKnown = FALSE
    /\ currentBlock = NewBlock({}, 0, 1)
    /\ trxPool = {}
    /\ poolCopy = {}
    /\ receiver = [at |-> "idle", tx |-> {}, pool |-> {}]
    /\ received = {}

-----------------------------------------------------------------------------
(* The network.                                                            *)

Highest == {i \in Ids : \A j \in Ids : blocks[j].height <= blocks[i].height}

\* Every block announced is stored here.
Settled ==
    /\ delivered = Ids /\ blockReceived = <<>>
    /\ handler.at \notin {"unlink", "link"}
    /\ miner # "announce"

\* Another miner announces a block with transactions its branch does not have yet.
ForeignBlock ==
    /\ Cardinality(Ids \ Own) < MaxForeign + (IF Founded THEN 1 ELSE 0)
    /\ Forks \/ Settled
    /\ \E p \in IF Forks \/ blocks = <<>> THEN Ids \cup {0} ELSE Highest :
         \E T \in SUBSET (Txs \ BranchTxs(p)) :
            blocks' = Append(blocks, [parent |-> p, height |-> HeightOf(p) + 1,
                                      txs |-> T, own |-> FALSE])
    /\ UNCHANGED <<delivered, blockReceived, chain, handler, cleaner, mining, pool>>

\* Service 1 moves an announcement, an own one too, to the channel.
DeliverBlock ==
    /\ \E i \in Ids \ delivered :
          /\ Reorder \/ \A j \in 1 .. (i - 1) : j \in delivered
          /\ delivered' = delivered \cup {i}
          /\ blockReceived' = Append(blockReceived, i)
    /\ UNCHANGED <<blocks, chain, handler, cleaner, mining, pool>>

\* The rate limiter, or a full subscription, drops it.
LoseBlock ==
    /\ Reorder
    /\ \E i \in Ids \ delivered : delivered' = delivered \cup {i}
    /\ UNCHANGED <<blocks, blockReceived, chain, handler, cleaner, mining, pool>>

-----------------------------------------------------------------------------
(* HandleBlock and the synchronisation.                                    *)

\* A genesis, or a block whose parent is stored, goes to saveBlock.
HandleBlock ==
    /\ handler.at = "idle" /\ blockReceived # <<>>
    /\ currentState = "UpToDate"
    /\ LET i == Head(blockReceived)
       IN  /\ IsGenesis(blocks[i]) \/ (blocks[i].parent \in store /\ i \notin store)
           /\ handler' = [at |-> "unlink", block |-> i]
    /\ blockReceived' = Tail(blockReceived)
    /\ UNCHANGED <<blocks, delivered, chain, cleaner, mining, pool>>

\* A block without a stored parent starts a synchronisation.
FallBehind ==
    /\ handler.at = "idle" /\ blockReceived # <<>>
    /\ currentState = "UpToDate"
    /\ LET b == blocks[Head(blockReceived)]
       IN  ~IsGenesis(b) /\ b.parent \notin store
    /\ blockReceived' = Tail(blockReceived)
    /\ currentState' = "Syncing"
    /\ UNCHANGED <<blocks, delivered, store, lastBlock, handler, cleaner, mining, pool>>

\* A known block is refused; while synchronising blocks are put aside.
SetAside ==
    /\ handler.at = "idle" /\ blockReceived # <<>>
    /\ \/ currentState = "Syncing"
       \/ Head(blockReceived) \in store /\ ~IsGenesis(blocks[Head(blockReceived)])
    /\ blockReceived' = Tail(blockReceived)
    /\ UNCHANGED <<blocks, delivered, chain, handler, cleaner, mining, pool>>

\* saveBlock: Set(hash) and Delete(lastBlockKey) ...
Unlink ==
    /\ handler.at = "unlink"
    /\ store' = store \cup {handler.block}
    /\ lastBlock' = 0
    /\ handler' = [handler EXCEPT !.at = "link"]
    /\ UNCHANGED <<network, currentState, cleaner, mining, pool>>

\* ... and Set(lastBlockKey).
Link ==
    /\ handler.at = "link"
    /\ lastBlock' = handler.block
    /\ handler' = [handler EXCEPT !.at = "publish"]
    /\ UNCHANGED <<network, currentState, store, cleaner, mining, pool>>

\* PublishBlock and the registries take their time; then HandleBlock blocks on the
\* stop signal until someone receives it.
SignalMiner ==
    /\ handler.at = "publish"
    /\ handler' = [handler EXCEPT !.at = "signal"]
    /\ UNCHANGED <<network, chain, cleaner, mining, pool>>

\* SyncBlockchain and PostSync, seen from outside: linked blocks of the network
\* were stored one after another, without a signal to the miner.
CatchUp ==
    /\ currentState = "Syncing"
    /\ \E S \in SUBSET Ids :
          /\ store \subseteq S
          /\ \A i \in S : blocks[i].parent \in S \cup {0}
          /\ store' = S
          /\ IF S = store THEN UNCHANGED lastBlock
             ELSE lastBlock' \in {i \in S \ store : \A j \in S \ store : blocks[j].parent # i}
    /\ currentState' = "UpToDate"
    /\ UNCHANGED <<network, handler, cleaner, mining, pool>>

-----------------------------------------------------------------------------
(* The stop signals: HandleBlock -> stopMiningChan -> cleaner ->            *)
(* stopMiningChanCleaned -> MineBlock.  Both channels are unbuffered.       *)

CleanerReceives ==
    /\ handler.at = "signal" /\ cleaner.at = "idle"
    /\ handler' = [at |-> "idle", block |-> 0]
    /\ cleaner' = [at |-> "compare", block |-> handler.block]
    /\ UNCHANGED <<network, chain, mining, pool>>

\* signal.BlockReceived.Height >= currentBlock.Height
CleanerCompares ==
    /\ cleaner.at = "compare"
    /\ cleaner' = IF HeightOf(cleaner.block) >= currentBlock.height
                  THEN [cleaner EXCEPT !.at = "decided"]
                  ELSE [at |-> "idle", block |-> 0]
    /\ UNCHANGED <<network, chain, handler, mining, pool>>

\* currentBlock may have changed when the cleaner blocks on its send.
CleanerForwards ==
    /\ cleaner.at = "decided"
    /\ cleaner' = [cleaner EXCEPT !.at = "forward"]
    /\ UNCHANGED <<network, chain, handler, mining, pool>>

\* The miner empties both channels before it starts on a block: it receives until
\* no sender is blocked there.  A sender still on its way is missed.
DrainSignals ==
    /\ miner = "drain"
    /\ IF handler.at = "signal"
       THEN handler' = [at |-> "idle", block |-> 0] /\ UNCHANGED miner
       ELSE miner' = "drainCleaned" /\ UNCHANGED handler
    /\ UNCHANGED <<network, chain, cleaner, lastKnown, currentBlock, poolCopy, pool>>

DrainCleanedSignals ==
    /\ miner = "drainCleaned"
    /\ IF cleaner.at = "forward"
       THEN cleaner' = [at |-> "idle", block |-> 0] /\ UNCHANGED miner
       ELSE miner' = "choose" /\ UNCHANGED cleaner
    /\ UNCHANGED <<network, chain, handler, lastKnown, currentBlock, poolCopy, pool>>

-----------------------------------------------------------------------------
(* The transaction pool: trxPool = append(trxPool, trx), a read and a write. *)

ReceiveTx ==
    /\ receiver.at = "idle"
    /\ \E t \in Txs \ received :
          /\ received' = received \cup {t}
          /\ receiver' = [at |-> "write", tx |-> {t}, pool |-> trxPool]
    /\ UNCHANGED <<network, chain, handler, cleaner, mining, trxPool>>

AppendTx ==
    /\ receiver.at = "write"
    /\ trxPool' = receiver.pool \cup receiver.tx
    /\ receiver' = [at |-> "idle", tx |-> {}, pool |-> {}]
    /\ UNCHANGED <<network, chain, handler, cleaner, mining, received>>

-----------------------------------------------------------------------------
(* The miner.                                                              *)

\* GetLastBlock.  A synchronisation replaces the last block as Unlink and Link do.
LastReads == {lastBlock} \cup (IF currentState = "Syncing" THEN {0} ELSE {})

StartMiner ==
    /\ miner = "start"
    /\ \E last \in LastReads : lastKnown' = (last # 0)
    /\ miner' = "drain"
    /\ UNCHANGED <<network, chain, handler, cleaner, currentBlock, poolCopy, pool>>

\* The flags that should hold the miner back while the chain is not up to date are
\* never set.  An error of GetLastBlock leaves the empty block as the previous one.
ChooseBlock ==
    /\ miner = "choose" /\ lastKnown
    /\ \E last \in LastReads :
          /\ lastKnown' = (last # 0)
          /\ currentBlock' = IF last # 0 THEN NewBlock(trxPool, last, HeightOf(last) + 1)
                             ELSE NewBlock(trxPool, NoHash, 1)
    /\ miner' = "reset"
    /\ UNCHANGED <<network, chain, handler, cleaner, poolCopy, pool>>

\* trxPool = []transaction.Transaction{}
ResetPool ==
    /\ miner = "reset"
    /\ trxPool' = {}
    /\ miner' = "mine"
    /\ UNCHANGED <<network, chain, handler, cleaner, lastKnown, currentBlock, poolCopy,
                   receiver, received>>

\* With no last block the miner goes on with the block it has, the genesis at first.
KeepBlock ==
    /\ miner = "choose" /\ ~lastKnown
    /\ miner' = "mine"
    /\ UNCHANGED <<network, chain, handler, cleaner, lastKnown, currentBlock, poolCopy, pool>>

\* MineBlock takes a signal: the block of a signal is never empty, so the miner
\* always puts all its transactions back.
StopMining ==
    /\ miner = "mine" /\ cleaner.at = "forward"
    /\ cleaner' = [at |-> "idle", block |-> 0]
    /\ miner' = "return"
    /\ UNCHANGED <<network, chain, handler, lastKnown, currentBlock, poolCopy, pool>>

\* No nonce, or a timestamp out of order: Validate refuses the block.
MineInVain ==
    /\ miner = "mine"
    /\ miner' = "return"
    /\ UNCHANGED <<network, chain, handler, cleaner, lastKnown, currentBlock, poolCopy, pool>>

\* A signal that comes after MineBlock's last look at the channel is missed.
FindNonce ==
    /\ miner = "mine"
    /\ SlowNonce => cleaner.at = "idle" /\ handler.at # "signal"
    /\ Forks \/ Settled
    /\ Cardinality(Own) < MaxOwn
    /\ miner' = IF Valid(currentBlock) THEN "announce" ELSE "return"
    /\ UNCHANGED <<network, chain, handler, cleaner, lastKnown, currentBlock, poolCopy, pool>>

Announce ==
    /\ miner = "announce"
    /\ blocks' = Append(blocks, [parent |-> currentBlock.parent, height |-> currentBlock.height,
                                 txs |-> currentBlock.txs, own |-> TRUE])
    /\ miner' = "wait"
    /\ UNCHANGED <<delivered, blockReceived, chain, handler, cleaner, lastKnown, currentBlock,
                   poolCopy, pool>>

\* SignBlock, Serialize or Publish reports an error: the block is dropped, and its
\* transactions with it.
AnnounceFails ==
    /\ miner = "announce"
    /\ miner' = "drain"
    /\ UNCHANGED <<network, chain, handler, cleaner, lastKnown, currentBlock, poolCopy, pool>>

\* trxPool = append(trxPool, currentBlock.Transactions...)
ReadPool ==
    /\ miner = "return"
    /\ poolCopy' = trxPool
    /\ miner' = "putBack"
    /\ UNCHANGED <<network, chain, handler, cleaner, lastKnown, currentBlock, pool>>

PutBack ==
    /\ miner = "putBack"
    /\ trxPool' = poolCopy \cup currentBlock.txs
    /\ poolCopy' = {}
    /\ miner' = "drain"
    /\ UNCHANGED <<network, chain, handler, cleaner, lastKnown, currentBlock, receiver, received>>

(* Mutants of StopWaiting: the miner does not wait, or waits for a child.   *)
StopWaitingAtOnce ==
    /\ miner = "wait"
    /\ lastKnown' = TRUE
    /\ miner' = "drain"
    /\ UNCHANGED <<network, chain, handler, cleaner, currentBlock, poolCopy, pool>>

StopWaitingForMore ==
    /\ miner = "wait"
    /\ lastBlock # 0 /\ HeightOf(lastBlock) > currentBlock.height
    /\ lastKnown' = TRUE
    /\ miner' = "drain"
    /\ UNCHANGED <<network, chain, handler, cleaner, currentBlock, poolCopy, pool>>

\* The miner polls until the chain has a last block as high as its own.
StopWaiting ==
    /\ miner = "wait"
    /\ lastBlock # 0 /\ HeightOf(lastBlock) >= currentBlock.height
    /\ lastKnown' = TRUE
    /\ miner' = "drain"
    /\ UNCHANGED <<network, chain, handler, cleaner, currentBlock, poolCopy, pool>>

-----------------------------------------------------------------------------

Chain == HandleBlock \/ FallBehind \/ SetAside \/ Unlink \/ Link \/ SignalMiner

Cleaner == CleanerReceives \/ CleanerCompares \/ CleanerForwards

Miner ==
    \/ StartMiner \/ DrainSignals \/ DrainCleanedSignals
    \/ ChooseBlock \/ ResetPool \/ KeepBlock
    \/ StopMining \/ MineInVain \/ FindNonce \/ Announce \/ AnnounceFails
    \/ ReadPool \/ PutBack \/ StopWaiting

Next ==
    \/ ForeignBlock \/ DeliverBlock \/ LoseBlock
    \/ Chain \/ CatchUp \/ Cleaner
    \/ ReceiveTx \/ AppendTx \/ Miner

Spec == Init /\ [][Next]_vars

\* Each goroutine runs, and an announcement not lost arrives.
Fairness ==
    /\ WF_vars(DeliverBlock)
    /\ WF_vars(Chain)
    /\ WF_vars(CatchUp)
    /\ WF_vars(Cleaner)
    /\ WF_vars(AppendTx)
    /\ WF_vars(Miner)

FairSpec == Spec /\ Fairness

-----------------------------------------------------------------------------

Headers == [parent : Nat, height : Nat, txs : SUBSET Txs]
Announced == [parent : Nat, height : Nat, txs : SUBSET Txs, own : BOOLEAN]

TypeOK ==
    /\ blocks \in Seq(Announced)
    /\ delivered \subseteq Ids
    /\ blockReceived \in Seq(Ids)
    /\ currentState \in {"UpToDate", "Syncing"}
    /\ store \subseteq Ids
    /\ lastBlock \in Ids \cup {0}
    /\ handler \in [at : {"idle", "unlink", "link", "publish", "signal"}, block : Ids \cup {0}]
    /\ cleaner \in [at : {"idle", "compare", "decided", "forward"}, block : Ids \cup {0}]
    /\ miner \in {"start", "drain", "drainCleaned", "choose", "reset", "mine", "announce",
                  "return", "putBack", "wait"}
    /\ lastKnown \in BOOLEAN
    /\ currentBlock \in Headers
    /\ trxPool \subseteq Txs
    /\ poolCopy \subseteq Txs
    /\ receiver \in [at : {"idle", "write"}, tx : SUBSET Txs, pool : SUBSET Txs]
    /\ received \subseteq Txs

\* The node never announces two blocks with the same parent: it does not fork its
\* own chain, although other branches move its last block back and forth, and a
\* read of the last block may fall into the instant it is missing.  Only a genesis
\* may get two: each announcement of it makes it the last block again.
OneOwnChildPerParent ==
    \A i, j \in Own :
        blocks[i].parent = blocks[j].parent /\ HeightOf(blocks[i].parent) # 1 => i = j

\* What the node announces extends a block it has stored, or is its first genesis.
OwnBlocksExtendStore ==
    \A i \in Own : blocks[i].parent \in store \/ IsGenesis(blocks[i])

\* While every miner builds on the highest block and announcements arrive in order,
\* the stop signals never block the chain: every block delivered gets stored.
DeliveredBlocksStored == \A i \in 1 .. (MaxOwn + MaxForeign + 1) : i \in delivered ~> i \in store

\* In the same network the miner never waits for ever on a block it announced.
MinerResumes == miner = "wait" ~> miner # "wait"

-----------------------------------------------------------------------------
(* What the code's comments say, and a run refutes.                        *)

\* uptodate.go:74 says that a block received while mining, of the height of the block
\* being mined or above, stops the mining process: its signal gets through.
SignalTaken ==
    \A i \in 1 .. (MaxOwn + MaxForeign + 1) :
        (/\ handler.at = "unlink" /\ handler.block = i
         /\ miner = "mine" /\ HeightOf(i) >= currentBlock.height)
            ~> (handler.block # i /\ cleaner.block # i)
=============================================================================
