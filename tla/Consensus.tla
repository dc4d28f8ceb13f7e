------------------------------ MODULE Consensus ------------------------------
(***************************************************************************)
(* Transactions and blocks between participants whose clocks differ: users  *)
(* announce files and ask for deletions, storage nodes answer, miners take  *)
(* what their validator accepts into a pool and mine it, and every node     *)
(* validates the blocks.  From internal/core and the transaction reception  *)
(* and the miner of cmd/securachain-mining-node/main.go.                   *)
(*                                                                         *)
(* Each validator reads the clock of its own machine.  All participants are *)
(* honest; what their clocks make of their messages is the question here.  *)
(* Interleavings inside a miner are in MiningNode.                         *)
(***************************************************************************)
EXTENDS Blocks

CONSTANTS
    Users,        \* records with the user's key and ipfs peer
    StorageNodes, \* records with the node's key, host and ipfs peer
    Miners,       \* the keys of the mining nodes
    FullNodes,    \* the other nodes that validate blocks
    Files,        \* the files
    MaxSkew,      \* no two clocks differ by more
    MaxTime,      \* bound: the last second
    MaxDeletions, \* bound: deletions asked for
    MaxBlocks     \* bound: blocks announced

Nodes        == Miners \cup FullNodes
Participants == Users \cup StorageNodes \cup Nodes

ASSUME ConsensusAssumption ==
    /\ {MaxSkew, MaxTime, MaxDeletions, MaxBlocks} \subseteq Nat
    /\ MaxSkew <= MaxAhead
    /\ \A u \in Users, s \in StorageNodes :
          u.key # s.key /\ u.ipfs # s.ipfs /\ s.host # s.ipfs

VARIABLES
    now,       \* seconds
    skew,      \* how far each clock is ahead of the slowest
    announced, \* the announcements published, with the time of it
    published, \* the transactions published, with the time of it
    received,  \* per miner, the transactions it has read
    pool,      \* per miner, trxPool
    current,   \* per miner, currentBlock while it is mined, and the block before it
    blocks,    \* the blocks announced, with the time of it
    stored,    \* per node, the blocks it accepted
    last       \* per node, the last of them

vars == <<now, skew, announced, published, received, pool, current, blocks, stored, last>>

Idle == [block |-> None, previous |-> None, announced |-> FALSE]

Init ==
    /\ now = 1
    /\ skew \in [Participants -> 0 .. MaxSkew] /\ \E p \in Participants : skew[p] = 0
    /\ announced = {}
    /\ published = {}
    /\ received = [m \in Miners |-> {}]
    /\ pool = [m \in Miners |-> <<>>]
    /\ current = [m \in Miners |-> Idle]
    /\ blocks = {}
    /\ stored = [n \in Nodes |-> {}]
    /\ last = [n \in Nodes |-> None]

\* time.Now() of a participant.
Clock(p) == now + skew[p]

Tick ==
    /\ now < MaxTime
    /\ now' = now + 1
    /\ UNCHANGED <<skew, announced, published, received, pool, current, blocks, stored, last>>

\* uuid.New(): what is created gets an identifier of its own.
Fresh == Cardinality(announced) + Cardinality(published)

Announce(u, f) ==
    /\ \A x \in announced : x.announcement.content.file # f
    /\ announced' = announced \cup
          {[announcement |-> NewClientAnnouncement(Fresh, u, f, Clock(u)), at |-> now]}
    /\ UNCHANGED <<now, skew, published, received, pool, current, blocks, stored, last>>

\* A storage node answers an announcement once, some time after it.
Answered(s, a) ==
    \E y \in published : /\ y.tx.content.type = "AddFileTransaction"
                         /\ y.tx.content.announcementID = a.content.announcementID
                         /\ y.tx.content.nodeAddress = s.key

Respond(s, a) ==
    /\ VerifyAnnouncement(a) /\ ~Answered(s, a)
    /\ published' = published \cup {[tx |-> NewAddFileTransaction(Fresh, a, s, Clock(s)), at |-> now]}
    /\ UNCHANGED <<now, skew, announced, received, pool, current, blocks, stored, last>>

\* A file can only be deleted from a list of files: some storage node answered for it.
RequestDeletion(u, f) ==
    /\ \E y \in published : y.tx.content.file = f
    /\ Cardinality({y \in published : y.tx.content.type = "DeleteFileTransaction"}) < MaxDeletions
    /\ published' = published \cup {[tx |-> NewDeleteFileTransaction(Fresh, u, f, Clock(u)), at |-> now]}
    /\ UNCHANGED <<now, skew, announced, received, pool, current, blocks, stored, last>>

\* Mutant of ReceiveTransaction: the validator's error is logged and no more.
ReceiveAnyTransaction(m, tx) ==
    /\ tx \notin received[m]
    /\ received' = [received EXCEPT ![m] = @ \cup {tx}]
    /\ pool' = [pool EXCEPT ![m] = Append(@, tx)]
    /\ UNCHANGED <<now, skew, announced, published, current, blocks, stored, last>>

\* A miner reads a transaction; one its validator refuses is not looked at again, one
\* its rate limiter refuses is not read here.
ReceiveTransaction(m, tx) ==
    /\ tx \notin received[m]
    /\ received' = [received EXCEPT ![m] = @ \cup {tx}]
    /\ pool' = IF ValidTransaction(tx, Clock(m)) THEN [pool EXCEPT ![m] = Append(@, tx)] ELSE pool
    /\ UNCHANGED <<now, skew, announced, published, current, blocks, stored, last>>

\* After an announcement the miner waits until a block of that height is stored.
Free(m) ==
    \/ current[m] = Idle
    \/ /\ current[m].announced
       /\ last[m] # None /\ last[m].height >= current[m].block.height

Mining(m) == current[m] # Idle /\ ~current[m].announced

\* A miner that finds no chain when it starts mines the genesis it made then, which takes nothing
\* from the pool, until it has announced it, also when it stores another genesis meanwhile.
StartGenesis(m) ==
    /\ Free(m) /\ last[m] = None
    /\ current' = [current EXCEPT ![m] =
                      [Idle EXCEPT !.block = NewBlock(<<>>, None, 1, m, 1 + skew[m])]]
    /\ UNCHANGED <<now, skew, announced, published, received, pool, blocks, stored, last>>

StartBlock(m) ==
    /\ Free(m) /\ last[m] # None
    /\ current' = [current EXCEPT ![m] =
          [Idle EXCEPT !.block = NewBlock(pool[m], ComputeHash(last[m]), last[m].height + 1, m, Clock(m)),
                       !.previous = last[m]]]
    /\ pool' = [pool EXCEPT ![m] = <<>>]
    /\ UNCHANGED <<now, skew, announced, published, received, blocks, stored, last>>

\* The block the miner signs when it has found a nonce.
Signed(m) == SignBlock(current[m].block, m)

\* It validates its own block before it announces it.
Publish(m) ==
    /\ Mining(m)
    /\ ValidBlock(Signed(m), {current[m].previous}, Clock(m))
    /\ Cardinality(blocks) < MaxBlocks
    /\ blocks' = blocks \cup {[block |-> Signed(m), at |-> now]}
    /\ current' = [current EXCEPT ![m].announced = TRUE]
    /\ UNCHANGED <<now, skew, announced, published, received, pool, stored, last>>

\* Mining is stopped by a received block or a synchronisation, at any time (MiningNode says
\* when); that, and a block the miner itself finds invalid, gives the transactions back.  A miner
\* stopped at its genesis goes on with the same block.
GiveUp(m) ==
    /\ Mining(m) /\ current[m].previous # None
    /\ pool' = [pool EXCEPT ![m] = @ \o current[m].block.transactions]
    /\ current' = [current EXCEPT ![m] = Idle]
    /\ UNCHANGED <<now, skew, announced, published, received, blocks, stored, last>>

AnnouncedBlocks == {x.block : x \in blocks}

\* Mutant of Store: the parent is looked for in the network.
StoreFromAnyone(n, b) ==
    /\ b \notin stored[n]
    /\ ValidBlock(b, AnnouncedBlocks, Clock(n))
    /\ stored' = [stored EXCEPT ![n] = @ \cup {b}]
    /\ last' = [last EXCEPT ![n] = b]
    /\ UNCHANGED <<now, skew, announced, published, received, pool, current, blocks>>

\* A node stores a block it finds valid; one it does not may come again by a
\* synchronisation.
Store(n, b) ==
    /\ b \notin stored[n]
    /\ ValidBlock(b, stored[n], Clock(n))
    /\ stored' = [stored EXCEPT ![n] = @ \cup {b}]
    /\ last' = [last EXCEPT ![n] = b]
    /\ UNCHANGED <<now, skew, announced, published, received, pool, current, blocks>>

Next ==
    \/ Tick
    \/ \E u \in Users, f \in Files : Announce(u, f) \/ RequestDeletion(u, f)
    \/ \E s \in StorageNodes, x \in announced : Respond(s, x.announcement)
    \/ \E m \in Miners : \/ \E y \in published : ReceiveTransaction(m, y.tx)
                         \/ StartGenesis(m) \/ StartBlock(m) \/ Publish(m) \/ GiveUp(m)
    \/ \E n \in Nodes, x \in blocks : Store(n, x.block)

Spec == Init /\ [][Next]_vars

-----------------------------------------------------------------------------

TypeOK ==
    /\ now \in Nat
    /\ skew \in [Participants -> 0 .. MaxSkew]
    /\ \A x \in announced : x.at \in 1 .. now
    /\ \A y \in published : y.at \in 1 .. now
    /\ \A x \in blocks : x.at \in 1 .. now
    /\ pool \in [Miners -> Seq({y.tx : y \in published})]
    /\ \A m \in Miners : received[m] \subseteq {y.tx : y \in published}
    /\ \A n \in Nodes :
          /\ stored[n] \subseteq AnnouncedBlocks
          /\ last[n] \in stored[n] \cup {None}
          /\ \A b \in stored[n] : b.height # 1 => \E p \in stored[n] : ComputeHash(p) = b.prev

\* What a miner has pooled stays valid for it, in the pool, in the block it is mining and
\* back in the pool: the validators never look at the pool again.
PoolStaysValid ==
    \A m \in Miners :
        /\ \A i \in DOMAIN pool[m] : ValidTransaction(pool[m][i], Clock(m))
        /\ Mining(m) =>
              \A i \in DOMAIN current[m].block.transactions :
                  ValidTransaction(current[m].block.transactions[i], Clock(m))

\* Every announced block is valid for every node, with any clock, as soon as it is as old
\* as clocks may differ: a refusal is never for good.
BlocksAccepted ==
    \A x \in blocks : \A n \in Nodes :
        now >= x.at + MaxSkew =>
            ValidBlock(x.block, AnnouncedBlocks, Clock(n))

\* A response later than its announcement by more than clocks may differ is valid for
\* every miner at once, a deletion as soon as it is older than that.
HonestTransactionsAdmitted ==
    \A y \in published : \A m \in Miners :
        CASE y.tx.content.type = "AddFileTransaction" ->
                (\A x \in announced :
                    x.announcement.content.announcementID = y.tx.content.announcementID
                        => y.at > x.at + MaxSkew)
                => ValidTransaction(y.tx, Clock(m))
          [] y.tx.content.type = "DeleteFileTransaction" ->
                now > y.at + MaxSkew => ValidTransaction(y.tx, Clock(m))

\* The lists of at most n of the published transactions, which may repeat one.
Lists(n) == UNION {[1 .. k -> {y.tx : y \in published}] : k \in 0 .. n}

\* The blocks that miners work on and the ones they have signed and announced.
InHand == {current[m].block : m \in {k \in Miners : Mining(k)}} \cup AnnouncedBlocks

\* The header, which is what a miner works on, signs and is known by, identifies the transactions
\* of the block: of all lists up to one transaction longer, also ones that repeat a transaction,
\* only the block's own has the root in it.  No validator compares the two.
MerkleRootIdentifies ==
    \A b \in InHand :
        {list \in Lists(Len(b.transactions) + 1) : MerkleRoot(list) = b.root} = {b.transactions}
=============================================================================
