# SecuraChain in TLA+

TLA+ modules, TLC configurations and TLAPS proofs for the Go program in `src/`.
They are about the parts of SecuraChain where several goroutines and several
nodes meet: the chain each node keeps and its synchronisation, mining, the
validation of blocks and transactions by clocks that differ, the way of a file
from its announcement to its collection, the discovery of peers, the observer's
pages, and the limits on what a peer may send.

Run a configuration with `tlc -config Chain_steady.cfg MCBlockchain`, check the
proofs with `tlapm BlockchainProofs.tla` (and the seven other `*Proofs` modules).

## 1. The system

SecuraChain is a peer-to-peer file storage with a blockchain as its index.
Users announce files, storage nodes download them and answer with transactions,
mining nodes put the transactions into blocks, full nodes keep and serve the
chain. Everything travels over libp2p publish/subscribe topics; blocks and files
themselves are fetched over IPFS.

| Component | State it keeps | Operations | What makes it correct |
|---|---|---|---|
| Chain state machine (`internal/blockchain`) | current state, pending blocks, blacklist | HandleBlock, SyncBlockchain, PostSync, SetState | only linked, valid blocks are stored; no writer disturbs another; a synchronisation ends |
| Blockchain store (`internal/blockchaindb`) | blocks by hash, the last block | AddBlock, GetBlock, GetLastBlock, VerifyIntegrity | parents are stored, the last block is one of them, also after a crash |
| Block registry (`internal/registry/block_registry`) | list of blocks with CID and provider, in memory and in a file | Add, Save, Load, AskForBlockchainRegistry | what is offered is stored and applied, parents come first, each block once |
| Transactions (`internal/core/transaction`) | none | NewClientAnnouncement, NewAddFileTransaction, NewDeleteFileTransaction, Verify | what honest participants sign is what validators rebuild |
| Block and transaction validation (`internal/core/consensus`) | none | Validate, MineBlock | an honest block or transaction is accepted by every node in time and stays valid |
| Full node (`cmd/securachain-full-node`) | a queue of 15 blocks | six services | the goroutines around the chain |
| Mining node (`cmd/securachain-mining-node`) | current block, transaction pool, two signal channels | block reception, signal cleaner, pool, miner | does not fork itself, stops when it should, never stops the chain |
| Rate limiter (`internal/node/rate_limiter.go`) | accepted messages per sender | Allow | at most the limit in any window, no sender uses up another's |
| File registry (`internal/registry/file_registry`) | files per owner with their providers, in memory and in a file | Add, Delete, Get, UpdateFromBlock, Save, Load, observers | what the transactions of the blocks say, each file once |
| Storage node (`cmd/securachain-storage-node`, `internal/storagenode`) | downloads, the local storage, pins, responses to publish | announcement handler, publisher, garbage collection, answers to owners | who is named as provider has the file; a listed copy is kept, a deleted one goes |
| User client (`cmd/securachain-user-client`, `internal/client`) | the lists it shows | send, list, delete, download | only the owner's files are shown and deleted |
| Merkle root, serialisation (`internal/core/block`) | none | ComputeMerkleRoot, ComputeHash | the root identifies the transactions |
| IPFS memory (`internal/ipfs`) | storage limit | ChangeStorageMax, FreeMemoryAvailable | the datastore does not outgrow its limit |
| DHT discovery (`internal/network/dht.go`) | ignored peers | bootstrap, advertise, find, connect | nodes that can reach one another end connected |
| Observer (`cmd/securachain-observer-node`, `internal/visualisation`) | the reports of all nodes, pages, blocks seen | reports, merge, diffs, pages, signals | a page ends up showing the network as it is |
| Keys and configuration | files | start-up | - |

How they interact. In a full node one goroutine reads announcements from the
subscription, passes them through the rate limiter into a channel, and a second
one calls `HandleBlock` on each. Two more call `SyncBlockchain` and `PostSync`
for ever. All three act on one `Blockchain` object, whose `currentState` decides
what the calls do and is read once per call, without a lock. They share the
store and both registries. A fifth goroutine serialises the block registry for
peers that ask. A mining node adds the cleaner, the pool and the miner, which
share `currentBlock`, `trxPool` and the store with the others, again without a
lock, and two unbuffered channels. A storage node runs the same chain beside
three goroutines of its own: the handler of announcements, the publisher of
responses behind an unbuffered channel, and the answers to owners. Its file
registry notifies an observer of each deletion, which starts a garbage collector
as one more goroutine. The user client, the storage nodes and the miners only meet
through three topics and the blocks. The observer listens to all topics and
serves pages over websockets; its goroutines share the slice `data` without a lock.

What is hard here: the interleavings of these goroutines; the three separate
writes of `saveBlock`, then the two registry files, with a crash or a disk error
anywhere between; announcements lost, reordered or delivered while the node
synchronises; registries that answer somebody else's request; forks, which move
the last block back and forth; the wait cycles between handler, cleaner and
miner; a response sent by one node, mined by another and applied by a third while
the owner deletes the file and collectors run; clocks that differ; and snapshots
overtaken by newer updates. `PROJECT.json` lists each hazard at its line.

## 2. The modules

| Module | What it is |
|---|---|
| `Blockchain`, `MCBlockchain` | one node's chain: state machine, store, registries, three goroutines; two small instances |
| `LinkedLedger` | what `Blockchain` promises, in three variables and three actions |
| `MiningNode`, `MCMiningNode` | the mining node around a reduced chain |
| `RateLimiter`, `MCRateLimiter` | the sliding window of `Allow` |
| `Transactions` | how transactions are made, signed and validated |
| `Blocks` | Merkle root, hash, signature and both block validators, over `Transactions` |
| `Consensus`, `MCConsensus` | users, storage nodes, miners and full nodes with clocks of their own, over `Blocks` |
| `FileRegistry` | the file registry's operations, and a definition of its contents that does not walk the transactions |
| `StorageNetwork`, `MCStorageNetwork` | users, storage nodes and miners around `FileRegistry` |
| `Discovery`, `MCDiscovery` | how nodes find each other |
| `Observer`, `MCObserver` | reports, merge, diffs, pages, blocks and signals |
| `BlockchainProofs`, `BlockchainRegistryProofs` | theorems about `Blockchain`: the chain; the registry beside it |
| `MiningNodeProofs`, `RateLimiterProofs`, `StorageNetworkProofs`, `ConsensusProofs`, `DiscoveryProofs`, `ObserverProofs` | theorems about the six modules |

The modules divide the system by what is shared. `Blockchain` and `MiningNode` are
one node seen from inside; `Consensus`, `StorageNetwork`, `Discovery` and
`Observer` are several nodes, with each node's chain reduced to what crosses the
network. Where one has a step that another explains, it takes it at any time:
`GiveUp` in `Consensus` is the stopped miner of `MiningNode`, `Change` in
`Observer` a connection of `Discovery`, a block applied in `StorageNetwork` the
`UpdateFromBlock` of `Blockchain`, and a message that a `RateLimiter` drops is one
that is never read.

### Blockchain

`currentState`, `pendingBlocks`, `nodeBlacklist`, `blockRegistry` are the fields
of the program; `store` and `lastBlock` are the Pebble keys (hash and
`lastBlockKey`), `registryFile` and `fileRegistry` the two files. `pc`, `work`,
`receiver` and `snapshot` are the local state of the goroutines. `early` is the
set of blocks the validator would still refuse as too far in the future, and
`heard` the announcements already delivered.

A call dispatches on `currentState` (`ReceiveBlock`, `AskForBlockchainRegistry`,
`StartPostSync`) and from there runs the method it chose, whatever the state
becomes meanwhile. All three methods write a block the same way, `StoreBlock`:
`SaveBlock`, `UnlinkLast`, `LinkLast` (the three writes of `saveBlock`),
`VerifyIntegrity`, `UpdateFromBlock`, `AddToRegistry`. They differ in what they
do after an error; the tables `AfterAddError`, `AfterVerifyError`,
`AfterRegisterError` and `AfterBlock` say what. Appending to `pendingBlocks` is
a read and a write. `Restart` is a crash: memory is lost, the files and the
store stay, `main` loads them again.

Abstractions. A block is a model value with a parent and a height; two blocks
are never confused, so hashes do not collide. Blocks are those of honest miners:
targets, signatures and transactions are valid. A block that is not yet due
becomes so before its children (`ClockAssumption`, from the validator's rule
that a block is not older than its parent). `PublishBlock` keeps no state the
model sees: its failure, which registers an empty CID, is not modelled, but a
block whose provider cannot be reached is (`DownloadMissingBlocks` may leave any
entry out). `AskForBlockchainRegistry` accepts any answer broadcast on the
topic: a peer's, an older one, or a prefix of this node's own. Each announcement
is delivered once per run; a genesis also arrives through registries. Reads of
`currentState` and of slices during a write see the old or the new value. The clock
only goes forward: a step back, after which `VerifyIntegrity` could find a stored
block too early, is not modelled.

With `Faults`, a write may fail. `os.WriteFile` truncates before it writes, so a
failed `Save` of the registry leaves the file as it was, whole after all, or cut
(`registryFile = None`); a process that dies inside it may leave it cut too.
`main` only logs that it cannot load a cut file and goes on with a nil registry,
which answers nobody and whose first `Add` panics (`NoRegistry`). The file of the
file registry is cut in `StorageNetwork` in the same way; here `fileRegistry` is what
was applied in memory, and its failing save one that leaves the block out.

### LinkedLedger

The stored blocks grow and stay linked to a genesis (`Extend`), the tip is a
stored block or none (`MoveTip`), and what peers can learn of is stored and not
withdrawn (`Offer`), as long as its record can be read (`readable`). When it cannot,
everything is lost at once (`Lose`) and nothing is ever offered again: a node never
offers half of what it did. `ImplementsLedger` maps `store`, `lastBlock` and what is
`Offered` to it: the entries of `registryFile`, because the file is what survives,
and while the file is cut those in memory, which the next successful `Save` brings back.

### MiningNode

The chain is reduced to what the miner can see: `store`, `lastBlock`, whether
the node is `UpToDate`, and the instant between the `Delete` and the `Set` of
`saveBlock`. `CatchUp` is a whole synchronisation. `handler` is the goroutine of
`HandleBlock` down to its blocked send of the stop signal, `cleaner` the
goroutine that compares a signal with `currentBlock` and forwards it later, and
`miner` goes through the miner's loop: drain both channels, choose a block,
reset the pool, mine, announce, wait. A channel operation on an unbuffered
channel is one step of both sides; a non-blocking receive takes a signal only
when the sender is blocked at the channel already. `trxPool` is a set, and both
appends to it are a read and a write. `Valid` keeps of the validator what the
miner can get wrong: a block built on the empty block has height 1 and a previous
hash. Blocks are numbered in the order they are announced.

Parameters: `MaxOwn` and `MaxForeign` bound the blocks; `Forks` lets blocks be
found while others are on their way; `Reorder` lets announcements overtake one
another or get lost; `SlowNonce` assumes that the cleaner handles a signal in
less time than a nonce takes; `Founded` starts from a database with a genesis.

### RateLimiter

`Allow` runs under a mutex, so it is one action: `Accept` or `Refuse`, both on the
filtered list. `accepted` is a history the program does not keep.

### Transactions, Blocks, Consensus

A signature is a record of the key and of what is signed, a hash a record of what
is hashed, so that two are equal exactly when their contents are. A transaction
record has the fields of the Go struct; a file stands for its CID, encrypted name,
extension, size and checksum. `Rebuilt` is the announcement the validator of an
addition puts together from copied fields to check the owner's signature.
`ValidBlock` has what `Validate` compares and no more: it compares neither the
Merkle root with the transactions nor the height with the parent's.

In `Consensus` each participant reads its own clock, `now + skew[p]`. `Respond` is
the publisher of a storage node, `ReceiveTransaction` the reception of the mining
node with its validator, `StartGenesis` and `StartBlock` the two branches of the
miner's loop (a genesis keeps the timestamp of the miner's start), `Publish` the
check of its own block and the announcement, after which `Free` says how long it
waits. `GiveUp` puts the transactions back. A miner that made its genesis goes on with it until it
is announced, also when the node has stored another one meanwhile
(`securachain-mining-node/main.go:482`). `Store` is any node's acceptance, by an
announcement or a synchronisation. All participants are honest and a nonce is
found: targets do not appear.

### FileRegistry, StorageNetwork

`Add`, `Delete` and `Get` work on the lists the Go maps hold, first match and all.
`RegistryIs` says what the lists should be from the positions of a chain alone: a
file is listed when it was added after its last deletion, with the nodes that added
it since, in that order.

In `StorageNetwork` a storage node's announcement handler has the phases of the Go
loop body between the points where another goroutine or a failure can tell:
`RefuseAnnouncement`, `AcceptAnnouncement`, `Fetch` (connect, get, write, checksum,
size, add), `MoveFile`, `PinFile`, `SendToPublisher`; `FetchFails`, `MoveFileFails`
and `PinFileFails` are the `continue` statements between, with and without the
effect that failed. `cached` are the files in the IPFS datastore, `stored` the copies in
`.IPFS_Local_Storage`, which is all the collector removes. A block that is published
takes `BlockSize` of the datastore of every node that applies it (`Occupied`).

`UpdateFromBlock` applies one
transaction with its `Save`. When that fails the block ends there, and the file is as it
was, whole after all, or cut (`saved = None`); the next save brings it back. A node that
starts on a cut file ends at once (`RegisterObserver` of a nil registry), which is a
node that takes no step any more.

`collectors` holds the goroutines of `ProcessGarbageCollection`, one per saved deletion.
Each ranges over the map of owners in any order (`ReachList`) and over an owner's list
entry by entry (`ReadEntry`). The list it ranges over is the registry's own slice: a
`Delete` shifts its elements in place (`file_registry/default_registry.go:84`), and
the entry that moved into a place already read is missed (`Shifted`). Then come
`ReadDirectory`, `ReadDirectoryFails` when the home or the directory cannot be read, and
`RemoveNext`, one file at a time. `Restart` loses handler, publisher, collectors and the registry in
memory; what of the block being applied is left is never applied. `skipped`,
`unsaved`, `excused` and `stuck` are histories that name the positions and copies
that faults and the race of a collector cost. `Mine` puts any published transactions into a block, also ones
that are in another block, because stopped miners do. A publication that fails is a message nobody
reads, and an error to read the free space counts as one too. A full node's answer to an
owner is the same as a storage node's.

### Discovery

`Start` is `bootstrapPeers`: one attempt per bootstrap peer, never repeated.
`Announce`, `Connect` and `ConnectFails` are `announceAndConnect`; a peer that
could not be reached is in `ignored` for ever. Only bootstrap nodes run the DHT as
servers (`dht.go:86`): a peer connected to none of them (`Online`) neither advertises
nor finds anybody, however many other peers it is connected to. A found peer without addresses is
passed over (`dht.go:142`): `addressed` are those the DHT has an address of, which a
peer with private addresses only never is, and others no longer are some time after they were cut off.

The servers answer as one DHT, and with everyone: the limit of 100 peers of one `FindPeers`
is not modelled. mDNS, the relay and the connection manager are left out.

### Observer

`mapData`, `data`, `before` (the last entry of each host in `oldData`) and
`reports` (`peersDataChan`) are the program's; `merge` says where its loop is,
because pages and signals read `data` between its assignments and find nil while
it is rebuilt. A page is called with the slices of that moment (`Call`), registered
later (`Register`), and its initial data then goes to every page (`SendInitData`). What
a page makes of a message is from `NetworkData.js`. `FindUpdatedNodes` is as the code has
it: the nodes whose connections are equal in both slices. `SendDataToClients` ends its
round early when it cannot close a connection (`websocket.go:32`), so that the pages behind get
nothing; here a page that left is closed without an error. A block is appended and
sent in one step, and so are the two initial messages: nothing else reads what
is between. A page that does not read would stall every sender, which writes under
the mutex without a deadline; it is assumed to read.

## 3. What is checked

| Run | Instance | Properties | Distinct states |
|---|---|---|---|
| `chain_steady` | b1-b2-b3 with a fork f2 on b1; b3 ahead of the clock; a peer that lags behind the other; mining node; fairness | `TypeOK`, `SingleWriter`, `StoreRegistered`, `RegistryParentsFirst`, `LastBlockRegistered`, `StoredBlocksValid`, `SyncEnds`, `PostSyncEnds` | 279 000 |
| `chain_crash` | the same blocks, peers on both branches, crashes between writes | `ParentsStored`, `IntegrityNeverLost`, `RegisteredBlocksApplied`, `RegisteredOnce`, `GapsAreWithheld`, `WithheldByCrash` | 547 000 |
| `chain_faults` | b1-b2 with a fork f2, crashes, disk errors and cut files | `ImplementsLedger` | 2 880 000 |
| `mining_forks` | genesis, two own and two foreign blocks, forks, loss, reordering | `OneOwnChildPerParent`, `OwnBlocksExtendStore` | 2 845 000 |
| `mining_live` | an empty database, one own and two foreign blocks, one transaction, fairness | `DeliveredBlocksStored`, `MinerResumes` | 143 000 |
| `mining_signal` | genesis, one own and two foreign blocks, forks, fairness | `SignalTaken`, which is violated | - |
| `limiter` | two senders, limit 2, interval 3, ten ticks | `TypeOK`, `NeverAboveLimit`, `RefusedOnlyAtLimit` | 341 000 |
| `storage` | two users with a file each, two storage nodes, one hears of both files; room for one file and a block; three transactions in blocks of one or two; every step of one node may fail, and it may crash | `TypeOK`, `EntriesUnique`, `ProvidersHoldFile`, `RegistryFollowsChain`, `KeptOnceListed`, `OnlyBlocksOverfill` | 626 000 |
| `collect` | two files of one user on one node, each added twice and deleted; six blocks; steps may fail; fairness | `KeptOnceListed`, `DeletedIsCollected` | 424 000 |
| `consensus` | a user, a storage node, a miner, a full node, all clock settings within one second, four seconds, two blocks, one deletion | `TypeOK`, `PoolStaysValid`, `BlocksAccepted`, `HonestTransactionsAdmitted`, `MerkleRootIdentifies` | 1 065 000 |
| `observer` | the observer, a node, a bootstrap node, one page, one block, one connection that changes; fairness | `TypeOK`, `PagesOneReportBehind`, `ConnectionsShown` | 692 000 |
| `discovery` | three nodes, one with private addresses only, two bootstrap nodes, two failures, two losses; fairness | `TypeOK`, `PeersConnect` | 16 800 |

What they say:

- `SingleWriter` is the central one. No lock protects the store, yet two of the
  three goroutines are never inside the write path together, because a state
  changes only at the end of the method that leaves it, and HandleBlock writes
  only when it was called in UpToDate. An implementation that stores at once in
  PostSync breaks it.
- `StoreRegistered`, `RegistryParentsFirst` and `LastBlockRegistered` relate the store
  to the registry peers synchronise from. They hold while nothing fails; after a
  crash between `saveBlock` and `Add` a block is stored and never offered, which is
  why `chain_crash` does not claim them. `RegisteredOnce` survives the crash, and, as its
  theorem says, failed and cut writes.
- `ImplementsLedger` is what is left of the registry when its `Save` may fail and cut the
  file: peers are offered all that they were offered before, or after a restart nothing any more.
- `SyncEnds` and `PostSyncEnds`: a synchronisation ends unless every peer was asked in vain, since the
  blacklist is cleared by a success only; each run of PostSync ends. That the two states take turns for
  ever is not excluded.
- `WithheldByCrash` and `GapsAreWithheld` say what is left of them with crashes. Each
  costs peers the one block it found half-written, and for good: whoever brings that
  block again finds it stored, so it never enters the registry (`Unoffered`). A later block
  of its branch is registered all the same, and a peer that has only this registry to
  go by stops there. A genesis is the exception in both: it is stored and registered
  anew, perhaps after its children.
- `ParentsStored` and `IntegrityNeverLost` hold through crashes and faults:
  a block once written is never given up because `VerifyIntegrity` fails.
- `OneOwnChildPerParent` is about the miner's view of a last block that moves
  and vanishes. It excepts a genesis: `addGenesisBlock` stores a genesis again,
  and each announcement of it, also a late one or that of another miner's genesis,
  makes it the last block. TLC found both while the property was stated without
  the exception.

- `ProvidersHoldFile`: whoever is named as a provider in a published response, a
  block or anybody's registry has the file pinned. Nothing in the registry checks
  it; it holds because the handler answers last and because collectors and crashes
  touch neither pins nor the datastore.
- `RegistryFollowsChain` compares the registry, updated in place, with its
  reference definition after any mixture of additions, deletions, repeated
  transactions, failed saves and crashes, and says exactly which transactions a
  fault costs: the rest of that block, for ever.
- `KeptOnceListed` and `DeletedIsCollected` are the two sides of the garbage
  collector, and both exceptions of the first are real. A copy stored before its
  transaction is mined is removed by any deletion of another owner. And of two
  deletions of one owner, the second shifts the list under the first's collector: an
  entry listed all the time moves to a place already read, and its copy is removed.
  The node stays listed as a provider in both; the pinned blocks remain, see
  `ProvidersHoldFile`. What a collector may be excused is kept per collector and per file (`unseen`), so
  that no other removal passes. A collector that fails leaves its copies to a later deletion (`stuck`).
- `OnlyBlocksOverfill`: the free space is read before the download and is a difference of unsigned numbers
  (`memory_management.go:77`), yet no download takes a datastore over its limit. Published
  blocks do, as nothing looks at the space before `PublishBlock`, and one may come between the look and
  the end of a download. From then on the difference wraps around to nearly 2^64, no
  announcement is refused for want of space any more, and the property says nothing: it is
  about the step that crosses the limit.
- `BlocksAccepted`, `HonestTransactionsAdmitted` and `PoolStaysValid`: with clocks
  that differ by at most `MaxSkew`, which is at most the 10 s the validator allows,
  no honest message is refused for good. A deletion made in the validator's own
  second is refused at first, and a miner does not look at it again.
- `MerkleRootIdentifies` is about the blocks in hand: the root in the header of each block a miner
  works on or has announced is the root of that block's transactions, and of no other list up to one
  longer, also one that repeats a transaction. No validator compares the two, and a hash leaves the
  transactions out: it rests on `NewBlock` and on how an odd hash goes up a layer.
- `PagesOneReportBehind`: updates are computed with the comparison the wrong way
  round, yet each one sends everything older, because a node whose report did not
  change since the last merge is "updated". So a page is never more than the
  last report behind, except pages whose initial snapshot was overtaken (`stale`).
- `PeersConnect`: a node that keeps a bootstrap node ends connected to everyone the DHT has an address of,
  apart from those it failed with itself, who may still connect to it. A node that lost
  its bootstrap nodes never finds anybody again: `bootstrapPeers` runs once.
- `mining_signal` is described at the end of this section.

Each property has a wrong variant of a definition beside that definition (a dropped
check, a swapped order, an off-by-one) under which TLC finds it violated in the same
run; `PROJECT.json` lists them under `mutants`.

Bounds. Three or four blocks with one fork are enough for every branch of the
three methods: a known block, an unknown parent, a sibling, a pending block that
arrives by synchronisation too, a child before its parent. Two peers make the
blacklist matter; in `chain_steady`, which also checks liveness, their registries are shorter
than in `chain_crash`. The passing runs fire every action. Two own and two foreign
blocks give the miner a sibling at its own height, a longer branch and a return
to a shorter one; three signals are needed for a wait cycle, and `mining_live`
has three. Ten ticks are more than three intervals of the limiter. Two storage nodes and
two owners are what a second provider, another owner's deletion and a crash beside a
live node need; three transactions allow an addition, its deletion and the
addition again, in one block or in three. Errors are reported to the node that may
crash as well: the nodes share only the published transactions and the chain, and the
proofs have no such restriction. Files of 3 and 2 units and blocks of 1 in a capacity of 4
make the second announcement meet the free space, a block meet a full datastore, and the
free space wrap. `collect` has room for everything: six transactions, one per block, allow two
additions and two deletions with collectors of both deletions at work, and one addition
more of each file. Four seconds let a message be older
than the clocks differ, and be stored after that. With one miner and two blocks the only
parent in `consensus` is a genesis; the theorems about it have any number of miners and blocks.
A change of one
connection and reports in any order suffice for a diff that leaves a report out.
The `observer` run has one page; its invariants were also checked with two
pages and no change of connections (2.1 million states). In `discovery` two bootstrap nodes let a
node lose one server and keep another.

Deadlock. `observer`, `limiter`, `chain_crash`, `chain_faults` and `mining_live` check it. Nobody is
obliged to announce a file, to delete or to
mine, and nodes that are all connected have nothing left to do, so `storage`, `collect`,
`consensus` and `discovery` do not. The chain may wait for an announcement that never comes, so
`chain_steady` does not. `mining_forks` does not
because the node really can stop, see `mining_signal`.

Fairness. Each service is an endless loop of its own goroutine, so `chain_steady`
assumes weak fairness of the three. Strong fairness of `ReceiveRegistry(p)` says that a
peer which keeps answering has an answer read some time: the subscription is a
queue, and each round reads one message. `mining_live` assumes weak fairness of the
goroutines and that
an announcement arrives: one that is lost leaves the miner waiting until another block
as high comes. Its two further assumptions are in the constants: blocks
reach the node one at a time (`Forks = FALSE`), and `SlowNonce`. Without either
the node can stop for ever. `collect` assumes only that some collector of a node goes
on, a goroutine that never blocks. `discovery` assumes that a node's ticker goes on (weak
fairness of `Announce`) and that each round asks for everyone found (weak fairness of `Connect`);
nothing is assumed of failures but their number, and nobody is obliged to start or to come back to a
bootstrap node.
`observer` assumes weak fairness of the merge and, because a report may find the
channel full and be lost, strong fairness of each node's publishing.

### What the code says and does not do

`mining_signal` shows a received block that does not stop the miner. According to `uptodate.go:74`
and `:75` of `internal/blockchain` mining stops "if the block is received from the network while
mining" and has "the same block height or greater than the block being mined". In the trace such a block is
received while the miner mines its own of the same height. Before the signal is through the cleaner
the miner finds its nonce, announces its block and waits for a last block as high as that. The
cleaner waits to forward the signal to a miner that does not read signals any more, and HandleBlock,
which meanwhile stored a lower block (the genesis of another miner in the trace; a late sibling further down
would do), waits on the cleaner with the next one (`uptodate.go:85`). The last block is now too low
for the miner, and its own, which would be high enough, waits in the queue behind HandleBlock: the
node stores nothing more.

The models contain these further behaviours, found while they were written; the
properties above are stated so as to be true beside them:

- `post_sync.go:86`: PostSync clears `pendingBlocks`, with the blocks that were
  announced, and logged as added (`:15`), while it walked its own list.
- `uptodate.go:21`: a genesis the validator refuses is only logged and stored all the same.
- `cmd/securachain-mining-node/main.go:507`: the test is true for every received
  block, so all transactions of a stopped block return to the pool; 524-535, which
  would return only the missing ones, is never reached. They are mined again.
- `pebbledb.go:144`: `saveBlock` deletes `lastBlockKey` before it sets it; a miner
  that reads in between builds on the empty block.
- `memory_management.go:77`: see `OnlyBlocksOverfill`.
- `file_registry/default_registry.go:84` and `garbage_collector.go:37`: see `KeptOnceListed`.
- `default_manager.go:34` of both registries: a save that fails may leave a file that cannot be loaded.
- `file_registry/default_registry.go:69`: the map is read and written without a lock. Where
  the Go runtime notices it ends the process, which is a `Restart`.
- `visualisation/diff_data.go:60` marks the nodes that did not change; a node is never
  removed, because `mapData` only grows; the initial data of a page is sent to all
  of them (`websocket.go:95`); a block that arrives between the call of a page's handler and
  its registration is missing on it. The list
  topic is named `AskMyFiles` in the configuration and `AskMyFilesList` in the observer
  (`securachain-observer-node/main.go:576`), and a report has no list of peers for
  `SendFiles`: the first signal names no subscriber, the second no connection.
- `network/dht.go:151`: a peer that failed once is ignored until the process ends, and
  bootstrap peers are tried once, at the start.

## 4. What is proved

For every value of the constants:

| Module | Theorem | Statement |
|---|---|---|
| `BlockchainProofs` | `TypeCorrect` | `Spec => []TypeOK` |
| | `OneWriter` | `Spec => []SingleWriter` |
| | `ChainLinked` | `Spec => []ParentsStored` |
| | `OnlyValidBlocksStored` | `Spec => []StoredBlocksValid` |
| | `IntegrityKept` | `Spec => []IntegrityNeverLost` |
| | `NodeImplementsLedger` | `Spec => ImplementsLedger` |
| `BlockchainRegistryProofs` | `OfferedIsApplied` | `Spec => []RegisteredBlocksApplied`, if no write fails |
| | `RegistryWithoutRepeats` | `Spec => []RegisteredOnce` |
| | `CrashWithholdsOne` | `Spec => WithheldByCrash`, if no write fails |
| | `OnlyCrashesLeaveGaps` | `Spec => []GapsAreWithheld`, if no write fails |
| | `NothingStoredUnregistered` | `Spec => []StoreRegistered`, if no write fails and the process does not die |
| | `RegistryInOrder` | `Spec => []RegistryParentsFirst`, likewise |
| | `LastBlockIsRegisteredLast` | `Spec => []LastBlockRegistered`, likewise |
| `MiningNodeProofs` | `TypeCorrect` | `Spec => []TypeOK` |
| | `NoOwnForks` | `Spec => []OneOwnChildPerParent` |
| | `OwnBlocksAreLinked` | `Spec => []OwnBlocksExtendStore` |
| `RateLimiterProofs` | `TypeCorrect` | `Spec => []TypeOK` |
| | `NeverTooMany` | `Spec => []NeverAboveLimit` |
| | `RefusedWithReason` | `Spec => []RefusedOnlyAtLimit` |
| `StorageNetworkProofs` | `TypeCorrect` | `Spec => []TypeOK` |
| | `RegistryUnique` | `Spec => []EntriesUnique` |
| | `ProvidersHold` | `Spec => []ProvidersHoldFile` |
| | `ListedKept` | `Spec => []KeptOnceListed` |
| | `RegistryIsChain` | `Spec => []RegistryFollowsChain` |
| | `OnlyBlocks` | `Spec => OnlyBlocksOverfill` |
| `ConsensusProofs` | `TypeCorrect` | `Spec => []TypeOK` |
| | `PoolCorrect` | `Spec => []PoolStaysValid` |
| | `HonestAdmitted` | `Spec => []HonestTransactionsAdmitted` |
| | `BlocksAcceptedInTime` | `Spec => []BlocksAccepted` |
| | `MerkleRootInjective` | lists of any lengths with the same `MerkleRoot` are equal |
| | `RootIdentifies` | `Spec => []MerkleRootIdentifies`, if `None` is no hash |
| | `HashesLink` | an announced block is the only one with its hash, and follows one that is one lower and no later, if `None` is no hash |
| `DiscoveryProofs` | `TypeCorrect` | `Spec => []TypeOK` |
| `ObserverProofs` | `TypeCorrect` | `Spec => []TypeOK` |
| | `OneReportBehind` | `Spec => []PagesOneReportBehind` |

### The chain

The theorems of `BlockchainProofs` hold for any set of blocks, any peers and registries,
with and without mining, crashes and disk errors.
They rest on the assumptions of `Blockchain` only: parents are blocks or `None`,
registries are lists of blocks, and a child is not due before its parent.

The inductive invariant is built in three layers.

1. `TypeInv`: `TypeOK` and `WorkInv`. A goroutine inside the write path has a
   block in its list; without this `Head(work[t])` says nothing.
2. `TurnInv` adds `Turns`, the states each goroutine's label implies. `SingleWriter` is not
   inductive: it does not say why PostSync cannot start while HandleBlock
   writes. What does is that a HandleBlock which may write holds the node in UpToDate
   until its own last step, a SyncBlockchain in Syncing, a PostSync in PostSync.
3. `ChainInv` adds `BlockInv` (the block in hand has its parent stored and is due,
   or is a genesis), `DiskInv` (the store is linked and due, the last block and the
   registry are stored) and `ClockInv`. `IntegrityNeverLost` follows: the ancestors
   of a stored block lie in every linked set, the store is one.

`NodeImplementsLedger` takes `ChainInv` as an invariant and maps each step:
`SaveBlock` to `Extend`, `UnlinkLast` and `LinkLast` to `MoveTip`, a saved
`AddToRegistry` to `Offer`, also one that fails and leaves the file cut, for then the memory still holds
what was offered. A restart is a stutter unless the file is or becomes cut, which is `Lose`; from then on
`NoRegistry` keeps the node from adding anything. The
registry in memory contains the file, so that saving it withdraws nothing. `ChainInv` was
checked by TLC on both instances before it was proved.

### The registry beside the chain

`BlockchainRegistryProofs` says what peers are offered, over `ChainInv`.

`OfferedIsApplied` allows crashes between any two writes, not failed or cut ones: `saveBlock`'s writes
come before `UpdateFromBlock` and that before `AddToRegistry`, so that what a crash
leaves out is the registry's entry, never the block's transactions. `AppliedInv` adds to the
property that a block at the label `register` has been applied.

`RegistryWithoutRepeats` needs no assumption. It follows from `OnceInv`: neither the registry
nor its file has a repeat, and a block about to be written is not registered. That a block
found missing when a goroutine looked it up is still missing when it is registered is what
`TurnInv` gives: nobody else has written since. After a crash the registry may lack
stored blocks, never hold one that is not stored, so none enters it again.

`CrashWithholdsOne` and `OnlyCrashesLeaveGaps` allow crashes and no failed writes. What
`GapsAreWithheld` lacks to be inductive is in `WithheldInv`: registry and file agree; a block about to
be stored is new; and the parent of a block in hand is registered, withheld, or a
genesis. When a goroutine takes a block nobody else is in the middle of one, so that what is
stored is registered or withheld, the parent included; and what is withheld stays so
(`UnofferedStep`), so that this is still true when the block itself is registered.

The other three need `Crashes = FALSE` and `Faults = FALSE`, which `chain_steady` has too. They
are false otherwise: a process that dies between `saveBlock` and `AddToRegistry` leaves a
stored block that no peer will ever be offered, nor is it added again, for it is stored. They are
inductive only together and with `FreshInv`: the parent of a block about to be written is
registered, unless the block is a genesis, and from the last write of `saveBlock` on it is
the last block.

### The miner

`MiningNodeProofs` is about a node among others that announce what they like, as
long as blocks are linked. `OneOwnChildPerParent` says nothing of why; `MiningInv`
gives the reasons, one per goroutine:

- `CurrentInv`: what the miner works on is a genesis or extends a stored block, and it
  announces valid blocks only.
- `HandlerInv`: between unlinking and linking there is no last block, the new one is
  stored and nobody has mined on it yet.
- `MinerInv`: a last block that has an own child still on its way makes the miner wait for
  that child; what the miner works on has no own sibling. Synchronisation makes a block the
  last one only if it was not stored before, and a block that was not stored has no own
  child, as those extend the store.
- `UnknownInv`: a miner that could not read the last block works on a genesis that will be
  refused, or on the first one of all.

The heights 0 and 1 are exceptions throughout: a block of height 1 is a genesis for the
validators whatever its parent, which is why the theorem excepts it.

### The sliding window

`LimiterInv` relates the window that `Allow` keeps to everything it ever accepted
(`Window`): it is the accepted sequence without a first part, all of which is older than
the interval. `TypeCorrect` states the first half, message by message. From the second, `NeverAboveLimit` is a statement about the window alone: a message is
accepted only when the window has fewer than `Limit`. The lemmas on `InOrder` say what filtering
a sorted sequence leaves; they go through `FiniteSetTheorems`, by the rank of a position in a
set, in place of an induction on the length.

### The way of a file

Any users, files, storage nodes, sizes, capacities, blocks and numbers of crashes. The
assumptions are that every file has one owner (`FileAssumption`) and that
capacities fit in the modulus. The inductive invariant `Inv` is the conjunction of:

- `Types`: the types, `EntriesUnique` (without it the first match of a file says
  nothing of the others), the blocks hold published transactions only, and
  `Proper`: for a collector that reads the registry every file is of an owner it has yet to
  come to, ahead of it in the list it ranges over, read, or excused; and what one is about to remove is excused.
- `Prepared`: a file at a phase of the handler is cached, stored and pinned as
  far as the phase implies, and one with the publisher is held.
- `ResponsesBacked`: every addition published, and so every one in a block, is of a
  node that holds the file and whose copy is stored or excused.
- `RegistriesBacked`: so is every provider in a registry, in memory and on disk.

The argument is that what a node has it never loses (`Grows`, `CopiesKept`):
nothing unpins or empties the datastore, and a collector removes a copy only of a file it did
not read, which is one that is unlisted or one it is excused for. The
lemmas `EntryAdded`, `ProviderAdded`, `ListReplaced` and their like say what
`Add` and `Delete` do to a list without following its whole length, so no induction over
data is needed.

`RegistryIsChain` compares two readings of the chain: the registry, made by adding and
deleting block by block, in the first entry that matches; and `EntriesAfter`, which looks at all
transactions at once and takes for each file the additions behind its last deletion. The
inductive form is `Follows`: entries are one per file, have a file that is still listed, and
the providers in the order of the transactions. `InOrderGrows` and `OneAdditionMore` say what one
transaction more does to the second reading, `AddFollows` and `DeleteFollows` that the
registry's operations do the same to the first; an update that fails and a restart are
in `AppliedPositions`, the positions whose transactions the node did apply.

`OnlyBlocks` is about a sum of sizes over a set, which the community modules define by a
recursion over sets. `SpaceOfProperties` and `OneFileMore` say what it is for finite sets: zero for
none, and one more file adds its size. The theorem looks at one step, with no assumption on what the
datastore held before but that it was not over its limit: then the free space read is no overflow,
the file accepted fits beside what is there (`Needed`), and no other step of the
handler needs more. `BlockSize` is any number.

### Clocks

`ConsensusAssumption` is what it rests on: no two clocks differ by more than `MaxSkew`, which is at
most `MaxAhead`, and users and storage nodes have different keys and peers. The
inductive invariants are `Origins`, who made each published message and when, from which
`HonestAdmitted` follows by arithmetic; `PoolInv`, because validity is kept by a clock that
advances (`ValidStays`); and `BlocksInv`: every announced block was valid at the clock of its
miner when it was announced (`ValidAtMiner`), its parent had been announced, and so it is
valid at every later clock (`ValidBlockStays`). After `MaxSkew` seconds every clock is later.

### Roots and hashes

`MerkleRootInjective` is about lists of any lengths, also lists of different lengths and with
repeated transactions. `ComputeMerkleRoot` builds layer upon layer; `Layers` lists them, `RootIsOfLayers` says
that the root is the head of the last. The lemma it turns on is `PairsAreNew`: a pair made for a
layer is in no lower layer of either tree, also not as an odd hash on its way up. So neither
tree ends above the other (`NotHigher`), a pair and an odd hash never pass for one another
(`NotLonger`), and layers with the same layer above are the same (`Downwards`).

`HashesLink` adds to `BlocksInv` that announced blocks are put together as `NewBlock` does (`Made`):
the header holds the root of its transactions, so that equal headers have equal transactions
by the theorem above, and is linked to a parent that was announced before (`LinkedTo`). It is
what `Blockchain` takes for granted: its blocks are atoms with a parent
(`ChainAssumption`), and a parent is due before its child (`ClockAssumption`). `RootIdentifies` adds that
the transactions of a block in hand, like those of the pool, were published (`TakenFromPublished`).
The one hypothesis of both, `NoneIsNoHash`, is of the encoding: the root of no transactions, like the previous
hash of a genesis, is no hash of anything.

Both `OnlyBlocks` and `MerkleRootInjective` need an induction over data. The induction theorems of
the library take an operator and cannot be instantiated here; `NatInductionOnSet` is derived
instead from the well-founded order of the natural numbers (`NatLessThanWellFounded`, `WFMin`), and
is used on sets such as the layers, or the cardinalities, for which a fact holds.

### Discovery

`TypeCorrect` includes that only peers whose DHT runs are advertised, only those with a public address
have one in the DHT, and only peers that failed are ignored, for any number of peers, failures and losses.

### The observer

`ObserverProofs` holds for any nodes, pages and blocks, connections that come and go
without bound and any channel size. `ObserverInv` says at each point of the merge what the
pages may show: while `data` is rebuilt, the hosts of `before`; while the update is on its
way, the hosts of `before` or of `data`; between merges, all hosts, and the connections
of all but one as they are. The step that matters is `SendUpdate` (`UpdateShown`): `before` and
`data` differ in one report (`OneReport`, because `OldData` takes the later entry
of each host), and since `FindUpdatedNodes` names the nodes that did not change, the update
sets right all but the one that did, whatever the page showed before. One assumption
serves the encoding only: no host is called like the field of `Nothing`.

### Only model-checked

All liveness (`SyncEnds`, `PostSyncEnds`, `DeliveredBlocksStored`, `MinerResumes`,
`DeletedIsCollected`, `PeersConnect`, `ConnectionsShown`) and the violation `SignalTaken`: the
provers have no rule for fairness here. Every other property of the runs, all invariants
and both action properties, is a theorem, and so is the refinement. The types of
`MiningNode`, `MerkleRootInjective` and `HashesLink` are theorems that no run repeats.

## 5. Not modelled, and what could follow

Not modelled, because they hold no state that changes once the program runs or only
call libraries: key files and configuration, AES encryption, the relay and mDNS,
the dialogs of the client and its downloads, the drawing of the graph, the bytes of messages,
blocks and files, and the proof-of-work target.

Left out of what is modelled, and where it would show:

- A step back of a node's clock: `VerifyIntegrity` could refuse a stored block (`pebbledb.go:77`).
- A genesis the validator refuses is stored, and one stored again becomes the last block. The code
  does both, the models have them, and no property says they are wrong.
- The queue of 15 blocks and the subscription behind it (`securachain-full-node/main.go:265`): the models' queues have no
  bound, and an announcement the subscription drops is one that never arrives.
- A lost announcement of its own block leaves a miner waiting. `mining_live` assumes there is none,
  `mining_forks` has them.
- The publication of a block over IPFS that fails, after which it is registered without a CID.

What would add most, in this order:

1. `ChainNetwork`: several `Blockchain` nodes that answer one another with their own
   registries, with providers that cannot be reached and blocks registered without a
   CID (`uptodate.go:63`). Abstract specification: every node's ledger is part of
   the blocks announced.
2. What failed writes withhold, beside crashes: with them memory and registry file
   differ, and a restart withholds what only the memory had. `WithheldByCrash` for both.
3. A bound on how far published blocks overfill a datastore before the difference wraps.
