----------------------------- MODULE Blockchain -----------------------------
(***************************************************************************)
(* One node's copy of the chain: the state machine of internal/blockchain  *)
(* (UpToDate, Syncing, PostSync), the Pebble store behind it and the block *)
(* registry the node offers to the peers that synchronise from it.         *)
(*                                                                         *)
(* Three goroutines call into the same Blockchain object, with no lock:    *)
(* "handle" runs HandleBlock on every announced block, "sync" runs         *)
(* SyncBlockchain in a loop and "post" runs PostSync in a loop.  Each call *)
(* reads currentState once and runs the method of the state it read.       *)
(*                                                                         *)
(* Every durable write is a step of its own, so a crash may fall between   *)
(* any two of them.                                                        *)
(***************************************************************************)
EXTENDS Naturals, Sequences, FiniteSets

CONSTANTS
    Blocks,        \* the blocks honest miners have produced
    Parent,        \* the block whose hash b.PrevBlock is; None for a genesis
    Height,        \* Header.Height
    AheadOfClock,  \* blocks this node's clock still finds in the future
    Peers,         \* the other full nodes
    Self,          \* this node
    PeerRegistries,\* the registries a peer may answer with
    None,          \* no block
    Mining,        \* is StopMiningChan set (mining node)
    Crashes,       \* may the process stop and start again
    Faults         \* may the disk report an error, or a crash cut a registry's file

ChainAssumption ==
    /\ None \notin Blocks \cup Seq(Blocks)
    /\ Parent \in [Blocks -> Blocks \cup {None}]
    /\ Height \in [Blocks -> Nat]

\* The block validator refuses a block older than its parent: what is in the
\* future stays so at least as long for its children.
ClockAssumption ==
    /\ AheadOfClock \subseteq Blocks
    /\ \A b \in Blocks : Parent[b] \in AheadOfClock => b \in AheadOfClock

PeerAssumption ==
    /\ Self \notin Peers
    /\ PeerRegistries \in [Peers -> SUBSET Seq(Blocks)]

SwitchAssumption == {Mining, Crashes, Faults} \subseteq BOOLEAN

ASSUME ChainAssumptions ==
    ChainAssumption /\ ClockAssumption /\ PeerAssumption /\ SwitchAssumption

States  == {"UpToDate", "Syncing", "PostSync"}
Threads == {"handle", "sync", "post"}

\* Inside AddBlock, VerifyIntegrity and the two registry updates.
Writing == {"set", "unlink", "link", "verify", "apply", "register"}

HandleLabels == {"idle", "accept", "read", "append", "resync", "signal"} \cup Writing
SyncLabels   == {"idle", "ask", "download", "next"} \cup Writing
PostLabels   == {"idle", "next", "clear", "finish", "abandon", "resync"} \cup Writing

VARIABLES
    currentState,   \* which State object is installed
    pendingBlocks,  \* blocks waiting for the end of a synchronisation
    nodeBlacklist,  \* peers already asked since the last success
    store,          \* the blocks saved under their hash
    lastBlock,      \* the block under "lastBlockKey", or None
    blockRegistry,  \* the registry in memory, in the order of Add
    registryFile,   \* the registry in its file, None once a Save was cut short
    fileRegistry,   \* the blocks whose transactions were applied
    early,          \* the blocks still more than 10 s ahead of the clock
    heard,          \* the announcements already delivered
    pc,             \* where each goroutine stands
    work,           \* the blocks each goroutine still has to go through
    receiver,       \* the state whose HandleBlock "handle" is running
    snapshot        \* the slice an append has read and not yet written back

disk   == <<store, lastBlock, registryFile, fileRegistry>>
memory == <<currentState, pendingBlocks, nodeBlacklist, blockRegistry>>
env    == <<early, heard>>
locals == <<pc, work, receiver, snapshot>>
vars   == <<disk, memory, env, locals>>

-----------------------------------------------------------------------------
(* Deliberately wrong variants of definitions below, one per property: with *)
(* the variant in place of the definition the property must fail.           *)

\* Validate forgets to look for the parent.
ValidWithoutParent(b) == b \notin early

\* Validate forgets the clock.
ValidAtAnyTime(b) == Parent[b] = None \/ Parent[b] \in store

\* addNormalBlock does not look the block up first.
NeverStored(b) == b \notin Blocks

\* VerifyIntegrity refuses a chain of a genesis alone.
ChainIntactFromTwo == lastBlock # None /\ Parent[lastBlock] \in store

\* PostSync's HandleBlock stores blocks at once, like UpToDate's.
DispatchAfterSync == IF currentState # "Syncing" THEN "accept" ELSE "read"

\* SyncBlockchain signals the miner too.
AfterBlockSignal == [handle |-> "idle", sync |-> "signal", post |-> "next"]

\* saveBlock keeps the last block when it is at least as high.
UnlinkLowerLast(t) ==
    /\ pc[t] = "unlink"
    /\ LET keep == lastBlock # None /\ Height[lastBlock] >= Height[Head(work[t])]
       IN  /\ pc' = [pc EXCEPT ![t] = IF keep THEN "verify" ELSE "link"]
           /\ lastBlock' = IF keep THEN lastBlock ELSE None
    /\ UNCHANGED <<store, registryFile, fileRegistry, memory, env, work, receiver, snapshot>>

\* The file registry is left out.
VerifyIntegrityThenRegister(t) ==
    /\ pc[t] = "verify" /\ pc' = [pc EXCEPT ![t] = "register"]
    /\ UNCHANGED <<disk, memory, env, work, receiver, snapshot>>

\* The sender is not blacklisted.
ReceiveRegistryAgain(p) ==
    /\ pc["sync"] = "ask"
    /\ \E r \in IF p = Self THEN {blockRegistry} ELSE PeerRegistries[p] :
          work' = [work EXCEPT !["sync"] = r]
    /\ pc' = [pc EXCEPT !["sync"] = "download"]
    /\ UNCHANGED <<disk, memory, env, receiver, snapshot>>

\* A known or invalid pending block is looked at again and again.
SkipPendingStuck == pc["post"] = "next" /\ work["post"] # <<>> /\ UNCHANGED vars

\* main starts from an empty registry.
RestartWithoutRegistry ==
    /\ Crashes
    /\ currentState' = "UpToDate"
    /\ pendingBlocks' = <<>>
    /\ nodeBlacklist' = {}
    /\ blockRegistry' = <<>>
    /\ pc' = [t \in Threads |-> "idle"]
    /\ work' = [t \in Threads |-> <<>>]
    /\ receiver' = "UpToDate"
    /\ snapshot' = <<>>
    /\ UNCHANGED <<disk, env>>

-----------------------------------------------------------------------------

IsGenesisBlock(b)  == Parent[b] = None
PrevBlockStored(b) == Parent[b] \in store

\* Validate(b, GetBlock(b.PrevBlock)).  An absent parent is the empty block,
\* which only a genesis may have.
Valid(b) == b \notin early /\ (IsGenesisBlock(b) \/ PrevBlockStored(b))

\* Only addNormalBlock refuses a block the store already holds.
AlreadyStored(b) == ~IsGenesisBlock(b) /\ b \in store

\* A set of blocks with every parent of its members in it.
Linked(S) == \A b \in S : Parent[b] \in S \cup {None}

\* The blocks VerifyIntegrity walks from b: in every linked set with b's parent.
Ancestors(b) ==
    {a \in Blocks :
        \A S \in SUBSET Blocks : Linked(S) /\ Parent[b] \in S => a \in S}

\* VerifyIntegrity succeeds.  It starts at the parent of the last block.
ChainIntact ==
    /\ lastBlock # None
    /\ Parent[lastBlock] # None =>
          /\ Parent[lastBlock] \in store
          /\ \A a \in Ancestors(lastBlock) : a \in store /\ a \notin early

-----------------------------------------------------------------------------

Init ==
    /\ currentState = "UpToDate"
    /\ pendingBlocks = <<>>
    /\ nodeBlacklist = {}
    /\ store = {}
    /\ lastBlock = None
    /\ blockRegistry = <<>>
    /\ registryFile = <<>>
    /\ fileRegistry = {}
    /\ early = AheadOfClock
    /\ heard = {}
    /\ pc = [t \in Threads |-> "idle"]
    /\ work = [t \in Threads |-> <<>>]
    /\ receiver = "UpToDate"
    /\ snapshot = <<>>

GoTo(t, from, to) == pc[t] = from /\ pc' = [pc EXCEPT ![t] = to]

\* The goroutine leaves the block it is at: "next" goes on with the following
\* one, every other label has no use for the list any more.
Leave(t, to) ==
    /\ pc' = [pc EXCEPT ![t] = to]
    /\ work' = [work EXCEPT ![t] = IF to = "next" THEN Tail(@) ELSE <<>>]

-----------------------------------------------------------------------------
(* AddBlock, VerifyIntegrity and the registries: the same calls in all     *)
(* three methods, which differ in what they do after an error.             *)

AfterAddError == [handle |-> "idle", sync |-> "idle", post |-> "next"]
AfterVerifyError == [handle |-> "resync", sync |-> "idle", post |-> "abandon"]
AfterRegisterError == [handle |-> "idle", sync |-> "idle", post |-> "next"]
AfterBlock ==
    [handle |-> IF Mining THEN "signal" ELSE "idle", sync |-> "next", post |-> "next"]

\* saveBlock: Set(hash, block) ...
SaveBlock(t) ==
    /\ GoTo(t, "set", "unlink")
    /\ store' = store \cup {Head(work[t])}
    /\ UNCHANGED <<lastBlock, registryFile, fileRegistry, memory, env, work, receiver, snapshot>>

\* ... Delete(lastBlockKey) ...
UnlinkLast(t) ==
    /\ GoTo(t, "unlink", "link")
    /\ lastBlock' = None
    /\ UNCHANGED <<store, registryFile, fileRegistry, memory, env, work, receiver, snapshot>>

\* ... Set(lastBlockKey, block).
LinkLast(t) ==
    /\ GoTo(t, "link", "verify")
    /\ lastBlock' = Head(work[t])
    /\ UNCHANGED <<store, registryFile, fileRegistry, memory, env, work, receiver, snapshot>>

\* The three writes are separate: an error leaves the earlier ones in place.
SaveFails(t) ==
    /\ Faults
    /\ pc[t] \in {"set", "unlink", "link"}
    /\ Leave(t, AfterAddError[t])
    /\ UNCHANGED <<disk, memory, env, receiver, snapshot>>

VerifyIntegrity(t) ==
    /\ ChainIntact
    /\ GoTo(t, "verify", "apply")
    /\ UNCHANGED <<disk, memory, env, work, receiver, snapshot>>

VerifyFails(t) ==
    /\ pc[t] = "verify"
    /\ ~ChainIntact \/ Faults
    /\ Leave(t, AfterVerifyError[t])
    /\ UNCHANGED <<disk, memory, env, receiver, snapshot>>

\* fileRegistry.UpdateFromBlock; an error is logged and nothing more.
UpdateFromBlock(t) ==
    /\ GoTo(t, "apply", "register")
    /\ \/ fileRegistry' = fileRegistry \cup {Head(work[t])}
       \/ Faults /\ UNCHANGED fileRegistry
    /\ UNCHANGED <<store, lastBlock, registryFile, memory, env, work, receiver, snapshot>>

\* main has started on a file it could not read and goes on with a nil registry.
NoRegistry == registryFile = None /\ blockRegistry = <<>>

\* blockRegistry.Add appends in memory, then writes the whole file; on a nil registry it
\* panics, which is a Restart.  os.WriteFile truncates first: when it fails the file is
\* as it was, whole after all, or cut, and then no JSON.
AddToRegistry(t) ==
    /\ pc[t] = "register"
    /\ ~NoRegistry
    /\ blockRegistry' = Append(blockRegistry, Head(work[t]))
    /\ \/ /\ registryFile' = blockRegistry'
          /\ Leave(t, AfterBlock[t])
       \/ /\ Faults
          /\ registryFile' \in {registryFile, blockRegistry', None}
          /\ Leave(t, AfterRegisterError[t])
    /\ UNCHANGED <<store, lastBlock, fileRegistry, currentState, pendingBlocks,
                   nodeBlacklist, env, receiver, snapshot>>

StoreBlock(t) ==
    \/ SaveBlock(t) \/ UnlinkLast(t) \/ LinkLast(t) \/ SaveFails(t)
    \/ VerifyIntegrity(t) \/ VerifyFails(t)
    \/ UpdateFromBlock(t) \/ AddToRegistry(t)

-----------------------------------------------------------------------------
(* "handle": HandleBlock, one announced block at a time.                   *)

\* The call reads currentState; from here on it runs that state's method.
Dispatch == IF currentState = "UpToDate" THEN "accept" ELSE "read"

ReceiveBlock ==
    /\ pc["handle"] = "idle"
    /\ \E b \in Blocks \ heard :
          /\ heard' = heard \cup {b}
          /\ work' = [work EXCEPT !["handle"] = <<b>>]
    /\ receiver' = currentState
    /\ pc' = [pc EXCEPT !["handle"] = Dispatch]
    /\ UNCHANGED <<disk, memory, early, snapshot>>

\* A genesis goes straight to AddBlock: an invalid one is only logged.  Any
\* other block needs its parent, must be valid and not yet stored.
AcceptBlock ==
    /\ GoTo("handle", "accept", "set")
    /\ LET b == Head(work["handle"])
       IN  IsGenesisBlock(b) \/ (Valid(b) /\ ~AlreadyStored(b))
    /\ UNCHANGED <<disk, memory, env, work, receiver, snapshot>>

\* The parent is unknown: the node has fallen behind.
FallBehind ==
    /\ GoTo("handle", "accept", "read")
    /\ LET b == Head(work["handle"])
       IN  ~IsGenesisBlock(b) /\ (~PrevBlockStored(b) \/ Faults)
    /\ UNCHANGED <<disk, memory, env, work, receiver, snapshot>>

RefuseBlock ==
    /\ pc["handle"] = "accept"
    /\ LET b == Head(work["handle"])
       IN  ~IsGenesisBlock(b) /\ PrevBlockStored(b) /\ (~Valid(b) \/ AlreadyStored(b) \/ Faults)
    /\ Leave("handle", "idle")
    /\ UNCHANGED <<disk, memory, env, receiver, snapshot>>

\* pendingBlocks = append(pendingBlocks, b), a read ...
ReadPending ==
    /\ GoTo("handle", "read", "append")
    /\ snapshot' = pendingBlocks
    /\ UNCHANGED <<disk, memory, env, work, receiver>>

\* ... and a later write.
AppendPending ==
    /\ pc["handle"] = "append"
    /\ pendingBlocks' = Append(snapshot, Head(work["handle"]))
    /\ snapshot' = <<>>
    /\ Leave("handle", IF receiver = "UpToDate" THEN "resync" ELSE "idle")
    /\ UNCHANGED <<disk, currentState, nodeBlacklist, blockRegistry, env, receiver>>

\* SetState(SyncingState), by HandleBlock or by PostSync.
Resync(t) ==
    /\ GoTo(t, "resync", "idle")
    /\ currentState' = "Syncing"
    /\ UNCHANGED <<disk, pendingBlocks, nodeBlacklist, blockRegistry, env, work, receiver, snapshot>>

\* StopMiningChan is unbuffered: HandleBlock waits for the miner to take it.
SignalMiner ==
    /\ GoTo("handle", "signal", "idle")
    /\ UNCHANGED <<disk, memory, env, work, receiver, snapshot>>

HandleBlock ==
    \/ ReceiveBlock \/ AcceptBlock \/ FallBehind \/ RefuseBlock
    \/ ReadPending \/ AppendPending \/ Resync("handle") \/ SignalMiner
    \/ StoreBlock("handle")

-----------------------------------------------------------------------------
(* "sync": SyncBlockchain.                                                 *)

AskForBlockchainRegistry ==
    /\ currentState = "Syncing"
    /\ GoTo("sync", "idle", "ask")
    /\ UNCHANGED <<disk, memory, env, work, receiver, snapshot>>

Prefixes(s) == {SubSeq(s, 1, n) : n \in 0 .. Len(s)}

\* Answers are broadcast and carry no request: any peer's, an older one, or the
\* answer this node once gave to somebody else.
AnswersOf(p) ==
    CASE p # Self  -> PeerRegistries[p]
      [] NoRegistry -> {}
      [] OTHER      -> Prefixes(blockRegistry)

\* The sender is blacklisted before its registry is used.
ReceiveRegistry(p) ==
    /\ pc["sync"] = "ask"
    /\ p \notin nodeBlacklist
    /\ nodeBlacklist' = nodeBlacklist \cup {p}
    /\ \E r \in AnswersOf(p) : work' = [work EXCEPT !["sync"] = r]
    /\ pc' = [pc EXCEPT !["sync"] = "download"]
    /\ UNCHANGED <<disk, currentState, pendingBlocks, blockRegistry, env, receiver, snapshot>>

IgnoreRegistry ==
    /\ GoTo("sync", "ask", "idle")
    /\ nodeBlacklist # {}
    /\ UNCHANGED <<disk, memory, env, work, receiver, snapshot>>

\* The ways to list the positions I of a sequence in order (there is one).
InOrder(I) ==
    {f \in [1 .. Cardinality(I) -> I] : \A j, k \in DOMAIN f : j < k => f[j] < f[k]}

\* GetMissingBlocks then DownloadMissingBlocks: the entries not in the store,
\* less those whose provider could not be reached.
DownloadMissingBlocks ==
    /\ GoTo("sync", "download", "next")
    /\ LET r == work["sync"]
       IN  \E I \in SUBSET {i \in DOMAIN r : r[i] \notin store} :
             \E f \in InOrder(I) :
                work' = [work EXCEPT !["sync"] = [k \in 1 .. Cardinality(I) |-> r[f[k]]]]
    /\ UNCHANGED <<disk, memory, env, receiver, snapshot>>

DownloadFails ==
    /\ pc["sync"] = "download"
    /\ \E i \in DOMAIN work["sync"] : work["sync"][i] \notin store
    /\ Leave("sync", "idle")
    /\ UNCHANGED <<disk, memory, env, receiver, snapshot>>

TakeDownloaded ==
    /\ GoTo("sync", "next", "set")
    /\ work["sync"] # <<>>
    /\ Valid(Head(work["sync"])) /\ ~AlreadyStored(Head(work["sync"]))
    /\ UNCHANGED <<disk, memory, env, work, receiver, snapshot>>

\* The first block that cannot be added ends the round, still in Syncing.
GiveUpSync ==
    /\ pc["sync"] = "next"
    /\ work["sync"] # <<>>
    /\ LET b == Head(work["sync"])
       IN  ~Valid(b) \/ AlreadyStored(b) \/ (Faults /\ ~IsGenesisBlock(b))
    /\ Leave("sync", "idle")
    /\ UNCHANGED <<disk, memory, env, receiver, snapshot>>

\* The blacklist is cleared and PostSync takes over.
FinishSync ==
    /\ GoTo("sync", "next", "idle")
    /\ work["sync"] = <<>>
    /\ nodeBlacklist' = {}
    /\ currentState' = "PostSync"
    /\ UNCHANGED <<disk, pendingBlocks, blockRegistry, env, work, receiver, snapshot>>

SyncBlockchain ==
    \/ AskForBlockchainRegistry
    \/ \E p \in Peers \cup {Self} : ReceiveRegistry(p)
    \/ IgnoreRegistry
    \/ DownloadMissingBlocks \/ DownloadFails
    \/ TakeDownloaded \/ GiveUpSync \/ FinishSync
    \/ StoreBlock("sync")

-----------------------------------------------------------------------------
(* "post": PostSync.                                                       *)

\* The order a stable sort by height gives the positions of s.
StableOrders(s) ==
    {f \in [DOMAIN s -> DOMAIN s] :
        \A i, j \in DOMAIN s : i < j =>
            \/ Height[s[f[i]]] < Height[s[f[j]]]
            \/ Height[s[f[i]]] = Height[s[f[j]]] /\ f[i] < f[j]}

\* SortBlockByHeight sorts in place and its result is the list the loop walks.
StartPostSync ==
    /\ currentState = "PostSync"
    /\ GoTo("post", "idle", "next")
    /\ \E f \in StableOrders(pendingBlocks) :
          /\ pendingBlocks' = [i \in DOMAIN pendingBlocks |-> pendingBlocks[f[i]]]
          /\ work' = [work EXCEPT !["post"] = pendingBlocks']
    /\ UNCHANGED <<disk, currentState, nodeBlacklist, blockRegistry, env, receiver, snapshot>>

TakePending ==
    /\ GoTo("post", "next", "set")
    /\ work["post"] # <<>>
    /\ LET b == Head(work["post"])
       IN  PrevBlockStored(b) /\ Valid(b) /\ ~AlreadyStored(b)
    /\ UNCHANGED <<disk, memory, env, work, receiver, snapshot>>

\* Invalid or known: on to the next one.
SkipPending ==
    /\ pc["post"] = "next"
    /\ work["post"] # <<>>
    /\ LET b == Head(work["post"])
       IN  PrevBlockStored(b) /\ (~Valid(b) \/ AlreadyStored(b) \/ Faults)
    /\ Leave("post", "next")
    /\ UNCHANGED <<disk, memory, env, receiver, snapshot>>

\* A block without a stored parent, which a pending genesis always is.
MissPending ==
    /\ pc["post"] = "next"
    /\ work["post"] # <<>>
    /\ ~PrevBlockStored(Head(work["post"])) \/ Faults
    /\ Leave("post", "abandon")
    /\ UNCHANGED <<disk, memory, env, receiver, snapshot>>

AllPendingDone ==
    /\ GoTo("post", "next", "clear")
    /\ work["post"] = <<>>
    /\ UNCHANGED <<disk, memory, env, work, receiver, snapshot>>

\* pendingBlocks = []block.Block{}, before the state changes.
ClearPending ==
    /\ pc["post"] \in {"clear", "abandon"}
    /\ pendingBlocks' = <<>>
    /\ pc' = [pc EXCEPT !["post"] = IF @ = "clear" THEN "finish" ELSE "resync"]
    /\ UNCHANGED <<disk, currentState, nodeBlacklist, blockRegistry, env, work, receiver, snapshot>>

FinishPostSync ==
    /\ GoTo("post", "finish", "idle")
    /\ currentState' = "UpToDate"
    /\ UNCHANGED <<disk, pendingBlocks, nodeBlacklist, blockRegistry, env, work, receiver, snapshot>>

PostSync ==
    \/ StartPostSync \/ TakePending \/ SkipPending \/ MissPending
    \/ AllPendingDone \/ ClearPending \/ FinishPostSync \/ Resync("post")
    \/ StoreBlock("post")

-----------------------------------------------------------------------------

\* The node's clock catches up with a block, parents first.
ClockPasses ==
    /\ \E b \in early : Parent[b] \notin early /\ early' = early \ {b}
    /\ UNCHANGED <<disk, memory, heard, locals>>

\* What Load finds in the file.
SavedRegistry == IF registryFile = None THEN <<>> ELSE registryFile

\* The process dies, maybe between the truncation and the write of a Save, and main
\* builds everything again from the disk.
Restart ==
    /\ Crashes
    /\ \/ UNCHANGED registryFile
       \/ Faults /\ (\E t \in Threads : pc[t] = "register") /\ registryFile' = None
    /\ currentState' = "UpToDate"
    /\ pendingBlocks' = <<>>
    /\ nodeBlacklist' = {}
    /\ blockRegistry' = SavedRegistry'
    /\ pc' = [t \in Threads |-> "idle"]
    /\ work' = [t \in Threads |-> <<>>]
    /\ receiver' = "UpToDate"
    /\ snapshot' = <<>>
    /\ UNCHANGED <<store, lastBlock, fileRegistry, env>>

Next == HandleBlock \/ SyncBlockchain \/ PostSync \/ ClockPasses \/ Restart

Spec == Init /\ [][Next]_vars

\* Every goroutine keeps running, and every peer that goes on answering has its
\* answer read: the subscription is a queue.
Fairness ==
    /\ WF_vars(HandleBlock)
    /\ WF_vars(SyncBlockchain)
    /\ WF_vars(PostSync)
    /\ \A p \in Peers : SF_vars(ReceiveRegistry(p))

FairSpec == Spec /\ Fairness

-----------------------------------------------------------------------------
(* What the node promises.                                                 *)

TypeOK ==
    /\ currentState \in States
    /\ pendingBlocks \in Seq(Blocks)
    /\ nodeBlacklist \subseteq Peers \cup {Self}
    /\ store \subseteq Blocks
    /\ lastBlock \in Blocks \cup {None}
    /\ blockRegistry \in Seq(Blocks)
    /\ registryFile \in Seq(Blocks) \cup {None}
    /\ fileRegistry \subseteq Blocks
    /\ early \subseteq Blocks
    /\ heard \subseteq Blocks
    /\ pc \in [Threads -> HandleLabels \cup SyncLabels \cup PostLabels]
    /\ pc["handle"] \in HandleLabels
    /\ pc["sync"] \in SyncLabels
    /\ pc["post"] \in PostLabels
    /\ work \in [Threads -> Seq(Blocks)]
    /\ receiver \in States
    /\ snapshot \in Seq(Blocks)

Registered == {blockRegistry[i] : i \in DOMAIN blockRegistry}

RegisteredInFile == {SavedRegistry[i] : i \in DOMAIN SavedRegistry}

\* The goroutine t is between the first write of its block and the last.
InFlight(t) == pc[t] \in Writing /\ pc[t] # "set"

\* The three goroutines share the database without a lock, and yet no two of them
\* are ever inside AddBlock, VerifyIntegrity or the registries at the same time.
SingleWriter ==
    \A t, u \in Threads : pc[t] \in Writing /\ pc[u] \in Writing => t = u

\* The parent of every stored block is stored, whichever path stored it, through
\* crashes and write errors: GetBlock(b.PrevBlock) never fails on a stored b.
ParentsStored == Linked(store)

\* When VerifyIntegrity is called it can fail by a disk error only: no order of
\* announcements and synchronisations leads HandleBlock or PostSync to give up
\* a block they have already written.
IntegrityNeverLost == \A t \in Threads : pc[t] = "verify" => ChainIntact

\* A block that is not a genesis is stored only if it passed the validator.
StoredBlocksValid == \A b \in store : b \in early => IsGenesisBlock(b)

\* While no process dies and no write fails, every stored block is in the registry
\* peers synchronise from, or its writer is about to add it.
StoreRegistered ==
    \A b \in store : b \in Registered
        \/ \E t \in Threads : InFlight(t) /\ Head(work[t]) = b

\* While no process dies and no write fails, an entry of the registry comes after
\* its parent: the order in which SyncBlockchain of a peer goes through it.
RegistryParentsFirst ==
    \A i \in DOMAIN blockRegistry :
        ~IsGenesisBlock(blockRegistry[i]) =>
            \E j \in 1 .. (i - 1) : blockRegistry[j] = Parent[blockRegistry[i]]

\* A block announced, downloaded and pending at once is registered one time, a
\* genesis excepted, also when a crash or an error comes between the writes.
RegisteredOnce ==
    \A i, j \in DOMAIN blockRegistry :
        blockRegistry[i] = blockRegistry[j] => i = j \/ IsGenesisBlock(blockRegistry[i])

\* Between two writes GetLastBlock returns the block registered last.
LastBlockRegistered ==
    (\A t \in Threads : ~InFlight(t)) =>
        lastBlock = IF blockRegistry = <<>> THEN None
                    ELSE blockRegistry[Len(blockRegistry)]

\* While no write fails or is cut short, a block is offered to peers only when it is on the
\* disk and its transactions have reached the file registry, also after a crash between
\* these writes.
RegisteredBlocksApplied ==
    /\ Registered \subseteq fileRegistry
    /\ fileRegistry \subseteq store
    /\ RegisteredInFile \subseteq store

\* Stored, and neither registered nor about to be: peers are not offered it.
Unoffered ==
    {b \in store \ Registered :
        \A t \in Threads : InFlight(t) => Head(work[t]) # b}

\* While no write fails or is cut short, a block is withheld from peers only by a crash
\* between the writes of its own, so that a crash costs one block at most; and it is withheld for ever,
\* because whatever brings it again finds it stored. A genesis is stored anew.
WithheldByCrash ==
    [][/\ \A b \in Unoffered' \ Unoffered :
             Restart /\ \E t \in Threads : InFlight(t) /\ Head(work[t]) = b
       /\ \A b \in Unoffered \ Unoffered' : IsGenesisBlock(b)]_vars

\* While no write fails or is cut short, through crashes: an entry comes after its parent,
\* as a peer needs it to, or the parent is a genesis or withheld from peers for ever.
GapsAreWithheld ==
    \A i \in DOMAIN blockRegistry :
        LET b == blockRegistry[i] IN
        \/ IsGenesisBlock(b) \/ IsGenesisBlock(Parent[b])
        \/ \E j \in 1 .. (i - 1) : blockRegistry[j] = Parent[b]
        \/ Parent[b] \in Unoffered

\* A node that finds itself behind does not stay so while a peer is left that
\* answers and was not tried: it ends the synchronisation or has tried everyone.
SyncEnds ==
    currentState = "Syncing" ~> (currentState # "Syncing" \/ Peers \subseteq nodeBlacklist)

\* PostSync always comes to an end, in UpToDate or back in Syncing.
PostSyncEnds == currentState = "PostSync" ~> currentState # "PostSync"

\* What peers learn of after a restart; while the file is cut, what the registry in memory
\* still holds and the next Save brings back.
Offered == IF registryFile = None THEN Registered ELSE RegisteredInFile

\* The node implements the ledger: no interleaving, crash or write error takes back
\* a stored block, stores one apart from the chain, or withdraws what peers were offered,
\* unless the process dies while the file is cut: then everything offered is lost and
\* nothing is offered any more.
Ledger == INSTANCE LinkedLedger
            WITH ledger <- store, tip <- lastBlock, offered <- Offered,
                 readable <- registryFile # None

ImplementsLedger == Ledger!Spec
=============================================================================
