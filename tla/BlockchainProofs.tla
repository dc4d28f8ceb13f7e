-------------------------- MODULE BlockchainProofs --------------------------
(* Proofs about Blockchain, for any blocks, peers and registries.          *)
EXTENDS Blockchain, TLAPS, FiniteSetTheorems, SequenceTheorems

\* A goroutine that handles a block has one.
WorkInv ==
    /\ pc["handle"] \in {"accept", "read", "append"} => work["handle"] # <<>>
    /\ \A t \in Threads : pc[t] \in Writing => work[t] # <<>>

TypeInv == TypeOK /\ WorkInv

\* Picking positions of a sequence, in any order, gives a sequence over the same set.
LEMMA RearrangedType ==
    ASSUME NEW S, NEW s \in Seq(S), NEW n \in Nat, NEW f \in [1 .. n -> DOMAIN s]
    PROVE  [i \in 1 .. n |-> s[f[i]]] \in Seq(S)
<1>1. \A i \in 1 .. n : s[f[i]] \in S
      BY ElementOfSeq, LenProperties
<1>2. [i \in 1 .. n |-> s[f[i]]] \in [1 .. n -> S]
      BY <1>1
<1> QED BY <1>2, SeqDef

LEMMA AppendedRange ==
    ASSUME NEW S, NEW s \in Seq(S), NEW e \in S, NEW r, r = Append(s, e)
    PROVE  {r[i] : i \in DOMAIN r} = {s[i] : i \in DOMAIN s} \cup {e}
<1>1. Len(s) \in Nat /\ DOMAIN s = 1 .. Len(s)
      BY LenProperties
<1>2. /\ DOMAIN r = 1 .. (Len(s) + 1)
      /\ \A i \in 1 .. Len(s) : r[i] = s[i]
      /\ r[Len(s) + 1] = e
      BY AppendProperties, <1>1
<1>3. 1 .. (Len(s) + 1) = (1 .. Len(s)) \cup {Len(s) + 1}
      BY <1>1
<1> QED BY <1>1, <1>2, <1>3

LEMMA InitTypeInv == Init => TypeInv
BY ChainAssumptions, EmptySeq DEF Init, TypeInv, TypeOK, WorkInv, Threads, States, Writing,
   HandleLabels, SyncLabels, PostLabels, ClockAssumption

LEMMA StoreBlockTypeInv ==
    ASSUME TypeInv, NEW t \in Threads, StoreBlock(t)
    PROVE  TypeInv'
<1> USE DEF TypeInv, TypeOK, WorkInv, Threads, States, Writing,
            HandleLabels, SyncLabels, PostLabels, GoTo, Leave, disk, memory, env
<1>1. CASE SaveBlock(t)
      BY <1>1 DEF SaveBlock
<1>2. CASE UnlinkLast(t)
      BY <1>2 DEF UnlinkLast
<1>3. CASE LinkLast(t)
      BY <1>3 DEF LinkLast
<1>4. CASE SaveFails(t)
      BY <1>4 DEF SaveFails, AfterAddError
<1>5. CASE VerifyIntegrity(t)
      BY <1>5 DEF VerifyIntegrity
<1>6. CASE VerifyFails(t)
      BY <1>6 DEF VerifyFails, AfterVerifyError
<1>7. CASE UpdateFromBlock(t)
      BY <1>7 DEF UpdateFromBlock
<1>8. CASE AddToRegistry(t)
  <2>1. /\ blockRegistry' \in Seq(Blocks)
        /\ registryFile' \in Seq(Blocks) \cup {None}
    <3>1. blockRegistry' \in Seq(Blocks)
          BY <1>8, Head(work[t]) \in Blocks, AppendProperties DEF AddToRegistry
    <3> QED BY <1>8, <3>1 DEF AddToRegistry
  <2>2. PICK to \in {AfterBlock[t], AfterRegisterError[t]} : Leave(t, to)
        BY <1>8 DEF AddToRegistry
  <2>3. /\ t = "handle" => to \in {"idle", "signal"}
        /\ t = "sync" => to \in {"idle", "next"}
        /\ t = "post" => to = "next"
        BY <2>2 DEF AfterBlock, AfterRegisterError
  <2>4. work' \in [Threads -> Seq(Blocks)]
    <3>1. work' = [work EXCEPT ![t] = IF to = "next" THEN Tail(work[t]) ELSE <<>>]
          BY <2>2
    <3>2. work[t] \in Seq(Blocks) /\ work[t] # <<>>
          BY <1>8 DEF AddToRegistry
    <3>3. Tail(work[t]) \in Seq(Blocks) /\ <<>> \in Seq(Blocks)
          BY <3>2
    <3>4. PICK rest \in Seq(Blocks) : work' = [work EXCEPT ![t] = rest]
          BY <3>1, <3>3
    <3> QED BY <3>4
  <2>5. WorkInv'
        BY <2>2, <2>3
  <2> QED BY <1>8, <2>1, <2>2, <2>3, <2>4, <2>5 DEF AddToRegistry
<1> QED BY <1>1, <1>2, <1>3, <1>4, <1>5, <1>6, <1>7, <1>8 DEF StoreBlock

LEMMA HandleBlockTypeInv ==
    ASSUME TypeInv, HandleBlock
    PROVE  TypeInv'
<1> USE DEF TypeInv, TypeOK, WorkInv, Threads, States, Writing,
            HandleLabels, SyncLabels, PostLabels, GoTo, Leave, disk, memory, env
<1>1. CASE ReceiveBlock
      BY <1>1 DEF ReceiveBlock, Dispatch
<1>2. CASE AcceptBlock
      BY <1>2 DEF AcceptBlock
<1>3. CASE FallBehind
      BY <1>3 DEF FallBehind
<1>4. CASE RefuseBlock
      BY <1>4 DEF RefuseBlock
<1>5. CASE ReadPending
      BY <1>5 DEF ReadPending
<1>6. CASE AppendPending
  <2>1. pendingBlocks' \in Seq(Blocks)
        BY <1>6, Head(work["handle"]) \in Blocks, AppendProperties DEF AppendPending
  <2> QED BY <1>6, <2>1 DEF AppendPending
<1>7. CASE Resync("handle")
      BY <1>7 DEF Resync
<1>8. CASE SignalMiner
      BY <1>8 DEF SignalMiner
<1>9. CASE StoreBlock("handle")
      BY <1>9, StoreBlockTypeInv
<1> QED BY <1>1, <1>2, <1>3, <1>4, <1>5, <1>6, <1>7, <1>8, <1>9 DEF HandleBlock

\* A registry this node may receive is a list of blocks.
LEMMA AnswersType ==
    ASSUME TypeOK, NEW p \in Peers \cup {Self}, NEW r \in AnswersOf(p)
    PROVE  r \in Seq(Blocks)
<1>1. CASE p = Self
  <2>1. PICK n \in 0 .. Len(blockRegistry) : r = SubSeq(blockRegistry, 1, n)
        BY <1>1 DEF AnswersOf, Prefixes, PeerAssumption
  <2> QED BY <2>1, SubSeqProperties DEF TypeOK
<1>2. CASE p # Self
      BY <1>2, ChainAssumptions DEF AnswersOf, PeerAssumption
<1> QED BY <1>1, <1>2

LEMMA SyncBlockchainTypeInv ==
    ASSUME TypeInv, SyncBlockchain
    PROVE  TypeInv'
<1> USE DEF TypeInv, TypeOK, WorkInv, Threads, States, Writing,
            HandleLabels, SyncLabels, PostLabels, GoTo, Leave, disk, memory, env
<1>1. CASE AskForBlockchainRegistry
      BY <1>1 DEF AskForBlockchainRegistry
<1>2. ASSUME NEW p \in Peers \cup {Self}, ReceiveRegistry(p)
      PROVE  TypeInv'
  <2>1. work' \in [Threads -> Seq(Blocks)]
        BY <1>2, AnswersType DEF ReceiveRegistry
  <2>2. nodeBlacklist' \subseteq Peers \cup {Self}
        BY <1>2 DEF ReceiveRegistry
  <2> QED BY <1>2, <2>1, <2>2 DEF ReceiveRegistry
<1>3. CASE IgnoreRegistry
      BY <1>3 DEF IgnoreRegistry
<1>4. CASE DownloadMissingBlocks
  <2> DEFINE r == work["sync"]
  <2>0. PICK I \in SUBSET {i \in DOMAIN r : r[i] \notin store} :
            \E f \in InOrder(I) :
                work' = [work EXCEPT !["sync"] = [k \in 1 .. Cardinality(I) |-> r[f[k]]]]
        BY <1>4 DEF DownloadMissingBlocks
  <2>1. PICK f \in InOrder(I) :
            work' = [work EXCEPT !["sync"] = [k \in 1 .. Cardinality(I) |-> r[f[k]]]]
        BY <2>0
  <2>2. r \in Seq(Blocks) /\ I \subseteq 1 .. Len(r)
        BY <2>0
  <2>3. Cardinality(I) \in Nat
    <3>1. IsFiniteSet(1 .. Len(r))
          BY <2>2, LenProperties, FS_Interval
    <3>2. IsFiniteSet(I)
          BY <2>2, <3>1, FS_Subset
    <3> QED BY <3>2, FS_CardinalityType
  <2>4. f \in [1 .. Cardinality(I) -> I]
        BY <2>1 DEF InOrder
  <2>5. [k \in 1 .. Cardinality(I) |-> r[f[k]]] \in Seq(Blocks)
    <3> DEFINE n == Cardinality(I)
    <3>1. f \in [1 .. n -> DOMAIN r]
          BY <2>0, <2>4
    <3>2. r \in Seq(Blocks) /\ n \in Nat
          BY <2>2, <2>3
    <3> HIDE DEF r, n
    <3>3. [k \in 1 .. n |-> r[f[k]]] \in Seq(Blocks)
          BY <3>1, <3>2, RearrangedType
    <3> QED BY <3>3 DEF n
  <2>6. work' \in [Threads -> Seq(Blocks)]
    <3> DEFINE s == [k \in 1 .. Cardinality(I) |-> r[f[k]]]
    <3>1. s \in Seq(Blocks) /\ work' = [work EXCEPT !["sync"] = s]
          BY <2>1, <2>5
    <3> HIDE DEF s
    <3> QED BY <3>1
  <2> QED BY <1>4, <2>1, <2>6 DEF DownloadMissingBlocks
<1>5. CASE DownloadFails
      BY <1>5 DEF DownloadFails
<1>6. CASE TakeDownloaded
      BY <1>6 DEF TakeDownloaded
<1>7. CASE GiveUpSync
      BY <1>7 DEF GiveUpSync
<1>8. CASE FinishSync
      BY <1>8 DEF FinishSync
<1>9. CASE StoreBlock("sync")
      BY <1>9, StoreBlockTypeInv
<1> QED BY <1>1, <1>2, <1>3, <1>4, <1>5, <1>6, <1>7, <1>8, <1>9 DEF SyncBlockchain

LEMMA PostSyncTypeInv ==
    ASSUME TypeInv, PostSync
    PROVE  TypeInv'
<1> USE DEF TypeInv, TypeOK, WorkInv, Threads, States, Writing,
            HandleLabels, SyncLabels, PostLabels, GoTo, Leave, disk, memory, env
<1>1. CASE StartPostSync
  <2>1. PICK f \in StableOrders(pendingBlocks) :
            /\ pendingBlocks' = [i \in DOMAIN pendingBlocks |-> pendingBlocks[f[i]]]
            /\ work' = [work EXCEPT !["post"] = pendingBlocks']
        BY <1>1 DEF StartPostSync
  <2>2. f \in [DOMAIN pendingBlocks -> DOMAIN pendingBlocks]
        BY <2>1 DEF StableOrders
  <2>3. pendingBlocks' \in Seq(Blocks)
    <3>1. Len(pendingBlocks) \in Nat /\ DOMAIN pendingBlocks = 1 .. Len(pendingBlocks)
          BY LenProperties
    <3> QED BY <2>1, <2>2, <3>1, RearrangedType
  <2> QED BY <1>1, <2>1, <2>3 DEF StartPostSync
<1>2. CASE TakePending
      BY <1>2 DEF TakePending
<1>3. CASE SkipPending
      BY <1>3 DEF SkipPending
<1>4. CASE MissPending
      BY <1>4 DEF MissPending
<1>5. CASE AllPendingDone
      BY <1>5 DEF AllPendingDone
<1>6. CASE ClearPending
      BY <1>6 DEF ClearPending
<1>7. CASE FinishPostSync
      BY <1>7 DEF FinishPostSync
<1>8. CASE Resync("post")
      BY <1>8 DEF Resync
<1>9. CASE StoreBlock("post")
      BY <1>9, StoreBlockTypeInv
<1> QED BY <1>1, <1>2, <1>3, <1>4, <1>5, <1>6, <1>7, <1>8, <1>9 DEF PostSync

LEMMA NextTypeInv == TypeInv /\ [Next]_vars => TypeInv'
<1> SUFFICES ASSUME TypeInv, [Next]_vars PROVE TypeInv'
    OBVIOUS
<1>1. CASE HandleBlock
      BY <1>1, HandleBlockTypeInv
<1>2. CASE SyncBlockchain
      BY <1>2, SyncBlockchainTypeInv
<1>3. CASE PostSync
      BY <1>3, PostSyncTypeInv
<1>4. CASE ClockPasses
      BY <1>4 DEF ClockPasses, disk, memory, locals, TypeInv, TypeOK, WorkInv
<1>5. CASE Restart
      BY <1>5 DEF Restart, SavedRegistry, env, TypeInv, TypeOK, WorkInv, Threads, States, Writing,
         HandleLabels, SyncLabels, PostLabels
<1>6. CASE UNCHANGED vars
      BY <1>6 DEF vars, disk, memory, env, locals, TypeInv, TypeOK, WorkInv
<1> QED BY <1>1, <1>2, <1>3, <1>4, <1>5, <1>6 DEF Next

\* Every variable of a node keeps its type, through errors and restarts.
THEOREM TypeCorrect == Spec => []TypeOK
<1>1. TypeInv => TypeOK
      BY DEF TypeInv
<1> QED BY <1>1, InitTypeInv, NextTypeInv, PTL DEF Spec

-----------------------------------------------------------------------------
(* Turns: a goroutine that does more than queue a block holds the state.    *)

\* SyncBlockchain runs in Syncing and PostSync in PostSync to the end; so does
\* HandleBlock in UpToDate, as only it leaves that state.  A HandleBlock that
\* read another state only appends to the pending blocks.
Turns ==
    /\ pc["handle"] # "idle" /\ receiver = "UpToDate" => currentState = "UpToDate"
    /\ pc["handle"] \notin {"idle", "read", "append"} => receiver = "UpToDate"
    /\ pc["sync"] # "idle" => currentState = "Syncing"
    /\ pc["post"] # "idle" => currentState = "PostSync"

TurnInv == TypeInv /\ Turns

LEMMA TurnsSingleWriter == TurnInv => SingleWriter
BY DEF TurnInv, Turns, TypeInv, TypeOK, SingleWriter, Threads, Writing

LEMMA InitTurnInv == Init => TurnInv
BY InitTypeInv DEF Init, TurnInv, Turns, Threads

LEMMA StoreBlockTurns ==
    ASSUME TurnInv, NEW t \in Threads, StoreBlock(t)
    PROVE  Turns'
<1>1. /\ pc[t] \in Writing
      /\ UNCHANGED <<currentState, receiver>>
      /\ \E l : pc' = [pc EXCEPT ![t] = l]
      BY DEF StoreBlock, SaveBlock, UnlinkLast, LinkLast, SaveFails, VerifyIntegrity,
         VerifyFails, UpdateFromBlock, AddToRegistry, GoTo, Leave, memory, Writing
<1>2. t = "handle" => pc'[t] \in Writing \cup {"resync", "signal", "idle"}
      BY DEF StoreBlock, SaveBlock, UnlinkLast, LinkLast, SaveFails, VerifyIntegrity,
         VerifyFails, UpdateFromBlock, AddToRegistry, GoTo, Leave, Writing, TurnInv, TypeInv,
         TypeOK, AfterAddError, AfterVerifyError, AfterBlock, AfterRegisterError
<1> QED BY <1>1, <1>2 DEF TurnInv, Turns, TypeInv, TypeOK, Threads, Writing

LEMMA NextTurnInv == TurnInv /\ [Next]_vars => TurnInv'
<1> SUFFICES ASSUME TurnInv, [Next]_vars PROVE Turns'
    BY NextTypeInv DEF TurnInv
<1> USE DEF TurnInv, Turns, TypeInv, TypeOK, GoTo, Leave, memory, Threads, Writing
<1>1. CASE HandleBlock
  <2>1. CASE StoreBlock("handle")
        BY <2>1, StoreBlockTurns
  <2>2. CASE ReceiveBlock
        BY <2>2 DEF ReceiveBlock, Dispatch
  <2>3. CASE AcceptBlock \/ FallBehind \/ RefuseBlock \/ ReadPending \/ SignalMiner
        BY <2>3 DEF AcceptBlock, FallBehind, RefuseBlock, ReadPending, SignalMiner
  <2>4. CASE AppendPending
        BY <2>4 DEF AppendPending
  <2>5. CASE Resync("handle")
        BY <2>5 DEF Resync
  <2> QED BY <1>1, <2>1, <2>2, <2>3, <2>4, <2>5 DEF HandleBlock
<1>2. CASE SyncBlockchain
  <2>1. CASE StoreBlock("sync")
        BY <2>1, StoreBlockTurns
  <2>2. CASE AskForBlockchainRegistry \/ IgnoreRegistry \/ TakeDownloaded \/ GiveUpSync
        BY <2>2 DEF AskForBlockchainRegistry, IgnoreRegistry, TakeDownloaded, GiveUpSync
  <2>3. CASE DownloadMissingBlocks \/ DownloadFails
        BY <2>3 DEF DownloadMissingBlocks, DownloadFails
  <2>4. ASSUME NEW p \in Peers \cup {Self}, ReceiveRegistry(p) PROVE Turns'
        BY <2>4 DEF ReceiveRegistry
  <2>5. CASE FinishSync
        BY <2>5 DEF FinishSync
  <2> QED BY <1>2, <2>1, <2>2, <2>3, <2>4, <2>5 DEF SyncBlockchain
<1>3. CASE PostSync
  <2>1. CASE StoreBlock("post")
        BY <2>1, StoreBlockTurns
  <2>2. CASE StartPostSync
        BY <2>2 DEF StartPostSync
  <2>3. CASE TakePending \/ SkipPending \/ MissPending \/ AllPendingDone \/ ClearPending
        BY <2>3 DEF TakePending, SkipPending, MissPending, AllPendingDone, ClearPending
  <2>4. CASE FinishPostSync \/ Resync("post")
        BY <2>4 DEF FinishPostSync, Resync
  <2> QED BY <1>3, <2>1, <2>2, <2>3, <2>4 DEF PostSync
<1>4. CASE ClockPasses
      BY <1>4 DEF ClockPasses, locals
<1>5. CASE Restart
      BY <1>5 DEF Restart
<1>6. CASE UNCHANGED vars
      BY <1>6 DEF vars, locals
<1> QED BY <1>1, <1>2, <1>3, <1>4, <1>5, <1>6 DEF Next

\* The state discipline alone keeps the three goroutines apart: no lock is needed
\* around AddBlock, VerifyIntegrity and the registries.
THEOREM OneWriter == Spec => []SingleWriter
BY InitTurnInv, NextTurnInv, TurnsSingleWriter, PTL DEF Spec

-----------------------------------------------------------------------------
(* The chain on the disk.                                                   *)

\* The block a goroutine writes, how far it got, and that it passed the validator.
BlockInv ==
    \A t \in Threads :
        pc[t] \in Writing =>
            LET b == Head(work[t])
            IN  /\ Parent[b] \in store \cup {None}
                /\ b \in early => IsGenesisBlock(b)
                /\ InFlight(t) => b \in store
                /\ pc[t] = "verify" => lastBlock = b

DiskInv ==
    /\ ParentsStored
    /\ lastBlock \in store \cup {None}
    /\ Registered \subseteq store
    /\ RegisteredInFile \subseteq Registered
    /\ StoredBlocksValid

ClockInv == \A b \in Blocks : Parent[b] \in early => b \in early

ChainInv == TurnInv /\ BlockInv /\ DiskInv /\ ClockInv

LEMMA InitChainInv == Init => ChainInv
BY InitTurnInv, ChainAssumptions DEF Init, ChainInv, BlockInv, DiskInv, ClockInv, ClockAssumption,
   ParentsStored, Linked, Registered, RegisteredInFile, SavedRegistry, StoredBlocksValid, Writing,
   Threads

\* Only AddBlock, VerifyIntegrity and the registry updates touch the disk.
LEMMA StoreBlockChainInv ==
    ASSUME ChainInv, NEW t \in Threads, StoreBlock(t)
    PROVE  BlockInv' /\ DiskInv' /\ ClockInv'
<1> DEFINE b == Head(work[t])
<1>1. /\ pc[t] \in Writing
      /\ b \in Blocks
      /\ Parent[b] \in store \cup {None}
      /\ b \in early => IsGenesisBlock(b)
      /\ InFlight(t) => b \in store
      /\ pc[t] = "verify" => lastBlock = b
  <2>1. pc[t] \in Writing
        BY DEF StoreBlock, SaveBlock, UnlinkLast, LinkLast, SaveFails, VerifyIntegrity,
           VerifyFails, UpdateFromBlock, AddToRegistry, GoTo, Writing
  <2>2. work[t] \in Seq(Blocks) /\ work[t] # <<>>
        BY <2>1 DEF ChainInv, TurnInv, TypeInv, TypeOK, WorkInv
  <2> QED BY <2>1, <2>2 DEF ChainInv, BlockInv
<1>2. \A u \in Threads \ {t} :
          /\ pc[u] \notin Writing
          /\ pc'[u] = pc[u]
      BY <1>1, TurnsSingleWriter
      DEF ChainInv, SingleWriter, TurnInv, TypeInv, TypeOK, StoreBlock, SaveBlock, UnlinkLast,
          LinkLast, SaveFails, VerifyIntegrity, VerifyFails, UpdateFromBlock, AddToRegistry,
          GoTo, Leave
<1>3. UNCHANGED early
      BY DEF StoreBlock, SaveBlock, UnlinkLast, LinkLast, SaveFails, VerifyIntegrity,
         VerifyFails, UpdateFromBlock, AddToRegistry, env
<1>4. ClockInv'
      BY <1>3 DEF ChainInv, ClockInv
<1>5. ASSUME pc'[t] \in Writing => /\ UNCHANGED work
                                   /\ Parent[b] \in store' \cup {None}
                                   /\ pc'[t] # "set" => b \in store'
                                   /\ pc'[t] = "verify" => lastBlock' = b
      PROVE  BlockInv'
      BY <1>1, <1>2, <1>3, <1>5 DEF BlockInv, InFlight, IsGenesisBlock
<1> HIDE DEF b
<1> USE DEF ChainInv, DiskInv, ParentsStored, Linked, StoredBlocksValid, IsGenesisBlock,
            Registered, RegisteredInFile, SavedRegistry, GoTo, Leave, disk, memory
<1>6. CASE SaveBlock(t)
  <2>1. store' = store \cup {b} /\ UNCHANGED <<lastBlock, registryFile, blockRegistry, work>>
        BY <1>6 DEF SaveBlock, b
  <2>2. pc'[t] = "unlink"
        BY <1>6 DEF SaveBlock, TurnInv, TypeInv, TypeOK
  <2>3. DiskInv'
        BY <1>1, <1>3, <2>1
  <2> QED BY <1>1, <1>4, <1>5, <2>1, <2>2, <2>3
<1>7. CASE UnlinkLast(t)
  <2>1. lastBlock' = None /\ UNCHANGED <<store, registryFile, blockRegistry, work>>
        BY <1>7 DEF UnlinkLast
  <2>2. pc[t] = "unlink" /\ pc'[t] = "link"
        BY <1>7 DEF UnlinkLast, TurnInv, TypeInv, TypeOK
  <2>3. DiskInv'
        BY <1>3, <2>1
  <2> QED BY <1>1, <1>4, <1>5, <2>1, <2>2, <2>3 DEF InFlight
<1>8. CASE LinkLast(t)
  <2>1. lastBlock' = b /\ UNCHANGED <<store, registryFile, blockRegistry, work>>
        BY <1>8 DEF LinkLast, b
  <2>2. pc[t] = "link" /\ pc'[t] = "verify"
        BY <1>8 DEF LinkLast, TurnInv, TypeInv, TypeOK
  <2>3. b \in store
        BY <1>1, <2>2 DEF InFlight
  <2>4. DiskInv'
        BY <1>3, <2>1, <2>3
  <2> QED BY <1>1, <1>4, <1>5, <2>1, <2>2, <2>3, <2>4
<1>9. CASE SaveFails(t) \/ VerifyFails(t)
  <2>1. UNCHANGED <<store, lastBlock, registryFile, blockRegistry>>
        BY <1>9 DEF SaveFails, VerifyFails
  <2>2. pc'[t] \notin Writing
        BY <1>9 DEF SaveFails, VerifyFails, AfterAddError, AfterVerifyError, TurnInv, TypeInv,
           TypeOK, Threads, Writing
  <2>3. DiskInv'
        BY <1>3, <2>1
  <2> QED BY <1>4, <1>5, <2>2, <2>3
<1>10. CASE VerifyIntegrity(t) \/ UpdateFromBlock(t)
  <2>1. UNCHANGED <<store, lastBlock, registryFile, blockRegistry, work>>
        BY <1>10 DEF VerifyIntegrity, UpdateFromBlock
  <2>2. pc[t] \in {"verify", "apply"} /\ pc'[t] \in {"apply", "register"}
        BY <1>10 DEF VerifyIntegrity, UpdateFromBlock, TurnInv, TypeInv, TypeOK
  <2>3. DiskInv'
        BY <1>3, <2>1
  <2> QED BY <1>1, <1>4, <1>5, <2>1, <2>2, <2>3 DEF InFlight
<1>11. CASE AddToRegistry(t)
  <2>1. /\ blockRegistry' = Append(blockRegistry, b)
        /\ registryFile' \in {registryFile, blockRegistry', None}
        /\ UNCHANGED <<store, lastBlock>>
        BY <1>11 DEF AddToRegistry, b
  <2>2. pc[t] = "register" /\ pc'[t] \notin Writing
        BY <1>11 DEF AddToRegistry, AfterBlock, AfterRegisterError, TurnInv, TypeInv, TypeOK,
           Threads, Writing
  <2>3. b \in store
        BY <1>1, <2>2 DEF InFlight
  <2>4. Registered' = Registered \cup {b}
    <3>1. blockRegistry \in Seq(Blocks) /\ b \in Blocks
          BY <1>1 DEF TurnInv, TypeInv, TypeOK
    <3>2. {(blockRegistry')[i] : i \in DOMAIN blockRegistry'}
            = {blockRegistry[i] : i \in DOMAIN blockRegistry} \cup {b}
          BY <2>1, <3>1, AppendedRange
    <3> QED BY <3>2
  <2>5. RegisteredInFile' \subseteq Registered'
        BY <2>1, <2>4
  <2>6. DiskInv'
    <3> HIDE DEF Registered, RegisteredInFile
    <3> QED BY <1>3, <2>1, <2>3, <2>4, <2>5
  <2> QED BY <1>4, <1>5, <2>2, <2>6
<1> QED BY <1>6, <1>7, <1>8, <1>9, <1>10, <1>11 DEF StoreBlock

\* Every other step leaves the disk alone, and sets a goroutine to write only a
\* block that passed the validator (or an unchecked genesis).
LEMMA OtherStepChainInv ==
    ASSUME ChainInv, TurnInv', UNCHANGED <<store, lastBlock>>, registryFile' \in {registryFile, None},
           UNCHANGED <<blockRegistry, registryFile>> \/ blockRegistry' = SavedRegistry',
           ClockInv', early' \subseteq early,
           \A t \in Threads : pc'[t] \in Writing =>
               /\ work'[t] = work[t]
               /\ \/ pc'[t] = pc[t]
                  \/ /\ pc'[t] = "set"
                     /\ Parent[Head(work[t])] \in store \cup {None}
                     /\ Head(work[t]) \in early => IsGenesisBlock(Head(work[t]))
    PROVE  ChainInv'
<1>1. BlockInv'
      BY DEF ChainInv, BlockInv, InFlight, IsGenesisBlock
<1>2. DiskInv'
  <2>1. Registered' \subseteq store' /\ RegisteredInFile' \subseteq Registered'
        BY DEF ChainInv, DiskInv, Registered, RegisteredInFile, SavedRegistry
  <2> QED BY <2>1 DEF ChainInv, DiskInv, ParentsStored, Linked, StoredBlocksValid, IsGenesisBlock
<1> QED BY <1>1, <1>2 DEF ChainInv

LEMMA NextChainInv == ChainInv /\ [Next]_vars => ChainInv'
<1> SUFFICES ASSUME ChainInv, [Next]_vars PROVE ChainInv'
    OBVIOUS
<1>1. TurnInv'
      BY NextTurnInv DEF ChainInv
<1>2. ASSUME NEW t \in Threads, StoreBlock(t) PROVE ChainInv'
      BY <1>1, <1>2, StoreBlockChainInv DEF ChainInv
<1> USE DEF GoTo, Leave, disk, memory, env
<1>3. CASE HandleBlock
  <2> SUFFICES ASSUME ~StoreBlock("handle") PROVE ChainInv'
      BY <1>2 DEF Threads
  <2>1. /\ UNCHANGED <<store, lastBlock, registryFile, blockRegistry, early>>
        /\ \A t \in {"sync", "post"} : pc'[t] = pc[t] /\ work'[t] = work[t]
        BY <1>3 DEF HandleBlock, ReceiveBlock, AcceptBlock, FallBehind, RefuseBlock, ReadPending,
           AppendPending, Resync, SignalMiner, ChainInv, TurnInv, TypeInv, TypeOK, Threads
  <2>2. pc'["handle"] \in Writing =>
            /\ pc'["handle"] = "set"
            /\ UNCHANGED work
            /\ LET b == Head(work["handle"]) IN IsGenesisBlock(b) \/ Valid(b)
        BY <1>3 DEF HandleBlock, ReceiveBlock, Dispatch, AcceptBlock, FallBehind, RefuseBlock,
           ReadPending, AppendPending, Resync, SignalMiner, ChainInv, TurnInv, TypeInv, TypeOK,
           Threads, Writing
  <2>3. ClockInv'
        BY <2>1 DEF ChainInv, ClockInv
  <2> QED BY <1>1, <2>1, <2>2, <2>3, OtherStepChainInv
          DEF Threads, Valid, IsGenesisBlock, PrevBlockStored
<1>4. CASE SyncBlockchain
  <2> SUFFICES ASSUME ~StoreBlock("sync") PROVE ChainInv'
      BY <1>2 DEF Threads
  <2>1. /\ UNCHANGED <<store, lastBlock, registryFile, blockRegistry, early>>
        /\ \A t \in {"handle", "post"} : pc'[t] = pc[t] /\ work'[t] = work[t]
        BY <1>4 DEF SyncBlockchain, AskForBlockchainRegistry, ReceiveRegistry, IgnoreRegistry,
           DownloadMissingBlocks, DownloadFails, TakeDownloaded, GiveUpSync, FinishSync,
           ChainInv, TurnInv, TypeInv, TypeOK, Threads
  <2>2. pc'["sync"] \in Writing =>
            /\ pc'["sync"] = "set"
            /\ UNCHANGED work
            /\ Valid(Head(work["sync"]))
        BY <1>4 DEF SyncBlockchain, AskForBlockchainRegistry, ReceiveRegistry, IgnoreRegistry,
           DownloadMissingBlocks, DownloadFails, TakeDownloaded, GiveUpSync, FinishSync,
           ChainInv, TurnInv, TypeInv, TypeOK, Threads, Writing
  <2>3. ClockInv'
        BY <2>1 DEF ChainInv, ClockInv
  <2> QED BY <1>1, <2>1, <2>2, <2>3, OtherStepChainInv
          DEF Threads, Valid, IsGenesisBlock, PrevBlockStored
<1>5. CASE PostSync
  <2> SUFFICES ASSUME ~StoreBlock("post") PROVE ChainInv'
      BY <1>2 DEF Threads
  <2>1. /\ UNCHANGED <<store, lastBlock, registryFile, blockRegistry, early>>
        /\ \A t \in {"handle", "sync"} : pc'[t] = pc[t] /\ work'[t] = work[t]
        BY <1>5 DEF PostSync, StartPostSync, TakePending, SkipPending, MissPending,
           AllPendingDone, ClearPending, FinishPostSync, Resync,
           ChainInv, TurnInv, TypeInv, TypeOK, Threads
  <2>2. pc'["post"] \in Writing =>
            /\ pc'["post"] = "set"
            /\ UNCHANGED work
            /\ Valid(Head(work["post"]))
        BY <1>5 DEF PostSync, StartPostSync, TakePending, SkipPending, MissPending,
           AllPendingDone, ClearPending, FinishPostSync, Resync,
           ChainInv, TurnInv, TypeInv, TypeOK, Threads, Writing
  <2>3. ClockInv'
        BY <2>1 DEF ChainInv, ClockInv
  <2> QED BY <1>1, <2>1, <2>2, <2>3, OtherStepChainInv
          DEF Threads, Valid, IsGenesisBlock, PrevBlockStored
<1>6. CASE ClockPasses
  <2>1. ClockInv'
        BY <1>6 DEF ClockPasses, ChainInv, ClockInv
  <2> QED BY <1>1, <1>6, <2>1, OtherStepChainInv DEF ClockPasses, locals
<1>7. CASE Restart
  <2>1. ClockInv'
        BY <1>7 DEF Restart, ChainInv, ClockInv
  <2> QED BY <1>1, <1>7, <2>1, OtherStepChainInv DEF Restart, Writing
<1>8. CASE UNCHANGED vars
  <2>1. ClockInv'
        BY <1>8 DEF vars, ChainInv, ClockInv
  <2> QED BY <1>1, <1>8, <2>1, OtherStepChainInv DEF vars, locals
<1> QED BY <1>3, <1>4, <1>5, <1>6, <1>7, <1>8 DEF Next

LEMMA ChainInvariant == Spec => []ChainInv
BY InitChainInv, NextChainInv, PTL DEF Spec

\* No announcement order, synchronisation, crash or write error ever leaves a
\* stored block without its parent.
THEOREM ChainLinked == Spec => []ParentsStored
<1>1. ChainInv => ParentsStored
      BY DEF ChainInv, DiskInv
<1> QED BY <1>1, ChainInvariant, PTL

\* Whatever the clock, only a genesis can be stored without having been validated.
THEOREM OnlyValidBlocksStored == Spec => []StoredBlocksValid
<1>1. ChainInv => StoredBlocksValid
      BY DEF ChainInv, DiskInv
<1> QED BY <1>1, ChainInvariant, PTL

LEMMA IntegrityFromChain == ChainInv => IntegrityNeverLost
<1> SUFFICES ASSUME ChainInv, NEW t \in Threads, pc[t] = "verify" PROVE ChainIntact
    BY DEF IntegrityNeverLost
<1> DEFINE b == Head(work[t])
<1>1. /\ b \in Blocks
      /\ lastBlock = b
      /\ Parent[b] \in store \cup {None}
      /\ b \in early => Parent[b] = None
  <2>1. pc[t] \in Writing
        BY DEF Writing
  <2>2. work[t] \in Seq(Blocks) /\ work[t] # <<>>
        BY <2>1 DEF ChainInv, TurnInv, TypeInv, TypeOK, WorkInv
  <2> QED BY <2>1, <2>2 DEF ChainInv, BlockInv, IsGenesisBlock
<1> HIDE DEF b
<1>2. b # None
      BY <1>1, ChainAssumptions DEF ChainAssumption
<1>3. ASSUME Parent[b] # None, NEW a \in Ancestors(b)
      PROVE  a \in store /\ a \notin early
  <2> DEFINE S == Blocks \ early
  <2>1. store \subseteq Blocks /\ early \subseteq Blocks
        BY DEF ChainInv, TurnInv, TypeInv, TypeOK
  <2>2. Linked(store) /\ Parent[b] \in store
        BY <1>1, <1>3 DEF ChainInv, DiskInv, ParentsStored
  <2>3. a \in store
        BY <1>3, <2>1, <2>2 DEF Ancestors
  <2>4. Linked(S)
        BY ChainAssumptions DEF ChainInv, ClockInv, Linked, ChainAssumption
  <2>5. Parent[b] \in S
        BY <1>1, <1>3, <2>1, <2>2 DEF ChainInv, ClockInv
  <2>6. a \in S
    <3> HIDE DEF S
    <3>1. S \in SUBSET Blocks
          BY DEF S
    <3> QED BY <1>3, <2>4, <2>5, <3>1 DEF Ancestors
  <2> QED BY <2>3, <2>6
<1> QED BY <1>1, <1>2, <1>3 DEF ChainIntact

\* VerifyIntegrity, called after every AddBlock, has no fault of the chain to find:
\* its error paths are taken for disk errors only.
THEOREM IntegrityKept == Spec => []IntegrityNeverLost
BY IntegrityFromChain, ChainInvariant, PTL

-----------------------------------------------------------------------------
(* The node implements LinkedLedger.                                        *)

LEMMA StepImplementsLedger ==
    ASSUME ChainInv, ChainInv', [Next]_vars
    PROVE  [Ledger!Next]_<<store, lastBlock, Offered, registryFile # None>>
<1> DEFINE abstract == <<store, lastBlock, Offered, registryFile # None>>
<1> USE DEF Ledger!Next
<1>1. ASSUME NEW t \in Threads, StoreBlock(t)
      PROVE  [Ledger!Next]_abstract
  <2>1. CASE SaveBlock(t)
    <3>1. /\ Head(work[t]) \in Blocks
          /\ Parent[Head(work[t])] \in store \cup {None}
      <4>1. pc[t] \in Writing
            BY <2>1 DEF SaveBlock, GoTo, Writing
      <4>2. work[t] \in Seq(Blocks) /\ work[t] # <<>>
            BY <4>1 DEF ChainInv, TurnInv, TypeInv, TypeOK, WorkInv
      <4> QED BY <4>1, <4>2 DEF ChainInv, BlockInv
    <3>2. UNCHANGED <<lastBlock, registryFile, Offered>>
          BY <2>1 DEF SaveBlock, memory, Offered, Registered, RegisteredInFile, SavedRegistry
    <3> QED BY <2>1, <3>1, <3>2 DEF SaveBlock, Ledger!Extend
  <2>2. CASE UnlinkLast(t) \/ LinkLast(t)
    <3>1. UNCHANGED <<store, registryFile, Offered>>
          BY <2>2 DEF UnlinkLast, LinkLast, memory, Offered, Registered, RegisteredInFile,
             SavedRegistry
    <3> QED BY <2>2, <3>1 DEF UnlinkLast, LinkLast, Ledger!MoveTip, ChainInv, DiskInv
  <2>3. CASE AddToRegistry(t)
    <3>1. /\ UNCHANGED <<store, lastBlock>> /\ ~NoRegistry
          /\ registryFile' \in {registryFile, blockRegistry', None}
          BY <2>3 DEF AddToRegistry
    <3>2. Registered' = Registered \cup {Head(work[t])}
      <4>1. pc[t] \in Writing
            BY <2>3 DEF AddToRegistry, Writing
      <4>2. work[t] \in Seq(Blocks) /\ work[t] # <<>> /\ blockRegistry \in Seq(Blocks)
            BY <4>1 DEF ChainInv, TurnInv, TypeInv, TypeOK, WorkInv
      <4>3. Head(work[t]) \in Blocks
            BY <4>2
      <4>4. blockRegistry' = Append(blockRegistry, Head(work[t]))
            BY <2>3 DEF AddToRegistry
      <4>5. {(blockRegistry')[i] : i \in DOMAIN blockRegistry'}
              = {blockRegistry[i] : i \in DOMAIN blockRegistry} \cup {Head(work[t])}
            BY <4>2, <4>3, <4>4, AppendedRange
      <4> QED BY <4>5 DEF Registered
    <3>3. Registered' \subseteq store /\ RegisteredInFile \subseteq Registered
          BY <3>1 DEF ChainInv, DiskInv
    <3>4. CASE UNCHANGED registryFile /\ registryFile # None
      <4>1. UNCHANGED Offered
            BY <3>4 DEF Offered, RegisteredInFile, SavedRegistry
      <4> QED BY <3>1, <3>4, <4>1
    <3>5. CASE registryFile' = None \/ registryFile' = blockRegistry'
      <4>1. Offered' = Registered'
            BY <3>5 DEF Offered, Registered, RegisteredInFile, SavedRegistry
      <4>2. Offered \subseteq Registered
            BY <3>3 DEF Offered
      <4>3. ~(Offered = {} /\ registryFile = None)
        <5>1. ASSUME registryFile = None PROVE Registered # {}
          <6>1. blockRegistry # <<>> /\ blockRegistry \in Seq(Blocks)
                BY <3>1, <5>1 DEF NoRegistry, ChainInv, TurnInv, TypeInv, TypeOK
          <6>2. 1 \in DOMAIN blockRegistry
                BY <6>1
          <6> QED BY <6>2 DEF Registered
        <5> QED BY <5>1 DEF Offered
      <4> QED BY <3>1, <3>2, <3>3, <4>1, <4>2, <4>3 DEF Ledger!Offer, Ledger!Lost
    <3> QED BY <3>1, <3>4, <3>5
  <2>4. CASE SaveFails(t) \/ VerifyFails(t) \/ VerifyIntegrity(t) \/ UpdateFromBlock(t)
        BY <2>4 DEF SaveFails, VerifyFails, VerifyIntegrity, UpdateFromBlock, disk, memory,
           Offered, Registered, RegisteredInFile, SavedRegistry
  <2> QED BY <1>1, <2>1, <2>2, <2>3, <2>4 DEF StoreBlock
<1>2. CASE Restart
  <2>1. /\ UNCHANGED <<store, lastBlock>>
        /\ blockRegistry' = SavedRegistry'
        /\ registryFile' \in {registryFile, None}
        BY <1>2 DEF Restart
  <2>2. CASE registryFile' = None
    <3>1. Offered' = {}
          BY <2>1, <2>2 DEF Offered, Registered, SavedRegistry
    <3> QED BY <2>1, <2>2, <3>1 DEF Ledger!Lose
  <2>3. CASE registryFile' # None
        BY <2>1, <2>3 DEF Offered, RegisteredInFile, SavedRegistry
  <2> QED BY <2>2, <2>3
<1>3. CASE ~Restart /\ ~ \E t \in Threads : StoreBlock(t)
  <2> SUFFICES UNCHANGED <<disk, blockRegistry>>
      BY DEF disk, Offered, Registered, RegisteredInFile, SavedRegistry
  <2>1. CASE HandleBlock
        BY <1>3, <2>1 DEF HandleBlock, ReceiveBlock, AcceptBlock, FallBehind, RefuseBlock,
           ReadPending, AppendPending, Resync, SignalMiner, Threads, memory
  <2>2. CASE SyncBlockchain
        BY <1>3, <2>2 DEF SyncBlockchain, AskForBlockchainRegistry, ReceiveRegistry,
           IgnoreRegistry, DownloadMissingBlocks, DownloadFails, TakeDownloaded, GiveUpSync,
           FinishSync, Threads, memory
  <2>3. CASE PostSync
        BY <1>3, <2>3 DEF PostSync, StartPostSync, TakePending, SkipPending, MissPending,
           AllPendingDone, ClearPending, FinishPostSync, Resync, Threads, memory
  <2>4. CASE ClockPasses
        BY <2>4 DEF ClockPasses, memory
  <2> QED BY <1>3, <2>1, <2>2, <2>3, <2>4 DEF Next, vars, memory
<1> QED BY <1>1, <1>2, <1>3

\* Every behaviour of a node is one of the ledger's: the stored blocks only grow, linked,
\* and what peers were offered is stored and, as long as its file can be read, not
\* withdrawn; a save cut short loses all of it or, once the next one succeeds, nothing.
THEOREM NodeImplementsLedger == Spec => ImplementsLedger
<1>1. Init => Ledger!Init
  <2> SUFFICES ASSUME Init PROVE Ledger!Init
      OBVIOUS
  <2>1. registryFile # None
        BY EmptySeq, ChainAssumptions DEF Init, ChainAssumption
  <2>2. Offered = {}
        BY <2>1 DEF Init, Offered, RegisteredInFile, SavedRegistry
  <2> QED BY <2>1, <2>2 DEF Init, Ledger!Init
<1>2. ChainInv /\ ChainInv' /\ [Next]_vars
        => [Ledger!Next]_<<store, lastBlock, Offered, registryFile # None>>
      BY StepImplementsLedger
<1> QED BY <1>1, <1>2, ChainInvariant, PTL DEF Spec, ImplementsLedger, Ledger!Spec
=============================================================================
