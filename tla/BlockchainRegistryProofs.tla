---------------------- MODULE BlockchainRegistryProofs ----------------------
(* Proofs about Blockchain: what the registry that peers synchronise from,  *)
(* the file registry and the last block have to do with the stored blocks. *)
EXTENDS BlockchainProofs

\* Of a step outside the write path: it leaves the disk alone, but for a restart that cuts
\* the registry's file; only a restart replaces the registry or takes a goroutine out of
\* the write path, and a goroutine begins to write a genesis or a block that is new and
\* has its parent.
LEMMA OutsideStep ==
    ASSUME ChainInv, [Next]_vars, ~ \E t \in Threads : StoreBlock(t)
    PROVE  /\ UNCHANGED <<store, lastBlock, fileRegistry>>
           /\ UNCHANGED registryFile \/ (Faults /\ registryFile' = None)
           /\ \/ UNCHANGED <<blockRegistry, registryFile>>
              \/ Restart /\ blockRegistry' = SavedRegistry'
           /\ \A t \in Threads :
                 /\ pc'[t] \in Writing =>
                       /\ work'[t] = work[t]
                       /\ \/ pc'[t] = pc[t]
                          \/ /\ pc'[t] = "set"
                             /\ LET b == Head(work[t]) IN
                                   IsGenesisBlock(b) \/ (PrevBlockStored(b) /\ b \notin store)
                 /\ pc[t] \in Writing => Restart \/ pc'[t] = pc[t]
<1> USE DEF GoTo, Leave, disk, memory, env, ChainInv, TurnInv, TypeInv, TypeOK, Threads, Writing
<1>1. CASE HandleBlock
  <2>1. UNCHANGED <<disk, blockRegistry>>
        BY <1>1 DEF HandleBlock, ReceiveBlock, AcceptBlock, FallBehind, RefuseBlock, ReadPending,
           AppendPending, Resync, SignalMiner
  <2>2. \A t \in {"sync", "post"} : pc'[t] = pc[t] /\ work'[t] = work[t]
        BY <1>1 DEF HandleBlock, ReceiveBlock, AcceptBlock, FallBehind, RefuseBlock, ReadPending,
           AppendPending, Resync, SignalMiner
  <2>3. pc["handle"] \notin Writing
        BY <1>1 DEF HandleBlock, ReceiveBlock, AcceptBlock, FallBehind, RefuseBlock, ReadPending,
           AppendPending, Resync, SignalMiner
  <2>4. pc'["handle"] \in Writing => AcceptBlock
        BY <1>1 DEF HandleBlock, ReceiveBlock, Dispatch, FallBehind, RefuseBlock, ReadPending,
           AppendPending, Resync, SignalMiner
  <2> QED BY <2>1, <2>2, <2>3, <2>4 DEF AcceptBlock, Valid, AlreadyStored
<1>2. CASE SyncBlockchain
  <2>1. UNCHANGED <<disk, blockRegistry>>
        BY <1>2 DEF SyncBlockchain, AskForBlockchainRegistry, ReceiveRegistry, IgnoreRegistry,
           DownloadMissingBlocks, DownloadFails, TakeDownloaded, GiveUpSync, FinishSync
  <2>2. \A t \in {"handle", "post"} : pc'[t] = pc[t] /\ work'[t] = work[t]
        BY <1>2 DEF SyncBlockchain, AskForBlockchainRegistry, ReceiveRegistry, IgnoreRegistry,
           DownloadMissingBlocks, DownloadFails, TakeDownloaded, GiveUpSync, FinishSync
  <2>3. pc["sync"] \notin Writing
        BY <1>2 DEF SyncBlockchain, AskForBlockchainRegistry, ReceiveRegistry, IgnoreRegistry,
           DownloadMissingBlocks, DownloadFails, TakeDownloaded, GiveUpSync, FinishSync
  <2>4. pc'["sync"] \in Writing => TakeDownloaded
        BY <1>2 DEF SyncBlockchain, AskForBlockchainRegistry, ReceiveRegistry, IgnoreRegistry,
           DownloadMissingBlocks, DownloadFails, GiveUpSync, FinishSync
  <2> QED BY <2>1, <2>2, <2>3, <2>4 DEF TakeDownloaded, Valid, AlreadyStored
<1>3. CASE PostSync
  <2>1. UNCHANGED <<disk, blockRegistry>>
        BY <1>3 DEF PostSync, StartPostSync, TakePending, SkipPending, MissPending,
           AllPendingDone, ClearPending, FinishPostSync, Resync
  <2>2. \A t \in {"handle", "sync"} : pc'[t] = pc[t] /\ work'[t] = work[t]
        BY <1>3 DEF PostSync, StartPostSync, TakePending, SkipPending, MissPending,
           AllPendingDone, ClearPending, FinishPostSync, Resync
  <2>3. pc["post"] \notin Writing
        BY <1>3 DEF PostSync, StartPostSync, TakePending, SkipPending, MissPending,
           AllPendingDone, ClearPending, FinishPostSync, Resync
  <2>4. pc'["post"] \in Writing => TakePending
        BY <1>3 DEF PostSync, StartPostSync, SkipPending, MissPending,
           AllPendingDone, ClearPending, FinishPostSync, Resync
  <2> QED BY <2>1, <2>2, <2>3, <2>4 DEF TakePending, Valid, AlreadyStored
<1>4. CASE ClockPasses
      BY <1>4 DEF ClockPasses, locals
<1>5. CASE Restart
      BY <1>5 DEF Restart
<1>6. CASE UNCHANGED vars
      BY <1>6 DEF vars, locals
<1> QED BY <1>1, <1>2, <1>3, <1>4, <1>5, <1>6 DEF Next

\* Of a step inside the write path: who takes it is the only one there.
LEMMA WritingStep ==
    ASSUME ChainInv, NEW t \in Threads, StoreBlock(t)
    PROVE  /\ pc[t] \in Writing /\ Head(work[t]) \in Blocks /\ blockRegistry \in Seq(Blocks)
           /\ pc'[t] \in Writing => pc'[t] # "set" /\ UNCHANGED work
           /\ \A u \in Threads \ {t} : pc[u] \notin Writing /\ pc'[u] = pc[u]
<1>1. pc[t] \in Writing
      BY DEF StoreBlock, SaveBlock, UnlinkLast, LinkLast, SaveFails, VerifyIntegrity,
         VerifyFails, UpdateFromBlock, AddToRegistry, GoTo, Writing
<1>2. work[t] \in Seq(Blocks) /\ work[t] # <<>>
      BY <1>1 DEF ChainInv, TurnInv, TypeInv, TypeOK, WorkInv
<1>3. \A u \in Threads \ {t} : pc[u] \notin Writing /\ pc'[u] = pc[u]
      BY <1>1, TurnsSingleWriter
      DEF ChainInv, SingleWriter, TurnInv, TypeInv, TypeOK, StoreBlock, SaveBlock, UnlinkLast,
          LinkLast, SaveFails, VerifyIntegrity, VerifyFails, UpdateFromBlock, AddToRegistry,
          GoTo, Leave
<1>4. pc'[t] \in Writing => pc'[t] # "set" /\ UNCHANGED work
      BY DEF StoreBlock, SaveBlock, UnlinkLast, LinkLast, SaveFails, VerifyIntegrity,
         VerifyFails, UpdateFromBlock, AddToRegistry, GoTo, Leave, Writing, ChainInv, TurnInv,
         TypeInv, TypeOK, AfterAddError, AfterVerifyError, AfterBlock, AfterRegisterError, Threads
<1> QED BY <1>1, <1>2, <1>3, <1>4 DEF ChainInv, TurnInv, TypeInv, TypeOK

-----------------------------------------------------------------------------
(* With crashes: what is offered has reached the file registry.             *)

\* A block at the step before the registry has its transactions applied.
AppliedInv ==
    /\ Registered \subseteq fileRegistry
    /\ fileRegistry \subseteq store
    /\ \A t \in Threads : pc[t] = "register" => Head(work[t]) \in fileRegistry

LEMMA RegisteredGrows ==
    ASSUME ChainInv, NEW t \in Threads, AddToRegistry(t)
    PROVE  Registered' = Registered \cup {Head(work[t])}
<1>1. /\ blockRegistry \in Seq(Blocks) /\ Head(work[t]) \in Blocks
      BY WritingStep DEF StoreBlock
<1>2. blockRegistry' = Append(blockRegistry, Head(work[t]))
      BY DEF AddToRegistry
<1>3. {(blockRegistry')[i] : i \in DOMAIN blockRegistry'}
        = {blockRegistry[i] : i \in DOMAIN blockRegistry} \cup {Head(work[t])}
      BY <1>1, <1>2, AppendedRange
<1> QED BY <1>3 DEF Registered

LEMMA NextAppliedInv ==
    ASSUME Faults = FALSE, ChainInv, AppliedInv, [Next]_vars
    PROVE  AppliedInv'
<1>1. ASSUME NEW t \in Threads, StoreBlock(t) PROVE AppliedInv'
  <2> DEFINE b == Head(work[t])
  <2>1. /\ pc'[t] \in Writing => UNCHANGED work
        /\ \A u \in Threads \ {t} : pc[u] \notin Writing /\ pc'[u] = pc[u]
        BY <1>1, WritingStep
  <2>2. InFlight(t) => b \in store
        BY DEF ChainInv, BlockInv, InFlight
  <2>3. CASE UpdateFromBlock(t)
    <3>1. fileRegistry' = fileRegistry \cup {b} /\ UNCHANGED <<store, blockRegistry, work>>
          BY <2>3 DEF UpdateFromBlock, memory
    <3>2. b \in store
          BY <2>2, <2>3 DEF UpdateFromBlock, GoTo, InFlight, Writing
    <3> QED BY <2>1, <3>1, <3>2 DEF AppliedInv, Registered, Writing
  <2>4. CASE AddToRegistry(t)
    <3>1. UNCHANGED <<store, fileRegistry>> /\ pc[t] = "register"
          BY <2>4 DEF AddToRegistry
    <3>2. Registered' = Registered \cup {b}
          BY <2>4, RegisteredGrows
    <3>3. pc'[t] # "register"
          BY <2>4 DEF AddToRegistry, Leave, AfterBlock, AfterRegisterError, ChainInv, TurnInv,
             TypeInv, TypeOK, Threads
    <3> QED BY <2>1, <3>1, <3>2, <3>3 DEF AppliedInv, Writing
  <2>5. CASE \/ SaveBlock(t) \/ UnlinkLast(t) \/ LinkLast(t) \/ SaveFails(t)
             \/ VerifyIntegrity(t) \/ VerifyFails(t)
    <3>1. store \subseteq store' /\ UNCHANGED <<fileRegistry, blockRegistry>>
          BY <2>5 DEF SaveBlock, UnlinkLast, LinkLast, SaveFails, VerifyIntegrity, VerifyFails,
             disk, memory
    <3>2. pc'[t] # "register"
          BY <2>5 DEF SaveBlock, UnlinkLast, LinkLast, SaveFails, VerifyIntegrity, VerifyFails,
             GoTo, Leave, AfterAddError, AfterVerifyError, ChainInv, TurnInv, TypeInv, TypeOK,
             Threads
    <3> QED BY <2>1, <3>1, <3>2 DEF AppliedInv, Registered, Writing
  <2> QED BY <1>1, <2>3, <2>4, <2>5 DEF StoreBlock
<1>2. CASE ~ \E t \in Threads : StoreBlock(t)
  <2>1. /\ UNCHANGED <<store, fileRegistry>>
        /\ UNCHANGED registryFile
        /\ UNCHANGED blockRegistry \/ blockRegistry' = SavedRegistry'
        /\ \A t \in Threads : pc'[t] = "register" => pc[t] = "register" /\ work'[t] = work[t]
        BY <1>2, OutsideStep DEF Writing
  <2>2. Registered' \subseteq Registered
        BY <2>1 DEF Registered, RegisteredInFile, SavedRegistry, ChainInv, DiskInv
  <2> QED BY <2>1, <2>2 DEF AppliedInv
<1> QED BY <1>1, <1>2

\* While no write fails, and however often the process dies between two of them, a block
\* that peers are offered is on the disk and its transactions reached the file registry.
THEOREM OfferedIsApplied == ASSUME Faults = FALSE PROVE Spec => []RegisteredBlocksApplied
<1>1. Init => AppliedInv
      BY DEF Init, AppliedInv, Registered, Threads
<1>2. ChainInv /\ AppliedInv /\ [Next]_vars => AppliedInv'
      BY NextAppliedInv
<1>3. ChainInv /\ AppliedInv => RegisteredBlocksApplied
  <2> SUFFICES ASSUME ChainInv, AppliedInv PROVE RegisteredBlocksApplied
      OBVIOUS
  <2>1. RegisteredInFile \subseteq store
        BY DEF AppliedInv, ChainInv, DiskInv
  <2> QED BY <2>1 DEF RegisteredBlocksApplied, AppliedInv, RegisteredInFile
<1> QED BY <1>1, <1>2, <1>3, ChainInvariant, PTL DEF Spec

-----------------------------------------------------------------------------
(* Whatever fails: no block is registered twice.                            *)

\* The registry r names no block twice, a genesis excepted.
WithoutRepeats(r) ==
    \A i, j \in DOMAIN r : r[i] = r[j] => i = j \/ IsGenesisBlock(r[i])

\* A block about to be written, unless a genesis, is not registered yet.
OnceInv ==
    /\ WithoutRepeats(blockRegistry)
    /\ WithoutRepeats(SavedRegistry)
    /\ \A t \in Threads :
          pc[t] \in Writing => IsGenesisBlock(Head(work[t])) \/ Head(work[t]) \notin Registered

LEMMA AppendedWithoutRepeats ==
    ASSUME NEW r \in Seq(Blocks), NEW b \in Blocks, WithoutRepeats(r),
           IsGenesisBlock(b) \/ \A k \in DOMAIN r : r[k] # b
    PROVE  WithoutRepeats(Append(r, b))
<1> DEFINE n == Len(r)
           s == Append(r, b)
<1>1. /\ n \in Nat /\ DOMAIN r = 1 .. n /\ DOMAIN s = 1 .. n + 1
      /\ s[n + 1] = b /\ \A i \in 1 .. n : s[i] = r[i]
      BY AppendProperties, LenProperties
<1> HIDE DEF n, s
<1> SUFFICES ASSUME NEW i \in 1 .. n + 1, NEW j \in 1 .. n + 1, i # j, s[i] = s[j]
             PROVE  Parent[s[i]] = None
    BY <1>1 DEF WithoutRepeats, IsGenesisBlock, s
<1>2. CASE i \in 1 .. n /\ j \in 1 .. n
      BY <1>1, <1>2 DEF WithoutRepeats, IsGenesisBlock
<1>3. ASSUME NEW k \in 1 .. n, s[k] = b PROVE Parent[b] = None
      BY <1>1, <1>3 DEF IsGenesisBlock
<1>4. CASE i = n + 1 /\ j \in 1 .. n
      BY <1>1, <1>3, <1>4
<1>5. CASE j = n + 1 /\ i \in 1 .. n
      BY <1>1, <1>3, <1>5
<1> QED BY <1>1, <1>2, <1>4, <1>5

LEMMA NextOnceInv ==
    ASSUME ChainInv, OnceInv, [Next]_vars PROVE OnceInv'
<1>1. ASSUME NEW t \in Threads, StoreBlock(t) PROVE OnceInv'
  <2> DEFINE b == Head(work[t])
  <2>1. /\ pc[t] \in Writing /\ b \in Blocks /\ blockRegistry \in Seq(Blocks)
        /\ pc'[t] \in Writing => UNCHANGED work
        /\ \A u \in Threads \ {t} : pc[u] \notin Writing /\ pc'[u] = pc[u]
        BY <1>1, WritingStep
  <2>2. CASE AddToRegistry(t)
    <3>1. /\ blockRegistry' = Append(blockRegistry, b)
          /\ registryFile' \in {registryFile, blockRegistry', None}
          BY <2>2 DEF AddToRegistry
    <3>2. IsGenesisBlock(b) \/ \A k \in DOMAIN blockRegistry : blockRegistry[k] # b
          BY <2>1 DEF OnceInv, Registered
    <3>3. WithoutRepeats(Append(blockRegistry, b))
          BY <2>1, <3>2, AppendedWithoutRepeats DEF OnceInv
    <3>4. WithoutRepeats(blockRegistry)' /\ WithoutRepeats(SavedRegistry)'
          BY <3>1, <3>3 DEF OnceInv, WithoutRepeats, SavedRegistry, IsGenesisBlock
    <3>5. pc'[t] \notin Writing
          BY <2>2 DEF AddToRegistry, Leave, AfterBlock, AfterRegisterError, ChainInv, TurnInv,
             TypeInv, TypeOK, Threads, Writing
    <3> QED BY <2>1, <3>4, <3>5 DEF OnceInv, Writing
  <2>3. CASE ~AddToRegistry(t)
    <3>1. UNCHANGED <<blockRegistry, registryFile>>
          BY <1>1, <2>3 DEF StoreBlock, SaveBlock, UnlinkLast, LinkLast, SaveFails,
             VerifyIntegrity, VerifyFails, UpdateFromBlock, disk, memory
    <3>2. WithoutRepeats(blockRegistry)' /\ WithoutRepeats(SavedRegistry)'
          BY <3>1 DEF OnceInv, WithoutRepeats, SavedRegistry, IsGenesisBlock
    <3> QED BY <2>1, <3>1, <3>2 DEF OnceInv, Registered, IsGenesisBlock, Writing
  <2> QED BY <2>2, <2>3
<1>2. CASE ~ \E t \in Threads : StoreBlock(t)
  <2>1. /\ UNCHANGED store /\ registryFile' \in {registryFile, None}
        /\ UNCHANGED blockRegistry \/ blockRegistry' = SavedRegistry'
        /\ \A t \in Threads : pc'[t] \in Writing =>
              /\ work'[t] = work[t]
              /\ \/ pc'[t] = pc[t]
                 \/ IsGenesisBlock(Head(work[t])) \/ Head(work[t]) \notin store
        BY <1>2, OutsideStep
  <2>2. WithoutRepeats(blockRegistry)' /\ WithoutRepeats(SavedRegistry)'
        BY <2>1 DEF OnceInv, WithoutRepeats, SavedRegistry, IsGenesisBlock
  <2>3. Registered \subseteq store /\ Registered' \subseteq Registered
        BY <2>1 DEF Registered, RegisteredInFile, SavedRegistry, ChainInv, DiskInv
  <2> QED BY <2>1, <2>2, <2>3 DEF OnceInv, IsGenesisBlock
<1> QED BY <1>1, <1>2

\* No two of the three goroutines register the same block, though each looks it up in the
\* store without a lock, and no restart or write error makes one of them do it again.
THEOREM RegistryWithoutRepeats == Spec => []RegisteredOnce
<1>1. Init => OnceInv
      BY DEF Init, OnceInv, WithoutRepeats, SavedRegistry, Threads, Writing
<1>2. ChainInv /\ OnceInv /\ [Next]_vars => OnceInv'
      BY NextOnceInv
<1>3. OnceInv => RegisteredOnce
      BY DEF OnceInv, WithoutRepeats, RegisteredOnce
<1> QED BY <1>1, <1>2, <1>3, ChainInvariant, PTL DEF Spec

-----------------------------------------------------------------------------
(* With crashes, without errors: what a crash costs.                        *)

\* The parent of b is offered to peers, withheld from them, or a genesis.
Covered(b) ==
    IsGenesisBlock(b) \/ IsGenesisBlock(Parent[b]) \/ Parent[b] \in Registered \cup Unoffered

\* Memory and file agree; a block about to be stored is new, unless a genesis.
WithheldInv ==
    /\ SavedRegistry = blockRegistry
    /\ \A t \in Threads :
          /\ pc[t] = "set" => IsGenesisBlock(Head(work[t])) \/ Head(work[t]) \notin store
          /\ pc[t] \in Writing => Covered(Head(work[t]))
    /\ GapsAreWithheld

\* With no block in flight the stored blocks are those registered and those withheld.
LEMMA NobodyInFlight ==
    ASSUME \A t \in Threads : ~InFlight(t) PROVE Unoffered = store \ Registered
BY DEF Unoffered

\* With one, it is apart from both.
LEMMA OneInFlight ==
    ASSUME NEW t \in Threads, InFlight(t), \A u \in Threads \ {t} : ~InFlight(u)
    PROVE  Unoffered = (store \ Registered) \ {Head(work[t])}
BY DEF Unoffered

\* A write withholds nothing, and offers nothing withheld but a genesis.
LEMMA WritingUnoffered ==
    ASSUME Faults = FALSE, ChainInv, WithheldInv, NEW t \in Threads, StoreBlock(t)
    PROVE  /\ Unoffered' \subseteq Unoffered
           /\ \A b \in Unoffered \ Unoffered' : IsGenesisBlock(b)
           /\ Registered \subseteq Registered'
           /\ SavedRegistry' = blockRegistry'
<1> DEFINE b == Head(work[t])
<1>1. /\ pc[t] \in Writing /\ b \in Blocks
      /\ pc'[t] \in Writing => pc'[t] # "set" /\ UNCHANGED work
      /\ \A u \in Threads \ {t} : pc[u] \notin Writing /\ pc'[u] = pc[u]
      BY WritingStep
<1>2. \A u \in Threads \ {t} : ~InFlight(u) /\ ~InFlight(u)'
      BY <1>1 DEF InFlight
<1>3. ~SaveFails(t) /\ ~VerifyFails(t)
      BY IntegrityFromChain DEF SaveFails, VerifyFails, IntegrityNeverLost, ChainInv
<1>4. CASE AddToRegistry(t)
  <2>1. /\ UNCHANGED store /\ pc[t] = "register" /\ SavedRegistry' = blockRegistry'
    <3>1. blockRegistry' \in Seq(Blocks) /\ registryFile' = blockRegistry'
          BY <1>1, <1>4, WritingStep, AppendProperties DEF AddToRegistry
    <3> QED BY <1>4, <3>1, ChainAssumptions DEF AddToRegistry, SavedRegistry, ChainAssumption
  <2>2. Registered' = Registered \cup {b}
        BY <1>4, RegisteredGrows
  <2>3. pc'[t] \notin Writing
        BY <1>4 DEF AddToRegistry, Leave, AfterBlock, AfterRegisterError, ChainInv, TurnInv,
           TypeInv, TypeOK, Threads, Writing
  <2>4. InFlight(t) /\ ~InFlight(t)'
        BY <2>1, <2>3 DEF InFlight, Writing
  <2>5. Unoffered = (store \ Registered) \ {b}
        BY <1>2, <2>4, OneInFlight
  <2>6. Unoffered' = store' \ Registered'
        BY <1>2, <2>4 DEF Unoffered
  <2> QED BY <2>1, <2>2, <2>5, <2>6
<1>5. CASE SaveBlock(t)
  <2>1. /\ store' = store \cup {b} /\ pc[t] = "set" /\ pc'[t] = "unlink" /\ UNCHANGED work
        /\ UNCHANGED <<blockRegistry, registryFile>>
        BY <1>5 DEF SaveBlock, GoTo, memory, ChainInv, TurnInv, TypeInv, TypeOK
  <2>2. UNCHANGED Registered
        BY <2>1 DEF Registered
  <2>3. ~InFlight(t) /\ InFlight(t)'
        BY <2>1 DEF InFlight, Writing
  <2>4. Unoffered = store \ Registered
        BY <1>2, <2>3, NobodyInFlight
  <2>5. Unoffered' = (store' \ Registered') \ {b}
        BY <1>2, <2>1, <2>3 DEF Unoffered
  <2>6. IsGenesisBlock(b) \/ b \notin store
        BY <2>1 DEF WithheldInv
  <2> QED BY <2>1, <2>2, <2>4, <2>5, <2>6 DEF WithheldInv, SavedRegistry
<1>6. CASE UnlinkLast(t) \/ LinkLast(t) \/ VerifyIntegrity(t) \/ UpdateFromBlock(t)
  <2>1. /\ UNCHANGED <<store, work, blockRegistry, registryFile>>
        /\ InFlight(t) /\ InFlight(t)'
        BY <1>6 DEF UnlinkLast, LinkLast, VerifyIntegrity, UpdateFromBlock, GoTo, memory, disk,
           ChainInv, TurnInv, TypeInv, TypeOK, InFlight, Writing
  <2>2. UNCHANGED Registered
        BY <2>1 DEF Registered
  <2>3. Unoffered = (store \ Registered) \ {b}
        BY <1>2, <2>1, OneInFlight
  <2>4. Unoffered' = (store' \ Registered') \ {b}
        BY <1>2, <2>1 DEF Unoffered
  <2> QED BY <2>1, <2>2, <2>3, <2>4 DEF WithheldInv, SavedRegistry
<1> QED BY <1>3, <1>4, <1>5, <1>6 DEF StoreBlock

\* Outside the write path only a crash withholds a block, the one in flight.
LEMMA OutsideUnoffered ==
    ASSUME Faults = FALSE, ChainInv, WithheldInv, [Next]_vars, ~ \E t \in Threads : StoreBlock(t)
    PROVE  /\ \A b \in Unoffered' \ Unoffered :
                 Restart /\ \E t \in Threads : InFlight(t) /\ Head(work[t]) = b
           /\ Unoffered \subseteq Unoffered'
           /\ UNCHANGED <<store, blockRegistry, registryFile>>
<1>1. /\ UNCHANGED <<store, blockRegistry, registryFile>>
      /\ \A t \in Threads :
            /\ InFlight(t)' => InFlight(t) /\ work'[t] = work[t]
            /\ InFlight(t) => Restart \/ (InFlight(t)' /\ work'[t] = work[t])
      BY OutsideStep DEF InFlight, Writing, WithheldInv, SavedRegistry
<1>2. UNCHANGED Registered
      BY <1>1 DEF Registered
<1> QED BY <1>1, <1>2 DEF Unoffered

\* Together: a step withholds no block but by a crash, and none is offered afterwards.
LEMMA UnofferedStep ==
    ASSUME Faults = FALSE, ChainInv, WithheldInv, [Next]_vars
    PROVE  /\ \A b \in Unoffered' \ Unoffered :
                 Restart /\ \E t \in Threads : InFlight(t) /\ Head(work[t]) = b
           /\ \A b \in Unoffered \ Unoffered' : IsGenesisBlock(b)
           /\ Registered \subseteq Registered'
           /\ SavedRegistry' = blockRegistry'
<1>1. ASSUME NEW t \in Threads, StoreBlock(t)
      PROVE  /\ Unoffered' \subseteq Unoffered
             /\ \A b \in Unoffered \ Unoffered' : IsGenesisBlock(b)
             /\ Registered \subseteq Registered'
             /\ SavedRegistry' = blockRegistry'
      BY <1>1, WritingUnoffered
<1>2. CASE ~ \E t \in Threads : StoreBlock(t)
      BY <1>2, OutsideUnoffered DEF Registered, WithheldInv, SavedRegistry
<1> QED BY <1>1, <1>2

\* What was covered stays so.
LEMMA CoveredStays ==
    ASSUME Faults = FALSE, ChainInv, WithheldInv, [Next]_vars, NEW b, Covered(b)
    PROVE  IsGenesisBlock(b) \/ IsGenesisBlock(Parent[b])
              \/ Parent[b] \in Registered' \cup Unoffered'
<1>1. /\ Registered \subseteq Registered'
      /\ \A p \in Unoffered \ Unoffered' : IsGenesisBlock(p)
      BY UnofferedStep
<1> QED BY <1>1 DEF Covered

LEMMA GapsStep ==
    ASSUME Faults = FALSE, ChainInv, WithheldInv, [Next]_vars PROVE GapsAreWithheld'
<1>1. \A b \in Unoffered \ Unoffered' : IsGenesisBlock(b)
      BY UnofferedStep
<1>2. CASE UNCHANGED blockRegistry
      BY <1>1, <1>2 DEF WithheldInv, GapsAreWithheld, IsGenesisBlock
<1>3. CASE \E t \in Threads : AddToRegistry(t)
  <2> PICK t \in Threads : AddToRegistry(t)
      BY <1>3
  <2> DEFINE b == Head(work[t])
             n == Len(blockRegistry)
             r == blockRegistry'
  <2>1. /\ blockRegistry \in Seq(Blocks) /\ b \in Blocks /\ pc[t] = "register"
        BY WritingStep DEF StoreBlock, AddToRegistry
  <2>2. /\ n \in Nat /\ DOMAIN blockRegistry = 1 .. n /\ DOMAIN r = 1 .. n + 1
        /\ r[n + 1] = b /\ \A i \in 1 .. n : r[i] = blockRegistry[i]
    <3>1. blockRegistry' = Append(blockRegistry, b)
          BY DEF AddToRegistry
    <3> HIDE DEF b
    <3> QED BY <2>1, <3>1, AppendProperties, LenProperties
  <2>3. Covered(b)
        BY <2>1 DEF WithheldInv, Writing
  <2> HIDE DEF b, n, r
  <2> SUFFICES ASSUME NEW i \in 1 .. n + 1, ~IsGenesisBlock(r[i]), ~IsGenesisBlock(Parent[r[i]]),
                      Parent[r[i]] \notin Unoffered'
               PROVE  \E j \in 1 .. (i - 1) : r[j] = Parent[r[i]]
      BY <2>2 DEF GapsAreWithheld, r, IsGenesisBlock
  <2>4. Parent[r[i]] \notin Unoffered
        BY <1>1
  <2>5. CASE i \in 1 .. n
    <3>1. \E j \in 1 .. (i - 1) : blockRegistry[j] = Parent[blockRegistry[i]]
          BY <2>2, <2>4, <2>5 DEF WithheldInv, GapsAreWithheld
    <3> QED BY <2>2, <2>5, <3>1
  <2>6. CASE i = n + 1
    <3>1. Parent[b] \in Registered
          BY <2>2, <2>3, <2>4, <2>6 DEF Covered
    <3>2. PICK j \in 1 .. n : blockRegistry[j] = Parent[b]
          BY <2>2, <3>1 DEF Registered
    <3> QED BY <2>2, <2>6, <3>2
  <2> QED BY <2>2, <2>5, <2>6
<1>4. CASE \E t \in Threads : StoreBlock(t) /\ ~AddToRegistry(t)
      BY <1>2, <1>4 DEF StoreBlock, SaveBlock, UnlinkLast, LinkLast, SaveFails,
         VerifyIntegrity, VerifyFails, UpdateFromBlock, memory
<1>5. CASE ~ \E t \in Threads : StoreBlock(t)
      BY <1>2, <1>5, OutsideUnoffered
<1> QED BY <1>3, <1>4, <1>5

LEMMA NextWithheldInv ==
    ASSUME Faults = FALSE, ChainInv, ChainInv', WithheldInv, [Next]_vars
    PROVE  WithheldInv'
<1>1. ASSUME NEW t \in Threads, pc'[t] = "set"
      PROVE  IsGenesisBlock(Head(work'[t])) \/ Head(work'[t]) \notin store'
  <2>1. ~StoreBlock(t)
        BY <1>1, WritingStep DEF Writing
  <2>2. CASE \E u \in Threads \ {t} : StoreBlock(u)
        BY <1>1, <2>2, WritingStep DEF Writing
  <2>3. CASE ~ \E u \in Threads : StoreBlock(u)
        BY <1>1, <2>3, OutsideStep DEF Writing, WithheldInv
  <2> QED BY <2>1, <2>2, <2>3
<1>2. ASSUME NEW t \in Threads, pc'[t] \in Writing
      PROVE  LET b == Head(work'[t]) IN
             IsGenesisBlock(b) \/ IsGenesisBlock(Parent[b])
                \/ Parent[b] \in Registered' \cup Unoffered'
  <2>1. CASE pc[t] \in Writing /\ work'[t] = work[t]
    <3>1. Covered(Head(work[t]))
          BY <2>1 DEF WithheldInv
    <3> QED BY <2>1, <3>1, CoveredStays
  <2>2. CASE \E u \in Threads : StoreBlock(u)
    <3>1. StoreBlock(t)
          BY <1>2, <2>2, WritingStep
    <3> QED BY <1>2, <2>1, <3>1, WritingStep
  <2>3. CASE (~ \E u \in Threads : StoreBlock(u)) /\ pc[t] \notin Writing
    <3>1. /\ work'[t] = work[t] /\ UNCHANGED <<store, blockRegistry>>
          /\ IsGenesisBlock(Head(work[t])) \/ Parent[Head(work[t])] \in store
          BY <1>2, <2>3, OutsideStep, OutsideUnoffered DEF Writing, PrevBlockStored
    <3>2. SingleWriter'
          BY DEF ChainInv, TurnInv, Turns, TypeInv, TypeOK, SingleWriter, Threads, Writing
    <3>3. pc'[t] = "set"
          BY <1>2, <2>3, OutsideStep
    <3>4. \A u \in Threads : ~InFlight(u)'
          BY <1>2, <3>2, <3>3 DEF SingleWriter, InFlight
    <3>5. Unoffered' = store' \ Registered'
          BY <3>4 DEF Unoffered
    <3> QED BY <3>1, <3>5
  <2>4. CASE (~ \E u \in Threads : StoreBlock(u)) /\ pc[t] \in Writing
        BY <1>2, <2>1, <2>4, OutsideStep
  <2> QED BY <2>2, <2>3, <2>4
<1>3. SavedRegistry' = blockRegistry'
      BY UnofferedStep
<1> QED BY <1>1, <1>2, <1>3, GapsStep DEF WithheldInv, Covered, IsGenesisBlock

LEMMA WithheldInvariant == ASSUME Faults = FALSE PROVE Spec => []WithheldInv
<1>1. Init => WithheldInv
      BY DEF Init, WithheldInv, SavedRegistry, GapsAreWithheld, Threads, Writing
<1>2. ChainInv /\ ChainInv' /\ WithheldInv /\ [Next]_vars => WithheldInv'
      BY NextWithheldInv
<1> QED BY <1>1, <1>2, ChainInvariant, PTL DEF Spec

\* While no write fails, each crash withholds from peers the block it found half-written
\* and no other, and that block, unless a genesis, is never offered by this node again.
THEOREM CrashWithholdsOne == ASSUME Faults = FALSE PROVE Spec => WithheldByCrash
<1> DEFINE Step ==
              /\ \A b \in Unoffered' \ Unoffered :
                    Restart /\ \E t \in Threads : InFlight(t) /\ Head(work[t]) = b
              /\ \A b \in Unoffered \ Unoffered' : IsGenesisBlock(b)
<1>1. ChainInv /\ WithheldInv /\ [Next]_vars => Step
      BY UnofferedStep
<1>2. ChainInv /\ WithheldInv /\ [Next]_vars => [Step]_vars
      BY <1>1
<1> HIDE DEF Step
<1>3. Spec => [][Step]_vars
      BY <1>2, ChainInvariant, WithheldInvariant, PTL DEF Spec
<1> QED BY <1>3 DEF Step, WithheldByCrash

\* Through crashes, the registry lists a block without its parent before it only where the
\* parent was withheld by a crash, or is a genesis.
THEOREM OnlyCrashesLeaveGaps == ASSUME Faults = FALSE PROVE Spec => []GapsAreWithheld
<1>1. WithheldInv => GapsAreWithheld
      BY DEF WithheldInv
<1> QED BY <1>1, WithheldInvariant, PTL

-----------------------------------------------------------------------------
(* Without crashes and errors: the registry is the store, in order.         *)

\* A block about to be written is a genesis or has its parent in the registry;
\* from the last write of saveBlock on it is the last block.
FreshInv ==
    \A t \in Threads :
        LET b == Head(work[t]) IN
        /\ pc[t] \in Writing => IsGenesisBlock(b) \/ Parent[b] \in Registered
        /\ pc[t] \in {"verify", "apply", "register"} => lastBlock = b

SteadyInv ==
    /\ StoreRegistered
    /\ RegistryParentsFirst
    /\ LastBlockRegistered
    /\ FreshInv

LEMMA InitSteadyInv == Init => SteadyInv
BY DEF Init, SteadyInv, StoreRegistered, RegistryParentsFirst, LastBlockRegistered,
   FreshInv, Registered, Threads, Writing, InFlight

\* Steps inside the write path, but the last: what was registered stays, the block
\* stays in flight and becomes the last block.
LEMMA EarlyWriteSteady ==
    ASSUME SteadyInv, ChainInv, NEW t \in Threads, pc[t] \in Writing,
           pc'[t] \in Writing \ {"set"}, UNCHANGED <<blockRegistry, work>>,
           store' \subseteq store \cup {Head(work[t])},
           pc'[t] \in {"verify", "apply", "register"} => lastBlock' = Head(work[t]),
           \A u \in Threads \ {t} : pc[u] \notin Writing /\ pc'[u] = pc[u]
    PROVE  SteadyInv'
<1>1. InFlight(t)' /\ UNCHANGED Registered
      BY DEF InFlight, Registered
<1>2. StoreRegistered'
      BY <1>1 DEF SteadyInv, StoreRegistered, InFlight
<1>3. RegistryParentsFirst'
      BY DEF SteadyInv, RegistryParentsFirst, IsGenesisBlock
<1>4. LastBlockRegistered'
      BY <1>1 DEF LastBlockRegistered
<1>5. FreshInv'
      BY <1>1 DEF SteadyInv, FreshInv, IsGenesisBlock, Writing
<1> QED BY <1>2, <1>3, <1>4, <1>5 DEF SteadyInv

\* The last step of a write: the block enters the registry, after its parent.
LEMMA AddToRegistrySteady ==
    ASSUME Faults = FALSE, SteadyInv, ChainInv, NEW t \in Threads, AddToRegistry(t)
    PROVE  SteadyInv'
<1> DEFINE b == Head(work[t])
           n == Len(blockRegistry)
<1>1. /\ blockRegistry \in Seq(Blocks) /\ b \in Blocks /\ pc[t] = "register"
      /\ \A u \in Threads \ {t} : pc[u] \notin Writing /\ pc'[u] = pc[u]
      BY WritingStep DEF StoreBlock, AddToRegistry
<1>2. pc'[t] \notin Writing
      BY DEF AddToRegistry, Leave, AfterBlock, AfterRegisterError, ChainInv, TurnInv,
         TypeInv, TypeOK, Threads, Writing
<1>3. \A u \in Threads : pc'[u] \notin Writing
      BY <1>1, <1>2
<1>4. UNCHANGED <<store, lastBlock>> /\ lastBlock = b
      BY <1>1 DEF AddToRegistry, SteadyInv, FreshInv
<1>5. IsGenesisBlock(b) \/ Parent[b] \in Registered
      BY <1>1 DEF SteadyInv, FreshInv, Writing
<1>6. Registered' = Registered \cup {b}
      BY RegisteredGrows
<1>7. /\ n \in Nat /\ DOMAIN blockRegistry = 1 .. n
      /\ DOMAIN blockRegistry' = 1 .. n + 1 /\ Len(blockRegistry') = n + 1
      /\ blockRegistry'[n + 1] = b /\ \A i \in 1 .. n : blockRegistry'[i] = blockRegistry[i]
  <2>1. blockRegistry' = Append(blockRegistry, b)
        BY DEF AddToRegistry
  <2> HIDE DEF b
  <2> QED BY <1>1, <2>1, AppendProperties, LenProperties
<1> HIDE DEF b, n
<1>8. StoreRegistered'
  <2>1. \A x \in store : x \in Registered \cup {b}
        BY <1>1 DEF SteadyInv, StoreRegistered, InFlight, b
  <2> QED BY <1>4, <1>6, <2>1 DEF StoreRegistered
<1>9. RegistryParentsFirst'
  <2> SUFFICES ASSUME NEW i \in 1 .. n + 1, Parent[blockRegistry'[i]] # None
               PROVE  \E j \in 1 .. i - 1 : blockRegistry'[j] = Parent[blockRegistry'[i]]
      BY <1>7 DEF RegistryParentsFirst, IsGenesisBlock
  <2>1. CASE i \in 1 .. n
        BY <1>7, <2>1 DEF SteadyInv, RegistryParentsFirst, IsGenesisBlock
  <2>2. CASE i = n + 1
    <3>1. PICK j \in 1 .. n : blockRegistry[j] = Parent[b]
          BY <1>5, <1>7, <2>2 DEF IsGenesisBlock, Registered
    <3> QED BY <1>7, <2>2, <3>1
  <2> QED BY <1>7, <2>1, <2>2
<1>10. LastBlockRegistered'
      BY <1>4, <1>7 DEF LastBlockRegistered
<1>11. FreshInv'
      BY <1>3 DEF FreshInv, Writing
<1> QED BY <1>8, <1>9, <1>10, <1>11 DEF SteadyInv

LEMMA StoreBlockSteady ==
    ASSUME Faults = FALSE, SteadyInv, ChainInv, NEW t \in Threads, StoreBlock(t)
    PROVE  SteadyInv'
<1> USE DEF GoTo, memory, disk
<1>1. /\ pc[t] \in Writing
      /\ pc'[t] \in Writing => pc'[t] # "set" /\ UNCHANGED work
      /\ \A u \in Threads \ {t} : pc[u] \notin Writing /\ pc'[u] = pc[u]
      BY WritingStep
<1>2. CASE SaveBlock(t) \/ UnlinkLast(t) \/ LinkLast(t) \/ VerifyIntegrity(t) \/ UpdateFromBlock(t)
  <2>1. pc'[t] \in Writing /\ UNCHANGED blockRegistry
        BY <1>2 DEF SaveBlock, UnlinkLast, LinkLast, VerifyIntegrity, UpdateFromBlock, Writing,
           ChainInv, TurnInv, TypeInv, TypeOK
  <2>2. store' \subseteq store \cup {Head(work[t])}
        BY <1>2 DEF SaveBlock, UnlinkLast, LinkLast, VerifyIntegrity, UpdateFromBlock
  <2>3. pc'[t] \in {"verify", "apply", "register"} => lastBlock' = Head(work[t])
        BY <1>2 DEF SaveBlock, UnlinkLast, LinkLast, VerifyIntegrity, UpdateFromBlock, SteadyInv,
           FreshInv, ChainInv, TurnInv, TypeInv, TypeOK
  <2> QED BY <1>1, <2>1, <2>2, <2>3, EarlyWriteSteady
<1>3. ~SaveFails(t) /\ ~VerifyFails(t)
      BY IntegrityFromChain DEF SaveFails, VerifyFails, IntegrityNeverLost
<1>4. CASE AddToRegistry(t)
      BY <1>4, AddToRegistrySteady
<1> QED BY <1>2, <1>3, <1>4 DEF StoreBlock

LEMMA OutsideSteady ==
    ASSUME Crashes = FALSE, SteadyInv, ChainInv, ChainInv', [Next]_vars,
           ~ \E t \in Threads : StoreBlock(t)
    PROVE  SteadyInv'
<1>1. /\ UNCHANGED <<store, lastBlock, blockRegistry>>
      /\ \A t \in Threads : pc[t] \in Writing => pc'[t] = pc[t]
      /\ \A t \in Threads : pc'[t] \in Writing =>
            /\ work'[t] = work[t]
            /\ \/ pc'[t] = pc[t]
               \/ /\ pc'[t] = "set"
                  /\ LET b == Head(work[t]) IN
                        IsGenesisBlock(b) \/ (PrevBlockStored(b) /\ b \notin store)
  <2>1. ~Restart
        BY DEF Restart
  <2> QED BY <2>1, OutsideStep
<1>2. UNCHANGED Registered
      BY <1>1 DEF Registered
<1>3. \A t \in Threads :
         InFlight(t) => pc'[t] \in Writing \ {"set"} /\ work'[t] = work[t]
      BY <1>1 DEF InFlight, Writing
<1>4. StoreRegistered'
  <2> SUFFICES ASSUME NEW x \in store, x \notin Registered
               PROVE  \E t \in Threads : pc'[t] \in Writing \ {"set"} /\ Head(work'[t]) = x
      BY <1>1, <1>2 DEF StoreRegistered, InFlight
  <2> QED BY <1>3 DEF SteadyInv, StoreRegistered
<1>5. RegistryParentsFirst'
      BY <1>1 DEF SteadyInv, RegistryParentsFirst, IsGenesisBlock
<1>6. LastBlockRegistered'
  <2>1. (\A t \in Threads : ~InFlight(t)') => \A t \in Threads : ~InFlight(t)
        BY <1>3 DEF InFlight
  <2> QED BY <1>1, <2>1 DEF SteadyInv, LastBlockRegistered
<1>7. FreshInv'
  <2> SUFFICES ASSUME NEW t \in Threads, pc'[t] \in Writing
               PROVE  LET b == Head(work[t]) IN
                      /\ IsGenesisBlock(b) \/ Parent[b] \in Registered
                      /\ pc'[t] \in {"verify", "apply", "register"} => lastBlock = b
      BY <1>1, <1>2 DEF FreshInv, IsGenesisBlock, Writing
  <2>1. CASE pc'[t] = pc[t]
        BY <2>1 DEF SteadyInv, FreshInv
  <2>2. CASE pc'[t] # pc[t]
    <3>1. \A u \in Threads : ~InFlight(u)
      <4>1. SingleWriter'
            BY DEF ChainInv, TurnInv, Turns, TypeInv, TypeOK, SingleWriter, Threads, Writing
      <4> QED BY <1>1, <1>3, <2>2, <4>1 DEF SingleWriter, InFlight
    <3>2. store \subseteq Registered /\ Registered \subseteq store
          BY <3>1 DEF SteadyInv, StoreRegistered, ChainInv, DiskInv
    <3> QED BY <1>1, <2>2, <3>2 DEF PrevBlockStored
  <2> QED BY <2>1, <2>2
<1> QED BY <1>4, <1>5, <1>6, <1>7 DEF SteadyInv

LEMMA SteadyInvariant ==
    ASSUME Crashes = FALSE, Faults = FALSE PROVE Spec => []SteadyInv
<1>1. SteadyInv /\ ChainInv /\ ChainInv' /\ [Next]_vars => SteadyInv'
      BY StoreBlockSteady, OutsideSteady
<1> QED BY <1>1, InitSteadyInv, ChainInvariant, PTL DEF Spec

\* While no process dies and no write fails, peers that ask can learn of every stored
\* block but the one that is being written.
THEOREM NothingStoredUnregistered ==
    ASSUME Crashes = FALSE, Faults = FALSE PROVE Spec => []StoreRegistered
<1>1. SteadyInv => StoreRegistered
      BY DEF SteadyInv
<1> QED BY <1>1, SteadyInvariant, PTL

\* The registry can be gone through in its order by a node that has nothing yet: announced,
\* downloaded and pending blocks never overtake their parents on the way into it.
THEOREM RegistryInOrder ==
    ASSUME Crashes = FALSE, Faults = FALSE PROVE Spec => []RegistryParentsFirst
<1>1. SteadyInv => RegistryParentsFirst
      BY DEF SteadyInv
<1> QED BY <1>1, SteadyInvariant, PTL

\* Between two writes the block a miner builds on is the one registered last.
THEOREM LastBlockIsRegisteredLast ==
    ASSUME Crashes = FALSE, Faults = FALSE PROVE Spec => []LastBlockRegistered
<1>1. SteadyInv => LastBlockRegistered
      BY DEF SteadyInv
<1> QED BY <1>1, SteadyInvariant, PTL
=============================================================================
