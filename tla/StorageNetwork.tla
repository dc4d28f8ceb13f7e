--------------------------- MODULE StorageNetwork ---------------------------
(***************************************************************************)
(* The way of a file: a user announces it, storage nodes fetch it and      *)
(* answer with a transaction, a block brings the transaction into every    *)
(* node's file registry, the owner lists and deletes it, and the garbage   *)
(* collectors of the storage nodes remove it.                              *)
(*                                                                         *)
(* From cmd/securachain-user-client, cmd/securachain-storage-node,         *)
(* internal/client, internal/storagenode and internal/ipfs.  Each storage  *)
(* node runs, with no lock between them, the goroutine that handles        *)
(* announcements, the one that publishes responses, the chain (module      *)
(* Blockchain), which updates the file registry, and one garbage collector *)
(* per deletion.  Messages may be lost, overtake one another and be        *)
(* refused by a rate limiter: nobody is ever obliged to read one.          *)
(***************************************************************************)
EXTENDS FileRegistry, FiniteSetsExt

CONSTANTS
    None,
    Hears,         \* the announcements that reach a node
    Size,          \* FileSize of each announcement
    FileSizeLimit, \* cfg.FileSizeLimit
    Capacity,      \* Datastore.StorageMax of each node
    BlockSize,     \* the space a published block takes in the same datastore
    Modulus,       \* 2^64
    MaxTxs,        \* bound: transactions in blocks
    MaxInBlock,    \* bound: transactions in one block
    MinedAgain,    \* bound: the transactions that may be in two blocks
    Faulty,        \* the storage nodes that may see a step report an error
    Crashes        \* bound: how often each storage node may crash

ASSUME StorageAssumption ==
    /\ None \notin Files \cup Owners \cup Registries
    /\ Hears \in [Nodes -> SUBSET Files]
    /\ Size \in [Files -> Nat]
    /\ {FileSizeLimit, BlockSize, Modulus, MaxTxs, MaxInBlock} \subseteq Nat
    /\ Crashes \in [Nodes -> Nat]
    /\ Capacity \in [Nodes -> Nat]
    /\ \A n \in Nodes : Capacity[n] < Modulus
    /\ Faulty \subseteq Nodes

VARIABLES
    shown,      \* per user, the files with a delete button on its screen
    announced,  \* the announcements published
    published,  \* the transactions published to the miners
    chain,      \* the transactions of the blocks, in order
    opens,      \* the positions of chain at which a block begins
    heard,      \* per node, the announcements its handler has read
    phase,      \* per node, where the announcement handler stands
    current,    \* per node, the file it is about
    publisher,  \* per node, the file whose response is being published
    cached,     \* per node, the files whose blocks are in the IPFS datastore
    pinned,     \* per node, the pinned files
    stored,     \* per node, the files in .IPFS_Local_Storage
    applied,    \* per node, how far UpdateFromBlock has come in chain
    registry,   \* per node, the file registry in memory
    saved,      \* per node, the file registry on disk, None once a Save was cut short
    collectors, \* per node, the garbage collectors that run
    skipped,    \* history: per node, the positions never applied
    unsaved,    \* history: per node, the positions in memory and not on disk
    excused,    \* history: per node, the files removed that their collector had not seen
    stuck,      \* history: per node, the files a failing collector left
    crashes     \* how often each node has crashed

networkVars == <<announced, published, chain, opens>>
handlerVars == <<heard, phase, current, publisher, cached, pinned>>
registryVars == <<applied, registry, saved, skipped, unsaved>>
collectorVars == <<stored, collectors, excused, stuck>>
vars == <<shown, networkVars, handlerVars, registryVars, collectorVars, crashes>>

Init ==
    /\ shown = [u \in Owners |-> {}]
    /\ announced = {}
    /\ published = {}
    /\ chain = <<>>
    /\ opens = {}
    /\ heard = [n \in Nodes |-> {}]
    /\ phase = [n \in Nodes |-> "idle"]
    /\ current = [n \in Nodes |-> None]
    /\ publisher = [n \in Nodes |-> None]
    /\ cached = [n \in Nodes |-> {}]
    /\ pinned = [n \in Nodes |-> {}]
    /\ stored = [n \in Nodes |-> {}]
    /\ applied = [n \in Nodes |-> 0]
    /\ registry = [n \in Nodes |-> EmptyRegistry]
    /\ saved = [n \in Nodes |-> EmptyRegistry]
    /\ collectors = [n \in Nodes |-> {}]
    /\ skipped = [n \in Nodes |-> {}]
    /\ unsaved = [n \in Nodes |-> {}]
    /\ excused = [n \in Nodes |-> {}]
    /\ stuck = [n \in Nodes |-> {}]
    /\ crashes = [n \in Nodes |-> 0]

-----------------------------------------------------------------------------
(* The user client, down to what it sends and shows.  A publication that    *)
(* fails is a message nobody reads.                                        *)

\* SendFile: the encrypted file is in the client's own IPFS node, and announced.
SendFile(f) ==
    /\ f \notin announced
    /\ announced' = announced \cup {f}
    /\ UNCHANGED <<shown, published, chain, opens, handlerVars, registryVars, collectorVars, crashes>>

\* AskFilesList, answered by a node; the list opens beside the ones still open.
ReceiveFiles(u, n) ==
    /\ shown' = [shown EXCEPT ![u] = @ \cup Listed(Get(registry[n], u))]
    /\ UNCHANGED <<networkVars, handlerVars, registryVars, collectorVars, crashes>>

\* The delete button of a shown file.
DeleteFile(u, f) ==
    /\ f \in shown[u]
    /\ published' = published \cup {DeleteTransaction(u, f)}
    /\ UNCHANGED <<shown, announced, chain, opens, handlerVars, registryVars, collectorVars, crashes>>

-----------------------------------------------------------------------------
(* The miners: a block takes some of the transactions published, in the     *)
(* order its miner received them, each once.  Also ones that another block  *)
(* already holds: a stopped miner takes them back (MiningNode), and so does *)
(* one whose pool had them as well.                                        *)

Mine ==
    \E k \in 1 .. MaxInBlock : \E block \in [1 .. k -> published] :
        /\ Len(chain) + k <= MaxTxs
        /\ \A i \in 1 .. k : block[i] \in {chain[j] : j \in DOMAIN chain} => block[i] \in MinedAgain
        /\ \A i, j \in 1 .. k : i # j => block[i] # block[j]
        /\ chain' = chain \o block
        /\ opens' = opens \cup {Len(chain) + 1}
        /\ UNCHANGED <<shown, announced, published, handlerVars, registryVars,
                       collectorVars, crashes>>

-----------------------------------------------------------------------------
(* A storage node handles one announcement at a time.                      *)

\* The space that a set of files takes.
SpaceOf(S) == MapThenSumSet(LAMBDA f : Size[f], S)

Occupied(n) ==
    SpaceOf(cached[n])
        + BlockSize * Cardinality({i \in opens : i <= applied[n]})

\* Mutant of FreeMemoryAvailable: what counts is the local storage, not the datastore.
FreeOfStored(n) ==
    (Capacity[n] + Modulus - SpaceOf(stored[n])) % Modulus

\* The difference of two unsigned numbers.
FreeMemoryAvailable(n) == (Capacity[n] + Modulus - Occupied(n)) % Modulus

\* One the limiter drops, or for which the free space cannot be read, is not read here.
RefuseAnnouncement(n, f) ==
    /\ phase[n] = "idle" /\ f \in (announced \cap Hears[n]) \ heard[n]
    /\ Size[f] > FileSizeLimit \/ Size[f] > FreeMemoryAvailable(n)
    /\ heard' = [heard EXCEPT ![n] = @ \cup {f}]
    /\ UNCHANGED <<shown, networkVars, phase, current, publisher, cached, pinned,
                   registryVars, collectorVars, crashes>>

AcceptAnnouncement(n, f) ==
    /\ phase[n] = "idle" /\ f \in (announced \cap Hears[n]) \ heard[n]
    /\ Size[f] <= FileSizeLimit
    /\ Size[f] <= FreeMemoryAvailable(n)
    /\ heard' = [heard EXCEPT ![n] = @ \cup {f}]
    /\ phase' = [phase EXCEPT ![n] = "fetch"]
    /\ current' = [current EXCEPT ![n] = f]
    /\ UNCHANGED <<shown, networkVars, publisher, cached, pinned,
                   registryVars, collectorVars, crashes>>

\* Mutant of Proceed: the next announcement finds the file of the last one.
ProceedKeeping(n, from, to) ==
    /\ phase[n] = from
    /\ phase' = [phase EXCEPT ![n] = to]
    /\ UNCHANGED <<shown, networkVars, heard, current, registryVars, crashes>>

\* The handler goes on to the next phase of its file, or gives the file up.
Proceed(n, from, to) ==
    /\ phase[n] = from
    /\ phase' = [phase EXCEPT ![n] = to]
    /\ current' = [current EXCEPT ![n] = IF to = "idle" THEN None ELSE @]
    /\ UNCHANGED <<shown, networkVars, heard, registryVars, crashes>>

\* Connect, GetFile, WriteTo, checksum and size, AddFile.
Fetch(n) ==
    /\ Proceed(n, "fetch", "move")
    /\ cached' = [cached EXCEPT ![n] = @ \cup {current[n]}]
    /\ UNCHANGED <<publisher, pinned, collectorVars>>

\* Any of them fails, with or without the blocks left in the datastore.
FetchFails(n) ==
    /\ n \in Faulty
    /\ Proceed(n, "fetch", "idle")
    /\ cached' \in {cached, [cached EXCEPT ![n] = @ \cup {current[n]}]}
    /\ UNCHANGED <<publisher, pinned, collectorVars>>

\* Mutant of MoveFile: the response goes out and nothing is pinned.
MoveFileAndSend(n) ==
    /\ Proceed(n, "move", "send")
    /\ stored' = [stored EXCEPT ![n] = @ \cup {current[n]}]
    /\ UNCHANGED <<publisher, cached, pinned, collectors, excused, stuck>>

\* From .IPFS_Downloads to .IPFS_Local_Storage.
MoveFile(n) ==
    /\ Proceed(n, "move", "pin")
    /\ stored' = [stored EXCEPT ![n] = @ \cup {current[n]}]
    /\ UNCHANGED <<publisher, cached, pinned, collectors, excused, stuck>>

\* The copy fails before or after the destination was created.
MoveFileFails(n) ==
    /\ n \in Faulty
    /\ Proceed(n, "move", "idle")
    /\ stored' \in {stored, [stored EXCEPT ![n] = @ \cup {current[n]}]}
    /\ UNCHANGED <<publisher, cached, pinned, collectors, excused, stuck>>

PinFile(n) ==
    /\ Proceed(n, "pin", "send")
    /\ pinned' = [pinned EXCEPT ![n] = @ \cup {current[n]}]
    /\ UNCHANGED <<publisher, cached, collectorVars>>

\* The pin, or only the look at it afterwards, fails.
PinFileFails(n) ==
    /\ n \in Faulty
    /\ Proceed(n, "pin", "idle")
    /\ pinned' \in {pinned, [pinned EXCEPT ![n] = @ \cup {current[n]}]}
    /\ UNCHANGED <<publisher, cached, collectorVars>>

\* toTransactionChan is unbuffered: the handler waits for the publisher.
SendToPublisher(n) ==
    /\ publisher[n] = None
    /\ Proceed(n, "send", "idle")
    /\ publisher' = [publisher EXCEPT ![n] = current[n]]
    /\ UNCHANGED <<cached, pinned, collectorVars>>

\* NewAddFileTransaction.
PublishResponse(n) ==
    /\ publisher[n] # None
    /\ publisher' = [publisher EXCEPT ![n] = None]
    /\ published' = published \cup {AddTransaction(publisher[n], n)}
    /\ UNCHANGED <<shown, announced, chain, opens, heard, phase, current, cached, pinned,
                   registryVars, collectorVars, crashes>>

-----------------------------------------------------------------------------
(* UpdateFromBlock, transaction by transaction, each with its own Save.     *)

\* The last position of the block that holds position i, in a set.
EndOfBlock(i) ==
    {e \in i .. Len(chain) :
        (e = Len(chain) \/ e + 1 \in opens) /\ \A j \in i + 1 .. e : j \notin opens}

\* A garbage collector at its first step: it has every owner's list left to range over,
\* is at none, and has read no file.  view is what the slice of the list it is at holds,
\* pos the entry it reads next, and unseen the files it may be excused not to read: they
\* were unlisted when it came to the list or moved while it ranged over it.
Started(id) ==
    [id |-> id, step |-> "registry", left |-> Owners, owner |-> None, view |-> <<>>,
     pos |-> 1, files |-> {}, unseen |-> {}]

\* The entries whose place is not theirs any more.
Moved(old, new) ==
    {old[j].file : j \in {k \in DOMAIN old : k \in DOMAIN new => new[k].file # old[k].file}}

\* The slice a collector ranges over is the list's own: Delete shifts it in place and an
\* addition after that writes behind the entries left.  One that append moves elsewhere
\* is read as if the reading had ended before.
Shifted(c, old, new) ==
    [c EXCEPT !.view = [j \in DOMAIN @ |-> IF j \in DOMAIN new THEN new[j].file ELSE @[j]],
              !.unseen = @ \cup Moved(old, new)]

\* What an update of the registry does to the collectors of a node.
Disturbed(n, t) ==
    {IF c.owner = t.owner
     THEN Shifted(c, registry[n][t.owner], Updated(registry[n], t)[t.owner])
     ELSE c : c \in collectors[n]}

\* A deletion that was saved starts one more.
Notified(n, t) ==
    [collectors EXCEPT ![n] =
        Disturbed(n, t) \cup (IF t.type = "delete" THEN {Started(applied[n] + 1)} ELSE {})]

\* Mutant of UpdateFromBlock: the deletion is saved with the next addition.
UpdateFromBlockLazily(n) ==
    /\ applied[n] < Len(chain)
    /\ LET t == chain[applied[n] + 1]
           r == Updated(registry[n], t)
       IN  /\ applied' = [applied EXCEPT ![n] = @ + 1]
           /\ registry' = [registry EXCEPT ![n] = r]
           /\ saved' = IF t.type = "add" THEN [saved EXCEPT ![n] = r] ELSE saved
           /\ collectors' = Notified(n, t)
    /\ unsaved' = [unsaved EXCEPT ![n] = {}]
    /\ UNCHANGED <<shown, networkVars, handlerVars, skipped, stored, excused, stuck, crashes>>

UpdateFromBlock(n) ==
    /\ applied[n] < Len(chain)
    /\ LET t == chain[applied[n] + 1]
           r == Updated(registry[n], t)
       IN  /\ applied' = [applied EXCEPT ![n] = @ + 1]
           /\ registry' = [registry EXCEPT ![n] = r]
           /\ saved' = [saved EXCEPT ![n] = r]
           /\ collectors' = Notified(n, t)
    /\ unsaved' = [unsaved EXCEPT ![n] = {}]
    /\ UNCHANGED <<shown, networkVars, handlerVars, skipped, stored, excused, stuck, crashes>>

\* Save fails: the memory has the transaction, and the rest of the block is left out.
\* os.WriteFile truncates first: the file is as it was, whole after all, or cut.
UpdateFromBlockFails(n) ==
    /\ n \in Faulty /\ applied[n] < Len(chain)
    /\ LET i == applied[n] + 1 IN
       /\ registry' = [registry EXCEPT ![n] = Updated(@, chain[i])]
       /\ \/ saved' = [saved EXCEPT ![n] = registry'[n]] /\ unsaved' = [unsaved EXCEPT ![n] = {}]
          \/ /\ saved' \in {saved, [saved EXCEPT ![n] = None]}
             /\ unsaved' = [unsaved EXCEPT ![n] = @ \cup {i}]
       /\ collectors' = [collectors EXCEPT ![n] = Disturbed(n, chain[i])]
       /\ \E e \in EndOfBlock(i) :
             /\ applied' = [applied EXCEPT ![n] = e]
             /\ skipped' = [skipped EXCEPT ![n] = @ \cup i + 1 .. e]
    /\ UNCHANGED <<shown, networkVars, handlerVars, stored, excused, stuck, crashes>>

\* The process ends and starts again.  Of a block that is stored already the
\* transactions not applied yet never are; a block may be stored and none applied.  On a
\* file that was cut main ends (RegisterObserver of a nil registry): that node takes no
\* step any more, nor does one whose process dies in the middle of a Save.
Restart(n) ==
    /\ crashes[n] < Crashes[n]
    /\ saved[n] # None
    /\ crashes' = [crashes EXCEPT ![n] = @ + 1]
    /\ phase' = [phase EXCEPT ![n] = "idle"]
    /\ current' = [current EXCEPT ![n] = None]
    /\ publisher' = [publisher EXCEPT ![n] = None]
    /\ collectors' = [collectors EXCEPT ![n] = {}]
    /\ registry' = [registry EXCEPT ![n] = saved[n]]
    /\ LET i == applied[n] + 1
           unbegun == applied[n] = Len(chain) \/ i \in opens
       IN  \E e \in EndOfBlock(i) \cup {a \in {applied[n]} : unbegun} :
              /\ applied' = [applied EXCEPT ![n] = e]
              /\ skipped' = [skipped EXCEPT ![n] = @ \cup unsaved[n] \cup i .. e]
    /\ unsaved' = [unsaved EXCEPT ![n] = {}]
    /\ UNCHANGED <<shown, networkVars, heard, cached, pinned, saved, stored, excused, stuck>>

-----------------------------------------------------------------------------
(* ProcessGarbageCollection, a goroutine per saved deletion.               *)

Becomes(n, c, d) ==
    /\ collectors' = [collectors EXCEPT ![n] = (@ \ {c}) \cup d]
    /\ UNCHANGED <<shown, networkVars, handlerVars, registryVars, crashes>>

FilesOf(u) == {f \in Files : OwnerOf[f] = u}

\* Mutant of ReachList: the last list is not read.
ReachListButLast(n, c) ==
    /\ c.step = "registry" /\ c.view = <<>>
    /\ \E u \in c.left :
          LET files == IF c.left = {u} THEN {} ELSE Listed(registry[n][u])
          IN  Becomes(n, c, {[c EXCEPT !.left = @ \ {u}, !.files = @ \cup files,
                                       !.unseen = @ \cup (FilesOf(u) \ Listed(registry[n][u]))]})
    /\ UNCHANGED <<stored, excused, stuck>>

\* Step 1: the map gives the owners in any order ...
Reached(c, u, list) ==
    [c EXCEPT !.left = @ \ {u}, !.view = [j \in DOMAIN list |-> list[j].file],
              !.owner = IF list = <<>> THEN None ELSE u,
              !.unseen = @ \cup (FilesOf(u) \ Listed(list))]

ReachList(n, c) ==
    /\ c.step = "registry" /\ c.view = <<>>
    /\ \E u \in c.left : Becomes(n, c, {Reached(c, u, registry[n][u])})
    /\ UNCHANGED <<stored, excused, stuck>>

\* ... and each list entry by entry.
Further(c) ==
    LET read == [c EXCEPT !.files = @ \cup {c.view[c.pos]}]
    IN  IF c.pos = Len(c.view) THEN [read EXCEPT !.owner = None, !.view = <<>>, !.pos = 1]
        ELSE [read EXCEPT !.pos = @ + 1]

ReadEntry(n, c) ==
    /\ c.step = "registry" /\ c.view # <<>>
    /\ Becomes(n, c, {Further(c)})
    /\ UNCHANGED <<stored, excused, stuck>>

\* The registry is read, and step 2 has made it a set.
RegistryRead(c) == c.step = "registry" /\ c.left = {} /\ c.view = <<>>

\* The collector removes the files of S, if any.
Removing(c, S) == {[c EXCEPT !.step = "delete", !.files = S] : f \in S}

\* Mutant of ReadDirectory: the walk leaves out the first file.
ReadDirectoryFromSecond(n, c) ==
    /\ RegistryRead(c)
    /\ \E first \in stored[n] \cup {None} : Becomes(n, c, Removing(c, stored[n] \ (c.files \cup {first})))
    /\ UNCHANGED <<stored, excused, stuck>>

\* Steps 3 and 4: the files of the local storage that are not among those read.
ReadDirectory(n, c) ==
    /\ RegistryRead(c)
    /\ Becomes(n, c, Removing(c, stored[n] \ c.files))
    /\ UNCHANGED <<stored, excused, stuck>>

\* The directory cannot be read, and everything stays.
ReadDirectoryFails(n, c) ==
    /\ n \in Faulty
    /\ RegistryRead(c)
    /\ Becomes(n, c, {})
    /\ stuck' = [stuck EXCEPT ![n] = @ \cup (stored[n] \ c.files)]
    /\ UNCHANGED <<stored, excused>>

\* Step 5, one file at a time; an error to remove it is only logged.
RemoveNext(n, c) ==
    /\ c.step = "delete"
    /\ \E f \in c.files :
          /\ Becomes(n, c, Removing(c, c.files \ {f}))
          /\ \/ /\ stored' = [stored EXCEPT ![n] = @ \ {f}]
                /\ excused' = [excused EXCEPT ![n] = @ \cup ({f} \cap c.unseen)]
                /\ UNCHANGED stuck
             \/ /\ n \in Faulty
                /\ stuck' = [stuck EXCEPT ![n] = @ \cup {f}]
                /\ UNCHANGED <<stored, excused>>

Collect(n, c) ==
    ReachList(n, c) \/ ReadEntry(n, c)
        \/ ReadDirectory(n, c) \/ ReadDirectoryFails(n, c) \/ RemoveNext(n, c)

-----------------------------------------------------------------------------

CollectSome(n) == \E c \in collectors[n] : Collect(n, c)

ClientStep(u) ==
    \/ \E f \in Files : DeleteFile(u, f)
    \/ \E n \in Nodes : ReceiveFiles(u, n)

HandlerStep(n) ==
    \/ \E f \in Files : RefuseAnnouncement(n, f) \/ AcceptAnnouncement(n, f)
    \/ Fetch(n) \/ FetchFails(n)
    \/ MoveFile(n) \/ MoveFileFails(n)
    \/ PinFile(n) \/ PinFileFails(n)
    \/ SendToPublisher(n)

NodeStep(n) ==
    \/ HandlerStep(n)
    \/ PublishResponse(n)
    \/ UpdateFromBlock(n) \/ UpdateFromBlockFails(n)
    \/ CollectSome(n)
    \/ Restart(n)

Next ==
    \/ \E f \in Files : SendFile(f)
    \/ \E u \in Owners : ClientStep(u)
    \/ Mine
    \/ \E n \in Nodes : NodeStep(n)

Spec == Init /\ [][Next]_vars

\* A collector, once started, is a goroutine that never waits; that some collector of a
\* node goes on is less than what the scheduler gives.
FairSpec == Spec /\ \A n \in Nodes : WF_vars(CollectSome(n))

-----------------------------------------------------------------------------

Collectors == [id : 1 .. MaxTxs, step : {"registry", "delete"}, left : SUBSET Owners,
               owner : Owners \cup {None}, view : Seq(Files), pos : Nat \ {0},
               files : SUBSET Files, unseen : SUBSET Files]

TypeOK ==
    /\ shown \in [Owners -> SUBSET Files]
    /\ announced \subseteq Files
    /\ published \subseteq Transactions
    /\ chain \in Seq(Transactions)
    /\ opens \subseteq Nat
    /\ heard \in [Nodes -> SUBSET Files]
    /\ phase \in [Nodes -> {"idle", "fetch", "move", "pin", "send"}]
    /\ current \in [Nodes -> Files \cup {None}]
    /\ \A n \in Nodes : (phase[n] = "idle") <=> (current[n] = None)
    /\ publisher \in [Nodes -> Files \cup {None}]
    /\ cached \in [Nodes -> SUBSET Files]
    /\ pinned \in [Nodes -> SUBSET Files]
    /\ stored \in [Nodes -> SUBSET Files]
    /\ applied \in [Nodes -> Nat]
    /\ registry \in [Nodes -> Registries]
    /\ saved \in [Nodes -> Registries \cup {None}]
    /\ \A n \in Nodes : \A c \in collectors[n] : c \in Collectors
    /\ skipped \in [Nodes -> SUBSET Nat]
    /\ unsaved \in [Nodes -> SUBSET Nat]
    /\ excused \in [Nodes -> SUBSET Files]
    /\ stuck \in [Nodes -> SUBSET Files]
    /\ crashes \in [Nodes -> Nat]

\* However many storage nodes answer, and in whatever order their transactions and
\* the deletions come, a registry lists a file once, and only under its owner.
ListedOnce(r) ==
    \A u \in Owners : \A i, j \in DOMAIN r[u] :
        /\ OwnerOf[r[u][i].file] = u
        /\ i # j => r[u][i].file # r[u][j].file

EntriesUnique ==
    \A n \in Nodes : ListedOnce(registry[n]) /\ (saved[n] = None \/ ListedOnce(saved[n]))

Holds(n, f) == f \in pinned[n] /\ f \in cached[n]

\* Wherever a storage node is named as a file's provider (a published response and so a
\* block, anybody's registry, in memory or on disk), it has the file pinned: also after
\* crashes, after an error anywhere, and after its own collector removed the local copy.
Providers(r, u, i) == {r[u][i].providers[k] : k \in DOMAIN r[u][i].providers}

ProvidersHoldFile ==
    /\ \A t \in published : t.type = "add" => Holds(t.node, t.file)
    /\ \A n \in Nodes : \A u \in Owners : \A i \in DOMAIN registry[n][u] :
          \A p \in Providers(registry[n], u, i) : Holds(p, registry[n][u][i].file)

\* The registry, updated in place from first matches, is what the transactions of the
\* chain say, apart from the ones a fault or a crash made this node leave out; the file,
\* unless the last save was cut short, lacks no more than the ones whose save failed
\* since its last success.
RegistryFollowsChain ==
    \A n \in Nodes :
        /\ RegistryIs(registry[n], chain, (1 .. applied[n]) \ skipped[n])
        /\ saved[n] = None
              \/ RegistryIs(saved[n], chain, (1 .. applied[n]) \ (skipped[n] \cup unsaved[n]))

\* A node that a registry entry of its own names still has the local copy, unless a
\* collector of it removed the copy that came to the owner's list before the entry was
\* there, or ranged over the list when a deletion moved the entry: no other collector,
\* of whatever owner's deletion and however many at once, removes what is listed.
KeptOnceListed ==
    \A n \in Nodes : \A u \in Owners : \A i \in DOMAIN registry[n][u] :
        n \in Providers(registry[n], u, i) =>
            registry[n][u][i].file \in stored[n] \cup excused[n]

\* What a datastore holds once the download under way is done.
Needed(n) == Occupied(n) + (IF phase[n] = "fetch" THEN Size[current[n]] ELSE 0)

\* Only a block that is published into it takes a datastore over its limit, alone or
\* together with the download it overtakes: never a download, although the free space is
\* read before it and of unsigned numbers.
OnlyBlocksOverfill ==
    [][\A n \in Nodes :
          Needed(n)' > Capacity[n] =>
              \/ Needed(n) > Capacity[n]
              \/ \E i \in opens : applied[n] < i /\ i <= applied'[n]]_vars

\* A copy that is unlisted when a collector has yet to come to its owner's list goes,
\* unless its file is listed again, its removal or the look at the directory fails, or
\* the node crashes first.
DeletedIsCollected ==
    \A n \in Nodes, f \in Files :
        (/\ f \in stored[n] \ AllListed(registry[n])
         /\ \E c \in collectors[n] : OwnerOf[f] \in c.left)
            ~> (f \notin stored[n] \/ f \in AllListed(registry[n]) \cup stuck[n] \/ crashes[n] > 0)
=============================================================================
