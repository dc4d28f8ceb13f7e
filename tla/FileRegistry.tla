---------------------------- MODULE FileRegistry ----------------------------
(***************************************************************************)
(* internal/registry/file_registry: the files of every owner with the      *)
(* storage nodes that keep them, built from the transactions of the        *)
(* blocks.  Each encryption draws a fresh initialization vector, so a file *)
(* here is one announced upload: name, size, checksum and CID identify the *)
(* same one.                                                               *)
(***************************************************************************)
EXTENDS Naturals, Sequences, FiniteSets

CONSTANTS
    Files,   \* the announced files
    Owners,  \* the users
    OwnerOf, \* who announced a file
    Nodes    \* the storage nodes

ASSUME FileAssumption == OwnerOf \in [Files -> Owners]

FileData   == [file : Files, providers : Seq(Nodes)]
Registries == [Owners -> Seq(FileData)]

AddTransaction(f, n)    == [type |-> "add", owner |-> OwnerOf[f], file |-> f, node |-> n]
DeleteTransaction(u, f) == [type |-> "delete", owner |-> u, file |-> f]

AddTransactions    == {AddTransaction(f, n) : f \in Files, n \in Nodes}
DeleteTransactions == {DeleteTransaction(u, f) : u \in Owners, f \in Files}
Transactions       == AddTransactions \cup DeleteTransactions

EmptyRegistry == [u \in Owners |-> <<>>]

\* What NewFileData makes of an addition.
NewFileData(t) == [file |-> t.file, providers |-> <<t.node>>]

WithProvider(data, n) == [data EXCEPT !.providers = Append(@, n)]

\* The positions of a file in an owner's list; Add and Delete stop at the first.
Positions(list, f) == {i \in DOMAIN list : list[i].file = f}

First(list, f) ==
    CHOOSE i \in Positions(list, f) : \A j \in Positions(list, f) : i <= j

\* The files a list or the registry of a node names.
Listed(list) == {list[i].file : i \in DOMAIN list}

AllListed(registry) == UNION {Listed(registry[u]) : u \in Owners}

\* Mutant of Add: a second storage node makes a second entry.
AddNewEntry(registry, t) ==
    [registry EXCEPT ![t.owner] = Append(@, NewFileData(t))]

\* A known file gets one provider more, a new one an entry at the end.
Add(registry, t) ==
    LET list == registry[t.owner] IN
    IF Positions(list, t.file) # {}
    THEN [registry EXCEPT ![t.owner] =
            [list EXCEPT ![First(list, t.file)] = WithProvider(@, t.node)]]
    ELSE [registry EXCEPT ![t.owner] = Append(list, NewFileData(t))]

\* append(list[:i], list[i+1:]...)
Without(list, i) ==
    [j \in 1 .. Len(list) - 1 |-> IF j < i THEN list[j] ELSE list[j + 1]]

\* The entry of that owner goes with all its providers.
Delete(registry, t) ==
    LET list == registry[t.owner] IN
    IF Positions(list, t.file) # {}
    THEN [registry EXCEPT ![t.owner] = Without(list, First(list, t.file))]
    ELSE registry

\* UpdateFromBlock, one transaction.
Updated(registry, t) ==
    IF t.type = "add" THEN Add(registry, t) ELSE Delete(registry, t)

\* What a node answers to the owner's request.
Get(registry, u) == registry[u]

-----------------------------------------------------------------------------
(* A definition of the registry that does not walk the transactions: from  *)
(* the positions of a chain that were applied, a file is listed when it was *)
(* added after its last deletion, with the nodes that added it since.       *)

DeletesOf(chain, applied, f) ==
    {i \in applied : chain[i] = DeleteTransaction(OwnerOf[f], f)}

AddsOf(chain, applied, f) ==
    {i \in applied : /\ chain[i] \in {AddTransaction(f, n) : n \in Nodes}
                     /\ \A d \in DeletesOf(chain, applied, f) : d < i}

\* The elements of a set of positions, in order.
InOrder(positions) ==
    [k \in 1 .. Cardinality(positions) |->
        CHOOSE i \in positions : Cardinality({j \in positions : j < i}) = k - 1]

EntryOf(chain, applied, f) ==
    LET adds == InOrder(AddsOf(chain, applied, f))
    IN  [file |-> f, providers |-> [k \in DOMAIN adds |-> chain[adds[k]].node]]

\* The entries of an owner's list, whatever their order.
EntriesAfter(chain, applied, u) ==
    {EntryOf(chain, applied, f) :
        f \in {g \in Files : OwnerOf[g] = u /\ AddsOf(chain, applied, g) # {}}}

\* The lists hold these entries, each once.
RegistryIs(registry, chain, applied) ==
    \A u \in Owners :
        /\ {registry[u][i] : i \in DOMAIN registry[u]} = EntriesAfter(chain, applied, u)
        /\ Len(registry[u]) = Cardinality(EntriesAfter(chain, applied, u))
=============================================================================
