------------------------ MODULE StorageNetworkProofs ------------------------
(***************************************************************************)
(* The file registries and the copies behind them, for any files, owners,  *)
(* storage nodes and faults.                                               *)
(***************************************************************************)
EXTENDS StorageNetwork, TLAPS, FiniteSetTheorems, WellFoundedInduction

-----------------------------------------------------------------------------
(* What Add and Delete make of a registry that lists every file once.      *)

Good(r) == r \in Registries /\ ListedOnce(r)

\* With one entry per file the first match is the match.
LEMMA FirstMatch ==
    ASSUME NEW list \in Seq(FileData), NEW f, NEW i \in Positions(list, f),
           \A a, b \in DOMAIN list : a # b => list[a].file # list[b].file
    PROVE  First(list, f) = i
<1>1. Positions(list, f) = {i}
  BY DEF Positions
<1>2. i \in Nat
  BY DEF Positions
<1> QED BY <1>1, <1>2 DEF First

LEMMA EmptyGood == Good(EmptyRegistry)
BY DEF Good, EmptyRegistry, Registries, ListedOnce

\* q is r with another list for u.
Replaces(q, r, u, list) ==
    /\ q \in Registries
    /\ q[u] = list
    /\ \A v \in Owners : v # u => q[v] = r[v]

LEMMA ListReplaced ==
    ASSUME NEW r, Good(r), NEW u \in Owners, NEW list \in Seq(FileData),
           \A i, j \in DOMAIN list : /\ OwnerOf[list[i].file] = u
                                     /\ i # j => list[i].file # list[j].file,
           NEW q, Replaces(q, r, u, list)
    PROVE  Good(q)
BY DEF Good, ListedOnce, Replaces

LEMMA OneProviderMore ==
    ASSUME NEW e \in FileData, NEW n \in Nodes
    PROVE  /\ WithProvider(e, n) \in FileData
           /\ WithProvider(e, n).file = e.file
           /\ WithProvider(e, n).providers = Append(e.providers, n)
<1>1. e.file \in Files /\ e.providers \in Seq(Nodes)
  BY DEF FileData
<1>2. e = [file |-> e.file, providers |-> e.providers]
  BY DEF FileData
<1>3. WithProvider(e, n)
         = [file |-> e.file, providers |-> Append(e.providers, n)]
  <2>1. WithProvider(e, n) = [e EXCEPT !.providers = Append(e.providers, n)]
    BY DEF WithProvider
  <2> QED BY <1>2, <2>1
<1>4. Append(e.providers, n) \in Seq(Nodes)
  BY <1>1
<1> QED BY <1>1, <1>3, <1>4 DEF FileData

LEMMA OneEntryChanged ==
    ASSUME NEW old \in Seq(FileData), NEW i \in DOMAIN old, NEW n \in Nodes,
           NEW list, list = [old EXCEPT ![i] = WithProvider(@, n)]
    PROVE  /\ list \in Seq(FileData) /\ DOMAIN list = DOMAIN old
           /\ list[i].file = old[i].file
           /\ list[i].providers = Append(old[i].providers, n)
           /\ \A j \in DOMAIN list : j # i => list[j] = old[j]
<1>1. /\ DOMAIN list = DOMAIN old
      /\ list[i] = WithProvider(old[i], n)
      /\ \A j \in DOMAIN list : j # i => list[j] = old[j]
  OBVIOUS
<1>2. old[i] \in FileData
  OBVIOUS
<1>3. /\ list[i] \in FileData /\ list[i].file = old[i].file
      /\ list[i].providers = Append(old[i].providers, n)
  BY <1>1, <1>2, OneProviderMore
<1>4. list \in [1 .. Len(old) -> FileData]
  BY <1>1, <1>3
<1> QED BY <1>1, <1>3, <1>4

\* An addition whose file is listed: one provider more.
LEMMA ProviderAdded ==
    ASSUME NEW r, Good(r), NEW t \in AddTransactions,
           NEW i \in Positions(r[t.owner], t.file)
    PROVE  \E list \in Seq(FileData) :
              /\ Replaces(Add(r, t), r, t.owner, list)
              /\ i \in DOMAIN list /\ DOMAIN list = DOMAIN r[t.owner]
              /\ \A j \in DOMAIN list : list[j].file = r[t.owner][j].file
              /\ \A j \in DOMAIN list : j # i => list[j] = r[t.owner][j]
              /\ list[i].providers = Append(r[t.owner][i].providers, t.node)
<1>1. t.owner \in Owners /\ t.node \in Nodes
  BY FileAssumption DEF AddTransactions, AddTransaction
<1>2. r \in Registries /\ r[t.owner] \in Seq(FileData)
  BY <1>1 DEF Good, Registries
<1>3. First(r[t.owner], t.file) = i
  BY <1>1, <1>2, FirstMatch DEF Good, ListedOnce
<1>4. i \in DOMAIN r[t.owner]
  BY DEF Positions
<1>5. PICK list : list = [r[t.owner] EXCEPT ![First(r[t.owner], t.file)] = WithProvider(@, t.node)]
  OBVIOUS
<1>6. list = [r[t.owner] EXCEPT ![i] = WithProvider(@, t.node)]
  BY <1>3, <1>5, Zenon
<1>7. /\ list \in Seq(FileData) /\ DOMAIN list = DOMAIN r[t.owner]
      /\ list[i].file = r[t.owner][i].file
      /\ list[i].providers = Append(r[t.owner][i].providers, t.node)
      /\ \A j \in DOMAIN list : j # i => list[j] = r[t.owner][j]
  <2>1. PICK old, n : old = r[t.owner] /\ n = t.node
    OBVIOUS
  <2>2. /\ old \in Seq(FileData) /\ i \in DOMAIN old /\ n \in Nodes
        /\ list = [old EXCEPT ![i] = WithProvider(@, n)]
    BY <1>1, <1>2, <1>4, <1>6, <2>1, Zenon
  <2>3. /\ list \in Seq(FileData) /\ DOMAIN list = DOMAIN old
        /\ list[i].file = old[i].file
        /\ list[i].providers = Append(old[i].providers, n)
        /\ \A j \in DOMAIN list : j # i => list[j] = old[j]
    BY <2>2, OneEntryChanged
  <2> QED BY <2>1, <2>3, Zenon
<1>8. Add(r, t) = [r EXCEPT ![t.owner] = list]
  <2>1. Positions(r[t.owner], t.file) # {}
    OBVIOUS
  <2> QED BY <2>1, <1>5, Zenon DEF Add
<1>9. Replaces(Add(r, t), r, t.owner, list)
  BY <1>1, <1>2, <1>7, <1>8 DEF Replaces, Registries
<1> QED BY <1>4, <1>7, <1>9

\* An addition whose file is not listed: an entry at the end.
LEMMA EntryAdded ==
    ASSUME NEW r, Good(r), NEW t \in AddTransactions, Positions(r[t.owner], t.file) = {}
    PROVE  \E list \in Seq(FileData) :
              /\ Replaces(Add(r, t), r, t.owner, list)
              /\ DOMAIN list = 1 .. Len(r[t.owner]) + 1
              /\ DOMAIN r[t.owner] = 1 .. Len(r[t.owner]) /\ Len(r[t.owner]) \in Nat
              /\ \A j \in 1 .. Len(r[t.owner]) : list[j] = r[t.owner][j]
              /\ list[Len(r[t.owner]) + 1] = NewFileData(t)
<1>1. t.owner \in Owners /\ t.node \in Nodes /\ t.file \in Files
  BY FileAssumption DEF AddTransactions, AddTransaction
<1>2. r \in Registries /\ r[t.owner] \in Seq(FileData)
  BY <1>1 DEF Good, Registries
<1>3. PICK new : new = NewFileData(t)
  OBVIOUS
<1>4. new \in FileData
  BY <1>1, <1>3 DEF NewFileData, FileData
<1>5. PICK list : list = Append(r[t.owner], new)
  OBVIOUS
<1>6. /\ list \in Seq(FileData)
      /\ DOMAIN list = 1 .. Len(r[t.owner]) + 1
      /\ DOMAIN r[t.owner] = 1 .. Len(r[t.owner]) /\ Len(r[t.owner]) \in Nat
      /\ \A j \in 1 .. Len(r[t.owner]) : list[j] = r[t.owner][j]
      /\ list[Len(r[t.owner]) + 1] = new
  BY <1>2, <1>4, <1>5
<1>7. Add(r, t) = [r EXCEPT ![t.owner] = list]
  BY <1>3, <1>5, Zenon DEF Add
<1>8. Replaces(Add(r, t), r, t.owner, list)
  BY <1>1, <1>2, <1>6, <1>7 DEF Replaces, Registries
<1> QED BY <1>3, <1>6, <1>8

\* A deletion whose file is listed: its entry goes, the later ones move up.
LEMMA EntryDeleted ==
    ASSUME NEW r, Good(r), NEW t \in DeleteTransactions,
           NEW i \in Positions(r[t.owner], t.file)
    PROVE  \E list \in Seq(FileData) :
              /\ Replaces(Delete(r, t), r, t.owner, list)
              /\ DOMAIN list = 1 .. Len(r[t.owner]) - 1
              /\ DOMAIN r[t.owner] = 1 .. Len(r[t.owner]) /\ Len(r[t.owner]) \in Nat
              /\ i \in 1 .. Len(r[t.owner])
              /\ \A j \in DOMAIN list :
                    list[j] = IF j < i THEN r[t.owner][j] ELSE r[t.owner][j + 1]
<1>1. t.owner \in Owners
  BY DEF DeleteTransactions, DeleteTransaction
<1>2. r \in Registries /\ r[t.owner] \in Seq(FileData)
  BY <1>1 DEF Good, Registries
<1>3. First(r[t.owner], t.file) = i
  BY <1>1, <1>2, FirstMatch DEF Good, ListedOnce
<1>4. /\ DOMAIN r[t.owner] = 1 .. Len(r[t.owner]) /\ Len(r[t.owner]) \in Nat
      /\ i \in 1 .. Len(r[t.owner])
  BY <1>2 DEF Positions
<1>5. PICK list : list = Without(r[t.owner], i)
  OBVIOUS
<1>6. /\ list \in Seq(FileData)
      /\ DOMAIN list = 1 .. Len(r[t.owner]) - 1
      /\ \A j \in DOMAIN list :
            list[j] = IF j < i THEN r[t.owner][j] ELSE r[t.owner][j + 1]
  BY <1>2, <1>4, <1>5 DEF Without
<1>7. Delete(r, t) = [r EXCEPT ![t.owner] = list]
  <2>1. Positions(r[t.owner], t.file) # {}
    OBVIOUS
  <2> QED BY <1>3, <1>5, <2>1, Zenon DEF Delete
<1>8. Replaces(Delete(r, t), r, t.owner, list)
  BY <1>1, <1>2, <1>6, <1>7 DEF Replaces, Registries
<1> QED BY <1>4, <1>6, <1>8

LEMMA AddGood ==
    ASSUME NEW r, Good(r), NEW t \in AddTransactions PROVE Good(Add(r, t))
<1>1. t.owner = OwnerOf[t.file] /\ t.owner \in Owners
  BY FileAssumption DEF AddTransactions, AddTransaction
<1>2. \A i, j \in DOMAIN r[t.owner] :
         /\ OwnerOf[r[t.owner][i].file] = t.owner
         /\ i # j => r[t.owner][i].file # r[t.owner][j].file
  BY <1>1 DEF Good, ListedOnce
<1>3. ASSUME NEW i \in Positions(r[t.owner], t.file) PROVE Good(Add(r, t))
  <2>1. PICK list \in Seq(FileData) :
           /\ Replaces(Add(r, t), r, t.owner, list)
           /\ i \in DOMAIN list /\ DOMAIN list = DOMAIN r[t.owner]
           /\ \A j \in DOMAIN list : list[j].file = r[t.owner][j].file
           /\ \A j \in DOMAIN list : j # i => list[j] = r[t.owner][j]
           /\ list[i].providers = Append(r[t.owner][i].providers, t.node)
    BY ProviderAdded, Zenon
  <2>2. \A a, b \in DOMAIN list : /\ OwnerOf[list[a].file] = t.owner
                                  /\ a # b => list[a].file # list[b].file
    BY <1>2, <2>1
  <2> QED BY <1>1, <2>1, <2>2, ListReplaced
<1>4. CASE Positions(r[t.owner], t.file) = {}
  <2>1. PICK list \in Seq(FileData) :
           /\ Replaces(Add(r, t), r, t.owner, list)
           /\ DOMAIN list = 1 .. Len(r[t.owner]) + 1
           /\ DOMAIN r[t.owner] = 1 .. Len(r[t.owner]) /\ Len(r[t.owner]) \in Nat
           /\ \A j \in 1 .. Len(r[t.owner]) : list[j] = r[t.owner][j]
           /\ list[Len(r[t.owner]) + 1] = NewFileData(t)
    BY <1>4, EntryAdded
  <2>2. NewFileData(t).file = t.file
    BY DEF NewFileData
  <2>3. \A j \in 1 .. Len(r[t.owner]) : r[t.owner][j].file # t.file
    BY <1>4, <2>1 DEF Positions
  <2>4. \A a, b \in DOMAIN list : /\ OwnerOf[list[a].file] = t.owner
                                  /\ a # b => list[a].file # list[b].file
    <3>1. \A a \in DOMAIN list : \/ a \in DOMAIN r[t.owner] /\ list[a] = r[t.owner][a]
                                 \/ a = Len(r[t.owner]) + 1 /\ list[a].file = t.file
      BY <2>1, <2>2
    <3>2. \A a \in DOMAIN r[t.owner] : a \in 1 .. Len(r[t.owner]) /\ a # Len(r[t.owner]) + 1
      BY <2>1
    <3>3. \A a \in DOMAIN list : OwnerOf[list[a].file] = t.owner
      BY <1>1, <1>2, <3>1
    <3>4. ASSUME NEW a \in DOMAIN list, NEW b \in DOMAIN list, a # b
          PROVE  list[a].file # list[b].file
      BY <1>2, <2>3, <3>1, <3>2, <3>4
    <3> QED BY <3>3, <3>4
  <2> QED BY <1>1, <2>1, <2>4, ListReplaced
<1> QED BY <1>3, <1>4

LEMMA DeleteGood ==
    ASSUME NEW r, Good(r), NEW t \in DeleteTransactions PROVE Good(Delete(r, t))
<1>1. t.owner \in Owners
  BY DEF DeleteTransactions, DeleteTransaction
<1>2. \A i, j \in DOMAIN r[t.owner] :
         /\ OwnerOf[r[t.owner][i].file] = t.owner
         /\ i # j => r[t.owner][i].file # r[t.owner][j].file
  BY <1>1 DEF Good, ListedOnce
<1>3. ASSUME NEW i \in Positions(r[t.owner], t.file) PROVE Good(Delete(r, t))
  <2>1. PICK list \in Seq(FileData) :
           /\ Replaces(Delete(r, t), r, t.owner, list)
           /\ DOMAIN list = 1 .. Len(r[t.owner]) - 1
           /\ DOMAIN r[t.owner] = 1 .. Len(r[t.owner]) /\ Len(r[t.owner]) \in Nat
           /\ i \in 1 .. Len(r[t.owner])
           /\ \A j \in DOMAIN list :
                 list[j] = IF j < i THEN r[t.owner][j] ELSE r[t.owner][j + 1]
    BY EntryDeleted
  <2>2. \A a, b \in DOMAIN list : /\ OwnerOf[list[a].file] = t.owner
                                  /\ a # b => list[a].file # list[b].file
    <3> DEFINE at(a) == IF a < i THEN a ELSE a + 1
    <3>1. \A a \in DOMAIN list : at(a) \in DOMAIN r[t.owner] /\ list[a] = r[t.owner][at(a)]
      BY <2>1
    <3>2. \A a, b \in DOMAIN list : a # b => at(a) # at(b)
      BY <2>1
    <3> HIDE DEF at
    <3> QED BY <1>2, <3>1, <3>2
  <2> QED BY <1>1, <2>1, <2>2, ListReplaced
<1>4. CASE Positions(r[t.owner], t.file) = {}
  BY <1>4 DEF Delete
<1> QED BY <1>3, <1>4

LEMMA UpdatedGood ==
    ASSUME NEW r, Good(r), NEW t \in Transactions PROVE Good(Updated(r, t))
BY AddGood, DeleteGood
   DEF Updated, Transactions, AddTransactions, AddTransaction, DeleteTransactions,
       DeleteTransaction

\* Where the providers of an updated registry come from: an entry of that file before, or the
\* transaction itself.
FromBefore(q, r, u, i, p) ==
    \E j \in DOMAIN r[u] : r[u][j].file = q[u][i].file /\ p \in Providers(r, u, j)

\* What Append leaves in a sequence: the new element, or one that was there.
LEMMA ElementOfAppend ==
    ASSUME NEW S, NEW s \in Seq(S), NEW e \in S,
           NEW longer, longer = Append(s, e), NEW x \in DOMAIN longer
    PROVE  longer[x] = e \/ \E y \in DOMAIN s : longer[x] = s[y]
<1>1. DOMAIN s = 1 .. Len(s) /\ Len(s) \in Nat
  OBVIOUS
<1>2. x \in 1 .. Len(s) \/ x = Len(s) + 1
  BY <1>1
<1>3. longer[Len(s) + 1] = e /\ \A y \in 1 .. Len(s) : longer[y] = s[y]
  BY <1>1
<1> QED BY <1>1, <1>2, <1>3, Zenon

LEMMA AddProviders ==
    ASSUME NEW r, Good(r), NEW t \in AddTransactions, NEW u \in Owners,
           NEW i \in DOMAIN Add(r, t)[u], NEW p \in Providers(Add(r, t), u, i)
    PROVE  FromBefore(Add(r, t), r, u, i, p) \/ (p = t.node /\ Add(r, t)[u][i].file = t.file)
<1>1. t.owner \in Owners
  BY FileAssumption DEF AddTransactions, AddTransaction
<1>2. PICK q : q = Add(r, t)
  OBVIOUS
<1>3. i \in DOMAIN q[u] /\ p \in Providers(q, u, i)
  BY <1>2
<1>4. CASE q[u] = r[u]
  BY <1>2, <1>3, <1>4 DEF FromBefore, Providers
<1>5. ASSUME u = t.owner, NEW k \in Positions(r[t.owner], t.file)
      PROVE  FromBefore(q, r, u, i, p) \/ (p = t.node /\ q[u][i].file = t.file)
  <2>1. PICK list \in Seq(FileData) :
           /\ Replaces(q, r, t.owner, list)
           /\ k \in DOMAIN list /\ DOMAIN list = DOMAIN r[t.owner]
           /\ \A j \in DOMAIN list : list[j].file = r[t.owner][j].file
           /\ \A j \in DOMAIN list : j # k => list[j] = r[t.owner][j]
           /\ list[k].providers = Append(r[t.owner][k].providers, t.node)
    BY <1>2, ProviderAdded, Zenon
  <2>2. q[u] = list /\ i \in DOMAIN r[u]
    BY <1>3, <1>5, <2>1 DEF Replaces
  <2>3. CASE i # k
    <3>1. i \in DOMAIN r[u] /\ q[u][i] = r[u][i]
      BY <1>5, <2>1, <2>2, <2>3
    <3> QED BY <1>3, <3>1 DEF FromBefore, Providers
  <2>4. CASE i = k
    <3>1. r[u][k].file = t.file /\ k \in DOMAIN r[u]
      BY <1>5 DEF Positions
    <3>2. r[u][k].providers \in Seq(Nodes)
      <4>1. r[u] \in Seq(FileData)
        BY DEF Good, Registries
      <4>2. r[u][k] \in FileData
        BY <3>1, <4>1
      <4> QED BY <4>2 DEF FileData
    <3>3. PICK x \in DOMAIN list[k].providers : p = list[k].providers[x]
      BY <1>3, <2>2, <2>4 DEF Providers
    <3>4. p = t.node \/ \E y \in DOMAIN r[u][k].providers : p = r[u][k].providers[y]
      <4>1. PICK s : s = r[u][k].providers
        OBVIOUS
      <4>2. PICK longer : longer = list[k].providers
        OBVIOUS
      <4>3. longer = Append(s, t.node)
        BY <1>5, <2>1, <4>1, <4>2, Zenon
      <4>4. s \in Seq(Nodes) /\ x \in DOMAIN longer /\ p = longer[x]
        BY <3>2, <3>3, <4>1, <4>2
      <4>5. t.node \in Nodes
        BY DEF AddTransactions, AddTransaction
      <4>6. p = t.node \/ \E y \in DOMAIN s : p = s[y]
        BY <4>3, <4>4, <4>5, ElementOfAppend
      <4> QED BY <4>1, <4>6
    <3>5. q[u][i].file = r[u][k].file
      BY <1>5, <2>1, <2>2, <2>4
    <3> QED BY <3>1, <3>4, <3>5 DEF FromBefore, Providers
  <2> QED BY <2>3, <2>4
<1>6. ASSUME u = t.owner, Positions(r[t.owner], t.file) = {}
      PROVE  FromBefore(q, r, u, i, p) \/ (p = t.node /\ q[u][i].file = t.file)
  <2>1. PICK list \in Seq(FileData) :
           /\ Replaces(q, r, t.owner, list)
           /\ DOMAIN list = 1 .. Len(r[t.owner]) + 1
           /\ DOMAIN r[t.owner] = 1 .. Len(r[t.owner]) /\ Len(r[t.owner]) \in Nat
           /\ \A j \in 1 .. Len(r[t.owner]) : list[j] = r[t.owner][j]
           /\ list[Len(r[t.owner]) + 1] = NewFileData(t)
    BY <1>2, <1>6, EntryAdded, Zenon
  <2>2. q[u] = list
    BY <1>6, <2>1 DEF Replaces
  <2>3. CASE i \in 1 .. Len(r[u])
    BY <1>3, <1>6, <2>1, <2>2, <2>3 DEF FromBefore, Providers
  <2>4. CASE i = Len(r[u]) + 1
    BY <1>3, <1>6, <2>1, <2>2, <2>4 DEF Providers, NewFileData
  <2> QED BY <1>3, <1>6, <2>1, <2>2, <2>3, <2>4
<1>7. CASE u # t.owner
  <2>1. q[u] = r[u]
    <3>1. ASSUME NEW k \in Positions(r[t.owner], t.file) PROVE q[u] = r[u]
      BY <1>2, <1>7, ProviderAdded DEF Replaces
    <3>2. CASE Positions(r[t.owner], t.file) = {}
      BY <1>2, <1>7, <3>2, EntryAdded DEF Replaces
    <3> QED BY <3>1, <3>2
  <2> QED BY <1>4, <2>1, <1>2
<1> QED BY <1>2, <1>5, <1>6, <1>7

LEMMA DeleteProviders ==
    ASSUME NEW r, Good(r), NEW t \in DeleteTransactions, NEW u \in Owners,
           NEW i \in DOMAIN Delete(r, t)[u], NEW p \in Providers(Delete(r, t), u, i)
    PROVE  FromBefore(Delete(r, t), r, u, i, p)
<1>1. PICK q : q = Delete(r, t)
  OBVIOUS
<1>2. i \in DOMAIN q[u] /\ p \in Providers(q, u, i)
  BY <1>1
<1>3. CASE q[u] = r[u]
  BY <1>1, <1>2, <1>3 DEF FromBefore, Providers
<1>4. ASSUME NEW k \in Positions(r[t.owner], t.file) PROVE FromBefore(q, r, u, i, p)
  <2>1. PICK list \in Seq(FileData) :
           /\ Replaces(q, r, t.owner, list)
           /\ DOMAIN list = 1 .. Len(r[t.owner]) - 1
           /\ DOMAIN r[t.owner] = 1 .. Len(r[t.owner]) /\ Len(r[t.owner]) \in Nat
           /\ k \in 1 .. Len(r[t.owner])
           /\ \A j \in DOMAIN list :
                 list[j] = IF j < k THEN r[t.owner][j] ELSE r[t.owner][j + 1]
    BY <1>1, EntryDeleted, Zenon
  <2>2. CASE u # t.owner
    BY <1>1, <1>3, <2>1, <2>2 DEF Replaces
  <2>3. CASE u = t.owner
    <3>1. q[u] = list /\ i \in 1 .. Len(r[u]) - 1
      BY <1>2, <2>1, <2>3 DEF Replaces
    <3>2. PICK j \in DOMAIN r[u] : q[u][i] = r[u][j]
      <4>1. PICK j : j = IF i < k THEN i ELSE i + 1
        OBVIOUS
      <4>2. j \in 1 .. Len(r[u])
        BY <2>1, <2>3, <3>1, <4>1
      <4>3. q[u][i] = r[u][j]
        BY <2>1, <2>3, <3>1, <4>1
      <4> QED BY <2>1, <2>3, <4>2, <4>3
    <3> QED BY <1>2, <3>2 DEF FromBefore, Providers
  <2> QED BY <2>2, <2>3
<1>5. CASE Positions(r[t.owner], t.file) = {}
  BY <1>1, <1>3, <1>5 DEF Delete
<1> QED BY <1>1, <1>4, <1>5

LEMMA UpdatedProviders ==
    ASSUME NEW r, Good(r), NEW t \in Transactions, NEW u \in Owners,
           NEW i \in DOMAIN Updated(r, t)[u], NEW p \in Providers(Updated(r, t), u, i)
    PROVE  \/ FromBefore(Updated(r, t), r, u, i, p)
           \/ t.type = "add" /\ p = t.node /\ Updated(r, t)[u][i].file = t.file
<1>1. CASE t \in AddTransactions
  <2>1. t.type = "add" /\ Updated(r, t) = Add(r, t)
    BY <1>1 DEF Updated, AddTransactions, AddTransaction
  <2> QED BY <1>1, <2>1, AddProviders
<1>2. CASE t \in DeleteTransactions
  <2>1. Updated(r, t) = Delete(r, t)
    BY <1>2 DEF Updated, DeleteTransactions, DeleteTransaction
  <2> QED BY <1>2, <2>1, DeleteProviders
<1> QED BY <1>1, <1>2 DEF Transactions

-----------------------------------------------------------------------------
(* Types, in groups of variables that change together. *)

NetworkTypes ==
    /\ shown \in [Owners -> SUBSET Files]
    /\ announced \subseteq Files
    /\ published \subseteq Transactions
    /\ chain \in Seq(Transactions)
    /\ opens \subseteq Nat
    /\ Len(chain) <= MaxTxs
    /\ \A i \in DOMAIN chain : chain[i] \in published
    /\ crashes \in [Nodes -> Nat]

HandlerTypes ==
    /\ heard \in [Nodes -> SUBSET Files]
    /\ phase \in [Nodes -> {"idle", "fetch", "move", "pin", "send"}]
    /\ current \in [Nodes -> Files \cup {None}]
    /\ \A n \in Nodes : (phase[n] = "idle") <=> (current[n] = None)
    /\ publisher \in [Nodes -> Files \cup {None}]
    /\ cached \in [Nodes -> SUBSET Files]
    /\ pinned \in [Nodes -> SUBSET Files]

RegistryTypes ==
    /\ applied \in [Nodes -> Nat]
    /\ registry \in [Nodes -> Registries]
    /\ saved \in [Nodes -> Registries \cup {None}]
    /\ skipped \in [Nodes -> SUBSET Nat]
    /\ unsaved \in [Nodes -> SUBSET Nat]
    /\ EntriesUnique

\* The files that a collector has still to read of the list it is at.
Ahead(c) == {c.view[j] : j \in c.pos .. Len(c.view)}

\* A collector against the registry r of its node: the slice it ranges over is the list, and what
\* is behind the list's end it is excused not to read; a file of a list that it has come to it has
\* read, has still to read or is excused not to; what it removes it is excused not to have read.
Proper(c, r) ==
    /\ c.view = <<>> => c.pos = 1
    /\ c.view # <<>> =>
          /\ c.owner \in Owners
          /\ c.pos <= Len(c.view)
          /\ \A j \in DOMAIN c.view :
                IF j \in DOMAIN r[c.owner] THEN c.view[j] = r[c.owner][j].file
                ELSE c.view[j] \in c.unseen
    /\ c.step = "registry" =>
          \A f \in Files : OwnerOf[f] \notin c.left => f \in c.files \cup c.unseen \cup Ahead(c)
    /\ c.step = "delete" => c.files \subseteq c.unseen

CollectorTypes ==
    /\ stored \in [Nodes -> SUBSET Files]
    /\ collectors \in [Nodes -> SUBSET Collectors]
    /\ excused \in [Nodes -> SUBSET Files]
    /\ stuck \in [Nodes -> SUBSET Files]
    /\ \A n \in Nodes : \A c \in collectors[n] : Proper(c, registry[n])

Types == NetworkTypes /\ HandlerTypes /\ RegistryTypes /\ CollectorTypes

LEMMA TypesInit == Init => Types
<1> SUFFICES ASSUME Init PROVE Types
  OBVIOUS
<1>1. NetworkTypes
  BY StorageAssumption DEF Init, NetworkTypes
<1>2. HandlerTypes
  BY DEF Init, HandlerTypes
<1>3. RegistryTypes
  BY EmptyGood DEF Init, RegistryTypes, EntriesUnique, Good
<1>4. CollectorTypes
  BY DEF Init, CollectorTypes
<1> QED BY <1>1, <1>2, <1>3, <1>4 DEF Types

LEMMA ArrayIsSequence ==
    ASSUME NEW S, NEW k \in Nat, NEW s \in [1 .. k -> S]
    PROVE  s \in Seq(S) /\ Len(s) = k
OBVIOUS

LEMMA ConcatType ==
    ASSUME NEW S, NEW a \in Seq(S), NEW b \in Seq(S)
    PROVE  a \o b \in Seq(S) /\ Len(a \o b) = Len(a) + Len(b)
OBVIOUS

LEMMA NetworkStep == Types /\ [Next]_vars => NetworkTypes'
<1> SUFFICES ASSUME Types, [Next]_vars PROVE NetworkTypes'
  OBVIOUS
<1> USE DEF Types, NetworkTypes
<1>1. CASE UNCHANGED <<shown, announced, published, chain, opens, crashes>>
  BY <1>1
<1>2. ASSUME NEW f \in Files, SendFile(f) PROVE NetworkTypes'
  BY <1>2 DEF SendFile
<1>3. ASSUME NEW u \in Owners, NEW n \in Nodes, ReceiveFiles(u, n) PROVE NetworkTypes'
  <2>1. Listed(registry[n][u]) \subseteq Files
    <3>1. registry[n][u] \in Seq(FileData)
      BY DEF RegistryTypes, Registries
    <3>2. \A i \in DOMAIN registry[n][u] : registry[n][u][i] \in FileData
      BY <3>1
    <3>3. \A e \in FileData : e.file \in Files
      BY DEF FileData
    <3> QED BY <3>2, <3>3 DEF Listed
  <2>2. shown' \in [Owners -> SUBSET Files]
    BY <1>3, <2>1 DEF ReceiveFiles, Get
  <2> QED BY <1>3, <2>2 DEF ReceiveFiles, networkVars
<1>4. ASSUME NEW u \in Owners, NEW f \in Files, DeleteFile(u, f) PROVE NetworkTypes'
  <2>1. DeleteTransaction(u, f) \in Transactions
    BY DEF Transactions, DeleteTransactions
  <2> QED BY <1>4, <2>1 DEF DeleteFile
<1>5. CASE Mine
  <2>1. PICK k \in 1 .. MaxInBlock : \E block \in [1 .. k -> published] :
           /\ Len(chain) + k <= MaxTxs
           /\ chain' = chain \o block /\ opens' = opens \cup {Len(chain) + 1}
           /\ UNCHANGED <<shown, announced, published, crashes>>
    BY <1>5 DEF Mine
  <2>2. PICK block \in [1 .. k -> published] :
           /\ Len(chain) + k <= MaxTxs
           /\ chain' = chain \o block /\ opens' = opens \cup {Len(chain) + 1}
           /\ UNCHANGED <<shown, announced, published, crashes>>
    BY <2>1
  <2>3. /\ chain \in Seq(published) /\ k \in Nat
        /\ block \in Seq(published) /\ Len(block) = k
    <3>1. k \in Nat
      BY StorageAssumption
    <3>2. chain \in [1 .. Len(chain) -> published] /\ Len(chain) \in Nat
      OBVIOUS
    <3>3. chain \in Seq(published)
      BY <3>2, ArrayIsSequence, Zenon
    <3>4. block \in Seq(published) /\ Len(block) = k
      BY <2>2, <3>1, ArrayIsSequence, Zenon
    <3> QED BY <3>1, <3>3, <3>4
  <2>4. chain' \in Seq(published) /\ Len(chain') = Len(chain) + k
    BY <2>2, <2>3, ConcatType
  <2>5. \A i \in DOMAIN chain' : chain'[i] \in published
    BY <2>4
  <2>6. chain' \in Seq(Transactions)
    BY <2>4
  <2>7. opens' \subseteq Nat
    <3>1. Len(chain) + 1 \in Nat
      BY <2>3
    <3>2. opens \subseteq Nat /\ opens' = opens \cup {Len(chain) + 1}
      BY <2>2
    <3> QED BY <3>1, <3>2, Zenon
  <2> QED BY <2>2, <2>4, <2>5, <2>6, <2>7
<1>6. ASSUME NEW n \in Nodes, PublishResponse(n) PROVE NetworkTypes'
  <2>1. publisher[n] \in Files
    BY <1>6 DEF PublishResponse, HandlerTypes
  <2>2. AddTransaction(publisher[n], n) \in Transactions
    BY <2>1 DEF Transactions, AddTransactions
  <2> QED BY <1>6, <2>2 DEF PublishResponse
<1>7. ASSUME NEW n \in Nodes, Restart(n) PROVE NetworkTypes'
  BY <1>7 DEF Restart, networkVars
<1>8. ASSUME NEW n \in Nodes, HandlerStep(n)
      PROVE  UNCHANGED <<shown, announced, published, chain, opens, crashes>>
  BY <1>8, Zenon
     DEF HandlerStep, networkVars, RefuseAnnouncement, AcceptAnnouncement, Fetch, FetchFails,
         MoveFile, MoveFileFails, PinFile, PinFileFails, SendToPublisher, Proceed
<1>9. ASSUME NEW n \in Nodes, UpdateFromBlock(n) \/ UpdateFromBlockFails(n) \/ CollectSome(n)
      PROVE  UNCHANGED <<shown, announced, published, chain, opens, crashes>>
  BY <1>9, Zenon
     DEF UpdateFromBlock, UpdateFromBlockFails, networkVars, CollectSome, Collect, ReachList, ReadEntry,
           ReadDirectory, ReadDirectoryFails, RemoveNext, Becomes
<1>10. CASE UNCHANGED vars
  BY <1>1, <1>10 DEF vars, networkVars
<1>11. ASSUME NEW u \in Owners, ClientStep(u) PROVE NetworkTypes'
  BY <1>3, <1>4, <1>11 DEF ClientStep
<1>12. ASSUME NEW n \in Nodes, NodeStep(n) PROVE NetworkTypes'
  BY <1>1, <1>6, <1>7, <1>8, <1>9, <1>12 DEF NodeStep
<1> QED BY <1>2, <1>5, <1>10, <1>11, <1>12 DEF Next

LEMMA HandlerStepTypes == Types /\ [Next]_vars => HandlerTypes'
<1> SUFFICES ASSUME Types, [Next]_vars PROVE HandlerTypes'
  OBVIOUS
<1> USE DEF Types, HandlerTypes
<1>1. CASE UNCHANGED handlerVars
  BY <1>1 DEF handlerVars
<1>2. ASSUME NEW n \in Nodes, NEW f \in Files, RefuseAnnouncement(n, f) PROVE HandlerTypes'
  BY <1>2 DEF RefuseAnnouncement
<1>3. ASSUME NEW n \in Nodes, NEW f \in Files, AcceptAnnouncement(n, f) PROVE HandlerTypes'
  BY <1>3, StorageAssumption DEF AcceptAnnouncement
<1>4. ASSUME NEW n \in Nodes, Fetch(n) PROVE HandlerTypes'
  BY <1>4 DEF Fetch, Proceed
<1>5. ASSUME NEW n \in Nodes, FetchFails(n) PROVE HandlerTypes'
  BY <1>5 DEF FetchFails, Proceed
<1>6. ASSUME NEW n \in Nodes, MoveFile(n) PROVE HandlerTypes'
  BY <1>6 DEF MoveFile, Proceed
<1>7. ASSUME NEW n \in Nodes, MoveFileFails(n) PROVE HandlerTypes'
  BY <1>7 DEF MoveFileFails, Proceed
<1>8. ASSUME NEW n \in Nodes, PinFile(n) PROVE HandlerTypes'
  BY <1>8 DEF PinFile, Proceed
<1>9. ASSUME NEW n \in Nodes, PinFileFails(n) PROVE HandlerTypes'
  BY <1>9 DEF PinFileFails, Proceed
<1>10. ASSUME NEW n \in Nodes, SendToPublisher(n) PROVE HandlerTypes'
  BY <1>10 DEF SendToPublisher, Proceed
<1>11. ASSUME NEW n \in Nodes, PublishResponse(n) PROVE HandlerTypes'
  BY <1>11 DEF PublishResponse
<1>12. ASSUME NEW n \in Nodes, Restart(n) PROVE HandlerTypes'
  BY <1>12 DEF Restart
<1>13. ASSUME NEW n \in Nodes, NodeStep(n) PROVE HandlerTypes'
  <2>1. CASE UpdateFromBlock(n) \/ UpdateFromBlockFails(n) \/ CollectSome(n)
    BY <1>1, <2>1, Zenon
       DEF UpdateFromBlock, UpdateFromBlockFails, CollectSome, Collect, ReachList, ReadEntry,
           ReadDirectory, ReadDirectoryFails, RemoveNext, Becomes
  <2>2. CASE HandlerStep(n)
    BY <1>2, <1>3, <1>4, <1>5, <1>6, <1>7, <1>8, <1>9, <1>10, <2>2 DEF HandlerStep
  <2> QED BY <1>11, <1>12, <1>13, <2>1, <2>2 DEF NodeStep
<1>14. CASE \/ \E f \in Files : SendFile(f)
            \/ \E u \in Owners : ClientStep(u)
            \/ Mine
            \/ UNCHANGED vars
  BY <1>1, <1>14, Zenon DEF ClientStep, SendFile, ReceiveFiles, DeleteFile, Mine, vars
<1> QED BY <1>13, <1>14 DEF Next

\* Registries that change at one node.
LEMMA RegistryReplaced ==
    ASSUME NEW f \in [Nodes -> Registries], \A k \in Nodes : ListedOnce(f[k]),
           NEW n \in Nodes, NEW r, Good(r)
    PROVE  /\ [f EXCEPT ![n] = r] \in [Nodes -> Registries]
           /\ \A k \in Nodes : ListedOnce([f EXCEPT ![n] = r][k])
<1>1. r \in Registries /\ ListedOnce(r)
  BY DEF Good
<1>2. \A k \in Nodes : [f EXCEPT ![n] = r][k] = IF k = n THEN r ELSE f[k]
  OBVIOUS
<1> QED BY <1>1, <1>2

\* Registry files that change at one node.
LEMMA SavedReplaced ==
    ASSUME NEW f \in [Nodes -> Registries \cup {None}],
           \A k \in Nodes : f[k] = None \/ ListedOnce(f[k]),
           NEW n \in Nodes, NEW r, r = None \/ Good(r)
    PROVE  /\ [f EXCEPT ![n] = r] \in [Nodes -> Registries \cup {None}]
           /\ \A k \in Nodes : \/ [f EXCEPT ![n] = r][k] = None
                               \/ ListedOnce([f EXCEPT ![n] = r][k])
<1>1. r \in Registries \cup {None} /\ (r = None \/ ListedOnce(r))
  BY DEF Good
<1>2. \A k \in Nodes : [f EXCEPT ![n] = r][k] = IF k = n THEN r ELSE f[k]
  OBVIOUS
<1> QED BY <1>1, <1>2

LEMMA NextGood ==
    ASSUME Types, NEW n \in Nodes, applied[n] < Len(chain)
    PROVE  /\ chain[applied[n] + 1] \in Transactions
           /\ chain[applied[n] + 1] \in published
           /\ applied[n] + 1 \in 1 .. MaxTxs
           /\ Good(registry[n]) /\ Good(Updated(registry[n], chain[applied[n] + 1]))
<1>1. applied[n] \in Nat /\ Len(chain) \in Nat /\ MaxTxs \in Nat /\ Len(chain) <= MaxTxs
  BY StorageAssumption DEF Types, NetworkTypes, RegistryTypes
<1>2. applied[n] + 1 \in DOMAIN chain /\ applied[n] + 1 \in 1 .. MaxTxs
  BY <1>1 DEF Types, NetworkTypes
<1>3. chain[applied[n] + 1] \in Transactions /\ chain[applied[n] + 1] \in published
  BY <1>2 DEF Types, NetworkTypes
<1>4. Good(registry[n])
  BY DEF Types, RegistryTypes, EntriesUnique, Good
<1> QED BY <1>2, <1>3, <1>4, UpdatedGood

LEMMA RegistryStep == Types /\ [Next]_vars => RegistryTypes'
<1> SUFFICES ASSUME Types, [Next]_vars PROVE RegistryTypes'
  OBVIOUS
<1> USE DEF Types, RegistryTypes
<1>1. CASE UNCHANGED registryVars
  BY <1>1 DEF registryVars, EntriesUnique
<1>2. ASSUME NEW n \in Nodes, UpdateFromBlock(n) PROVE RegistryTypes'
  <2>1. PICK r : r = Updated(registry[n], chain[applied[n] + 1])
    OBVIOUS
  <2>2. /\ applied' = [applied EXCEPT ![n] = @ + 1]
        /\ registry' = [registry EXCEPT ![n] = r] /\ saved' = [saved EXCEPT ![n] = r]
        /\ unsaved' = [unsaved EXCEPT ![n] = {}] /\ UNCHANGED skipped
    BY <1>2, <2>1 DEF UpdateFromBlock
  <2>3. Good(r)
    BY <1>2, <2>1, NextGood DEF UpdateFromBlock
  <2>4. registry' \in [Nodes -> Registries] /\ \A k \in Nodes : ListedOnce(registry'[k])
    BY <2>2, <2>3, RegistryReplaced DEF EntriesUnique
  <2>5. /\ saved' \in [Nodes -> Registries \cup {None}]
        /\ \A k \in Nodes : saved'[k] = None \/ ListedOnce(saved'[k])
    BY <2>2, <2>3, SavedReplaced DEF EntriesUnique
  <2>6. applied' \in [Nodes -> Nat]
    BY <2>2
  <2>7. unsaved' \in [Nodes -> SUBSET Nat]
    BY <2>2
  <2> QED BY <2>2, <2>4, <2>5, <2>6, <2>7 DEF EntriesUnique
<1>3. ASSUME NEW n \in Nodes, UpdateFromBlockFails(n) PROVE RegistryTypes'
  <2>1. PICK r : r = Updated(registry[n], chain[applied[n] + 1])
    OBVIOUS
  <2>2. PICK e \in EndOfBlock(applied[n] + 1) :
           /\ applied' = [applied EXCEPT ![n] = e]
           /\ skipped' = [skipped EXCEPT ![n] = @ \cup (applied[n] + 1) + 1 .. e]
    BY <1>3 DEF UpdateFromBlockFails
  <2>3. registry' = [registry EXCEPT ![n] = r]
    BY <1>3, <2>1 DEF UpdateFromBlockFails
  <2>4. /\ saved' = [saved EXCEPT ![n] = r] \/ saved' = saved \/ saved' = [saved EXCEPT ![n] = None]
        /\ \/ unsaved' = [unsaved EXCEPT ![n] = {}]
           \/ unsaved' = [unsaved EXCEPT ![n] = @ \cup {applied[n] + 1}]
    BY <1>3, <2>3 DEF UpdateFromBlockFails
  <2>5. Good(r)
    BY <1>3, <2>1, NextGood DEF UpdateFromBlockFails
  <2>6. /\ saved' \in [Nodes -> Registries \cup {None}]
        /\ \A k \in Nodes : saved'[k] = None \/ ListedOnce(saved'[k])
    BY <2>4, <2>5, SavedReplaced DEF EntriesUnique
  <2>7. registry' \in [Nodes -> Registries] /\ \A k \in Nodes : ListedOnce(registry'[k])
    BY <2>3, <2>5, RegistryReplaced DEF EntriesUnique
  <2>8. e \in Nat /\ applied[n] + 1 \in Nat /\ (applied[n] + 1) + 1 .. e \subseteq Nat
    BY DEF EndOfBlock, NetworkTypes
  <2>9. applied' \in [Nodes -> Nat]
    BY <2>2, <2>8
  <2>10. skipped' \in [Nodes -> SUBSET Nat] /\ unsaved' \in [Nodes -> SUBSET Nat]
    BY <2>2, <2>4, <2>8
  <2> QED BY <2>6, <2>7, <2>9, <2>10 DEF EntriesUnique
<1>4. ASSUME NEW n \in Nodes, Restart(n) PROVE RegistryTypes'
  <2>1. PICK e \in EndOfBlock(applied[n] + 1) \cup {applied[n]} :
           /\ applied' = [applied EXCEPT ![n] = e]
           /\ skipped' = [skipped EXCEPT ![n] = @ \cup unsaved[n] \cup applied[n] + 1 .. e]
    BY <1>4 DEF Restart
  <2>2. /\ registry' = [registry EXCEPT ![n] = saved[n]]
        /\ unsaved' = [unsaved EXCEPT ![n] = {}] /\ UNCHANGED saved
    BY <1>4 DEF Restart
  <2>3. Good(saved[n])
    BY <1>4 DEF EntriesUnique, Good, Restart
  <2>4. registry' \in [Nodes -> Registries] /\ \A k \in Nodes : ListedOnce(registry'[k])
    BY <2>2, <2>3, RegistryReplaced DEF EntriesUnique
  <2>5. e \in Nat /\ applied[n] + 1 .. e \subseteq Nat
    BY DEF EndOfBlock, NetworkTypes
  <2>6. applied' \in [Nodes -> Nat]
    BY <2>1, <2>5
  <2>7. skipped' \in [Nodes -> SUBSET Nat] /\ unsaved' \in [Nodes -> SUBSET Nat]
    BY <2>1, <2>2, <2>5
  <2> QED BY <2>2, <2>4, <2>6, <2>7 DEF EntriesUnique
<1>5. ASSUME NEW n \in Nodes, NodeStep(n) PROVE RegistryTypes'
  <2>1. CASE HandlerStep(n) \/ PublishResponse(n) \/ CollectSome(n)
    BY <1>1, <2>1, Zenon
       DEF HandlerStep, RefuseAnnouncement, AcceptAnnouncement, Fetch, FetchFails, MoveFile,
           MoveFileFails, PinFile, PinFileFails, SendToPublisher, Proceed, PublishResponse,
           CollectSome, Collect, ReachList, ReadEntry,
           ReadDirectory, ReadDirectoryFails, RemoveNext, Becomes
  <2> QED BY <1>2, <1>3, <1>4, <1>5, <2>1 DEF NodeStep
<1>6. CASE \/ \E f \in Files : SendFile(f)
           \/ \E u \in Owners : ClientStep(u)
           \/ Mine
           \/ UNCHANGED vars
  BY <1>1, <1>6, Zenon DEF ClientStep, SendFile, ReceiveFiles, DeleteFile, Mine, vars
<1> QED BY <1>5, <1>6 DEF Next

LEMMA FilesOfList ==
    ASSUME NEW list \in Seq(FileData)
    PROVE  /\ \A j \in DOMAIN list : list[j].file \in Files
           /\ DOMAIN list = 1 .. Len(list) /\ Len(list) \in Nat
<1>1. \A e \in FileData : e.file \in Files
  BY DEF FileData
<1>2. \A j \in DOMAIN list : list[j] \in FileData
  OBVIOUS
<1> QED BY <1>1, <1>2

\* An update changes the list of one owner.
LEMMA OneListUpdated ==
    ASSUME NEW r, Good(r), NEW t \in Transactions
    PROVE  /\ t.owner \in Owners
           /\ r[t.owner] \in Seq(FileData) /\ Updated(r, t)[t.owner] \in Seq(FileData)
           /\ \A v \in Owners : v # t.owner => Updated(r, t)[v] = r[v]
<1>1. t.owner \in Owners
  BY FileAssumption
     DEF Transactions, AddTransactions, AddTransaction, DeleteTransactions, DeleteTransaction
<1>2. r[t.owner] \in Seq(FileData) /\ Updated(r, t)[t.owner] \in Seq(FileData)
  BY <1>1, UpdatedGood DEF Good, Registries
<1>3. ASSUME NEW v \in Owners, v # t.owner PROVE Updated(r, t)[v] = r[v]
  <2>1. CASE t \in AddTransactions
    <3>1. Updated(r, t) = Add(r, t)
      BY <2>1 DEF Updated, AddTransactions, AddTransaction
    <3>2. ASSUME NEW i \in Positions(r[t.owner], t.file) PROVE Add(r, t)[v] = r[v]
      BY <1>3, <2>1, ProviderAdded DEF Replaces
    <3>3. CASE Positions(r[t.owner], t.file) = {}
      BY <1>3, <2>1, <3>1, <3>3, EntryAdded DEF Replaces
    <3> QED BY <3>1, <3>2, <3>3
  <2>2. CASE t \in DeleteTransactions
    <3>1. Updated(r, t) = Delete(r, t)
      BY <2>2 DEF Updated, DeleteTransactions, DeleteTransaction
    <3>2. ASSUME NEW i \in Positions(r[t.owner], t.file) PROVE Delete(r, t)[v] = r[v]
      BY <1>3, <2>2, EntryDeleted DEF Replaces
    <3>3. CASE Positions(r[t.owner], t.file) = {}
      BY <3>1, <3>3 DEF Delete
    <3> QED BY <3>1, <3>2, <3>3
  <2> QED BY <2>1, <2>2 DEF Transactions
<1> QED BY <1>1, <1>2, <1>3

\* A collector is what its fields are.
LEMMA CollectorFields ==
    ASSUME NEW c \in Collectors
    PROVE  /\ c = [id |-> c.id, step |-> c.step, left |-> c.left, owner |-> c.owner,
                   view |-> c.view, pos |-> c.pos, files |-> c.files, unseen |-> c.unseen]
           /\ c.id \in 1 .. MaxTxs /\ c.step \in {"registry", "delete"}
           /\ c.left \subseteq Owners /\ c.owner \in Owners \cup {None}
           /\ c.view \in Seq(Files) /\ DOMAIN c.view = 1 .. Len(c.view) /\ Len(c.view) \in Nat
           /\ c.pos \in Nat /\ c.pos >= 1
           /\ c.files \subseteq Files /\ c.unseen \subseteq Files
BY DEF Collectors

\* The ways in which a collector changes, field by field.

LEMMA ReachedFields ==
    ASSUME NEW c \in Collectors, NEW u, NEW list
    PROVE  Reached(c, u, list) =
               [id |-> c.id, step |-> c.step, left |-> c.left \ {u},
                owner |-> IF list = <<>> THEN None ELSE u,
                view |-> [j \in DOMAIN list |-> list[j].file], pos |-> c.pos, files |-> c.files,
                unseen |-> c.unseen \cup (FilesOf(u) \ Listed(list))]
<1>1. c = [id |-> c.id, step |-> c.step, left |-> c.left, owner |-> c.owner,
           view |-> c.view, pos |-> c.pos, files |-> c.files, unseen |-> c.unseen]
  BY CollectorFields
<1>2. PICK left, view, owner, unseen :
         /\ left = c.left \ {u} /\ view = [j \in DOMAIN list |-> list[j].file]
         /\ owner = (IF list = <<>> THEN None ELSE u)
         /\ unseen = c.unseen \cup (FilesOf(u) \ Listed(list))
  OBVIOUS
<1>3. PICK d : d = [c EXCEPT !.left = left, !.view = view, !.owner = owner, !.unseen = unseen]
  OBVIOUS
<1>4. d = Reached(c, u, list)
  BY <1>2, <1>3, Zenon DEF Reached
<1>5. d = [id |-> c.id, step |-> c.step, left |-> left, owner |-> owner,
           view |-> view, pos |-> c.pos, files |-> c.files, unseen |-> unseen]
  BY <1>1, <1>3
<1> QED BY <1>2, <1>4, <1>5, Zenon

LEMMA ViewAndUnseenChanged ==
    ASSUME NEW c \in Collectors, NEW view, NEW unseen,
           NEW d, d = [c EXCEPT !.view = view, !.unseen = unseen]
    PROVE  d = [id |-> c.id, step |-> c.step, left |-> c.left, owner |-> c.owner,
                view |-> view, pos |-> c.pos, files |-> c.files, unseen |-> unseen]
<1>1. c = [id |-> c.id, step |-> c.step, left |-> c.left, owner |-> c.owner,
           view |-> c.view, pos |-> c.pos, files |-> c.files, unseen |-> c.unseen]
      BY CollectorFields
<1> QED BY <1>1

LEMMA FurtherFields ==
    ASSUME NEW c \in Collectors, NEW files, files = c.files \cup {c.view[c.pos]}
    PROVE  /\ c.pos = Len(c.view) =>
                 Further(c) = [id |-> c.id, step |-> c.step, left |-> c.left, owner |-> None,
                               view |-> <<>>, pos |-> 1, files |-> files, unseen |-> c.unseen]
           /\ c.pos # Len(c.view) =>
                 Further(c) = [id |-> c.id, step |-> c.step, left |-> c.left, owner |-> c.owner,
                               view |-> c.view, pos |-> c.pos + 1, files |-> files,
                               unseen |-> c.unseen]
<1>1. c = [id |-> c.id, step |-> c.step, left |-> c.left, owner |-> c.owner,
           view |-> c.view, pos |-> c.pos, files |-> c.files, unseen |-> c.unseen]
  BY CollectorFields
<1>2. PICK read : read = [c EXCEPT !.files = files]
  OBVIOUS
<1>3. read = [id |-> c.id, step |-> c.step, left |-> c.left, owner |-> c.owner,
              view |-> c.view, pos |-> c.pos, files |-> files, unseen |-> c.unseen]
  BY <1>1, <1>2
<1>4. ASSUME c.pos = Len(c.view)
      PROVE  Further(c) = [id |-> c.id, step |-> c.step, left |-> c.left, owner |-> None,
                           view |-> <<>>, pos |-> 1, files |-> files, unseen |-> c.unseen]
  <2>1. PICK owner, view, pos : owner = None /\ view = <<>> /\ pos = 1
    OBVIOUS
  <2>2. PICK d : d = [read EXCEPT !.owner = owner, !.view = view, !.pos = pos]
    OBVIOUS
  <2>3. d = Further(c)
    BY <1>2, <1>4, <2>1, <2>2, Zenon DEF Further
  <2>4. d = [id |-> c.id, step |-> c.step, left |-> c.left, owner |-> owner,
             view |-> view, pos |-> pos, files |-> files, unseen |-> c.unseen]
    BY <1>3, <2>2
  <2> QED BY <2>1, <2>3, <2>4, Zenon
<1>5. ASSUME c.pos # Len(c.view)
      PROVE  Further(c) = [id |-> c.id, step |-> c.step, left |-> c.left, owner |-> c.owner,
                           view |-> c.view, pos |-> c.pos + 1, files |-> files,
                           unseen |-> c.unseen]
  <2>1. PICK pos : pos = c.pos + 1
    OBVIOUS
  <2>2. PICK d : d = [read EXCEPT !.pos = pos]
    OBVIOUS
  <2>3. d = [id |-> c.id, step |-> c.step, left |-> c.left, owner |-> c.owner,
             view |-> c.view, pos |-> pos, files |-> files, unseen |-> c.unseen]
    BY <1>3, <2>2
  <2>4. read.pos = c.pos
    BY <1>3
  <2>5. d = Further(c)
    BY <1>2, <1>5, <2>1, <2>2, <2>4, Zenon DEF Further
  <2> QED BY <2>1, <2>3, <2>5, Zenon
<1> QED BY <1>4, <1>5

LEMMA StepAndFilesChanged ==
    ASSUME NEW c \in Collectors, NEW step, NEW files,
           NEW d, d = [c EXCEPT !.step = step, !.files = files]
    PROVE  d = [id |-> c.id, step |-> step, left |-> c.left, owner |-> c.owner,
                view |-> c.view, pos |-> c.pos, files |-> files, unseen |-> c.unseen]
<1>1. c = [id |-> c.id, step |-> c.step, left |-> c.left, owner |-> c.owner,
           view |-> c.view, pos |-> c.pos, files |-> c.files, unseen |-> c.unseen]
      BY CollectorFields
<1> QED BY <1>1

\* A collector that starts has everything to read.
LEMMA StartedProper ==
    ASSUME NEW id \in 1 .. MaxTxs, NEW r PROVE Started(id) \in Collectors /\ Proper(Started(id), r)
<1>1. PICK c : c = Started(id)
  OBVIOUS
<1>2. c \in Collectors
  BY <1>1 DEF Started, Collectors
<1>3. /\ c.view = <<>> /\ c.pos = 1 /\ c.step = "registry" /\ c.left = Owners
  BY <1>1 DEF Started
<1> QED BY <1>1, <1>2, <1>3, FileAssumption DEF Proper

\* When the list it ranges over changes in place, what a collector then reads twice, or not at all,
\* it is excused not to read.
LEMMA ShiftedProper ==
    ASSUME NEW r, NEW q, NEW c \in Collectors, Proper(c, r), c.owner \in Owners,
           NEW old \in Seq(FileData), old = r[c.owner],
           NEW new \in Seq(FileData), new = q[c.owner]
    PROVE  Shifted(c, old, new) \in Collectors /\ Proper(Shifted(c, old, new), q)
<1>1. PICK d : d = Shifted(c, old, new)
  OBVIOUS
<1>2. PICK view : view = [j \in DOMAIN c.view |-> IF j \in DOMAIN new THEN new[j].file ELSE c.view[j]]
  OBVIOUS
<1>3. PICK moved : moved = Moved(old, new)
  OBVIOUS
<1>4. /\ \A j \in DOMAIN c.view : c.view[j] \in Files
      /\ \A j \in DOMAIN old : old[j].file \in Files
      /\ \A j \in DOMAIN new : new[j].file \in Files
  <2>1. \A j \in DOMAIN c.view : c.view[j] \in Files
    BY CollectorFields
  <2> QED BY <2>1, FilesOfList
<1>5. /\ view \in Seq(Files) /\ Len(view) = Len(c.view) /\ DOMAIN view = DOMAIN c.view
      /\ view = <<>> <=> c.view = <<>>
  <2>1. DOMAIN c.view = 1 .. Len(c.view) /\ Len(c.view) \in Nat
    BY CollectorFields
  <2>2. view \in [1 .. Len(c.view) -> Files]
    BY <1>2, <1>4, <2>1
  <2>3. view \in Seq(Files) /\ Len(view) = Len(c.view)
    BY <2>1, <2>2, ArrayIsSequence
  <2>4. c.view \in Seq(Files)
    BY CollectorFields
  <2> QED BY <2>1, <2>2, <2>3, <2>4
<1>6. /\ moved \subseteq Files
      /\ \A j \in DOMAIN old : (j \in DOMAIN new => new[j].file # old[j].file) => old[j].file \in moved
  BY <1>3, <1>4 DEF Moved
<1>7. d = [id |-> c.id, step |-> c.step, left |-> c.left, owner |-> c.owner,
           view |-> view, pos |-> c.pos, files |-> c.files, unseen |-> c.unseen \cup moved]
  <2>1. PICK unseen : unseen = c.unseen \cup moved
    OBVIOUS
  <2>2. d = [c EXCEPT !.view = view, !.unseen = unseen]
    BY <1>1, <1>2, <1>3, <2>1, Zenon DEF Shifted
  <2> QED BY <2>1, <2>2, ViewAndUnseenChanged
<1>8. d \in Collectors
  BY <1>5, <1>6, <1>7, CollectorFields DEF Collectors
<1>9. /\ d.view = view /\ d.pos = c.pos /\ d.owner = c.owner /\ d.step = c.step /\ d.left = c.left
      /\ d.files = c.files /\ d.unseen = c.unseen \cup moved
  BY <1>7
<1>10. ASSUME c.view # <<>>
       PROVE  /\ c.pos <= Len(view)
              /\ \A j \in DOMAIN view :
                    IF j \in DOMAIN new THEN view[j] = new[j].file ELSE view[j] \in c.unseen \cup moved
  <2>1. c.pos <= Len(view)
    BY <1>5, <1>10 DEF Proper
  <2>2. ASSUME NEW j \in DOMAIN view, j \notin DOMAIN new PROVE view[j] \in c.unseen \cup moved
    BY <1>2, <1>5, <1>6, <1>10, <2>2 DEF Proper
  <2> QED BY <1>2, <1>5, <2>1, <2>2
<1>11. ASSUME NEW f \in Ahead(c), f \notin c.unseen \cup moved PROVE f \in Ahead(d)
  <2>1. PICK j \in c.pos .. Len(c.view) : f = c.view[j]
    BY <1>11 DEF Ahead
  <2>2. j \in DOMAIN c.view /\ c.view # <<>>
    BY <2>1, CollectorFields
  <2>3. view[j] = f
    BY <1>2, <1>6, <1>11, <2>1, <2>2 DEF Proper
  <2> QED BY <1>5, <1>9, <2>1, <2>3 DEF Ahead
<1>12. Proper(d, q)
  <2>1. d.view = <<>> => d.pos = 1
    BY <1>5, <1>9 DEF Proper
  <2>2. d.view # <<>> =>
           /\ d.owner \in Owners /\ d.pos <= Len(d.view)
           /\ \A j \in DOMAIN d.view :
                 IF j \in DOMAIN q[d.owner] THEN d.view[j] = q[d.owner][j].file ELSE d.view[j] \in d.unseen
    BY <1>5, <1>9, <1>10
  <2>3. d.step = "registry" =>
           \A f \in Files : OwnerOf[f] \notin d.left => f \in d.files \cup d.unseen \cup Ahead(d)
    BY <1>9, <1>11 DEF Proper
  <2>4. d.step = "delete" => d.files \subseteq d.unseen
    BY <1>9 DEF Proper
  <2> QED BY <2>1, <2>2, <2>3, <2>4 DEF Proper
<1> QED BY <1>1, <1>8, <1>12

\* What an update leaves of the collectors of a node.
LEMMA DisturbedProper ==
    ASSUME Types, NEW n \in Nodes, NEW t \in Transactions, NEW x \in Disturbed(n, t)
    PROVE  x \in Collectors /\ Proper(x, Updated(registry[n], t))
<1>1. PICK r, q : r = registry[n] /\ q = Updated(r, t)
  OBVIOUS
<1>2. Good(r)
  BY <1>1 DEF Types, RegistryTypes, EntriesUnique, Good
<1>3. /\ t.owner \in Owners /\ r[t.owner] \in Seq(FileData) /\ q[t.owner] \in Seq(FileData)
      /\ \A v \in Owners : v # t.owner => q[v] = r[v]
  BY <1>1, <1>2, OneListUpdated
<1>4. PICK c \in collectors[n] :
         x = IF c.owner = t.owner THEN Shifted(c, r[t.owner], q[t.owner]) ELSE c
  BY <1>1 DEF Disturbed
<1>5. c \in Collectors /\ Proper(c, r)
  BY <1>1 DEF Types, CollectorTypes
<1>6. CASE c.owner = t.owner
  BY <1>1, <1>3, <1>4, <1>5, <1>6, ShiftedProper
<1>7. CASE c.owner # t.owner
  <2>1. c.view # <<>> => q[c.owner] = r[c.owner]
    BY <1>3, <1>5, <1>7 DEF Proper
  <2> QED BY <1>1, <1>4, <1>5, <1>7, <2>1 DEF Proper
<1> QED BY <1>6, <1>7

\* A collector goes on, or ends.
LEMMA CollectorsReplaced ==
    ASSUME CollectorTypes, NEW n \in Nodes, NEW c, NEW d, \A x \in d : x \in Collectors,
           \A x \in d : Proper(x, registry[n]), Becomes(n, c, d)
    PROVE  /\ collectors' \in [Nodes -> SUBSET Collectors]
           /\ \A k \in Nodes : \A x \in collectors'[k] : Proper(x, registry'[k])
<1>1. collectors' = [collectors EXCEPT ![n] = (@ \ {c}) \cup d] /\ registry' = registry
  BY DEF Becomes, registryVars
<1>2. collectors' \in [Nodes -> SUBSET Collectors]
  BY <1>1 DEF CollectorTypes
<1>3. \A k \in Nodes : \A x \in collectors'[k] : x \in collectors[k] \/ (k = n /\ x \in d)
  BY <1>1 DEF CollectorTypes
<1> QED BY <1>1, <1>2, <1>3 DEF CollectorTypes

\* The first step at a list: what is not in it is unlisted.
LEMMA ListReached ==
    ASSUME Types, NEW n \in Nodes, NEW c \in collectors[n], c.step = "registry", c.view = <<>>,
           NEW u \in c.left
    PROVE  /\ Reached(c, u, registry[n][u]) \in Collectors
           /\ Proper(Reached(c, u, registry[n][u]), registry[n])
<1>1. PICK list, view, owner, unlisted, unseen :
         /\ list = registry[n][u] /\ view = [j \in DOMAIN list |-> list[j].file]
         /\ owner = (IF list = <<>> THEN None ELSE u)
         /\ unlisted = FilesOf(u) \ Listed(list) /\ unseen = c.unseen \cup unlisted
  OBVIOUS
<1>2. PICK d : d = Reached(c, u, list)
  OBVIOUS
<1>3. c \in Collectors /\ Proper(c, registry[n])
  BY DEF Types, CollectorTypes
<1>4. /\ d.view = view /\ d.pos = c.pos /\ d.owner = owner /\ d.step = "registry"
      /\ d.left = c.left \ {u} /\ d.files = c.files /\ d.unseen = unseen
      /\ d = [id |-> c.id, step |-> c.step, left |-> c.left \ {u}, owner |-> owner,
              view |-> view, pos |-> c.pos, files |-> c.files, unseen |-> unseen]
  <2>1. d = [id |-> c.id, step |-> c.step, left |-> c.left \ {u},
             owner |-> IF list = <<>> THEN None ELSE u,
             view |-> [j \in DOMAIN list |-> list[j].file], pos |-> c.pos, files |-> c.files,
             unseen |-> c.unseen \cup (FilesOf(u) \ Listed(list))]
    BY <1>2, <1>3, ReachedFields
  <2>2. d = [id |-> c.id, step |-> c.step, left |-> c.left \ {u}, owner |-> owner,
             view |-> view, pos |-> c.pos, files |-> c.files, unseen |-> unseen]
    BY <1>1, <2>1, Zenon
  <2> QED BY <2>2
<1>5. u \in Owners /\ list \in Seq(FileData)
  <2>1. u \in Owners
    BY <1>3, CollectorFields
  <2> QED BY <1>1, <2>1 DEF Types, RegistryTypes, Registries
<1>6. /\ DOMAIN list = 1 .. Len(list) /\ Len(list) \in Nat
      /\ \A j \in DOMAIN list : list[j].file \in Files
  BY <1>5, FilesOfList
<1>7. view \in Seq(Files) /\ Len(view) = Len(list) /\ DOMAIN view = DOMAIN list
  <2>1. view \in [1 .. Len(list) -> Files]
    BY <1>1, <1>6
  <2> QED BY <1>6, <2>1, ArrayIsSequence
<1>8. unseen \subseteq Files /\ owner \in Owners \cup {None}
  BY <1>1, <1>3, <1>5, CollectorFields DEF FilesOf
<1>9. d \in Collectors
  BY <1>3, <1>4, <1>7, <1>8, CollectorFields DEF Collectors
<1>10. c.pos = 1 /\ Ahead(c) = {}
  BY <1>3 DEF Proper, Ahead
<1>11. view # <<>> => /\ owner = u /\ 1 <= Len(view)
                       /\ \A j \in DOMAIN view : j \in DOMAIN list /\ view[j] = list[j].file
  <2>1. view # <<>> => list # <<>> /\ 1 <= Len(view)
    BY <1>5, <1>6, <1>7
  <2> QED BY <1>1, <1>7, <2>1
<1>12. ASSUME NEW f \in Files, OwnerOf[f] = u, f \notin unlisted PROVE f \in Ahead(d)
  <2>1. f \in Listed(list)
    BY <1>1, <1>12 DEF FilesOf
  <2>2. PICK j \in DOMAIN list : f = list[j].file
    BY <2>1 DEF Listed
  <2>3. j \in 1 .. Len(view) /\ f = view[j]
    BY <1>1, <1>6, <1>7, <2>2
  <2> QED BY <1>4, <1>10, <2>3 DEF Ahead
<1>13. ASSUME NEW f \in Files, OwnerOf[f] \notin d.left
       PROVE  f \in d.files \cup d.unseen \cup Ahead(d)
  <2>1. CASE OwnerOf[f] = u
    BY <1>1, <1>4, <1>12, <2>1
  <2>2. CASE OwnerOf[f] # u
    <3>1. f \in c.files \cup c.unseen \cup Ahead(c)
      BY <1>3, <1>4, <1>13, <2>2 DEF Proper
    <3> QED BY <1>1, <1>4, <1>10, <3>1
  <2> QED BY <2>1, <2>2
<1>14. Proper(d, registry[n])
  <2>1. d.view # <<>> =>
           /\ d.owner \in Owners /\ d.pos <= Len(d.view)
           /\ \A j \in DOMAIN d.view : j \in DOMAIN list /\ d.view[j] = list[j].file
           /\ list = registry[n][d.owner]
    <3>1. CASE view = <<>>
      BY <1>4, <3>1
    <3>2. CASE view # <<>>
      <4>1. owner = u /\ 1 <= Len(view)
        BY <1>11, <3>2
      <4> QED BY <1>1, <1>4, <1>5, <1>10, <1>11, <3>2, <4>1
    <3> QED BY <3>1, <3>2
  <2> QED BY <1>4, <1>10, <1>13, <2>1 DEF Proper
<1> QED BY <1>1, <1>2, <1>9, <1>14

\* The next entry of the list it ranges over, or the end of it.
LEMMA EntryRead ==
    ASSUME Types, NEW n \in Nodes, NEW c \in collectors[n], c.step = "registry", c.view # <<>>
    PROVE  Further(c) \in Collectors /\ Proper(Further(c), registry[n])
<1>1. PICK d, f, files : d = Further(c) /\ f = c.view[c.pos] /\ files = c.files \cup {f}
  OBVIOUS
<1>2. c \in Collectors /\ Proper(c, registry[n])
  BY DEF Types, CollectorTypes
<1>3. c.pos \in Nat /\ 1 <= c.pos /\ c.pos <= Len(c.view) /\ Len(c.view) \in Nat
  BY <1>2, CollectorFields DEF Proper
<1>4. f \in Files /\ files \subseteq Files
  BY <1>1, <1>2, <1>3, CollectorFields
<1>5. ASSUME c.pos = Len(c.view) PROVE d \in Collectors /\ Proper(d, registry[n])
  <2>1. d = [id |-> c.id, step |-> c.step, left |-> c.left, owner |-> None,
             view |-> <<>>, pos |-> 1, files |-> files, unseen |-> c.unseen]
    BY <1>1, <1>2, <1>5, FurtherFields, Zenon
  <2>2. d \in Collectors
    BY <1>2, <1>4, <2>1, CollectorFields DEF Collectors
  <2>3. /\ d.view = <<>> /\ d.pos = 1 /\ d.step = "registry" /\ d.left = c.left
        /\ d.files = files /\ d.unseen = c.unseen
    BY <2>1
  <2>4. Ahead(c) \subseteq {f}
    BY <1>1, <1>3, <1>5 DEF Ahead
  <2>5. \A g \in Files : OwnerOf[g] \notin d.left => g \in d.files \cup d.unseen \cup Ahead(d)
    BY <1>1, <1>2, <2>3, <2>4 DEF Proper
  <2> QED BY <2>2, <2>3, <2>5 DEF Proper
<1>6. ASSUME c.pos # Len(c.view) PROVE d \in Collectors /\ Proper(d, registry[n])
  <2>1. d = [id |-> c.id, step |-> c.step, left |-> c.left, owner |-> c.owner,
             view |-> c.view, pos |-> c.pos + 1, files |-> files, unseen |-> c.unseen]
    BY <1>1, <1>2, <1>6, FurtherFields, Zenon
  <2>2. d \in Collectors
    BY <1>2, <1>3, <1>4, <2>1, CollectorFields DEF Collectors
  <2>3. /\ d.view = c.view /\ d.pos = c.pos + 1 /\ d.step = "registry" /\ d.left = c.left
        /\ d.files = files /\ d.unseen = c.unseen /\ d.owner = c.owner
    BY <2>1
  <2>4. Ahead(c) \subseteq {f} \cup Ahead(d)
    <3>1. ASSUME NEW j \in c.pos .. Len(c.view) PROVE j = c.pos \/ j \in c.pos + 1 .. Len(c.view)
      BY <1>3
    <3> QED BY <1>1, <2>3, <3>1 DEF Ahead
  <2>5. \A g \in Files : OwnerOf[g] \notin d.left => g \in d.files \cup d.unseen \cup Ahead(d)
    BY <1>1, <1>2, <2>3, <2>4 DEF Proper
  <2>6. c.pos + 1 <= Len(c.view)
    BY <1>3, <1>6
  <2> QED BY <1>2, <2>2, <2>3, <2>5, <2>6 DEF Proper
<1> QED BY <1>1, <1>5, <1>6

\* A collector that removes removes what it was excused not to read.
LEMMA RemovingProper ==
    ASSUME NEW c \in Collectors, NEW r, Proper(c, r), NEW S, S \subseteq c.unseen,
           NEW d \in Removing(c, S)
    PROVE  d \in Collectors /\ Proper(d, r)
<1>1. d = [id |-> c.id, step |-> "delete", left |-> c.left, owner |-> c.owner,
           view |-> c.view, pos |-> c.pos, files |-> S, unseen |-> c.unseen]
  <2>1. PICK step : step = "delete"
    OBVIOUS
  <2>2. d = [c EXCEPT !.step = step, !.files = S]
    BY <2>1, Zenon DEF Removing
  <2> QED BY <2>1, <2>2, StepAndFilesChanged
<1>2. d \in Collectors
  BY <1>1, CollectorFields DEF Collectors
<1>3. /\ d.view = c.view /\ d.pos = c.pos /\ d.step = "delete" /\ d.owner = c.owner
      /\ d.files = S /\ d.unseen = c.unseen
  BY <1>1
<1> QED BY <1>2, <1>3 DEF Proper

\* When the registry is read, the files not read are excused.
LEMMA RestIsExcused ==
    ASSUME Types, NEW n \in Nodes, NEW c \in collectors[n], RegistryRead(c)
    PROVE  stored[n] \ c.files \subseteq c.unseen
<1>1. Proper(c, registry[n]) /\ stored[n] \subseteq Files
  BY DEF Types, CollectorTypes
<1>2. Ahead(c) = {}
  BY <1>1 DEF Proper, RegistryRead, Ahead
<1> QED BY <1>1, <1>2 DEF Proper, RegistryRead

LEMMA CollectorStep == Types /\ [Next]_vars => CollectorTypes'
<1> SUFFICES ASSUME Types, [Next]_vars PROVE CollectorTypes'
  OBVIOUS
<1>1. CASE UNCHANGED <<registry, collectorVars>>
  BY <1>1 DEF Types, collectorVars, CollectorTypes
<1>2. ASSUME NEW n \in Nodes, MoveFile(n) \/ MoveFileFails(n) PROVE CollectorTypes'
  <2>1. phase[n] = "move" /\ current[n] \in Files
    BY <1>2 DEF MoveFile, MoveFileFails, Proceed, Types, HandlerTypes
  <2>2. stored' \in [Nodes -> SUBSET Files]
    BY <1>2, <2>1 DEF MoveFile, MoveFileFails, Types, CollectorTypes
  <2>3. UNCHANGED <<registry, collectors, excused, stuck>>
    BY <1>2 DEF MoveFile, MoveFileFails, Proceed, registryVars
  <2> QED BY <2>2, <2>3 DEF Types, CollectorTypes
<1>3. ASSUME NEW n \in Nodes, NEW r, registry' = [registry EXCEPT ![n] = r],
             UNCHANGED <<stored, excused, stuck>>,
             NEW cs, collectors' = [collectors EXCEPT ![n] = cs],
             \A x \in cs : x \in Collectors /\ Proper(x, r)
      PROVE  CollectorTypes'
  <2>1. \A k \in Nodes : /\ k # n => registry'[k] = registry[k] /\ collectors'[k] = collectors[k]
                         /\ k = n => registry'[k] = r /\ collectors'[k] = cs
    BY <1>3 DEF Types, RegistryTypes, CollectorTypes
  <2>2. collectors' \in [Nodes -> SUBSET Collectors]
    <3>1. cs \in SUBSET Collectors
      BY <1>3
    <3> QED BY <1>3, <3>1 DEF Types, CollectorTypes
  <2>3. ASSUME NEW k \in Nodes, NEW x \in collectors'[k] PROVE Proper(x, registry'[k])
    BY <1>3, <2>1 DEF Types, CollectorTypes
  <2> QED BY <1>3, <2>2, <2>3 DEF Types, CollectorTypes
<1>4. ASSUME NEW n \in Nodes, UpdateFromBlock(n) PROVE CollectorTypes'
  <2>1. PICK t, r, new : /\ t = chain[applied[n] + 1] /\ r = Updated(registry[n], t)
                         /\ new = IF t.type = "delete" THEN {Started(applied[n] + 1)} ELSE {}
    OBVIOUS
  <2>2. t \in Transactions /\ applied[n] + 1 \in 1 .. MaxTxs
    BY <1>4, <2>1, NextGood DEF UpdateFromBlock
  <2>3. PICK cs : cs = Disturbed(n, t) \cup new
    OBVIOUS
  <2>4. /\ registry' = [registry EXCEPT ![n] = r] /\ UNCHANGED <<stored, excused, stuck>>
        /\ collectors' = [collectors EXCEPT ![n] = cs]
    BY <1>4, <2>1, <2>3, Zenon DEF UpdateFromBlock, Notified
  <2>5. \A x \in cs : x \in Collectors /\ Proper(x, r)
    BY <2>1, <2>2, <2>3, DisturbedProper, StartedProper
  <2> QED BY <1>3, <2>4, <2>5
<1>5. ASSUME NEW n \in Nodes, UpdateFromBlockFails(n) PROVE CollectorTypes'
  <2>1. PICK t, r, cs : /\ t = chain[applied[n] + 1] /\ r = Updated(registry[n], t)
                        /\ cs = Disturbed(n, t)
    OBVIOUS
  <2>2. t \in Transactions
    BY <1>5, <2>1, NextGood DEF UpdateFromBlockFails
  <2>3. /\ registry' = [registry EXCEPT ![n] = r] /\ UNCHANGED <<stored, excused, stuck>>
        /\ collectors' = [collectors EXCEPT ![n] = cs]
    BY <1>5, <2>1 DEF UpdateFromBlockFails
  <2>4. \A x \in cs : x \in Collectors /\ Proper(x, r)
    BY <2>1, <2>2, DisturbedProper
  <2> QED BY <1>3, <2>3, <2>4
<1>6. ASSUME NEW n \in Nodes, Restart(n) PROVE CollectorTypes'
  <2>1. /\ collectors' = [collectors EXCEPT ![n] = {}] /\ UNCHANGED <<stored, excused, stuck>>
        /\ registry' = [registry EXCEPT ![n] = saved[n]]
    BY <1>6 DEF Restart
  <2>2. \A k \in Nodes : /\ k # n => registry'[k] = registry[k] /\ collectors'[k] = collectors[k]
                         /\ k = n => collectors'[k] = {}
    BY <2>1 DEF Types, RegistryTypes, CollectorTypes
  <2>3. collectors' \in [Nodes -> SUBSET Collectors]
    BY <2>1 DEF Types, CollectorTypes
  <2> QED BY <2>1, <2>2, <2>3 DEF Types, CollectorTypes
<1>7. ASSUME NEW n \in Nodes, NEW c \in collectors[n], NEW d, Becomes(n, c, d),
             \A x \in d : x \in Collectors /\ Proper(x, registry[n]),
             stored' \in [Nodes -> SUBSET Files], excused' \in [Nodes -> SUBSET Files],
             stuck' \in [Nodes -> SUBSET Files]
      PROVE  CollectorTypes'
  BY <1>7, CollectorsReplaced DEF Types, CollectorTypes
<1>8. ASSUME NEW n \in Nodes, NEW c \in collectors[n], ReachList(n, c) PROVE CollectorTypes'
  <2>1. c.step = "registry" /\ c.view = <<>> /\ UNCHANGED <<stored, excused, stuck>>
    BY <1>8 DEF ReachList
  <2>2. PICK u \in c.left : Becomes(n, c, {Reached(c, u, registry[n][u])})
    BY <1>8 DEF ReachList
  <2>3. PICK d : d = Reached(c, u, registry[n][u])
    OBVIOUS
  <2>4. d \in Collectors /\ Proper(d, registry[n])
    BY <2>1, <2>3, ListReached
  <2> QED BY <1>7, <2>1, <2>2, <2>3, <2>4 DEF Types, CollectorTypes
<1>9. ASSUME NEW n \in Nodes, NEW c \in collectors[n], ReadEntry(n, c) PROVE CollectorTypes'
  <2>1. /\ c.step = "registry" /\ c.view # <<>> /\ UNCHANGED <<stored, excused, stuck>>
        /\ Becomes(n, c, {Further(c)})
    BY <1>9 DEF ReadEntry
  <2>2. PICK d : d = Further(c)
    OBVIOUS
  <2>3. d \in Collectors /\ Proper(d, registry[n])
    BY <2>1, <2>2, EntryRead
  <2> QED BY <1>7, <2>1, <2>2, <2>3 DEF Types, CollectorTypes
<1>10. ASSUME NEW n \in Nodes, NEW c \in collectors[n],
              ReadDirectory(n, c) \/ ReadDirectoryFails(n, c)
       PROVE  CollectorTypes'
  <2>1. PICK S : S = stored[n] \ c.files
    OBVIOUS
  <2>2. /\ RegistryRead(c) /\ UNCHANGED <<stored, excused>>
        /\ Becomes(n, c, Removing(c, S)) \/ Becomes(n, c, {})
        /\ stuck' = stuck \/ stuck' = [stuck EXCEPT ![n] = @ \cup S]
    BY <1>10, <2>1 DEF ReadDirectory, ReadDirectoryFails
  <2>3. S \subseteq Files /\ S \subseteq c.unseen /\ c \in Collectors /\ Proper(c, registry[n])
    BY <2>1, <2>2, RestIsExcused DEF Types, CollectorTypes
  <2>4. \A x \in Removing(c, S) : x \in Collectors /\ Proper(x, registry[n])
    BY <2>3, RemovingProper
  <2>5. stuck' \in [Nodes -> SUBSET Files]
    BY <2>2, <2>3 DEF Types, CollectorTypes
  <2> QED BY <1>7, <2>2, <2>4, <2>5 DEF Types, CollectorTypes
<1>11. ASSUME NEW n \in Nodes, NEW c \in collectors[n], RemoveNext(n, c) PROVE CollectorTypes'
  <2>1. PICK f \in c.files :
           /\ Becomes(n, c, Removing(c, c.files \ {f}))
           /\ \/ /\ stored' = [stored EXCEPT ![n] = @ \ {f}]
                 /\ excused' = [excused EXCEPT ![n] = @ \cup ({f} \cap c.unseen)]
                 /\ UNCHANGED stuck
              \/ /\ n \in Faulty
                 /\ stuck' = [stuck EXCEPT ![n] = @ \cup {f}]
                 /\ UNCHANGED <<stored, excused>>
    BY <1>11, Zenon DEF RemoveNext
  <2>2. /\ c \in Collectors /\ Proper(c, registry[n])
        /\ c.files \subseteq c.unseen /\ c.files \subseteq Files
    BY <1>11, CollectorFields DEF Types, CollectorTypes, Proper, RemoveNext
  <2>3. \A x \in Removing(c, c.files \ {f}) : x \in Collectors /\ Proper(x, registry[n])
    <3>1. c.files \ {f} \subseteq c.unseen
      BY <2>2
    <3> QED BY <2>2, <3>1, RemovingProper
  <2>4. /\ stored' \in [Nodes -> SUBSET Files] /\ excused' \in [Nodes -> SUBSET Files]
        /\ stuck' \in [Nodes -> SUBSET Files]
    BY <2>1, <2>2 DEF Types, CollectorTypes
  <2> QED BY <1>7, <2>1, <2>3, <2>4
<1>12. ASSUME NEW n \in Nodes, NodeStep(n) PROVE CollectorTypes'
  <2>1. CASE HandlerStep(n)
    <3>1. MoveFile(n) \/ MoveFileFails(n) \/ UNCHANGED <<registryVars, collectorVars>>
      BY <2>1, Zenon
         DEF HandlerStep, RefuseAnnouncement, AcceptAnnouncement, Fetch, FetchFails, PinFile,
             PinFileFails, SendToPublisher, Proceed
    <3> QED BY <1>1, <1>2, <3>1 DEF registryVars
  <2>2. CASE PublishResponse(n)
    BY <1>1, <2>2, Zenon DEF PublishResponse, registryVars
  <2>3. CASE CollectSome(n)
    BY <1>8, <1>9, <1>10, <1>11, <2>3 DEF CollectSome, Collect
  <2> QED BY <1>4, <1>5, <1>6, <1>12, <2>1, <2>2, <2>3 DEF NodeStep
<1>13. CASE \/ \E f \in Files : SendFile(f)
            \/ \E u \in Owners : ClientStep(u)
            \/ Mine
            \/ UNCHANGED vars
  <2>1. UNCHANGED <<registryVars, collectorVars>>
    BY <1>13, Zenon DEF ClientStep, SendFile, ReceiveFiles, DeleteFile, Mine, vars
  <2> QED BY <1>1, <2>1 DEF registryVars
<1> QED BY <1>12, <1>13 DEF Next

LEMMA TypesInvariant == Spec => []Types
<1>1. Types /\ [Next]_vars => Types'
  BY NetworkStep, HandlerStepTypes, RegistryStep, CollectorStep DEF Types
<1> QED BY TypesInit, <1>1, PTL DEF Spec

\* The type invariant; the announcement handler holds a file exactly while it is not idle.
THEOREM TypeCorrect == Spec => []TypeOK
<1>1. Types => TypeOK
  BY DEF Types, NetworkTypes, HandlerTypes, RegistryTypes, CollectorTypes, TypeOK
<1> QED BY <1>1, TypesInvariant, PTL

\* Add and Delete of the file registry, in memory and as saved, keep one entry per file, under
\* its owner, for any blocks, and through failed saves and restarts.
THEOREM RegistryUnique == Spec => []EntriesUnique
<1>1. Types => EntriesUnique
  BY DEF Types, RegistryTypes
<1> QED BY <1>1, TypesInvariant, PTL

-----------------------------------------------------------------------------
(* A node that is named as a provider has the file.  What a node has, it never loses: nothing   *)
(* unpins, and a collector only removes what it did not find in the registry, or was excused    *)
(* not to find there.                                                                          *)

Kept(n, f) == f \in stored[n] \cup excused[n]

Backed(n, f) == Holds(n, f) /\ Kept(n, f)

Grows ==
    \A n \in Nodes :
        /\ cached[n] \subseteq cached'[n]
        /\ pinned[n] \subseteq pinned'[n]
        /\ stored[n] \cup excused[n] \subseteq stored'[n] \cup excused'[n]

\* What the handler has done for its file when it comes to a phase.
Prepared ==
    \A n \in Nodes :
        /\ phase[n] \in {"move", "pin", "send"} => current[n] \in cached[n]
        /\ phase[n] \in {"pin", "send"} => Kept(n, current[n])
        /\ phase[n] = "send" => current[n] \in pinned[n]
        /\ publisher[n] # None => Backed(n, publisher[n])

ResponsesBacked ==
    \A t \in published : t.type = "add" => Backed(t.node, t.file)

BackedRegistry(r) ==
    \A u \in Owners : \A i \in DOMAIN r[u] : \A p \in Providers(r, u, i) : Backed(p, r[u][i].file)

RegistriesBacked ==
    \A n \in Nodes : /\ BackedRegistry(registry[n])
                     /\ saved[n] = None \/ BackedRegistry(saved[n])

LEMMA DatastoreGrows ==
    Types /\ [Next]_vars => \A n \in Nodes : cached[n] \subseteq cached'[n] /\ pinned[n] \subseteq pinned'[n]
<1> SUFFICES ASSUME Types, [Next]_vars, NEW n \in Nodes
             PROVE  cached[n] \subseteq cached'[n] /\ pinned[n] \subseteq pinned'[n]
  OBVIOUS
<1> USE DEF Types, HandlerTypes
<1>1. CASE UNCHANGED <<cached, pinned>>
  BY <1>1
<1>2. ASSUME NEW k \in Nodes, Fetch(k) \/ FetchFails(k) \/ PinFile(k) \/ PinFileFails(k)
      PROVE  cached[n] \subseteq cached'[n] /\ pinned[n] \subseteq pinned'[n]
  BY <1>2 DEF Fetch, FetchFails, PinFile, PinFileFails
<1>3. ASSUME NEW k \in Nodes, NodeStep(k)
      PROVE  cached[n] \subseteq cached'[n] /\ pinned[n] \subseteq pinned'[n]
  <2>1. CASE HandlerStep(k)
    <3>1. \/ Fetch(k) \/ FetchFails(k) \/ PinFile(k) \/ PinFileFails(k)
          \/ UNCHANGED <<cached, pinned>>
      BY <2>1, Zenon
         DEF HandlerStep, RefuseAnnouncement, AcceptAnnouncement, MoveFile, MoveFileFails,
             SendToPublisher
    <3> QED BY <1>1, <1>2, <3>1
  <2>2. CASE \/ PublishResponse(k) \/ UpdateFromBlock(k) \/ UpdateFromBlockFails(k)
             \/ CollectSome(k) \/ Restart(k)
    BY <1>1, <2>2, Zenon
       DEF PublishResponse, UpdateFromBlock, UpdateFromBlockFails, CollectSome, Collect,
           ReachList, ReadEntry, ReadDirectory, ReadDirectoryFails, RemoveNext, Becomes, Restart, handlerVars
  <2> QED BY <1>3, <2>1, <2>2 DEF NodeStep
<1>4. CASE \/ \E f \in Files : SendFile(f)
           \/ \E u \in Owners : ClientStep(u)
           \/ Mine
           \/ UNCHANGED vars
  BY <1>1, <1>4, Zenon
     DEF ClientStep, SendFile, ReceiveFiles, DeleteFile, Mine, vars, handlerVars
<1> QED BY <1>3, <1>4 DEF Next

LEMMA CopiesKept ==
    Types /\ [Next]_vars =>
        \A n \in Nodes : stored[n] \cup excused[n] \subseteq stored'[n] \cup excused'[n]
<1> SUFFICES ASSUME Types, [Next]_vars, NEW n \in Nodes
             PROVE  stored[n] \cup excused[n] \subseteq stored'[n] \cup excused'[n]
  OBVIOUS
<1> USE DEF Types, CollectorTypes
<1>1. CASE UNCHANGED <<stored, excused>>
  BY <1>1
<1>2. ASSUME NEW k \in Nodes, MoveFile(k) \/ MoveFileFails(k)
      PROVE  stored[n] \cup excused[n] \subseteq stored'[n] \cup excused'[n]
  BY <1>2 DEF MoveFile, MoveFileFails
<1>3. ASSUME NEW k \in Nodes, NEW c \in collectors[k], RemoveNext(k, c)
      PROVE  stored[n] \cup excused[n] \subseteq stored'[n] \cup excused'[n]
  <2>1. PICK f \in c.files :
           \/ /\ stored' = [stored EXCEPT ![k] = @ \ {f}]
              /\ excused' = [excused EXCEPT ![k] = @ \cup ({f} \cap c.unseen)]
           \/ UNCHANGED <<stored, excused>>
    BY <1>3, Zenon DEF RemoveNext
  <2>2. f \in c.unseen
    BY <1>3, <2>1 DEF Proper, RemoveNext
  <2> QED BY <2>1, <2>2
<1>4. ASSUME NEW k \in Nodes, NodeStep(k)
      PROVE  stored[n] \cup excused[n] \subseteq stored'[n] \cup excused'[n]
  <2>1. CASE HandlerStep(k)
    <3>1. MoveFile(k) \/ MoveFileFails(k) \/ UNCHANGED <<stored, excused>>
      BY <2>1, Zenon
         DEF HandlerStep, RefuseAnnouncement, AcceptAnnouncement, Fetch, FetchFails, PinFile,
             PinFileFails, SendToPublisher, collectorVars
    <3> QED BY <1>1, <1>2, <3>1
  <2>2. CASE PublishResponse(k) \/ UpdateFromBlock(k) \/ UpdateFromBlockFails(k) \/ Restart(k)
    BY <1>1, <2>2, Zenon
       DEF PublishResponse, UpdateFromBlock, UpdateFromBlockFails, Restart, collectorVars
  <2>3. CASE CollectSome(k)
    BY <1>1, <1>3, <2>3, Zenon DEF CollectSome, Collect, ReachList, ReadEntry, ReadDirectory, ReadDirectoryFails
  <2> QED BY <1>4, <2>1, <2>2, <2>3 DEF NodeStep
<1>5. CASE \/ \E f \in Files : SendFile(f)
           \/ \E u \in Owners : ClientStep(u)
           \/ Mine
           \/ UNCHANGED vars
  BY <1>1, <1>5, Zenon
     DEF ClientStep, SendFile, ReceiveFiles, DeleteFile, Mine, vars, collectorVars
<1> QED BY <1>4, <1>5 DEF Next

LEMMA NodesGrow == Types /\ [Next]_vars => Grows
BY DatastoreGrows, CopiesKept DEF Grows

LEMMA PreparedStep == Types /\ [Next]_vars /\ Grows /\ Prepared => Prepared'
<1> SUFFICES ASSUME Types, [Next]_vars, Grows, Prepared PROVE Prepared'
  OBVIOUS
<1> USE DEF Types, HandlerTypes, Grows, Prepared, Kept, Backed, Holds
<1>1. CASE UNCHANGED <<phase, current, publisher>>
  BY <1>1
<1>2. ASSUME NEW n \in Nodes, NEW f \in Files, AcceptAnnouncement(n, f) PROVE Prepared'
  BY <1>2 DEF AcceptAnnouncement
<1>3. ASSUME NEW n \in Nodes, Fetch(n) PROVE Prepared'
  BY <1>3 DEF Fetch, Proceed
<1>4. ASSUME NEW n \in Nodes, MoveFile(n) PROVE Prepared'
  <2>1. current[n] \in stored'[n]
    BY <1>4 DEF MoveFile, CollectorTypes
  <2> QED BY <1>4, <2>1 DEF MoveFile, Proceed
<1>5. ASSUME NEW n \in Nodes, PinFile(n) PROVE Prepared'
  BY <1>5 DEF PinFile, Proceed
<1>6. ASSUME NEW n \in Nodes, FetchFails(n) \/ MoveFileFails(n) \/ PinFileFails(n) PROVE Prepared'
  <2>1. /\ phase' = [phase EXCEPT ![n] = "idle"]
        /\ \A k \in Nodes : k # n => current'[k] = current[k]
        /\ UNCHANGED publisher
    BY <1>6 DEF FetchFails, MoveFileFails, PinFileFails, Proceed
  <2> QED BY <2>1
<1>7. ASSUME NEW n \in Nodes, SendToPublisher(n) PROVE Prepared'
  BY <1>7 DEF SendToPublisher, Proceed
<1>8. ASSUME NEW n \in Nodes, PublishResponse(n) PROVE Prepared'
  BY <1>8 DEF PublishResponse
<1>9. ASSUME NEW n \in Nodes, Restart(n) PROVE Prepared'
  BY <1>9 DEF Restart
<1>10. ASSUME NEW n \in Nodes, NodeStep(n) PROVE Prepared'
  <2>1. CASE UpdateFromBlock(n) \/ UpdateFromBlockFails(n) \/ CollectSome(n)
    <3>1. UNCHANGED handlerVars
      BY <2>1, Zenon
         DEF UpdateFromBlock, UpdateFromBlockFails, CollectSome, Collect, ReachList, ReadEntry,
           ReadDirectory, ReadDirectoryFails, RemoveNext, Becomes
    <3> QED BY <1>1, <3>1 DEF handlerVars
  <2>2. ASSUME NEW f \in Files, RefuseAnnouncement(n, f) PROVE Prepared'
    BY <1>1, <2>2 DEF RefuseAnnouncement
  <2>3. CASE HandlerStep(n)
    BY <1>2, <1>3, <1>4, <1>5, <1>6, <1>7, <2>2, <2>3 DEF HandlerStep
  <2> QED BY <1>8, <1>9, <1>10, <2>1, <2>3 DEF NodeStep
<1>11. CASE \/ \E f \in Files : SendFile(f)
            \/ \E u \in Owners : ClientStep(u)
            \/ Mine
            \/ UNCHANGED vars
  <2>1. UNCHANGED handlerVars
    BY <1>11, Zenon DEF ClientStep, SendFile, ReceiveFiles, DeleteFile, Mine, vars
  <2> QED BY <1>1, <2>1 DEF handlerVars
<1> QED BY <1>10, <1>11 DEF Next

LEMMA ResponsesStep ==
    Types /\ [Next]_vars /\ Grows /\ Prepared /\ ResponsesBacked => ResponsesBacked'
<1> SUFFICES ASSUME Types, [Next]_vars, Grows, Prepared, ResponsesBacked,
                    NEW t \in published', t.type = "add"
             PROVE  Backed(t.node, t.file)'
  BY DEF ResponsesBacked
<1>1. CASE t \in published
  <2>1. Backed(t.node, t.file)
    BY <1>1 DEF ResponsesBacked
  <2>2. t.node \in Nodes
    BY <1>1 DEF Types, NetworkTypes, Transactions, AddTransactions, AddTransaction,
                DeleteTransactions, DeleteTransaction
  <2> QED BY <2>1, <2>2 DEF Grows, Backed, Holds, Kept
<1>2. ASSUME NEW n \in Nodes, PublishResponse(n), t = AddTransaction(publisher[n], n)
      PROVE  Backed(t.node, t.file)'
  <2>1. t.node = n /\ t.file = publisher[n]
    BY <1>2 DEF AddTransaction
  <2>2. Backed(n, publisher[n])
    BY <1>2 DEF PublishResponse, Prepared
  <2> QED BY <2>1, <2>2 DEF Grows, Backed, Holds, Kept
<1>3. ASSUME NEW u \in Owners, NEW f \in Files, DeleteFile(u, f) PROVE t \in published
  BY <1>3 DEF DeleteFile, DeleteTransaction
<1>4. CASE UNCHANGED published
  BY <1>1, <1>4
<1>5. ASSUME NEW n \in Nodes, NodeStep(n) PROVE Backed(t.node, t.file)'
  <2>1. CASE HandlerStep(n) \/ CollectSome(n)
    <3>1. UNCHANGED networkVars
      BY <2>1, Zenon
         DEF HandlerStep, RefuseAnnouncement, AcceptAnnouncement, Fetch, FetchFails, MoveFile,
             MoveFileFails, PinFile, PinFileFails, SendToPublisher, Proceed,
             CollectSome, Collect, ReachList, ReadEntry,
           ReadDirectory, ReadDirectoryFails, RemoveNext, Becomes
    <3> QED BY <1>4, <3>1 DEF networkVars
  <2>2. CASE UpdateFromBlock(n) \/ UpdateFromBlockFails(n) \/ Restart(n)
    BY <1>4, <2>2 DEF UpdateFromBlock, UpdateFromBlockFails, Restart, networkVars
  <2>3. CASE PublishResponse(n)
    BY <1>1, <1>2, <2>3 DEF PublishResponse
  <2> QED BY <1>5, <2>1, <2>2, <2>3 DEF NodeStep
<1>6. ASSUME NEW u \in Owners, ClientStep(u) PROVE Backed(t.node, t.file)'
  BY <1>1, <1>3, <1>4, <1>6 DEF ClientStep, ReceiveFiles, networkVars
<1>7. CASE (\E f \in Files : SendFile(f)) \/ Mine \/ UNCHANGED vars
  BY <1>4, <1>7 DEF SendFile, Mine, vars, networkVars
<1> QED BY <1>5, <1>6, <1>7 DEF Next

LEMMA EntryTypes ==
    ASSUME NEW r \in Registries, NEW u \in Owners, NEW i \in DOMAIN r[u], NEW p \in Providers(r, u, i)
    PROVE  p \in Nodes /\ r[u][i].file \in Files
<1>1. r[u] \in Seq(FileData)
  BY DEF Registries
<1>2. r[u][i] \in FileData
  BY <1>1
<1>3. r[u][i].file \in Files /\ r[u][i].providers \in Seq(Nodes)
  BY <1>2 DEF FileData
<1> QED BY <1>3 DEF Providers

LEMMA BackedStays ==
    ASSUME Grows, NEW r \in Registries, BackedRegistry(r) PROVE BackedRegistry(r)'
<1> SUFFICES ASSUME NEW u \in Owners, NEW i \in DOMAIN r[u], NEW p \in Providers(r, u, i)
             PROVE  Backed(p, r[u][i].file)'
  BY DEF BackedRegistry, Providers
<1>1. Backed(p, r[u][i].file)
  BY DEF BackedRegistry
<1>2. p \in Nodes
  BY EntryTypes
<1> QED BY <1>1, <1>2 DEF Grows, Backed, Holds, Kept

LEMMA UpdatedBacked ==
    ASSUME Types, ResponsesBacked, NEW n \in Nodes, BackedRegistry(registry[n]), applied[n] < Len(chain)
    PROVE  BackedRegistry(Updated(registry[n], chain[applied[n] + 1]))
<1>1. PICK t : t = chain[applied[n] + 1]
  OBVIOUS
<1>2. PICK r : r = registry[n]
  OBVIOUS
<1>3. t \in Transactions /\ t \in published /\ Good(r)
  BY <1>1, <1>2, NextGood
<1>4. BackedRegistry(r)
  BY <1>2
<1>5. SUFFICES ASSUME NEW u \in Owners, NEW i \in DOMAIN Updated(r, t)[u],
                      NEW p \in Providers(Updated(r, t), u, i)
               PROVE  Backed(p, Updated(r, t)[u][i].file)
  BY <1>1, <1>2 DEF BackedRegistry
<1>6. CASE FromBefore(Updated(r, t), r, u, i, p)
  BY <1>4, <1>6 DEF FromBefore, BackedRegistry
<1>7. CASE t.type = "add" /\ p = t.node /\ Updated(r, t)[u][i].file = t.file
  BY <1>3, <1>7 DEF ResponsesBacked
<1> QED BY <1>3, <1>6, <1>7, UpdatedProviders

\* The registries of a step are ones that were backed before it.
LEMMA RegistriesFromBefore ==
    ASSUME Types, [Next]_vars, ResponsesBacked, RegistriesBacked, NEW k \in Nodes
    PROVE  /\ \E r \in Registries : registry'[k] = r /\ BackedRegistry(r)
           /\ saved'[k] # None => \E r \in Registries : saved'[k] = r /\ BackedRegistry(r)
<1> DEFINE Goal == /\ \E r \in Registries : registry'[k] = r /\ BackedRegistry(r)
                   /\ saved'[k] # None => \E r \in Registries : saved'[k] = r /\ BackedRegistry(r)
<1>1. /\ registry[k] \in Registries /\ BackedRegistry(registry[k])
      /\ saved[k] # None => saved[k] \in Registries /\ BackedRegistry(saved[k])
  BY DEF Types, RegistryTypes, RegistriesBacked
<1>2. CASE UNCHANGED <<registry, saved>>
  BY <1>1, <1>2
<1>3. ASSUME NEW n \in Nodes, UpdateFromBlock(n) \/ UpdateFromBlockFails(n) PROVE Goal
  <2>1. PICK r : r = Updated(registry[n], chain[applied[n] + 1])
    OBVIOUS
  <2>2. r \in Registries /\ BackedRegistry(r)
    BY <1>3, <2>1, NextGood, UpdatedBacked
       DEF UpdateFromBlock, UpdateFromBlockFails, RegistriesBacked, Good
  <2>3. /\ registry' = [registry EXCEPT ![n] = r]
        /\ saved' = [saved EXCEPT ![n] = r] \/ saved' = saved \/ saved' = [saved EXCEPT ![n] = None]
    <3>1. CASE UpdateFromBlock(n)
      BY <2>1, <3>1, Zenon DEF UpdateFromBlock
    <3>2. CASE UpdateFromBlockFails(n)
      <4>1. registry' = [registry EXCEPT ![n] = r] /\ registry'[n] = r
        BY <2>1, <3>2 DEF UpdateFromBlockFails, Types, RegistryTypes
      <4>2. \/ saved' = [saved EXCEPT ![n] = registry'[n]]
            \/ saved' \in {saved, [saved EXCEPT ![n] = None]}
        BY <3>2, Zenon DEF UpdateFromBlockFails
      <4> QED BY <4>1, <4>2
    <3> QED BY <1>3, <3>1, <3>2
  <2>4. registry'[k] \in {r, registry[k]} /\ saved'[k] \in {r, saved[k], None}
    BY <2>3 DEF Types, RegistryTypes
  <2> QED BY <1>1, <2>2, <2>4
<1>4. ASSUME NEW n \in Nodes, Restart(n) PROVE Goal
  <2>1. saved[n] # None /\ registry' = [registry EXCEPT ![n] = saved[n]] /\ UNCHANGED saved
    BY <1>4 DEF Restart
  <2>2. /\ registry'[k] = registry[k] \/ (registry'[k] = saved[k] /\ saved[k] # None)
        /\ saved'[k] = saved[k]
    BY <2>1 DEF Types, RegistryTypes
  <2> QED BY <1>1, <2>2
<1>5. ASSUME NEW n \in Nodes, NodeStep(n) PROVE Goal
  <2>1. CASE HandlerStep(n) \/ PublishResponse(n) \/ CollectSome(n)
    <3>1. UNCHANGED registryVars
      BY <2>1, Zenon
         DEF HandlerStep, RefuseAnnouncement, AcceptAnnouncement, Fetch, FetchFails, MoveFile,
             MoveFileFails, PinFile, PinFileFails, SendToPublisher, Proceed, PublishResponse,
             CollectSome, Collect, ReachList, ReadEntry,
           ReadDirectory, ReadDirectoryFails, RemoveNext, Becomes
    <3> QED BY <1>2, <3>1 DEF registryVars
  <2> QED BY <1>3, <1>4, <1>5, <2>1 DEF NodeStep
<1>6. CASE \/ \E f \in Files : SendFile(f)
           \/ \E u \in Owners : ClientStep(u)
           \/ Mine
           \/ UNCHANGED vars
  <2>1. UNCHANGED registryVars
    BY <1>6, Zenon DEF ClientStep, SendFile, ReceiveFiles, DeleteFile, Mine, vars
  <2> QED BY <1>2, <2>1 DEF registryVars
<1> QED BY <1>5, <1>6 DEF Next

LEMMA RegistriesStep ==
    Types /\ [Next]_vars /\ Grows /\ ResponsesBacked /\ RegistriesBacked => RegistriesBacked'
<1> SUFFICES ASSUME Types, [Next]_vars, Grows, ResponsesBacked, RegistriesBacked, NEW k \in Nodes
             PROVE  BackedRegistry(registry[k])' /\ (saved'[k] = None \/ BackedRegistry(saved[k])')
  BY DEF RegistriesBacked
<1>1. PICK r \in Registries : registry'[k] = r /\ BackedRegistry(r)
  BY RegistriesFromBefore
<1>2. BackedRegistry(registry[k])'
  BY <1>1, BackedStays DEF BackedRegistry, Providers
<1>3. ASSUME saved'[k] # None PROVE BackedRegistry(saved[k])'
  <2>1. PICK s \in Registries : saved'[k] = s /\ BackedRegistry(s)
    BY <1>3, RegistriesFromBefore
  <2> QED BY <2>1, BackedStays DEF BackedRegistry, Providers
<1> QED BY <1>2, <1>3

Inv == Types /\ Prepared /\ ResponsesBacked /\ RegistriesBacked

LEMMA InvInvariant == Spec => []Inv
<1>1. Init => Inv
  BY TypesInit
     DEF Init, Inv, Prepared, ResponsesBacked, RegistriesBacked, BackedRegistry, EmptyRegistry
<1>2. Inv /\ [Next]_vars => Inv'
  <2>1. Types /\ [Next]_vars => Types'
    BY NetworkStep, HandlerStepTypes, RegistryStep, CollectorStep DEF Types
  <2> QED BY <2>1, NodesGrow, PreparedStep, ResponsesStep, RegistriesStep DEF Inv
<1> QED BY <1>1, <1>2, PTL DEF Spec

\* Who is named as a file's provider has it pinned, for any faults, crashes and deletions.
THEOREM ProvidersHold == Spec => []ProvidersHoldFile
<1>1. Inv => ProvidersHoldFile
  BY DEF Inv, ResponsesBacked, RegistriesBacked, BackedRegistry, Backed, ProvidersHoldFile
<1> QED BY <1>1, InvInvariant, PTL

\* No collector, however it interleaves with others, with the handler and with the blocks that
\* change the lists it ranges over, removes a copy that its node's registry listed when it came to
\* the owner's list and that no deletion has moved since.
THEOREM ListedKept == Spec => []KeptOnceListed
<1>1. Inv => KeptOnceListed
  BY DEF Inv, RegistriesBacked, BackedRegistry, Backed, Kept, KeptOnceListed
<1> QED BY <1>1, InvInvariant, PTL

-----------------------------------------------------------------------------
(* What the transactions say of a file, and how one more changes it.        *)

\* How many elements of a set of positions come before i.
Rank(P, i) == Cardinality({j \in P : j < i})

\* Q has all positions of P, and one after them.
OneMorePosition(P, i, Q) ==
    /\ P \in SUBSET Nat /\ IsFiniteSet(P)
    /\ i \in Nat /\ \A j \in P : j < i
    /\ Q = P \cup {i}

\* A transaction that says nothing of the file g.
SaysNothingOf(t, g) ==
    (\A n \in Nodes : t # AddTransaction(g, n)) /\ t # DeleteTransaction(OwnerOf[g], g)

\* A position after all the others comes last and leaves the order of the others alone.
LEMMA InOrderGrows ==
    ASSUME NEW P, NEW i, NEW Q, OneMorePosition(P, i, Q), NEW c, c = Cardinality(P)
    PROVE  /\ c \in Nat
           /\ DOMAIN InOrder(P) = 1 .. c
           /\ DOMAIN InOrder(Q) = 1 .. c + 1
           /\ \A k \in 1 .. c : InOrder(Q)[k] = InOrder(P)[k]
           /\ InOrder(Q)[c + 1] = i
<1> P \in SUBSET Nat /\ IsFiniteSet(P) /\ i \in Nat /\ (\A j \in P : j < i) /\ Q = P \cup {i}
  BY DEF OneMorePosition
<1>1. c \in Nat /\ Cardinality(Q) = c + 1
  <2>1. c \in Nat
    BY FS_CardinalityType
  <2>2. i \notin P
    OBVIOUS
  <2>3. Cardinality(P \cup {i}) = Cardinality(P) + 1
    BY <2>2, FS_AddElement
  <2> QED BY <2>1, <2>3
<1>2. ASSUME NEW x \in P PROVE Rank(Q, x) = Rank(P, x) /\ Rank(P, x) \in Nat /\ Rank(P, x) < c
  <2>1. {j \in Q : j < x} = {j \in P : j < x}
    OBVIOUS
  <2>2. {j \in P : j < x} \in SUBSET (P \ {x})
    OBVIOUS
  <2>3. IsFiniteSet(P \ {x}) /\ Cardinality(P \ {x}) = c - 1
    BY FS_RemoveElement
  <2>4. /\ IsFiniteSet({j \in P : j < x}) /\ Cardinality({j \in P : j < x}) <= c - 1
    BY <2>2, <2>3, FS_Subset
  <2>5. Cardinality({j \in P : j < x}) \in Nat
    BY <2>4, FS_CardinalityType
  <2> QED BY <1>1, <2>1, <2>4, <2>5 DEF Rank
<1>3. Rank(Q, i) = c
  <2>1. ~(i < i) /\ \A j \in P : j < i
    OBVIOUS
  <2>2. {j \in Q : j < i} = P
    BY <2>1, Zenon
  <2> QED BY <2>2 DEF Rank
<1>4. ASSUME NEW k \in 1 .. c PROVE InOrder(Q)[k] = InOrder(P)[k]
  <2>1. PICK m : m = k - 1
    OBVIOUS
  <2>2. \A x : (x \in Q /\ Rank(Q, x) = m) <=> (x \in P /\ Rank(P, x) = m)
    <3>1. c # m
      BY <1>1, <2>1
    <3>2. \A x : x \in Q <=> x \in P \/ x = i
      OBVIOUS
    <3> QED BY <1>2, <1>3, <3>1, <3>2, Zenon
  <2>3. (CHOOSE x \in Q : Cardinality({j \in Q : j < x}) = m)
           = (CHOOSE x \in P : Cardinality({j \in P : j < x}) = m)
    BY <2>2, Zenon DEF Rank
  <2>4. k \in 1 .. Cardinality(Q) /\ k \in 1 .. Cardinality(P)
    BY <1>1
  <2> QED BY <2>1, <2>3, <2>4 DEF InOrder
<1>5. InOrder(Q)[c + 1] = i
  <2>1. PICK k, m : k = c + 1 /\ m = k - 1
    OBVIOUS
  <2>2. k \in 1 .. Cardinality(Q) /\ m = c
    BY <1>1, <2>1
  <2>3. \A x \in Q : Rank(Q, x) = m <=> x = i
    BY <1>1, <1>2, <1>3, <2>2
  <2>4. (CHOOSE x \in Q : Cardinality({j \in Q : j < x}) = m) = i
    BY <2>3 DEF Rank
  <2>5. InOrder(Q)[k] = i
    BY <2>1, <2>2, <2>4 DEF InOrder
  <2> QED BY <2>1, <2>5
<1> QED BY <1>1, <1>4, <1>5 DEF InOrder

\* The order names positions of the set only.
LEMMA InOrderMember ==
    ASSUME NEW P \in SUBSET Nat, IsFiniteSet(P), NEW k \in DOMAIN InOrder(P)
    PROVE  InOrder(P)[k] \in P
<1> DEFINE c == Cardinality(P)
           rank == [x \in P |-> Rank(P, x) + 1]
<1>1. c \in Nat /\ k \in 1 .. c
  BY FS_CardinalityType DEF InOrder
<1>2. ASSUME NEW x \in P
      PROVE  Rank(P, x) \in 0 .. c - 1
  <2>1. {j \in P : j < x} \in SUBSET (P \ {x})
    OBVIOUS
  <2>2. IsFiniteSet(P \ {x}) /\ Cardinality(P \ {x}) = c - 1
    BY FS_RemoveElement
  <2>3. /\ IsFiniteSet({j \in P : j < x}) /\ Cardinality({j \in P : j < x}) <= c - 1
    BY <2>1, <2>2, FS_Subset
  <2>4. Cardinality({j \in P : j < x}) \in Nat
    BY <2>3, FS_CardinalityType
  <2> QED BY <1>1, <2>3, <2>4 DEF Rank
<1>3. ASSUME NEW x \in P, NEW y \in P, x < y
      PROVE  Rank(P, x) # Rank(P, y)
  <2>1. IsFiniteSet({j \in P : j < y})
    <3>1. {j \in P : j < y} \in SUBSET P
      OBVIOUS
    <3> QED BY <3>1, FS_Subset
  <2>2. {j \in P : j < x} \in SUBSET {j \in P : j < y}
    <3>1. \A j \in P : j < x => j < y
      <4>1. \A j \in Nat : j < x => j < y
        BY <1>3
      <4> QED BY <4>1
    <3> QED BY <3>1, Zenon
  <2>3. x \in {j \in P : j < y} /\ x \notin {j \in P : j < x}
    BY <1>3
  <2>4. Cardinality({j \in P : j < y}) = Cardinality({j \in P : j < x})
           => {j \in P : j < y} = {j \in P : j < x}
    BY <2>1, <2>2, FS_Subset
  <2> QED BY <2>3, <2>4 DEF Rank
<1>4. rank \in Injection(P, 1 .. c)
  <2>1. \A x \in P : rank[x] \in 1 .. c
    BY <1>1, <1>2
  <2>2. ASSUME NEW x \in P, NEW y \in P, rank[x] = rank[y] PROVE x = y
    <3>1. Rank(P, x) = Rank(P, y)
      BY <1>2, <2>2
    <3>2. ~(x < y) /\ ~(y < x)
      BY <1>3, <3>1
    <3> QED BY <3>2
  <2> QED BY <2>1, <2>2 DEF Injection, IsInjective
<1>5. IsFiniteSet(1 .. c) /\ Cardinality(1 .. c) = c
  BY <1>1, FS_Interval
<1>6. rank \in Surjection(P, 1 .. c)
  BY <1>4, <1>5, FS_Injection
<1>7. PICK x \in P : rank[x] = k
  BY <1>1, <1>6 DEF Surjection
<1>8. PICK m : m = k - 1
  OBVIOUS
<1>9. Cardinality({j \in P : j < x}) = m
  <2>1. Rank(P, x) + 1 = k /\ Rank(P, x) \in Nat
    BY <1>2, <1>7
  <2> QED BY <1>1, <1>8, <2>1 DEF Rank
<1>10. (CHOOSE y \in P : Cardinality({j \in P : j < y}) = m) \in P
  BY <1>9
<1> QED BY <1>1, <1>8, <1>10 DEF InOrder

\* What one position more changes for a file: an addition adds itself, the deletion of its
\* owner takes the earlier additions, anything else changes nothing.
LEMMA AdditionsAfterAddition ==
    ASSUME NEW c, NEW P, NEW i, NEW Q, NEW g, NEW n \in Nodes,
           OneMorePosition(P, i, Q), c[i] = AddTransaction(g, n)
    PROVE  AddsOf(c, Q, g) = AddsOf(c, P, g) \cup {i}
<1> P \in SUBSET Nat /\ IsFiniteSet(P) /\ i \in Nat /\ (\A j \in P : j < i) /\ Q = P \cup {i}
  BY DEF OneMorePosition
<1> DEFINE d == DeleteTransaction(OwnerOf[g], g)
           A == {AddTransaction(g, m) : m \in Nodes}
<1>1. c[i] \in A /\ c[i] # d
  BY DEF AddTransaction, DeleteTransaction
<1>2. /\ \A X, x : x \in DeletesOf(c, X, g) <=> x \in X /\ c[x] = d
      /\ \A X, x : x \in AddsOf(c, X, g)
            <=> x \in X /\ c[x] \in A /\ \A y \in DeletesOf(c, X, g) : y < x
  BY Zenon DEF AddsOf, DeletesOf
<1>3. (\A x \in P : x < i) /\ \A x : x \in Q <=> x \in P \/ x = i
  OBVIOUS
<1> HIDE DEF d, A
<1>4. \A x : x \in DeletesOf(c, Q, g) <=> x \in DeletesOf(c, P, g)
  BY <1>1, <1>2, <1>3, Zenon
<1>5. \A y \in DeletesOf(c, P, g) : y < i
  BY <1>2, <1>3
<1>6. i \in AddsOf(c, Q, g)
  BY <1>1, <1>2, <1>3, <1>4, <1>5
<1>7. \A x \in P : x \in AddsOf(c, Q, g) <=> x \in AddsOf(c, P, g)
  BY <1>2, <1>3, <1>4
<1>8. \A x : x \in AddsOf(c, Q, g) => x \in P \/ x = i
  BY <1>2, <1>3
<1>9. \A x : x \in AddsOf(c, P, g) => x \in P
  BY <1>2
<1>10. \A x : x \in AddsOf(c, Q, g) <=> x \in AddsOf(c, P, g) \/ x = i
  BY <1>6, <1>7, <1>8, <1>9, Zenon
<1> QED BY <1>10

LEMMA AdditionsAfterDeletion ==
    ASSUME NEW c, NEW P, NEW i, NEW Q, NEW g,
           OneMorePosition(P, i, Q), c[i] = DeleteTransaction(OwnerOf[g], g)
    PROVE  AddsOf(c, Q, g) = {}
<1> P \in SUBSET Nat /\ IsFiniteSet(P) /\ i \in Nat /\ (\A j \in P : j < i) /\ Q = P \cup {i}
  BY DEF OneMorePosition
<1>1. i \in DeletesOf(c, Q, g)
  BY DEF DeletesOf
<1>2. \A x \in AddsOf(c, Q, g) : x \in Q /\ i < x
  BY <1>1 DEF AddsOf
<1>3. \A x \in Q : ~(i < x)
  OBVIOUS
<1> QED BY <1>2, <1>3

LEMMA AdditionsAfterOther ==
    ASSUME NEW c, NEW P, NEW i, NEW Q, NEW g, OneMorePosition(P, i, Q),
           SaysNothingOf(c[i], g)
    PROVE  AddsOf(c, Q, g) = AddsOf(c, P, g)
<1> P \in SUBSET Nat /\ IsFiniteSet(P) /\ i \in Nat /\ (\A j \in P : j < i) /\ Q = P \cup {i}
  BY DEF OneMorePosition
<1> DEFINE d == DeleteTransaction(OwnerOf[g], g)
           A == {AddTransaction(g, m) : m \in Nodes}
<1>1. c[i] \notin A /\ c[i] # d
  BY Zenon DEF SaysNothingOf
<1>2. /\ \A X, x : x \in DeletesOf(c, X, g) <=> x \in X /\ c[x] = d
      /\ \A X, x : x \in AddsOf(c, X, g)
            <=> x \in X /\ c[x] \in A /\ \A y \in DeletesOf(c, X, g) : y < x
  BY Zenon DEF AddsOf, DeletesOf
<1>3. \A x : x \in Q <=> x \in P \/ x = i
  OBVIOUS
<1> HIDE DEF d, A
<1>4. \A x : x \in DeletesOf(c, Q, g) <=> x \in DeletesOf(c, P, g)
  BY <1>1, <1>2, <1>3
<1>5. \A x : x \in AddsOf(c, Q, g) <=> x \in AddsOf(c, P, g)
  BY <1>1, <1>2, <1>3, <1>4, Zenon
<1> QED BY <1>5

\* The providers of a file after one addition more.
OneMoreProvider(c, P, Q, g, n) ==
    /\ AddsOf(c, P, g) = {} => EntryOf(c, Q, g).providers = <<n>>
    /\ EntryOf(c, P, g).providers \in Seq(Nodes)
          => EntryOf(c, Q, g).providers = Append(EntryOf(c, P, g).providers, n)

LEMMA OneAdditionMore ==
    ASSUME NEW c, NEW P, NEW i, NEW Q, NEW g, NEW n \in Nodes,
           OneMorePosition(P, i, Q), c[i] = AddTransaction(g, n)
    PROVE  OneMoreProvider(c, P, Q, g, n)
<1> P \in SUBSET Nat /\ IsFiniteSet(P) /\ i \in Nat /\ (\A j \in P : j < i) /\ Q = P \cup {i}
  BY DEF OneMorePosition
<1>0. PICK before, after : /\ before = EntryOf(c, P, g).providers
                           /\ after = EntryOf(c, Q, g).providers
  OBVIOUS
<1> DEFINE A == AddsOf(c, P, g)
           m == Cardinality(A)
<1>1. AddsOf(c, Q, g) = A \cup {i}
  BY AdditionsAfterAddition
<1>2. A \in SUBSET P /\ A \in SUBSET Nat /\ \A j \in A : j < i
  BY DEF AddsOf
<1>3. IsFiniteSet(A)
  BY <1>2, FS_Subset
<1>4. /\ before = [k \in DOMAIN InOrder(A) |-> c[InOrder(A)[k]].node]
      /\ after = [k \in DOMAIN InOrder(A \cup {i}) |-> c[InOrder(A \cup {i})[k]].node]
  BY <1>0, <1>1 DEF EntryOf
<1> HIDE DEF A, m
<1>5. PICK B : B = A \cup {i}
  OBVIOUS
<1>6. /\ m \in Nat /\ DOMAIN InOrder(A) = 1 .. m /\ DOMAIN InOrder(B) = 1 .. m + 1
      /\ \A k \in 1 .. m : InOrder(B)[k] = InOrder(A)[k]
      /\ InOrder(B)[m + 1] = i
  <2>1. m = Cardinality(A)
    BY DEF m
  <2>2. OneMorePosition(A, i, B)
    BY <1>2, <1>3, <1>5 DEF OneMorePosition
  <2> QED BY <2>1, <2>2, InOrderGrows
<1>7. c[i].node = n
  BY DEF AddTransaction
<1>8. /\ DOMAIN before = 1 .. m /\ DOMAIN after = 1 .. m + 1
      /\ \A k \in 1 .. m : after[k] = before[k]
      /\ after[m + 1] = n
      /\ after = [k \in 1 .. m + 1 |-> after[k]]
  <2>1. PICK x, y : x = InOrder(A) /\ y = InOrder(B)
    OBVIOUS
  <2>2. /\ before = [k \in DOMAIN x |-> c[x[k]].node] /\ after = [k \in DOMAIN y |-> c[y[k]].node]
        /\ m \in Nat /\ DOMAIN x = 1 .. m /\ DOMAIN y = 1 .. m + 1
        /\ \A k \in 1 .. m : y[k] = x[k]
        /\ y[m + 1] = i
    BY <1>4, <1>5, <1>6, <2>1
  <2>3. \A k \in 1 .. m : k \in 1 .. m + 1
    BY <2>2
  <2>4. m + 1 \in 1 .. m + 1
    BY <2>2
  <2>5. ASSUME NEW k \in 1 .. m PROVE after[k] = before[k]
    <3>1. before[k] = c[x[k]].node
      BY <2>2
    <3>2. after[k] = c[y[k]].node
      BY <2>2, <2>3
    <3>3. y[k] = x[k]
      BY <2>2
    <3> QED BY <3>1, <3>2, <3>3, Zenon
  <2>6. after[m + 1] = n
    BY <1>7, <2>2, <2>4, Zenon
  <2> QED BY <2>2, <2>5, <2>6
<1>9. A = {} => after = <<n>>
  <2>1. A = {} => m = 0
    BY FS_EmptySet DEF m
  <2>2. m = 0 => after = <<n>>
    BY <1>8
  <2> QED BY <2>1, <2>2
<1>10. ASSUME before \in Seq(Nodes) PROVE after = Append(before, n)
  <2>1. Len(before) = m
    BY <1>6, <1>8, <1>10
  <2>2. PICK longer : longer = Append(before, n)
    OBVIOUS
  <2>3. /\ longer \in Seq(Nodes) /\ DOMAIN longer = 1 .. m + 1 /\ longer[m + 1] = n
        /\ \A k \in 1 .. m : longer[k] = before[k]
    BY <1>6, <1>10, <2>1, <2>2
  <2>4. longer = [k \in 1 .. m + 1 |-> longer[k]]
    BY <2>3
  <2>5. \A k \in 1 .. m + 1 : k \in 1 .. m \/ k = m + 1
    BY <1>6
  <2>6. \A k \in 1 .. m + 1 : longer[k] = after[k]
    BY <1>8, <2>3, <2>5, Zenon
  <2> QED BY <1>8, <2>2, <2>4, <2>6
<1> QED BY <1>0, <1>9, <1>10 DEF A, OneMoreProvider

-----------------------------------------------------------------------------
(* The registry against the transactions applied.                          *)

\* An owner's list has an entry for every file that is listed, with its providers, and no other.
ListFollows(list, u, c, P) ==
    /\ \A k \in DOMAIN list :
          /\ AddsOf(c, P, list[k].file) # {}
          /\ list[k].providers = EntryOf(c, P, list[k].file).providers
    /\ \A g \in Files :
          OwnerOf[g] = u /\ AddsOf(c, P, g) # {} => \E k \in DOMAIN list : list[k].file = g

Follows(r, c, P) == \A u \in Owners : ListFollows(r[u], u, c, P)

\* Entries that are one per file are as many as there are files.
LEMMA FollowsIs ==
    ASSUME NEW r, Good(r), NEW c, NEW P, Follows(r, c, P)
    PROVE  RegistryIs(r, c, P)
<1> SUFFICES ASSUME NEW u \in Owners
             PROVE  /\ {r[u][i] : i \in DOMAIN r[u]} = EntriesAfter(c, P, u)
                    /\ Len(r[u]) = Cardinality(EntriesAfter(c, P, u))
  BY DEF RegistryIs
<1>1. PICK list, E : list = r[u] /\ E = EntriesAfter(c, P, u)
  OBVIOUS
<1>2. list \in Seq(FileData) /\ ListFollows(list, u, c, P)
  BY <1>1 DEF Good, Registries, Follows
<1>3. \A i, j \in DOMAIN list : /\ OwnerOf[list[i].file] = u
                                /\ i # j => list[i].file # list[j].file
  BY <1>1 DEF Good, ListedOnce
<1>4. ASSUME NEW i \in DOMAIN list
      PROVE  list[i].file \in Files /\ list[i] = EntryOf(c, P, list[i].file)
  <2>1. list[i] \in FileData
    BY <1>2
  <2>2. PICK f \in Files, p \in Seq(Nodes) : list[i] = [file |-> f, providers |-> p]
    BY <2>1 DEF FileData
  <2>3. p = EntryOf(c, P, f).providers
    BY <1>2, <2>2 DEF ListFollows
  <2> QED BY <2>2, <2>3 DEF EntryOf
<1>5. E = {EntryOf(c, P, f) : f \in {g \in Files : OwnerOf[g] = u /\ AddsOf(c, P, g) # {}}}
  BY <1>1 DEF EntriesAfter
<1>6. {list[i] : i \in DOMAIN list} = E
  <2>1. ASSUME NEW i \in DOMAIN list PROVE list[i] \in E
    <3>1. PICK f : f = list[i].file
      OBVIOUS
    <3>2. f \in Files /\ OwnerOf[f] = u /\ AddsOf(c, P, f) # {} /\ list[i] = EntryOf(c, P, f)
      <4>1. f \in Files /\ list[i] = EntryOf(c, P, f)
        BY <1>4, <3>1
      <4>2. OwnerOf[f] = u
        BY <1>3, <3>1
      <4>3. AddsOf(c, P, f) # {}
        BY <1>2, <3>1 DEF ListFollows
      <4> QED BY <4>1, <4>2, <4>3
    <3> QED BY <1>5, <3>2
  <2>2. ASSUME NEW e \in E PROVE \E i \in DOMAIN list : e = list[i]
    <3>1. PICK f \in Files : e = EntryOf(c, P, f) /\ OwnerOf[f] = u /\ AddsOf(c, P, f) # {}
      BY <1>5
    <3>2. PICK i \in DOMAIN list : list[i].file = f
      BY <1>2, <3>1 DEF ListFollows
    <3> QED BY <1>4, <3>1, <3>2
  <2> QED BY <2>1, <2>2
<1>7. Len(list) = Cardinality(E)
  <2>1. DOMAIN list = 1 .. Len(list) /\ Len(list) \in Nat
    BY <1>2
  <2>2. list \in [1 .. Len(list) -> E]
    <3>1. list = [i \in DOMAIN list |-> list[i]]
      BY <1>2
    <3>2. \A i \in DOMAIN list : list[i] \in E
      BY <1>6
    <3> QED BY <2>1, <3>1, <3>2
  <2>3. ASSUME NEW i \in 1 .. Len(list), NEW j \in 1 .. Len(list), list[i] = list[j]
        PROVE  i = j
    <3>1. i \in DOMAIN list /\ j \in DOMAIN list /\ list[i].file = list[j].file
      BY <2>1, <2>3
    <3> QED BY <1>3, <3>1
  <2>4. \A e \in E : \E i \in 1 .. Len(list) : list[i] = e
    BY <1>6, <2>1
  <2>5. list \in Bijection(1 .. Len(list), E)
    BY <2>2, <2>3, <2>4 DEF Bijection, Injection, Surjection, IsInjective
  <2>6. ExistsBijection(1 .. Len(list), E)
    BY <2>5 DEF ExistsBijection
  <2> QED BY <2>1, <2>6, FS_CountingElements
<1> QED BY <1>1, <1>6, <1>7

LEMMA EmptyFollows == \A c : Follows(EmptyRegistry, c, {})
BY DEF Follows, ListFollows, EmptyRegistry, AddsOf

\* What tells transactions apart.
LEMMA TransactionsApart ==
    ASSUME NEW f, NEW g, NEW n, NEW m, NEW u, NEW v
    PROVE  /\ AddTransaction(f, n) = AddTransaction(g, m) => f = g
           /\ AddTransaction(f, n) # DeleteTransaction(u, g)
           /\ DeleteTransaction(u, f) = DeleteTransaction(v, g) => u = v /\ f = g
<1>1. AddTransaction(f, n).file = f /\ AddTransaction(g, m).file = g
  BY DEF AddTransaction
<1>2. AddTransaction(f, n).type = "add" /\ DeleteTransaction(u, g).type = "delete"
  BY DEF AddTransaction, DeleteTransaction
<1>3. /\ DeleteTransaction(u, f).file = f /\ DeleteTransaction(v, g).file = g
      /\ DeleteTransaction(u, f).owner = u /\ DeleteTransaction(v, g).owner = v
  BY DEF DeleteTransaction
<1> QED BY <1>1, <1>2, <1>3, Zenon

\* A step that changes the history of a file f only leaves the lists right that do not name f.
LEMMA OtherListsFollow ==
    ASSUME NEW list, NEW u, NEW c, NEW P, NEW Q, NEW f, ListFollows(list, u, c, P),
           \A g : g # f => AddsOf(c, Q, g) = AddsOf(c, P, g),
           \A k \in DOMAIN list : list[k].file # f,
           OwnerOf[f] # u \/ AddsOf(c, Q, f) = {}
    PROVE  ListFollows(list, u, c, Q)
<1>1. ASSUME NEW g, g # f PROVE EntryOf(c, Q, g).providers = EntryOf(c, P, g).providers
  <2>1. AddsOf(c, Q, g) = AddsOf(c, P, g)
    BY <1>1
  <2> QED BY <2>1 DEF EntryOf
<1>2. ASSUME NEW k \in DOMAIN list
      PROVE  /\ AddsOf(c, Q, list[k].file) # {}
             /\ list[k].providers = EntryOf(c, Q, list[k].file).providers
  <2>1. list[k].file # f
    OBVIOUS
  <2>2. /\ AddsOf(c, P, list[k].file) # {}
        /\ list[k].providers = EntryOf(c, P, list[k].file).providers
    BY DEF ListFollows
  <2> QED BY <1>1, <2>1, <2>2, Zenon
<1>3. ASSUME NEW g \in Files, OwnerOf[g] = u, AddsOf(c, Q, g) # {}
      PROVE  \E k \in DOMAIN list : list[k].file = g
  <2>1. g # f
    BY <1>3
  <2>2. AddsOf(c, P, g) # {}
    BY <1>3, <2>1
  <2> QED BY <1>3, <2>2 DEF ListFollows
<1> QED BY <1>2, <1>3 DEF ListFollows

LEMMA AddFollows ==
    ASSUME NEW r, Good(r), NEW c, NEW P, NEW i, NEW Q, OneMorePosition(P, i, Q),
           NEW t \in AddTransactions, c[i] = t, Follows(r, c, P)
    PROVE  Follows(Add(r, t), c, Q)
<1>1. PICK f \in Files, n \in Nodes : t = AddTransaction(f, n)
  BY DEF AddTransactions
<1>2. t.owner = OwnerOf[f] /\ t.file = f /\ t.node = n /\ OwnerOf[f] \in Owners
  BY <1>1, FileAssumption DEF AddTransaction
<1>3. ASSUME NEW g, g # f PROVE AddsOf(c, Q, g) = AddsOf(c, P, g)
  <2>1. \A m \in Nodes : c[i] # AddTransaction(g, m)
    BY <1>1, <1>3, TransactionsApart
  <2>2. c[i] # DeleteTransaction(OwnerOf[g], g)
    BY <1>1, TransactionsApart
  <2>3. SaysNothingOf(c[i], g)
    BY <2>1, <2>2 DEF SaysNothingOf
  <2> QED BY <2>3, AdditionsAfterOther
<1>4. AddsOf(c, Q, f) # {}
  <2>1. AddsOf(c, Q, f) = AddsOf(c, P, f) \cup {i}
    BY <1>1, AdditionsAfterAddition
  <2> QED BY <2>1
<1>5. PICK before, after : /\ before = EntryOf(c, P, f).providers
                           /\ after = EntryOf(c, Q, f).providers
  OBVIOUS
<1>6. /\ AddsOf(c, P, f) = {} => after = <<n>>
      /\ before \in Seq(Nodes) => after = Append(before, n)
  <2>1. c[i] = AddTransaction(f, n)
    BY <1>1
  <2>2. OneMoreProvider(c, P, Q, f, n)
    BY <2>1, OneAdditionMore
  <2> QED BY <1>5, <2>2 DEF OneMoreProvider
<1>7. PICK q, o, old : q = Add(r, t) /\ o = t.owner /\ old = r[t.owner]
  OBVIOUS
<1>8. /\ old \in Seq(FileData) /\ o \in Owners /\ ListFollows(old, o, c, P)
      /\ \A j, k \in DOMAIN old : j # k => old[j].file # old[k].file
  BY <1>2, <1>7 DEF Good, Registries, ListedOnce, Follows
<1>9. ASSUME NEW u \in Owners, u # o, q[u] = r[u] PROVE ListFollows(q[u], u, c, Q)
  <2>1. \A k \in DOMAIN r[u] : r[u][k].file # f
    BY <1>2, <1>7, <1>9 DEF Good, ListedOnce
  <2>2. ListFollows(r[u], u, c, P)
    BY DEF Follows
  <2>3. OwnerOf[f] # u
    BY <1>2, <1>7, <1>9
  <2>4. ListFollows(r[u], u, c, Q)
    BY <1>3, <2>1, <2>2, <2>3, OtherListsFollow
  <2> QED BY <1>9, <2>4
<1>10. ASSUME NEW g, g # f PROVE EntryOf(c, Q, g).providers = EntryOf(c, P, g).providers
  BY <1>3, <1>10 DEF EntryOf
<1>11. ASSUME NEW k \in Positions(old, f) PROVE Follows(q, c, Q)
  <2>1. PICK list \in Seq(FileData) :
           /\ Replaces(q, r, o, list)
           /\ k \in DOMAIN list /\ DOMAIN list = DOMAIN old
           /\ \A j \in DOMAIN list : list[j].file = old[j].file
           /\ \A j \in DOMAIN list : j # k => list[j] = old[j]
           /\ list[k].providers = Append(old[k].providers, n)
    <3>1. k \in Positions(r[t.owner], t.file)
      BY <1>2, <1>7, <1>11
    <3>2. \E list \in Seq(FileData) :
             /\ Replaces(Add(r, t), r, t.owner, list)
             /\ k \in DOMAIN list /\ DOMAIN list = DOMAIN r[t.owner]
             /\ \A j \in DOMAIN list : list[j].file = r[t.owner][j].file
             /\ \A j \in DOMAIN list : j # k => list[j] = r[t.owner][j]
             /\ list[k].providers = Append(r[t.owner][k].providers, t.node)
      BY <3>1, ProviderAdded
    <3> QED BY <1>2, <1>7, <3>2, Zenon
  <2>2. old[k].file = f /\ k \in DOMAIN old /\ old[k] \in FileData
    BY <1>8, <1>11 DEF Positions
  <2>3. old[k].providers = before /\ before \in Seq(Nodes)
    <3>1. old[k].providers = EntryOf(c, P, old[k].file).providers
      BY <1>8, <2>2 DEF ListFollows
    <3>2. old[k].providers \in Seq(Nodes)
      BY <2>2 DEF FileData
    <3> QED BY <1>5, <2>2, <3>1, <3>2
  <2>4. ListFollows(list, o, c, Q)
    <3>1. ASSUME NEW j \in DOMAIN list
          PROVE  /\ AddsOf(c, Q, list[j].file) # {}
                 /\ list[j].providers = EntryOf(c, Q, list[j].file).providers
      <4>1. CASE j = k
        BY <1>4, <1>5, <1>6, <2>1, <2>2, <2>3, <4>1
      <4>2. CASE j # k
        <5>1. list[j] = old[j] /\ j \in DOMAIN old /\ list[j].file # f
          BY <1>8, <2>1, <2>2, <4>2
        <5>2. /\ AddsOf(c, P, list[j].file) # {}
              /\ list[j].providers = EntryOf(c, P, list[j].file).providers
          BY <1>8, <5>1 DEF ListFollows
        <5> QED BY <1>3, <1>10, <5>1, <5>2, Zenon
      <4> QED BY <4>1, <4>2
    <3>2. ASSUME NEW g \in Files, OwnerOf[g] = o, AddsOf(c, Q, g) # {}
          PROVE  \E j \in DOMAIN list : list[j].file = g
      <4>1. CASE g = f
        BY <2>1, <2>2, <4>1, Zenon
      <4>2. CASE g # f
        <5>1. AddsOf(c, P, g) # {}
          BY <1>3, <3>2, <4>2
        <5>2. PICK j \in DOMAIN old : old[j].file = g
          BY <1>8, <3>2, <5>1 DEF ListFollows
        <5>3. j \in DOMAIN list /\ list[j].file = old[j].file
          BY <2>1
        <5> QED BY <5>2, <5>3
      <4> QED BY <4>1, <4>2
    <3> QED BY <3>1, <3>2 DEF ListFollows
  <2> QED BY <1>9, <2>1, <2>4 DEF Follows, Replaces
<1>12. CASE Positions(old, f) = {}
  <2>1. PICK list \in Seq(FileData) :
           /\ Replaces(q, r, o, list)
           /\ DOMAIN list = 1 .. Len(old) + 1
           /\ DOMAIN old = 1 .. Len(old) /\ Len(old) \in Nat
           /\ \A j \in 1 .. Len(old) : list[j] = old[j]
           /\ list[Len(old) + 1] = NewFileData(t)
    <3>1. Positions(r[t.owner], t.file) = {}
      BY <1>2, <1>7, <1>12
    <3>2. \E list \in Seq(FileData) :
             /\ Replaces(Add(r, t), r, t.owner, list)
             /\ DOMAIN list = 1 .. Len(r[t.owner]) + 1
             /\ DOMAIN r[t.owner] = 1 .. Len(r[t.owner]) /\ Len(r[t.owner]) \in Nat
             /\ \A j \in 1 .. Len(r[t.owner]) : list[j] = r[t.owner][j]
             /\ list[Len(r[t.owner]) + 1] = NewFileData(t)
      BY <3>1, EntryAdded
    <3> QED BY <1>7, <3>2, Zenon
  <2>2. \A j \in DOMAIN old : old[j].file # f
    BY <1>12 DEF Positions
  <2>3. AddsOf(c, P, f) = {}
    BY <1>2, <1>7, <1>8, <2>2 DEF ListFollows
  <2>4. PICK m : m = Len(old) + 1
    OBVIOUS
  <2>5. /\ \A j \in DOMAIN list : j \in DOMAIN old \/ j = m
        /\ m \in DOMAIN list /\ \A j \in DOMAIN old : j \in DOMAIN list /\ list[j] = old[j]
    BY <2>1, <2>4
  <2>6. list[m].file = f /\ list[m].providers = <<n>>
    BY <1>2, <2>1, <2>4 DEF NewFileData
  <2>7. ListFollows(list, o, c, Q)
    <3>1. ASSUME NEW j \in DOMAIN list
          PROVE  /\ AddsOf(c, Q, list[j].file) # {}
                 /\ list[j].providers = EntryOf(c, Q, list[j].file).providers
      <4>1. CASE j = m
        BY <1>4, <1>5, <1>6, <2>3, <2>6, <4>1
      <4>2. CASE j \in DOMAIN old
        <5>1. list[j] = old[j] /\ list[j].file # f
          BY <2>2, <2>5, <4>2
        <5>2. /\ AddsOf(c, P, list[j].file) # {}
              /\ list[j].providers = EntryOf(c, P, list[j].file).providers
          BY <1>8, <4>2, <5>1 DEF ListFollows
        <5> QED BY <1>3, <1>10, <5>1, <5>2, Zenon
      <4> QED BY <2>5, <4>1, <4>2
    <3>2. ASSUME NEW g \in Files, OwnerOf[g] = o, AddsOf(c, Q, g) # {}
          PROVE  \E j \in DOMAIN list : list[j].file = g
      <4>1. CASE g = f
        BY <2>5, <2>6, <4>1
      <4>2. CASE g # f
        <5>1. AddsOf(c, P, g) # {}
          BY <1>3, <3>2, <4>2
        <5>2. PICK j \in DOMAIN old : old[j].file = g
          BY <1>8, <3>2, <5>1 DEF ListFollows
        <5> QED BY <2>5, <5>2
      <4> QED BY <4>1, <4>2
    <3> QED BY <3>1, <3>2 DEF ListFollows
  <2>8. \A u \in Owners : (u = o => q[u] = list) /\ (u # o => q[u] = r[u])
    BY <2>1 DEF Replaces
  <2>9. \A u \in Owners : ListFollows(q[u], u, c, Q)
    BY <1>9, <2>7, <2>8
  <2> QED BY <1>7, <2>9 DEF Follows
<1> QED BY <1>7, <1>11, <1>12

LEMMA DeleteFollows ==
    ASSUME NEW r, Good(r), NEW c, NEW P, NEW i, NEW Q, OneMorePosition(P, i, Q),
           NEW t \in DeleteTransactions, c[i] = t, Follows(r, c, P)
    PROVE  Follows(Delete(r, t), c, Q)
<1>1. PICK o \in Owners, f \in Files : t = DeleteTransaction(o, f)
  BY DEF DeleteTransactions
<1>2. t.owner = o /\ t.file = f
  BY <1>1 DEF DeleteTransaction
<1>3. PICK q, old : q = Delete(r, t) /\ old = r[t.owner]
  OBVIOUS
<1>4. /\ old \in Seq(FileData) /\ ListFollows(old, o, c, P)
      /\ \A j \in DOMAIN old : OwnerOf[old[j].file] = o
      /\ \A j, k \in DOMAIN old : j # k => old[j].file # old[k].file
  BY <1>2, <1>3 DEF Good, Registries, ListedOnce, Follows
<1>5. ASSUME NEW g, g # f \/ OwnerOf[f] # o PROVE AddsOf(c, Q, g) = AddsOf(c, P, g)
  <2>1. \A m \in Nodes : c[i] # AddTransaction(g, m)
    BY <1>1, TransactionsApart
  <2>2. c[i] # DeleteTransaction(OwnerOf[g], g)
    BY <1>1, <1>5, TransactionsApart
  <2>3. SaysNothingOf(c[i], g)
    BY <2>1, <2>2 DEF SaysNothingOf
  <2> QED BY <2>3, AdditionsAfterOther
<1>6. CASE OwnerOf[f] # o
  <2>1. Positions(old, f) = {}
    BY <1>4, <1>6 DEF Positions
  <2>2. q = r
    BY <1>2, <1>3, <2>1 DEF Delete
  <2>3. \A g : AddsOf(c, Q, g) = AddsOf(c, P, g)
    BY <1>5, <1>6
  <2>4. \A g : EntryOf(c, Q, g) = EntryOf(c, P, g)
    BY <2>3 DEF EntryOf
  <2>5. ASSUME NEW u \in Owners PROVE ListFollows(r[u], u, c, Q)
    <3>1. ListFollows(r[u], u, c, P)
      BY DEF Follows
    <3>2. PICK list : list = r[u]
      OBVIOUS
    <3>3. ListFollows(list, u, c, Q)
      BY <2>3, <2>4, <3>1, <3>2, Zenon DEF ListFollows
    <3> QED BY <3>2, <3>3
  <2> QED BY <1>3, <2>2, <2>5 DEF Follows
<1>7. CASE OwnerOf[f] = o
  <2>1. AddsOf(c, Q, f) = {}
    <3>1. c[i] = DeleteTransaction(OwnerOf[f], f)
      BY <1>1, <1>7
    <3> QED BY <3>1, AdditionsAfterDeletion
  <2>2. ASSUME NEW u \in Owners, NEW list, ListFollows(list, u, c, P),
               \A k \in DOMAIN list : list[k].file # f
        PROVE  ListFollows(list, u, c, Q)
    BY <1>5, <2>1, <2>2, OtherListsFollow
  <2>3. ASSUME NEW u \in Owners, u # o PROVE ListFollows(r[u], u, c, Q)
    <3>1. \A k \in DOMAIN r[u] : r[u][k].file # f
      BY <1>7, <2>3 DEF Good, ListedOnce
    <3>2. ListFollows(r[u], u, c, P)
      BY DEF Follows
    <3> QED BY <2>2, <3>1, <3>2
  <2>4. CASE Positions(old, f) = {}
    <3>1. q = r
      BY <1>2, <1>3, <2>4 DEF Delete
    <3>2. \A k \in DOMAIN old : old[k].file # f
      BY <2>4 DEF Positions
    <3>3. ListFollows(old, o, c, Q)
      BY <1>4, <2>2, <3>2
    <3> QED BY <1>2, <1>3, <2>3, <3>1, <3>3 DEF Follows
  <2>5. ASSUME NEW k \in Positions(old, f) PROVE Follows(q, c, Q)
    <3>1. PICK list \in Seq(FileData) :
             /\ Replaces(q, r, o, list)
             /\ DOMAIN list = 1 .. Len(old) - 1
             /\ DOMAIN old = 1 .. Len(old) /\ Len(old) \in Nat
             /\ k \in 1 .. Len(old)
             /\ \A j \in DOMAIN list : list[j] = IF j < k THEN old[j] ELSE old[j + 1]
      <4>1. k \in Positions(r[t.owner], t.file)
        BY <1>2, <1>3, <2>5
      <4>2. \E list \in Seq(FileData) :
               /\ Replaces(Delete(r, t), r, t.owner, list)
               /\ DOMAIN list = 1 .. Len(r[t.owner]) - 1
               /\ DOMAIN r[t.owner] = 1 .. Len(r[t.owner]) /\ Len(r[t.owner]) \in Nat
               /\ k \in 1 .. Len(r[t.owner])
               /\ \A j \in DOMAIN list :
                     list[j] = IF j < k THEN r[t.owner][j] ELSE r[t.owner][j + 1]
        BY <4>1, EntryDeleted
      <4> QED BY <1>2, <1>3, <4>2, Zenon
    <3>2. old[k].file = f /\ k \in DOMAIN old
      BY <2>5 DEF Positions
    \* The entries of the new list are the others of the old one.
    <3>3. ASSUME NEW j \in DOMAIN list
          PROVE  \E x \in DOMAIN old : x # k /\ list[j] = old[x]
      <4>1. PICK x : x = IF j < k THEN j ELSE j + 1
        OBVIOUS
      <4>2. x \in 1 .. Len(old) /\ x # k /\ list[j] = old[x]
        BY <3>1, <4>1
      <4> QED BY <3>1, <4>2
    <3>4. ASSUME NEW x \in DOMAIN old, x # k
          PROVE  \E j \in DOMAIN list : list[j] = old[x]
      <4>1. PICK j : j = IF x < k THEN x ELSE x - 1
        OBVIOUS
      <4>2. j \in 1 .. Len(old) - 1 /\ (IF j < k THEN j ELSE j + 1) = x
        BY <3>1, <3>4, <4>1
      <4> QED BY <3>1, <4>2
    <3>5. ListFollows(list, o, c, Q)
      <4>1. ASSUME NEW j \in DOMAIN list
            PROVE  /\ AddsOf(c, Q, list[j].file) # {}
                   /\ list[j].providers = EntryOf(c, Q, list[j].file).providers
        <5>1. PICK x \in DOMAIN old : x # k /\ list[j] = old[x]
          BY <3>3
        <5>2. PICK g : g = old[x].file
          OBVIOUS
        <5>3. g # f
          BY <1>4, <3>2, <5>1, <5>2
        <5>4. AddsOf(c, Q, g) = AddsOf(c, P, g)
          BY <1>5, <5>3
        <5>5. EntryOf(c, Q, g) = EntryOf(c, P, g)
          BY <5>4 DEF EntryOf
        <5>6. AddsOf(c, P, g) # {} /\ old[x].providers = EntryOf(c, P, g).providers
          BY <1>4, <5>2 DEF ListFollows
        <5> QED BY <5>1, <5>2, <5>4, <5>5, <5>6, Zenon
      <4>2. ASSUME NEW g \in Files, OwnerOf[g] = o, AddsOf(c, Q, g) # {}
            PROVE  \E j \in DOMAIN list : list[j].file = g
        <5>1. g # f
          BY <2>1, <4>2
        <5>2. AddsOf(c, P, g) # {}
          BY <1>5, <4>2, <5>1
        <5>3. PICK x \in DOMAIN old : old[x].file = g
          BY <1>4, <4>2, <5>2 DEF ListFollows
        <5>4. x # k
          BY <3>2, <5>1, <5>3
        <5> QED BY <3>4, <5>3, <5>4
      <4> QED BY <4>1, <4>2 DEF ListFollows
    <3>6. \A u \in Owners : (u = o => q[u] = list) /\ (u # o => q[u] = r[u])
      BY <3>1 DEF Replaces
    <3>7. \A u \in Owners : ListFollows(q[u], u, c, Q)
      BY <2>3, <3>5, <3>6
    <3> QED BY <3>7 DEF Follows
  <2> QED BY <1>3, <2>4, <2>5
<1> QED BY <1>6, <1>7

LEMMA UpdatedFollows ==
    ASSUME NEW r, Good(r), NEW c, NEW P, NEW i, NEW Q, OneMorePosition(P, i, Q),
           c[i] \in Transactions, Follows(r, c, P)
    PROVE  Follows(Updated(r, c[i]), c, Q)
<1>1. PICK t : t = c[i]
  OBVIOUS
<1>2. CASE t \in AddTransactions
  <2>1. Updated(r, t) = Add(r, t)
    BY <1>2 DEF Updated, AddTransactions, AddTransaction
  <2> QED BY <1>1, <1>2, <2>1, AddFollows
<1>3. CASE t \in DeleteTransactions
  <2>1. Updated(r, t) = Delete(r, t)
    BY <1>3 DEF Updated, DeleteTransactions, DeleteTransaction
  <2> QED BY <1>1, <1>3, <2>1, DeleteFollows
<1> QED BY <1>1, <1>2, <1>3 DEF Transactions

\* What counts is the transactions at the positions applied.
LEMMA LongerChainFollows ==
    ASSUME NEW r, NEW c, NEW d, NEW P \in SUBSET Nat, IsFiniteSet(P), \A i \in P : d[i] = c[i],
           Follows(r, c, P)
    PROVE  Follows(r, d, P)
<1>1. ASSUME NEW g
      PROVE  AddsOf(d, P, g) = AddsOf(c, P, g) /\ EntryOf(d, P, g) = EntryOf(c, P, g)
  <2>1. DeletesOf(d, P, g) = DeletesOf(c, P, g)
    BY DEF DeletesOf
  <2>2. AddsOf(d, P, g) = AddsOf(c, P, g)
    BY <2>1 DEF AddsOf
  <2>3. PICK A, o : A = AddsOf(c, P, g) /\ o = InOrder(A)
    OBVIOUS
  <2>4. A \in SUBSET P /\ A \in SUBSET Nat
    BY <2>3 DEF AddsOf
  <2>5. IsFiniteSet(A)
    BY <2>4, FS_Subset
  <2>6. \A k \in DOMAIN o : o[k] \in P
    BY <2>3, <2>4, <2>5, InOrderMember
  <2>7. \A k \in DOMAIN o : d[o[k]].node = c[o[k]].node
    BY <2>6
  <2>8. [k \in DOMAIN o |-> d[o[k]].node] = [k \in DOMAIN o |-> c[o[k]].node]
    BY <2>7
  <2> QED BY <2>2, <2>3, <2>8 DEF EntryOf
<1>2. ASSUME NEW u \in Owners PROVE ListFollows(r[u], u, d, P)
  <2>1. ListFollows(r[u], u, c, P)
    BY DEF Follows
  <2>2. PICK list : list = r[u]
    OBVIOUS
  <2>3. ListFollows(list, u, d, P)
    BY <1>1, <2>1, <2>2 DEF ListFollows
  <2> QED BY <2>2, <2>3
<1> QED BY <1>2 DEF Follows

-----------------------------------------------------------------------------
(* The registries of the nodes against the chain.                          *)

\* Memory and disk against the first a transactions of c: what the node has left out is among
\* them, and the registries follow from the others.
BothFollow(c, a, out, volatile, memory, disk) ==
    /\ a <= Len(c)
    /\ out \subseteq 1 .. a
    /\ volatile \subseteq 1 .. a
    /\ Follows(memory, c, (1 .. a) \ out)
    /\ disk = None \/ Follows(disk, c, (1 .. a) \ (out \cup volatile))

NodeFollows(n) ==
    BothFollow(chain, applied[n], skipped[n], unsaved[n], registry[n], saved[n])

AllFollow == \A n \in Nodes : NodeFollows(n)

LEMMA AppliedPositions ==
    ASSUME NEW a \in Nat, NEW S
    PROVE  IsFiniteSet((1 .. a) \ S) /\ (1 .. a) \ S \in SUBSET Nat
<1>1. IsFiniteSet(1 .. a) /\ 1 .. a \in SUBSET Nat
  BY FS_Interval
<1> QED BY <1>1, FS_Difference

\* The next transaction applied to a registry.
LEMMA NextFollows ==
    ASSUME Types, AllFollow, NEW n \in Nodes, applied[n] < Len(chain)
    PROVE  Follows(Updated(registry[n], chain[applied[n] + 1]), chain,
                   ((1 .. applied[n]) \ skipped[n]) \cup {applied[n] + 1})
<1>1. PICK a, i, r, P, Q : /\ a = applied[n] /\ i = a + 1 /\ r = registry[n]
                           /\ P = (1 .. a) \ skipped[n] /\ Q = P \cup {i}
  OBVIOUS
<1>2. a \in Nat
  BY <1>1 DEF Types, RegistryTypes
<1>3. OneMorePosition(P, i, Q)
  <2>1. P \in SUBSET Nat /\ IsFiniteSet(P)
    BY <1>1, <1>2, AppliedPositions
  <2>2. \A j \in P : j \in 1 .. a
    BY <1>1
  <2>3. i \in Nat /\ \A j \in P : j < i
    BY <1>1, <1>2, <2>2
  <2> QED BY <1>1, <2>1, <2>3 DEF OneMorePosition
<1>4. chain[i] \in Transactions /\ Good(r)
  BY <1>1, NextGood
<1>5. Follows(r, chain, P)
  BY <1>1 DEF AllFollow, NodeFollows, BothFollow
<1>6. Follows(Updated(r, chain[i]), chain, Q)
  BY <1>3, <1>4, <1>5, UpdatedFollows
<1> QED BY <1>1, <1>6

LEMMA FollowStep == Types /\ [Next]_vars /\ AllFollow => AllFollow'
<1> SUFFICES ASSUME Types, [Next]_vars, AllFollow PROVE AllFollow'
  OBVIOUS
<1>1. CASE UNCHANGED <<chain, registryVars>>
  BY <1>1 DEF AllFollow, NodeFollows, registryVars
<1>2. ASSUME NEW k \in Nodes
      PROVE  /\ applied[k] \in Nat /\ Len(chain) \in Nat /\ NodeFollows(k)
             /\ skipped[k] \in SUBSET Nat /\ unsaved[k] \in SUBSET Nat
  BY DEF Types, RegistryTypes, NetworkTypes, AllFollow
<1>3. ASSUME NEW n \in Nodes, UNCHANGED chain, NodeFollows(n)',
             \A k \in Nodes \ {n} : /\ applied'[k] = applied[k] /\ skipped'[k] = skipped[k]
                                    /\ unsaved'[k] = unsaved[k] /\ registry'[k] = registry[k]
                                    /\ saved'[k] = saved[k]
      PROVE  AllFollow'
  <2>1. ASSUME NEW k \in Nodes, k # n PROVE NodeFollows(k)'
    BY <1>2, <1>3, <2>1 DEF NodeFollows
  <2> QED BY <1>3, <2>1 DEF AllFollow
<1>4. CASE Mine
  <2>1. PICK block \in Seq(Transactions) : chain' = chain \o block /\ UNCHANGED registryVars
    <3>1. PICK k \in 1 .. MaxInBlock : \E block \in [1 .. k -> published] :
             chain' = chain \o block /\ UNCHANGED registryVars
      BY <1>4 DEF Mine
    <3>2. PICK block \in [1 .. k -> published] : chain' = chain \o block /\ UNCHANGED registryVars
      BY <3>1
    <3>3. k \in Nat /\ published \subseteq Transactions
      BY StorageAssumption DEF Types, NetworkTypes
    <3>4. block \in Seq(Transactions)
      BY <3>2, <3>3
    <3> QED BY <3>2, <3>4
  <2>2. /\ Len(chain') \in Nat /\ Len(chain) <= Len(chain')
        /\ \A i \in 1 .. Len(chain) : chain'[i] = chain[i]
    BY <2>1 DEF Types, NetworkTypes
  <2>3. ASSUME NEW k \in Nodes PROVE NodeFollows(k)'
    <3>1. applied[k] <= Len(chain) /\ \A i \in 1 .. applied[k] : chain'[i] = chain[i]
      <4>1. PICK a : a = applied[k]
        OBVIOUS
      <4>2. a \in Nat /\ a <= Len(chain) /\ Len(chain) \in Nat
        BY <1>2, <4>1 DEF NodeFollows, BothFollow
      <4>3. \A i \in 1 .. a : i \in 1 .. Len(chain)
        BY <4>2
      <4> QED BY <2>2, <4>1, <4>2, <4>3
    <3>2. ASSUME NEW r, NEW S, Follows(r, chain, (1 .. applied[k]) \ S)
          PROVE  Follows(r, chain', (1 .. applied[k]) \ S)
      <4>1. PICK P : P = (1 .. applied[k]) \ S
        OBVIOUS
      <4>2. P \in SUBSET Nat /\ IsFiniteSet(P) /\ \A i \in P : chain'[i] = chain[i]
        BY <1>2, <3>1, <4>1, AppliedPositions
      <4>3. Follows(r, chain', P)
        BY <3>2, <4>1, <4>2, LongerChainFollows
      <4> QED BY <4>1, <4>3
    <3>3. /\ Follows(registry[k], chain', (1 .. applied[k]) \ skipped[k])
          /\ saved[k] = None
                \/ Follows(saved[k], chain', (1 .. applied[k]) \ (skipped[k] \cup unsaved[k]))
      BY <1>2, <3>2 DEF NodeFollows, BothFollow
    <3>4. applied[k] <= Len(chain')
      BY <1>2, <2>2, <3>1
    <3> QED BY <1>2, <2>1, <3>3, <3>4 DEF NodeFollows, BothFollow, registryVars
  <2> QED BY <2>3 DEF AllFollow
<1>5. ASSUME NEW n \in Nodes, UpdateFromBlock(n) PROVE AllFollow'
  <2>1. PICK r, a : r = Updated(registry[n], chain[applied[n] + 1]) /\ a = applied[n]
    OBVIOUS
  <2>2. /\ applied' = [applied EXCEPT ![n] = a + 1]
        /\ registry' = [registry EXCEPT ![n] = r] /\ saved' = [saved EXCEPT ![n] = r]
        /\ unsaved' = [unsaved EXCEPT ![n] = {}] /\ UNCHANGED <<skipped, chain>> /\ a < Len(chain)
    BY <1>5, <2>1 DEF UpdateFromBlock, networkVars
  <2>3. Follows(r, chain, ((1 .. a) \ skipped[n]) \cup {a + 1})
    BY <2>1, <2>2, NextFollows
  <2>4. a \in Nat /\ Len(chain) \in Nat /\ skipped[n] \subseteq 1 .. a
    BY <1>2, <2>1 DEF NodeFollows, BothFollow
  <2>5. ((1 .. a) \ skipped[n]) \cup {a + 1} = (1 .. a + 1) \ skipped[n]
    BY <2>4
  <2>6. /\ applied'[n] = a + 1 /\ registry'[n] = r /\ saved'[n] = r
        /\ unsaved'[n] = {} /\ skipped'[n] = skipped[n]
    BY <2>2 DEF Types, RegistryTypes
  <2>7. BothFollow(chain, a + 1, skipped[n], {}, r, r)
    <3>1. skipped[n] \cup {} = skipped[n] /\ a + 1 <= Len(chain) /\ skipped[n] \subseteq 1 .. a + 1
      BY <2>2, <2>4
    <3> QED BY <2>3, <2>5, <3>1 DEF BothFollow
  <2>8. NodeFollows(n)'
    BY <2>2, <2>6, <2>7 DEF NodeFollows
  <2> QED BY <1>3, <2>2, <2>8 DEF Types, RegistryTypes
<1>6. ASSUME NEW n \in Nodes, UpdateFromBlockFails(n) PROVE AllFollow'
  <2>1. PICK r, a : r = Updated(registry[n], chain[applied[n] + 1]) /\ a = applied[n]
    OBVIOUS
  <2>2. PICK e \in EndOfBlock(a + 1) :
           /\ applied' = [applied EXCEPT ![n] = e]
           /\ skipped' = [skipped EXCEPT ![n] = @ \cup (a + 1) + 1 .. e]
    BY <1>6, <2>1 DEF UpdateFromBlockFails
  <2>3. /\ registry' = [registry EXCEPT ![n] = r]
        /\ UNCHANGED chain /\ a < Len(chain)
        /\ \/ saved' = [saved EXCEPT ![n] = r] /\ unsaved' = [unsaved EXCEPT ![n] = {}]
           \/ /\ saved' = saved \/ saved' = [saved EXCEPT ![n] = None]
              /\ unsaved' = [unsaved EXCEPT ![n] = @ \cup {a + 1}]
    <3>1. /\ registry' = [registry EXCEPT ![n] = r] /\ registry'[n] = r
          /\ UNCHANGED chain /\ a < Len(chain)
      BY <1>6, <2>1 DEF UpdateFromBlockFails, networkVars, Types, RegistryTypes
    <3>2. \/ saved' = [saved EXCEPT ![n] = registry'[n]] /\ unsaved' = [unsaved EXCEPT ![n] = {}]
          \/ /\ saved' \in {saved, [saved EXCEPT ![n] = None]}
             /\ unsaved' = [unsaved EXCEPT ![n] = @ \cup {a + 1}]
      BY <1>6, <2>1, Zenon DEF UpdateFromBlockFails
    <3> QED BY <3>1, <3>2
  <2>4. Follows(r, chain, ((1 .. a) \ skipped[n]) \cup {a + 1})
    BY <2>1, <2>3, NextFollows
  <2>5. /\ a \in Nat /\ Len(chain) \in Nat /\ skipped[n] \subseteq 1 .. a
        /\ unsaved[n] \subseteq 1 .. a /\ e \in a + 1 .. Len(chain)
        /\ saved[n] = None \/ Follows(saved[n], chain, (1 .. a) \ (skipped[n] \cup unsaved[n]))
    BY <1>2, <2>1, <2>2 DEF NodeFollows, BothFollow, EndOfBlock
  <2>6. PICK s, w : s = skipped[n] \cup (a + 1) + 1 .. e /\ w = unsaved[n] \cup {a + 1}
    OBVIOUS
  <2>7. s \subseteq 1 .. e /\ w \subseteq 1 .. e
    BY <2>5, <2>6
  <2>8. (1 .. e) \ s = ((1 .. a) \ skipped[n]) \cup {a + 1}
    BY <2>5, <2>6
  <2>9. (1 .. e) \ (s \cup w) = (1 .. a) \ (skipped[n] \cup unsaved[n])
    BY <2>5, <2>6
  <2>10. /\ applied'[n] = e /\ registry'[n] = r /\ skipped'[n] = s
         /\ \/ saved'[n] = r /\ unsaved'[n] = {}
            \/ saved'[n] \in {saved[n], None} /\ unsaved'[n] = w
    BY <2>2, <2>3, <2>6 DEF Types, RegistryTypes
  <2>11. BothFollow(chain, e, s, {}, r, r) /\ \A d \in {saved[n], None} : BothFollow(chain, e, s, w, r, d)
    <3>1. e <= Len(chain) /\ s \cup {} = s
      BY <2>5
    <3> QED BY <2>4, <2>5, <2>7, <2>8, <2>9, <3>1 DEF BothFollow
  <2>12. NodeFollows(n)'
    BY <2>3, <2>10, <2>11 DEF NodeFollows
  <2>13. \A k \in Nodes \ {n} : saved'[k] = saved[k] /\ unsaved'[k] = unsaved[k]
    BY <2>3 DEF Types, RegistryTypes
  <2> QED BY <1>3, <2>2, <2>3, <2>12, <2>13 DEF Types, RegistryTypes
<1>7. ASSUME NEW n \in Nodes, Restart(n) PROVE AllFollow'
  <2>1. PICK a : a = applied[n]
    OBVIOUS
  <2>2. PICK e \in EndOfBlock(a + 1) \cup {a} :
           /\ applied' = [applied EXCEPT ![n] = e]
           /\ skipped' = [skipped EXCEPT ![n] = @ \cup unsaved[n] \cup a + 1 .. e]
    BY <1>7, <2>1 DEF Restart
  <2>3. /\ registry' = [registry EXCEPT ![n] = saved[n]]
        /\ unsaved' = [unsaved EXCEPT ![n] = {}] /\ UNCHANGED <<saved, chain>> /\ saved[n] # None
    BY <1>7 DEF Restart, networkVars
  <2>4. /\ a \in Nat /\ Len(chain) \in Nat /\ skipped[n] \subseteq 1 .. a
        /\ unsaved[n] \subseteq 1 .. a /\ e \in a .. Len(chain)
        /\ Follows(saved[n], chain, (1 .. a) \ (skipped[n] \cup unsaved[n]))
    <3>1. /\ a \in Nat /\ Len(chain) \in Nat /\ skipped[n] \subseteq 1 .. a
          /\ unsaved[n] \subseteq 1 .. a /\ a <= Len(chain)
          /\ Follows(saved[n], chain, (1 .. a) \ (skipped[n] \cup unsaved[n]))
      BY <1>2, <2>1, <2>3 DEF NodeFollows, BothFollow
    <3>2. e \in a .. Len(chain)
      <4>1. CASE e = a
        BY <3>1, <4>1
      <4>2. CASE e \in EndOfBlock(a + 1)
        <5>1. e \in a + 1 .. Len(chain)
          BY <4>2 DEF EndOfBlock
        <5> QED BY <3>1, <5>1
      <4> QED BY <2>2, <4>1, <4>2
    <3> QED BY <3>1, <3>2
  <2>5. PICK s : s = skipped[n] \cup unsaved[n] \cup a + 1 .. e
    OBVIOUS
  <2>6. s \subseteq 1 .. e
    BY <2>4, <2>5
  <2>7. (1 .. e) \ s = (1 .. a) \ (skipped[n] \cup unsaved[n])
    BY <2>4, <2>5
  <2>8. /\ applied'[n] = e /\ registry'[n] = saved[n] /\ saved'[n] = saved[n]
        /\ unsaved'[n] = {} /\ skipped'[n] = s
    BY <2>2, <2>3, <2>5 DEF Types, RegistryTypes
  <2>9. s \cup {} = s
    OBVIOUS
  <2>10. BothFollow(chain, e, s, {}, saved[n], saved[n])
    <3>1. e <= Len(chain)
      BY <2>4
    <3> QED BY <2>4, <2>6, <2>7, <2>9, <3>1 DEF BothFollow
  <2>11. NodeFollows(n)'
    BY <2>3, <2>8, <2>10 DEF NodeFollows
  <2> QED BY <1>3, <2>2, <2>3, <2>11 DEF Types, RegistryTypes
<1>8. ASSUME NEW n \in Nodes, NodeStep(n) PROVE AllFollow'
  <2>1. CASE HandlerStep(n) \/ PublishResponse(n) \/ CollectSome(n)
    <3>1. UNCHANGED <<chain, registryVars>>
      BY <2>1, Zenon
         DEF HandlerStep, RefuseAnnouncement, AcceptAnnouncement, Fetch, FetchFails, MoveFile,
             MoveFileFails, PinFile, PinFileFails, SendToPublisher, Proceed, PublishResponse,
             CollectSome, Collect, ReachList, ReadEntry,
           ReadDirectory, ReadDirectoryFails, RemoveNext, Becomes, networkVars
    <3> QED BY <1>1, <3>1
  <2> QED BY <1>5, <1>6, <1>7, <1>8, <2>1 DEF NodeStep
<1>9. CASE \/ \E f \in Files : SendFile(f)
           \/ \E u \in Owners : ClientStep(u)
           \/ UNCHANGED vars
  <2>1. UNCHANGED <<chain, registryVars>>
    BY <1>9, Zenon DEF ClientStep, SendFile, ReceiveFiles, DeleteFile, vars, networkVars
  <2> QED BY <1>1, <2>1
<1> QED BY <1>4, <1>8, <1>9 DEF Next

LEMMA FollowsInvariant == Spec => []AllFollow
<1>1. Init => AllFollow
  <2> SUFFICES ASSUME Init, NEW n \in Nodes PROVE NodeFollows(n)
    BY DEF AllFollow
  <2>1. /\ applied[n] = 0 /\ chain = <<>> /\ skipped[n] = {} /\ unsaved[n] = {}
        /\ registry[n] = EmptyRegistry /\ saved[n] = EmptyRegistry
    BY DEF Init
  <2>2. (1 .. 0) \ {} = {} /\ {} \cup {} = {} /\ Len(chain) = 0
    BY <2>1
  <2> QED BY <2>1, <2>2, EmptyFollows DEF NodeFollows, BothFollow
<1>2. Types /\ Types' /\ AllFollow /\ [Next]_vars => AllFollow'
  BY FollowStep
<1> QED BY <1>1, <1>2, TypesInvariant, PTL DEF Spec

\* Add and Delete, in place and from first matches, keep every node's registry what the
\* transactions say that it applied, in memory and on disk, for any faults and crashes.
THEOREM RegistryIsChain == Spec => []RegistryFollowsChain
<1>1. Types /\ AllFollow => RegistryFollowsChain
  <2> SUFFICES ASSUME Types, AllFollow, NEW n \in Nodes
               PROVE  /\ RegistryIs(registry[n], chain, (1 .. applied[n]) \ skipped[n])
                      /\ saved[n] = None
                            \/ RegistryIs(saved[n], chain,
                                          (1 .. applied[n]) \ (skipped[n] \cup unsaved[n]))
    BY DEF RegistryFollowsChain
  <2>1. Good(registry[n]) /\ (saved[n] # None => Good(saved[n]))
    BY DEF Types, RegistryTypes, EntriesUnique, Good
  <2> QED BY <2>1, FollowsIs DEF AllFollow, NodeFollows, BothFollow
<1> QED BY <1>1, TypesInvariant, FollowsInvariant, PTL
-----------------------------------------------------------------------------
(* The space of the files in a datastore, a sum in which each file counts once. *)

LEMMA SizeAssumption == Size \in [Files -> Nat]
BY StorageAssumption

\* Induction over sets of numbers, from the order of the naturals being well-founded.
LEMMA LeastNumber ==
    ASSUME NEW T, T \subseteq Nat, T # {}
    PROVE  \E n \in T : \A m \in T : n <= m
<1> DEFINE R == OpToRel(<, Nat)
<1>1. IsWellFoundedOn(R, Nat)
      BY NatLessThanWellFounded
<1>2. R = {ss \in Nat \X Nat : ss[1] < ss[2]}
      BY DEF OpToRel
<1> HIDE DEF R
<1>3. PICK n \in T : \A m \in T : <<m, n>> \notin R
      BY <1>1, WFMin
<1>4. \A m \in T : ~(m < n)
      BY <1>2, <1>3
<1> QED BY <1>4

LEMMA NatInductionOnSet ==
    ASSUME NEW T, 0 \in T, \A n \in T : n \in Nat => n + 1 \in T
    PROVE  Nat \subseteq T
<1> SUFFICES ASSUME Nat \ T # {} PROVE FALSE
    OBVIOUS
<1>1. PICK n \in Nat \ T : \A m \in Nat \ T : n <= m
      BY LeastNumber
<1>2. n - 1 \in Nat /\ n - 1 \in T
      BY <1>1
<1>3. (n - 1) + 1 \in T
      BY <1>2
<1> QED BY <1>1, <1>3

\* The fold takes its elements in the order of CHOOSE.
Taken(s) == CHOOSE x \in s : TRUE

\* g is the fold, as a function of the subsets of U.
Sums(g, U) ==
    g = [s \in SUBSET U |-> IF s = {} THEN 0 ELSE Size[Taken(s)] + g[s \ {Taken(s)}]]

LEMMA SpaceIsFold == \A S : SpaceOf(S) = (CHOOSE g : Sums(g, S))[S]
<1> SUFFICES ASSUME NEW S PROVE SpaceOf(S) = (CHOOSE g : Sums(g, S))[S]
    OBVIOUS
<1> QED BY Zenon DEF SpaceOf, MapThenSumSet, MapThenFoldSet, Sums, Taken

\* Induction over the subsets of a finite set: from the sets with one element less.
LEMMA SubsetInduction ==
    ASSUME NEW U, IsFiniteSet(U), NEW T,
           \A s \in SUBSET U : (\A y \in s : s \ {y} \in T) => s \in T
    PROVE  SUBSET U \subseteq T
<1> SUFFICES ASSUME (SUBSET U) \ T # {} PROVE FALSE
    OBVIOUS
<1>1. \A s \in SUBSET U : IsFiniteSet(s) /\ Cardinality(s) \in Nat
      BY FS_Subset, FS_CardinalityType
<1> DEFINE sizes == {Cardinality(s) : s \in (SUBSET U) \ T}
<1>2. sizes \subseteq Nat /\ sizes # {}
      BY <1>1
<1>3. PICK n \in sizes : \A m \in sizes : n <= m
      BY <1>2, LeastNumber
<1>4. PICK s \in (SUBSET U) \ T : Cardinality(s) = n
      BY <1>3
<1>5. ASSUME NEW y \in s PROVE s \ {y} \in T
  <2>1. Cardinality(s \ {y}) = n - 1 /\ s \ {y} \in SUBSET U
        BY <1>1, <1>4, FS_RemoveElement
  <2>2. n - 1 \notin sizes
    <3> HIDE DEF sizes
    <3> QED BY <1>2, <1>3
  <2> QED BY <2>1, <2>2
<1> QED BY <1>4, <1>5

\* One unrolling of the fold at the set s.
Unrolled(g, s) == IF s = {} THEN 0 ELSE Size[Taken(s)] + g[s \ {Taken(s)}]

LEMMA SumsExist ==
    ASSUME NEW U, IsFiniteSet(U) PROVE \E g : Sums(g, U)
<1> DEFINE Small(n) == {s \in SUBSET U : Cardinality(s) <= n}
           Upto(g, n) == g = [s \in Small(n) |-> Unrolled(g, s)]
           T == {n \in Nat : \E g : Upto(g, n)}
<1>1. \A s \in SUBSET U : IsFiniteSet(s) /\ Cardinality(s) \in Nat
      BY FS_Subset, FS_CardinalityType
<1>2. 0 \in T
  <2>1. \A s \in Small(0) : s = {}
        BY <1>1, FS_EmptySet
  <2>2. Upto([s \in Small(0) |-> 0], 0)
        BY <2>1 DEF Unrolled
  <2> QED BY <2>2
<1>3. ASSUME NEW n \in T PROVE n + 1 \in T
  <2>1. PICK g : Upto(g, n)
        OBVIOUS
  <2> DEFINE h == [s \in Small(n + 1) |-> Unrolled(g, s)]
  <2>2. ASSUME NEW s \in Small(n) PROVE s \in Small(n + 1) /\ h[s] = g[s]
    <3>1. s \in Small(n + 1)
          BY <1>1
    <3>2. g[s] = Unrolled(g, s)
          BY <2>1
    <3> QED BY <3>1, <3>2
  <2>3. ASSUME NEW s \in Small(n + 1) PROVE Unrolled(g, s) = Unrolled(h, s)
    <3>1. CASE s = {}
          BY <3>1 DEF Unrolled
    <3>2. CASE s # {}
      <4>1. Taken(s) \in s
            BY <3>2 DEF Taken
      <4>2. Cardinality(s \ {Taken(s)}) = Cardinality(s) - 1
            BY <1>1, <4>1, FS_RemoveElement
      <4>3. s \ {Taken(s)} \in Small(n)
            BY <1>1, <4>2
      <4> QED BY <2>2, <4>3 DEF Unrolled
    <3> QED BY <3>1, <3>2
  <2>4. Upto(h, n + 1)
        BY <2>3
  <2> HIDE DEF h, Upto
  <2> QED BY <2>4
<1>4. Nat \subseteq T
      BY <1>2, <1>3, NatInductionOnSet
<1>5. Cardinality(U) \in T
      BY <1>1, <1>4
<1>6. Small(Cardinality(U)) = SUBSET U
      BY <1>1, FS_Subset
<1>7. PICK g : Upto(g, Cardinality(U))
      BY <1>5
<1>8. Sums(g, U)
      BY <1>6, <1>7 DEF Sums, Unrolled
<1> QED BY <1>8

LEMMA SumsUnroll ==
    ASSUME NEW g, NEW U, Sums(g, U), NEW s \in SUBSET U
    PROVE  g[s] = Unrolled(g, s)
BY DEF Sums, Unrolled

LEMMA SumsType ==
    ASSUME NEW g, NEW U, U \subseteq Files, IsFiniteSet(U), Sums(g, U)
    PROVE  \A s \in SUBSET U : g[s] \in Nat
<1> DEFINE T == {s \in SUBSET U : g[s] \in Nat}
<1>1. ASSUME NEW s \in SUBSET U, \A y \in s : s \ {y} \in T PROVE s \in T
  <2>1. s # {} => Taken(s) \in s
        BY DEF Taken
  <2>2. g[s] = IF s = {} THEN 0 ELSE Size[Taken(s)] + g[s \ {Taken(s)}]
        BY SumsUnroll DEF Unrolled
  <2>3. s # {} => g[s \ {Taken(s)}] \in Nat /\ Size[Taken(s)] \in Nat
        BY <1>1, <2>1, SizeAssumption
  <2> QED BY <2>2, <2>3
<1>2. \A s \in SUBSET U : (\A y \in s : s \ {y} \in T) => s \in T
      BY <1>1
<1> HIDE DEF T
<1>3. SUBSET U \subseteq T
      BY <1>2, SubsetInduction
<1> QED BY <1>3 DEF T

\* What a set adds up to does not depend on the set it is looked at in.
LEMMA SumsAgree ==
    ASSUME NEW g, NEW U, NEW h, NEW V, IsFiniteSet(U), U \subseteq V, Sums(g, U), Sums(h, V)
    PROVE  \A s \in SUBSET U : g[s] = h[s]
<1> DEFINE T == {s \in SUBSET U : g[s] = h[s]}
<1>1. ASSUME NEW s \in SUBSET U, \A y \in s : s \ {y} \in T PROVE s \in T
  <2>1. s # {} => Taken(s) \in s
        BY DEF Taken
  <2>2. g[s] = Unrolled(g, s) /\ h[s] = Unrolled(h, s)
        BY SumsUnroll
  <2> QED BY <1>1, <2>1, <2>2 DEF Unrolled
<1>2. \A s \in SUBSET U : (\A y \in s : s \ {y} \in T) => s \in T
      BY <1>1
<1> HIDE DEF T
<1>3. SUBSET U \subseteq T
      BY <1>2, SubsetInduction
<1> QED BY <1>3 DEF T

\* The order in which the elements are taken does not matter.
LEMMA SumsExchange ==
    ASSUME NEW g, NEW U, U \subseteq Files, IsFiniteSet(U), Sums(g, U)
    PROVE  \A s \in SUBSET U : \A x \in s : g[s] = Size[x] + g[s \ {x}]
<1> DEFINE T == {s \in SUBSET U : \A x \in s : g[s] = Size[x] + g[s \ {x}]}
<1>1. ASSUME NEW s \in SUBSET U, \A y \in s : s \ {y} \in T, NEW x \in s
      PROVE  g[s] = Size[x] + g[s \ {x}]
  <2> DEFINE c == Taken(s)
  <2>1. c \in s
        BY DEF Taken
  <2>2. g[s] = Size[c] + g[s \ {c}]
        BY SumsUnroll DEF Unrolled
  <2> HIDE DEF c
  <2>3. CASE c # x
    <3> DEFINE r == s \ {c, x}
    <3>1. (s \ {c}) \ {x} = r /\ (s \ {x}) \ {c} = r
          OBVIOUS
    <3>2. g[s \ {c}] = Size[x] + g[r] /\ g[s \ {x}] = Size[c] + g[r]
          BY <1>1, <2>1, <2>3, <3>1
    <3>3. g[r] \in Nat /\ Size[c] \in Nat /\ Size[x] \in Nat
          BY <2>1, SumsType, SizeAssumption
    <3> QED BY <2>2, <3>2, <3>3
  <2> QED BY <2>2, <2>3
<1>2. \A s \in SUBSET U : (\A y \in s : s \ {y} \in T) => s \in T
      BY <1>1
<1> HIDE DEF T
<1>3. SUBSET U \subseteq T
      BY <1>2, SubsetInduction
<1> QED BY <1>3 DEF T

LEMMA SpaceOfProperties ==
    ASSUME NEW S, S \subseteq Files, IsFiniteSet(S)
    PROVE  /\ SpaceOf({}) = 0
           /\ SpaceOf(S) \in Nat
           /\ \A x \in Files \ S : SpaceOf(S \cup {x}) = SpaceOf(S) + Size[x]
<1>1. ASSUME NEW U, U \subseteq Files, IsFiniteSet(U)
      PROVE  \E g : Sums(g, U) /\ SpaceOf(U) = g[U]
      BY <1>1, SumsExist, SpaceIsFold
<1>2. PICK g : Sums(g, S) /\ SpaceOf(S) = g[S]
      BY <1>1
<1>3. SpaceOf({}) = 0
  <2>1. PICK e : Sums(e, {}) /\ SpaceOf({}) = e[{}]
        BY <1>1, FS_EmptySet
  <2> QED BY <2>1, SumsUnroll DEF Unrolled
<1>4. ASSUME NEW x \in Files \ S PROVE SpaceOf(S \cup {x}) = SpaceOf(S) + Size[x]
  <2> DEFINE U == S \cup {x}
  <2>1. IsFiniteSet(U) /\ U \subseteq Files
        BY FS_AddElement
  <2>2. PICK h : Sums(h, U) /\ SpaceOf(U) = h[U]
        BY <1>1, <2>1
  <2>3. g[S] = h[S]
        BY <1>2, <2>2, SumsAgree
  <2>4. h[U] = Size[x] + h[S]
    <3>1. U \ {x} = S /\ U \in SUBSET U /\ x \in U
          OBVIOUS
    <3> HIDE DEF U
    <3>2. \A s \in SUBSET U : \A y \in s : h[s] = Size[y] + h[s \ {y}]
          BY <2>1, <2>2, SumsExchange
    <3> QED BY <3>1, <3>2
  <2>5. g[S] \in Nat /\ Size[x] \in Nat
        BY <1>2, SumsType, SizeAssumption
  <2> HIDE DEF U
  <2>6. SpaceOf(U) = SpaceOf(S) + Size[x]
        BY <1>2, <2>2, <2>3, <2>4, <2>5
  <2> QED BY <2>6 DEF U
<1>5. SpaceOf(S) \in Nat
      BY <1>2, SumsType
<1> QED BY <1>3, <1>4, <1>5

\* Adding a file that is there already takes no space.
LEMMA OneFileMore ==
    ASSUME NEW S, S \subseteq Files, IsFiniteSet(S), NEW f \in Files
    PROVE  /\ SpaceOf(S) \in Nat /\ SpaceOf(S \cup {f}) \in Nat
           /\ SpaceOf(S) <= SpaceOf(S \cup {f})
           /\ SpaceOf(S \cup {f}) <= SpaceOf(S) + Size[f]
<1>1. SpaceOf(S) \in Nat /\ Size[f] \in Nat
  BY SpaceOfProperties, SizeAssumption
<1>2. CASE f \in S
  <2>1. S \cup {f} = S
    BY <1>2
  <2> QED BY <1>1, <2>1
<1>3. CASE f \notin S
  <2>1. SpaceOf(S \cup {f}) = SpaceOf(S) + Size[f]
    BY <1>3, SpaceOfProperties
  <2> QED BY <1>1, <2>1
<1> QED BY <1>2, <1>3

\* What a difference of unsigned numbers gives while it does not wrap around.
LEMMA NoWrap ==
    ASSUME NEW c \in Nat, NEW o \in Nat, NEW m \in Nat, c < m, o <= c
    PROVE  (c + m - o) % m = c - o
<1>1. ASSUME NEW x \in Nat, x < m PROVE (x + m) % m = x
  BY <1>1
<1>2. c - o \in Nat /\ c - o < m /\ c + m - o = (c - o) + m
  OBVIOUS
<1>3. ((c - o) + m) % m = c - o
  BY <1>1, <1>2
<1> QED BY <1>2, <1>3

\* A block takes its space in a datastore once the node has come to its transactions.
BlocksIn(n) == {i \in opens : i <= applied[n]}

BlockSpace(n) == BlockSize * Cardinality(BlocksIn(n))

\* What is downloaded, with the file whose fetching began.
Downloads(n) == SpaceOf(cached[n]) + (IF phase[n] = "fetch" THEN Size[current[n]] ELSE 0)

FiniteCaches == \A n \in Nodes : IsFiniteSet(cached[n])

Parts(n) ==
    /\ SpaceOf(cached[n]) \in Nat /\ Downloads(n) \in Nat /\ BlockSpace(n) \in Nat
    /\ Occupied(n) = SpaceOf(cached[n]) + BlockSpace(n)
    /\ Needed(n) = Downloads(n) + BlockSpace(n)
    /\ SpaceOf(cached[n]) <= Downloads(n)

LEMMA NeededParts == Types /\ FiniteCaches => \A n \in Nodes : Parts(n)
<1> SUFFICES ASSUME Types, FiniteCaches, NEW n \in Nodes PROVE Parts(n)
  OBVIOUS
<1>1. /\ cached[n] \subseteq Files /\ applied[n] \in Nat /\ opens \subseteq Nat
      /\ phase[n] = "fetch" => current[n] \in Files
  BY StorageAssumption DEF Types, HandlerTypes, RegistryTypes, NetworkTypes
<1>2. SpaceOf(cached[n]) \in Nat
  BY <1>1, SpaceOfProperties DEF FiniteCaches
<1>3. Cardinality(BlocksIn(n)) \in Nat
  <2>1. IsFiniteSet(0 .. applied[n])
    BY <1>1, FS_Interval
  <2>2. PICK a, o : a = applied[n] /\ o = opens
    OBVIOUS
  <2>3. \A i \in o : i <= a => i \in 0 .. a
    BY <1>1, <2>2
  <2>4. BlocksIn(n) \subseteq 0 .. a
    BY <2>2, <2>3 DEF BlocksIn
  <2> QED BY <2>1, <2>2, <2>4, FS_Subset, FS_CardinalityType
<1>4. BlockSpace(n) \in Nat
  <2>1. PICK b, k : b = BlockSize /\ k = Cardinality(BlocksIn(n))
    OBVIOUS
  <2>2. b \in Nat /\ k \in Nat
    BY <1>3, <2>1, StorageAssumption
  <2>3. b * k \in Nat
    BY <2>2
  <2> QED BY <2>1, <2>3 DEF BlockSpace
<1>5. Occupied(n) = SpaceOf(cached[n]) + BlockSpace(n)
  BY DEF Occupied, BlockSpace, BlocksIn
<1>6. CASE phase[n] = "fetch"
  <2>1. Size[current[n]] \in Nat
    BY <1>1, <1>6, SizeAssumption
  <2> QED BY <1>2, <1>4, <1>5, <1>6, <2>1 DEF Parts, Downloads, Needed
<1>7. CASE phase[n] # "fetch"
  BY <1>2, <1>4, <1>5, <1>7 DEF Parts, Downloads, Needed
<1> QED BY <1>6, <1>7

LEMMA PartsAfter == (Types /\ FiniteCaches => \A n \in Nodes : Parts(n))'
BY NeededParts, PTL

\* Where a position that a node comes to does not begin a block, no block is published.
LEMMA BlocksStay ==
    ASSUME Types, AllFollow, [Next]_vars, NEW n \in Nodes,
           \A i \in opens : ~(applied[n] < i /\ i <= applied'[n])
    PROVE  BlockSpace(n)' = BlockSpace(n)
<1>1. applied[n] \in Nat /\ opens \subseteq Nat /\ applied[n] <= Len(chain) /\ Len(chain) \in Nat
  <2>1. applied[n] \in Nat /\ opens \subseteq Nat /\ Len(chain) \in Nat
    BY DEF Types, RegistryTypes, NetworkTypes
  <2>2. applied[n] <= Len(chain)
    BY DEF AllFollow, NodeFollows, BothFollow
  <2> QED BY <2>1, <2>2
<1>2. CASE UNCHANGED <<opens, applied>>
  BY <1>2 DEF BlockSpace, BlocksIn
<1>3. CASE Mine
  <2>1. opens' = opens \cup {Len(chain) + 1} /\ applied' = applied
    BY <1>3 DEF Mine, registryVars
  <2>2. BlocksIn(n)' = BlocksIn(n)
    BY <1>1, <2>1 DEF BlocksIn
  <2> QED BY <2>2 DEF BlockSpace
<1>4. ASSUME NEW k \in Nodes,
             UpdateFromBlock(k) \/ UpdateFromBlockFails(k) \/ Restart(k)
      PROVE  BlockSpace(n)' = BlockSpace(n)
  <2>1. opens' = opens
    BY <1>4 DEF UpdateFromBlock, UpdateFromBlockFails, Restart, networkVars
  <2>2. applied'[n] \in Nat /\ applied[n] <= applied'[n]
    <3>1. CASE UpdateFromBlock(k)
      BY <1>1, <3>1 DEF UpdateFromBlock, Types, RegistryTypes
    <3>2. CASE UpdateFromBlockFails(k) \/ Restart(k)
      <4>1. applied[k] \in Nat
        BY DEF Types, RegistryTypes
      <4>2. PICK e \in EndOfBlock(applied[k] + 1) \cup {applied[k]} :
               applied' = [applied EXCEPT ![k] = e]
        BY <3>2 DEF UpdateFromBlockFails, Restart
      <4>3. e \in Nat /\ applied[k] <= e
        BY <1>1, <4>1, <4>2 DEF EndOfBlock
      <4> QED BY <1>1, <4>2, <4>3 DEF Types, RegistryTypes
    <3> QED BY <1>4, <3>1, <3>2
  <2>3. ASSUME NEW i \in opens PROVE i <= applied'[n] <=> i <= applied[n]
    <3>1. ~(applied[n] < i /\ i <= applied'[n]) /\ i \in Nat
      BY <1>1
    <3> QED BY <1>1, <2>2, <3>1
  <2>4. BlocksIn(n)' = BlocksIn(n)
    BY <2>1, <2>3 DEF BlocksIn
  <2> QED BY <2>4 DEF BlockSpace
<1>5. CASE \/ \E f \in Files : SendFile(f)
           \/ \E u \in Owners : ClientStep(u)
           \/ UNCHANGED vars
  <2>1. UNCHANGED <<opens, registryVars>>
    BY <1>5, Zenon DEF ClientStep, SendFile, ReceiveFiles, DeleteFile, vars, networkVars
  <2> QED BY <1>2, <2>1 DEF registryVars
<1>6. ASSUME NEW k \in Nodes, HandlerStep(k) \/ PublishResponse(k) \/ CollectSome(k)
      PROVE  BlockSpace(n)' = BlockSpace(n)
  <2>1. CASE HandlerStep(k)
    <3>1. UNCHANGED <<networkVars, registryVars>>
      BY <2>1, Zenon
         DEF HandlerStep, RefuseAnnouncement, AcceptAnnouncement, Fetch, FetchFails, MoveFile,
             MoveFileFails, PinFile, PinFileFails, SendToPublisher, Proceed
    <3> QED BY <1>2, <3>1 DEF networkVars, registryVars
  <2>2. CASE PublishResponse(k) \/ CollectSome(k)
    <3>1. UNCHANGED <<opens, registryVars>>
      BY <2>2, Zenon
         DEF PublishResponse, CollectSome, Collect, ReachList, ReadEntry, ReadDirectory,
             ReadDirectoryFails, RemoveNext, Becomes, networkVars
    <3> QED BY <1>2, <3>1 DEF registryVars
  <2> QED BY <1>6, <2>1, <2>2
<1> QED BY <1>3, <1>4, <1>5, <1>6 DEF Next, NodeStep

\* The steps of a datastore: the files stay, or the one whose fetching began comes or is given
\* up, or an announcement is accepted.
FilesStay(n) ==
    /\ cached'[n] = cached[n]
    /\ phase'[n] = "fetch" => phase[n] = "fetch" /\ current'[n] = current[n]

FetchEnds(n) ==
    /\ phase[n] = "fetch" /\ phase'[n] # "fetch"
    /\ cached'[n] \in {cached[n], cached[n] \cup {current[n]}}

LEMMA DatastoreSteps ==
    ASSUME Types, [Next]_vars, NEW n \in Nodes
    PROVE  FilesStay(n) \/ FetchEnds(n) \/ \E f \in Files : AcceptAnnouncement(n, f)
<1> DEFINE Goal == FilesStay(n) \/ FetchEnds(n) \/ \E f \in Files : AcceptAnnouncement(n, f)
<1> USE DEF Types, HandlerTypes
<1>1. CASE cached'[n] = cached[n] /\ phase'[n] = phase[n] /\ current'[n] = current[n]
  BY <1>1 DEF FilesStay
<1>2. ASSUME NEW k \in Nodes, NEW f \in Files, AcceptAnnouncement(k, f) PROVE Goal
  BY <1>1, <1>2 DEF AcceptAnnouncement
<1>3. ASSUME NEW k \in Nodes, Fetch(k) \/ FetchFails(k) PROVE Goal
  <2>1. /\ phase[k] = "fetch" /\ phase'[k] # "fetch"
        /\ cached'[k] \in {cached[k], cached[k] \cup {current[k]}}
        /\ \A j \in Nodes \ {k} :
              cached'[j] = cached[j] /\ phase'[j] = phase[j] /\ current'[j] = current[j]
    BY <1>3 DEF Fetch, FetchFails, Proceed
  <2> QED BY <1>1, <2>1 DEF FetchEnds
<1>4. ASSUME NEW k \in Nodes, MoveFile(k) \/ MoveFileFails(k) \/ PinFile(k) \/ PinFileFails(k)
                              \/ SendToPublisher(k)
      PROVE  Goal
  <2>1. UNCHANGED cached /\ \E to \in {"pin", "send", "idle"} : phase' = [phase EXCEPT ![k] = to]
    BY <1>4 DEF MoveFile, MoveFileFails, PinFile, PinFileFails, SendToPublisher, Proceed
  <2>2. \A j \in Nodes \ {k} : current'[j] = current[j]
    BY <1>4 DEF MoveFile, MoveFileFails, PinFile, PinFileFails, SendToPublisher, Proceed
  <2> QED BY <2>1, <2>2 DEF FilesStay
<1>5. ASSUME NEW k \in Nodes, Restart(k) PROVE Goal
  BY <1>5 DEF Restart, FilesStay
<1>6. ASSUME NEW k \in Nodes, NodeStep(k) PROVE Goal
  <2>1. CASE \/ PublishResponse(k) \/ UpdateFromBlock(k) \/ UpdateFromBlockFails(k)
             \/ CollectSome(k) \/ \E f \in Files : RefuseAnnouncement(k, f)
    <3>1. UNCHANGED <<cached, phase, current>>
      BY <2>1, Zenon
         DEF PublishResponse, UpdateFromBlock, UpdateFromBlockFails, CollectSome, Collect, ReachList,
             ReadEntry, ReadDirectory, ReadDirectoryFails, RemoveNext, Becomes,
             RefuseAnnouncement, handlerVars
    <3> QED BY <1>1, <3>1
  <2> QED BY <1>2, <1>3, <1>4, <1>5, <1>6, <2>1 DEF NodeStep, HandlerStep
<1>7. CASE \/ \E f \in Files : SendFile(f)
           \/ \E u \in Owners : ClientStep(u)
           \/ Mine
           \/ UNCHANGED vars
  <2>1. UNCHANGED handlerVars
    BY <1>7, Zenon DEF ClientStep, SendFile, ReceiveFiles, DeleteFile, Mine, vars
  <2> QED BY <1>1, <2>1 DEF handlerVars
<1> QED BY <1>6, <1>7 DEF Next

LEMMA FiniteStep == Types /\ FiniteCaches /\ [Next]_vars => FiniteCaches'
<1> SUFFICES ASSUME Types, FiniteCaches, [Next]_vars, NEW n \in Nodes PROVE IsFiniteSet(cached'[n])
  BY DEF FiniteCaches
<1>1. IsFiniteSet(cached[n]) /\ IsFiniteSet(cached[n] \cup {current[n]})
  BY FS_AddElement DEF FiniteCaches
<1>2. cached'[n] \in {cached[n], cached[n] \cup {current[n]}}
  BY DatastoreSteps DEF FilesStay, FetchEnds, AcceptAnnouncement
<1> QED BY <1>1, <1>2

\* What is downloaded grows only where an announcement is accepted: from then on its file counts.
LEMMA DownloadsStep ==
    ASSUME Types, FiniteCaches, NEW n \in Nodes, FilesStay(n) \/ FetchEnds(n)
    PROVE  Downloads(n)' <= Downloads(n)
<1>1. SpaceOf(cached[n]) \in Nat /\ Downloads(n) \in Nat /\ SpaceOf(cached[n]) <= Downloads(n)
  BY NeededParts DEF Parts
<1>2. CASE FilesStay(n)
  <2>1. CASE phase'[n] = "fetch"
    BY <1>1, <1>2, <2>1 DEF FilesStay, Downloads
  <2>2. CASE phase'[n] # "fetch"
    <3>1. Downloads(n)' = SpaceOf(cached[n]) + 0
      BY <1>2, <2>2 DEF FilesStay, Downloads
    <3> QED BY <1>1, <3>1
  <2> QED BY <2>1, <2>2
<1>3. CASE FetchEnds(n)
  <2>1. cached[n] \subseteq Files /\ current[n] \in Files /\ IsFiniteSet(cached[n])
    BY <1>3, StorageAssumption DEF FetchEnds, FiniteCaches, Types, HandlerTypes
  <2>2. /\ SpaceOf(cached[n] \cup {current[n]}) \in Nat /\ Size[current[n]] \in Nat
        /\ SpaceOf(cached[n] \cup {current[n]}) <= SpaceOf(cached[n]) + Size[current[n]]
    BY <2>1, OneFileMore, SizeAssumption
  <2>3. Downloads(n) = SpaceOf(cached[n]) + Size[current[n]]
    BY <1>3 DEF FetchEnds, Downloads
  <2>4. Downloads(n)' = SpaceOf(cached'[n]) + 0
    BY <1>3 DEF FetchEnds, Downloads
  <2>5. SpaceOf(cached'[n]) \in Nat /\ SpaceOf(cached'[n]) <= Downloads(n)
    <3>1. CASE cached'[n] = cached[n]
      BY <1>1, <3>1
    <3>2. CASE cached'[n] = cached[n] \cup {current[n]}
      BY <2>2, <2>3, <3>2
    <3> QED BY <1>3, <3>1, <3>2 DEF FetchEnds
  <2> QED BY <2>4, <2>5
<1> QED BY <1>2, <1>3

\* An announcement is accepted only if the datastore has room for its file beside all the rest:
\* the difference has not wrapped around, because what is there does fit.
LEMMA AcceptedFits ==
    ASSUME Types, FiniteCaches, NEW n \in Nodes, NEW f \in Files, AcceptAnnouncement(n, f),
           Needed(n) <= Capacity[n]
    PROVE  SpaceOf(cached[n]) + Size[f] + BlockSpace(n) <= Capacity[n]
<1>1. /\ Capacity[n] \in Nat /\ Modulus \in Nat /\ Capacity[n] < Modulus
      /\ Size[f] \in Nat
  BY StorageAssumption
<1>2. /\ SpaceOf(cached[n]) \in Nat /\ BlockSpace(n) \in Nat
      /\ Occupied(n) = SpaceOf(cached[n]) + BlockSpace(n)
  BY NeededParts DEF Parts
<1>3. Needed(n) = Occupied(n) + 0
  BY DEF AcceptAnnouncement, Needed
<1>4. Occupied(n) \in Nat /\ Occupied(n) <= Capacity[n]
  BY <1>2, <1>3
<1>5. FreeMemoryAvailable(n) = Capacity[n] - Occupied(n)
  BY <1>1, <1>4, NoWrap DEF FreeMemoryAvailable
<1>6. Size[f] <= Capacity[n] - Occupied(n)
  BY <1>5 DEF AcceptAnnouncement
<1> QED BY <1>1, <1>2, <1>4, <1>6

\* Although the handler reads the free space before it downloads, as a difference of unsigned
\* numbers, and although blocks are published into the same datastore meanwhile: of the steps
\* of a storage node, only a block published into a datastore takes it over its limit.
THEOREM OnlyBlocks == Spec => OnlyBlocksOverfill
<1> DEFINE OnlyByBlock(n) ==
               Needed(n)' > Capacity[n] =>
                  \/ Needed(n) > Capacity[n]
                  \/ \E i \in opens : applied[n] < i /\ i <= applied'[n]
<1>1. Init => FiniteCaches
  BY FS_EmptySet DEF Init, FiniteCaches
<1>2. Types /\ FiniteCaches /\ [Next]_vars => FiniteCaches'
  BY FiniteStep
<1>3. ASSUME Types, Types', FiniteCaches, FiniteCaches', AllFollow, [Next]_vars, NEW n \in Nodes
      PROVE  OnlyByBlock(n)
  <2>1. Capacity[n] \in Nat
    BY StorageAssumption
  <2>2. /\ Downloads(n) \in Nat /\ BlockSpace(n) \in Nat
        /\ Needed(n) = Downloads(n) + BlockSpace(n)
    BY <1>3, NeededParts DEF Parts
  <2>3. Parts(n)'
    BY <1>3, PartsAfter
  <2>4. /\ Downloads(n)' \in Nat /\ BlockSpace(n)' \in Nat
        /\ Needed(n)' = Downloads(n)' + BlockSpace(n)'
    BY <2>3 DEF Parts
  <2>5. SUFFICES ASSUME Needed(n) <= Capacity[n],
                        \A i \in opens : ~(applied[n] < i /\ i <= applied'[n])
                 PROVE  Needed(n)' <= Capacity[n]
    BY <2>1, <2>2, <2>4
  <2>6. BlockSpace(n)' = BlockSpace(n)
    BY <1>3, <2>5, BlocksStay
  <2>7. CASE FilesStay(n) \/ FetchEnds(n)
    <3>1. Downloads(n)' <= Downloads(n)
      BY <1>3, <2>7, DownloadsStep
    <3> QED BY <2>1, <2>2, <2>4, <2>5, <2>6, <3>1
  <2>8. ASSUME NEW f \in Files, AcceptAnnouncement(n, f) PROVE Needed(n)' <= Capacity[n]
    <3>1. SpaceOf(cached[n]) + Size[f] + BlockSpace(n) <= Capacity[n]
      BY <1>3, <2>5, <2>8, AcceptedFits
    <3>2. cached'[n] = cached[n] /\ phase'[n] = "fetch" /\ current'[n] = f
      BY <1>3, <2>8 DEF AcceptAnnouncement, Types, HandlerTypes
    <3>3. Downloads(n)' = SpaceOf(cached[n]) + Size[f]
      BY <3>2 DEF Downloads
    <3> QED BY <2>4, <2>6, <3>1, <3>3
  <2> QED BY <1>3, <2>7, <2>8, DatastoreSteps
<1>4. Types /\ Types' /\ FiniteCaches /\ FiniteCaches' /\ AllFollow /\ [Next]_vars
         => [\A n \in Nodes : OnlyByBlock(n)]_vars
  BY <1>3
<1> QED BY <1>1, <1>2, <1>4, TypesInvariant, FollowsInvariant, PTL DEF Spec, OnlyBlocksOverfill
=============================================================================
