--------------------------- MODULE ConsensusProofs ---------------------------
(***************************************************************************)
(* What the validators make of honest participants' transactions, for any  *)
(* number of them and any clocks that differ by at most MaxSkew.           *)
(***************************************************************************)
EXTENDS Consensus, FiniteSetTheorems, WellFoundedInduction, TLAPS

-----------------------------------------------------------------------------
(* The pool. *)

Txs == {y.tx : y \in published}

\* What is in a pool or mined was published, at a whole second.
Typed ==
    /\ now \in Nat
    /\ skew \in [Participants -> 0 .. MaxSkew]
    /\ pool \in [Miners -> Seq(Txs)]
    /\ current = [m \in Miners |-> current[m]]
    /\ \A m \in Miners :
          /\ current[m] = [block |-> current[m].block, previous |-> current[m].previous,
                           announced |-> current[m].announced]
          /\ current[m].announced \in BOOLEAN
          /\ Mining(m) => current[m].block.transactions \in Seq(Txs)
    /\ \A tx \in Txs : tx.content.timestamp \in Nat

PoolInv == Typed /\ PoolStaysValid

\* The later the clock, the more transactions the validators accept.
LEMMA ValidStays ==
    ASSUME NEW tx, tx.content.timestamp \in Nat,
           NEW t \in Nat, NEW u \in Nat, t <= u, ValidTransaction(tx, t)
    PROVE  ValidTransaction(tx, u)
BY DEF ValidTransaction, ValidDeletion

LEMMA ClockType == Typed => \A p \in Participants : Clock(p) \in Nat
BY ConsensusAssumption DEF Typed, Clock

LEMMA TypedInit == Init => Typed
<1> SUFFICES ASSUME Init PROVE Typed
  OBVIOUS
<1>1. now \in Nat /\ skew \in [Participants -> 0 .. MaxSkew]
  BY DEF Init
<1>2. Txs = {} /\ pool \in [Miners -> Seq(Txs)]
  BY DEF Init, Txs
<1>3. current = [m \in Miners |-> current[m]]
  BY DEF Init
<1>4. \A m \in Miners : current[m] = Idle
  BY DEF Init
<1>5. \A m \in Miners : /\ ~Mining(m)
                         /\ current[m].announced = FALSE
                         /\ current[m] = [block |-> current[m].block,
                                          previous |-> current[m].previous,
                                          announced |-> current[m].announced]
  <2>1. /\ Idle.announced = FALSE
        /\ Idle = [block |-> Idle.block, previous |-> Idle.previous, announced |-> Idle.announced]
    BY DEF Idle
  <2> QED BY <1>4, <2>1 DEF Mining
<1> QED BY <1>1, <1>2, <1>3, <1>5 DEF Typed

\* A step that leaves the miners and what is published alone.
LEMMA UntouchedTyped ==
    ASSUME Typed, now' \in Nat, UNCHANGED <<skew, published, pool, current>>
    PROVE  Typed'
<1>1. UNCHANGED Txs /\ \A m \in Miners : UNCHANGED Mining(m)
  BY DEF Txs, Mining
<1>2. current' = [m \in Miners |-> current'[m]]
  BY DEF Typed
<1> QED BY <1>1, <1>2 DEF Typed

\* What is published next bears the time of a clock.
LEMMA PublishedTyped ==
    ASSUME Typed, NEW y, y.tx.content.timestamp \in Nat, published' = published \cup {y},
           UNCHANGED <<now, skew, pool, current>>
    PROVE  Typed'
<1>1. Txs' = Txs \cup {y.tx}
  BY DEF Txs
<1>2. \A s : s \in Seq(Txs) => s \in Seq(Txs')
  BY <1>1
<1>3. pool \in [Miners -> Seq(Txs')]
  BY <1>2 DEF Typed
<1> QED BY <1>1, <1>2, <1>3 DEF Typed, Mining

LEMMA TypedStep == Typed /\ [Next]_vars => Typed'
<1> SUFFICES ASSUME Typed, [Next]_vars PROVE Typed'
  OBVIOUS
<1>1. CASE Tick
  BY <1>1, UntouchedTyped DEF Tick, Typed
<1>2. ASSUME NEW u \in Users, NEW f \in Files, Announce(u, f) PROVE Typed'
  BY <1>2, UntouchedTyped DEF Announce, Typed
<1>3. ASSUME NEW u \in Users, NEW f \in Files, RequestDeletion(u, f) PROVE Typed'
  <2>1. Clock(u) \in Nat
    BY ClockType DEF Participants
  <2>2. NewDeleteFileTransaction(Fresh, u, f, Clock(u)).content.timestamp = Clock(u)
    BY DEF NewDeleteFileTransaction
  <2> DEFINE y == [tx |-> NewDeleteFileTransaction(Fresh, u, f, Clock(u)), at |-> now]
  <2>3. y.tx.content.timestamp \in Nat
    BY <2>1, <2>2
  <2>4. published' = published \cup {y} /\ UNCHANGED <<now, skew, pool, current>>
    BY <1>3 DEF RequestDeletion
  <2> HIDE DEF y
  <2> QED BY <2>3, <2>4, PublishedTyped
<1>4. ASSUME NEW s \in StorageNodes, NEW x \in announced, Respond(s, x.announcement) PROVE Typed'
  <2> DEFINE y == [tx |-> NewAddFileTransaction(Fresh, x.announcement, s, Clock(s)), at |-> now]
  <2>1. Clock(s) \in Nat
    BY ClockType DEF Participants
  <2>2. NewAddFileTransaction(Fresh, x.announcement, s, Clock(s)).content.timestamp = Clock(s)
    BY DEF NewAddFileTransaction
  <2>3. y.tx.content.timestamp \in Nat
    BY <2>1, <2>2
  <2>4. published' = published \cup {y} /\ UNCHANGED <<now, skew, pool, current>>
    BY <1>4 DEF Respond
  <2> HIDE DEF y
  <2> QED BY <2>3, <2>4, PublishedTyped
<1>5. ASSUME NEW m \in Miners, NEW y \in published, ReceiveTransaction(m, y.tx) PROVE Typed'
  <2>1. y.tx \in Txs /\ Txs' = Txs
    BY <1>5 DEF ReceiveTransaction, Txs
  <2>2. pool' \in [Miners -> Seq(Txs)]
    BY <1>5, <2>1 DEF ReceiveTransaction, Typed
  <2> QED BY <1>5, <2>1, <2>2 DEF ReceiveTransaction, Typed, Mining
<1>6. ASSUME NEW m \in Miners, StartGenesis(m) PROVE Typed'
  <2>1. NewBlock(<<>>, None, 1, m, 1 + skew[m]).transactions = <<>>
    BY DEF NewBlock
  <2>2. \A k \in Miners : k # m => current'[k] = current[k]
    BY <1>6 DEF StartGenesis, Typed
  <2>3. /\ current'[m].block.transactions = <<>>
        /\ current'[m].announced = FALSE
        /\ current'[m] = [block |-> current'[m].block, previous |-> current'[m].previous,
                          announced |-> current'[m].announced]
    BY <1>6, <2>1 DEF StartGenesis, Typed, Idle
  <2>4. current' = [k \in Miners |-> current'[k]]
    BY <1>6 DEF StartGenesis, Typed
  <2>5. UNCHANGED <<now, skew, pool, Txs>>
    BY <1>6 DEF StartGenesis, Txs
  <2>6. \A k \in Miners : Mining(k)' => k = m \/ Mining(k)
    BY <2>2 DEF Mining
  <2>7. \A k \in Miners : Mining(k)' => current'[k].block.transactions \in Seq(Txs)
    <3>1. <<>> \in Seq(Txs)
      OBVIOUS
    <3> QED BY <2>2, <2>3, <2>6, <3>1 DEF Typed
  <2>8. \A k \in Miners : /\ current'[k] = [block |-> current'[k].block,
                                           previous |-> current'[k].previous,
                                           announced |-> current'[k].announced]
                          /\ current'[k].announced \in BOOLEAN
    BY <2>2, <2>3 DEF Typed
  <2> QED BY <2>4, <2>5, <2>7, <2>8 DEF Typed
<1>7. ASSUME NEW m \in Miners, StartBlock(m) PROVE Typed'
  <2>1. NewBlock(pool[m], ComputeHash(last[m]), last[m].height + 1, m, Clock(m)).transactions
           = pool[m]
    BY DEF NewBlock
  <2>2. pool' \in [Miners -> Seq(Txs)] /\ pool[m] \in Seq(Txs)
    BY <1>7 DEF StartBlock, Typed
  <2> QED BY <1>7, <2>1, <2>2 DEF StartBlock, Typed, Txs, Mining, Idle
<1>8. ASSUME NEW m \in Miners, Publish(m) PROVE Typed'
  <2>1. \A k \in Miners : /\ current'[k].block = current[k].block
                          /\ current'[k].previous = current[k].previous
                          /\ Mining(k)' => Mining(k)
    BY <1>8 DEF Publish, Typed, Mining
  <2> QED BY <1>8, <2>1 DEF Publish, Typed, Txs
<1>9. ASSUME NEW m \in Miners, GiveUp(m) PROVE Typed'
  <2>1. pool' \in [Miners -> Seq(Txs)]
    BY <1>9 DEF GiveUp, Typed
  <2> QED BY <1>9, <2>1 DEF GiveUp, Typed, Txs, Mining, Idle
<1>10. ASSUME NEW n \in Nodes, NEW x \in blocks, Store(n, x.block) PROVE Typed'
  BY <1>10, UntouchedTyped DEF Store, Typed
<1>11. CASE UNCHANGED vars
  BY <1>11, UntouchedTyped DEF vars, Typed
<1> QED BY <1>1, <1>2, <1>3, <1>4, <1>5, <1>6, <1>7, <1>8, <1>9, <1>10, <1>11 DEF Next

LEMMA PoolStep == PoolInv /\ [Next]_vars => PoolStaysValid'
<1> SUFFICES ASSUME PoolInv, [Next]_vars, Typed' PROVE PoolStaysValid'
  BY TypedStep DEF PoolInv
<1> USE DEF PoolInv
<1>0. \A m \in Miners : /\ Clock(m) \in Nat /\ Clock(m)' \in Nat /\ Clock(m) <= Clock(m)'
  <2>1. UNCHANGED skew /\ (UNCHANGED now \/ Tick)
    BY ZenonT(60)
       DEF Next, Tick, Announce, RequestDeletion, Respond, ReceiveTransaction, StartGenesis,
           StartBlock, Publish, GiveUp, Store, vars
  <2>2. now <= now'
    BY <2>1 DEF Tick, Typed
  <2> QED BY <2>1, <2>2, ConsensusAssumption DEF Clock, Typed, Participants, Nodes
<1>v. \A m \in Miners : \A tx \in Txs :
         ValidTransaction(tx, Clock(m)) => ValidTransaction(tx, Clock(m)')
  BY <1>0, ValidStays DEF Typed
<1>p. \A m \in Miners : \A i \in DOMAIN pool[m] : ValidTransaction(pool[m][i], Clock(m)')
  <2>1. \A m \in Miners : \A i \in DOMAIN pool[m] : pool[m][i] \in Txs
    BY DEF Typed
  <2> QED BY <1>v, <2>1 DEF PoolStaysValid
<1>c. \A m \in Miners : Mining(m) =>
         \A i \in DOMAIN current[m].block.transactions :
             ValidTransaction(current[m].block.transactions[i], Clock(m)')
  <2>1. \A m \in Miners : Mining(m) =>
           \A i \in DOMAIN current[m].block.transactions : current[m].block.transactions[i] \in Txs
    BY DEF Typed
  <2> QED BY <1>v, <2>1 DEF PoolStaysValid
<1>1. CASE UNCHANGED <<pool, current>>
  BY <1>p, <1>c, <1>1 DEF PoolStaysValid, Mining
<1>2. ASSUME NEW m \in Miners, NEW y \in published, ReceiveTransaction(m, y.tx)
      PROVE  PoolStaysValid'
  <2>1. CASE ValidTransaction(y.tx, Clock(m))
    <3>1. y.tx \in Txs /\ pool[m] \in Seq(Txs)
      BY DEF Txs, Typed
    <3>2. ValidTransaction(y.tx, Clock(m)')
      BY <2>1, <3>1, <1>v
    <3>3. pool' = [pool EXCEPT ![m] = Append(@, y.tx)]
      BY <1>2, <2>1 DEF ReceiveTransaction
    <3>4. \A i \in DOMAIN pool'[m] : ValidTransaction(pool'[m][i], Clock(m)')
      <4>1. pool'[m] = Append(pool[m], y.tx)
        BY <3>3 DEF Typed
      <4> QED BY <1>p, <3>1, <3>2, <4>1
    <3>5. \A k \in Miners : k # m => pool'[k] = pool[k]
      BY <3>3 DEF Typed
    <3>6. UNCHANGED current
      BY <1>2 DEF ReceiveTransaction
    <3> QED BY <1>p, <1>c, <3>4, <3>5, <3>6 DEF PoolStaysValid, Mining
  <2>2. CASE ~ValidTransaction(y.tx, Clock(m))
    BY <1>1, <1>2, <2>2 DEF ReceiveTransaction
  <2> QED BY <2>1, <2>2
<1>3. ASSUME NEW m \in Miners, StartGenesis(m) PROVE PoolStaysValid'
  <2>1. current'[m].block.transactions = <<>>
    BY <1>3 DEF StartGenesis, Typed, Idle, NewBlock
  <2>2. UNCHANGED pool /\ \A k \in Miners : k # m => current'[k] = current[k]
    BY <1>3 DEF StartGenesis, Typed
  <2> QED BY <1>p, <1>c, <2>1, <2>2 DEF PoolStaysValid, Mining
<1>4. ASSUME NEW m \in Miners, StartBlock(m) PROVE PoolStaysValid'
  <2>1. current'[m].block.transactions = pool[m]
    BY <1>4 DEF StartBlock, Typed, Idle, NewBlock
  <2>2. pool'[m] = <<>>
    BY <1>4 DEF StartBlock, Typed
  <2>3. \A k \in Miners : k # m => current'[k] = current[k] /\ pool'[k] = pool[k]
    BY <1>4 DEF StartBlock, Typed
  <2> QED BY <1>p, <1>c, <2>1, <2>2, <2>3 DEF PoolStaysValid, Mining
<1>5. ASSUME NEW m \in Miners, Publish(m) PROVE PoolStaysValid'
  <2>1. UNCHANGED pool /\ \A k \in Miners : /\ current'[k].block = current[k].block
                                            /\ Mining(k)' => Mining(k)
    BY <1>5 DEF Publish, Typed, Mining
  <2> QED BY <1>p, <1>c, <2>1 DEF PoolStaysValid
<1>6. ASSUME NEW m \in Miners, GiveUp(m) PROVE PoolStaysValid'
  <2>1. Mining(m) /\ pool[m] \in Seq(Txs) /\ current[m].block.transactions \in Seq(Txs)
    BY <1>6 DEF GiveUp, Typed
  <2>2. pool'[m] = pool[m] \o current[m].block.transactions
    BY <1>6 DEF GiveUp, Typed
  <2>3. \A i \in DOMAIN pool'[m] : ValidTransaction(pool'[m][i], Clock(m)')
    <3>1. \A a, b \in Seq(Txs) : \A i \in DOMAIN (a \o b) :
             \/ i \in DOMAIN a /\ (a \o b)[i] = a[i]
             \/ i - Len(a) \in DOMAIN b /\ (a \o b)[i] = b[i - Len(a)]
      OBVIOUS
    <3> DEFINE a == pool[m]  b == current[m].block.transactions
    <3>2. \A i \in DOMAIN a : ValidTransaction(a[i], Clock(m)')
      BY <1>p
    <3>3. \A i \in DOMAIN b : ValidTransaction(b[i], Clock(m)')
      BY <1>c, <2>1
    <3>4. a \in Seq(Txs) /\ b \in Seq(Txs) /\ pool'[m] = a \o b
      BY <2>1, <2>2
    <3> HIDE DEF a, b
    <3>5. ASSUME NEW i \in DOMAIN (a \o b) PROVE ValidTransaction((a \o b)[i], Clock(m)')
      BY <3>1, <3>2, <3>3, <3>4
    <3> QED BY <3>4, <3>5
  <2>4. current'[m] = Idle
    BY <1>6 DEF GiveUp, Typed
  <2>5. \A k \in Miners : k # m => current'[k] = current[k] /\ pool'[k] = pool[k]
    BY <1>6 DEF GiveUp, Typed
  <2> QED BY <1>p, <1>c, <2>3, <2>4, <2>5 DEF PoolStaysValid, Mining
<1> QED BY <1>1, <1>2, <1>3, <1>4, <1>5, <1>6
        DEF Next, Tick, Announce, RequestDeletion, Respond, Store, vars

\* A transaction that mining-node/main.go validated when it came stays valid for that miner,
\* however long it waits in trxPool or goes back to it: nobody looks at the pool again.
THEOREM PoolCorrect == Spec => []PoolStaysValid
<1>1. Init => PoolInv
  BY TypedInit DEF Init, PoolInv, PoolStaysValid, Mining, Idle
<1>2. PoolInv /\ [Next]_vars => PoolInv'
  BY TypedStep, PoolStep DEF PoolInv
<1>3. PoolInv => PoolStaysValid
  BY DEF PoolInv
<1> QED BY <1>1, <1>2, <1>3, PTL DEF Spec

-----------------------------------------------------------------------------
(* Who published what: every announcement is a user's, every addition a storage node's answer *)
(* to one of them under an identifier of its own, every deletion a user's.                   *)

IsAnnouncement(x) ==
    \E u \in Users, f \in Files, id \in Nat :
        id < Fresh /\ x.announcement = NewClientAnnouncement(id, u, f, x.at + skew[u])

IsResponse(y) ==
    \E x \in announced, s \in StorageNodes, id \in Nat :
        /\ id # x.announcement.content.announcementID
        /\ y.tx = NewAddFileTransaction(id, x.announcement, s, y.at + skew[s])

IsDeletion(y) ==
    \E u \in Users, f \in Files, id \in Nat :
        y.tx = NewDeleteFileTransaction(id, u, f, y.at + skew[u])

Origins ==
    /\ now \in Nat \ {0}
    /\ skew \in [Participants -> 0 .. MaxSkew]
    /\ IsFiniteSet(announced) /\ IsFiniteSet(published)
    /\ \A x \in announced : x.at \in 1 .. now /\ IsAnnouncement(x)
    /\ \A y \in published : y.at \in 1 .. now /\ (IsResponse(y) \/ IsDeletion(y))

LEMMA FreshType == Origins => Fresh \in Nat
BY FS_CardinalityType DEF Origins, Fresh

\* Identifiers that were given out stay below Fresh.
LEMMA AnnouncementsKept ==
    ASSUME Origins, Fresh' \in Nat, Fresh <= Fresh', UNCHANGED skew
    PROVE  \A x \in announced : IsAnnouncement(x)'
BY FreshType DEF Origins, IsAnnouncement

\* Publishing one more transaction.
LEMMA PublishedOrigins ==
    ASSUME Origins, NEW y, published' = published \cup {y}, y.at = now,
           IsResponse(y) \/ IsDeletion(y), UNCHANGED <<now, skew, announced>>
    PROVE  Origins'
<1>1. /\ IsFiniteSet(published') /\ Fresh' \in Nat /\ Fresh <= Fresh'
  <2>1. IsFiniteSet(published') /\ Cardinality(published) <= Cardinality(published')
    <3>1. Cardinality(published) \in Nat
      BY FS_CardinalityType DEF Origins
    <3>2. /\ IsFiniteSet(published \cup {y})
          /\ Cardinality(published \cup {y}) =
                IF y \in published THEN Cardinality(published) ELSE Cardinality(published) + 1
      BY FS_AddElement DEF Origins
    <3> QED BY <3>1, <3>2
  <2>2. /\ Cardinality(announced) \in Nat /\ Cardinality(published) \in Nat
        /\ Cardinality(published') \in Nat
    BY <2>1, FS_CardinalityType DEF Origins
  <2> QED BY <2>1, <2>2 DEF Fresh
<1>2. \A z : (IsResponse(z) => IsResponse(z)') /\ (IsDeletion(z) => IsDeletion(z)')
  BY DEF IsResponse, IsDeletion
<1>3. \A x \in announced : IsAnnouncement(x)'
  BY <1>1, AnnouncementsKept
<1> QED BY <1>1, <1>2, <1>3 DEF Origins

LEMMA OriginsInit == Init => Origins
BY FS_EmptySet DEF Init, Origins

LEMMA OriginsStep == Origins /\ [Next]_vars => Origins'
<1> SUFFICES ASSUME Origins, [Next]_vars PROVE Origins'
  OBVIOUS
<1>1. CASE UNCHANGED <<announced, published, skew>> /\ now' \in Nat /\ now <= now'
  <2>1. UNCHANGED Fresh
    BY <1>1 DEF Fresh
  <2>2. \A z : /\ IsAnnouncement(z) => IsAnnouncement(z)'
               /\ IsResponse(z) => IsResponse(z)'
               /\ IsDeletion(z) => IsDeletion(z)'
    BY <1>1, <2>1 DEF IsAnnouncement, IsResponse, IsDeletion
  <2> QED BY <1>1, <2>2 DEF Origins
<1>2. ASSUME NEW u \in Users, NEW f \in Files, Announce(u, f) PROVE Origins'
  <2>0. PICK x : x = [announcement |-> NewClientAnnouncement(Fresh, u, f, Clock(u)), at |-> now]
    OBVIOUS
  <2>1. announced' = announced \cup {x} /\ UNCHANGED <<now, skew, published>>
    BY <1>2, <2>0 DEF Announce
  <2>2. x.announcement.content.file = f
    BY <2>0 DEF NewClientAnnouncement
  <2>3. x \notin announced
    BY <1>2, <2>2 DEF Announce
  <2>4. x.at = now /\ x.announcement = NewClientAnnouncement(Fresh, u, f, x.at + skew[u])
    BY <2>0 DEF Clock
  <2>5. /\ IsFiniteSet(announced')
        /\ Cardinality(announced') = Cardinality(announced) + 1
    BY <2>1, <2>3, FS_AddElement DEF Origins
  <2>6. Fresh \in Nat /\ Fresh' = Fresh + 1
    <3>1. Cardinality(announced) \in Nat /\ Cardinality(published) \in Nat
      BY FS_CardinalityType DEF Origins
    <3> QED BY <2>1, <2>5, <3>1 DEF Fresh
  <2>7. \A z \in announced : IsAnnouncement(z)'
    BY <2>1, <2>6, AnnouncementsKept
  <2>8. IsAnnouncement(x)'
    BY <2>1, <2>4, <2>6 DEF IsAnnouncement
  <2>9. \A z : (IsResponse(z) => IsResponse(z)') /\ (IsDeletion(z) => IsDeletion(z)')
    BY <2>1 DEF IsResponse, IsDeletion
  <2> QED BY <2>1, <2>4, <2>5, <2>7, <2>8, <2>9 DEF Origins
<1>3. ASSUME NEW u \in Users, NEW f \in Files, RequestDeletion(u, f) PROVE Origins'
  <2> DEFINE y == [tx |-> NewDeleteFileTransaction(Fresh, u, f, Clock(u)), at |-> now]
  <2>1. published' = published \cup {y} /\ UNCHANGED <<now, skew, announced>>
    BY <1>3 DEF RequestDeletion
  <2>2. y.at = now /\ y.tx = NewDeleteFileTransaction(Fresh, u, f, y.at + skew[u])
    BY DEF Clock
  <2> HIDE DEF y
  <2>3. IsDeletion(y)
    BY <2>2, FreshType DEF IsDeletion
  <2> QED BY <2>1, <2>2, <2>3, PublishedOrigins
<1>4. ASSUME NEW s \in StorageNodes, NEW x \in announced, Respond(s, x.announcement) PROVE Origins'
  <2> DEFINE y == [tx |-> NewAddFileTransaction(Fresh, x.announcement, s, Clock(s)), at |-> now]
  <2>1. published' = published \cup {y} /\ UNCHANGED <<now, skew, announced>>
    BY <1>4 DEF Respond
  <2>2. y.at = now /\ y.tx = NewAddFileTransaction(Fresh, x.announcement, s, y.at + skew[s])
    BY DEF Clock
  <2> HIDE DEF y
  <2>3. PICK u \in Users, f \in Files, id \in Nat :
           id < Fresh /\ x.announcement = NewClientAnnouncement(id, u, f, x.at + skew[u])
    BY DEF Origins, IsAnnouncement
  <2>4. x.announcement.content.announcementID = id
    BY <2>3 DEF NewClientAnnouncement
  <2>5. IsResponse(y)
    BY <2>2, <2>3, <2>4, FreshType DEF IsResponse
  <2> QED BY <2>1, <2>2, <2>5, PublishedOrigins
<1>5. \/ Tick \/ UNCHANGED <<now, announced, published, skew>>
      \/ \E u \in Users, f \in Files : Announce(u, f) \/ RequestDeletion(u, f)
      \/ \E s \in StorageNodes, x \in announced : Respond(s, x.announcement)
  BY ZenonT(60) DEF Next, ReceiveTransaction, StartGenesis, StartBlock, Publish, GiveUp, Store,
      vars
<1>6. CASE Tick \/ UNCHANGED <<now, announced, published, skew>>
  <2>1. UNCHANGED <<announced, published, skew>> /\ now' \in Nat /\ now <= now'
    BY <1>6 DEF Tick, Origins
  <2> QED BY <1>1, <2>1
<1> QED BY <1>2, <1>3, <1>4, <1>5, <1>6

LEMMA AnswersAdmitted ==
    ASSUME Origins, NEW y \in published, NEW m \in Miners, IsResponse(y),
           \A x \in announced :
               x.announcement.content.announcementID = y.tx.content.announcementID
                   => y.at > x.at + MaxSkew
    PROVE  ValidTransaction(y.tx, Clock(m))
<1>1. PICK x \in announced, s \in StorageNodes, id \in Nat :
         /\ id # x.announcement.content.announcementID
         /\ y.tx = NewAddFileTransaction(id, x.announcement, s, y.at + skew[s])
  BY DEF IsResponse
<1>2. PICK u \in Users, f \in Files, n \in Nat :
         x.announcement = NewClientAnnouncement(n, u, f, x.at + skew[u])
  BY DEF Origins, IsAnnouncement
<1> DEFINE a == x.announcement  t == y.tx.content
<1>3. /\ a.content = [announcementID |-> n, owner |-> u.key, client |-> u.ipfs,
                      file |-> f, announcedAt |-> x.at + skew[u]]
      /\ a.ownerSignature = Sign(u.key, a.content)
  BY <1>2 DEF NewClientAnnouncement
<1>4. /\ t.type = "AddFileTransaction" /\ t.transactionID = id
      /\ t.timestamp = y.at + skew[s]
      /\ t.announcementID = n /\ t.owner = u.key /\ t.client = u.ipfs /\ t.file = f
      /\ t.announcedAt = x.at + skew[u] /\ t.ownerSignature = a.ownerSignature
      /\ t.nodeAddress = s.key /\ t.nodeID = s.host /\ t.storage = s.ipfs
      /\ y.tx.signature = Sign(s.key, t)
  BY <1>1, <1>3 DEF NewAddFileTransaction
<1>5. t.announcedAt < t.timestamp
  <2>1. y.at > x.at + MaxSkew
    BY <1>3, <1>4
  <2>2. skew[u] \in 0 .. MaxSkew /\ skew[s] \in 0 .. MaxSkew
    BY DEF Origins, Participants
  <2>3. x.at \in Nat /\ y.at \in Nat /\ MaxSkew \in Nat
    BY ConsensusAssumption DEF Origins
  <2> QED BY <1>4, <2>1, <2>2, <2>3
<1>6. /\ t.announcementID # t.transactionID
      /\ t.owner # t.nodeAddress /\ t.client # t.storage /\ t.storage # t.nodeID
  BY <1>1, <1>3, <1>4, ConsensusAssumption
<1>7. Rebuilt(t) = a.content
  BY <1>3, <1>4 DEF Rebuilt
<1> HIDE DEF a, t
<1>8. Verified(Rebuilt(t), t.ownerSignature, t.owner) /\ Verified(t, y.tx.signature, t.nodeAddress)
  BY <1>3, <1>4, <1>7 DEF Verified
<1>9. ValidAddition(y.tx)
  BY <1>5, <1>6, <1>8 DEF ValidAddition, t
<1> QED BY <1>4, <1>9 DEF ValidTransaction, t

LEMMA DeletionsAdmitted ==
    ASSUME Origins, NEW y \in published, NEW m \in Miners, IsDeletion(y),
           now > y.at + MaxSkew
    PROVE  ValidTransaction(y.tx, Clock(m))
<1>1. PICK u \in Users, f \in Files, id \in Nat :
         y.tx = NewDeleteFileTransaction(id, u, f, y.at + skew[u])
  BY DEF IsDeletion
<1>2. /\ y.tx.content.type = "DeleteFileTransaction"
      /\ y.tx.content.timestamp = y.at + skew[u]
      /\ y.tx.content.owner = u.key
      /\ y.tx.signature = Sign(u.key, y.tx.content)
  BY <1>1 DEF NewDeleteFileTransaction
<1>3. skew[u] \in 0 .. MaxSkew /\ skew[m] \in 0 .. MaxSkew
  BY DEF Origins, Participants, Nodes
<1>4. y.at \in Nat \ {0} /\ now \in Nat /\ MaxSkew \in Nat
  BY ConsensusAssumption DEF Origins
<1>5. y.tx.content.timestamp > 0 /\ y.tx.content.timestamp < Clock(m)
  BY <1>2, <1>3, <1>4 DEF Clock
<1> QED BY <1>2, <1>5 DEF ValidTransaction, ValidDeletion, Verified

\* Every answer of an honest storage node that comes later than its announcement by more than
\* clocks differ passes AddFileTransactionValidator.Validate at every miner, and every deletion
\* an honest user asks for passes DeleteFileTransactionValidator.Validate once it is that old.
THEOREM HonestAdmitted == Spec => []HonestTransactionsAdmitted
<1>1. Origins => HonestTransactionsAdmitted
  <2> SUFFICES ASSUME Origins, NEW y \in published, NEW m \in Miners
               PROVE  CASE y.tx.content.type = "AddFileTransaction" ->
                           (\A x \in announced :
                               x.announcement.content.announcementID = y.tx.content.announcementID
                                   => y.at > x.at + MaxSkew)
                           => ValidTransaction(y.tx, Clock(m))
                        [] y.tx.content.type = "DeleteFileTransaction" ->
                           now > y.at + MaxSkew => ValidTransaction(y.tx, Clock(m))
    BY DEF HonestTransactionsAdmitted
  <2>1. CASE IsResponse(y)
    <3>1. y.tx.content.type = "AddFileTransaction"
      BY <2>1 DEF IsResponse, NewAddFileTransaction
    <3> QED BY <2>1, <3>1, AnswersAdmitted
  <2>2. CASE IsDeletion(y)
    <3>1. y.tx.content.type = "DeleteFileTransaction"
      BY <2>2 DEF IsDeletion, NewDeleteFileTransaction
    <3> QED BY <2>2, <3>1, DeletionsAdmitted
  <2> QED BY <2>1, <2>2 DEF Origins
<1> QED BY OriginsInit, OriginsStep, <1>1, PTL DEF Spec

-----------------------------------------------------------------------------
(* The blocks. *)

BlockTypes ==
    /\ \A x \in blocks : x.at \in 1 .. now
    /\ received \in [Miners -> SUBSET Txs]
    /\ stored \in [Nodes -> SUBSET AnnouncedBlocks]
    /\ last = [n \in Nodes |-> last[n]]
    /\ \A n \in Nodes :
          /\ last[n] \in stored[n] \cup {None}
          /\ \A b \in stored[n] : b.height # 1 => \E p \in stored[n] : ComputeHash(p) = b.prev

TypeInv == Typed /\ Origins /\ BlockTypes

LEMMA BlockTypesStep == TypeInv /\ [Next]_vars => BlockTypes'
<1> SUFFICES ASSUME TypeInv, [Next]_vars PROVE BlockTypes'
  OBVIOUS
<1> USE DEF TypeInv
<1>1. now \in Nat \ {0} /\ now' \in Nat \ {0} /\ now <= now'
  <2>1. UNCHANGED now \/ Tick
    BY ZenonT(60)
       DEF Next, Tick, Announce, RequestDeletion, Respond, ReceiveTransaction, StartGenesis,
           StartBlock, Publish, GiveUp, Store, vars
  <2> QED BY <2>1 DEF Tick, Origins
<1>2. Txs \subseteq Txs'
  <2>1. published \subseteq published'
    BY ZenonT(60)
       DEF Next, Tick, Announce, RequestDeletion, Respond, ReceiveTransaction, StartGenesis,
           StartBlock, Publish, GiveUp, Store, vars
  <2> QED BY <2>1 DEF Txs
<1>3. CASE UNCHANGED <<received, blocks, stored, last>>
  <2>1. UNCHANGED AnnouncedBlocks
    BY <1>3 DEF AnnouncedBlocks
  <2>2. received' \in [Miners -> SUBSET Txs']
    BY <1>2, <1>3 DEF BlockTypes
  <2>3. \A x \in blocks' : x.at \in 1 .. now'
    BY <1>1, <1>3 DEF BlockTypes
  <2>4. \A n \in Nodes :
           /\ last'[n] \in stored'[n] \cup {None}
           /\ \A b \in stored'[n] : b.height # 1 => \E p \in stored'[n] : ComputeHash(p) = b.prev
    BY <1>3 DEF BlockTypes
  <2> QED BY <1>3, <2>1, <2>2, <2>3, <2>4 DEF BlockTypes
<1>4. ASSUME NEW m \in Miners, NEW y \in published, ReceiveTransaction(m, y.tx) PROVE BlockTypes'
  <2>1. y.tx \in Txs
    BY DEF Txs
  <2>2. received' \in [Miners -> SUBSET Txs']
    BY <1>2, <1>4, <2>1 DEF ReceiveTransaction, BlockTypes
  <2>3. UNCHANGED <<now, blocks, stored, last>>
    BY <1>4 DEF ReceiveTransaction
  <2>4. UNCHANGED AnnouncedBlocks
    BY <2>3 DEF AnnouncedBlocks
  <2> QED BY <2>2, <2>3, <2>4 DEF BlockTypes
<1>5. ASSUME NEW m \in Miners, Publish(m) PROVE BlockTypes'
  <2>1. /\ blocks' = blocks \cup {[block |-> Signed(m), at |-> now]}
        /\ UNCHANGED <<now, published, received, stored, last>>
    BY <1>5 DEF Publish
  <2>2. AnnouncedBlocks \subseteq AnnouncedBlocks' /\ UNCHANGED Txs
    BY <2>1 DEF AnnouncedBlocks, Txs
  <2>3. \A x \in blocks' : x.at \in 1 .. now'
    BY <1>1, <2>1 DEF BlockTypes
  <2>4. stored' \in [Nodes -> SUBSET AnnouncedBlocks']
    BY <2>1, <2>2 DEF BlockTypes
  <2> QED BY <2>1, <2>2, <2>3, <2>4 DEF BlockTypes
<1>6. ASSUME NEW n \in Nodes, NEW x \in blocks, Store(n, x.block) PROVE BlockTypes'
  <2>1. /\ stored' = [stored EXCEPT ![n] = @ \cup {x.block}]
        /\ last' = [last EXCEPT ![n] = x.block]
        /\ UNCHANGED <<now, published, received, blocks>>
    BY <1>6 DEF Store
  <2>2. x.block \in AnnouncedBlocks /\ UNCHANGED <<AnnouncedBlocks, Txs>>
    BY <2>1 DEF AnnouncedBlocks, Txs
  <2>3. stored' \in [Nodes -> SUBSET AnnouncedBlocks'] /\ last' = [k \in Nodes |-> last'[k]]
    BY <2>1, <2>2 DEF BlockTypes
  <2>4. x.block.height # 1 => \E p \in stored[n] : ComputeHash(p) = x.block.prev
    BY <1>6 DEF Store, ValidBlock
  <2>5. /\ stored'[n] = stored[n] \cup {x.block} /\ last'[n] = x.block
        /\ \A k \in Nodes : k # n => stored'[k] = stored[k] /\ last'[k] = last[k]
    BY <2>1 DEF BlockTypes
  <2>6. \A k \in Nodes :
           /\ last'[k] \in stored'[k] \cup {None}
           /\ \A b \in stored'[k] : b.height # 1 => \E p \in stored'[k] : ComputeHash(p) = b.prev
    BY <2>4, <2>5 DEF BlockTypes
  <2> QED BY <2>1, <2>2, <2>3, <2>6 DEF BlockTypes
<1>7. \/ UNCHANGED <<received, blocks, stored, last>>
      \/ \E m \in Miners : Publish(m) \/ \E y \in published : ReceiveTransaction(m, y.tx)
      \/ \E n \in Nodes, x \in blocks : Store(n, x.block)
  BY ZenonT(60)
     DEF Next, Tick, Announce, RequestDeletion, Respond, StartGenesis, StartBlock, GiveUp, vars
<1> QED BY <1>3, <1>4, <1>5, <1>6, <1>7

LEMMA TypeInvariant == Spec => []TypeInv
<1>1. Init => TypeInv
  <2>1. Init => BlockTypes
    BY DEF Init, BlockTypes
  <2> QED BY <2>1, TypedInit, OriginsInit DEF TypeInv
<1>2. TypeInv /\ [Next]_vars => TypeInv'
  BY TypedStep, OriginsStep, BlockTypesStep DEF TypeInv
<1> QED BY <1>1, <1>2, PTL DEF Spec

\* The type invariant: among others, a miner pools only published transactions, and a node
\* that stores a block other than a genesis has stored the parent it names.
THEOREM TypeCorrect == Spec => []TypeOK
<1>1. TypeInv => TypeOK
  BY DEF TypeInv, Typed, Origins, BlockTypes, Txs, TypeOK
<1> QED BY <1>1, TypeInvariant, PTL

\* The block a miner works on is no later than its clock, and its parent was announced.
Mined ==
    \A m \in Miners : Mining(m) =>
        LET b == current[m].block IN
        /\ b = [prev |-> b.prev, root |-> b.root, timestamp |-> b.timestamp, height |-> b.height,
                miner |-> b.miner, signature |-> b.signature, transactions |-> b.transactions]
        /\ b.timestamp \in Nat /\ b.timestamp <= Clock(m)
        /\ b.height # 1 => current[m].previous \in AnnouncedBlocks

\* Every announced block was valid for its miner when it announced it.
ValidAtMiner(x) ==
    \E m \in Miners :
        /\ x.block.timestamp \in Nat /\ x.block.timestamp <= x.at + skew[m]
        /\ \A i \in DOMAIN x.block.transactions :
               x.block.transactions[i].content.timestamp \in Nat
        /\ ValidBlock(x.block, AnnouncedBlocks, x.at + skew[m])

BlocksInv == TypeInv /\ Mined /\ \A x \in blocks : ValidAtMiner(x)

\* A block that is valid stays so, with a later clock and more blocks known.
LEMMA ValidBlockStays ==
    ASSUME NEW b, b.timestamp \in Nat,
           \A i \in DOMAIN b.transactions : b.transactions[i].content.timestamp \in Nat,
           NEW known, NEW more, known \subseteq more, NEW t \in Nat, NEW u \in Nat, t <= u,
           ValidBlock(b, known, t)
    PROVE  ValidBlock(b, more, u)
<1>1. NotAhead(b, t) => NotAhead(b, u)
  BY MaxAheadAssumption DEF NotAhead
<1>2. ASSUME \A i \in DOMAIN b.transactions : ValidTransaction(b.transactions[i], t)
      PROVE  \A i \in DOMAIN b.transactions : ValidTransaction(b.transactions[i], u)
  BY <1>2, ValidStays
<1> QED BY <1>1, <1>2 DEF ValidBlock, ValidGenesis

LEMMA MinedStep == BlocksInv /\ [Next]_vars => Mined'
<1> SUFFICES ASSUME BlocksInv, [Next]_vars PROVE Mined'
  OBVIOUS
<1> USE DEF BlocksInv, TypeInv
<1>1. UNCHANGED skew /\ now \in Nat /\ now' \in Nat /\ now <= now'
  <2>1. UNCHANGED skew /\ (UNCHANGED now \/ Tick)
    BY ZenonT(60)
       DEF Next, Tick, Announce, RequestDeletion, Respond, ReceiveTransaction, StartGenesis,
           StartBlock, Publish, GiveUp, Store, vars
  <2> QED BY <2>1 DEF Tick, Origins
<1>2. \A m \in Miners : Clock(m) \in Nat /\ Clock(m)' \in Nat /\ Clock(m) <= Clock(m)'
  BY <1>1, ConsensusAssumption DEF Clock, Origins, Participants, Nodes
<1>3. AnnouncedBlocks \subseteq AnnouncedBlocks'
  <2>1. blocks \subseteq blocks'
    BY ZenonT(60)
       DEF Next, Tick, Announce, RequestDeletion, Respond, ReceiveTransaction, StartGenesis,
           StartBlock, Publish, GiveUp, Store, vars
  <2> QED BY <2>1 DEF AnnouncedBlocks
<1> DEFINE IsMined(m) ==
             LET b == current[m].block IN
             /\ b = [prev |-> b.prev, root |-> b.root, timestamp |-> b.timestamp, height |-> b.height,
                     miner |-> b.miner, signature |-> b.signature, transactions |-> b.transactions]
             /\ b.timestamp \in Nat /\ b.timestamp <= Clock(m)
             /\ b.height # 1 => current[m].previous \in AnnouncedBlocks
<1>k. \A m \in Miners : /\ Mining(m)
                         /\ current'[m].block = current[m].block
                         /\ current'[m].previous = current[m].previous
                         => IsMined(m)'
  <2> SUFFICES ASSUME NEW m \in Miners, Mining(m), current'[m].block = current[m].block,
                      current'[m].previous = current[m].previous
               PROVE  IsMined(m)'
    OBVIOUS
  <2>1. IsMined(m)
    BY DEF Mined
  <2>2. current[m].block.timestamp <= Clock(m)'
    BY <1>2, <2>1
  <2> QED BY <1>3, <2>1, <2>2
<1>4. CASE UNCHANGED current
  BY <1>4, <1>k DEF Mined, Mining
<1>5. ASSUME NEW m \in Miners, StartGenesis(m) PROVE Mined'
  <2>1. \A k \in Miners : k # m => current'[k] = current[k]
    BY <1>5 DEF StartGenesis, Typed
  <2>2. /\ current'[m].block = [prev |-> None, root |-> MerkleRoot(<<>>), timestamp |-> 1 + skew[m],
                                height |-> 1, miner |-> m, signature |-> None,
                                transactions |-> <<>>]
    BY <1>5 DEF StartGenesis, Typed, Idle, NewBlock
  <2>3. 1 + skew[m] \in Nat /\ 1 + skew[m] <= Clock(m)'
    BY <1>1, ConsensusAssumption DEF Clock, Origins, Participants, Nodes
  <2>4. IsMined(m)'
    BY <2>2, <2>3
  <2> QED BY <1>k, <2>1, <2>4 DEF Mined, Mining
<1>6. ASSUME NEW m \in Miners, StartBlock(m) PROVE Mined'
  <2>1. \A k \in Miners : k # m => current'[k] = current[k]
    BY <1>6 DEF StartBlock, Typed
  <2>2. /\ current'[m].block = [prev |-> ComputeHash(last[m]), root |-> MerkleRoot(pool[m]),
                                timestamp |-> Clock(m), height |-> last[m].height + 1,
                                miner |-> m, signature |-> None, transactions |-> pool[m]]
        /\ current'[m].previous = last[m]
    BY <1>6 DEF StartBlock, Typed, Idle, NewBlock
  <2>3. last[m] \in AnnouncedBlocks
    BY <1>6 DEF StartBlock, BlockTypes, Nodes
  <2>4. IsMined(m)'
    BY <1>2, <1>3, <2>2, <2>3
  <2> QED BY <1>k, <2>1, <2>4 DEF Mined, Mining
<1>7. ASSUME NEW m \in Miners, Publish(m) PROVE Mined'
  <2>1. \A k \in Miners : /\ current'[k].block = current[k].block
                          /\ current'[k].previous = current[k].previous
                          /\ Mining(k)' => Mining(k)
    BY <1>7 DEF Publish, Typed, Mining
  <2> QED BY <1>k, <2>1 DEF Mined
<1>8. ASSUME NEW m \in Miners, GiveUp(m) PROVE Mined'
  <2>1. ~Mining(m)' /\ \A k \in Miners : k # m => current'[k] = current[k]
    BY <1>8 DEF GiveUp, Typed, Mining
  <2> QED BY <1>k, <2>1 DEF Mined, Mining
<1> HIDE DEF IsMined
<1>9. \/ UNCHANGED current
      \/ \E m \in Miners : StartGenesis(m) \/ StartBlock(m) \/ Publish(m) \/ GiveUp(m)
  BY ZenonT(60)
     DEF Next, Tick, Announce, RequestDeletion, Respond, ReceiveTransaction, Store, vars
<1> QED BY <1>4, <1>5, <1>6, <1>7, <1>8, <1>9

LEMMA ValidAtMinerStep == BlocksInv /\ [Next]_vars => \A x \in blocks' : ValidAtMiner(x)'
<1> SUFFICES ASSUME BlocksInv, [Next]_vars PROVE \A x \in blocks' : ValidAtMiner(x)'
  OBVIOUS
<1> USE DEF BlocksInv, TypeInv
<1>1. UNCHANGED skew /\ blocks \subseteq blocks'
  BY ZenonT(60)
     DEF Next, Tick, Announce, RequestDeletion, Respond, ReceiveTransaction, StartGenesis,
         StartBlock, Publish, GiveUp, Store, vars
<1>2. AnnouncedBlocks \subseteq AnnouncedBlocks'
  BY <1>1 DEF AnnouncedBlocks
<1>3. \A x \in blocks : ValidAtMiner(x)'
  <2> SUFFICES ASSUME NEW x \in blocks PROVE ValidAtMiner(x)'
    OBVIOUS
  <2>1. PICK m \in Miners :
           /\ x.block.timestamp \in Nat /\ x.block.timestamp <= x.at + skew[m]
           /\ \A i \in DOMAIN x.block.transactions :
                  x.block.transactions[i].content.timestamp \in Nat
           /\ ValidBlock(x.block, AnnouncedBlocks, x.at + skew[m])
    BY DEF ValidAtMiner
  <2>2. x.at + skew[m] \in Nat
    BY ConsensusAssumption DEF Origins, BlockTypes, Participants, Nodes
  <2>3. ValidBlock(x.block, AnnouncedBlocks', x.at + skew[m])
    BY <1>2, <2>1, <2>2, ValidBlockStays
  <2> QED BY <1>1, <2>1, <2>3 DEF ValidAtMiner
<1>4. ASSUME NEW m \in Miners, Publish(m) PROVE \A x \in blocks' : ValidAtMiner(x)'
  <2>1. PICK b : b = Signed(m)
    OBVIOUS
  <2>2. PICK x : x = [block |-> b, at |-> now]
    OBVIOUS
  <2>3. blocks' = blocks \cup {x} /\ Mining(m) /\ ValidBlock(b, {current[m].previous}, Clock(m))
    BY <1>4, <2>1, <2>2 DEF Publish
  <2>4. /\ b.timestamp = current[m].block.timestamp /\ b.height = current[m].block.height
        /\ b.transactions = current[m].block.transactions
    BY <2>1, <2>3 DEF Signed, SignBlock, Mined
  <2>5. \A i \in DOMAIN b.transactions : b.transactions[i].content.timestamp \in Nat
    BY <2>3, <2>4 DEF Typed
  <2>6. b.timestamp \in Nat /\ b.timestamp <= Clock(m) /\ Clock(m) \in Nat
    <3>1. b.timestamp \in Nat /\ b.timestamp <= Clock(m)
      BY <2>3, <2>4 DEF Mined
    <3>2. Clock(m) \in Nat
      BY ClockType DEF Participants, Nodes
    <3> QED BY <3>1, <3>2
  <2>7. ValidBlock(b, AnnouncedBlocks, Clock(m))
    <3>1. b.height # 1 => current[m].previous \in AnnouncedBlocks
      BY <2>3, <2>4 DEF Mined
    <3> QED BY <2>3, <3>1 DEF ValidBlock
  <2>8. ValidBlock(b, AnnouncedBlocks', Clock(m))
    <3>1. PICK t \in Nat : t = Clock(m)
      BY <2>6
    <3>2. PICK more : more = AnnouncedBlocks'
      OBVIOUS
    <3>3. AnnouncedBlocks \subseteq more /\ t <= t /\ ValidBlock(b, AnnouncedBlocks, t)
      BY <1>2, <2>7, <3>1, <3>2
    <3> HIDE DEF BlocksInv, TypeInv
    <3>4. ValidBlock(b, more, t)
      BY <2>5, <2>6, <3>3, ValidBlockStays
    <3> QED BY <3>1, <3>2, <3>4
  <2>9. ValidAtMiner(x)'
    BY <1>1, <2>2, <2>5, <2>6, <2>8 DEF ValidAtMiner, Clock
  <2> QED BY <1>3, <2>3, <2>9
<1>5. UNCHANGED blocks \/ \E m \in Miners : Publish(m)
  BY ZenonT(60)
     DEF Next, Tick, Announce, RequestDeletion, Respond, ReceiveTransaction, StartGenesis,
         StartBlock, GiveUp, Store, vars
<1> QED BY <1>3, <1>4, <1>5

LEMMA BlocksInvariant == Spec => []BlocksInv
<1>1. Init => BlocksInv
  <2>1. Init => Mined
    BY DEF Init, Mined, Mining
  <2>2. Init => BlockTypes
    BY DEF Init, BlockTypes
  <2> QED BY <2>1, <2>2, TypedInit, OriginsInit DEF Init, BlocksInv, TypeInv
<1>2. BlocksInv /\ [Next]_vars => BlocksInv'
  BY TypedStep, OriginsStep, BlockTypesStep, MinedStep, ValidAtMinerStep DEF BlocksInv, TypeInv
<1> QED BY <1>1, <1>2, PTL DEF Spec

\* A block that an honest miner announces is valid for every node that knows the announced
\* blocks, once it is as old as clocks may differ: DefaultBlockValidator.Validate refuses it
\* for a while at most, and a node that did gets it from a synchronisation.
THEOREM BlocksAcceptedInTime == Spec => []BlocksAccepted
<1>1. BlocksInv => BlocksAccepted
  <2> SUFFICES ASSUME BlocksInv, NEW x \in blocks, NEW n \in Nodes, now >= x.at + MaxSkew
               PROVE  ValidBlock(x.block, AnnouncedBlocks, Clock(n))
    BY DEF BlocksAccepted
  <2> USE DEF BlocksInv, TypeInv
  <2>1. PICK m \in Miners :
           /\ x.block.timestamp \in Nat /\ x.block.timestamp <= x.at + skew[m]
           /\ \A i \in DOMAIN x.block.transactions :
                  x.block.transactions[i].content.timestamp \in Nat
           /\ ValidBlock(x.block, AnnouncedBlocks, x.at + skew[m])
    BY DEF ValidAtMiner
  <2>2. x.at + skew[m] \in Nat /\ Clock(n) \in Nat /\ x.at + skew[m] <= Clock(n)
    BY ConsensusAssumption DEF Clock, Origins, BlockTypes, Participants, Nodes
  <2> QED BY <2>1, <2>2, ValidBlockStays
<1> QED BY <1>1, BlocksInvariant, PTL
-----------------------------------------------------------------------------
(* The Merkle root, for lists of any length: induction over the layers of the tree. *)

\* Induction over sets of numbers, from the order of the naturals being well-founded.
LEMMA LeastNumber ==
    ASSUME NEW T, T \subseteq Nat, T # {}
    PROVE  \E n \in T : \A m \in T : n <= m
<1> DEFINE R == OpToRel(<, Nat)
<1>1. IsWellFoundedOn(R, Nat)
      BY NatLessThanWellFounded
<1>2. R = {ss \in Nat \X Nat : ss[1] < ss[2]}
      BY DEF OpToRel
<1> HIDE DEF R
<1>3. PICK n \in T : \A m \in T : <<m, n>> \notin R
      BY <1>1, WFMin
<1>4. \A m \in T : ~(m < n)
      BY <1>2, <1>3
<1> QED BY <1>4

LEMMA NatInductionOnSet ==
    ASSUME NEW T, 0 \in T, \A n \in T : n \in Nat => n + 1 \in T
    PROVE  Nat \subseteq T
<1> SUFFICES ASSUME Nat \ T # {} PROVE FALSE
    OBVIOUS
<1>1. PICK n \in Nat \ T : \A m \in Nat \ T : n <= m
      BY LeastNumber
<1>2. n - 1 \in Nat /\ n - 1 \in T
      BY <1>1
<1>3. (n - 1) + 1 \in T
      BY <1>2
<1> QED BY <1>1, <1>3

\* A sequence, of whatever it is of, with an element.
List(h) == h \in Seq({h[i] : i \in DOMAIN h}) /\ h # <<>>

LEMMA ListProperties ==
    ASSUME NEW h, List(h)
    PROVE  /\ Len(h) \in Nat /\ Len(h) >= 1 /\ DOMAIN h = 1 .. Len(h)
           /\ h = [i \in 1 .. Len(h) |-> h[i]]
BY DEF List

LEMMA ListOf ==
    ASSUME NEW n \in Nat, n >= 1, NEW h, h = [i \in 1 .. n |-> h[i]]
    PROVE  List(h) /\ Len(h) = n
<1> DEFINE X == {h[i] : i \in DOMAIN h}
<1>1. h \in [1 .. n -> X]
      OBVIOUS
<1> HIDE DEF X
<1>2. h \in Seq(X) /\ Len(h) = n
      BY <1>1
<1> QED BY <1>2 DEF List, X

\* A number and its half, rounded up.
LEMMA HalfUp ==
    ASSUME NEW n \in Nat
    PROVE  \E c \in Nat : c = (n + 1) \div 2 /\ (n = 2 * c \/ n = 2 * c - 1)
<1> DEFINE c == (n + 1) \div 2
<1>1. c \in Nat /\ (n = 2 * c \/ n = 2 * c - 1)
      OBVIOUS
<1> QED BY <1>1

LEMMA Halves ==
    ASSUME NEW a \in Nat, NEW b \in Nat, a = 2 * b \/ a = 2 * b - 1
    PROVE  /\ (a = 1 => b = 1) /\ (a >= 2 => b < a)
           /\ \A i \in 1 .. b : /\ 2 * i - 1 \in 1 .. a
                               /\ 2 * i <= b => 2 * i - 1 \in 1 .. b /\ 2 * (2 * i - 1) <= a
<1>1. ASSUME NEW i \in 1 .. b
      PROVE  /\ 2 * i - 1 \in 1 .. a
             /\ 2 * i <= b => 2 * i - 1 \in 1 .. b /\ 2 * (2 * i - 1) <= a
      OBVIOUS
<1>2. (a = 1 => b = 1) /\ (a >= 2 => b < a)
      OBVIOUS
<1> QED BY <1>1, <1>2

LEMMA PairIdentifies ==
    \A a, b, c, d : Pair(a, b) = Pair(c, d) => a = c /\ b = d
BY DEF Pair

LEMMA NextLayerProperties ==
    ASSUME NEW h, List(h)
    PROVE  /\ List(NextLayer(h))
           /\ Len(h) = 2 * Len(NextLayer(h)) \/ Len(h) = 2 * Len(NextLayer(h)) - 1
           /\ \A i \in 1 .. Len(NextLayer(h)) :
                NextLayer(h)[i] = IF 2 * i <= Len(h) THEN Pair(h[2 * i - 1], h[2 * i])
                                  ELSE h[2 * i - 1]
<1>1. Len(h) \in Nat /\ Len(h) >= 1
      BY ListProperties
<1>2. PICK n \in Nat : n = (Len(h) + 1) \div 2 /\ (Len(h) = 2 * n \/ Len(h) = 2 * n - 1)
      BY <1>1, HalfUp
<1>3. n >= 1
      BY <1>1, <1>2
<1>4. NextLayer(h) =
         [i \in 1 .. n |-> IF 2 * i <= Len(h) THEN Pair(h[2 * i - 1], h[2 * i]) ELSE h[2 * i - 1]]
      BY <1>2 DEF NextLayer
<1>5. NextLayer(h) = [i \in 1 .. n |-> NextLayer(h)[i]]
      BY <1>4
<1>6. List(NextLayer(h)) /\ Len(NextLayer(h)) = n
      BY <1>3, <1>5, ListOf
<1> QED BY <1>2, <1>4, <1>6

LEMMA HalfTheLength ==
    ASSUME NEW h, List(h), NEW g, g = NextLayer(h)
    PROVE  /\ \A y \in 1 .. Len(g) : 2 * y - 1 \in 1 .. Len(h)
           /\ \A y \in 1 .. Len(g) : 2 * y <= Len(g) =>
                 /\ 2 * y - 1 \in 1 .. Len(g) /\ 2 * y - 1 \in 1 .. Len(h)
                 /\ 2 * (2 * y - 1) <= Len(h)
<1>1. /\ Len(h) \in Nat /\ Len(g) \in Nat
      /\ Len(h) = 2 * Len(g) \/ Len(h) = 2 * Len(g) - 1
      BY ListProperties, NextLayerProperties
<1> QED BY <1>1, Halves

Leaves(s) == [i \in DOMAIN s |-> Leaf(s[i])]

\* L is the layers of the tree over s, up to the last one that MerkleRoot computes.
Layers(L, s) ==
    L = [k \in 0 .. Len(s) |-> IF k = 0 THEN Leaves(s) ELSE NextLayer(L[k - 1])]

LEMMA LayersExist ==
    ASSUME NEW s, Len(s) \in Nat PROVE \E L : Layers(L, s)
<1> DEFINE Upto(L, n) == L = [k \in 0 .. n |-> IF k = 0 THEN Leaves(s) ELSE NextLayer(L[k - 1])]
           T == {n \in Nat : \E L : Upto(L, n)}
<1>1. 0 \in T
  <2>1. Upto([k \in 0 .. 0 |-> Leaves(s)], 0)
        OBVIOUS
  <2> QED BY <2>1
<1>2. ASSUME NEW n \in T PROVE n + 1 \in T
  <2>1. n \in Nat
        OBVIOUS
  <2>2. PICK L : Upto(L, n)
        OBVIOUS
  <2> DEFINE M == [k \in 0 .. (n + 1) |-> IF k = 0 THEN Leaves(s) ELSE NextLayer(L[k - 1])]
  <2>3. \A k \in 0 .. n : k \in 0 .. (n + 1) /\ L[k] = M[k]
        BY <2>1, <2>2
  <2>4. \A k \in 0 .. (n + 1) : k # 0 => k - 1 \in 0 .. n
        BY <2>1
  <2>5. Upto(M, n + 1)
        BY <2>3, <2>4
  <2> HIDE DEF M, Upto
  <2> QED BY <2>1, <2>5
<1>3. Nat \subseteq T
      BY <1>1, <1>2, NatInductionOnSet
<1>4. PICK L : Upto(L, Len(s))
      BY <1>3
<1> QED BY <1>4 DEF Layers

LEMMA RootIsOfLayers ==
    ASSUME NEW s, List(s)
    PROVE  \E L : Layers(L, s) /\ MerkleRoot(s) = L[Len(s)][1]
<1>1. MerkleRoot(s) = (CHOOSE L : Layers(L, s))[Len(s)][1]
      BY Zenon DEF List, MerkleRoot, Layers, Leaves
<1> QED BY <1>1, LayersExist, ListProperties
\* Every layer is a list and, until one hash is left, shorter than the one below.
LEMMA LayersProperties ==
    ASSUME NEW L, NEW s, List(s), Layers(L, s)
    PROVE  /\ L[0] = Leaves(s)
           /\ \A k \in 0 .. Len(s) : k # 0 => L[k] = NextLayer(L[k - 1])
           /\ \A k \in 0 .. Len(s) : List(L[k]) /\ (Len(L[k]) = 1 \/ Len(L[k]) <= Len(s) - k)
<1>1. Len(s) \in Nat /\ Len(s) >= 1 /\ DOMAIN s = 1 .. Len(s)
      BY ListProperties
<1>2. L[0] = Leaves(s) /\ \A k \in 0 .. Len(s) : k # 0 => L[k] = NextLayer(L[k - 1])
      BY <1>1 DEF Layers
<1> DEFINE Small(k) == List(L[k]) /\ (Len(L[k]) = 1 \/ Len(L[k]) <= Len(s) - k)
           T == {k \in Nat : k <= Len(s) => Small(k)}
<1>3. 0 \in T
  <2>1. Leaves(s) = [i \in 1 .. Len(s) |-> Leaves(s)[i]]
        BY <1>1 DEF Leaves
  <2>2. List(Leaves(s)) /\ Len(Leaves(s)) = Len(s)
        BY <1>1, <2>1, ListOf
  <2> QED BY <1>1, <1>2, <2>2
<1>4. ASSUME NEW k \in T PROVE k + 1 \in T
  <2> SUFFICES ASSUME k + 1 <= Len(s) PROVE Small(k + 1)
        OBVIOUS
  <2>1. k \in Nat /\ Small(k)
        BY <1>1
  <2>2. k + 1 \in 0 .. Len(s) /\ (k + 1) - 1 = k
        BY <1>1, <2>1
  <2>3. L[k + 1] = NextLayer(L[k])
        BY <1>2, <2>2
  <2>4. List(L[k + 1]) /\ (Len(L[k]) = 2 * Len(L[k + 1]) \/ Len(L[k]) = 2 * Len(L[k + 1]) - 1)
        BY <2>1, <2>3, NextLayerProperties
  <2>5. /\ Len(L[k]) \in Nat /\ Len(L[k]) >= 1
        /\ Len(L[k + 1]) \in Nat /\ Len(L[k + 1]) >= 1
        BY <2>1, <2>4, ListProperties
  <2>6. (Len(L[k]) = 1 => Len(L[k + 1]) = 1) /\ (Len(L[k]) >= 2 => Len(L[k + 1]) < Len(L[k]))
        BY <2>4, <2>5, Halves
  <2>7. Len(L[k + 1]) = 1 \/ Len(L[k + 1]) <= Len(s) - (k + 1)
    <3> DEFINE a == Len(L[k])  b == Len(L[k + 1])  n == Len(s)
    <3>1. /\ a \in Nat /\ b \in Nat /\ n \in Nat /\ k \in Nat /\ a >= 1
          /\ (a = 1 => b = 1) /\ (a >= 2 => b < a) /\ (a = 1 \/ a <= n - k)
      <4> HIDE DEF T
      <4> QED BY <1>1, <2>1, <2>5, <2>6
    <3> HIDE DEF a, b, n, T, Small
    <3>2. b = 1 \/ b <= n - (k + 1)
          BY <3>1
    <3> QED BY <3>2 DEF a, b, n
  <2> QED BY <2>4, <2>7
<1> HIDE DEF T
<1>5. Nat \subseteq T
      BY <1>3, <1>4, NatInductionOnSet
<1>6. \A k \in 0 .. Len(s) : k \in Nat /\ k <= Len(s)
      BY <1>1
<1> QED BY <1>2, <1>5, <1>6 DEF T

\* A pair that NextLayer makes of layer k of L is not in layer j of M.
New(L, k, M, j) ==
    \A i \in 1 .. Len(L[k]), e \in 1 .. Len(M[j]) :
        2 * i <= Len(L[k]) => Pair(L[k][2 * i - 1], L[k][2 * i]) # M[j][e]

\* Two hashes that are equal pairs are pairs of equal hashes, one layer below.
LEMMA NewStep ==
    ASSUME NEW s, List(s), NEW L, Layers(L, s), NEW t, List(t), NEW M, Layers(M, t),
           NEW k \in 0 .. Len(s),
           k # 0 => \A j \in 0 .. Len(t) : j <= k - 1 => New(L, k - 1, M, j)
    PROVE  \A j \in 0 .. Len(t) : j <= k => New(L, k, M, j)
<1>1. Len(s) \in Nat /\ Len(t) \in Nat /\ k \in Nat /\ DOMAIN t = 1 .. Len(t)
      BY ListProperties
<1> DEFINE U == {j \in Nat : j <= k /\ j <= Len(t) => New(L, k, M, j)}
<1>2. 0 \in U
  <2>1. M[0] = Leaves(t) /\ List(M[0])
        BY <1>1, LayersProperties
  <2>2. \A e \in 1 .. Len(M[0]) : M[0][e] = Leaf(t[e])
        BY <1>1, <2>1, ListProperties DEF Leaves
  <2>3. \A x, l, r : Leaf(x).hash = "leaf" /\ Pair(l, r).hash = "pair"
        BY DEF Leaf, Pair
  <2>4. \A l, r, x : Pair(l, r) # Leaf(x)
        BY <2>3
  <2> QED BY <2>2, <2>4 DEF New
<1>3. ASSUME NEW j \in U PROVE j + 1 \in U
  <2> SUFFICES ASSUME j + 1 <= k, j + 1 <= Len(t),
                      NEW i \in 1 .. Len(L[k]), NEW e \in 1 .. Len(M[j + 1]), 2 * i <= Len(L[k]),
                      Pair(L[k][2 * i - 1], L[k][2 * i]) = M[j + 1][e]
               PROVE  FALSE
        BY DEF New
  <2>1. j \in Nat /\ j <= k - 1 /\ k # 0 /\ k - 1 \in 0 .. Len(s) /\ j \in 0 .. Len(t)
        BY <1>1
  <2>2. New(L, k, M, j) /\ New(L, k - 1, M, j)
    <3> HIDE DEF New
    <3> QED BY <1>1, <2>1
  <2> HIDE DEF U
  <2>3. /\ List(L[k - 1]) /\ L[k] = NextLayer(L[k - 1]) /\ List(L[k])
        /\ List(M[j]) /\ M[j + 1] = NextLayer(M[j]) /\ List(M[j + 1])
    <3>1. j + 1 \in 0 .. Len(t) /\ (j + 1) - 1 = j /\ j + 1 # 0
          BY <1>1, <2>1
    <3>2. List(L[k - 1]) /\ L[k] = NextLayer(L[k - 1]) /\ List(L[k])
          BY <2>1, LayersProperties
    <3>3. List(M[j]) /\ M[j + 1] = NextLayer(M[j]) /\ List(M[j + 1])
          BY <2>1, <3>1, LayersProperties
    <3> QED BY <3>2, <3>3
  <2>4. /\ \A y \in 1 .. Len(M[j + 1]) : 2 * y - 1 \in 1 .. Len(M[j])
        /\ \A y \in 1 .. Len(L[k]) : 2 * y <= Len(L[k]) =>
              /\ 2 * y - 1 \in 1 .. Len(L[k]) /\ 2 * y - 1 \in 1 .. Len(L[k - 1])
              /\ 2 * (2 * y - 1) <= Len(L[k - 1])
        BY <2>3, HalfTheLength
  <2>5. 2 * e - 1 \in 1 .. Len(M[j])
        BY <2>4
  <2>6. M[j + 1][e] = IF 2 * e <= Len(M[j]) THEN Pair(M[j][2 * e - 1], M[j][2 * e])
                      ELSE M[j][2 * e - 1]
    <3>1. e \in 1 .. Len(NextLayer(M[j]))
          BY <2>3
    <3> QED BY <2>3, <3>1, NextLayerProperties
  <2>7. CASE ~(2 * e <= Len(M[j]))
        BY <2>2, <2>5, <2>6, <2>7 DEF New
  <2>8. CASE 2 * e <= Len(M[j])
    <3>1. L[k][2 * i - 1] = M[j][2 * e - 1]
          BY <2>6, <2>8, PairIdentifies
    <3> DEFINE x == 2 * i - 1
    <3>2. x \in 1 .. Len(L[k]) /\ x \in 1 .. Len(L[k - 1]) /\ 2 * x <= Len(L[k - 1])
          BY <2>4
    <3> HIDE DEF x
    <3>3. L[k][x] = Pair(L[k - 1][2 * x - 1], L[k - 1][2 * x])
          BY <2>3, <3>2, NextLayerProperties
    <3>4. L[k][x] # M[j][2 * e - 1]
          BY <2>2, <2>5, <3>2, <3>3 DEF New
    <3> QED BY <3>1, <3>4 DEF x
  <2> QED BY <2>7, <2>8
<1> HIDE DEF U
<1>4. Nat \subseteq U
      BY <1>2, <1>3, NatInductionOnSet
<1> QED BY <1>1, <1>4 DEF U

LEMMA PairsAreNew ==
    ASSUME NEW s, List(s), NEW L, Layers(L, s), NEW t, List(t), NEW M, Layers(M, t)
    PROVE  \A k \in 0 .. Len(s), j \in 0 .. Len(t) : j <= k => New(L, k, M, j)
<1> DEFINE AllNew(k) == \A j \in 0 .. Len(t) : j <= k => New(L, k, M, j)
           T == {k \in Nat : k <= Len(s) => AllNew(k)}
<1>1. Len(s) \in Nat
      BY ListProperties
<1>2. 0 \in T
  <2>1. 0 \in 0 .. Len(s)
        BY <1>1
  <2>2. AllNew(0)
        BY <2>1, NewStep
  <2> QED BY <2>2
<1>3. ASSUME NEW k \in T PROVE k + 1 \in T
  <2> SUFFICES ASSUME k + 1 <= Len(s) PROVE AllNew(k + 1)
        OBVIOUS
  <2>1. k \in Nat /\ AllNew(k)
        BY <1>1
  <2>2. k + 1 \in 0 .. Len(s) /\ (k + 1) - 1 = k
        BY <1>1, <2>1
  <2> QED BY <2>1, <2>2, NewStep
<1> HIDE DEF T
<1>4. Nat \subseteq T
      BY <1>2, <1>3, NatInductionOnSet
<1> QED BY <1>1, <1>4 DEF T

\* Layer p of L is the first one with one hash, which is the root.
Height(L, s, p) ==
    /\ p \in 0 .. Len(s) /\ Len(L[p]) = 1
    /\ \A k \in 0 .. (p - 1) : Len(L[k]) # 1
    /\ L[Len(s)][1] = L[p][1]

LEMMA HeightExists ==
    ASSUME NEW s, List(s), NEW L, Layers(L, s) PROVE \E p : Height(L, s, p)
<1>1. Len(s) \in Nat /\ Len(s) >= 1
      BY ListProperties
<1> DEFINE One == {k \in 0 .. Len(s) : Len(L[k]) = 1}
<1>2. Len(s) \in One
  <2>1. Len(s) \in 0 .. Len(s)
        BY <1>1
  <2>2. List(L[Len(s)]) /\ (Len(L[Len(s)]) = 1 \/ Len(L[Len(s)]) <= Len(s) - Len(s))
        BY <2>1, LayersProperties
  <2>3. Len(L[Len(s)]) \in Nat /\ Len(L[Len(s)]) >= 1
        BY <2>2, ListProperties
  <2> QED BY <1>1, <2>1, <2>2, <2>3
<1>3. PICK p \in One : \A k \in One : p <= k
  <2>1. One \subseteq Nat /\ One # {}
        BY <1>2
  <2> QED BY <2>1, LeastNumber
<1>4. p \in 0 .. Len(s) /\ Len(L[p]) = 1
      BY <1>3
<1> DEFINE T == {d \in Nat : p + d <= Len(s) => Len(L[p + d]) = 1 /\ L[p + d][1] = L[p][1]}
<1>5. 0 \in T
      BY <1>1, <1>4
<1>6. ASSUME NEW d \in T PROVE d + 1 \in T
  <2> SUFFICES ASSUME p + (d + 1) <= Len(s)
               PROVE  Len(L[p + (d + 1)]) = 1 /\ L[p + (d + 1)][1] = L[p][1]
        OBVIOUS
  <2> DEFINE k == p + d
  <2>1. /\ d \in Nat /\ k \in 0 .. Len(s) /\ k + 1 \in 0 .. Len(s)
        /\ p + (d + 1) = k + 1 /\ k + 1 # 0 /\ (k + 1) - 1 = k
        BY <1>1, <1>4
  <2>2. Len(L[k]) = 1 /\ L[k][1] = L[p][1]
        BY <1>1, <1>4, <2>1
  <2> HIDE DEF k
  <2>3. List(L[k]) /\ L[k + 1] = NextLayer(L[k])
        BY <2>1, LayersProperties
  <2>4. /\ Len(L[k + 1]) \in Nat
        /\ 1 = 2 * Len(L[k + 1]) \/ 1 = 2 * Len(L[k + 1]) - 1
        BY <2>2, <2>3, ListProperties, NextLayerProperties
  <2>5. Len(L[k + 1]) = 1
        BY <2>4, Halves
  <2>6. \A i \in 1 .. 1 : 2 * i <= 1 \/ L[k + 1][i] = L[k][2 * i - 1]
        BY <2>2, <2>3, <2>5, NextLayerProperties
  <2>7. L[k + 1][1] = L[k][1]
        BY <2>6
  <2> QED BY <2>1, <2>2, <2>5, <2>7
<1> HIDE DEF T
<1>7. Nat \subseteq T
      BY <1>5, <1>6, NatInductionOnSet
<1>8. L[Len(s)][1] = L[p][1]
  <2>1. Len(s) - p \in Nat /\ p + (Len(s) - p) = Len(s)
        BY <1>1, <1>4
  <2>2. Len(s) - p \in T
        BY <1>7, <2>1
  <2> QED BY <1>1, <2>1, <2>2 DEF T
<1>9. \A k \in 0 .. (p - 1) : Len(L[k]) # 1
  <2>1. \A k \in 0 .. (p - 1) : k \in 0 .. Len(s) /\ ~(p <= k)
        BY <1>1, <1>4
  <2> QED BY <1>3, <2>1
<1> QED BY <1>4, <1>8, <1>9 DEF Height

\* The first hash of a layer that is not the last is in a pair, which no lower layer has.
LEMMA NotHigher ==
    ASSUME NEW s, List(s), NEW L, Layers(L, s), NEW t, List(t), NEW M, Layers(M, t),
           NEW p, Height(L, s, p), NEW q, Height(M, t, q), L[p][1] = M[q][1]
    PROVE  p <= q
<1> SUFFICES ASSUME ~(p <= q) PROVE FALSE
      OBVIOUS
<1>1. Len(s) \in Nat /\ Len(t) \in Nat /\ p \in 0 .. Len(s) /\ q \in 0 .. Len(t)
      BY ListProperties DEF Height
<1>2. p # 0 /\ p - 1 \in 0 .. Len(s) /\ q <= p - 1 /\ p - 1 \in 0 .. (p - 1)
      BY <1>1
<1>3. List(L[p - 1]) /\ L[p] = NextLayer(L[p - 1])
      BY <1>1, <1>2, LayersProperties
<1>4. /\ Len(L[p - 1]) \in Nat /\ Len(L[p - 1]) # 1 /\ Len(L[p]) = 1 /\ Len(M[q]) = 1
      /\ Len(L[p - 1]) = 2 * Len(L[p]) \/ Len(L[p - 1]) = 2 * Len(L[p]) - 1
      BY <1>2, <1>3, ListProperties, NextLayerProperties DEF Height
<1>5. Len(L[p - 1]) = 2
      BY <1>4
<1>6. \A i \in 1 .. 1 : 2 * i <= 2 => L[p][i] = Pair(L[p - 1][2 * i - 1], L[p - 1][2 * i])
      BY <1>3, <1>4, <1>5, NextLayerProperties
<1>7. New(L, p - 1, M, q)
      BY <1>1, <1>2, PairsAreNew
<1>8. \A i \in 1 .. 2, e \in 1 .. 1 :
         2 * i <= 2 => Pair(L[p - 1][2 * i - 1], L[p - 1][2 * i]) # M[q][e]
      BY <1>4, <1>5, <1>7 DEF New
<1>9. ASSUME NEW i \in 1 .. 1 PROVE L[p][i] # M[q][i]
      BY <1>6, <1>8
<1> QED BY <1>9

\* A layer whose last hash is a pair and one whose last hash is left over are not of one root.
LEMMA NotLonger ==
    ASSUME NEW s, List(s), NEW L, Layers(L, s), NEW t, List(t), NEW M, Layers(M, t),
           NEW k \in 0 .. Len(s), k \in 0 .. Len(t), NextLayer(L[k]) = NextLayer(M[k])
    PROVE  Len(L[k]) <= Len(M[k])
<1> SUFFICES ASSUME ~(Len(L[k]) <= Len(M[k])) PROVE FALSE
      OBVIOUS
<1>1. List(L[k]) /\ List(M[k])
      BY LayersProperties
<1>2. PICK c : c = Len(NextLayer(L[k]))
      OBVIOUS
<1>3. /\ Len(L[k]) \in Nat /\ Len(M[k]) \in Nat /\ c \in Nat /\ c >= 1
      /\ Len(L[k]) = 2 * c \/ Len(L[k]) = 2 * c - 1
      /\ Len(M[k]) = 2 * c \/ Len(M[k]) = 2 * c - 1
      BY <1>1, <1>2, ListProperties, NextLayerProperties
<1>4. Len(L[k]) = 2 * c /\ Len(M[k]) = 2 * c - 1 /\ c \in 1 .. c
      BY <1>3
<1>5. NextLayer(L[k])[c] = Pair(L[k][2 * c - 1], L[k][2 * c])
  <2>1. c \in 1 .. Len(NextLayer(L[k])) /\ 2 * c <= Len(L[k])
        BY <1>2, <1>3, <1>4
  <2> QED BY <1>1, <2>1, NextLayerProperties
<1>6. ~(2 * c <= 2 * c - 1)
      BY <1>3
<1>7. NextLayer(M[k])[c] = M[k][2 * c - 1]
      BY <1>1, <1>2, <1>4, <1>6, NextLayerProperties
<1>8. k <= k /\ New(L, k, M, k)
      BY ListProperties, PairsAreNew
<1>9. /\ c \in 1 .. Len(L[k]) /\ 2 * c <= Len(L[k])
      /\ 2 * c - 1 \in 1 .. Len(M[k])
      BY <1>3, <1>4
<1>10. Pair(L[k][2 * c - 1], L[k][2 * c]) # M[k][2 * c - 1]
      BY <1>8, <1>9 DEF New
<1> QED BY <1>5, <1>7, <1>10

\* Layers with the same layer above are the same.
LEMMA Downwards ==
    ASSUME NEW s, List(s), NEW L, Layers(L, s), NEW t, List(t), NEW M, Layers(M, t),
           NEW k \in 0 .. Len(s), k \in 0 .. Len(t), NextLayer(L[k]) = NextLayer(M[k])
    PROVE  L[k] = M[k]
<1>1. List(L[k]) /\ List(M[k])
      BY LayersProperties
<1>2. Len(L[k]) \in Nat /\ Len(M[k]) \in Nat
      BY <1>1, ListProperties
<1>3. Len(L[k]) <= Len(M[k]) /\ Len(M[k]) <= Len(L[k])
      BY NotLonger
<1>4. Len(L[k]) = Len(M[k])
      BY <1>2, <1>3
<1>5. ASSUME NEW x \in 1 .. Len(L[k]) PROVE L[k][x] = M[k][x]
  <2>1. x \in Nat /\ x >= 1
        BY <1>2
  <2>2. PICK i \in Nat : x = 2 * i \/ x = 2 * i - 1
        BY <2>1, HalfUp
  <2>3. PICK c : c = Len(NextLayer(L[k]))
        OBVIOUS
  <2>4. c \in Nat /\ (Len(L[k]) = 2 * c \/ Len(L[k]) = 2 * c - 1)
        BY <1>1, <2>3, ListProperties, NextLayerProperties
  <2>5. i \in 1 .. c /\ (~(2 * i <= Len(L[k])) => x = 2 * i - 1)
        BY <1>2, <2>1, <2>2, <2>4
  <2>6. (IF 2 * i <= Len(L[k]) THEN Pair(L[k][2 * i - 1], L[k][2 * i]) ELSE L[k][2 * i - 1])
           = IF 2 * i <= Len(L[k]) THEN Pair(M[k][2 * i - 1], M[k][2 * i]) ELSE M[k][2 * i - 1]
        BY <1>1, <1>4, <2>3, <2>5, NextLayerProperties
  <2>7. CASE 2 * i <= Len(L[k])
        BY <2>2, <2>6, <2>7 DEF Pair
  <2>8. CASE ~(2 * i <= Len(L[k]))
        BY <2>5, <2>6, <2>8
  <2> QED BY <2>7, <2>8
<1>6. /\ L[k] = [x \in 1 .. Len(L[k]) |-> L[k][x]]
      /\ M[k] = [x \in 1 .. Len(L[k]) |-> M[k][x]]
      BY <1>1, <1>4, ListProperties
<1> QED BY <1>5, <1>6

\* ComputeMerkleRoot gives different roots to different lists of transactions, however long they
\* are and also if they repeat a transaction: a hash left over that goes up unchanged is never
\* taken for a pair.
THEOREM MerkleRootInjective ==
    ASSUME NEW s, List(s), NEW t, List(t), MerkleRoot(s) = MerkleRoot(t)
    PROVE  s = t
<1>1. PICK L : Layers(L, s) /\ MerkleRoot(s) = L[Len(s)][1]
      BY RootIsOfLayers
<1>2. PICK M : Layers(M, t) /\ MerkleRoot(t) = M[Len(t)][1]
      BY RootIsOfLayers
<1>3. PICK p : Height(L, s, p)
      BY <1>1, HeightExists
<1>4. PICK q : Height(M, t, q)
      BY <1>2, HeightExists
<1>5. L[p][1] = M[q][1] /\ Len(L[p]) = 1 /\ Len(M[q]) = 1
      BY <1>1, <1>2, <1>3, <1>4 DEF Height
<1>6. /\ Len(s) \in Nat /\ DOMAIN s = 1 .. Len(s) /\ s = [i \in 1 .. Len(s) |-> s[i]]
      /\ Len(t) \in Nat /\ DOMAIN t = 1 .. Len(t) /\ t = [i \in 1 .. Len(t) |-> t[i]]
      BY ListProperties
<1>7. p = q
  <2>1. p <= q
        BY <1>1, <1>2, <1>3, <1>4, <1>5, NotHigher
  <2>2. q <= p
        BY <1>1, <1>2, <1>3, <1>4, <1>5, NotHigher
  <2> QED BY <1>3, <1>4, <1>6, <2>1, <2>2 DEF Height
<1>8. p \in Nat /\ p <= Len(s) /\ p <= Len(t)
      BY <1>3, <1>4, <1>6, <1>7 DEF Height
<1> DEFINE T == {d \in Nat : d <= p => L[p - d] = M[p - d]}
<1>9. 0 \in T
  <2>1. List(L[p]) /\ List(M[p])
        BY <1>1, <1>2, <1>6, <1>8, LayersProperties
  <2>2. L[p] = [i \in 1 .. 1 |-> L[p][i]] /\ M[p] = [i \in 1 .. 1 |-> M[p][i]]
        BY <1>5, <1>7, <2>1, ListProperties
  <2> QED BY <1>5, <1>7, <1>8, <2>2
<1>10. ASSUME NEW d \in T PROVE d + 1 \in T
  <2> SUFFICES ASSUME d + 1 <= p PROVE L[p - (d + 1)] = M[p - (d + 1)]
        OBVIOUS
  <2> DEFINE k == p - (d + 1)
  <2>1. /\ k \in 0 .. Len(s) /\ k \in 0 .. Len(t)
        /\ k + 1 \in 0 .. Len(s) /\ k + 1 \in 0 .. Len(t) /\ k + 1 # 0
        /\ (k + 1) - 1 = k /\ k + 1 = p - d
        BY <1>6, <1>8
  <2>2. L[k + 1] = M[k + 1]
        BY <1>8, <2>1
  <2> HIDE DEF k
  <2>3. L[k + 1] = NextLayer(L[k]) /\ M[k + 1] = NextLayer(M[k])
        BY <1>1, <1>2, <2>1, LayersProperties
  <2>4. NextLayer(L[k]) = NextLayer(M[k])
        BY <2>2, <2>3
  <2>5. L[k] = M[k]
        BY <1>1, <1>2, <2>1, <2>4, Downwards
  <2> QED BY <2>5 DEF k
<1> HIDE DEF T
<1>11. Nat \subseteq T
      BY <1>9, <1>10, NatInductionOnSet
<1>12. L[0] = M[0]
  <2>1. p \in T /\ p - p = 0
        BY <1>8, <1>11
  <2> QED BY <1>8, <2>1 DEF T
<1>13. Leaves(s) = Leaves(t)
      BY <1>1, <1>2, <1>12, LayersProperties
<1>14. DOMAIN s = DOMAIN t
      BY <1>13 DEF Leaves
<1>15. \A i \in DOMAIN s : Leaf(s[i]) = Leaf(t[i])
      BY <1>13, <1>14 DEF Leaves
<1>16. \A i \in DOMAIN s : s[i] = t[i]
      BY <1>15 DEF Leaf
<1> QED BY <1>6, <1>14, <1>16

-----------------------------------------------------------------------------
(* The hashes: what a chain of announced blocks relies on. *)

\* A hash stands for one announced block, and every announced block other than a genesis for the
\* next height on an announced one that is no later: what the stores and the chain rely on and
\* the validators do not compare, or compare with the blocks one node knows.
HashesLinkBlocks ==
    /\ \A b, c \in AnnouncedBlocks : ComputeHash(b) = ComputeHash(c) => b = c
    /\ \A b \in AnnouncedBlocks : b.height # 1 =>
          \E p \in AnnouncedBlocks : /\ b.prev = ComputeHash(p) /\ b.height = p.height + 1
                                     /\ b.timestamp >= p.timestamp

\* The root of a block without transactions is no hash.
NoneIsNoHash == \A x, y : None # Leaf(x) /\ None # Pair(x, y)

\* What NewBlock puts together.
Made(b) ==
    /\ b = [prev |-> b.prev, root |-> b.root, timestamp |-> b.timestamp, height |-> b.height,
            miner |-> b.miner, signature |-> b.signature, transactions |-> b.transactions]
    /\ b.root = MerkleRoot(b.transactions)
    /\ b.transactions = <<>> \/ List(b.transactions)
    /\ b.height \in Nat /\ b.height >= 1

LinkedTo(b, p) == b.prev = ComputeHash(p) /\ b.height = p.height + 1

MadeByMiner(m) ==
    LET b == current[m].block IN
    /\ Made(b) /\ b.miner = m
    /\ b.height # 1 => LinkedTo(b, current[m].previous)

MadeAndLinked(b) ==
    /\ Made(b) /\ b.signature = Sign(b.miner, ComputeHash(b))
    /\ b.height # 1 => \E p \in AnnouncedBlocks : LinkedTo(b, p) /\ b.timestamp >= p.timestamp

ChainInv ==
    /\ \A m \in Miners : Mining(m) => MadeByMiner(m)
    /\ \A b \in AnnouncedBlocks : MadeAndLinked(b)

\* The root of a list with transactions is a leaf or a pair.
LEMMA RootIsHash ==
    ASSUME NoneIsNoHash, NEW s, List(s) PROVE MerkleRoot(s) # None
<1>1. PICK L : Layers(L, s) /\ MerkleRoot(s) = L[Len(s)][1]
      BY RootIsOfLayers
<1>2. PICK p : Height(L, s, p)
      BY <1>1, HeightExists
<1>3. /\ p \in 0 .. Len(s) /\ Len(L[p]) = 1 /\ MerkleRoot(s) = L[p][1]
      /\ Len(s) \in Nat /\ DOMAIN s = 1 .. Len(s)
      BY <1>1, <1>2, ListProperties DEF Height
<1>4. CASE p = 0
  <2>1. L[0] = Leaves(s) /\ List(L[0])
        BY <1>1, <1>3, LayersProperties
  <2>2. 1 \in DOMAIN s
        BY <1>3, <1>4, <2>1, ListProperties DEF Leaves
  <2>3. MerkleRoot(s) = Leaf(s[1])
        BY <1>3, <1>4, <2>1, <2>2 DEF Leaves
  <2> QED BY <2>3 DEF NoneIsNoHash
<1>5. CASE p # 0
  <2>1. p - 1 \in 0 .. Len(s) /\ p - 1 \in 0 .. (p - 1)
        BY <1>3, <1>5
  <2>2. List(L[p - 1]) /\ L[p] = NextLayer(L[p - 1]) /\ Len(L[p - 1]) # 1
        BY <1>1, <1>2, <1>3, <1>5, <2>1, LayersProperties DEF Height
  <2>3. Len(L[p - 1]) \in Nat /\ Len(L[p - 1]) = 2
    <3>1. /\ Len(L[p - 1]) \in Nat
          /\ Len(L[p - 1]) = 2 * Len(L[p]) \/ Len(L[p - 1]) = 2 * Len(L[p]) - 1
          BY <2>2, ListProperties, NextLayerProperties
    <3> QED BY <1>3, <2>2, <3>1
  <2>4. \A i \in 1 .. 1 : 2 * i <= 2 => L[p][i] = Pair(L[p - 1][2 * i - 1], L[p - 1][2 * i])
        BY <1>3, <2>2, <2>3, NextLayerProperties
  <2>5. L[p][1] = Pair(L[p - 1][1], L[p - 1][2])
        BY <2>4
  <2> QED BY <1>3, <2>5 DEF NoneIsNoHash
<1> QED BY <1>4, <1>5

LEMMA HashIdentifies ==
    ASSUME NoneIsNoHash,
           NEW b, Made(b), b.signature = Sign(b.miner, ComputeHash(b)),
           NEW c, Made(c), c.signature = Sign(c.miner, ComputeHash(c)),
           ComputeHash(b) = ComputeHash(c)
    PROVE  b = c
<1>1. /\ b.prev = c.prev /\ b.root = c.root /\ b.timestamp = c.timestamp
      /\ b.height = c.height /\ b.miner = c.miner
      BY DEF ComputeHash
<1>2. b.transactions = c.transactions
  <2>1. CASE b.transactions = <<>> \/ c.transactions = <<>>
    <3>1. MerkleRoot(<<>>) = None
          BY DEF MerkleRoot
    <3> QED BY <1>1, <2>1, <3>1, RootIsHash DEF Made
  <2>2. CASE List(b.transactions) /\ List(c.transactions)
        BY <1>1, <2>2, MerkleRootInjective DEF Made
  <2> QED BY <2>1, <2>2 DEF Made
<1>3. b.signature = c.signature
      BY <1>1
<1> QED BY <1>1, <1>2, <1>3 DEF Made

LEMMA SequenceIsList ==
    ASSUME NEW X, NEW s \in Seq(X) PROVE s = <<>> \/ List(s)
<1>1. CASE s # <<>>
  <2>1. Len(s) \in Nat /\ Len(s) >= 1 /\ s = [i \in 1 .. Len(s) |-> s[i]]
        BY <1>1
  <2> QED BY <2>1, ListOf
<1> QED BY <1>1

LEMMA SignedIsMade ==
    ASSUME NEW m, NEW b, Made(b), b.miner = m, NEW c, c = SignBlock(b, m)
    PROVE  /\ Made(c) /\ c.signature = Sign(c.miner, ComputeHash(c))
           /\ c.height = b.height /\ \A p : LinkedTo(b, p) => LinkedTo(c, p)
<1>1. /\ c = [prev |-> b.prev, root |-> b.root, timestamp |-> b.timestamp, height |-> b.height,
              miner |-> b.miner, signature |-> Sign(m, ComputeHash(b)),
              transactions |-> b.transactions]
      BY DEF SignBlock, Made
<1>2. /\ c.prev = b.prev /\ c.root = b.root /\ c.timestamp = b.timestamp /\ c.height = b.height
      /\ c.miner = b.miner /\ c.transactions = b.transactions
      /\ c.signature = Sign(m, ComputeHash(b))
      BY <1>1
<1>3. ComputeHash(c) = ComputeHash(b)
      BY <1>2 DEF ComputeHash
<1>4. Made(c)
      BY <1>1, <1>2 DEF Made
<1> QED BY <1>2, <1>3, <1>4 DEF LinkedTo

LEMMA ChainStep == BlocksInv /\ ChainInv /\ [Next]_vars => ChainInv'
<1> SUFFICES ASSUME BlocksInv, ChainInv, [Next]_vars PROVE ChainInv'
  OBVIOUS
<1> USE DEF BlocksInv, TypeInv
<1>1. \A m \in Miners : /\ Mining(m)
                         /\ current'[m].block = current[m].block
                         /\ current'[m].previous = current[m].previous
                         => MadeByMiner(m)'
  BY DEF ChainInv, MadeByMiner
<1>2. ASSUME UNCHANGED blocks PROVE \A b \in AnnouncedBlocks' : MadeAndLinked(b)'
  <2>1. UNCHANGED AnnouncedBlocks
    BY <1>2 DEF AnnouncedBlocks
  <2> QED BY <2>1 DEF ChainInv, MadeAndLinked
<1>3. CASE UNCHANGED <<current, blocks>>
  BY <1>1, <1>2, <1>3 DEF ChainInv, Mining
<1>4. ASSUME NEW m \in Miners, StartGenesis(m) PROVE ChainInv'
  <2>1. UNCHANGED blocks /\ \A k \in Miners : k # m => current'[k] = current[k]
    BY <1>4 DEF StartGenesis, Typed
  <2>2. /\ current'[m].block = [prev |-> None, root |-> MerkleRoot(<<>>), timestamp |-> 1 + skew[m],
                                height |-> 1, miner |-> m, signature |-> None,
                                transactions |-> <<>>]
    BY <1>4 DEF StartGenesis, Typed, Idle, NewBlock
  <2>3. MadeByMiner(m)'
    BY <2>2 DEF MadeByMiner, Made
  <2> QED BY <1>1, <1>2, <2>1, <2>3 DEF ChainInv, Mining
<1>5. ASSUME NEW m \in Miners, StartBlock(m) PROVE ChainInv'
  <2>1. UNCHANGED blocks /\ \A k \in Miners : k # m => current'[k] = current[k]
    BY <1>5 DEF StartBlock, Typed
  <2>2. /\ current'[m].block = [prev |-> ComputeHash(last[m]), root |-> MerkleRoot(pool[m]),
                                timestamp |-> Clock(m), height |-> last[m].height + 1,
                                miner |-> m, signature |-> None, transactions |-> pool[m]]
        /\ current'[m].previous = last[m]
    BY <1>5 DEF StartBlock, Typed, Idle, NewBlock
  <2>3. last[m] \in AnnouncedBlocks
    BY <1>5 DEF StartBlock, BlockTypes, Nodes
  <2>4. last[m].height \in Nat /\ last[m].height >= 1
    BY <2>3 DEF ChainInv, MadeAndLinked, Made
  <2>5. pool[m] = <<>> \/ List(pool[m])
    BY SequenceIsList DEF Typed
  <2>6. MadeByMiner(m)'
    BY <2>2, <2>4, <2>5 DEF MadeByMiner, Made, LinkedTo
  <2> QED BY <1>1, <1>2, <2>1, <2>6 DEF ChainInv, Mining
<1>6. ASSUME NEW m \in Miners, Publish(m) PROVE ChainInv'
  <2>1. \A k \in Miners : /\ current'[k].block = current[k].block
                          /\ current'[k].previous = current[k].previous
                          /\ Mining(k)' => Mining(k)
    BY <1>6 DEF Publish, Typed, Mining
  <2>2. PICK c : c = Signed(m)
    OBVIOUS
  <2>3. /\ Mining(m) /\ ValidBlock(c, {current[m].previous}, Clock(m))
        /\ blocks' = blocks \cup {[block |-> c, at |-> now]}
    BY <1>6, <2>2 DEF Publish
  <2>4. AnnouncedBlocks' = AnnouncedBlocks \cup {c}
    <3>1. PICK x : x = [block |-> c, at |-> now]
      OBVIOUS
    <3>2. x.block = c /\ blocks' = blocks \cup {x}
      BY <2>3, <3>1
    <3> QED BY <3>2 DEF AnnouncedBlocks
  <2>5. /\ Made(c) /\ c.signature = Sign(c.miner, ComputeHash(c))
        /\ c.height # 1 => LinkedTo(c, current[m].previous)
    BY <2>2, <2>3, SignedIsMade DEF ChainInv, MadeByMiner, Signed
  <2>6. c.height = current[m].block.height
    BY <2>2, <2>3, SignedIsMade DEF ChainInv, MadeByMiner, Signed
  <2>7. c.height # 1 => /\ current[m].previous \in AnnouncedBlocks
                        /\ c.timestamp >= current[m].previous.timestamp
    BY <2>3, <2>6 DEF Mined, ValidBlock
  <2>8. MadeAndLinked(c)'
    BY <2>4, <2>5, <2>7 DEF MadeAndLinked
  <2>9. \A b \in AnnouncedBlocks : MadeAndLinked(b)'
    BY <2>4 DEF ChainInv, MadeAndLinked
  <2> QED BY <1>1, <2>1, <2>4, <2>8, <2>9 DEF ChainInv
<1>7. ASSUME NEW m \in Miners, GiveUp(m) PROVE ChainInv'
  <2>1. /\ UNCHANGED blocks
        /\ ~Mining(m)' /\ \A k \in Miners : k # m => current'[k] = current[k]
    BY <1>7 DEF GiveUp, Typed, Mining
  <2> QED BY <1>1, <1>2, <2>1 DEF ChainInv, Mining
<1>8. \/ UNCHANGED <<current, blocks>>
      \/ \E m \in Miners : StartGenesis(m) \/ StartBlock(m) \/ Publish(m) \/ GiveUp(m)
  BY ZenonT(60)
     DEF Next, Tick, Announce, RequestDeletion, Respond, ReceiveTransaction, Store, vars
<1> QED BY <1>3, <1>4, <1>5, <1>6, <1>7, <1>8

\* No two announced blocks of honest miners share a hash, although the header that is hashed
\* holds no transaction, and each of them follows an announced block that is no later, although
\* no validator compares heights and a miner's parent may be ahead of its own clock.
THEOREM HashesLink == ASSUME NoneIsNoHash PROVE Spec => []HashesLinkBlocks
<1>1. Init => ChainInv
  BY DEF Init, ChainInv, Mining, AnnouncedBlocks
<1>2. BlocksInv /\ ChainInv /\ [Next]_vars => ChainInv'
  BY ChainStep
<1>3. ChainInv => HashesLinkBlocks
  <2> SUFFICES ASSUME ChainInv PROVE HashesLinkBlocks
    OBVIOUS
  <2>1. \A b, c \in AnnouncedBlocks : ComputeHash(b) = ComputeHash(c) => b = c
    BY HashIdentifies DEF ChainInv, MadeAndLinked
  <2>2. \A b \in AnnouncedBlocks : b.height # 1 =>
           \E p \in AnnouncedBlocks : LinkedTo(b, p) /\ b.timestamp >= p.timestamp
    BY DEF ChainInv, MadeAndLinked
  <2> QED BY <2>1, <2>2 DEF HashesLinkBlocks, LinkedTo
<1> QED BY <1>1, <1>2, <1>3, BlocksInvariant, PTL DEF Spec

-----------------------------------------------------------------------------
(* The Merkle roots in the headers. *)

\* The transactions of an announced block were published.
TakenFromPublished == \A b \in AnnouncedBlocks : b.transactions \in Seq(Txs)

LEMMA TakenStep ==
    BlocksInv /\ ChainInv /\ TakenFromPublished /\ [Next]_vars => TakenFromPublished'
<1> SUFFICES ASSUME BlocksInv, ChainInv, TakenFromPublished, [Next]_vars
             PROVE  TakenFromPublished'
  OBVIOUS
<1> USE DEF BlocksInv, TypeInv
<1>1. Txs \subseteq Txs'
  <2>1. published \subseteq published'
    BY ZenonT(60)
       DEF Next, Tick, Announce, RequestDeletion, Respond, ReceiveTransaction, StartGenesis,
           StartBlock, Publish, GiveUp, Store, vars
  <2> QED BY <2>1 DEF Txs
<1>2. \A list : list \in Seq(Txs) => list \in Seq(Txs')
  BY <1>1
<1>3. CASE UNCHANGED blocks
  BY <1>2, <1>3 DEF TakenFromPublished, AnnouncedBlocks
<1>4. ASSUME NEW m \in Miners, Publish(m) PROVE TakenFromPublished'
  <2>1. PICK c : c = Signed(m)
    OBVIOUS
  <2>2. Mining(m) /\ blocks' = blocks \cup {[block |-> c, at |-> now]}
    BY <1>4, <2>1 DEF Publish
  <2>3. AnnouncedBlocks' = AnnouncedBlocks \cup {c}
    <3>1. PICK x : x = [block |-> c, at |-> now]
      OBVIOUS
    <3>2. x.block = c /\ blocks' = blocks \cup {x}
      BY <2>2, <3>1
    <3> QED BY <3>2 DEF AnnouncedBlocks
  <2>4. c.transactions = current[m].block.transactions
    <3>1. Made(current[m].block)
      BY <2>2 DEF ChainInv, MadeByMiner
    <3> QED BY <2>1, <3>1 DEF Signed, SignBlock, Made
  <2>5. c.transactions \in Seq(Txs')
    BY <1>2, <2>2, <2>4 DEF Typed
  <2> QED BY <1>2, <2>3, <2>5 DEF TakenFromPublished
<1>5. UNCHANGED blocks \/ \E m \in Miners : Publish(m)
  BY ZenonT(60)
     DEF Next, Tick, Announce, RequestDeletion, Respond, ReceiveTransaction, StartGenesis,
         StartBlock, GiveUp, Store, vars
<1> QED BY <1>3, <1>4, <1>5

\* Of all lists of transactions, only the block's own has the root in its header.
LEMMA OnlyItsList ==
    ASSUME NoneIsNoHash, NEW b, Made(b),
           NEW list, list = <<>> \/ List(list), MerkleRoot(list) = b.root
    PROVE  list = b.transactions
<1>1. MerkleRoot(<<>>) = None
      BY DEF MerkleRoot
<1>2. CASE b.transactions = <<>> \/ list = <<>>
      BY <1>1, <1>2, RootIsHash DEF Made
<1>3. CASE List(b.transactions) /\ List(list)
      BY <1>3, MerkleRootInjective DEF Made
<1> QED BY <1>2, <1>3 DEF Made

\* The header of every block that a miner works on, and of every announced one, identifies the
\* transactions of the block among the lists of published ones.
THEOREM RootIdentifies == ASSUME NoneIsNoHash PROVE Spec => []MerkleRootIdentifies
<1>1. Init => ChainInv /\ TakenFromPublished
  BY DEF Init, ChainInv, TakenFromPublished, Mining, AnnouncedBlocks
<1>2. BlocksInv /\ ChainInv /\ TakenFromPublished /\ [Next]_vars => ChainInv' /\ TakenFromPublished'
  BY ChainStep, TakenStep
<1>3. BlocksInv /\ ChainInv /\ TakenFromPublished => MerkleRootIdentifies
  <2> SUFFICES ASSUME BlocksInv, ChainInv, TakenFromPublished, NEW b \in InHand
               PROVE  {list \in Lists(Len(b.transactions) + 1) : MerkleRoot(list) = b.root}
                         = {b.transactions}
    BY DEF MerkleRootIdentifies
  <2>1. Made(b) /\ b.transactions \in Seq(Txs)
    BY DEF InHand, ChainInv, MadeByMiner, MadeAndLinked, TakenFromPublished, BlocksInv, TypeInv,
           Typed
  <2>2. Len(b.transactions) \in Nat
        /\ b.transactions \in [1 .. Len(b.transactions) -> Txs]
    BY <2>1
  <2>3. b.transactions \in Lists(Len(b.transactions) + 1)
    BY <2>2 DEF Lists, Txs
  <2>4. ASSUME NEW list \in Lists(Len(b.transactions) + 1) PROVE list = <<>> \/ List(list)
    <3>1. PICK k \in Nat : list \in [1 .. k -> Txs]
      BY <2>2 DEF Lists, Txs
    <3>2. list \in Seq(Txs)
      BY <3>1
    <3> QED BY <3>2, SequenceIsList
  <2>5. b.root = MerkleRoot(b.transactions)
    BY <2>1 DEF Made
  <2> QED BY <2>1, <2>3, <2>4, <2>5, OnlyItsList
<1> QED BY <1>1, <1>2, <1>3, BlocksInvariant, PTL DEF Spec
=============================================================================
