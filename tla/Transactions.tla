---------------------------- MODULE Transactions ----------------------------
(***************************************************************************)
(* internal/core/transaction and the transaction validators of             *)
(* internal/core/consensus.  A signature names its key and what it signs,  *)
(* a file stands for its CID, encrypted name and extension, size and       *)
(* checksum.  Identifiers, keys and CIDs are well formed: the checks for   *)
(* that are left out.  Timestamps are whole seconds.                       *)
(***************************************************************************)
EXTENDS Naturals, Sequences, FiniteSets

CONSTANT None  \* no value

Sign(key, content) == [by |-> key, of |-> content]

\* TransactionVerifier.Verify: the signature is that key's, over what is left of the
\* transaction without it.
Verified(content, signature, key) == signature = Sign(key, content)

\* A user has a key and an IPFS peer; a storage node a libp2p host too.
NewClientAnnouncement(id, user, file, now) ==
    LET a == [announcementID |-> id, owner |-> user.key, client |-> user.ipfs,
              file |-> file, announcedAt |-> now]
    IN  [content |-> a, ownerSignature |-> Sign(user.key, a)]

\* The storage node verifies the announcement before it answers.
VerifyAnnouncement(a) == Verified(a.content, a.ownerSignature, a.content.owner)

\* The announcement's fields are copied, the CID is the one of the downloaded file.
NewAddFileTransaction(id, a, node, now) ==
    LET t == [type |-> "AddFileTransaction", transactionID |-> id, timestamp |-> now,
              announcementID |-> a.content.announcementID, owner |-> a.content.owner,
              client |-> a.content.client, file |-> a.content.file,
              announcedAt |-> a.content.announcedAt, ownerSignature |-> a.ownerSignature,
              nodeAddress |-> node.key, nodeID |-> node.host, storage |-> node.ipfs]
    IN  [content |-> t, signature |-> Sign(node.key, t)]

NewDeleteFileTransaction(id, user, file, now) ==
    LET t == [type |-> "DeleteFileTransaction", transactionID |-> id, timestamp |-> now,
              owner |-> user.key, file |-> file]
    IN  [content |-> t, signature |-> Sign(user.key, t)]

\* Mutant of Rebuilt: the wrong one of the two identifiers.
RebuiltFromTransactionID(t) ==
    [announcementID |-> t.transactionID, owner |-> t.owner, client |-> t.client,
     file |-> t.file, announcedAt |-> t.announcedAt]

\* The announcement that an addition answers, put together from the copied fields.
Rebuilt(t) ==
    [announcementID |-> t.announcementID, owner |-> t.owner, client |-> t.client,
     file |-> t.file, announcedAt |-> t.announcedAt]

\* AddFileTransactionValidator.Validate.
ValidAddition(tx) ==
    LET t == tx.content IN
    /\ t.announcementID # t.transactionID
    /\ t.owner # t.nodeAddress
    /\ t.client # t.storage
    /\ t.storage # t.nodeID
    /\ t.announcedAt < t.timestamp
    /\ Verified(Rebuilt(t), t.ownerSignature, t.owner)
    /\ Verified(t, tx.signature, t.nodeAddress)

\* DeleteFileTransactionValidator.Validate.
ValidDeletion(tx, now) ==
    LET t == tx.content IN
    /\ t.timestamp > 0
    /\ t.timestamp < now
    /\ Verified(t, tx.signature, t.owner)

\* GetValidator and the validator it gives; another type has none.
ValidTransaction(tx, now) ==
    CASE tx.content.type = "AddFileTransaction"    -> ValidAddition(tx)
      [] tx.content.type = "DeleteFileTransaction" -> ValidDeletion(tx, now)
      [] OTHER                                     -> FALSE
=============================================================================
