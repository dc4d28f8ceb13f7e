------------------------------- MODULE Blocks -------------------------------
(***************************************************************************)
(* internal/core/block and the block validators of internal/core/consensus. *)
(* Hashes are symbolic: two are equal when what was hashed is.  A nonce    *)
(* that meets the target is found in time, so neither appears.             *)
(***************************************************************************)
EXTENDS Transactions

CONSTANT MaxAhead  \* how far ahead of the clock a block may be: 10 s

ASSUME MaxAheadAssumption == MaxAhead \in Nat

Leaf(tx)   == [hash |-> "leaf", of |-> tx]
Pair(l, r) == [hash |-> "pair", left |-> l, right |-> r]

\* Neighbours are hashed together; a hash left over goes up unchanged.
NextLayer(h) ==
    [i \in 1 .. (Len(h) + 1) \div 2 |->
        IF 2 * i <= Len(h) THEN Pair(h[2 * i - 1], h[2 * i]) ELSE h[2 * i - 1]]

\* ComputeMerkleRoot: layer upon layer until one hash is left.
MerkleRoot(txs) ==
    IF txs = <<>> THEN None
    ELSE LET layer[k \in 0 .. Len(txs)] ==
                 IF k = 0 THEN [i \in DOMAIN txs |-> Leaf(txs[i])] ELSE NextLayer(layer[k - 1])
         IN  layer[Len(txs)][1]

\* The header without its signature; the transactions only count through their root.
ComputeHash(b) ==
    [hash |-> "block", prev |-> b.prev, root |-> b.root, timestamp |-> b.timestamp,
     height |-> b.height, miner |-> b.miner]

\* Mutant of NewBlock: the root is computed before the last transaction is added.
NewBlockRootTooEarly(txs, prev, height, miner, now) ==
    [prev |-> prev, root |-> MerkleRoot(SubSeq(txs, 1, Len(txs) - 1)), timestamp |-> now,
     height |-> height, miner |-> miner, signature |-> None, transactions |-> txs]

NewBlock(txs, prev, height, miner, now) ==
    [prev |-> prev, root |-> MerkleRoot(txs), timestamp |-> now, height |-> height,
     miner |-> miner, signature |-> None, transactions |-> txs]

SignBlock(b, key) == [b EXCEPT !.signature = Sign(key, ComputeHash(b))]

VerifyBlock(b) ==
    /\ b.signature # None
    /\ Verified(ComputeHash(b), b.signature, b.miner)

\* Mutant of NotAhead: the bound is taken both ways.
NotAheadNorBehind(b, now) == b.timestamp <= now + MaxAhead /\ now <= b.timestamp + MaxAhead

\* Compared with the clock of the validator.
NotAhead(b, now) == b.timestamp <= now + MaxAhead

IsGenesisBlock(b) == b.prev = None /\ b.height = 1

\* DefaultGenesisBlockValidator.Validate.
ValidGenesis(b, now) == IsGenesisBlock(b) /\ NotAhead(b, now) /\ VerifyBlock(b)

\* DefaultBlockValidator.Validate, which compares neither the root with the transactions nor
\* the height with the parent's; the parent is looked for in a store, the known blocks.
ValidBlock(b, known, now) ==
    \/ b.height = 1 /\ ValidGenesis(b, now)
    \/ /\ b.height # 1
       /\ \E parent \in known : b.prev = ComputeHash(parent) /\ b.timestamp >= parent.timestamp
       /\ NotAhead(b, now)
       /\ VerifyBlock(b)
       /\ \A i \in DOMAIN b.transactions : ValidTransaction(b.transactions[i], now)
=============================================================================
