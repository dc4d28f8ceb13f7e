---------------------------- MODULE LinkedLedger ----------------------------
(***************************************************************************)
(* What a node's copy of the chain promises to the rest of the node and to *)
(* its peers, whatever the order of announcements, synchronisations,       *)
(* crashes and write errors: the stored blocks only grow and stay linked   *)
(* to a genesis, the tip is one of them, and what is offered to peers is   *)
(* stored and is not withdrawn as long as its record can be read: it is    *)
(* lost as a whole or not at all, and once lost nothing is offered again.  *)
(***************************************************************************)
CONSTANTS Blocks, Parent, None

VARIABLES
    ledger,   \* the stored blocks
    tip,      \* the block a miner builds on, None while there is none
    offered,  \* the blocks peers can learn of
    readable  \* can the record of what is offered be read after a restart

Init == ledger = {} /\ tip = None /\ offered = {} /\ readable = TRUE

Extend ==
    /\ \E b \in Blocks : Parent[b] \in ledger \cup {None} /\ ledger' = ledger \cup {b}
    /\ UNCHANGED <<tip, offered, readable>>

MoveTip ==
    /\ tip' \in ledger \cup {None}
    /\ UNCHANGED <<ledger, offered, readable>>

Lost == offered = {} /\ ~readable

Offer ==
    /\ ~Lost
    /\ offered' \in SUBSET ledger
    /\ offered \subseteq offered'
    /\ readable' \in BOOLEAN
    /\ UNCHANGED <<ledger, tip>>

Lose ==
    /\ offered' = {}
    /\ readable' = FALSE
    /\ UNCHANGED <<ledger, tip>>

Next == Extend \/ MoveTip \/ Offer \/ Lose

Spec == Init /\ [][Next]_<<ledger, tip, offered, readable>>
=============================================================================
