-------------------------- MODULE MCStorageNetwork --------------------------
(* Two instances of StorageNetwork.  In the wide one two users have a file   *)
(* each and two storage nodes room for one of them; both nodes hear of f,    *)
(* only one of g.  In the narrow one both files are of one user and on one   *)
(* node, and either may be added again after it was deleted.                 *)
EXTENDS StorageNetwork, TLC

CONSTANTS f, g, u, v, n, m

MCFiles == {f, g}
MCSize  == f :> 3 @@ g :> 2

WideOwners   == {u, v}
WideOwnerOf  == f :> u @@ g :> v
WideNodes    == {n, m}
WideHears    == n :> {f, g} @@ m :> {f}
WideCapacity == n :> 4 @@ m :> 4
OneCrash     == n :> 0 @@ m :> 1

NarrowOwners     == {u}
NarrowOwnerOf    == f :> u @@ g :> u
NarrowNodes      == {n}
NarrowHears      == n :> {f, g}
NarrowCapacity   == n :> 12
NarrowMinedAgain == {AddTransaction(f, n), AddTransaction(g, n)}
NoCrash          == n :> 0
=============================================================================
