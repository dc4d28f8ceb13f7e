----------------------------- MODULE MCObserver -----------------------------
(* The observer, a bootstrap node, another node and a page. *)
EXTENDS Observer, TLC

CONSTANTS b, n, c1, k

MCBootstraps   == {b}
MCPeers        == {observer, n}
MCInitially    == observer :> {n, b} @@ n :> {observer}
MCPages        == {c1}
MCBlockIDs     == {k}
MCJoinedTopics == {"BlockAnnouncement", "SendFiles"}
MCListedTopics == {"BlockAnnouncement", "AskMyFilesList"}
MCSignalTopics == {"SendFiles", "AskMyFilesList"}
=============================================================================
