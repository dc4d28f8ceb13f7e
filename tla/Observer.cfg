SPECIFICATION FairSpec
CONSTANTS
    observer = observer  b = b  n = n  c1 = c1   k = k
    Bootstraps <- MCBootstraps
    Peers <- MCPeers
    Initially <- MCInitially
    MaxChanges = 1
    Pages <- MCPages
    BlockIDs <- MCBlockIDs
    JoinedTopics <- MCJoinedTopics
    ListedTopics <- MCListedTopics
    SignalTopics <- MCSignalTopics
    ChannelSize = 1
INVARIANTS
    TypeOK
    PagesOneReportBehind
PROPERTIES
    ConnectionsShown
