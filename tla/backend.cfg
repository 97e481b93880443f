CONSTANTS
    HostViews <- HostLinks
    FreshViews <- NewLinks
    NetFaults = {"route", "link"}
    ProbeFaults = {"fork", "session", "list", "stat", "member_pidfd", "leader_pidfd", "kill"}
    Hosts <- SomeHosts
    Requests <- SomeRequests
    MaxChanges = 1
SPECIFICATION FairSpec
INVARIANTS
    RunsAsRequired
    AdvertisedIsProven
PROPERTIES
    HostNetworkIsKept
    
CHECK_DEADLOCK FALSE
