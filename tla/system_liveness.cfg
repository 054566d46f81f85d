\* An edge or its exit learns h1; the other must hear of it.
SPECIFICATION SysFairSpec
CONSTANTS
    exit = exit
    edge = edge
    h1 = h1
    h2 = h2
    Blank = blank
    Nodes <- ExitAndEdge
    Controllers <- Exits
    Source <- ExitOfAll
    Nets <- OneHost
    Hosts <- OneHost
    DnsHosts <- AllLearnH1
    Seeds <- NoSeeds
    Limit <- LimitTwo
    NumDrivers = 1
    Additive = {}
    Faults <- NoFaults
PROPERTIES LearnedEverywhere SysOperationsEnd
CHECK_DEADLOCK FALSE
