\* One edge behind one exit, which both learn h1; h2 is the exit's seed.  The
\* exit's disk and driver can fail, and either process can stop at any step.
SPECIFICATION SysSpec
CONSTANTS
    exit = exit
    edge = edge
    h1 = h1
    h2 = h2
    Blank = blank
    Nodes <- ExitAndEdge
    Controllers <- Exits
    Source <- ExitOfAll
    Nets <- TwoHosts
    Hosts <- TwoHosts
    DnsHosts <- AllLearnH1
    Seeds <- H2AtExit
    Limit <- LimitTwo
    NumDrivers = 1
    Additive = {}
    Faults <- ExitFailsAllCrash
INVARIANTS SysTypeOK NoEcho AcknowledgedIsKept AnswerIsRouted
PROPERTIES KeepsPromise
