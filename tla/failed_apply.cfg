\* An agent with two drivers that can fail.
SPECIFICATION Spec
CONSTANTS
    node = node
    h1 = h1
    h2 = h2
    h3 = h3
    net = net
    Blank = blank
    Nodes <- OneNode
    Controllers = {}
    Nets <- TwoHosts
    Hosts <- TwoHosts
    Seeds <- NoSeeds
    Limit <- LimitTwo
    NumDrivers = 2
    Additive = {}
    Faults <- DriverOnly
INVARIANTS AnswerAcknowledged
