\* An agent without seeds on which nothing fails.
SPECIFICATION Spec
CONSTANTS
    node = node
    h1 = h1
    h2 = h2
    h3 = h3
    net = net
    Blank = blank
    Nodes <- OneNode
    Controllers = {}
    Nets <- TwoHosts
    Hosts <- TwoHosts
    Seeds <- NoSeeds
    Limit <- LimitTwo
    NumDrivers = 1
    Additive = {}
    Faults <- NoFaults
INVARIANTS Restartable
