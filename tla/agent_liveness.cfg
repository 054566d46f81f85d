\* An agent whose policy is removed behind its back and that can stop at any
\* step; fetches and reports fail as often as they like.
SPECIFICATION StatusFairSpec
CONSTANTS
    node = node
    h1 = h1
    h2 = h2
    h3 = h3
    net = net
    Blank = blank
    Nodes <- OneNode
    Controllers = {}
    Nets <- OneHostAndNet
    Hosts <- OneHost
    Seeds <- NoSeeds
    Limit <- LimitTwo
    NumDrivers = 1
    Additive = {}
    Faults <- DriftAndCrash
PROPERTIES LearnedIsReported LearnedStaysInstalled OperationsEnd
CHECK_DEADLOCK FALSE
