\* An agent with an exact and an additive driver; any write can fail and the
\* process can stop at any step.  Every network fits under the limit.
SPECIFICATION StatusSpec
CONSTANTS
    node = node
    h1 = h1
    h2 = h2
    h3 = h3
    net = net
    Blank = blank
    Nodes <- OneNode
    Controllers = {}
    Nets <- TwoHostsAndNet
    Hosts <- TwoHosts
    Seeds <- NetSeed
    Limit <- LimitThree
    NumDrivers = 2
    Additive = {2}
    Faults <- DiskAndCrash
SYMMETRY HostSymmetry
INVARIANTS TypeOK CrashForgetsNothing AnswersKept ReportedIsDurable AnswerAcknowledged DoctorSound
