\* A controller at its limit: the seed and two of the three hosts fit.  A
\* driver can fail and the process can stop at any step; the disk works.
SPECIFICATION StatusSpec
CONSTANTS
    node = node
    h1 = h1
    h2 = h2
    h3 = h3
    net = net
    Blank = blank
    Nodes <- OneNode
    Controllers <- OneNode
    Nets <- ThreeHostsAndNet
    Hosts <- ThreeHosts
    Seeds <- NetSeed
    Limit <- LimitThree
    NumDrivers = 2
    Additive = {2}
    Faults <- DriverAndCrash
SYMMETRY HostSymmetry
INVARIANTS StatusTypeOK AnswersKept Restartable AnswerAcknowledged DoctorSound StatusCurrent
PROPERTIES FailedApplyRetried StateFilesMonotonic
