----------------------------- MODULE MCRuntime -----------------------------
(* Instances of Runtime for TLC: one node, as a controller or as an agent.  *)
(* The other side of each exchange is the environment's free choice here;   *)
(* PbrSystem connects real controllers and agents.                          *)
EXTENDS Runtime, TLC

CONSTANTS node, h1, h2, h3, net

OneNode == {node}
OneHost == {h1}
OneHostAndNet == {h1, net}
TwoHosts == {h1, h2}
ThreeHosts == {h1, h2, h3}
TwoHostsAndNet == {h1, h2, net}
ThreeHostsAndNet == {h1, h2, h3, net}

NoSeeds == [n \in Nodes |-> {}]
NetSeed == [n \in Nodes |-> {net}]

AtMost(k) == [n \in Nodes |-> k]
LimitTwo == AtMost(2)
LimitThree == AtMost(3)

NoFaults == [n \in Nodes |-> {}]
DiskAndCrash == [n \in Nodes |-> {"disk", "crash"}]
DriverAndCrash == [n \in Nodes |-> {"driver", "crash"}]
DriftAndCrash == [n \in Nodes |-> {"drift", "crash"}]
DriverOnly == [n \in Nodes |-> {"driver"}]

HostSymmetry == Permutations(Hosts)
=============================================================================
