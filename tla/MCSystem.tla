------------------------------ MODULE MCSystem ------------------------------
(* Instances of PbrSystem for TLC: one controller and one agent.            *)
EXTENDS PbrSystem, TLC

CONSTANTS exit, edge, h1, h2

ExitAndEdge == {exit, edge}
Exits == {exit}
ExitOfAll == [n \in Nodes |-> exit]

OneHost == {h1}
TwoHosts == {h1, h2}
AllLearnH1 == [n \in Nodes |-> {h1}]

NoSeeds == [n \in Nodes |-> {}]
H2AtExit == [n \in Nodes |-> IF n = exit THEN {h2} ELSE {}]

LimitTwo == [n \in Nodes |-> 2]

NoFaults == [n \in Nodes |-> {}]
ExitFailsAllCrash ==
    [n \in Nodes |-> IF n = exit THEN {"disk", "driver", "crash"} ELSE {"crash"}]
=============================================================================
