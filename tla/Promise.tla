------------------------------ MODULE Promise ------------------------------
(* What netflix-pbrd promises to the clients of its DNS proxies, without    *)
(* saying how: an address is given out only when the node that answers and  *)
(* the exit behind it both route it, and neither ever stops doing so.       *)
EXTENDS FiniteSets

CONSTANTS
    Nodes,      \* the nodes that answer clients
    Source,     \* the exit of each node; an exit is its own
    Nets,       \* the networks policy can cover
    Hosts       \* the addresses among them

VARIABLES
    routed,     \* the networks each node's policy covers
    given       \* the addresses each node has given to its clients

Init ==
    /\ routed \in [Nodes -> SUBSET Nets]
    /\ given = [n \in Nodes |-> {}]

\* The addresses that node n must not stop routing: its own clients' and, on
\* an exit, those of every node behind it.
Owed(n) == UNION {given[m] : m \in {x \in Nodes : x = n \/ Source[x] = n}}

\* A node's policy changes, for whatever reason.
Reroute(n) ==
    \E R \in SUBSET Nets :
        /\ Owed(n) \subseteq R
        /\ routed' = [routed EXCEPT ![n] = R]
        /\ UNCHANGED given

\* A client is given the addresses S.
Give(n) ==
    \E S \in SUBSET Hosts :
        /\ S \subseteq routed[n] \cap routed[Source[n]]
        /\ given' = [given EXCEPT ![n] = @ \cup S]
        /\ UNCHANGED routed

Next == \E n \in Nodes : Reroute(n) \/ Give(n)

Spec == Init /\ [][Next]_<<routed, given>>
=============================================================================
