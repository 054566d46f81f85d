----------------------------- MODULE PbrSystem -----------------------------
(* Agents and controllers together: every node runs Runtime, and what that  *)
(* module leaves to the environment is here the API of the agent's          *)
(* controller (handler, fetch and report in src/internal/pbr/runtime.go).   *)
(*                                                                          *)
(* A GET is answered from memory without syncMu, so the set an agent gets   *)
(* may be old when it arrives.  A POST is checked against a set read        *)
(* without syncMu, waits for the mutex, is checked again and applied.  The  *)
(* agent gives up after 15 seconds, the handler does not: it ignores the    *)
(* request's context and goes on as an orphan beside the retry.             *)
(*                                                                          *)
(* Abstractions.  Tokens and payload encoding are right.  Requests that     *)
(* agree in sender, hosts, progress and liveness are one member of posts:   *)
(* orphans of equal reports could only repeat each other's effect.          *)
EXTENDS Runtime

CONSTANTS
    Source,      \* api.source_url: the controller of each node, itself for one
    DnsHosts     \* the hosts the DNS proxy of each node can learn

ASSUME SourceAssumption ==
    /\ Source \in [Nodes -> Controllers]
    /\ \A c \in Controllers : Source[c] = c
ASSUME DnsHostsAssumption == DnsHosts \in [Nodes -> SUBSET Hosts]

VARIABLES
    gets,        \* GET responses on their way to an agent
    posts        \* POST requests an agent has sent, until they are over

net == <<gets, posts>>
sysVars == <<vars, net>>

Post == [from : Agents, hosts : SUBSET Hosts, live : BOOLEAN,
         at : {"sent", "checked", "accepting", "accepted", "refused"}]

SysTypeOK ==
    /\ TypeOK
    /\ gets \subseteq [to : Agents, nets : SUBSET Nets]
    /\ posts \subseteq Post

SysInit == Init /\ gets = {} /\ posts = {}

\* Run starts the API server only after its first reconcile has returned.
Serving(c) == IsUp(c) /\ op[c] # "boot"

\* The post an agent is waiting for.
LivePosts(a) == {p \in posts : p.from = a /\ p.live}

Moved(p, label) == (posts \ {p}) \cup {[p EXCEPT !.at = label]}

\* Mutation: an error of acceptReport is answered with 204 as well.
EndedAccepted(p, label) == IF p.live THEN Moved(p, "accepted") ELSE posts \ {p}

\* A handler ends with status label; nobody waits for an orphan's.
Ended(p, label) == IF p.live THEN Moved(p, label) ELSE posts \ {p}

\* The agent stops waiting: an unanswered post lives on as an orphan.
Abandoned(a) ==
    (posts \ LivePosts(a)) \cup
        {[p EXCEPT !.live = FALSE] :
            p \in {q \in LivePosts(a) : q.at \notin {"accepted", "refused"}}}

-----------------------------------------------------------------------------
(* GET /v1/networks *)

\* The handler copies the controller's desired set and sends it.
ServeGet(a) ==
    /\ At(a, "fetch")
    /\ Serving(Source[a])
    /\ \A g \in gets : g.to # a
    /\ gets' = gets \cup {[to |-> a, nets |-> desired[Source[a]]]}
    /\ UNCHANGED <<vars, posts>>

ReceiveGet(a) ==
    \E g \in gets :
        /\ g.to = a
        /\ FetchOk(a, g.nets)
        /\ gets' = gets \ {g}
        /\ UNCHANGED posts

\* No connection, an error status, a time-out, or more networks than allowed.
LoseGet(a) ==
    /\ FetchFail(a)
    /\ gets' = {g \in gets : g.to # a}
    /\ UNCHANGED posts

-----------------------------------------------------------------------------
(* POST /v1/networks *)

\* Mutation: report sends every wanted network.
SendPostAll(a) ==
    /\ At(a, "report")
    /\ LivePosts(a) = {}
    /\ posts' = posts \cup
           {[from |-> a, hosts |-> desired[a], live |-> TRUE, at |-> "sent"]}
    /\ UNCHANGED <<vars, gets>>

\* report sends the learned hosts.
SendPost(a) ==
    /\ At(a, "report")
    /\ LivePosts(a) = {}
    /\ posts' = posts \cup
           {[from |-> a, hosts |-> learned[a], live |-> TRUE, at |-> "sent"]}
    /\ UNCHANGED <<vars, gets>>

\* The handler's own check, with desired read under mu alone.
CheckPost(p) ==
    LET c == Source[p.from]
        fits == /\ WithinLimit(c, p.hosts)
                /\ WithinLimit(c, desired[c] \cup p.hosts)
    IN  /\ p.at = "sent"
        /\ Serving(c)
        /\ posts' = IF fits THEN Moved(p, "checked") ELSE Ended(p, "refused")
        /\ UNCHANGED <<vars, gets>>

\* The handler gets syncMu for acceptReport.
AcceptPost(p) ==
    /\ p.at = "checked"
    /\ Accept(Source[p.from], p.hosts)
    /\ posts' = Moved(p, "accepting")
    /\ UNCHANGED gets

\* An operation ends; when it was acceptReport the handler answers 204 or 500.
SysReturn(n) ==
    /\ Return(n)
    /\ IF op[n] = "accept"
         THEN \E p \in posts :
                /\ Source[p.from] = n
                /\ p.at = "accepting"
                /\ posts' = Ended(p, IF ok[n] THEN "accepted" ELSE "refused")
         ELSE UNCHANGED posts
    /\ UNCHANGED gets

PostAccepted(a) ==
    \E p \in LivePosts(a) :
        /\ p.at = "accepted"
        /\ ReportOk(a)
        /\ posts' = posts \ {p}
        /\ UNCHANGED gets

\* A refusal, or no answer in time; the answer of a handler that has already
\* finished may be lost on the way.
PostFailed(a) ==
    /\ LivePosts(a) # {}
    /\ ReportFail(a)
    /\ posts' = Abandoned(a)
    /\ UNCHANGED gets

\* A request nobody waits for never reaches the controller.
LosePost(p) ==
    /\ p.at = "sent"
    /\ ~p.live
    /\ posts' = posts \ {p}
    /\ UNCHANGED <<vars, gets>>

-----------------------------------------------------------------------------
(* The rest of each node *)

SysLearn(n) ==
    /\ \E S \in (SUBSET DnsHosts[n]) \ {{}} : Learn(n, S)
    /\ UNCHANGED net

\* A crash of an agent abandons its requests, one of a controller breaks the
\* connections of those it is handling.
Broken(c) ==
    LET handling == {p \in posts : /\ Source[p.from] = c
                                   /\ p.at \in {"checked", "accepting"}}
    IN  (posts \ handling) \cup
            {[p EXCEPT !.at = "refused"] : p \in {q \in handling : q.live}}

SysCrash(n) ==
    /\ Crash(n)
    /\ gets' = {g \in gets : g.to # n}
    /\ posts' = IF n \in Agents THEN Abandoned(n) ELSE Broken(n)

Alone(n) ==
    /\ Boot(n) \/ Tick(n) \/ Work(n) \/ TimePasses(n) \/ Drift(n)
    /\ UNCHANGED net

AgentStep(a) ==
    \/ ServeGet(a) \/ ReceiveGet(a) \/ LoseGet(a)
    \/ SendPost(a) \/ PostAccepted(a) \/ PostFailed(a)

PostStep == \E p \in posts : CheckPost(p) \/ AcceptPost(p) \/ LosePost(p)

SysNext ==
    \/ \E n \in Nodes : Alone(n) \/ SysLearn(n) \/ SysReturn(n) \/ SysCrash(n)
    \/ \E a \in Agents : AgentStep(a)
    \/ PostStep

SysSpec == SysInit /\ [][SysNext]_sysVars

(* Fairness: that of Runtime (without the clock, on which nothing below     *)
(* rests); requests and answers get through now and then (SF: errors of the *)
(* network do not last); and a handler waiting for syncMu gets it though    *)
(* others keep taking it (SF: a Go mutex does not starve a waiter).         *)
Progress(n) == ((Boot(n) \/ Work(n)) /\ UNCHANGED net) \/ SysReturn(n)

SysFairness(n) ==
    /\ WF_sysVars(Progress(n))
    /\ SF_sysVars(Tick(n) /\ UNCHANGED net)

\* Errors of a disk or a driver that can fail do not last either.
RecoveryFairness ==
    /\ \A n \in {m \in Nodes : "disk" \in Faults[m]} :
          /\ SF_sysVars(SaveLearned(n) /\ UNCHANGED net)
          /\ SF_sysVars(SaveState(n) /\ UNCHANGED net)
    /\ \A n \in {m \in Nodes : "driver" \in Faults[m]} :
          SF_sysVars(Install(n) /\ UNCHANGED net)

ApiFairness(a) ==
    /\ SF_sysVars(ServeGet(a))
    /\ SF_sysVars(ReceiveGet(a))
    /\ WF_sysVars(ReceiveGet(a) \/ LoseGet(a))
    /\ SF_sysVars(\E p \in posts : p.from = a /\ CheckPost(p))
    /\ SF_sysVars(\E p \in posts : p.from = a /\ AcceptPost(p))
    /\ WF_sysVars(SendPost(a) \/ PostAccepted(a) \/ PostFailed(a))

SystemFairness ==
    /\ \A n \in Nodes : SysFairness(n)
    /\ RecoveryFairness
    /\ \A a \in Agents : ApiFairness(a)

SysFairSpec == SysSpec /\ SystemFairness

-----------------------------------------------------------------------------
(* Safety *)

\* Reports contain only hosts the agent's own DNS proxy has learned: what it
\* has fetched from the controller is never echoed back, not even by an
\* orphan or after a crash.
NoEcho == \A p \in posts : p.hosts \subseteq DnsHosts[p.from]

\* What an agent counts as reported the controller would read back at a start
\* and, when it runs, wants installed; so neither a crash of the controller
\* between its write and its answer nor a lost answer loses a host.  (It need
\* not be in the state file: a seed or a host of the learned file that is
\* wanted already is not written again.)
AcknowledgedIsKept ==
    \A a \in Agents :
        /\ lastReported[a] \subseteq Recovered(Source[a])
        /\ IsUp(Source[a]) => lastReported[a] \subseteq desired[Source[a]]

\* "An address is not returned to the client until the route and exit policy
\* acknowledge it": when learn lets an answer out, the drivers of the node
\* and of its exit cover it.
AnswerIsRouted ==
    \A n \in Nodes :
        (At(n, "return") /\ op[n] = "learn" /\ ok[n]) =>
            Covers(n, arg[n]) /\ Covers(Source[n], arg[n])

\* The system keeps its promise: beyond AnswerIsRouted, no later fetch,
\* crash, retry or failed apply takes away the route of an address given out.
Promised == INSTANCE Promise WITH
    routed <- [n \in Nodes |-> {x \in Nets : Covers(n, {x})}],
    given <- answered
KeepsPromise == Promised!Spec

-----------------------------------------------------------------------------
(* Liveness *)

\* A host that one node has learned is in the end routed by every node of its
\* exit: an edge's hosts reach the exit through reports, and every host
\* reaches the other edges through their fetches.
LearnedEverywhere ==
    \A c \in Controllers : \A h \in Hosts :
        LET group == {n \in Nodes : Source[n] = c}
        IN  (\E n \in group : h \in learnedFile[n]) ~>
                (\A n \in group : Covers(n, {h}))

\* Agents that wait for a controller, and a controller whose handlers wait
\* for its own mutex, never block each other for good.
SysOperationsEnd ==
    \A n \in Nodes : ~At(n, "idle") /\ IsUp(n) ~> At(n, "idle") \/ ~IsUp(n)
=============================================================================
