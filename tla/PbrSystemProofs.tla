-------------------------- MODULE PbrSystemProofs --------------------------
(* Theorems about PbrSystem, for any agents and controllers.                *)
EXTENDS PbrSystem, ApplyProofs

USE DEF At, Goto, IsUp, Agents

-----------------------------------------------------------------------------
(* Requests: what they carry, and that the system is one way to run Runtime *)

\* What a node has learned came from its own DNS proxy.
LearnsOwn(n) ==
    /\ learned[n] \subseteq DnsHosts[n]
    /\ learnedFile[n] \subseteq DnsHosts[n]
    /\ op[n] = "learn" => arg[n] \subseteq DnsHosts[n]

\* Only an agent reports, and only when it has something to report.
ReportsHosts(n) ==
    At(n, "report") => n \in Agents /\ learned[n] # lastReported[n]

\* No request is empty: acceptReport is never called with nothing, a call that
\* Runtime does not have.
RequestInv ==
    /\ SysTypeOK
    /\ SavedInv
    /\ \A n \in Nodes : LearnsOwn(n) /\ ReportsHosts(n)
    /\ \A p \in posts : p.hosts # {}
    /\ NoEcho

\* A request that goes on is the same request.
LEMMA MovedPost ==
    ASSUME NEW p \in Post,
           NEW label \in {"sent", "checked", "accepting", "accepted", "refused"}
    PROVE  /\ [p EXCEPT !.at = label] \in Post
           /\ [p EXCEPT !.at = label].from = p.from
           /\ [p EXCEPT !.at = label].hosts = p.hosts
           /\ [p EXCEPT !.at = label].live = p.live
           /\ [p EXCEPT !.at = label].at = label
    BY DEF Post

\* So is one that nobody waits for any more.
LEMMA OrphanedPost ==
    ASSUME NEW p \in Post
    PROVE  /\ [p EXCEPT !.live = FALSE] \in Post
           /\ [p EXCEPT !.live = FALSE].from = p.from
           /\ [p EXCEPT !.live = FALSE].hosts = p.hosts
           /\ [p EXCEPT !.live = FALSE].live = FALSE
           /\ [p EXCEPT !.live = FALSE].at = p.at
    BY DEF Post

\* An agent has its controller, which is a node, and is none itself.
LEMMA SourceType ==
    ASSUME NEW n \in Nodes
    PROVE  /\ Source[n] \in Controllers /\ Source[n] \in Nodes
           /\ Source[n] \notin Agents
    BY SourceAssumption, NodesAssumption

\* Every step of the system is a step of Runtime, or none.
LEMMA SysStepIsStep ==
    ASSUME RequestInv, [SysNext]_sysVars
    PROVE  [Next]_vars
<1> USE DEF NodeStep, Next, RequestInv, SysTypeOK
<1>1. CASE UNCHANGED sysVars
  BY <1>1 DEF sysVars
<1>2. ASSUME NEW n \in Nodes, Alone(n) PROVE [Next]_vars
  BY <1>2 DEF Alone
<1>3. ASSUME NEW n \in Nodes, SysLearn(n) PROVE [Next]_vars
  BY <1>3, DnsHostsAssumption DEF SysLearn, Request
<1>4. ASSUME NEW n \in Nodes, SysReturn(n) \/ SysCrash(n) PROVE [Next]_vars
  BY <1>4 DEF SysReturn, SysCrash
<1>5. ASSUME NEW a \in Agents, AgentStep(a) PROVE [Next]_vars
  <2>1. CASE ServeGet(a) \/ SendPost(a)
    BY <2>1 DEF ServeGet, SendPost
  <2>2. CASE ReceiveGet(a)
    <3>1. PICK g \in gets : FetchOk(a, g.nets)
      BY <2>2 DEF ReceiveGet
    <3>2. g.nets \in SUBSET Nets
      BY <3>1
    <3> QED BY <3>1, <3>2 DEF Fetched
  <2>3. CASE LoseGet(a) \/ PostAccepted(a) \/ PostFailed(a)
    BY <2>3 DEF LoseGet, PostAccepted, PostFailed
  <2> QED BY <1>5, <2>1, <2>2, <2>3 DEF AgentStep
<1>6. CASE PostStep
  <2>1. PICK p \in posts : CheckPost(p) \/ AcceptPost(p) \/ LosePost(p)
    BY <1>6 DEF PostStep
  <2>2. CASE CheckPost(p) \/ LosePost(p)
    BY <2>2 DEF CheckPost, LosePost
  <2>3. CASE AcceptPost(p)
    <3>1. p.from \in Nodes /\ p.hosts \in (SUBSET Hosts) \ {{}}
      <4>1. p \in Post /\ p.hosts # {}
        BY <2>1
      <4> QED BY <4>1 DEF Post
    <3>2. Source[p.from] \in Nodes
      BY <3>1, SourceType
    <3>3. NodeStep(Source[p.from])
      BY <2>3, <3>1 DEF AcceptPost, Request
    <3> QED BY <3>2, <3>3
  <2> QED BY <2>1, <2>2, <2>3
<1> QED BY <1>1, <1>2, <1>3, <1>4, <1>5, <1>6 DEF SysNext

\* Where the requests of the next state come from: each is one of this state,
\* gone on or abandoned, or a report that is sent now.
LEMMA PostsFrom ==
    ASSUME RequestInv, [SysNext]_sysVars, NEW q \in posts'
    PROVE  /\ q \in Post
           /\ \/ \E p \in posts : q.from = p.from /\ q.hosts = p.hosts
              \/ At(q.from, "report") /\ q.hosts = learned[q.from]
<1> DEFINE Old == \E p \in posts : q.from = p.from /\ q.hosts = p.hosts
<1>a. posts \subseteq Post /\ TypeOK
  BY DEF RequestInv, SysTypeOK
<1>b. \A p \in posts : \A label \in {"sent", "checked", "accepting", "accepted", "refused"} :
         q \in Moved(p, label) => q \in Post /\ Old
  <2> TAKE p \in posts
  <2> TAKE label \in {"sent", "checked", "accepting", "accepted", "refused"}
  <2>1. CASE q = [p EXCEPT !.at = label]
    <3>1. p \in Post
      BY <1>a
    <3>2. q \in Post /\ q.from = p.from /\ q.hosts = p.hosts
      BY <2>1, <3>1, MovedPost, Zenon
    <3> QED BY <3>2
  <2>2. CASE q \in posts
    BY <2>2, <1>a
  <2> QED BY <2>1, <2>2 DEF Moved
<1>c. \A p \in posts : \A label \in {"accepted", "refused"} :
         q \in Ended(p, label) => q \in Post /\ Old
  BY <1>a, <1>b DEF Ended
<1>d. \A a \in Agents : q \in Abandoned(a) => q \in Post /\ Old
  <2> SUFFICES ASSUME NEW a \in Agents, q \in Abandoned(a)
               PROVE  q \in Post /\ Old
    OBVIOUS
  <2>1. CASE q \in posts
    BY <2>1, <1>a
  <2>2. CASE q \notin posts
    <3>1. PICK p \in posts : q = [p EXCEPT !.live = FALSE]
      BY <2>2 DEF Abandoned, LivePosts
    <3> QED BY <3>1, <1>a, OrphanedPost
  <2> QED BY <2>1, <2>2
<1>e. \A c \in Controllers : q \in Broken(c) => q \in Post /\ Old
  <2> SUFFICES ASSUME NEW c \in Controllers, q \in Broken(c)
               PROVE  q \in Post /\ Old
    OBVIOUS
  <2>1. CASE q \in posts
    BY <2>1, <1>a
  <2>2. CASE q \notin posts
    <3>1. PICK p \in posts : q = [p EXCEPT !.at = "refused"]
      BY <2>2 DEF Broken
    <3>2. p \in Post
      BY <1>a
    <3>3. q \in Post /\ q.from = p.from /\ q.hosts = p.hosts
      BY <3>1, <3>2, MovedPost, Zenon
    <3> QED BY <3>3
  <2> QED BY <2>1, <2>2
<1>1. CASE posts' \subseteq posts
  BY <1>1, <1>a
<1>2. ASSUME NEW a \in Agents, AgentStep(a), ~(posts' \subseteq posts)
      PROVE  q \in Post /\ (Old \/ (At(q.from, "report") /\ q.hosts = learned[q.from]))
  <2>1. CASE SendPost(a)
    <3>1. CASE q \in posts
      BY <3>1, <1>a
    <3>2. CASE q = [from |-> a, hosts |-> learned[a], live |-> TRUE, at |-> "sent"]
      BY <2>1, <3>2, <1>a DEF Post, SendPost, TypeOK
    <3> QED BY <2>1, <3>1, <3>2 DEF SendPost
  <2>2. CASE PostFailed(a)
    BY <2>2, <1>d DEF PostFailed
  <2> QED
    BY <1>2, <2>1, <2>2 DEF AgentStep, ServeGet, ReceiveGet, LoseGet, PostAccepted
<1>3. ASSUME NEW n \in Nodes, SysReturn(n), ~(posts' \subseteq posts)
      PROVE  q \in Post /\ Old
  <2>1. PICK p \in posts : posts' = Ended(p, IF ok[n] THEN "accepted" ELSE "refused")
    BY <1>3 DEF SysReturn
  <2> QED BY <2>1, <1>c
<1>4. ASSUME NEW n \in Nodes, SysCrash(n) PROVE q \in Post /\ Old
  BY <1>4, <1>d, <1>e DEF SysCrash
<1>5. ASSUME PostStep, ~(posts' \subseteq posts) PROVE q \in Post /\ Old
  <2>1. PICK p \in posts : CheckPost(p) \/ AcceptPost(p) \/ LosePost(p)
    BY <1>5 DEF PostStep
  <2> QED
    BY <1>5, <2>1, <1>b, <1>c DEF CheckPost, AcceptPost, LosePost
<1>6. CASE ~(posts' \subseteq posts)
  <2>1. ~UNCHANGED sysVars /\ \A n \in Nodes : ~Alone(n) /\ ~SysLearn(n)
    BY <1>6 DEF sysVars, net, Alone, SysLearn
  <2> QED BY <2>1, <1>2, <1>3, <1>4, <1>5, <1>6 DEF SysNext
<1> QED BY <1>1, <1>6

\* The responses on their way carry sets of networks.
LEMMA GetsType ==
    ASSUME RequestInv, [SysNext]_sysVars
    PROVE  gets' \subseteq [to : Agents, nets : SUBSET Nets]
<1>a. gets \subseteq [to : Agents, nets : SUBSET Nets] /\ TypeOK
  BY DEF RequestInv, SysTypeOK
<1>1. ASSUME NEW a \in Agents, ServeGet(a)
      PROVE  gets' \subseteq [to : Agents, nets : SUBSET Nets]
  <2>1. desired[Source[a]] \in SUBSET Nets
    BY <1>a, SourceType DEF TypeOK
  <2> QED BY <1>1, <2>1, <1>a DEF ServeGet
<1>2. CASE gets' \subseteq gets
  BY <1>2, <1>a
<1>3. CASE ~(gets' \subseteq gets)
  <2>1. /\ ~UNCHANGED sysVars /\ ~PostStep
        /\ \A n \in Nodes : ~Alone(n) /\ ~SysLearn(n) /\ ~SysReturn(n) /\ ~SysCrash(n)
    BY <1>3 DEF sysVars, net, Alone, SysLearn, SysReturn, SysCrash, PostStep,
                CheckPost, AcceptPost, LosePost
  <2>2. PICK a \in Agents : AgentStep(a)
    BY <2>1 DEF SysNext
  <2>3. ServeGet(a)
    BY <1>3, <2>2 DEF AgentStep, ReceiveGet, LoseGet, SendPost, PostAccepted,
                      PostFailed
  <2> QED BY <2>3, <1>1
<1> QED BY <1>2, <1>3

\* The networks a node learns are those of a call of learn.
LEMMA LearnsOwnStep ==
    ASSUME RequestInv, NEW n \in Nodes, NodeStep(n),
           \A S : Learn(n, S) => S \subseteq DnsHosts[n]
    PROVE  LearnsOwn(n)'
<1>a. TypeOK /\ LearnsOwn(n)
  BY DEF RequestInv, SysTypeOK
<1>b. NextLearned(n) \subseteq DnsHosts[n]
  BY <1>a DEF LearnsOwn, NextLearned
<1>1. CASE Request(n)
  <2>1. PICK S \in SUBSET Hosts : Learn(n, S) \/ Accept(n, S)
    BY <1>1 DEF Request
  <2>2. CASE Learn(n, S)
    <3>1. /\ arg'[n] = S /\ UNCHANGED <<learned, learnedFile>>
      BY <2>2, <1>a DEF Learn, TypeOK, memory, disk
    <3> QED BY <2>2, <3>1, <1>a DEF LearnsOwn
  <2>3. CASE Accept(n, S)
    <3>1. op'[n] = "accept" /\ UNCHANGED <<learned, learnedFile>>
      BY <2>3, <1>a DEF Accept, TypeOK, memory, disk
    <3> QED BY <3>1, <1>a DEF LearnsOwn
  <2> QED BY <2>1, <2>2, <2>3
<1>2. CASE SaveLearned(n) \/ SaveState(n)
  <2>1. /\ learned'[n] \in {learned[n], NextLearned(n)}
        /\ learnedFile'[n] \in {learnedFile[n], NextLearned(n)}
        /\ UNCHANGED call
    BY <1>2, <1>a DEF SaveLearned, SaveState, TypeOK, memory
  <2> QED BY <2>1, <1>a, <1>b DEF LearnsOwn, call
<1>3. CASE Boot(n) \/ Crash(n) \/ Tick(n) \/ Return(n)
  <2>1. /\ op'[n] # "learn"
        /\ learned'[n] \in {{}, learned[n], learnedFile[n]}
        /\ learnedFile' = learnedFile
    BY <1>3, <1>a DEF Boot, Crash, Tick, Return, Begin, TypeOK, memory, disk
  <2> QED BY <2>1, <1>a DEF LearnsOwn
<1>4. CASE Fetched(n)
  <2>1. op[n] # "learn" /\ UNCHANGED <<op, learned, learnedFile>>
    BY <1>4, <1>a DEF Fetched, FetchOk, TypeOK, memory, disk
  <2> QED BY <2>1, <1>a DEF LearnsOwn
<1>5. CASE \/ FetchFail(n) \/ SaveFails(n) \/ Reconcile(n) \/ Install(n)
           \/ InstallFails(n) \/ Applied(n) \/ ReportOk(n) \/ ReportFail(n)
           \/ TimePasses(n) \/ Drift(n)
  <2>1. UNCHANGED <<learned, learnedFile, call>>
    BY <1>5 DEF FetchFail, SaveFails, Reconcile, Install, InstallFails, Applied,
                ReportOk, ReportFail, TimePasses, Drift, memory, disk
  <2> QED BY <2>1, <1>a DEF LearnsOwn, call
<1> QED BY <1>1, <1>2, <1>3, <1>4, <1>5 DEF NodeStep, Work

\* A node comes to its report only when there is something to report.
LEMMA ReportsHostsStep ==
    ASSUME RequestInv, NEW n \in Nodes, NodeStep(n)
    PROVE  ReportsHosts(n)'
<1>a. TypeOK /\ ReportsHosts(n)
  BY DEF RequestInv, SysTypeOK
<1>1. CASE Reconcile(n) \/ Applied(n)
  <2>1. /\ pc'[n] \in {"apply", AfterApply(n)}
        /\ UNCHANGED <<learned, lastReported>>
    BY <1>1, <1>a DEF Reconcile, Applied, TypeOK, memory
  <2> QED BY <2>1 DEF ReportsHosts, AfterApply
<1>2. CASE TimePasses(n) \/ Drift(n)
  <2>1. UNCHANGED <<learned, lastReported, pc>>
    BY <1>2 DEF TimePasses, Drift, memory
  <2> QED BY <2>1, <1>a DEF ReportsHosts
<1>3. CASE \/ Boot(n) \/ Tick(n) \/ FetchFail(n) \/ SaveLearned(n)
           \/ SaveState(n) \/ SaveFails(n) \/ Install(n) \/ InstallFails(n)
           \/ ReportOk(n) \/ ReportFail(n) \/ Return(n) \/ Crash(n)
  <2>1. pc'[n] # "report"
    BY <1>3, <1>a DEF Boot, Tick, FetchFail, SaveLearned, SaveState, SaveFails,
                      Install, InstallFails, ReportOk, ReportFail, Return,
                      Crash, Fail, TypeOK
  <2> QED BY <2>1 DEF ReportsHosts
<1>4. CASE Request(n)
  <2>1. pc'[n] # "report"
    BY <1>4, <1>a DEF Request, Learn, Accept, TypeOK
  <2> QED BY <2>1 DEF ReportsHosts
<1>5. CASE Fetched(n)
  <2>1. pc'[n] # "report"
    BY <1>5, <1>a DEF Fetched, FetchOk, Fail, TypeOK
  <2> QED BY <2>1 DEF ReportsHosts
<1> QED BY <1>1, <1>2, <1>3, <1>4, <1>5 DEF NodeStep, Work

\* A node learns nothing but answers of its own DNS proxy.
LEMMA LearnsFromDns ==
    ASSUME RequestInv, [SysNext]_sysVars, NEW n \in Nodes, NEW S, Learn(n, S)
    PROVE  S \subseteq DnsHosts[n]
<1>a. TypeOK
  BY DEF RequestInv, SysTypeOK
<1>b. /\ pc[n] = "idle" /\ op'[n] = "learn" /\ arg'[n] = S
      /\ pc'[n] \in {"return", "saveLearned", "saveState"}
  BY <1>a DEF Learn, TypeOK
<1>c. \A m \in Nodes : NodeStep(m) => m = n
  BY <1>a, <1>b, OtherNodes
<1>1. ASSUME NEW m \in Nodes, SysLearn(m) PROVE S \subseteq DnsHosts[n]
  <2>1. PICK T \in (SUBSET DnsHosts[m]) \ {{}} : Learn(m, T)
    BY <1>1 DEF SysLearn
  <2>2. m = n
    BY <2>1, <1>c, DnsHostsAssumption DEF NodeStep, Request
  <2> QED BY <2>1, <2>2, <1>a, <1>b DEF Learn, TypeOK
<1>2. ASSUME NEW m \in Nodes, Alone(m) PROVE FALSE
  <2>1. m = n
    BY <1>2, <1>c DEF Alone, NodeStep
  <2> QED
    BY <1>2, <2>1, <1>a, <1>b
       DEF Alone, Boot, Tick, Work, SaveLearned, SaveState, SaveFails, Reconcile,
           Install, InstallFails, PartlyInstalled, Applied, TimePasses, Drift,
           TypeOK
<1>3. ASSUME NEW m \in Nodes, SysReturn(m) \/ SysCrash(m) PROVE FALSE
  <2>1. m = n
    BY <1>3, <1>c DEF SysReturn, SysCrash, NodeStep
  <2> QED
    BY <1>3, <2>1, <1>a, <1>b DEF SysReturn, SysCrash, Return, Crash, TypeOK
<1>4. ASSUME NEW a \in Agents, AgentStep(a) PROVE FALSE
  BY <1>4, <1>a, <1>b
     DEF AgentStep, ServeGet, ReceiveGet, FetchOk, Fail, LoseGet, FetchFail,
         SendPost, PostAccepted, ReportOk, PostFailed, ReportFail, vars, TypeOK
<1>5. CASE PostStep
  <2>1. PICK p \in posts : CheckPost(p) \/ AcceptPost(p) \/ LosePost(p)
    BY <1>5 DEF PostStep
  <2> QED
    BY <2>1, <1>a, <1>b
       DEF CheckPost, AcceptPost, Accept, LosePost, vars, TypeOK
<1>6. CASE UNCHANGED sysVars
  BY <1>6, <1>b DEF sysVars, vars
<1> QED BY <1>1, <1>2, <1>3, <1>4, <1>5, <1>6 DEF SysNext

\* The requests' part of the state is type-correct, nothing is echoed and no
\* request is empty, in every reachable state.
THEOREM RequestCorrect == SysSpec => []RequestInv
<1>1. SysInit => RequestInv
  <2> SUFFICES ASSUME SysInit PROVE RequestInv
    OBVIOUS
  <2>1. TypeOK
    BY SavedInit DEF SysInit, SavedInv
  <2>2. \A n \in Nodes : LearnsOwn(n) /\ ReportsHosts(n)
    BY DEF SysInit, Init, LearnsOwn, ReportsHosts
  <2> QED BY <2>1, <2>2, SavedInit DEF SysInit, RequestInv, SysTypeOK, NoEcho
<1>2. RequestInv /\ [SysNext]_sysVars => RequestInv'
  <2> SUFFICES ASSUME RequestInv, [SysNext]_sysVars PROVE RequestInv'
    OBVIOUS
  <2>a. TypeOK
    BY DEF RequestInv, SysTypeOK
  <2>1. [Next]_vars
    BY SysStepIsStep
  <2>2. SysTypeOK'
    <3>1. TypeOK'
      BY <2>1, <2>a, TypeStep
    <3>2. posts' \subseteq Post
      BY PostsFrom
    <3> QED BY <3>1, <3>2, GetsType DEF SysTypeOK, Post
  <2>3. ASSUME NEW n \in Nodes PROVE LearnsOwn(n)' /\ ReportsHosts(n)'
    <3>1. CASE UNCHANGED vars
      BY <3>1 DEF vars, memory, disk, call, RequestInv, LearnsOwn, ReportsHosts
    <3>2. CASE NodeStep(n)
      BY <3>2, LearnsFromDns, LearnsOwnStep, ReportsHostsStep
    <3>3. ASSUME NEW m \in Nodes, NodeStep(m), m # n
          PROVE  LearnsOwn(n)' /\ ReportsHosts(n)'
      BY <3>3, <2>a, OtherNodes DEF RequestInv, LearnsOwn, ReportsHosts
    <3> QED BY <2>1, <3>1, <3>2, <3>3 DEF Next
  <2>4. ASSUME NEW q \in posts'
        PROVE  q.hosts # {} /\ q.hosts \subseteq DnsHosts[q.from]
    <3>1. CASE \E p \in posts : q.from = p.from /\ q.hosts = p.hosts
      BY <3>1 DEF RequestInv, NoEcho
    <3>2. CASE At(q.from, "report") /\ q.hosts = learned[q.from]
      <4>1. q.from \in Nodes
        BY PostsFrom DEF Post
      <4>2. /\ learned[q.from] \subseteq DnsHosts[q.from]
            /\ learned[q.from] # lastReported[q.from]
            /\ lastReported[q.from] \subseteq learned[q.from]
        BY <3>2, <4>1 DEF RequestInv, LearnsOwn, ReportsHosts, SavedInv, Saved,
                          HistoryIsSaved
      <4> QED BY <3>2, <4>1, <4>2
    <3> QED BY <3>1, <3>2, PostsFrom
  <2>5. SavedInv'
    BY <2>1, SavedNext DEF RequestInv
  <2> QED BY <2>2, <2>3, <2>4, <2>5 DEF RequestInv, NoEcho
<1> QED BY <1>1, <1>2, PTL DEF SysSpec

\* Agents and controllers that talk to each other are nodes as Runtime has
\* them: what is proved of those holds of these.
THEOREM SystemRunsRuntime == SysSpec => Spec
<1>1. SysInit => Init
  BY DEF SysInit
<1>2. RequestInv /\ [SysNext]_sysVars => [Next]_vars
  BY SysStepIsStep
<1> QED BY <1>1, <1>2, RequestCorrect, PTL DEF SysSpec, Spec

\* Every reachable state of the system is type-correct.
THEOREM SysTypeCorrect == SysSpec => []SysTypeOK
<1>1. RequestInv => SysTypeOK
  BY DEF RequestInv
<1> QED BY <1>1, RequestCorrect, PTL

\* No report, waited for or orphaned, holds what its sender was only told.
THEOREM NoEchoHolds == SysSpec => []NoEcho
<1>1. RequestInv => NoEcho
  BY DEF RequestInv
<1> QED BY <1>1, RequestCorrect, PTL

-----------------------------------------------------------------------------
(* What a node keeps, whoever runs beside it                                *)

\* The node has S for good: it wants it, or will after its next start, and,
\* unless others remove its policy, its drivers cover it.
Held(c, S) ==
    /\ IF IsUp(c) THEN S \subseteq desired[c] ELSE S \subseteq Recovered(c)
    /\ "drift" \notin Faults[c] => Covers(c, S)

\* A policy that covers something wanted covers it after every step: a driver
\* that succeeds installs what is wanted, one that fails leaves at least what
\* it found of that.
LEMMA CoveredStays ==
    ASSUME TypeOK, NEW n \in Nodes, NodeStep(n), "drift" \notin Faults[n],
           NEW S, IsUp(n) => S \subseteq desired[n], Covers(n, S)
    PROVE  Covers(n, S)'
<1> USE DEF Covers
<1>1. CASE Install(n)
  <2>1. /\ pc[n] = "apply" /\ drv[n] \in Drivers
        /\ desired[n] \subseteq kernel'[n][drv[n]]
        /\ \A d \in Drivers : d # drv[n] => kernel'[n][d] = kernel[n][d]
    BY <1>1 DEF Install, TypeOK
  <2> QED BY <2>1
<1>2. ASSUME PartlyInstalled(n) PROVE Covers(n, S)'
  <2>1. /\ pc[n] = "apply" /\ drv[n] \in Drivers
        /\ kernel[n][drv[n]] \cap desired[n] \subseteq kernel'[n][drv[n]]
        /\ \A d \in Drivers : d # drv[n] => kernel'[n][d] = kernel[n][d]
    <3>1. PICK E \in SUBSET Nets :
            /\ kernel[n][drv[n]] \cap desired[n] \subseteq E
            /\ kernel' = [kernel EXCEPT ![n][drv[n]] = E]
      BY <1>2 DEF PartlyInstalled
    <3>2. pc[n] = "apply" /\ drv[n] \in Drivers
      BY <1>2 DEF PartlyInstalled
    <3> QED BY <3>1, <3>2 DEF TypeOK
  <2> QED BY <2>1
<1>3. CASE UNCHANGED kernel
  BY <1>3
<1>4. CASE InstallFails(n) \/ Crash(n)
  BY <1>4, <1>2, <1>3 DEF InstallFails, Crash
<1>5. CASE Drift(n)
  BY <1>5 DEF Drift
<1> QED
  BY <1>1, <1>3, <1>4, <1>5
     DEF NodeStep, Boot, Tick, Request, Learn, Accept, Fetched, FetchOk,
         FetchFail, Work, SaveLearned, SaveState, SaveFails, Reconcile, Applied,
         ReportOk, ReportFail, Return, TimePasses

\* Three actions change what a node wants or whether it is up, and nothing
\* writes the files of a node that is down.
LEMMA WantedUnchanged ==
    ASSUME TypeOK, NEW n \in Nodes, NodeStep(n),
           ~Boot(n), ~Crash(n), ~SaveState(n)
    PROVE  /\ desired' = desired
           /\ IsUp(n)' <=> IsUp(n)
           /\ ~IsUp(n) => UNCHANGED disk
<1>1. CASE Request(n) \/ Fetched(n)
  <2>1. /\ UNCHANGED memory
        /\ pc[n] \in {"idle", "fetch"}
        /\ pc'[n] \in {"return", "saveLearned", "saveState"}
    <3>1. ASSUME NEW S, Learn(n, S) \/ Accept(n, S)
          PROVE  /\ UNCHANGED memory /\ pc[n] = "idle"
                 /\ pc'[n] \in {"return", "saveLearned", "saveState"}
      BY <3>1 DEF Learn, Accept, TypeOK
    <3>2. ASSUME NEW S, FetchOk(n, S)
          PROVE  /\ UNCHANGED memory /\ pc[n] = "fetch"
                 /\ pc'[n] \in {"return", "saveLearned", "saveState"}
      BY <3>2 DEF FetchOk, Fail, TypeOK
    <3> QED BY <1>1, <3>1, <3>2 DEF Request, Fetched
  <2> QED BY <2>1 DEF memory
<1>2. CASE \/ Tick(n) \/ FetchFail(n) \/ SaveLearned(n) \/ SaveFails(n)
           \/ Reconcile(n) \/ Return(n) \/ ReportOk(n) \/ ReportFail(n)
  BY <1>2 DEF Tick, FetchFail, SaveLearned, SaveFails, Reconcile, AfterApply,
              Return, ReportOk, ReportFail, Fail, memory, TypeOK
<1>3. CASE Install(n) \/ InstallFails(n) \/ Applied(n)
  BY <1>3 DEF Install, InstallFails, PartlyInstalled, Applied, AfterApply, Fail,
              memory, TypeOK
<1>4. CASE TimePasses(n) \/ Drift(n)
  BY <1>4 DEF TimePasses, Drift, memory
<1> QED BY <1>1, <1>2, <1>3, <1>4 DEF NodeStep, Work

\* A controller holds for ever what it holds once: its wanted set only grows,
\* a crash forgets nothing of it, and a start reads it all back.
LEMMA HeldStays ==
    ASSUME SavedInv, BehindInv, [Next]_vars, NEW c \in Controllers, NEW S,
           Held(c, S)
    PROVE  Held(c, S)'
<1>a. c \in Nodes /\ TypeOK /\ FilesBehindMemory(c) /\ WantedIsSaved(c)
  BY NodesAssumption DEF BehindInv, SavedInv, Saved
<1>1. CASE UNCHANGED vars
  BY <1>1 DEF vars, memory, disk, Held, Covers, Recovered
<1>2. ASSUME NEW m \in Nodes, NodeStep(m), m # c PROVE Held(c, S)'
  BY <1>2, <1>a, OtherNodes DEF Held, Covers, Recovered
<1>3. ASSUME NodeStep(c) PROVE Held(c, S)'
  <2>1. ("drift" \notin Faults[c] => Covers(c, S))'
    BY <1>3, <1>a, CoveredStays DEF Held
  <2>2. IF pc'[c] # "down" THEN S \subseteq desired'[c] ELSE S \subseteq Recovered(c)'
    <3>1. CASE Boot(c)
      <4>1. /\ pc[c] = "down" /\ pc'[c] = "decide"
            /\ desired'[c] = Recovered(c)
        BY <3>1, <1>a DEF Boot, TypeOK
      <4> QED BY <4>1 DEF Held
    <3>2. CASE Crash(c)
      <4>1. pc[c] # "down" /\ pc'[c] = "down" /\ UNCHANGED disk
        BY <3>2, <1>a DEF Crash, TypeOK
      <4>2. desired[c] \subseteq Recovered(c)
        BY <4>1, <1>a, NetsAssumption DEF WantedIsSaved, Recovered,
                                          FilesBehindMemory
      <4> QED BY <4>1, <4>2 DEF Held, disk, Recovered
    <3>3. CASE SaveState(c)
      <4>1. /\ pc[c] = "saveState" /\ pc'[c] = "decide"
            /\ desired'[c] = NextDesired(c)
        BY <3>3, <1>a DEF SaveState, TypeOK
      <4> QED BY <4>1, <1>a, ControllerGrows DEF Held
    <3>4. CASE ~Boot(c) /\ ~Crash(c) /\ ~SaveState(c)
      <4>1. /\ desired' = desired /\ (pc'[c] # "down" <=> pc[c] # "down")
            /\ pc[c] = "down" => UNCHANGED disk
        BY <1>3, <1>a, <3>4, WantedUnchanged
      <4> QED BY <4>1 DEF Held, disk, Recovered
    <3> QED BY <3>1, <3>2, <3>3, <3>4
  <2> QED BY <2>1, <2>2 DEF Held
<1> QED BY <1>1, <1>2, <1>3 DEF Next

\* A part of what is held is held.
LEMMA HeldPart ==
    ASSUME NEW c, NEW S, Held(c, S), NEW T \in SUBSET S
    PROVE  Held(c, T)
    BY DEF Held, Covers

-----------------------------------------------------------------------------
(* The report protocol: an agent counts as reported what its controller     *)
(* holds                                                                    *)

\* The agent that waits for a request is at its report, which it repeats.
Waits(p) == p.live => At(p.from, "report") /\ p.hosts = learned[p.from]

\* A handler that holds the mutex of its controller carries out that request.
Handled(p) ==
    p.at = "accepting" =>
        /\ op[Source[p.from]] = "accept"
        /\ arg[Source[p.from]] = p.hosts
        /\ pc[Source[p.from]] \notin {"down", "idle"}

\* A 204 on its way is true, and stays true.
Acknowledged(p) == p.at = "accepted" => Held(Source[p.from], p.hosts)

RequestKept(p) == Waits(p) /\ Handled(p) /\ Acknowledged(p)

\* An agent waits for one request, a mutex is held for one.
Rivals(p, q) ==
    \/ p.live /\ q.live /\ p.from = q.from
    \/ p.at = "accepting" /\ q.at = "accepting" /\ Source[p.from] = Source[q.from]
OneAtATime == \A p, q \in posts : Rivals(p, q) => p = q

\* acceptReport adds the reported hosts to what is wanted before it succeeds.
AcceptIsWanted(n) ==
    (op[n] = "accept" /\ ok[n] /\ pc[n] \in {"decide", "apply", "report", "return"}) =>
        arg[n] \subseteq desired[n]

\* What an agent believes its controller to know, and what it has told its
\* clients, the controller holds.
ControllerHolds(a) ==
    /\ Held(Source[a], lastReported[a])
    /\ Held(Source[a], answered[a])

ExchangeInv ==
    /\ \A p \in posts : RequestKept(p)
    /\ OneAtATime
    /\ \A n \in Nodes : AcceptIsWanted(n)
    /\ \A a \in Agents : ControllerHolds(a)

\* What the invariant rests on.
SystemInv ==
    RequestInv /\ BehindInv /\ InstalledInv /\ ReportedInv /\ ExchangeInv

\* The hosts of a report are wanted from the write of acceptReport on.
LEMMA AcceptIsWantedStep ==
    ASSUME TypeOK, NEW n \in Nodes, AcceptIsWanted(n), NodeStep(n)
    PROVE  AcceptIsWanted(n)'
<1>1. CASE \/ Boot(n) \/ Tick(n) \/ Return(n) \/ Crash(n)
  <2>1. op'[n] # "accept"
    BY <1>1 DEF Boot, Tick, Return, Crash, Begin, TypeOK
  <2> QED BY <2>1 DEF AcceptIsWanted
<1>2. CASE Request(n)
  <2>1. ASSUME NEW S, Learn(n, S) \/ Accept(n, S) PROVE AcceptIsWanted(n)'
    <3>1. /\ pc'[n] \in {"return", "saveLearned", "saveState"}
          /\ pc'[n] = "return" => ~ok'[n]
      BY <2>1 DEF Learn, Accept, TypeOK
    <3> QED BY <3>1 DEF AcceptIsWanted
  <2> QED BY <1>2, <2>1 DEF Request
<1>3. CASE Fetched(n)
  <2>1. op'[n] # "accept"
    BY <1>3 DEF Fetched, FetchOk, TypeOK
  <2> QED BY <2>1 DEF AcceptIsWanted
<1>4. CASE SaveState(n)
  <2>1. desired'[n] = NextDesired(n) /\ UNCHANGED call
    BY <1>4 DEF SaveState, TypeOK
  <2> QED BY <2>1 DEF AcceptIsWanted, NextDesired, call
<1>5. CASE FetchFail(n)
  <2>1. op'[n] # "accept"
    BY <1>5 DEF FetchFail, call, TypeOK
  <2> QED BY <2>1 DEF AcceptIsWanted
<1>6. CASE SaveLearned(n) \/ SaveFails(n)
  <2>1. pc'[n] = "saveState" \/ ~ok'[n]
    BY <1>6 DEF SaveLearned, SaveFails, Fail, TypeOK
  <2> QED BY <2>1 DEF AcceptIsWanted
<1>7. CASE \/ Reconcile(n) \/ Install(n) \/ InstallFails(n) \/ Applied(n)
           \/ ReportOk(n) \/ ReportFail(n)
  <2>1. /\ UNCHANGED <<desired, call>>
        /\ ok'[n] => ok[n]
        /\ pc[n] \in {"decide", "apply", "report"}
    BY <1>7 DEF Reconcile, Install, InstallFails, PartlyInstalled, Applied,
                ReportOk, ReportFail, Fail, memory, TypeOK
  <2> QED BY <2>1 DEF AcceptIsWanted, call
<1>8. CASE TimePasses(n) \/ Drift(n)
  <2>1. UNCHANGED <<desired, call, ok, pc>>
    BY <1>8 DEF TimePasses, Drift, memory
  <2> QED BY <2>1 DEF AcceptIsWanted, call
<1> QED
  BY <1>1, <1>2, <1>3, <1>4, <1>5, <1>6, <1>7, <1>8 DEF NodeStep, Work

\* An agent at its report stays there, with the same hosts, until the report
\* ends or the process dies.
LEMMA ReportStays ==
    ASSUME TypeOK, NEW n \in Nodes, NodeStep(n), At(n, "report"),
           pc'[n] \notin {"return", "down"}
    PROVE  pc'[n] = "report" /\ learned'[n] = learned[n]
<1>1. CASE TimePasses(n) \/ Drift(n)
  BY <1>1 DEF TimePasses, Drift, memory
<1> QED
  BY <1>1 DEF NodeStep, Boot, Tick, Request, Learn, Accept, Fetched, FetchOk,
              FetchFail, Work, SaveLearned, SaveState, SaveFails, Reconcile,
              Install, InstallFails, PartlyInstalled, Applied, ReportOk,
              ReportFail, Return, Crash, Fail, TypeOK

\* acceptReport goes on with the same hosts until it returns or the process
\* dies.
LEMMA AcceptStays ==
    ASSUME TypeOK, NEW n \in Nodes, NodeStep(n), op[n] = "accept",
           pc[n] \notin {"down", "idle"}, pc'[n] \notin {"down", "idle"}
    PROVE  op'[n] = op[n] /\ arg'[n] = arg[n]
<1>1. CASE \/ Boot(n) \/ Tick(n) \/ Request(n) \/ Fetched(n) \/ FetchFail(n)
           \/ Return(n) \/ Crash(n)
  BY <1>1 DEF Boot, Tick, Request, Learn, Accept, Fetched, FetchOk, FetchFail,
              Return, Crash, TypeOK
<1>2. CASE \/ Work(n) \/ ReportOk(n) \/ ReportFail(n)
           \/ TimePasses(n) \/ Drift(n)
  <2>1. UNCHANGED call
    BY <1>2 DEF Work, SaveLearned, SaveState, SaveFails, Reconcile, Install,
                InstallFails, Applied, ReportOk, ReportFail, TimePasses, Drift
  <2> QED BY <2>1 DEF call
<1> QED BY <1>1, <1>2 DEF NodeStep

\* lastReported changes only when a report ends and when the process dies.
LEMMA LastReportedStays ==
    ASSUME TypeOK, NEW n \in Nodes, NodeStep(n), ~ReportOk(n)
    PROVE  lastReported'[n] \in {lastReported[n], {}}
<1>1. CASE Crash(n)
  BY <1>1 DEF Crash, TypeOK
<1>2. CASE ~Crash(n)
  <2>1. UNCHANGED lastReported
    BY <1>2
       DEF NodeStep, Boot, Tick, Request, Learn, Accept, Fetched, FetchOk,
           FetchFail, Work, SaveLearned, SaveState, SaveFails, Reconcile,
           Install, InstallFails, Applied, ReportFail, Return, TimePasses,
           Drift, memory
  <2> QED BY <2>1
<1> QED BY <1>1, <1>2

\* Clients are given only the hosts of a learn that has succeeded, which the
\* node has reported.
LEMMA AnsweredStays ==
    ASSUME SystemInv, NEW n \in Nodes, NodeStep(n)
    PROVE  /\ answered'[n] \subseteq answered[n] \cup Answer(n)
           /\ answered'[n] # answered[n] => At(n, "return")
           /\ (n \in Agents /\ answered'[n] # answered[n]) =>
                Answer(n) \subseteq lastReported[n]
<1>a. TypeOK /\ SavedInv /\ ReportedInv
  BY DEF SystemInv, RequestInv, SysTypeOK
<1>1. CASE Return(n)
  <2>1. /\ pc[n] = "return"
        /\ answered'[n] = answered[n] \cup Answer(n)
    BY <1>1, <1>a DEF Return, TypeOK
  <2>2. n \in Agents => Answer(n) \subseteq lastReported[n]
    BY <2>1, <1>a DEF Answer, ReportedInv, ReportedByLearn, SavedInv, Saved,
                      LearnIsSaved
  <2> QED BY <2>1, <2>2
<1>2. CASE ~Return(n)
  <2>1. UNCHANGED answered
    BY <1>2
       DEF NodeStep, Boot, Tick, Request, Learn, Accept, Fetched, FetchOk,
           FetchFail, Work, SaveLearned, SaveState, SaveFails, Reconcile,
           Install, InstallFails, Applied, ReportOk, ReportFail, TimePasses,
           Drift, Crash
  <2> QED BY <2>1
<1> QED BY <1>1, <1>2

\* A request is kept by every step that ends neither the report its sender
\* waits in nor the acceptReport that carries it out.
LEMMA RequestStays ==
    ASSUME SystemInv, [Next]_vars, NEW p \in posts
    PROVE  /\ (p.live => pc'[p.from] \notin {"return", "down"}) => Waits(p)'
           /\ (p.at = "accepting" => pc'[Source[p.from]] \notin {"down", "idle"})
                => Handled(p)'
           /\ Acknowledged(p)'
<1> DEFINE a == p.from
           c == Source[p.from]
<1>a. /\ TypeOK /\ SavedInv /\ BehindInv /\ p \in Post /\ RequestKept(p)
  BY DEF SystemInv, RequestInv, SysTypeOK, ExchangeInv
<1>b. a \in Nodes /\ c \in Nodes /\ c \in Controllers
  BY <1>a, SourceType DEF Post
<1>1. ASSUME p.live => pc'[a] \notin {"return", "down"} PROVE Waits(p)'
  <2>1. CASE UNCHANGED vars
    BY <2>1, <1>a DEF vars, memory, RequestKept, Waits
  <2>2. ASSUME NEW m \in Nodes, NodeStep(m), m # a PROVE Waits(p)'
    BY <2>2, <1>a, <1>b, OtherNodes DEF RequestKept, Waits
  <2>3. ASSUME NodeStep(a) PROVE Waits(p)'
    BY <2>3, <1>1, <1>a, <1>b, ReportStays DEF RequestKept, Waits
  <2> QED BY <2>1, <2>2, <2>3, <1>b DEF Next
<1>2. ASSUME p.at = "accepting" => pc'[c] \notin {"down", "idle"}
      PROVE  Handled(p)'
  <2>1. CASE UNCHANGED vars
    BY <2>1, <1>a DEF vars, call, RequestKept, Handled
  <2>2. ASSUME NEW m \in Nodes, NodeStep(m), m # c PROVE Handled(p)'
    BY <2>2, <1>a, <1>b, OtherNodes DEF RequestKept, Handled
  <2>3. ASSUME NodeStep(c) PROVE Handled(p)'
    BY <2>3, <1>2, <1>a, <1>b, AcceptStays DEF RequestKept, Handled
  <2> QED BY <2>1, <2>2, <2>3, <1>b DEF Next
<1>3. Acknowledged(p)'
  BY <1>a, <1>b, HeldStays DEF RequestKept, Acknowledged
<1> QED BY <1>1, <1>2, <1>3

\* What the controller holds of an agent's hosts survives every step, also
\* the one in which the agent takes note of a 204.
LEMMA ControllerHoldsStep ==
    ASSUME SystemInv, [Next]_vars, NEW a \in Agents,
           ReportOk(a) => Held(Source[a], learned[a])
    PROVE  ControllerHolds(a)'
<1> DEFINE c == Source[a]
<1>a. /\ TypeOK /\ SavedInv /\ BehindInv /\ ControllerHolds(a)
      /\ a \in Nodes /\ c \in Controllers
  BY SourceType DEF SystemInv, RequestInv, SysTypeOK, ExchangeInv
<1>1. PICK S, T, U : S = lastReported[a] /\ T = answered[a] /\ U = learned[a]
  OBVIOUS
<1>2. Held(c, S)' /\ Held(c, T)'
  BY <1>1, <1>a, HeldStays DEF ControllerHolds
<1>3. ReportOk(a) => Held(c, U)'
  BY <1>1, <1>a, HeldStays
<1>4. \/ lastReported'[a] \in {S, {}}
      \/ ReportOk(a) /\ lastReported'[a] = U
  <2>1. CASE UNCHANGED vars
    BY <2>1, <1>1 DEF vars, memory
  <2>2. ASSUME NEW m \in Nodes, NodeStep(m), m # a PROVE lastReported'[a] = S
    BY <2>2, <1>1, <1>a, OtherNodes
  <2>3. ASSUME NodeStep(a), ~ReportOk(a) PROVE lastReported'[a] \in {S, {}}
    BY <2>3, <1>1, <1>a, LastReportedStays
  <2>4. CASE ReportOk(a)
    BY <2>4, <1>1, <1>a DEF ReportOk, TypeOK
  <2> QED BY <2>1, <2>2, <2>3, <2>4, <1>a DEF Next
<1>5. answered'[a] \subseteq T \cup S
  <2>1. CASE UNCHANGED vars
    BY <2>1, <1>1 DEF vars
  <2>2. ASSUME NEW m \in Nodes, NodeStep(m), m # a PROVE answered'[a] = T
    BY <2>2, <1>1, <1>a, OtherNodes
  <2>3. ASSUME NodeStep(a) PROVE answered'[a] \subseteq T \cup S
    BY <2>3, <1>1, <1>a, AnsweredStays
  <2> QED BY <2>1, <2>2, <2>3, <1>a DEF Next
<1>7. Held(c, S \cup T)'
  BY <1>2 DEF Held, Covers
<1>8. Held(c, lastReported[a])' /\ Held(c, answered[a])'
  BY <1>2, <1>3, <1>4, <1>5, <1>7 DEF Held, Covers
<1> QED BY <1>8 DEF ControllerHolds

\* No step but AcceptPost lets a second handler have the mutex, and none but
\* SendPost lets an agent wait for a request: the others pass on, with less,
\* requests that were there.
LEMMA MovedAlone ==
    ASSUME posts \subseteq Post, OneAtATime, NEW p \in posts,
           NEW label \in {"checked", "accepting", "accepted", "refused"},
           label = "accepting" =>
               \A r \in posts : r.at = "accepting" => Source[r.from] # Source[p.from],
           posts' = Moved(p, label)
    PROVE  OneAtATime'
<1>1. PICK p1 : p1 = [p EXCEPT !.at = label]
  OBVIOUS
<1>2. /\ p \in Post
      /\ label \in {"sent", "checked", "accepting", "accepted", "refused"}
  OBVIOUS
<1>3. /\ p1.from = p.from /\ p1.live = p.live /\ p1.at = label
  BY <1>1, <1>2, MovedPost, Zenon
<1>4. \A q \in posts' : q = p1 \/ (q \in posts /\ q # p)
  BY <1>1 DEF Moved
<1>5. \A q \in posts : q # p => ~Rivals(p1, q) /\ ~Rivals(q, p1)
  BY <1>3 DEF OneAtATime, Rivals
<1> QED BY <1>4, <1>5 DEF OneAtATime, Rivals

\* An orphan competes with nobody for its sender.
LEMMA AbandonedAlone ==
    ASSUME posts \subseteq Post, OneAtATime, NEW a, posts' = Abandoned(a)
    PROVE  OneAtATime'
<1>1. ASSUME NEW q \in posts'
      PROVE  \E p \in posts :
                /\ q.from = p.from /\ q.at = p.at
                /\ q.live => p.live
                /\ q = IF p \in LivePosts(a) THEN [p EXCEPT !.live = FALSE] ELSE p
  <2>1. CASE q \in posts \ LivePosts(a)
    BY <2>1
  <2>2. CASE q \notin posts \ LivePosts(a)
    <3>1. PICK p \in LivePosts(a) : q = [p EXCEPT !.live = FALSE]
      BY <2>2 DEF Abandoned
    <3>2. p \in posts /\ p \in Post
      BY <3>1 DEF LivePosts
    <3>3. q.from = p.from /\ q.at = p.at /\ q.live = FALSE
      BY <3>1, <3>2, OrphanedPost, Zenon
    <3> QED BY <3>1, <3>2, <3>3
  <2> QED BY <2>1, <2>2
<1>2. ASSUME NEW q \in posts', NEW r \in posts', Rivals(q, r) PROVE q = r
  <2>1. PICK p \in posts :
          /\ q.from = p.from /\ q.at = p.at
          /\ q.live => p.live
          /\ q = IF p \in LivePosts(a) THEN [p EXCEPT !.live = FALSE] ELSE p
    BY <1>1
  <2>2. PICK s \in posts :
          /\ r.from = s.from /\ r.at = s.at
          /\ r.live => s.live
          /\ r = IF s \in LivePosts(a) THEN [s EXCEPT !.live = FALSE] ELSE s
    BY <1>1
  <2>3. p = s
    BY <1>2, <2>1, <2>2 DEF OneAtATime, Rivals
  <2> QED BY <2>1, <2>2, <2>3, Zenon
<1> QED BY <1>2 DEF OneAtATime

\* A broken connection frees the mutex.
LEMMA BrokenAlone ==
    ASSUME posts \subseteq Post, OneAtATime, NEW c, posts' = Broken(c)
    PROVE  OneAtATime'
<1> DEFINE InHand(p) == Source[p.from] = c /\ p.at \in {"checked", "accepting"}
<1>1. ASSUME NEW q \in posts'
      PROVE  \E p \in posts :
                /\ q.from = p.from /\ q.live = p.live
                /\ q.at = "accepting" => p.at = "accepting"
                /\ q = IF InHand(p) THEN [p EXCEPT !.at = "refused"] ELSE p
  <2>1. CASE q \in posts /\ ~InHand(q)
    BY <2>1
  <2>2. CASE ~(q \in posts /\ ~InHand(q))
    <3>1. PICK p \in posts : InHand(p) /\ q = [p EXCEPT !.at = "refused"]
      BY <2>2 DEF Broken
    <3>2. p \in Post
      OBVIOUS
    <3>3. q.from = p.from /\ q.live = p.live /\ q.at = "refused"
      BY <3>1, <3>2, MovedPost, Zenon
    <3> QED BY <3>1, <3>3
  <2> QED BY <2>1, <2>2
<1>2. ASSUME NEW q \in posts', NEW r \in posts', Rivals(q, r) PROVE q = r
  <2>1. PICK p \in posts :
          /\ q.from = p.from /\ q.live = p.live
          /\ q.at = "accepting" => p.at = "accepting"
          /\ q = IF InHand(p) THEN [p EXCEPT !.at = "refused"] ELSE p
    BY <1>1
  <2>2. PICK s \in posts :
          /\ r.from = s.from /\ r.live = s.live
          /\ r.at = "accepting" => s.at = "accepting"
          /\ r = IF InHand(s) THEN [s EXCEPT !.at = "refused"] ELSE s
    BY <1>1
  <2>3. p = s
    BY <1>2, <2>1, <2>2 DEF OneAtATime, Rivals
  <2> QED BY <2>1, <2>2, <2>3, Zenon
<1> QED BY <1>2 DEF OneAtATime

-----------------------------------------------------------------------------
(* The steps of the report protocol                                         *)

\* A step that ends no report and no operation keeps all requests there are.
LEMMA QuietStep ==
    ASSUME SystemInv, [Next]_vars,
           \A m \in Nodes :
              /\ pc[m] = "report" => pc'[m] = "report"
              /\ pc[m] \notin {"down", "idle"} => pc'[m] \notin {"down", "idle"}
    PROVE  \A p \in posts : RequestKept(p)'
<1> SUFFICES ASSUME NEW p \in posts PROVE RequestKept(p)'
  OBVIOUS
<1>1. p.from \in Nodes /\ Source[p.from] \in Nodes /\ RequestKept(p)
  <2>1. p \in Post /\ RequestKept(p)
    BY DEF SystemInv, RequestInv, SysTypeOK, ExchangeInv
  <2> QED BY <2>1, SourceType DEF Post
<1>2. p.live => pc'[p.from] = "report"
  BY <1>1 DEF RequestKept, Waits
<1>3. p.at = "accepting" => pc'[Source[p.from]] \notin {"down", "idle"}
  BY <1>1 DEF RequestKept, Handled
<1> QED BY <1>2, <1>3, RequestStays DEF RequestKept

\* The steps a node takes by itself, the start of a learn and the end of a
\* fetch are of that kind.
LEMMA QuietActions ==
    ASSUME TypeOK, NEW n \in Nodes,
           \/ Alone(n) \/ SysLearn(n) \/ ReceiveGet(n) \/ LoseGet(n)
    PROVE  \A m \in Nodes :
              /\ pc[m] = "report" => pc'[m] = "report"
              /\ pc[m] \notin {"down", "idle"} => pc'[m] \notin {"down", "idle"}
<1>1. CASE Boot(n) \/ Tick(n) \/ LoseGet(n)
  BY <1>1 DEF Boot, Tick, LoseGet, FetchFail, TypeOK
<1>2. CASE SaveLearned(n) \/ SaveState(n) \/ SaveFails(n) \/ Reconcile(n)
  BY <1>2 DEF SaveLearned, SaveState, SaveFails, Reconcile, AfterApply, Fail,
              TypeOK
<1>3. CASE Install(n) \/ InstallFails(n) \/ Applied(n)
  BY <1>3 DEF Install, InstallFails, PartlyInstalled, Applied, AfterApply, Fail,
              TypeOK
<1>4. CASE TimePasses(n) \/ Drift(n)
  BY <1>4 DEF TimePasses, Drift
<1>5. CASE SysLearn(n)
  <2>1. PICK S : Learn(n, S)
    BY <1>5 DEF SysLearn
  <2>2. pc[n] = "idle" /\ \A m \in Nodes : m # n => pc'[m] = pc[m]
    BY <2>1 DEF Learn, TypeOK
  <2> QED BY <2>2
<1>6. CASE ReceiveGet(n)
  <2>1. PICK S : FetchOk(n, S)
    BY <1>6 DEF ReceiveGet
  <2>2. /\ pc[n] = "fetch" /\ pc'[n] \in {"return", "saveState"}
        /\ \A m \in Nodes : m # n => pc'[m] = pc[m]
    BY <2>1 DEF FetchOk, Fail, TypeOK
  <2> QED BY <2>2
<1> QED BY <1>1, <1>2, <1>3, <1>4, <1>5, <1>6 DEF Alone, Work

\* The two parts of the invariant that speak of the requests.
RequestsInv == (\A p \in posts : RequestKept(p)) /\ OneAtATime

\* Reports are sent one at a time.
LEMMA SendStep ==
    ASSUME SystemInv, NEW a \in Agents, SendPost(a)
    PROVE  RequestsInv'
<1>a. UNCHANGED vars /\ TypeOK /\ At(a, "report") /\ OneAtATime
  BY DEF SendPost, SystemInv, RequestInv, SysTypeOK, ExchangeInv
<1>b. UNCHANGED <<pc, op, arg, learned, desired, kernel, disk>>
  BY <1>a DEF vars, memory, call
<1>1. \A p \in posts : RequestKept(p)'
  BY <1>a, <1>b, QuietStep
<1>2. PICK new : new = [from |-> a, hosts |-> learned[a], live |-> TRUE, at |-> "sent"]
  OBVIOUS
<1>3. /\ new.from = a /\ new.hosts = learned[a] /\ new.live = TRUE
      /\ new.at = "sent"
  BY <1>2
<1>4. posts' = posts \cup {new} /\ LivePosts(a) = {}
  BY <1>2 DEF SendPost
<1>5. RequestKept(new)'
  BY <1>a, <1>b, <1>3 DEF RequestKept, Waits, Handled, Acknowledged
<1>6. \A p \in posts : ~Rivals(p, new) /\ ~Rivals(new, p)
  BY <1>3, <1>4 DEF Rivals, LivePosts
<1>7. OneAtATime'
  BY <1>4, <1>6, <1>a DEF OneAtATime, Rivals
<1> QED BY <1>1, <1>4, <1>5, <1>7 DEF RequestsInv

\* The handler's check passes a request on or refuses it.
LEMMA CheckStep ==
    ASSUME SystemInv, NEW p \in posts, CheckPost(p)
    PROVE  RequestsInv'
<1>a. /\ UNCHANGED vars /\ TypeOK /\ posts \subseteq Post /\ OneAtATime
      /\ p.at = "sent"
  BY DEF CheckPost, SystemInv, RequestInv, SysTypeOK, ExchangeInv
<1>1. \A r \in posts : RequestKept(r)'
  <2>1. UNCHANGED pc
    BY <1>a DEF vars
  <2> QED BY <1>a, <2>1, QuietStep
<1>2. \/ \E label \in {"checked", "refused"} : posts' = Moved(p, label)
      \/ posts' = posts \ {p}
  BY DEF CheckPost, Ended
<1>3. ASSUME NEW label \in {"checked", "refused"}, posts' = Moved(p, label)
      PROVE  RequestsInv'
  <2>1. PICK p1 : p1 = [p EXCEPT !.at = label]
    OBVIOUS
  <2>2. p \in Post /\ label \in {"sent", "checked", "accepting", "accepted", "refused"}
    BY <1>a
  <2>3. /\ p1.from = p.from /\ p1.hosts = p.hosts /\ p1.live = p.live
        /\ p1.at = label
    BY <2>1, <2>2, MovedPost, Zenon
  <2>4. RequestKept(p1)'
    BY <1>1, <2>3 DEF RequestKept, Waits, Handled, Acknowledged
  <2>5. \A q \in posts' : q = p1 \/ q \in posts
    BY <1>3, <2>1 DEF Moved
  <2>6. OneAtATime'
    BY <1>3, <1>a, MovedAlone
  <2> QED BY <1>1, <2>4, <2>5, <2>6 DEF RequestsInv
<1>4. CASE posts' = posts \ {p}
  BY <1>4, <1>1, <1>a DEF RequestsInv, OneAtATime, Rivals
<1> QED BY <1>2, <1>3, <1>4

\* A handler gets the mutex of a controller that is idle.
LEMMA AcceptStep ==
    ASSUME SystemInv, [Next]_vars, NEW p \in posts, AcceptPost(p)
    PROVE  RequestsInv'
<1> DEFINE c == Source[p.from]
<1>a. /\ TypeOK /\ posts \subseteq Post /\ OneAtATime /\ p \in Post
      /\ \A r \in posts : RequestKept(r)
      /\ Accept(c, p.hosts) /\ posts' = Moved(p, "accepting")
  BY DEF AcceptPost, SystemInv, RequestInv, SysTypeOK, ExchangeInv
<1>b. p.from \in Nodes /\ c \in Nodes
  BY <1>a, SourceType DEF Post
<1>c. /\ pc[c] = "idle" /\ pc'[c] \in {"return", "saveState"}
      /\ op'[c] = "accept" /\ arg'[c] = p.hosts
      /\ \A m \in Nodes : m # c => pc'[m] = pc[m]
  BY <1>a, <1>b DEF Accept, TypeOK
<1>1. \A r \in posts : RequestKept(r)'
  BY <1>c, QuietStep
<1>2. \A r \in posts : r.at = "accepting" => Source[r.from] # c
  BY <1>a, <1>c DEF RequestKept, Handled
<1>3. OneAtATime'
  BY <1>a, <1>2, MovedAlone
<1>4. PICK p1 : p1 = [p EXCEPT !.at = "accepting"]
  OBVIOUS
<1>5. /\ p1.from = p.from /\ p1.hosts = p.hosts /\ p1.live = p.live
      /\ p1.at = "accepting"
  BY <1>4, <1>a, MovedPost, Zenon
<1>6. RequestKept(p1)'
  BY <1>1, <1>5, <1>c DEF RequestKept, Waits, Handled, Acknowledged
<1>7. \A q \in posts' : q = p1 \/ q \in posts
  BY <1>a, <1>4 DEF Moved
<1> QED BY <1>1, <1>3, <1>6, <1>7 DEF RequestsInv

\* acceptReport ends: its request is answered with what it has done, and the
\* mutex was held for no other.
LEMMA ReturnStep ==
    ASSUME SystemInv, [Next]_vars, NEW n \in Nodes, SysReturn(n)
    PROVE  RequestsInv'
<1>a. /\ TypeOK /\ SavedInv /\ BehindInv /\ InstalledInv
      /\ posts \subseteq Post /\ OneAtATime
      /\ \A r \in posts : RequestKept(r)
      /\ AcceptIsWanted(n)
  BY DEF SystemInv, RequestInv, SysTypeOK, ExchangeInv
<1>b. pc[n] = "return" /\ \A m \in Nodes : m # n => pc'[m] = pc[m]
  BY <1>a DEF SysReturn, Return, TypeOK
<1>1. ASSUME NEW r \in posts PROVE Waits(r)' /\ Acknowledged(r)'
  <2>1. r.from \in Nodes /\ RequestKept(r)
    BY <1>a DEF Post
  <2>2. r.live => pc'[r.from] = "report"
    BY <2>1, <1>b DEF RequestKept, Waits
  <2> QED BY <2>2, RequestStays
<1>2. ASSUME NEW r \in posts, ~(r.at = "accepting" /\ Source[r.from] = n)
      PROVE  RequestKept(r)'
  <2>1. Source[r.from] \in Nodes /\ RequestKept(r)
    BY <1>a, SourceType DEF Post
  <2>2. r.at = "accepting" => pc'[Source[r.from]] \notin {"down", "idle"}
    BY <2>1, <1>2, <1>b DEF RequestKept, Handled
  <2> QED BY <2>2, <1>1, RequestStays DEF RequestKept
<1>3. CASE op[n] # "accept"
  <2>1. posts' = posts
    BY <1>3 DEF SysReturn
  <2>2. \A r \in posts : RequestKept(r)'
    BY <1>2, <1>3, <1>a DEF RequestKept, Handled
  <2> QED BY <2>1, <2>2, <1>a DEF RequestsInv, OneAtATime, Rivals
<1>4. CASE op[n] = "accept"
  <2>1. PICK p \in posts :
          /\ Source[p.from] = n /\ p.at = "accepting"
          /\ posts' = Ended(p, IF ok[n] THEN "accepted" ELSE "refused")
    BY <1>4 DEF SysReturn
  <2>2. p \in Post /\ p.from \in Nodes /\ n \in Controllers
    BY <1>a, <2>1, SourceType DEF Post
  <2>3. ASSUME NEW r \in posts, r # p PROVE RequestKept(r)'
    BY <2>1, <2>3, <1>2, <1>a DEF OneAtATime, Rivals
  <2>4. CASE posts' = posts \ {p}
    BY <2>3, <2>4, <1>a DEF RequestsInv, OneAtATime, Rivals
  <2>5. ASSUME NEW label \in {"accepted", "refused"}, posts' = Moved(p, label),
               label = "accepted" => ok[n]
        PROVE  RequestsInv'
    <3>1. label \in {"sent", "checked", "accepting", "accepted", "refused"}
      OBVIOUS
    <3>2. PICK p1 : p1 = [p EXCEPT !.at = label]
      OBVIOUS
    <3>3. /\ p1.from = p.from /\ p1.hosts = p.hosts /\ p1.live = p.live
          /\ p1.at = label
      BY <3>1, <3>2, <2>2, MovedPost, Zenon
    <3>4. arg[n] = p.hosts
      BY <2>1, <1>a DEF RequestKept, Handled
    <3>5. ok[n] => Held(n, p.hosts)
      <4>1. ok[n] => p.hosts \subseteq desired[n]
        BY <1>4, <1>a, <1>b, <3>4 DEF AcceptIsWanted
      <4>2. (ok[n] /\ "drift" \notin Faults[n]) => Covers(n, desired[n])
        BY <1>a, <1>b, <2>2 DEF InstalledInv, Installed, Dependable, PastApply
      <4> QED BY <4>1, <4>2, <1>b DEF Held, Covers
    <3>6. PICK H : H = p.hosts
      OBVIOUS
    <3>7. ok[n] => Held(n, H)'
      BY <3>5, <3>6, <2>2, <1>a, HeldStays
    <3>8. RequestKept(p1)'
      BY <1>1, <2>1, <2>5, <3>3, <3>6, <3>7
         DEF RequestKept, Waits, Handled, Acknowledged
    <3>9. \A q \in posts' : q = p1 \/ (q \in posts /\ q # p)
      BY <2>5, <3>2 DEF Moved
    <3>10. OneAtATime'
      BY <2>5, <1>a, MovedAlone
    <3> QED BY <2>3, <3>8, <3>9, <3>10 DEF RequestsInv
  <2> QED BY <2>1, <2>4, <2>5 DEF Ended
<1> QED BY <1>3, <1>4

\* The agent has its answer: nothing else waits for one of that agent.
LEMMA AnsweredStep ==
    ASSUME SystemInv, [Next]_vars, NEW a \in Agents, PostAccepted(a)
    PROVE  RequestsInv' /\ Held(Source[a], learned[a])
<1>a. /\ TypeOK /\ posts \subseteq Post /\ OneAtATime
      /\ \A r \in posts : RequestKept(r)
  BY DEF SystemInv, RequestInv, SysTypeOK, ExchangeInv
<1>1. PICK p \in posts : /\ p.from = a /\ p.live /\ p.at = "accepted"
                         /\ ReportOk(a) /\ posts' = posts \ {p}
  BY DEF PostAccepted, LivePosts
<1>2. \A m \in Nodes : m # a => pc'[m] = pc[m]
  BY <1>1, <1>a DEF ReportOk, TypeOK
<1>3. pc[a] = "report" /\ pc'[a] = "return"
  BY <1>1, <1>a DEF ReportOk, TypeOK
<1>4. ASSUME NEW r \in posts, r # p PROVE RequestKept(r)'
  <2>1. r.from \in Nodes /\ Source[r.from] \in Nodes /\ Source[r.from] # a
    BY <1>a, SourceType DEF Post
  <2>2. r.live => r.from # a
    BY <1>1, <1>4, <1>a DEF OneAtATime, Rivals
  <2>3. r.live => pc'[r.from] = "report"
    BY <2>1, <2>2, <1>2, <1>a DEF RequestKept, Waits
  <2>4. r.at = "accepting" => pc'[Source[r.from]] \notin {"down", "idle"}
    BY <2>1, <1>2, <1>a DEF RequestKept, Handled
  <2> QED BY <2>3, <2>4, RequestStays DEF RequestKept
<1>5. Held(Source[a], learned[a])
  BY <1>1, <1>a DEF RequestKept, Acknowledged, Waits
<1> QED BY <1>1, <1>4, <1>5, <1>a DEF RequestsInv, OneAtATime, Rivals

\* An agent that gives up, or dies, leaves orphans.
LEMMA AbandonStep ==
    ASSUME SystemInv, [Next]_vars, NEW a \in Agents, posts' = Abandoned(a),
           \A m \in Nodes : m # a => pc'[m] = pc[m]
    PROVE  RequestsInv'
<1>a. /\ TypeOK /\ posts \subseteq Post /\ OneAtATime
      /\ \A r \in posts : RequestKept(r)
  BY DEF SystemInv, RequestInv, SysTypeOK, ExchangeInv
<1>1. ASSUME NEW r \in posts
      PROVE  /\ Handled(r)' /\ Acknowledged(r)'
             /\ r \notin LivePosts(a) => Waits(r)'
  <2>1. r.from \in Nodes /\ Source[r.from] \in Nodes /\ Source[r.from] # a
    BY <1>a, SourceType DEF Post
  <2>2. r.at = "accepting" => pc'[Source[r.from]] \notin {"down", "idle"}
    BY <2>1, <1>a DEF RequestKept, Handled
  <2>3. (r.live /\ r \notin LivePosts(a)) => pc'[r.from] = "report"
    BY <2>1, <1>a DEF RequestKept, Waits, LivePosts
  <2> QED BY <2>2, <2>3, RequestStays
<1>2. ASSUME NEW q \in posts' PROVE RequestKept(q)'
  <2>1. CASE q \in posts \ LivePosts(a)
    BY <2>1, <1>1 DEF RequestKept
  <2>2. CASE q \notin posts \ LivePosts(a)
    <3>1. PICK p \in LivePosts(a) : /\ p.at \notin {"accepted", "refused"}
                                    /\ q = [p EXCEPT !.live = FALSE]
      BY <2>2 DEF Abandoned
    <3>2. p \in posts /\ p \in Post
      BY <3>1, <1>a DEF LivePosts
    <3>3. /\ q.from = p.from /\ q.hosts = p.hosts /\ q.live = FALSE
          /\ q.at = p.at
      BY <3>1, <3>2, OrphanedPost, Zenon
    <3> QED
      BY <3>1, <3>2, <3>3, <1>1 DEF RequestKept, Waits, Handled, Acknowledged
  <2> QED BY <2>1, <2>2
<1> QED BY <1>2, <1>a, AbandonedAlone DEF RequestsInv

\* A controller that dies answers nothing more.
LEMMA BreakStep ==
    ASSUME SystemInv, [Next]_vars, NEW c \in Controllers, posts' = Broken(c),
           \A m \in Nodes : m # c => pc'[m] = pc[m]
    PROVE  RequestsInv'
<1>a. /\ TypeOK /\ posts \subseteq Post /\ OneAtATime
      /\ \A r \in posts : RequestKept(r)
  BY DEF SystemInv, RequestInv, SysTypeOK, ExchangeInv
<1> DEFINE InHand(p) == Source[p.from] = c /\ p.at \in {"checked", "accepting"}
<1>1. ASSUME NEW r \in posts
      PROVE  /\ Waits(r)' /\ Acknowledged(r)'
             /\ ~InHand(r) => Handled(r)'
  <2>1. r.from \in Nodes /\ Source[r.from] \in Nodes /\ r.from # c
    BY <1>a, SourceType DEF Post
  <2>2. (r.at = "accepting" /\ ~InHand(r)) => pc'[Source[r.from]] \notin {"down", "idle"}
    BY <2>1, <1>a DEF RequestKept, Handled
  <2>3. r.live => pc'[r.from] = "report"
    BY <2>1, <1>a DEF RequestKept, Waits
  <2> QED BY <2>2, <2>3, RequestStays
<1>2. ASSUME NEW q \in posts' PROVE RequestKept(q)'
  <2>1. CASE q \in posts /\ ~InHand(q)
    BY <2>1, <1>1 DEF RequestKept
  <2>2. CASE ~(q \in posts /\ ~InHand(q))
    <3>1. PICK p \in posts : q = [p EXCEPT !.at = "refused"]
      BY <2>2 DEF Broken
    <3>2. /\ p \in Post
          /\ "refused" \in {"sent", "checked", "accepting", "accepted", "refused"}
      BY <1>a
    <3>3. /\ q.from = p.from /\ q.hosts = p.hosts /\ q.live = p.live
          /\ q.at = "refused"
      BY <3>1, <3>2, MovedPost, Zenon
    <3> QED
      BY <3>3, <1>1 DEF RequestKept, Waits, Handled, Acknowledged
  <2> QED BY <2>1, <2>2
<1> QED BY <1>2, <1>a, BrokenAlone DEF RequestsInv

\* An agent takes only a 204 for a report that was accepted.
LEMMA ReportIsAccepted ==
    ASSUME SystemInv, [SysNext]_sysVars, NEW a \in Agents, ReportOk(a)
    PROVE  PostAccepted(a)
<1>a. /\ TypeOK /\ a \in Nodes /\ ReportsHosts(a)
  BY DEF SystemInv, RequestInv, SysTypeOK
<1>b. /\ pc[a] = "report" /\ pc'[a] = "return"
      /\ lastReported'[a] = learned[a] /\ learned[a] # lastReported[a]
  BY <1>a DEF ReportOk, TypeOK, ReportsHosts
<1>1. CASE UNCHANGED vars
  BY <1>1, <1>b DEF vars
<1>2. \A m \in Nodes : NodeStep(m) => m = a
  BY <1>a, <1>b, OtherNodes
<1>3. ASSUME NEW m \in Nodes, Alone(m) \/ SysLearn(m) PROVE FALSE
  BY <1>3, <1>a, <1>b, QuietActions
<1>4. ASSUME NEW m \in Nodes, SysReturn(m) \/ SysCrash(m) PROVE FALSE
  <2>1. m = a
    BY <1>4, <1>2 DEF SysReturn, SysCrash, NodeStep
  <2> QED
    BY <1>4, <2>1, <1>a, <1>b DEF SysReturn, SysCrash, Return, Crash, TypeOK
<1>5. ASSUME NEW b \in Agents, AgentStep(b), ~PostAccepted(b) PROVE FALSE
  <2>1. CASE ReceiveGet(b) \/ LoseGet(b)
    BY <2>1, <1>a, <1>b, QuietActions
  <2>2. CASE PostFailed(b)
    <3>1. b = a
      BY <2>2, <1>2 DEF PostFailed, NodeStep
    <3> QED BY <2>2, <3>1, <1>b DEF PostFailed, ReportFail, memory
  <2>3. CASE ServeGet(b) \/ SendPost(b)
    BY <2>3, <1>b DEF ServeGet, SendPost, vars
  <2> QED BY <1>5, <2>1, <2>2, <2>3 DEF AgentStep
<1>6. ASSUME NEW b \in Agents, PostAccepted(b) PROVE b = a
  BY <1>6, <1>2 DEF PostAccepted, NodeStep
<1>7. ASSUME PostStep PROVE FALSE
  <2>1. PICK p \in posts : CheckPost(p) \/ AcceptPost(p) \/ LosePost(p)
    BY <1>7 DEF PostStep
  <2>2. AcceptPost(p)
    BY <2>1, <1>b DEF CheckPost, LosePost, vars
  <2> QED BY <2>2, <1>a, <1>b DEF AcceptPost, Accept, TypeOK
<1> QED
  BY <1>1, <1>3, <1>4, <1>5, <1>6, <1>7 DEF SysNext, sysVars

\* Every step of the system keeps the protocol's invariant.
LEMMA ExchangeStep ==
    ASSUME SystemInv, [SysNext]_sysVars
    PROVE  ExchangeInv'
<1>a. /\ TypeOK /\ OneAtATime /\ (\A p \in posts : RequestKept(p))
      /\ \A n \in Nodes : AcceptIsWanted(n)
  BY DEF SystemInv, RequestInv, SysTypeOK, ExchangeInv
<1>b. [Next]_vars
  BY SysStepIsStep DEF SystemInv
<1>1. \A n \in Nodes : AcceptIsWanted(n)'
  <2> TAKE n \in Nodes
  <2>1. CASE UNCHANGED vars
    BY <2>1, <1>a DEF vars, memory, call, AcceptIsWanted
  <2>2. CASE NodeStep(n)
    BY <2>2, <1>a, AcceptIsWantedStep
  <2>3. ASSUME NEW m \in Nodes, NodeStep(m), m # n PROVE AcceptIsWanted(n)'
    BY <2>3, <1>a, OtherNodes DEF AcceptIsWanted
  <2> QED BY <1>b, <2>1, <2>2, <2>3 DEF Next
<1>2. \A a \in Agents : ControllerHolds(a)'
  BY <1>b, ReportIsAccepted, AnsweredStep, ControllerHoldsStep
<1>3. RequestsInv'
  <2>q. ASSUME posts' \subseteq posts,
               \A m \in Nodes :
                  /\ pc[m] = "report" => pc'[m] = "report"
                  /\ pc[m] \notin {"down", "idle"} => pc'[m] \notin {"down", "idle"}
        PROVE  RequestsInv'
    <3>1. \A p \in posts : RequestKept(p)'
      BY <2>q, <1>b, QuietStep
    <3> QED BY <2>q, <3>1, <1>a DEF RequestsInv, OneAtATime, Rivals
  <2>1. CASE UNCHANGED vars /\ posts' \subseteq posts
    <3>1. UNCHANGED pc
      BY <2>1 DEF vars
    <3> QED BY <2>1, <2>q, <3>1
  <2>2. ASSUME NEW n \in Nodes, Alone(n) \/ SysLearn(n) PROVE RequestsInv'
    <3>1. posts' \subseteq posts
      BY <2>2 DEF Alone, SysLearn, net
    <3> QED BY <2>2, <3>1, <1>a, <2>q, QuietActions
  <2>3. ASSUME NEW n \in Nodes, SysReturn(n) PROVE RequestsInv'
    BY <2>3, <1>b, ReturnStep
  <2>4. ASSUME NEW n \in Nodes, SysCrash(n) PROVE RequestsInv'
    <3>1. \A m \in Nodes : m # n => pc'[m] = pc[m]
      BY <2>4, <1>a DEF SysCrash, Crash, TypeOK
    <3>2. CASE n \in Agents
      BY <2>4, <3>1, <3>2, <1>b, AbandonStep DEF SysCrash
    <3>3. CASE n \in Controllers
      <4>1. n \notin Agents
        BY <3>3
      <4> QED BY <2>4, <3>1, <3>3, <4>1, <1>b, BreakStep DEF SysCrash
    <3> QED BY <3>2, <3>3
  <2>5. ASSUME NEW a \in Agents, AgentStep(a) PROVE RequestsInv'
    <3>1. CASE ReceiveGet(a) \/ LoseGet(a)
      <4>1. posts' \subseteq posts /\ a \in Nodes
        BY <3>1 DEF ReceiveGet, LoseGet
      <4> QED BY <3>1, <4>1, <1>a, <2>q, QuietActions
    <3>2. CASE ServeGet(a)
      BY <3>2, <2>1 DEF ServeGet
    <3>3. CASE SendPost(a)
      BY <3>3, SendStep
    <3>4. CASE PostAccepted(a)
      BY <3>4, <1>b, AnsweredStep
    <3>5. CASE PostFailed(a)
      <4>1. \A m \in Nodes : m # a => pc'[m] = pc[m]
        BY <3>5, <1>a DEF PostFailed, ReportFail, Fail, TypeOK
      <4> QED BY <3>5, <4>1, <1>b, AbandonStep DEF PostFailed
    <3> QED BY <2>5, <3>1, <3>2, <3>3, <3>4, <3>5 DEF AgentStep
  <2>6. CASE PostStep
    <3>1. PICK p \in posts : CheckPost(p) \/ AcceptPost(p) \/ LosePost(p)
      BY <2>6 DEF PostStep
    <3>2. CASE LosePost(p)
      BY <3>2, <2>1 DEF LosePost
    <3> QED BY <3>1, <3>2, <1>b, CheckStep, AcceptStep
  <2>7. CASE UNCHANGED sysVars
    BY <2>7, <2>1 DEF sysVars, net
  <2> QED BY <2>2, <2>3, <2>4, <2>5, <2>6, <2>7 DEF SysNext
<1> QED BY <1>1, <1>2, <1>3 DEF ExchangeInv, RequestsInv

\* The protocol's invariant, in every reachable state of the system.
THEOREM ExchangeCorrect == SysSpec => []ExchangeInv
<1>1. SysInit => ExchangeInv
  <2> SUFFICES ASSUME SysInit PROVE ExchangeInv
    OBVIOUS
  <2>1. \A n \in Nodes : AcceptIsWanted(n)
    BY DEF SysInit, Init, AcceptIsWanted
  <2>2. ASSUME NEW a \in Agents PROVE ControllerHolds(a)
    <3>1. a \in Nodes /\ lastReported[a] = {} /\ answered[a] = {}
      BY DEF SysInit, Init
    <3> QED BY <3>1 DEF ControllerHolds, Held, Covers
  <2> QED BY <2>1, <2>2 DEF SysInit, ExchangeInv, OneAtATime
<1>2. /\ RequestInv /\ BehindInv /\ InstalledInv /\ ReportedInv /\ ExchangeInv
      /\ [SysNext]_sysVars
      => ExchangeInv'
  BY ExchangeStep DEF SystemInv
<1> QED
  BY <1>1, <1>2, RequestCorrect, SystemRunsRuntime, BehindCorrect,
     InstalledCorrect, ReportedCorrect, PTL DEF SysSpec

\* Whatever is lost, repeated, refused or crashes on the way: what an agent
\* counts as reported its controller would read back at a start and, when it
\* runs, wants installed.
THEOREM AcknowledgedIsKeptHolds == SysSpec => []AcknowledgedIsKept
<1>1. RequestInv /\ BehindInv /\ ExchangeInv => AcknowledgedIsKept
  <2> SUFFICES ASSUME RequestInv, BehindInv, ExchangeInv, NEW a \in Agents
               PROVE  /\ lastReported[a] \subseteq Recovered(Source[a])
                      /\ IsUp(Source[a]) => lastReported[a] \subseteq desired[Source[a]]
    BY DEF AcknowledgedIsKept
  <2>1. Source[a] \in Nodes /\ Held(Source[a], lastReported[a])
    BY SourceType DEF ExchangeInv, ControllerHolds
  <2>2. /\ FilesBehindMemory(Source[a]) /\ WantedIsSaved(Source[a])
        /\ desired[Source[a]] \subseteq Nets
    BY <2>1 DEF RequestInv, SavedInv, Saved, BehindInv, TypeOK
  <2>3. IsUp(Source[a]) => desired[Source[a]] \subseteq Recovered(Source[a])
    BY <2>2, NetsAssumption DEF WantedIsSaved, Recovered, FilesBehindMemory
  <2> QED BY <2>1, <2>3 DEF Held
<1> QED
  BY <1>1, RequestCorrect, SystemRunsRuntime, BehindCorrect, ExchangeCorrect, PTL

-----------------------------------------------------------------------------
(* The promise to the clients                                               *)

\* The drivers of a dependable node cover what its clients were told.
GivenIsCovered(n) == Dependable(n) => Covers(n, answered[n])

GivenInv == TypeOK /\ \A n \in Nodes : GivenIsCovered(n)

\* No step uncovers an address given out, and none gives out one that is not
\* covered.
LEMMA GivenStep ==
    ASSUME GivenInv, SavedInv, InstalledInv, ReportedInv, [Next]_vars
    PROVE  GivenInv'
<1> SUFFICES ASSUME NEW n \in Nodes, Dependable(n) PROVE Covers(n, answered[n])'
  <2>1. TypeOK'
    BY TypeStep DEF GivenInv
  <2> QED BY <2>1 DEF GivenInv, GivenIsCovered, Dependable
<1>a. /\ TypeOK /\ Covers(n, answered[n])
      /\ IsUp(n) => answered[n] \subseteq desired[n]
  BY DEF GivenInv, GivenIsCovered, SavedInv, Saved, HistoryIsSaved, WantedIsSaved
<1>1. CASE UNCHANGED vars
  BY <1>1, <1>a DEF vars, Covers
<1>2. ASSUME NEW m \in Nodes, NodeStep(m), m # n PROVE Covers(n, answered[n])'
  BY <1>2, <1>a, OtherNodes DEF Covers
<1>3. CASE Return(n)
  <2>1. /\ pc[n] = "return" /\ UNCHANGED kernel
        /\ answered'[n] = answered[n] \cup Answer(n)
    BY <1>3, <1>a DEF Return, TypeOK
  <2>2. Covers(n, Answer(n))
    BY <2>1, SuccessfulLearn DEF Answer, Covers
  <2> QED BY <2>1, <2>2, <1>a DEF Covers
<1>4. ASSUME NodeStep(n), ~Return(n) PROVE Covers(n, answered[n])'
  <2>1. answered' = answered
    BY <1>4
       DEF NodeStep, Boot, Tick, Request, Learn, Accept, Fetched, FetchOk,
           FetchFail, Work, SaveLearned, SaveState, SaveFails, Reconcile,
           Install, InstallFails, Applied, ReportOk, ReportFail, TimePasses,
           Drift, Crash
  <2>2. PICK S : S = answered[n]
    OBVIOUS
  <2>3. Covers(n, S)'
    BY <1>4, <1>a, <2>2, CoveredStays DEF Dependable
  <2> QED BY <2>1, <2>2, <2>3 DEF Covers
<1> QED BY <1>1, <1>2, <1>3, <1>4 DEF Next

\* So it is in every reachable state.
THEOREM GivenCorrect == Spec => []GivenInv
<1>1. Init => GivenInv
  BY SavedInit DEF Init, SavedInv, GivenInv, GivenIsCovered, Covers
<1>2. GivenInv /\ SavedInv /\ InstalledInv /\ ReportedInv /\ [Next]_vars => GivenInv'
  BY GivenStep
<1> QED
  BY <1>1, <1>2, SavedCorrect, InstalledCorrect, ReportedCorrect, PTL DEF Spec

\* When learn lets an answer out, the drivers of its node and of the exit
\* cover it.
THEOREM AnswerIsRoutedHolds ==
    ASSUME ApplyAssumption
    PROVE  SysSpec => []AnswerIsRouted
<1>1. InstalledInv /\ SavedInv /\ ReportedInv /\ ExchangeInv => AnswerIsRouted
  <2> SUFFICES ASSUME InstalledInv, SavedInv, ReportedInv, ExchangeInv,
                      NEW n \in Nodes, At(n, "return"), op[n] = "learn", ok[n]
               PROVE  Covers(n, arg[n]) /\ Covers(Source[n], arg[n])
    BY DEF AnswerIsRouted
  <2>1. /\ Covers(n, arg[n])
        /\ n \in Agents => arg[n] \subseteq lastReported[n]
    BY SuccessfulLearn DEF ApplyAssumption
  <2>2. CASE n \in Controllers
    BY <2>1, <2>2, SourceAssumption
  <2>3. CASE n \in Agents
    <3>1. Held(Source[n], lastReported[n]) /\ Dependable(Source[n])
      BY <2>3, SourceType DEF ExchangeInv, ControllerHolds, ApplyAssumption
    <3> QED BY <2>1, <2>3, <3>1 DEF Held, Dependable, Covers
  <2> QED BY <2>2, <2>3
<1> QED
  BY <1>1, SystemRunsRuntime, SavedCorrect, InstalledCorrect, ReportedCorrect,
     ExchangeCorrect, PTL

\* What a node must route in the abstract specification its drivers cover.
OwedIsCovered == \A n \in Nodes : Covers(n, Promised!Owed(n))

\* It does: its own clients' addresses, and those of the agents behind it.
LEMMA OwedByAll ==
    ASSUME ApplyAssumption, GivenInv, ExchangeInv
    PROVE  OwedIsCovered
<1> SUFFICES ASSUME NEW n \in Nodes PROVE Covers(n, Promised!Owed(n))
  BY DEF OwedIsCovered
<1>1. ASSUME NEW m \in Nodes, m = n \/ Source[m] = n PROVE Covers(n, answered[m])
  <2>1. CASE m = n
    BY <2>1 DEF GivenInv, GivenIsCovered, ApplyAssumption
  <2>2. CASE m # n
    <3>1. m \in Agents
      BY <1>1, <2>2, SourceAssumption
    <3>2. Held(n, answered[m])
      BY <1>1, <2>2, <3>1 DEF ExchangeInv, ControllerHolds
    <3> QED BY <3>2 DEF Held, ApplyAssumption, Dependable
  <2> QED BY <2>1, <2>2
<1> QED BY <1>1 DEF Covers, Promised!Owed

\* Every step of a node reroutes that node, gives out what learn returns, or
\* is invisible.
LEMMA PromiseStep ==
    ASSUME ApplyAssumption, GivenInv, SavedInv, InstalledInv, ReportedInv,
           ExchangeInv, OwedIsCovered', [Next]_vars
    PROVE  [Promised!Next]_<<[n \in Nodes |-> {x \in Nets : Covers(n, {x})}], answered>>
<1> DEFINE routed == [n \in Nodes |-> {x \in Nets : Covers(n, {x})}]
<1>a. TypeOK
  BY DEF GivenInv
<1>1. CASE UNCHANGED vars
  BY <1>1 DEF vars, Covers
<1>2. ASSUME NEW n \in Nodes, NodeStep(n) PROVE [Promised!Next]_<<routed, answered>>
  <2>1. CASE Return(n)
    <3>1. /\ pc[n] = "return" /\ kernel' = kernel
          /\ answered' = [answered EXCEPT ![n] = @ \cup Answer(n)]
      BY <2>1 DEF Return
    <3>2. routed' = routed
      BY <3>1 DEF Covers
    <3>3. /\ Answer(n) \in SUBSET Hosts
          /\ Covers(n, Answer(n)) /\ Covers(Source[n], Answer(n))
      <4>1. CASE op[n] = "learn" /\ ok[n]
        <5>1. Answer(n) = arg[n] /\ arg[n] \subseteq Hosts
          BY <4>1, <1>a DEF Answer, TypeOK
        <5>2. /\ Covers(n, arg[n])
              /\ n \in Agents => arg[n] \subseteq lastReported[n]
          BY <3>1, <4>1, SuccessfulLearn DEF ApplyAssumption
        <5>3. CASE n \in Controllers
          BY <5>1, <5>2, <5>3, SourceAssumption
        <5>4. CASE n \in Agents
          <6>1. Held(Source[n], lastReported[n]) /\ Dependable(Source[n])
            BY <5>4, SourceType DEF ExchangeInv, ControllerHolds, ApplyAssumption
          <6> QED BY <5>1, <5>2, <5>4, <6>1 DEF Held, Dependable, Covers
        <5> QED BY <5>3, <5>4
      <4>2. CASE ~(op[n] = "learn" /\ ok[n])
        BY <4>2 DEF Answer, Covers
      <4> QED BY <4>1, <4>2
    <3>4. \A m \in Nodes : Covers(m, Answer(n)) => Answer(n) \subseteq routed[m]
      BY <3>3, NetsAssumption DEF Covers
    <3>5. Answer(n) \subseteq routed[n] \cap routed[Source[n]]
      BY <3>3, <3>4, SourceType
    <3>6. Promised!Give(n)
      BY <3>1, <3>2, <3>3, <3>5 DEF Promised!Give
    <3> QED BY <3>6 DEF Promised!Next
  <2>2. CASE ~Return(n)
    <3>1. answered' = answered
      BY <1>2, <2>2
         DEF NodeStep, Boot, Tick, Request, Learn, Accept, Fetched, FetchOk,
             FetchFail, Work, SaveLearned, SaveState, SaveFails, Reconcile,
             Install, InstallFails, Applied, ReportOk, ReportFail, TimePasses,
             Drift, Crash
    <3>2. \A m \in Nodes : m # n => kernel'[m] = kernel[m]
      BY <1>2, <1>a, OtherNodes
    <3> DEFINE R == {x \in Nets : Covers(n, {x})'}
    <3>3. routed' = [routed EXCEPT ![n] = R]
      BY <3>2 DEF Covers
    <3>4. Promised!Owed(n) \subseteq R
      <4>1. Covers(n, Promised!Owed(n))'
        BY DEF OwedIsCovered
      <4>2. Promised!Owed(n)' = Promised!Owed(n)
        BY <3>1 DEF Promised!Owed
      <4>3. Promised!Owed(n) \subseteq Nets
        BY <1>a, NetsAssumption DEF Promised!Owed, TypeOK
      <4> QED BY <4>1, <4>2, <4>3 DEF Covers
    <3>5. Promised!Reroute(n)
      BY <3>1, <3>3, <3>4 DEF Promised!Reroute
    <3> QED BY <3>5 DEF Promised!Next
  <2> QED BY <2>1, <2>2
<1> QED BY <1>1, <1>2 DEF Next

\* The system implements its promise: an address is given out when its node
\* and the exit route it, and both do so ever after.
THEOREM KeepsPromiseHolds ==
    ASSUME ApplyAssumption
    PROVE  SysSpec => KeepsPromise
<1>1. SysInit => Promised!Init
  BY DEF SysInit, Init, Promised!Init
<1>2. /\ GivenInv /\ SavedInv /\ InstalledInv /\ ReportedInv /\ ExchangeInv
      /\ OwedIsCovered' /\ [Next]_vars
      => [Promised!Next]_<<[n \in Nodes |-> {x \in Nets : Covers(n, {x})}], answered>>
  BY PromiseStep
<1>3. GivenInv /\ ExchangeInv => OwedIsCovered
  BY OwedByAll
<1>4. Spec => [][Next]_vars
  BY PTL DEF Spec
<1> QED
  BY <1>1, <1>2, <1>3, <1>4, SystemRunsRuntime, GivenCorrect, SavedCorrect, InstalledCorrect,
     ReportedCorrect, ExchangeCorrect, PTL DEF SysSpec, KeepsPromise, Promised!Spec
=============================================================================
