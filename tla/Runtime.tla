------------------------------ MODULE Runtime ------------------------------
(* The daemon of netflix-pbrd, src/internal/pbr/runtime.go with the set     *)
(* and state-file helpers of networks.go: one Runtime per node, its two     *)
(* state files, and the policy its apply drivers have installed.            *)
(*                                                                          *)
(* syncMu is held from the first to the last statement of sync, learn,      *)
(* acceptReport and reconcile, so a node runs one operation at a time: it   *)
(* is "idle" while the mutex is free and every other pc is a point inside   *)
(* the operation that holds it.  An operation is split into one action per  *)
(* effect that something outside the process can see or stop: a file        *)
(* renamed into place, a driver's commands, an HTTP exchange, a crash.      *)
(* Assignments to memory are merged into the step before them; a crash      *)
(* erases memory anyway, and the one reader outside the mutex (the API      *)
(* handler) could as well have run just before the step.                    *)
(*                                                                          *)
(* Abstractions.  A network is a value; a list that ValidateNetworks has    *)
(* sorted is the set of its members, so Equal is equality.  A clock is the  *)
(* flag "due": reapply_interval has passed since appliedAt.  A driver is    *)
(* its contract: on success its policy admits the wanted destinations, on   *)
(* failure it may be anywhere between the old and the new policy.  The      *)
(* status file (recordStatus) is write-only for the daemon and left out.    *)
EXTENDS Naturals, FiniteSets

CONSTANTS
    Nodes,        \* the hosts that run the daemon
    Controllers,  \* those with role "controller"; the others are agents
    Nets,         \* the canonical networks that can occur
    Hosts,        \* the /32 networks among them
    Blank,        \* the empty line that stands in a state file saved empty
    Seeds,        \* seed_networks of each node
    Limit,        \* max_networks of each node
    NumDrivers,   \* length of the apply list
    Additive,     \* positions in it held by a wg-route whose base_allowed has
                  \* 0.0.0.0/0: all it changes is routes, which it only adds
    Faults        \* what can go wrong on each: "disk", "driver", "drift", "crash"

ASSUME NodesAssumption == Controllers \subseteq Nodes
ASSUME NetsAssumption ==
    /\ IsFiniteSet(Nets)
    /\ Hosts \subseteq Nets
    /\ Blank \notin Nets
ASSUME LimitAssumption == Limit \in [Nodes -> Nat \ {0}]
ASSUME SeedsAssumption ==          \* LoadConfig refuses any other seed list
    /\ Seeds \in [Nodes -> SUBSET Nets]
    /\ \A n \in Nodes : Cardinality(Seeds[n]) =< Limit[n]
ASSUME DriversAssumption ==
    /\ NumDrivers \in Nat
    /\ Additive \subseteq 1..NumDrivers
ASSUME FaultsAssumption ==
    Faults \in [Nodes -> SUBSET {"disk", "driver", "drift", "crash"}]

VARIABLES
    \* memory, lost by a crash
    desired, learned, applied, appliedKnown, due, lastReported,
    \* state_file and state_file.learned, as the lines they hold
    stateFile, learnedFile,
    \* the destinations each driver's policy covers
    kernel,
    \* the operation that holds syncMu: where it is, which one, its input,
    \* the driver it has reached, and whether it has met no error so far
    pc, op, arg, drv, ok,
    \* history: the hosts whose DNS answers were given to clients
    answered

memory == <<desired, learned, applied, appliedKnown, due, lastReported>>
disk == <<stateFile, learnedFile>>
call == <<op, arg>>
vars == <<memory, disk, kernel, pc, call, drv, ok, answered>>

Drivers == 1..NumDrivers
Ops == {"boot", "tick", "learn", "accept"}
Pcs == {"down", "idle", "fetch", "saveLearned", "saveState", "decide",
        "apply", "report", "return"}

IsUp(n) == pc[n] # "down"
Agents == Nodes \ Controllers

TypeOK ==
    /\ desired \in [Nodes -> SUBSET Nets]
    /\ learned \in [Nodes -> SUBSET Hosts]
    /\ applied \in [Nodes -> SUBSET Nets]
    /\ appliedKnown \in [Nodes -> BOOLEAN]
    /\ due \in [Nodes -> BOOLEAN]
    /\ lastReported \in [Nodes -> SUBSET Hosts]
    /\ stateFile \in [Nodes -> SUBSET (Nets \cup {Blank})]
    /\ learnedFile \in [Nodes -> SUBSET Hosts]
    /\ kernel \in [Nodes -> [Drivers -> SUBSET Nets]]
    /\ pc \in [Nodes -> Pcs]
    /\ op \in [Nodes -> Ops]
    /\ arg \in [Nodes -> SUBSET Nets]
    /\ drv \in [Nodes -> 1..NumDrivers + 1]
    /\ ok \in [Nodes -> BOOLEAN]
    /\ answered \in [Nodes -> SUBSET Hosts]
    /\ \A n \in Nodes : op[n] \in {"learn", "accept"} =>
                        arg[n] \subseteq Hosts /\ pc[n] # "fetch"

-----------------------------------------------------------------------------
(* networks.go *)

\* ValidateNetworks on canonical networks: too many is the error left.
WithinLimit(n, S) == Cardinality(S) =< Limit[n]

\* What SaveState writes: it ends the joined lines with a newline, so the
\* empty set becomes one blank line.
FileOf(S) == IF S = {} THEN {Blank} ELSE S

\* Mutation: the state file is not read.
RecoveredLearned(n) == learnedFile[n] \cup Seeds[n]

\* The set a boot merges from the two files and the configuration.
Recovered(n) == (stateFile[n] \ {Blank}) \cup learnedFile[n] \cup Seeds[n]

\* newRuntime succeeds: LoadState hands a blank line on to ValidateNetworks,
\* which refuses it, and each of the three sets must be within the limit.
Bootable(n) ==
    /\ Blank \notin stateFile[n]
    /\ WithinLimit(n, stateFile[n])
    /\ WithinLimit(n, learnedFile[n])
    /\ WithinLimit(n, Recovered(n))

-----------------------------------------------------------------------------
(* What the operation that holds syncMu is about to store. *)

\* Mutations: whatever arrives is learned; only the last answer is learned.
NextLearnedAll(n) == learned[n] \cup arg[n]
NextLearnedLast(n) == IF op[n] = "learn" THEN arg[n] ELSE learned[n]

NextLearned(n) ==
    IF op[n] = "learn" THEN learned[n] \cup arg[n] ELSE learned[n]

\* Mutations: sync drops the learned hosts; acceptReport replaces the set.
NextDesiredFetched(n) ==
    IF op[n] \in {"learn", "accept"} THEN desired[n] \cup NextLearned(n) \cup arg[n]
    ELSE arg[n] \cup Seeds[n]
NextDesiredReplaced(n) ==
    IF op[n] = "learn" THEN desired[n] \cup learned[n] \cup arg[n] \cup Seeds[n]
    ELSE arg[n] \cup learned[n] \cup Seeds[n]

\* learn merges, acceptReport merges, an agent's sync replaces: what the
\* controller has dropped goes, unless this node has learned it itself.
NextDesired(n) ==
    IF op[n] = "learn" THEN desired[n] \cup learned[n] \cup arg[n] \cup Seeds[n]
    ELSE IF op[n] = "accept" THEN desired[n] \cup arg[n]
    ELSE arg[n] \cup learned[n] \cup Seeds[n]

At(n, label) == pc[n] = label
Goto(n, label) == pc' = [pc EXCEPT ![n] = label]

\* Taking syncMu for operation o on the networks S.
Begin(n, o, S) ==
    /\ op' = [op EXCEPT ![n] = o]
    /\ arg' = [arg EXCEPT ![n] = S]
    /\ ok' = [ok EXCEPT ![n] = TRUE]

\* An early "return err".
Fail(n) ==
    /\ ok' = [ok EXCEPT ![n] = FALSE]
    /\ Goto(n, "return")

-----------------------------------------------------------------------------
(* Starting an operation *)

\* newRuntime, then Run up to its call of reconcile.  When newRuntime fails
\* the process exits and the node stays down.
Boot(n) ==
    /\ At(n, "down")
    /\ Bootable(n)
    /\ desired' = [desired EXCEPT ![n] = Recovered(n)]
    /\ learned' = [learned EXCEPT ![n] = learnedFile[n]]
    /\ Begin(n, "boot", {})
    /\ Goto(n, "decide")
    /\ UNCHANGED <<applied, appliedKnown, due, lastReported, disk, kernel,
                   drv, answered>>

\* sync: a controller goes straight to reconcileLocked, an agent fetches.
Tick(n) ==
    /\ At(n, "idle")
    /\ Begin(n, "tick", {})
    /\ Goto(n, IF n \in Controllers THEN "decide" ELSE "fetch")
    /\ UNCHANGED <<memory, disk, kernel, drv, answered>>

\* fetch returns S and sync merges it; a merge over the limit is returned
\* as an error before anything is saved or reconciled.
FetchOk(n, S) ==
    /\ At(n, "fetch")
    /\ WithinLimit(n, S)
    /\ arg' = [arg EXCEPT ![n] = S]
    /\ IF WithinLimit(n, S \cup learned[n] \cup Seeds[n])
         THEN Goto(n, "saveState") /\ UNCHANGED ok
         ELSE Fail(n)
    /\ UNCHANGED <<memory, disk, kernel, op, drv, answered>>

\* fetch fails: the error is kept for the end, the rest of sync still runs.
FetchFail(n) ==
    /\ At(n, "fetch")
    /\ ok' = [ok EXCEPT ![n] = FALSE]
    /\ Goto(n, "decide")
    /\ UNCHANGED <<memory, disk, kernel, call, drv, answered>>

\* learn, called by the DNS proxy with the hosts S of one answer.
Learn(n, S) ==
    /\ At(n, "idle")
    /\ op' = [op EXCEPT ![n] = "learn"]
    /\ arg' = [arg EXCEPT ![n] = S]
    /\ LET allLearned == learned[n] \cup S
           fits == /\ WithinLimit(n, S)
                   /\ WithinLimit(n, allLearned)
                   /\ WithinLimit(n, desired[n] \cup allLearned \cup Seeds[n])
       IN  /\ ok' = [ok EXCEPT ![n] = fits]
           /\ Goto(n, IF ~fits THEN "return"
                      ELSE IF allLearned = learned[n] THEN "saveState"
                      ELSE "saveLearned")
    /\ UNCHANGED <<memory, disk, kernel, drv, answered>>

\* Mutation: acceptReport checks the report and not the merged set.
AcceptUnchecked(n, S) ==
    /\ At(n, "idle")
    /\ n \in Controllers
    /\ op' = [op EXCEPT ![n] = "accept"]
    /\ arg' = [arg EXCEPT ![n] = S]
    /\ ok' = [ok EXCEPT ![n] = WithinLimit(n, S)]
    /\ Goto(n, IF WithinLimit(n, S) THEN "saveState" ELSE "return")
    /\ UNCHANGED <<memory, disk, kernel, drv, answered>>

\* acceptReport, called by the API handler with the hosts S of one report.
Accept(n, S) ==
    /\ At(n, "idle")
    /\ n \in Controllers
    /\ op' = [op EXCEPT ![n] = "accept"]
    /\ arg' = [arg EXCEPT ![n] = S]
    /\ LET fits == WithinLimit(n, S) /\ WithinLimit(n, desired[n] \cup S)
       IN  /\ ok' = [ok EXCEPT ![n] = fits]
           /\ Goto(n, IF fits THEN "saveState" ELSE "return")
    /\ UNCHANGED <<memory, disk, kernel, drv, answered>>

-----------------------------------------------------------------------------
(* Persisting *)

\* learn saves the learned file first, while memory keeps the old set.
SaveLearned(n) ==
    /\ At(n, "saveLearned")
    /\ learnedFile' = [learnedFile EXCEPT ![n] = NextLearned(n)]
    /\ Goto(n, "saveState")
    /\ UNCHANGED <<memory, stateFile, kernel, call, drv, ok, answered>>

\* Mutation: memory is saved before it takes the new set over.
SaveStateStale(n) ==
    /\ At(n, "saveState")
    /\ stateFile' = [stateFile EXCEPT ![n] = FileOf(desired[n])]
    /\ desired' = [desired EXCEPT ![n] = NextDesired(n)]
    /\ learned' = [learned EXCEPT ![n] = NextLearned(n)]
    /\ Goto(n, "decide")
    /\ UNCHANGED <<applied, appliedKnown, due, lastReported, learnedFile,
                   kernel, call, drv, ok, answered>>

\* The state file is renamed into place when the set changed, then memory
\* takes both sets over.
SaveState(n) ==
    /\ At(n, "saveState")
    /\ stateFile' = [stateFile EXCEPT ![n] =
           IF NextDesired(n) = desired[n] THEN @ ELSE FileOf(NextDesired(n))]
    /\ desired' = [desired EXCEPT ![n] = NextDesired(n)]
    /\ learned' = [learned EXCEPT ![n] = NextLearned(n)]
    /\ Goto(n, "decide")
    /\ UNCHANGED <<applied, appliedKnown, due, lastReported, learnedFile,
                   kernel, call, drv, ok, answered>>

\* SaveState of either file fails: the operation ends, memory is as before.
SaveFails(n) ==
    /\ "disk" \in Faults[n]
    /\ \/ At(n, "saveLearned")
       \/ At(n, "saveState") /\ NextDesired(n) # desired[n]
    /\ Fail(n)
    /\ UNCHANGED <<memory, disk, kernel, call, drv, answered>>

-----------------------------------------------------------------------------
(* reconcileLocked *)

\* Mutations: an agent reports only once after it has started; only learn
\* reports.
AfterApplyOnce(n) ==
    IF n \in Agents /\ lastReported[n] = {} THEN "report" ELSE "return"
AfterApplyLearn(n) ==
    IF n \in Agents /\ op[n] = "learn" THEN "report" ELSE "return"

\* Where reconcileLocked goes once the policy is in place: an agent reports
\* what it has learned unless that is what it reported last.
AfterApply(n) ==
    IF n \in Agents /\ learned[n] # lastReported[n] THEN "report" ELSE "return"

Changed(n) == ~appliedKnown[n] \/ desired[n] # applied[n]

\* Mutations: reapply_interval is ignored; drivers are counted from zero.
ReconcileChanged(n) ==
    /\ At(n, "decide")
    /\ Goto(n, IF Changed(n) THEN "apply" ELSE AfterApply(n))
    /\ drv' = [drv EXCEPT ![n] = 1]
    /\ UNCHANGED <<memory, disk, kernel, call, ok, answered>>
ReconcileFromZero(n) ==
    /\ At(n, "decide")
    /\ Goto(n, IF Changed(n) \/ due[n] THEN "apply" ELSE AfterApply(n))
    /\ drv' = [drv EXCEPT ![n] = 0]
    /\ UNCHANGED <<memory, disk, kernel, call, ok, answered>>

\* The drivers run when the set changed or reapply_interval has passed.
Reconcile(n) ==
    /\ At(n, "decide")
    /\ Goto(n, IF Changed(n) \/ due[n] THEN "apply" ELSE AfterApply(n))
    /\ drv' = [drv EXCEPT ![n] = 1]
    /\ UNCHANGED <<memory, disk, kernel, call, ok, answered>>

\* One driver succeeds.  All but the additive ones replace their policy.
Install(n) ==
    /\ At(n, "apply")
    /\ drv[n] \in Drivers
    /\ kernel' = [kernel EXCEPT ![n][drv[n]] =
           IF drv[n] \in Additive THEN @ \cup desired[n] ELSE desired[n]]
    /\ drv' = [drv EXCEPT ![n] = drv[n] + 1]
    /\ UNCHANGED <<memory, disk, pc, call, ok, answered>>

\* What a driver that stops half-way may leave: at least what the old policy
\* and the wanted one share; an additive one removes nothing.  Drivers checks it
\* (NeverInterrupts) and names the exceptions, which are left out here: two
\* short ones of linux-edge and linux-exit, and on OpenWrt a reload that fails
\* and may have stopped the service.
PartlyInstalled(n) ==
    /\ At(n, "apply")
    /\ drv[n] \in Drivers
    /\ \E E \in SUBSET Nets :
         /\ IF drv[n] \in Additive THEN kernel[n][drv[n]] \subseteq E
                                  ELSE kernel[n][drv[n]] \cap desired[n] \subseteq E
         /\ kernel' = [kernel EXCEPT ![n][drv[n]] = E]

\* Mutations: a driver's error is swallowed; the failed set is recorded.
InstallFailsIgnored(n) ==
    /\ "driver" \in Faults[n]
    /\ PartlyInstalled(n)
    /\ drv' = [drv EXCEPT ![n] = drv[n] + 1]
    /\ UNCHANGED <<memory, disk, pc, call, ok, answered>>
InstallFailsRecorded(n) ==
    /\ "driver" \in Faults[n]
    /\ PartlyInstalled(n)
    /\ Fail(n)
    /\ applied' = [applied EXCEPT ![n] = desired[n]]
    /\ appliedKnown' = [appliedKnown EXCEPT ![n] = TRUE]
    /\ UNCHANGED <<desired, learned, due, lastReported, disk, call, drv, answered>>

\* One driver fails; the drivers after it are not run.
InstallFails(n) ==
    /\ "driver" \in Faults[n]
    /\ PartlyInstalled(n)
    /\ Fail(n)
    /\ UNCHANGED <<memory, disk, call, drv, answered>>

\* Every driver has succeeded.
Applied(n) ==
    /\ At(n, "apply")
    /\ drv[n] = NumDrivers + 1
    /\ applied' = [applied EXCEPT ![n] = desired[n]]
    /\ appliedKnown' = [appliedKnown EXCEPT ![n] = TRUE]
    /\ due' = [due EXCEPT ![n] = FALSE]
    /\ Goto(n, AfterApply(n))
    /\ drv' = [drv EXCEPT ![n] = 1]
    /\ UNCHANGED <<desired, learned, lastReported, disk, kernel, call, ok,
                   answered>>

\* Mutation: all wanted networks count as reported.
ReportOkAll(n) ==
    /\ At(n, "report")
    /\ lastReported' = [lastReported EXCEPT ![n] = desired[n]]
    /\ Goto(n, "return")
    /\ UNCHANGED <<desired, learned, applied, appliedKnown, due, disk, kernel,
                   call, drv, ok, answered>>

\* The controller answered the report with 204.
ReportOk(n) ==
    /\ At(n, "report")
    /\ lastReported' = [lastReported EXCEPT ![n] = learned[n]]
    /\ Goto(n, "return")
    /\ UNCHANGED <<desired, learned, applied, appliedKnown, due, disk, kernel,
                   call, drv, ok, answered>>

\* Mutation: lastReported is set before the request is made.
ReportFailRecorded(n) ==
    /\ At(n, "report")
    /\ lastReported' = [lastReported EXCEPT ![n] = learned[n]]
    /\ Fail(n)
    /\ UNCHANGED <<desired, learned, applied, appliedKnown, due, disk, kernel,
                   call, drv, answered>>

\* Any other status, no connection, or no answer within 15 seconds.
ReportFail(n) ==
    /\ At(n, "report")
    /\ Fail(n)
    /\ UNCHANGED <<memory, disk, kernel, call, drv, answered>>

\* Mutation: the answer goes out whether it was learned or not.
AnswerAlways(n) == IF op[n] = "learn" THEN arg[n] ELSE {}

\* The hosts of the answer that the DNS proxy now gives to the client: after
\* a failed learn it answers SERVFAIL.
Answer(n) == IF op[n] = "learn" /\ ok[n] THEN arg[n] ELSE {}

\* Mutation: syncMu is freed by a successful operation only.
ReturnIfOk(n) ==
    /\ At(n, "return")
    /\ ok[n]
    /\ Goto(n, "idle")
    /\ answered' = [answered EXCEPT ![n] = @ \cup Answer(n)]
    /\ op' = [op EXCEPT ![n] = "tick"]
    /\ arg' = [arg EXCEPT ![n] = {}]
    /\ UNCHANGED <<memory, disk, kernel, drv, ok>>

\* The operation returns and frees syncMu.
Return(n) ==
    /\ At(n, "return")
    /\ Goto(n, "idle")
    /\ answered' = [answered EXCEPT ![n] = @ \cup Answer(n)]
    /\ op' = [op EXCEPT ![n] = "tick"]       \* forget the finished call
    /\ arg' = [arg EXCEPT ![n] = {}]
    /\ ok' = [ok EXCEPT ![n] = TRUE]
    /\ UNCHANGED <<memory, disk, kernel, drv>>

-----------------------------------------------------------------------------
(* The world around the daemon *)

\* reapply_interval passes since the last complete apply.
TimePasses(n) ==
    /\ IsUp(n)
    /\ appliedKnown[n]
    /\ ~due[n]
    /\ due' = [due EXCEPT ![n] = TRUE]
    /\ UNCHANGED <<desired, learned, applied, appliedKnown, lastReported, disk,
                   kernel, pc, call, drv, ok, answered>>

\* The process dies or is stopped, perhaps in the middle of a driver; the
\* files and the installed policy stay.
Crash(n) ==
    /\ "crash" \in Faults[n]
    /\ IsUp(n)
    /\ UNCHANGED kernel \/ PartlyInstalled(n)
    /\ Goto(n, "down")
    /\ desired' = [desired EXCEPT ![n] = {}]
    /\ learned' = [learned EXCEPT ![n] = {}]
    /\ applied' = [applied EXCEPT ![n] = {}]
    /\ appliedKnown' = [appliedKnown EXCEPT ![n] = FALSE]
    /\ due' = [due EXCEPT ![n] = FALSE]
    /\ lastReported' = [lastReported EXCEPT ![n] = {}]
    /\ op' = [op EXCEPT ![n] = "tick"]
    /\ arg' = [arg EXCEPT ![n] = {}]
    /\ drv' = [drv EXCEPT ![n] = 1]
    /\ ok' = [ok EXCEPT ![n] = TRUE]
    /\ UNCHANGED <<disk, answered>>

\* Somebody else (a firewall reload, a tunnel restart, a reboot) removes
\* installed policy.
Drift(n) ==
    /\ "drift" \in Faults[n]
    /\ \E d \in Drivers : \E E \in SUBSET kernel[n][d] :
         /\ E # kernel[n][d]
         /\ kernel' = [kernel EXCEPT ![n][d] = E]
    /\ UNCHANGED <<memory, disk, pc, call, drv, ok, answered>>

-----------------------------------------------------------------------------
Init ==
    /\ desired = [n \in Nodes |-> {}]
    /\ learned = [n \in Nodes |-> {}]
    /\ applied = [n \in Nodes |-> {}]
    /\ appliedKnown = [n \in Nodes |-> FALSE]
    /\ due = [n \in Nodes |-> FALSE]
    /\ lastReported = [n \in Nodes |-> {}]
    /\ stateFile = [n \in Nodes |-> {}]
    /\ learnedFile = [n \in Nodes |-> {}]
    /\ kernel = [n \in Nodes |-> [d \in Drivers |-> {}]]
    /\ pc = [n \in Nodes |-> "down"]
    /\ op = [n \in Nodes |-> "tick"]
    /\ arg = [n \in Nodes |-> {}]
    /\ drv = [n \in Nodes |-> 1]
    /\ ok = [n \in Nodes |-> TRUE]
    /\ answered = [n \in Nodes |-> {}]

\* The steps of the operation in progress that ask nothing of another node.
Work(n) ==
    \/ SaveLearned(n) \/ SaveState(n) \/ SaveFails(n)
    \/ Reconcile(n) \/ Install(n) \/ InstallFails(n) \/ Applied(n)

Fetched(n) == \E S \in SUBSET Nets : FetchOk(n, S)

\* A request from outside: a DNS answer or an agent's report.
Request(n) == \E S \in (SUBSET Hosts) \ {{}} : Learn(n, S) \/ Accept(n, S)

NodeStep(n) ==
    \/ Boot(n) \/ Tick(n) \/ Request(n)
    \/ Fetched(n) \/ FetchFail(n)
    \/ Work(n) \/ Return(n)
    \/ ReportOk(n) \/ ReportFail(n)
    \/ TimePasses(n) \/ Crash(n) \/ Drift(n)

Next == \E n \in Nodes : NodeStep(n)

Spec == Init /\ [][Next]_vars

(* Fairness.  The ticker never stops and a Go mutex does not starve a       *)
(* waiter, so sync gets its turn (SF); once started an operation runs on    *)
(* (WF), every HTTP call ends within 15 seconds (WF), a supervisor restarts *)
(* the process (WF), and time passes (WF).  Errors of the disk, a driver or *)
(* the network may be many but do not last for ever (SF).                   *)
Fairness(n) ==
    /\ WF_vars(Boot(n))
    /\ SF_vars(Tick(n))
    /\ WF_vars(Work(n) \/ Return(n))
    /\ SF_vars(SaveLearned(n))
    /\ SF_vars(SaveState(n))
    /\ SF_vars(Install(n))
    /\ WF_vars(Fetched(n) \/ FetchFail(n))
    /\ SF_vars(Fetched(n))
    /\ WF_vars(ReportOk(n) \/ ReportFail(n))
    /\ SF_vars(ReportOk(n))
    /\ WF_vars(TimePasses(n))

FairSpec == Spec /\ \A n \in Nodes : Fairness(n)

-----------------------------------------------------------------------------
(* Safety *)

Covers(n, S) == \A d \in Drivers : S \subseteq kernel[n][d]

\* A crash at any moment forgets nothing the daemon works with: what it wants
\* installed and what it has learned is already in the files a boot reads.
\* ("Persist desired state first", sync; "Persist discoveries before applying
\* or reporting them", learn.)
CrashForgetsNothing ==
    \A n \in Nodes : IsUp(n) =>
        /\ desired[n] \subseteq Recovered(n)
        /\ learned[n] \subseteq learnedFile[n] \cap desired[n]

\* An address given to a client is never lost: it is in the learned file for
\* good, and wanted by the daemon whenever it runs, whatever the controller
\* then answers to sync, through crashes and failed writes.
AnswersKept ==
    \A n \in Nodes :
        /\ answered[n] \subseteq learnedFile[n]
        /\ IsUp(n) => answered[n] \subseteq desired[n]

\* An agent believes the controller to know only what it has itself learned
\* and saved, so that a restart can only report more, never less.
ReportedIsDurable ==
    \A n \in Nodes : lastReported[n] \subseteq learnedFile[n]

\* Whenever the process dies, newRuntime will accept the files it left.
Restartable == \A n \in Nodes : Bootable(n)

\* When learn is about to let an answer out, every driver covers its hosts
\* and, on an agent, the controller has acknowledged them.
AnswerAcknowledged ==
    \A n \in Nodes :
        (At(n, "return") /\ op[n] = "learn" /\ ok[n]) =>
            /\ Covers(n, arg[n])
            /\ n \in Agents => arg[n] \subseteq lastReported[n]

\* reconcileLocked skips the drivers only when they hold what is wanted: a
\* failed apply is retried by the next operation.
FailedApplyRetried ==
    [][\A n \in Nodes :
          (At(n, "decide") /\ pc'[n] \in {"report", "return"}) =>
              Covers(n, desired[n])]_vars

\* State files are monotonic: a controller's state file and any learned file
\* only grow, whatever fails or crashes, as long as writes succeed.  (After a
\* failed write memory is behind the learned file, which then may shrink.)
StateFilesMonotonic ==
    [][\A n \in {m \in Nodes : "disk" \notin Faults[m]} :
          /\ n \in Controllers => stateFile[n] \subseteq stateFile'[n]
          /\ learnedFile[n] \subseteq learnedFile'[n]]_vars

-----------------------------------------------------------------------------
(* Liveness, for a node that is up from some moment on *)

StaysUp(n) == <>[]IsUp(n)
DriftStops(n) == <>[][~Drift(n)]_vars

\* A learned host is reported in the end, however many reports fail and
\* however often the daemon restarts before.
LearnedIsReported ==
    \A n \in Agents : \A h \in Hosts :
        StaysUp(n) => (h \in learnedFile[n] ~> h \in lastReported[n])

\* Policy removed behind the daemon's back comes back for good once that
\* stops, and so does policy whose installation was cut short.
LearnedStaysInstalled ==
    \A n \in Nodes :
        (StaysUp(n) /\ DriftStops(n)) => <>[]Covers(n, learned[n])

\* Every operation ends and frees syncMu, unless the process dies first.  Each
\* external command is taken to end: runner.go sets no time limit.
OperationsEnd ==
    \A n \in Nodes : ~At(n, "idle") /\ IsUp(n) ~> At(n, "idle") \/ ~IsUp(n)
=============================================================================
