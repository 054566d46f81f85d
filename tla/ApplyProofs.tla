---------------------------- MODULE ApplyProofs ----------------------------
(* Theorems about what Runtime has installed, for any nodes, networks,      *)
(* limits and drivers.                                                      *)
EXTENDS RuntimeProofs

USE DEF At, Goto, IsUp, Agents

\* Of a node whose policy nobody else removes, and which is a controller or
\* has drivers that do not fail.  (An agent whose drivers fail may be told to
\* go back to the set it applied before: the run failed_apply.)
Dependable(n) ==
    /\ "drift" \notin Faults[n]
    /\ n \in Controllers \/ "driver" \notin Faults[n]

\* The drivers before the one that is reached cover what is wanted, the others
\* what was applied last.
DriversInstalled(n) ==
    /\ At(n, "apply") =>
         \A d \in Drivers : d < drv[n] => desired[n] \subseteq kernel[n][d]
    /\ appliedKnown[n] =>
         \A d \in Drivers :
            (At(n, "apply") /\ d < drv[n]) \/ applied[n] \subseteq kernel[n][d]

\* A driver that fails leaves what the old set and the wanted one share, which
\* on a controller is the old one: its set only grows.
OnlyGrows(n) ==
    n \in Controllers =>
        /\ appliedKnown[n] => applied[n] \subseteq desired[n]
        /\ ~At(n, "fetch")
        /\ pc[n] \in {"saveLearned", "saveState"} => op[n] \in {"learn", "accept"}

\* Whoever has passed reconcileLocked has everything wanted installed.
PastApply(n) ==
    At(n, "report") \/ (At(n, "return") /\ ok[n]) => Covers(n, desired[n])

Installed(n) ==
    /\ appliedKnown[n] => IsUp(n)
    /\ DriversInstalled(n)
    /\ OnlyGrows(n)
    /\ PastApply(n)

InstalledInv ==
    TypeOK /\ \A n \in Nodes : Dependable(n) => Installed(n)

\* Steps that touch neither the policy nor what it is compared with, before
\* anything is applied or after a failure.
LEMMA InstalledCalm ==
    ASSUME NEW n \in Nodes, Installed(n),
           pc[n] # "apply", pc'[n] \notin {"down", "apply", "report"},
           pc'[n] = "return" => ~ok'[n],
           n \in Controllers => pc'[n] # "fetch",
           (n \in Controllers /\ pc'[n] \in {"saveLearned", "saveState"}) =>
               op'[n] \in {"learn", "accept"},
           desired'[n] = desired[n], applied'[n] = applied[n],
           appliedKnown'[n] = appliedKnown[n], kernel'[n] = kernel[n]
    PROVE  Installed(n)'
    BY DEF Installed, DriversInstalled, OnlyGrows, PastApply

\* When the drivers are skipped, they cover what is wanted.
LEMMA SkippedIsInstalled ==
    ASSUME NEW n \in Nodes, Installed(n), At(n, "decide"), ~Changed(n)
    PROVE  Covers(n, desired[n])
    BY DEF Installed, DriversInstalled, Changed, Covers

\* A driver's success: it covers what is wanted now.
LEMMA InstallStep ==
    ASSUME TypeOK, NEW n \in Nodes, Installed(n), Install(n)
    PROVE  Installed(n)'
<1>1. /\ pc[n] = "apply" /\ UNCHANGED <<memory, pc, call, ok>>
      /\ drv[n] \in Drivers /\ drv'[n] = drv[n] + 1
      /\ desired[n] \subseteq kernel'[n][drv[n]]
      /\ \A d \in Drivers : d # drv[n] => kernel'[n][d] = kernel[n][d]
  BY DEF Install, TypeOK
<1>2. \A d \in Drivers : d < drv[n] + 1 => d < drv[n] \/ d = drv[n]
  BY <1>1, DriversAssumption DEF Drivers
<1>3. DriversInstalled(n)'
  <2>1. ASSUME NEW d \in Drivers, d < drv[n] + 1
        PROVE  desired[n] \subseteq kernel'[n][d]
    <3>1. CASE d = drv[n]
      BY <3>1, <1>1
    <3>2. CASE d # drv[n]
      BY <2>1, <3>2, <1>1, <1>2 DEF Installed, DriversInstalled
    <3> QED BY <3>1, <3>2
  <2>2. ASSUME NEW d \in Drivers, ~(d < drv[n] + 1), appliedKnown[n]
        PROVE  applied[n] \subseteq kernel'[n][d]
    <3>1. d # drv[n] /\ ~(d < drv[n])
      BY <2>2, <1>1 DEF Drivers
    <3> QED BY <2>2, <3>1, <1>1 DEF Installed, DriversInstalled
  <2> QED BY <2>1, <2>2, <1>1 DEF DriversInstalled, memory
<1> QED BY <1>1, <1>3 DEF Installed, OnlyGrows, PastApply, memory, call

\* A driver's failure, which only a controller meets.
LEMMA InstallFailsStep ==
    ASSUME TypeOK, NEW n \in Nodes, Dependable(n), Installed(n), InstallFails(n)
    PROVE  Installed(n)'
<1>1. /\ n \in Controllers
      /\ pc[n] = "apply" /\ pc'[n] = "return" /\ ~ok'[n]
      /\ UNCHANGED <<memory, call>> /\ drv[n] \in Drivers
  BY DEF Dependable, InstallFails, PartlyInstalled, Fail, TypeOK
<1>2. PICK E \in SUBSET Nets :
        /\ kernel[n][drv[n]] \cap desired[n] \subseteq E
        /\ kernel' = [kernel EXCEPT ![n][drv[n]] = E]
  BY DEF InstallFails, PartlyInstalled
<1>3. /\ kernel'[n][drv[n]] = E
      /\ \A d \in Drivers : d # drv[n] => kernel'[n][d] = kernel[n][d]
  BY <1>1, <1>2 DEF TypeOK
<1>4. ASSUME appliedKnown[n], NEW d \in Drivers
      PROVE  applied[n] \subseteq kernel'[n][d]
  <2>1. applied[n] \subseteq desired[n]
    BY <1>1, <1>4 DEF Installed, OnlyGrows
  <2>2. applied[n] \subseteq kernel[n][d]
    BY <1>1, <1>4, <2>1 DEF Installed, DriversInstalled
  <2> QED BY <1>2, <1>3, <2>1, <2>2
<1> QED
  BY <1>1, <1>4 DEF Installed, DriversInstalled, OnlyGrows, PastApply, memory,
                    call

\* Every driver has succeeded.
LEMMA AppliedStep ==
    ASSUME TypeOK, NEW n \in Nodes, Installed(n), Applied(n)
    PROVE  Installed(n)'
<1>1. /\ pc[n] = "apply" /\ pc'[n] \in {"report", "return"}
      /\ drv[n] = NumDrivers + 1
      /\ applied'[n] = desired[n] /\ UNCHANGED <<desired, kernel>>
  BY DEF Applied, AfterApply, TypeOK
<1>2. Covers(n, desired[n])
  BY <1>1, DriversAssumption DEF Installed, DriversInstalled, Covers, Drivers
<1> QED
  BY <1>1, <1>2 DEF Installed, DriversInstalled, OnlyGrows, PastApply, Covers

\* Each action of a dependable node keeps what it has installed in step.
LEMMA InstalledStep ==
    ASSUME InstalledInv, NEW n \in Nodes, Dependable(n), NodeStep(n)
    PROVE  Installed(n)'
<1>a. TypeOK /\ Installed(n)
  BY DEF InstalledInv
<1>b. n \in Controllers <=> n \notin Agents
  BY NodesAssumption
<1>1. CASE Boot(n)
  <2>1. /\ pc[n] = "down" /\ pc'[n] = "decide"
        /\ UNCHANGED <<applied, appliedKnown, kernel>>
    BY <1>1, <1>a DEF Boot, TypeOK
  <2> QED
    BY <2>1, <1>a DEF Installed, DriversInstalled, OnlyGrows, PastApply
<1>2. CASE Tick(n)
  <2>1. /\ pc[n] = "idle" /\ UNCHANGED <<memory, kernel>>
        /\ pc'[n] = IF n \in Controllers THEN "decide" ELSE "fetch"
    BY <1>2, <1>a DEF Tick, TypeOK
  <2> QED BY <2>1, <1>a, InstalledCalm DEF memory
<1>3. ASSUME NEW S \in SUBSET Hosts, Learn(n, S) \/ Accept(n, S)
      PROVE  Installed(n)'
  <2>1. /\ pc[n] = "idle" /\ UNCHANGED <<memory, kernel>>
        /\ op'[n] \in {"learn", "accept"}
        /\ pc'[n] \in {"return", "saveLearned", "saveState"}
        /\ pc'[n] = "return" => ~ok'[n]
    BY <1>3, <1>a DEF Learn, Accept, TypeOK
  <2> QED BY <2>1, <1>a, InstalledCalm DEF memory
<1>4. ASSUME NEW S \in SUBSET Nets, FetchOk(n, S) PROVE Installed(n)'
  <2>1. /\ pc[n] = "fetch" /\ UNCHANGED <<memory, kernel>>
        /\ pc'[n] \in {"return", "saveState"}
        /\ pc'[n] = "return" => ~ok'[n]
    BY <1>4, <1>a DEF FetchOk, Fail, TypeOK
  <2>2. n \notin Controllers
    BY <2>1, <1>a DEF Installed, OnlyGrows
  <2> QED BY <2>1, <2>2, <1>a, InstalledCalm DEF memory
<1>5. CASE FetchFail(n)
  <2>1. pc[n] = "fetch" /\ pc'[n] = "decide" /\ UNCHANGED <<memory, kernel>>
    BY <1>5, <1>a DEF FetchFail, TypeOK
  <2> QED BY <2>1, <1>a, InstalledCalm DEF memory
<1>6. CASE SaveLearned(n)
  <2>1. /\ pc[n] = "saveLearned" /\ pc'[n] = "saveState"
        /\ UNCHANGED <<memory, kernel, call>>
    BY <1>6, <1>a DEF SaveLearned, TypeOK
  <2> QED BY <2>1, <1>a DEF memory, call, Installed, DriversInstalled, OnlyGrows, PastApply
<1>7. CASE SaveState(n)
  <2>1. /\ pc[n] = "saveState" /\ pc'[n] = "decide"
        /\ desired'[n] = NextDesired(n)
        /\ UNCHANGED <<applied, appliedKnown, kernel, call>>
    BY <1>7, <1>a DEF SaveState, TypeOK
  <2>2. n \in Controllers => desired[n] \subseteq desired'[n]
    BY <2>1, <1>a DEF Installed, OnlyGrows, NextDesired
  <2> QED
    BY <2>1, <2>2, <1>a
       DEF Installed, DriversInstalled, OnlyGrows, PastApply
<1>8. CASE SaveFails(n)
  <2>1. /\ pc[n] \in {"saveLearned", "saveState"} /\ pc'[n] = "return"
        /\ ~ok'[n] /\ UNCHANGED <<memory, kernel>>
    BY <1>8, <1>a DEF SaveFails, Fail, TypeOK
  <2> QED BY <2>1, <1>a, InstalledCalm DEF memory
<1>9. CASE Reconcile(n)
  <2>1. /\ pc[n] = "decide" /\ UNCHANGED <<memory, kernel>>
        /\ drv'[n] = 1
        /\ pc'[n] \in {"apply", "report", "return"}
        /\ pc'[n] # "apply" => ~Changed(n)
    BY <1>9, <1>a DEF Reconcile, AfterApply, TypeOK
  <2>2. \A d \in Drivers : ~(d < 1)
    BY DriversAssumption DEF Drivers
  <2>3. pc'[n] # "apply" => Covers(n, desired[n])
    BY <2>1, <1>a, SkippedIsInstalled
  <2> QED
    BY <2>1, <2>2, <2>3, <1>a
       DEF memory, Covers, Installed, DriversInstalled, OnlyGrows, PastApply
<1>10. CASE Install(n)
  BY <1>10, <1>a, InstallStep
<1>11. CASE InstallFails(n)
  BY <1>11, <1>a, InstallFailsStep
<1>12. CASE Applied(n)
  BY <1>12, <1>a, AppliedStep
<1>13. CASE ReportOk(n)
  <2>1. /\ pc[n] = "report" /\ pc'[n] = "return"
        /\ UNCHANGED <<desired, applied, appliedKnown, kernel>>
    BY <1>13, <1>a DEF ReportOk, TypeOK
  <2> QED
    BY <2>1, <1>a
       DEF Covers, Installed, DriversInstalled, OnlyGrows, PastApply
<1>14. CASE ReportFail(n)
  <2>1. /\ pc[n] = "report" /\ pc'[n] = "return" /\ ~ok'[n]
        /\ UNCHANGED <<memory, kernel>>
    BY <1>14, <1>a DEF ReportFail, Fail, TypeOK
  <2> QED BY <2>1, <1>a, InstalledCalm DEF memory
<1>15. CASE Return(n)
  <2>1. pc[n] = "return" /\ pc'[n] = "idle" /\ UNCHANGED <<memory, kernel>>
    BY <1>15, <1>a DEF Return, Answer, TypeOK
  <2> QED BY <2>1, <1>a, InstalledCalm DEF memory
<1>16. CASE TimePasses(n)
  <2>1. UNCHANGED <<desired, applied, appliedKnown, kernel, pc, call, drv, ok>>
    BY <1>16 DEF TimePasses
  <2> QED
    BY <2>1, <1>a
       DEF call, Covers, Installed, DriversInstalled, OnlyGrows, PastApply
<1>17. CASE Crash(n)
  <2>1. pc'[n] = "down" /\ ~appliedKnown'[n]
    BY <1>17, <1>a DEF Crash, TypeOK
  <2> QED
    BY <2>1 DEF Installed, DriversInstalled, OnlyGrows, PastApply
<1>18. CASE Drift(n)
  BY <1>18 DEF Drift, Dependable
<1>19. CASE Work(n)
  BY <1>19, <1>6, <1>7, <1>8, <1>9, <1>10, <1>11, <1>12 DEF Work
<1> QED
  BY <1>1, <1>2, <1>3, <1>4, <1>5, <1>13, <1>14, <1>15, <1>16, <1>17, <1>18,
     <1>19 DEF NodeStep, Fetched, Request

\* On every dependable node, policy, memory and progress stay in step.
THEOREM InstalledCorrect == Spec => []InstalledInv
<1>1. Init => InstalledInv
  <2> SUFFICES ASSUME Init PROVE InstalledInv
    OBVIOUS
  <2>1. TypeOK
    BY DriversAssumption DEF Init, TypeOK, Ops, Pcs, Drivers
  <2> QED
    BY <2>1, NodesAssumption
       DEF Init, InstalledInv, Installed, DriversInstalled, OnlyGrows, PastApply
<1>2. InstalledInv /\ [Next]_vars => InstalledInv'
  <2> SUFFICES ASSUME InstalledInv, [Next]_vars PROVE InstalledInv'
    OBVIOUS
  <2>1. TypeOK'
    BY TypeStep DEF InstalledInv
  <2>2. CASE UNCHANGED vars
    BY <2>1, <2>2
       DEF vars, memory, disk, call, InstalledInv, Installed, DriversInstalled,
           OnlyGrows, PastApply, Covers
  <2>3. ASSUME NEW m \in Nodes, NodeStep(m), NEW n \in Nodes, Dependable(n)
        PROVE  Installed(n)'
    <3>1. CASE n = m
      BY <2>3, <3>1, InstalledStep
    <3>2. CASE n # m
      BY <2>3, <3>2, OtherNodes
         DEF InstalledInv, Installed, DriversInstalled, OnlyGrows, PastApply,
             Covers
    <3> QED BY <3>1, <3>2
  <2> QED BY <2>1, <2>2, <2>3 DEF Next, InstalledInv, Dependable
<1> QED BY <1>1, <1>2, PTL DEF Spec

-----------------------------------------------------------------------------
(* What follows for the answers and for the drivers that are skipped.       *)

\* No policy is lost behind the daemon's back, and no agent's driver fails.
ApplyAssumption == \A n \in Nodes : Dependable(n)

\* A learn that has not failed reports what it has learned unless that is what
\* was reported last.
ReportedByLearn(n) ==
    (n \in Agents /\ At(n, "return") /\ op[n] = "learn" /\ ok[n]) =>
        learned[n] = lastReported[n]

ReportedInv == TypeOK /\ \A n \in Nodes : ReportedByLearn(n)

\* Each action of a node keeps it so: only the two that end reconcileLocked
\* without an error, and a report that was accepted, arrive there.
LEMMA ReportedStep ==
    ASSUME ReportedInv, NEW n \in Nodes, NodeStep(n)
    PROVE  ReportedByLearn(n)'
<1>a. TypeOK /\ ReportedByLearn(n)
  BY DEF ReportedInv
<1>1. CASE Reconcile(n)
  <2>1. /\ pc'[n] \in {"apply", AfterApply(n)}
        /\ UNCHANGED <<learned, lastReported>>
    BY <1>1, <1>a DEF Reconcile, TypeOK, memory
  <2> QED BY <2>1 DEF ReportedByLearn, AfterApply
<1>2. CASE Applied(n)
  <2>1. pc'[n] = AfterApply(n) /\ UNCHANGED <<learned, lastReported>>
    BY <1>2, <1>a DEF Applied, TypeOK
  <2> QED BY <2>1 DEF ReportedByLearn, AfterApply
<1>3. CASE ReportOk(n)
  BY <1>3, <1>a DEF ReportOk, ReportedByLearn, TypeOK
<1>4. CASE TimePasses(n) \/ Drift(n)
  <2>1. UNCHANGED <<learned, lastReported, pc, call, ok>>
    BY <1>4 DEF TimePasses, Drift, memory
  <2> QED BY <2>1, <1>a DEF ReportedByLearn, call
<1>5. CASE SaveFails(n) \/ InstallFails(n) \/ ReportFail(n)
  <2>1. ~ok'[n]
    BY <1>5, <1>a DEF SaveFails, InstallFails, ReportFail, Fail, TypeOK
  <2> QED BY <2>1 DEF ReportedByLearn
<1>6. CASE Request(n) \/ Fetched(n)
  <2>1. pc'[n] = "return" => ~ok'[n]
    <3>1. ASSUME NEW S, Learn(n, S) \/ Accept(n, S)
          PROVE  pc'[n] = "return" => ~ok'[n]
      BY <3>1, <1>a DEF Learn, Accept, TypeOK
    <3>2. ASSUME NEW S, FetchOk(n, S) PROVE pc'[n] = "return" => ~ok'[n]
      BY <3>2, <1>a DEF FetchOk, Fail, TypeOK
    <3> QED BY <1>6, <3>1, <3>2 DEF Request, Fetched
  <2> QED BY <2>1 DEF ReportedByLearn
<1>7. CASE \/ Boot(n) \/ Tick(n) \/ FetchFail(n) \/ SaveLearned(n)
           \/ SaveState(n) \/ Install(n) \/ Return(n) \/ Crash(n)
  <2>1. pc'[n] # "return"
    BY <1>7, <1>a DEF Boot, Tick, FetchFail, SaveLearned, SaveState, Install,
                      Return, Crash, TypeOK
  <2> QED BY <2>1 DEF ReportedByLearn
<1> QED
  BY <1>1, <1>2, <1>3, <1>4, <1>5, <1>6, <1>7 DEF NodeStep, Work

\* So it is in every reachable state.
THEOREM ReportedCorrect == Spec => []ReportedInv
<1>1. Init => ReportedInv
  <2> SUFFICES ASSUME Init PROVE ReportedInv
    OBVIOUS
  <2>1. TypeOK
    BY DriversAssumption DEF Init, TypeOK, Ops, Pcs, Drivers
  <2> QED BY <2>1 DEF Init, ReportedInv, ReportedByLearn
<1>2. ReportedInv /\ [Next]_vars => ReportedInv'
  <2> SUFFICES ASSUME ReportedInv, [Next]_vars PROVE ReportedInv'
    OBVIOUS
  <2>1. TypeOK'
    BY TypeStep DEF ReportedInv
  <2>2. CASE UNCHANGED vars
    BY <2>1, <2>2 DEF vars, memory, call, ReportedInv, ReportedByLearn
  <2>3. ASSUME NEW m \in Nodes, NodeStep(m), NEW n \in Nodes
        PROVE  ReportedByLearn(n)'
    <3>1. CASE n = m
      BY <2>3, <3>1, ReportedStep
    <3>2. CASE n # m
      BY <2>3, <3>2, OtherNodes DEF ReportedInv, ReportedByLearn
    <3> QED BY <3>1, <3>2
  <2> QED BY <2>1, <2>2, <2>3 DEF Next, ReportedInv
<1> QED BY <1>1, <1>2, PTL DEF Spec

\* The hosts of a learn that is about to succeed are covered by every driver
\* of its node and, on an agent, known to the controller.
LEMMA SuccessfulLearn ==
    ASSUME InstalledInv, SavedInv, ReportedInv, NEW n \in Nodes, Dependable(n),
           At(n, "return"), op[n] = "learn", ok[n]
    PROVE  /\ Covers(n, arg[n])
           /\ n \in Agents => arg[n] \subseteq lastReported[n]
<1>1. arg[n] \subseteq learned[n] /\ learned[n] \subseteq desired[n]
  BY DEF SavedInv, Saved, LearnIsSaved, WantedIsSaved
<1>2. Covers(n, desired[n])
  BY DEF InstalledInv, Installed, PastApply
<1> QED BY <1>1, <1>2 DEF Covers, ReportedInv, ReportedByLearn

\* No answer is let out before its hosts are routed and reported.
THEOREM AnswerAcknowledgedHolds ==
    ASSUME ApplyAssumption
    PROVE  Spec => []AnswerAcknowledged
<1>1. InstalledInv /\ SavedInv /\ ReportedInv => AnswerAcknowledged
  BY SuccessfulLearn DEF ApplyAssumption, AnswerAcknowledged
<1> QED
  BY <1>1, InstalledCorrect, SavedCorrect, ReportedCorrect, PTL

\* The drivers are skipped only when they hold what is wanted: a failed apply
\* is retried by the next operation that gets that far.
THEOREM FailedApplyRetriedHolds ==
    ASSUME ApplyAssumption
    PROVE  Spec => FailedApplyRetried
<1>1. ASSUME InstalledInv, [Next]_vars, NEW n \in Nodes,
             At(n, "decide"), pc'[n] \in {"report", "return"}
      PROVE  Covers(n, desired[n])
  <2>a. TypeOK /\ Installed(n)
    BY <1>1 DEF InstalledInv, ApplyAssumption
  <2>1. NodeStep(n)
    <3>1. ~UNCHANGED vars
      BY <1>1 DEF vars
    <3>2. PICK m \in Nodes : NodeStep(m)
      BY <3>1, <1>1 DEF Next
    <3>3. m = n
      BY <3>2, <1>1, <2>a, OtherNodes
    <3> QED BY <3>2, <3>3
  <2>2. Reconcile(n)
    BY <2>1, <1>1, <2>a
       DEF NodeStep, Boot, Tick, Request, Learn, Accept, Fetched, FetchOk,
           FetchFail, Work, SaveLearned, SaveState, SaveFails, Install,
           InstallFails, PartlyInstalled, Applied, ReportOk, ReportFail,
           Return, TimePasses, Crash, Drift, TypeOK
  <2>3. ~Changed(n)
    BY <2>2, <1>1, <2>a DEF Reconcile, TypeOK
  <2> QED BY <2>3, <2>a, <1>1, SkippedIsInstalled
<1>2. InstalledInv /\ [Next]_vars =>
        [\A n \in Nodes :
           (At(n, "decide") /\ pc'[n] \in {"report", "return"}) =>
               Covers(n, desired[n])]_vars
  BY <1>1
<1> QED BY <1>2, InstalledCorrect, PTL DEF Spec, FailedApplyRetried
=============================================================================
