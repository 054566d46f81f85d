--------------------------- MODULE RuntimeProofs ---------------------------
(* Theorems about Runtime, for any nodes, networks, limits and faults.      *)
EXTENDS Runtime, FiniteSetTheorems, TLAPS

USE DEF At, Goto, IsUp, Agents

\* What newRuntime reads back is a set of networks.
LEMMA RecoveredType ==
    ASSUME TypeOK, NEW n \in Nodes
    PROVE  /\ Recovered(n) \subseteq Nets
           /\ FileOf(Recovered(n)) \subseteq Nets \cup {Blank}
    BY NetsAssumption, SeedsAssumption DEF TypeOK, Recovered, FileOf

\* The sets that sync and learn go on with have the types of the variables.
LEMMA NextType ==
    ASSUME TypeOK, NEW n \in Nodes
    PROVE  /\ NextLearned(n) \subseteq Hosts
           /\ NextDesired(n) \subseteq Nets
    BY NetsAssumption, SeedsAssumption DEF TypeOK, NextLearned, NextDesired

\* A driver that stops half-way keeps the kernel's type.
LEMMA PartlyInstalledType ==
    ASSUME TypeOK, NEW n \in Nodes, PartlyInstalled(n)
    PROVE  kernel' \in [Nodes -> [Drivers -> SUBSET Nets]]
<1>1. PICK E \in SUBSET Nets : kernel' = [kernel EXCEPT ![n][drv[n]] = E]
  BY DEF PartlyInstalled
<1>2. drv[n] \in Drivers
  BY DEF PartlyInstalled
<1> QED BY <1>1, <1>2 DEF TypeOK

\* TypeOK is inductive: every action keeps every variable in its type.
LEMMA TypeStep ==
    ASSUME TypeOK, [Next]_vars
    PROVE  TypeOK'
<1> USE NetsAssumption, SeedsAssumption, DriversAssumption, NodesAssumption
<1>1. CASE UNCHANGED vars
  BY <1>1 DEF vars, memory, disk, call, TypeOK
<1>2. ASSUME NEW n \in Nodes, NodeStep(n) PROVE TypeOK'
  <2>1. CASE Boot(n)
    BY <2>1, RecoveredType DEF TypeOK, Boot, Begin, Ops, Pcs, disk
  <2>2. CASE Tick(n)
    BY <2>2 DEF TypeOK, Tick, Begin, Ops, Pcs, memory, disk
  <2>3. ASSUME NEW S \in SUBSET Hosts, Learn(n, S) PROVE TypeOK'
    BY <2>3 DEF TypeOK, Learn, Ops, Pcs, memory, disk
  <2>4. ASSUME NEW S \in SUBSET Hosts, Accept(n, S) PROVE TypeOK'
    BY <2>4 DEF TypeOK, Accept, Ops, Pcs, memory, disk
  <2>5. ASSUME NEW S \in SUBSET Nets, FetchOk(n, S) PROVE TypeOK'
    BY <2>5 DEF TypeOK, FetchOk, Fail, Ops, Pcs, memory, disk
  <2>6. CASE FetchFail(n)
    BY <2>6 DEF TypeOK, FetchFail, Pcs, memory, disk, call
  <2>7. CASE SaveLearned(n)
    BY <2>7, NextType DEF TypeOK, SaveLearned, Pcs, memory, call
  <2>8. CASE SaveState(n)
    BY <2>8, NextType DEF TypeOK, SaveState, FileOf, Pcs, call
  <2>9. CASE SaveFails(n)
    BY <2>9 DEF TypeOK, SaveFails, Fail, Pcs, memory, disk, call
  <2>10. CASE Reconcile(n)
    BY <2>10 DEF TypeOK, Reconcile, AfterApply, Pcs, memory, disk, call
  <2>11. CASE Install(n)
    BY <2>11 DEF TypeOK, Install, Drivers, memory, disk, call
  <2>12. CASE InstallFails(n)
    BY <2>12, PartlyInstalledType DEF TypeOK, InstallFails, Fail, Pcs, memory,
                                      disk, call
  <2>13. CASE Applied(n)
    BY <2>13 DEF TypeOK, Applied, AfterApply, Pcs, disk, call
  <2>14. CASE ReportOk(n)
    BY <2>14 DEF TypeOK, ReportOk, Pcs, disk, call
  <2>15. CASE ReportFail(n)
    BY <2>15 DEF TypeOK, ReportFail, Fail, Pcs, memory, disk, call
  <2>16. CASE Return(n)
    BY <2>16 DEF TypeOK, Return, Answer, Ops, Pcs, memory, disk
  <2>17. CASE TimePasses(n)
    BY <2>17 DEF TypeOK, TimePasses, disk, call
  <2>18. CASE Crash(n)
    <3>1. kernel' \in [Nodes -> [Drivers -> SUBSET Nets]]
      BY <2>18, PartlyInstalledType DEF TypeOK, Crash
    <3>2. /\ pc' \in [Nodes -> Pcs]
          /\ op' = [op EXCEPT ![n] = "tick"]
          /\ arg' = [arg EXCEPT ![n] = {}]
          /\ drv' \in [Nodes -> 1..NumDrivers + 1]
          /\ pc' = [pc EXCEPT ![n] = "down"]
      BY <2>18 DEF TypeOK, Crash, Pcs
    <3>3. /\ desired' \in [Nodes -> SUBSET Nets]
          /\ learned' \in [Nodes -> SUBSET Hosts]
          /\ applied' \in [Nodes -> SUBSET Nets]
          /\ appliedKnown' \in [Nodes -> BOOLEAN]
          /\ due' \in [Nodes -> BOOLEAN]
          /\ lastReported' \in [Nodes -> SUBSET Hosts]
          /\ ok' \in [Nodes -> BOOLEAN]
          /\ UNCHANGED <<stateFile, learnedFile, answered>>
      BY <2>18 DEF TypeOK, Crash, disk
    <3> QED
      BY <3>1, <3>2, <3>3 DEF TypeOK, Ops
  <2>19. CASE Drift(n)
    BY <2>19 DEF TypeOK, Drift, memory, disk, call
  <2>20. CASE Work(n)
    BY <2>20, <2>7, <2>8, <2>9, <2>10, <2>11, <2>12, <2>13 DEF Work
  <2>21. CASE Fetched(n)
    BY <2>21, <2>5 DEF Fetched
  <2>22. CASE Request(n)
    BY <2>22, <2>3, <2>4 DEF Request
  <2> QED
    BY <1>2, <2>1, <2>2, <2>6, <2>14, <2>15, <2>16, <2>17, <2>18, <2>19, <2>20,
       <2>21, <2>22 DEF NodeStep
<1> QED BY <1>1, <1>2 DEF Next

\* Every reachable state is type-correct.
THEOREM TypeCorrect == Spec => []TypeOK
<1>1. Init => TypeOK
  BY DriversAssumption DEF Init, TypeOK, Ops, Pcs, Drivers
<1>2. TypeOK /\ [Next]_vars => TypeOK'
  BY TypeStep
<1> QED BY <1>1, <1>2, PTL DEF Spec

-----------------------------------------------------------------------------
(* What the daemon works with is always in its files.                       *)

\* CrashForgetsNothing is not inductive: after a failed write of the state
\* file the learned file holds a host that memory does not, and the next
\* learn overwrites it.  What is wanted must therefore not lean on the
\* learned file but on what memory holds of it.
WantedIsSaved(n) ==
    IsUp(n) => /\ desired[n] \subseteq stateFile[n] \cup learned[n] \cup Seeds[n]
               /\ learned[n] \subseteq learnedFile[n] \cap desired[n]

\* The hosts of the answer a learn is about to let out, step by step.
LearnIsSaved(n) ==
    op[n] = "learn" =>
        /\ At(n, "saveState") => arg[n] \subseteq learnedFile[n]
        /\ (ok[n] /\ pc[n] \in {"decide", "apply", "report", "return"}) =>
              arg[n] \subseteq learned[n]

HistoryIsSaved(n) ==
    /\ answered[n] \subseteq learnedFile[n]
    /\ IsUp(n) => answered[n] \subseteq learned[n]
    /\ lastReported[n] \subseteq learnedFile[n]
    /\ IsUp(n) => lastReported[n] \subseteq learned[n]

Saved(n) == WantedIsSaved(n) /\ LearnIsSaved(n) /\ HistoryIsSaved(n)

SavedInv == TypeOK /\ \A n \in Nodes : Saved(n)

\* A step of one node leaves the others alone.
LEMMA OtherNodes ==
    ASSUME TypeOK, NEW m \in Nodes, NodeStep(m), NEW n \in Nodes, n # m
    PROVE  /\ desired'[n] = desired[n] /\ learned'[n] = learned[n]
           /\ applied'[n] = applied[n] /\ appliedKnown'[n] = appliedKnown[n]
           /\ lastReported'[n] = lastReported[n]
           /\ stateFile'[n] = stateFile[n] /\ learnedFile'[n] = learnedFile[n]
           /\ kernel'[n] = kernel[n] /\ pc'[n] = pc[n] /\ op'[n] = op[n]
           /\ arg'[n] = arg[n] /\ drv'[n] = drv[n] /\ ok'[n] = ok[n]
           /\ answered'[n] = answered[n]
<1> USE DEF TypeOK, memory, disk, call, Begin, Fail
<1>1. CASE Boot(m)
  BY <1>1 DEF Boot
<1>2. CASE Tick(m)
  BY <1>2 DEF Tick
<1>3. CASE Request(m)
  BY <1>3 DEF Request, Learn, Accept
<1>4. CASE Fetched(m)
  BY <1>4 DEF Fetched, FetchOk
<1>5. CASE FetchFail(m)
  BY <1>5 DEF FetchFail
<1>6. CASE SaveLearned(m) \/ SaveState(m) \/ SaveFails(m)
  BY <1>6 DEF SaveLearned, SaveState, SaveFails
<1>7. CASE Reconcile(m) \/ Install(m) \/ InstallFails(m) \/ Applied(m)
  BY <1>7 DEF Reconcile, Install, InstallFails, PartlyInstalled, Applied
<1>8. CASE Return(m)
  BY <1>8 DEF Return, Answer
<1>9. CASE ReportOk(m) \/ ReportFail(m)
  BY <1>9 DEF ReportOk, ReportFail
<1>10. CASE TimePasses(m)
  BY <1>10 DEF TimePasses
<1>11. CASE Crash(m)
  BY <1>11 DEF Crash, PartlyInstalled
<1>12. CASE Drift(m)
  BY <1>12 DEF Drift
<1> QED
  BY <1>1, <1>2, <1>3, <1>4, <1>5, <1>6, <1>7, <1>8, <1>9, <1>10, <1>11,
     <1>12 DEF NodeStep, Work

\* Each action of a node keeps its part of the invariant.
LEMMA SavedStep ==
    ASSUME SavedInv, NEW n \in Nodes, NodeStep(n)
    PROVE  Saved(n)'
<1> USE NetsAssumption, SeedsAssumption
        DEF SavedInv, TypeOK, Saved, WantedIsSaved, LearnIsSaved, HistoryIsSaved
<1>1. CASE Boot(n)
  BY <1>1 DEF Boot, Begin, Recovered, Bootable, disk
<1>2. CASE Tick(n)
  BY <1>2 DEF Tick, Begin, memory, disk
<1>3. ASSUME NEW S \in SUBSET Hosts, Learn(n, S) PROVE Saved(n)'
  BY <1>3 DEF Learn, memory, disk
<1>4. ASSUME NEW S \in SUBSET Hosts, Accept(n, S) PROVE Saved(n)'
  BY <1>4 DEF Accept, memory, disk
<1>5. ASSUME NEW S \in SUBSET Nets, FetchOk(n, S) PROVE Saved(n)'
  BY <1>5 DEF FetchOk, Fail, memory, disk
<1>6. CASE FetchFail(n)
  BY <1>6 DEF FetchFail, memory, disk, call
<1>7. CASE SaveLearned(n)
  BY <1>7 DEF SaveLearned, NextLearned, memory, call
<1>8. CASE SaveState(n)
  BY <1>8 DEF SaveState, NextLearned, NextDesired, FileOf, call
<1>9. CASE SaveFails(n)
  BY <1>9 DEF SaveFails, Fail, memory, disk, call
<1>10. CASE Reconcile(n)
  BY <1>10 DEF Reconcile, AfterApply, memory, disk, call
<1>11. CASE Install(n)
  BY <1>11 DEF Install, memory, disk, call
<1>12. CASE InstallFails(n)
  <2>1. At(n, "apply")
    BY <1>12 DEF InstallFails, PartlyInstalled
  <2> QED
    BY <1>12, <2>1 DEF InstallFails, Fail, memory, disk, call
<1>13. CASE Applied(n)
  BY <1>13 DEF Applied, AfterApply, disk, call
<1>14. CASE ReportOk(n)
  BY <1>14 DEF ReportOk, disk, call
<1>15. CASE ReportFail(n)
  BY <1>15 DEF ReportFail, Fail, memory, disk, call
<1>16. CASE Return(n)
  BY <1>16 DEF Return, Answer, memory, disk
<1>17. CASE TimePasses(n)
  BY <1>17 DEF TimePasses, disk, call
<1>18. CASE Crash(n)
  BY <1>18 DEF Crash, disk
<1>19. CASE Drift(n)
  BY <1>19 DEF Drift, memory, disk, call
<1>20. CASE Work(n)
  BY <1>20, <1>7, <1>8, <1>9, <1>10, <1>11, <1>12, <1>13 DEF Work
<1>21. CASE Fetched(n)
  BY <1>21, <1>5 DEF Fetched
<1>22. CASE Request(n)
  BY <1>22, <1>3, <1>4 DEF Request
<1> QED
  BY <1>1, <1>2, <1>6, <1>14, <1>15, <1>16, <1>17, <1>18, <1>19, <1>20, <1>21,
     <1>22 DEF NodeStep

\* It holds at the start.
LEMMA SavedInit ==
    ASSUME Init
    PROVE  SavedInv
<1>1. TypeOK
  BY DriversAssumption DEF Init, TypeOK, Ops, Pcs, Drivers
<1> QED
  BY <1>1 DEF Init, SavedInv, Saved, WantedIsSaved, LearnIsSaved, HistoryIsSaved

\* So does every step of any node.
LEMMA SavedNext ==
    ASSUME SavedInv, [Next]_vars
    PROVE  SavedInv'
<1>1. TypeOK'
  BY TypeStep DEF SavedInv
<1>2. CASE UNCHANGED vars
  BY <1>1, <1>2 DEF vars, memory, disk, call, SavedInv, Saved,
                    WantedIsSaved, LearnIsSaved, HistoryIsSaved
<1>3. ASSUME NEW m \in Nodes, NodeStep(m), NEW n \in Nodes PROVE Saved(n)'
  <2>1. CASE n = m
    BY <1>3, <2>1, SavedStep
  <2>2. CASE n # m
    BY <1>3, <2>2, OtherNodes
       DEF SavedInv, Saved, WantedIsSaved, LearnIsSaved, HistoryIsSaved
  <2> QED BY <2>1, <2>2
<1> QED BY <1>1, <1>2, <1>3 DEF Next, SavedInv

\* The three safety invariants that follow: nothing wanted, given to a client
\* or reported is ever outside the files, through crashes and failed writes.
THEOREM SavedCorrect == Spec => []SavedInv
<1>1. Init => SavedInv
  BY SavedInit
<1>2. SavedInv /\ [Next]_vars => SavedInv'
  BY SavedNext
<1> QED BY <1>1, <1>2, PTL DEF Spec

\* A crash at any moment forgets nothing the daemon works with, for every
\* node, limit and combination of faults.
THEOREM CrashForgetsNothingHolds == Spec => []CrashForgetsNothing
<1>1. SavedInv => CrashForgetsNothing
  BY NetsAssumption
     DEF SavedInv, Saved, WantedIsSaved, TypeOK, CrashForgetsNothing, Recovered
<1> QED BY <1>1, SavedCorrect, PTL

\* A host given to a client stays in the learned file and wanted for ever.
THEOREM AnswersKeptHolds == Spec => []AnswersKept
<1>1. SavedInv => AnswersKept
  BY DEF SavedInv, Saved, WantedIsSaved, HistoryIsSaved, AnswersKept
<1> QED BY <1>1, SavedCorrect, PTL

\* What an agent counts as reported is always in its learned file.
THEOREM ReportedIsDurableHolds == Spec => []ReportedIsDurable
<1>1. SavedInv => ReportedIsDurable
  BY DEF SavedInv, Saved, HistoryIsSaved, ReportedIsDurable
<1> QED BY <1>1, SavedCorrect, PTL

-----------------------------------------------------------------------------
(* A daemon whose disk works can always be started again.                   *)

\* Under what: the disk never fails, and an agent has a seed, so that the set
\* it is told to keep is never empty (the run emptied_state shows what happens
\* otherwise; after a failed write the files may no longer fit together).
RestartAssumption ==
    \A n \in Nodes : /\ "disk" \notin Faults[n]
                     /\ n \in Controllers \/ Seeds[n] # {}

\* All that the files hold: what memory wants, or is about to want once the
\* learned file of a learn is written and its state file is not yet.
Bound(n) ==
    IF At(n, "saveState") /\ op[n] = "learn" THEN NextDesired(n) ELSE desired[n]

FilesFit(n) ==
    IsUp(n) =>
        /\ stateFile[n] \cup learnedFile[n] \cup Seeds[n] \subseteq Bound(n)
        /\ WithinLimit(n, Bound(n))
        /\ pc[n] \in {"saveLearned", "saveState"} => WithinLimit(n, NextDesired(n))
        /\ At(n, "saveLearned") => op[n] = "learn"
        /\ learnedFile[n] \subseteq
              IF At(n, "saveState") THEN NextLearned(n) ELSE learned[n]

\* Only an agent's sync replaces the wanted set.
OnlyAgentsReplace(n) ==
    (At(n, "fetch") \/ (At(n, "saveState") /\ op[n] \notin {"learn", "accept"})) =>
        n \in Agents

RestartSafe(n) ==
    /\ FilesFit(n)
    /\ OnlyAgentsReplace(n)
    /\ ~IsUp(n) => Bootable(n)

RestartInv == SavedInv /\ \A n \in Nodes : RestartSafe(n)

\* Files that hold nothing beyond a set within the limit can be read back.
LEMMA FitIsBootable ==
    ASSUME TypeOK, NEW n \in Nodes, NEW D \in SUBSET Nets, WithinLimit(n, D),
           stateFile[n] \cup learnedFile[n] \cup Seeds[n] \subseteq D
    PROVE  Bootable(n)
<1>1. \A S \in SUBSET D : WithinLimit(n, S)
  <2> TAKE S \in SUBSET D
  <2>1. IsFiniteSet(D)
    BY NetsAssumption, FS_Subset
  <2>2. /\ IsFiniteSet(S)
        /\ Cardinality(S) \in Nat
        /\ Cardinality(D) \in Nat
        /\ Cardinality(S) =< Cardinality(D)
    BY <2>1, FS_Subset, FS_CardinalityType
  <2> QED BY <2>2, LimitAssumption DEF WithinLimit
<1>2. Blank \notin D
  BY NetsAssumption
<1>3. Recovered(n) \in SUBSET D
  BY DEF Recovered
<1> QED BY <1>1, <1>2, <1>3 DEF Bootable

\* The invariant implies that the next start succeeds, up or down.
LEMMA FilesFitIsBootable ==
    ASSUME SavedInv, NEW n \in Nodes, RestartSafe(n)
    PROVE  Bootable(n)
<1>1. CASE IsUp(n)
  <2>1. Bound(n) \in SUBSET Nets
    BY NextType DEF Bound, SavedInv, TypeOK
  <2> QED BY <1>1, <2>1, FitIsBootable DEF RestartSafe, FilesFit, SavedInv
<1>2. CASE ~IsUp(n)
  BY <1>2 DEF RestartSafe
<1> QED BY <1>1, <1>2

\* Steps outside the two writes that leave files and wanted set alone.
LEMMA RestartCalm ==
    ASSUME NEW n \in Nodes, RestartSafe(n),
           pc[n] \notin {"down", "saveState"},
           pc'[n] \notin {"down", "saveLearned", "saveState"},
           pc'[n] = "fetch" => n \in Agents,
           desired'[n] = desired[n], learned'[n] = learned[n],
           stateFile'[n] = stateFile[n], learnedFile'[n] = learnedFile[n]
    PROVE  RestartSafe(n)'
    BY DEF RestartSafe, FilesFit, OnlyAgentsReplace, Bound, WithinLimit

\* Each action of a node keeps the files fit for a start.
LEMMA RestartStep ==
    ASSUME RestartAssumption, RestartInv, NEW n \in Nodes, NodeStep(n), TypeOK'
    PROVE  RestartSafe(n)'
<1>a. TypeOK /\ WantedIsSaved(n) /\ RestartSafe(n)
  BY DEF RestartInv, SavedInv, Saved
<1>b. Bootable(n)
  BY FilesFitIsBootable DEF RestartInv
<1> HIDE DEF RestartInv
<1> USE DEF RestartSafe, FilesFit, OnlyAgentsReplace, Bound
<1>1. CASE Boot(n)
  <2>1. /\ stateFile[n] \cup learnedFile[n] \cup Seeds[n] \subseteq Recovered(n)
        /\ WithinLimit(n, Recovered(n))
    BY <1>1 DEF Boot, Recovered, Bootable
  <2>2. /\ pc'[n] = "decide" /\ desired'[n] = Recovered(n)
        /\ learned'[n] = learnedFile[n] /\ UNCHANGED disk
    BY <1>1, <1>a DEF Boot, TypeOK
  <2> QED BY <2>1, <2>2 DEF WithinLimit, disk
<1>2. CASE Tick(n)
  <2>1. /\ pc[n] = "idle" /\ UNCHANGED <<memory, disk>>
        /\ pc'[n] = IF n \in Controllers THEN "decide" ELSE "fetch"
    BY <1>2, <1>a DEF Tick, TypeOK
  <2> QED BY <2>1, <1>a, RestartCalm DEF memory, disk
<1>3. ASSUME NEW S \in SUBSET Hosts, Learn(n, S) PROVE RestartSafe(n)'
  <2>1. /\ pc[n] = "idle" /\ UNCHANGED <<memory, disk>>
        /\ op'[n] = "learn" /\ arg'[n] = S
        /\ pc'[n] \in {"return", "saveLearned", "saveState"}
        /\ pc'[n] # "return" =>
             WithinLimit(n, desired[n] \cup (learned[n] \cup S) \cup Seeds[n])
    BY <1>3, <1>a DEF Learn, TypeOK
  <2>2. CASE pc'[n] = "return"
    BY <2>1, <2>2, <1>a, RestartCalm DEF memory, disk
  <2>3. CASE pc'[n] # "return"
    <3>1. /\ NextDesired(n)' = desired[n] \cup (learned[n] \cup S) \cup Seeds[n]
          /\ NextLearned(n)' = learned[n] \cup S
      BY <2>1 DEF NextDesired, NextLearned, memory
    <3>2. WithinLimit(n, NextDesired(n))' /\ WithinLimit(n, desired[n])'
      BY <3>1, <2>1, <2>3, <1>a DEF WithinLimit, memory
    <3>3. stateFile[n] \cup learnedFile[n] \cup Seeds[n] \subseteq desired[n]
      BY <2>1, <1>a
    <3> QED BY <2>1, <2>3, <3>1, <3>2, <3>3, <1>a DEF memory, disk
  <2> QED BY <2>2, <2>3
<1>4. ASSUME NEW S \in SUBSET Hosts, Accept(n, S) PROVE RestartSafe(n)'
  <2>1. /\ pc[n] = "idle" /\ UNCHANGED <<memory, disk>>
        /\ op'[n] = "accept" /\ arg'[n] = S
        /\ pc'[n] \in {"return", "saveState"}
        /\ pc'[n] # "return" => WithinLimit(n, desired[n] \cup S)
    BY <1>4, <1>a DEF Accept, TypeOK
  <2>2. CASE pc'[n] = "return"
    BY <2>1, <2>2, <1>a, RestartCalm DEF memory, disk
  <2>3. CASE pc'[n] = "saveState"
    BY <2>1, <2>3, <1>a DEF memory, disk, NextDesired, NextLearned, WithinLimit
  <2> QED BY <2>1, <2>2, <2>3
<1>5. ASSUME NEW S \in SUBSET Nets, FetchOk(n, S) PROVE RestartSafe(n)'
  <2>1. /\ pc[n] = "fetch" /\ UNCHANGED <<memory, disk, op>> /\ arg'[n] = S
        /\ pc'[n] \in {"return", "saveState"}
        /\ pc'[n] # "return" => WithinLimit(n, S \cup learned[n] \cup Seeds[n])
        /\ op[n] \notin {"learn", "accept"}
    BY <1>5, <1>a DEF FetchOk, Fail, TypeOK
  <2>2. CASE pc'[n] = "return"
    BY <2>1, <2>2, <1>a, RestartCalm DEF memory, disk
  <2>3. CASE pc'[n] = "saveState"
    BY <2>1, <2>3, <1>a DEF memory, disk, NextDesired, NextLearned, WithinLimit
  <2> QED BY <2>1, <2>2, <2>3
<1>6. CASE FetchFail(n)
  <2>1. pc[n] = "fetch" /\ pc'[n] = "decide" /\ UNCHANGED <<memory, disk>>
    BY <1>6, <1>a DEF FetchFail, TypeOK
  <2> QED BY <2>1, <1>a, RestartCalm DEF memory, disk
<1>7. CASE SaveLearned(n)
  <2>1. /\ pc[n] = "saveLearned" /\ pc'[n] = "saveState" /\ op[n] = "learn"
        /\ learnedFile'[n] = NextLearned(n)
        /\ UNCHANGED <<memory, stateFile, call>>
    BY <1>7, <1>a DEF SaveLearned, TypeOK
  <2> QED
    BY <2>1, <1>a DEF memory, call, NextDesired, NextLearned, WithinLimit
<1>8. CASE SaveState(n)
  <2>1. /\ pc[n] = "saveState" /\ pc'[n] = "decide"
        /\ desired'[n] = NextDesired(n) /\ learned'[n] = NextLearned(n)
        /\ learnedFile'[n] = learnedFile[n]
        /\ stateFile'[n] = IF NextDesired(n) = desired[n] THEN stateFile[n]
                           ELSE FileOf(NextDesired(n))
    BY <1>8, <1>a DEF SaveState, TypeOK
  <2>2. NextLearned(n) \cup Seeds[n] \subseteq NextDesired(n)
    BY <2>1, <1>a DEF NextLearned, NextDesired, WantedIsSaved
  <2>3. NextDesired(n) # desired[n] => NextDesired(n) # {}
    BY <2>1, <1>a, SeedsAssumption
       DEF NextDesired, RestartAssumption, TypeOK
  <2>4. stateFile'[n] \subseteq NextDesired(n)
    BY <2>1, <2>3, <1>a DEF FileOf
  <2> QED BY <2>1, <2>2, <2>4, <1>a DEF WithinLimit
<1>9. CASE SaveFails(n)
  BY <1>9 DEF SaveFails, RestartAssumption
<1>10. CASE Reconcile(n)
  <2>1. /\ pc[n] = "decide" /\ pc'[n] \in {"apply", "report", "return"}
        /\ UNCHANGED <<memory, disk>>
    BY <1>10, <1>a DEF Reconcile, AfterApply, TypeOK
  <2> QED BY <2>1, <1>a, RestartCalm DEF memory, disk
<1>11. CASE Install(n) \/ InstallFails(n)
  <2>1. /\ pc[n] = "apply" /\ pc'[n] \in {"apply", "return"}
        /\ UNCHANGED <<memory, disk>>
    BY <1>11, <1>a DEF Install, InstallFails, PartlyInstalled, Fail, TypeOK
  <2> QED BY <2>1, <1>a, RestartCalm DEF memory, disk
<1>12. CASE Applied(n)
  <2>1. /\ pc[n] = "apply" /\ pc'[n] \in {"report", "return"}
        /\ UNCHANGED <<desired, learned, disk>>
    BY <1>12, <1>a DEF Applied, AfterApply, TypeOK
  <2> QED BY <2>1, <1>a, RestartCalm DEF disk
<1>13. CASE ReportOk(n) \/ ReportFail(n)
  <2>1. /\ pc[n] = "report" /\ pc'[n] = "return"
        /\ UNCHANGED <<desired, learned, disk>>
    BY <1>13, <1>a DEF ReportOk, ReportFail, Fail, memory, TypeOK
  <2> QED BY <2>1, <1>a, RestartCalm DEF disk
<1>14. CASE Return(n)
  <2>1. pc[n] = "return" /\ pc'[n] = "idle" /\ UNCHANGED <<memory, disk>>
    BY <1>14, <1>a DEF Return, Answer, TypeOK
  <2> QED BY <2>1, <1>a, RestartCalm DEF memory, disk
<1>15. CASE TimePasses(n) \/ Drift(n)
  <2>1. UNCHANGED <<desired, learned, disk, pc, call>>
    BY <1>15 DEF TimePasses, Drift, memory
  <2> QED BY <2>1, <1>a DEF disk, call, NextDesired, NextLearned, WithinLimit,
                            Bootable, Recovered
<1>16. CASE Crash(n)
  <2>1. pc'[n] = "down" /\ UNCHANGED disk
    BY <1>16, <1>a DEF Crash, TypeOK
  <2> QED BY <2>1, <1>b DEF disk, Bootable, Recovered, WithinLimit
<1>17. CASE Work(n)
  BY <1>17, <1>7, <1>8, <1>9, <1>10, <1>11, <1>12 DEF Work
<1> QED
  BY <1>1, <1>2, <1>3, <1>4, <1>5, <1>6, <1>13, <1>14, <1>15, <1>16, <1>17
     DEF NodeStep, Fetched, Request

\* Whenever and however the process dies, the next one can start from the
\* files it finds: they hold no blank line and stay within the limit.
THEOREM RestartableHolds ==
    ASSUME RestartAssumption
    PROVE  Spec => []Restartable
<1>1. Init /\ SavedInv => RestartInv
  <2> SUFFICES ASSUME Init, SavedInv, NEW n \in Nodes PROVE RestartSafe(n)
    BY DEF RestartInv
  <2>1. TypeOK
    BY DriversAssumption DEF Init, TypeOK, Ops, Pcs, Drivers
  <2>2. Seeds[n] \in SUBSET Nets /\ WithinLimit(n, Seeds[n])
    BY SeedsAssumption DEF WithinLimit
  <2>3. Bootable(n)
    BY <2>1, <2>2, FitIsBootable DEF Init
  <2> QED BY <2>3 DEF Init, RestartSafe, FilesFit, OnlyAgentsReplace
<1>2. RestartInv /\ SavedInv' /\ [Next]_vars => RestartInv'
  <2> SUFFICES ASSUME RestartInv, SavedInv', [Next]_vars, NEW n \in Nodes
               PROVE  RestartSafe(n)'
    BY DEF RestartInv
  <2>1. CASE UNCHANGED vars
    BY <2>1 DEF vars, memory, disk, call, RestartInv, RestartSafe, FilesFit,
                OnlyAgentsReplace, Bound, NextDesired, NextLearned, Bootable,
                Recovered, WithinLimit
  <2>2. ASSUME NEW m \in Nodes, NodeStep(m) PROVE RestartSafe(n)'
    <3>1. CASE n = m
      BY <2>2, <3>1, RestartStep DEF SavedInv
    <3>2. CASE n # m
      <4>1. /\ desired'[n] = desired[n] /\ learned'[n] = learned[n]
            /\ stateFile'[n] = stateFile[n] /\ learnedFile'[n] = learnedFile[n]
            /\ pc'[n] = pc[n] /\ op'[n] = op[n] /\ arg'[n] = arg[n]
        BY <2>2, <3>2, OtherNodes DEF RestartInv, SavedInv
      <4>2. /\ NextDesired(n)' = NextDesired(n)
            /\ NextLearned(n)' = NextLearned(n)
            /\ Bootable(n)' <=> Bootable(n)
        BY <4>1 DEF NextDesired, NextLearned, Bootable, Recovered, WithinLimit
      <4> QED
        BY <4>1, <4>2 DEF RestartInv, RestartSafe, FilesFit,
                          OnlyAgentsReplace, Bound, WithinLimit
    <3> QED BY <3>1, <3>2
  <2> QED BY <2>1, <2>2 DEF Next
<1>3. RestartInv => Restartable
  BY FilesFitIsBootable DEF RestartInv, Restartable
<1> QED BY <1>1, <1>2, <1>3, SavedCorrect, PTL DEF Spec
-----------------------------------------------------------------------------
(* The files only grow, as long as they can be written.                     *)

\* A controller's state file is part of what it wants, so what replaces it
\* holds it; the learned file holds no more than memory, or than memory will
\* hold after the write in progress, unless a write has failed.
FilesBehindMemory(n) ==
    /\ n \in Controllers =>
         /\ Blank \notin stateFile[n]
         /\ IsUp(n) => stateFile[n] \subseteq desired[n]
         /\ ~At(n, "fetch")
         /\ At(n, "saveState") => op[n] \in {"learn", "accept"}
    /\ (IsUp(n) /\ "disk" \notin Faults[n]) =>
         learnedFile[n] \subseteq
             IF At(n, "saveState") THEN NextLearned(n) ELSE learned[n]
    /\ At(n, "saveLearned") => op[n] = "learn"

BehindInv == TypeOK /\ \A n \in Nodes : FilesBehindMemory(n)

\* Steps that touch neither files nor the sets that will be written to them.
LEMMA BehindCalm ==
    ASSUME NEW n \in Nodes, FilesBehindMemory(n),
           pc[n] \notin {"down", "saveState"},
           pc'[n] \notin {"saveLearned", "saveState"},
           pc'[n] = "fetch" => n \in Agents,
           desired'[n] = desired[n], learned'[n] = learned[n],
           stateFile'[n] = stateFile[n], learnedFile'[n] = learnedFile[n]
    PROVE  FilesBehindMemory(n)'
    BY DEF FilesBehindMemory

\* What a write of the state file of a controller replaces, it holds.
LEMMA ControllerGrows ==
    ASSUME TypeOK, NEW n \in Controllers, FilesBehindMemory(n),
           At(n, "saveState")
    PROVE  /\ desired[n] \subseteq NextDesired(n)
           /\ stateFile[n] \subseteq NextDesired(n)
           /\ NextDesired(n) # desired[n] =>
                FileOf(NextDesired(n)) = NextDesired(n)
           /\ NextDesired(n) \subseteq Nets
<1>1. n \in Nodes
  BY NodesAssumption
<1> QED BY <1>1, NextType DEF FilesBehindMemory, NextDesired, FileOf, TypeOK

\* Each action of a node keeps its files behind its memory.
LEMMA BehindStep ==
    ASSUME BehindInv, NEW n \in Nodes, NodeStep(n)
    PROVE  FilesBehindMemory(n)'
<1>a. TypeOK /\ FilesBehindMemory(n)
  BY DEF BehindInv
<1>1. CASE Boot(n)
  <2>1. /\ pc'[n] = "decide" /\ desired'[n] = Recovered(n)
        /\ learned'[n] = learnedFile[n] /\ UNCHANGED disk /\ Bootable(n)
    BY <1>1, <1>a DEF Boot, TypeOK
  <2> QED BY <2>1, <1>a DEF FilesBehindMemory, disk, Recovered, Bootable
<1>2. CASE Tick(n)
  <2>1. /\ pc[n] = "idle" /\ UNCHANGED <<memory, disk>>
        /\ pc'[n] = IF n \in Controllers THEN "decide" ELSE "fetch"
    BY <1>2, <1>a DEF Tick, TypeOK
  <2> QED BY <2>1, <1>a, BehindCalm DEF memory, disk
<1>3. ASSUME NEW S \in SUBSET Hosts, Learn(n, S) PROVE FilesBehindMemory(n)'
  <2>1. /\ pc[n] = "idle" /\ UNCHANGED <<memory, disk>>
        /\ op'[n] = "learn" /\ arg'[n] = S
        /\ pc'[n] \in {"return", "saveLearned", "saveState"}
    BY <1>3, <1>a DEF Learn, TypeOK
  <2> QED BY <2>1, <1>a DEF FilesBehindMemory, NextLearned, memory, disk
<1>4. ASSUME NEW S \in SUBSET Hosts, Accept(n, S) PROVE FilesBehindMemory(n)'
  <2>1. /\ pc[n] = "idle" /\ UNCHANGED <<memory, disk>>
        /\ op'[n] = "accept" /\ pc'[n] \in {"return", "saveState"}
    BY <1>4, <1>a DEF Accept, TypeOK
  <2> QED BY <2>1, <1>a DEF FilesBehindMemory, NextLearned, memory, disk
<1>5. ASSUME NEW S \in SUBSET Nets, FetchOk(n, S) PROVE FilesBehindMemory(n)'
  <2>1. /\ pc[n] = "fetch" /\ UNCHANGED <<memory, disk, op>>
        /\ pc'[n] \in {"return", "saveState"}
        /\ op[n] # "learn"
    BY <1>5, <1>a DEF FetchOk, Fail, TypeOK
  <2> QED BY <2>1, <1>a DEF FilesBehindMemory, NextLearned, memory, disk
<1>6. CASE FetchFail(n)
  <2>1. pc[n] = "fetch" /\ pc'[n] = "decide" /\ UNCHANGED <<memory, disk>>
    BY <1>6, <1>a DEF FetchFail, TypeOK
  <2> QED BY <2>1, <1>a, BehindCalm DEF memory, disk
<1>7. CASE SaveLearned(n)
  <2>1. /\ pc[n] = "saveLearned" /\ pc'[n] = "saveState" /\ op[n] = "learn"
        /\ learnedFile'[n] = NextLearned(n)
        /\ UNCHANGED <<memory, stateFile, call>>
    BY <1>7, <1>a DEF SaveLearned, TypeOK, FilesBehindMemory
  <2> QED BY <2>1, <1>a DEF FilesBehindMemory, memory, call, NextLearned
<1>8. CASE SaveState(n)
  <2>1. /\ pc[n] = "saveState" /\ pc'[n] = "decide"
        /\ desired'[n] = NextDesired(n) /\ learned'[n] = NextLearned(n)
        /\ learnedFile'[n] = learnedFile[n]
        /\ stateFile'[n] = IF NextDesired(n) = desired[n] THEN stateFile[n]
                           ELSE FileOf(NextDesired(n))
    BY <1>8, <1>a DEF SaveState, TypeOK
  <2>2. (IsUp(n) /\ "disk" \notin Faults[n]) => learnedFile'[n] \subseteq learned'[n]
    BY <2>1, <1>a DEF FilesBehindMemory
  <2>3. CASE n \in Controllers
    <3>1. /\ stateFile'[n] \subseteq desired'[n]
          /\ Blank \notin stateFile'[n]
      BY <2>1, <2>3, <1>a, ControllerGrows, NetsAssumption
         DEF FilesBehindMemory
    <3> QED BY <3>1, <2>1, <2>2 DEF FilesBehindMemory
  <2>4. CASE n \notin Controllers
    BY <2>1, <2>2, <2>4 DEF FilesBehindMemory
  <2> QED BY <2>3, <2>4
<1>9. CASE SaveFails(n)
  <2>1. /\ "disk" \in Faults[n] /\ pc[n] # "down" /\ pc'[n] = "return"
        /\ UNCHANGED <<memory, disk>>
    BY <1>9, <1>a DEF SaveFails, Fail, TypeOK
  <2> QED BY <2>1, <1>a DEF FilesBehindMemory, memory, disk
<1>10. CASE Reconcile(n)
  <2>1. /\ pc[n] = "decide" /\ pc'[n] \in {"apply", "report", "return"}
        /\ UNCHANGED <<memory, disk>>
    BY <1>10, <1>a DEF Reconcile, AfterApply, TypeOK
  <2> QED BY <2>1, <1>a, BehindCalm DEF memory, disk
<1>11. CASE Install(n) \/ InstallFails(n)
  <2>1. /\ pc[n] = "apply" /\ pc'[n] \in {"apply", "return"}
        /\ UNCHANGED <<memory, disk>>
    BY <1>11, <1>a DEF Install, InstallFails, PartlyInstalled, Fail, TypeOK
  <2> QED BY <2>1, <1>a, BehindCalm DEF memory, disk
<1>12. CASE Applied(n)
  <2>1. /\ pc[n] = "apply" /\ pc'[n] \in {"report", "return"}
        /\ UNCHANGED <<desired, learned, disk>>
    BY <1>12, <1>a DEF Applied, AfterApply, TypeOK
  <2> QED BY <2>1, <1>a, BehindCalm DEF disk
<1>13. CASE ReportOk(n) \/ ReportFail(n)
  <2>1. /\ pc[n] = "report" /\ pc'[n] = "return"
        /\ UNCHANGED <<desired, learned, disk>>
    BY <1>13, <1>a DEF ReportOk, ReportFail, Fail, memory, TypeOK
  <2> QED BY <2>1, <1>a, BehindCalm DEF disk
<1>14. CASE Return(n)
  <2>1. pc[n] = "return" /\ pc'[n] = "idle" /\ UNCHANGED <<memory, disk>>
    BY <1>14, <1>a DEF Return, Answer, TypeOK
  <2> QED BY <2>1, <1>a, BehindCalm DEF memory, disk
<1>15. CASE TimePasses(n) \/ Drift(n)
  <2>1. UNCHANGED <<desired, learned, disk, pc, call>>
    BY <1>15 DEF TimePasses, Drift, memory
  <2> QED BY <2>1, <1>a DEF disk, call, FilesBehindMemory, NextLearned
<1>16. CASE Crash(n)
  <2>1. pc'[n] = "down" /\ UNCHANGED disk
    BY <1>16, <1>a DEF Crash, TypeOK
  <2> QED BY <2>1, <1>a DEF FilesBehindMemory, disk
<1>17. CASE Work(n)
  BY <1>17, <1>7, <1>8, <1>9, <1>10, <1>11, <1>12 DEF Work
<1> QED
  BY <1>1, <1>2, <1>3, <1>4, <1>5, <1>6, <1>13, <1>14, <1>15, <1>16, <1>17
     DEF NodeStep, Fetched, Request

\* So it is in every reachable state.
THEOREM BehindCorrect == Spec => []BehindInv
<1>1. Init => BehindInv
  <2> SUFFICES ASSUME Init PROVE BehindInv
    OBVIOUS
  <2>1. TypeOK
    BY DriversAssumption DEF Init, TypeOK, Ops, Pcs, Drivers
  <2> QED BY <2>1, NodesAssumption DEF Init, BehindInv, FilesBehindMemory
<1>2. BehindInv /\ [Next]_vars => BehindInv'
  <2> SUFFICES ASSUME BehindInv, [Next]_vars PROVE BehindInv'
    OBVIOUS
  <2>1. TypeOK'
    BY TypeStep DEF BehindInv
  <2>2. CASE UNCHANGED vars
    BY <2>1, <2>2 DEF vars, memory, disk, call, BehindInv, FilesBehindMemory,
                      NextLearned
  <2>3. ASSUME NEW m \in Nodes, NodeStep(m), NEW n \in Nodes
        PROVE  FilesBehindMemory(n)'
    <3>1. CASE n = m
      BY <2>3, <3>1, BehindStep
    <3>2. CASE n # m
      BY <2>3, <3>2, OtherNodes DEF BehindInv, FilesBehindMemory, NextLearned
    <3> QED BY <3>1, <3>2
  <2> QED BY <2>1, <2>2, <2>3 DEF Next, BehindInv
<1> QED BY <1>1, <1>2, PTL DEF Spec

\* Only two actions write a file of a node.
LEMMA FilesUnchanged ==
    ASSUME TypeOK, NEW n \in Nodes, NodeStep(n),
           ~SaveLearned(n), ~SaveState(n)
    PROVE  UNCHANGED disk
    BY DEF NodeStep, Boot, Tick, Request, Learn, Accept, Fetched, FetchOk,
           FetchFail, Work, SaveFails, Reconcile, Install, InstallFails,
           Applied, ReportOk, ReportFail, Return, TimePasses, Crash, Drift, disk

\* State files are monotonic: a controller's state file and any learned file
\* only grow, through crashes and failed drivers, while writes succeed.
THEOREM StateFilesMonotonicHolds == Spec => StateFilesMonotonic
<1> DEFINE Grows(n) ==
        /\ n \in Controllers => stateFile[n] \subseteq stateFile'[n]
        /\ learnedFile[n] \subseteq learnedFile'[n]
<1>1. ASSUME BehindInv, [Next]_vars, NEW n \in Nodes, "disk" \notin Faults[n]
      PROVE  Grows(n)
  <2>a. TypeOK /\ FilesBehindMemory(n)
    BY <1>1 DEF BehindInv
  <2>1. CASE UNCHANGED vars
    BY <2>1 DEF vars, disk
  <2>2. ASSUME NEW m \in Nodes, NodeStep(m) PROVE Grows(n)
    <3>1. CASE n # m
      BY <2>2, <3>1, <2>a, OtherNodes
    <3>2. CASE n = m /\ SaveLearned(n)
      <4>1. /\ pc[n] = "saveLearned" /\ stateFile' = stateFile
            /\ learnedFile'[n] = NextLearned(n)
        BY <3>2, <2>a DEF SaveLearned, TypeOK
      <4> QED BY <4>1, <1>1, <2>a DEF FilesBehindMemory, NextLearned
    <3>3. CASE n = m /\ SaveState(n)
      <4>1. /\ pc[n] = "saveState" /\ learnedFile' = learnedFile
            /\ stateFile'[n] = IF NextDesired(n) = desired[n] THEN stateFile[n]
                               ELSE FileOf(NextDesired(n))
        BY <3>3, <2>a DEF SaveState, TypeOK
      <4> QED BY <4>1, <2>a, ControllerGrows
    <3>4. CASE n = m /\ ~SaveLearned(n) /\ ~SaveState(n)
      BY <2>2, <3>4, <2>a, FilesUnchanged DEF disk
    <3> QED BY <3>1, <3>2, <3>3, <3>4
  <2> QED BY <1>1, <2>1, <2>2 DEF Next
<1>2. BehindInv /\ [Next]_vars =>
        [\A n \in {m \in Nodes : "disk" \notin Faults[m]} :
           /\ n \in Controllers => stateFile[n] \subseteq stateFile'[n]
           /\ learnedFile[n] \subseteq learnedFile'[n]]_vars
  BY <1>1
<1> QED BY <1>2, BehindCorrect, PTL DEF Spec, StateFilesMonotonic
=============================================================================
