---------------------------- MODULE StatusProofs ----------------------------
(* Theorems about Status, for any nodes, networks, limits and faults.       *)
EXTENDS Status, RuntimeProofs

USE DEF At, Goto, IsUp, Agents

\* A count is a number, and a part that counts as much as the whole is it.
LEMMA CountType ==
    ASSUME NEW S \in SUBSET Nets
    PROVE  /\ Cardinality(S) \in Nat
           /\ \A T \in SUBSET S : Cardinality(T) >= Cardinality(S) => T = S
<1>1. IsFiniteSet(S)
  BY NetsAssumption, FS_Subset
<1>2. Cardinality(S) \in Nat
  BY <1>1, FS_CardinalityType
<1>3. ASSUME NEW T \in SUBSET S, Cardinality(T) >= Cardinality(S)
      PROVE  T = S
  <2>1. /\ Cardinality(T) =< Cardinality(S)
        /\ Cardinality(S) = Cardinality(T) => S = T
    BY <1>1, FS_Subset
  <2>2. Cardinality(T) \in Nat
    BY <1>1, FS_Subset, FS_CardinalityType
  <2>3. Cardinality(S) = Cardinality(T)
    BY <1>2, <1>3, <2>1, <2>2
  <2> QED BY <2>1, <2>3
<1> QED BY <1>2, <1>3

\* Writing status is no step of Runtime; all else is one.
LEMMA StatusStepIsStep ==
    ASSUME [StatusNext]_statusVars
    PROVE  [Next]_vars
<1>1. CASE UNCHANGED statusVars
  BY <1>1 DEF statusVars
<1>2. ASSUME NEW n \in Nodes,
             \/ BootRecorded(n) \/ ReconcileRecorded(n) \/ ReturnRecorded(n)
             \/ CrashRecorded(n)
      PROVE  NodeStep(n)
  BY <1>2 DEF BootRecorded, ReconcileRecorded, ReturnRecorded, CrashRecorded,
              NodeStep, Work
<1>3. ASSUME NEW n \in Nodes, Silent(n) PROVE NodeStep(n)
  BY <1>3 DEF Silent, NodeStep, Work, Request
<1>4. ASSUME NEW n \in Nodes, RecordError(n) PROVE UNCHANGED vars
  BY <1>4 DEF RecordError
<1> QED BY <1>1, <1>2, <1>3, <1>4 DEF StatusNext, Next

\* The daemon that writes its status is the daemon of Runtime: what is proved
\* of that one holds of it.
THEOREM StatusRunsRuntime == StatusSpec => Spec
<1>1. StatusInit => Init
  BY DEF StatusInit
<1>2. [StatusNext]_statusVars => [Next]_vars
  BY StatusStepIsStep
<1> QED BY <1>1, <1>2, PTL DEF StatusSpec, Spec

-----------------------------------------------------------------------------
(* The types of what is written *)

Numbers == [learned : Nat, applied : Nat, reported : Nat, known : BOOLEAN]

\* Each node writes only its own file.
LEMMA RecordType ==
    ASSUME StatusTypeOK, TypeOK', NEW n \in Nodes, Record(n)
    PROVE  /\ shown' \in [Nodes -> Numbers]
           /\ missed' \in [Nodes -> BOOLEAN]
           /\ \A m \in Nodes : m # n => /\ shown'[m] = shown[m]
                                        /\ missed'[m] = missed[m]
           /\ shown'[n] = Counts(n)' \/ "disk" \in Faults[n]
<1>1. Counts(n)' \in Numbers
  <2>1. /\ desired'[n] \in SUBSET Nets /\ learned'[n] \in SUBSET Nets
        /\ applied'[n] \in SUBSET Nets /\ lastReported'[n] \in SUBSET Nets
        /\ appliedKnown'[n] \in BOOLEAN
    BY NetsAssumption DEF TypeOK
  <2>2. /\ Cardinality(desired'[n]) \in Nat /\ Cardinality(learned'[n]) \in Nat
        /\ Cardinality(applied'[n]) \in Nat
        /\ Cardinality(lastReported'[n]) \in Nat
    BY <2>1, CountType
  <2> QED BY <2>1, <2>2 DEF Counts, Numbers
<1> QED BY <1>1 DEF Record, StatusTypeOK, Numbers

\* Every step keeps the types, and touches one node's status.
LEMMA StatusTypeStep ==
    ASSUME StatusTypeOK, [StatusNext]_statusVars
    PROVE  StatusTypeOK'
<1>a. TypeOK /\ TypeOK'
  BY StatusStepIsStep, TypeStep DEF StatusTypeOK
<1>1. CASE UNCHANGED <<shown, owed, missed>>
  BY <1>1, <1>a DEF StatusTypeOK
<1>2. ASSUME NEW n \in Nodes, BootRecorded(n) \/ ReconcileRecorded(n)
      PROVE  StatusTypeOK'
  <2>1. UNCHANGED owed /\ (Record(n) \/ UNCHANGED <<shown, missed>>)
    BY <1>2 DEF BootRecorded, ReconcileRecorded, AtEnd
  <2> QED BY <2>1, <1>a, RecordType DEF StatusTypeOK, Numbers
<1>3. ASSUME NEW n \in Nodes, ReturnRecorded(n) PROVE StatusTypeOK'
  <2>1. op[n] \in Ops
    BY <1>a DEF TypeOK
  <2> QED BY <1>3, <2>1, <1>a DEF ReturnRecorded, StatusTypeOK
<1>4. ASSUME NEW n \in Nodes, RecordError(n) PROVE StatusTypeOK'
  BY <1>4, <1>a, RecordType DEF RecordError, StatusTypeOK, Numbers
<1>5. ASSUME NEW n \in Nodes, CrashRecorded(n) PROVE StatusTypeOK'
  BY <1>5, <1>a DEF CrashRecorded, StatusTypeOK
<1>6. ASSUME NEW n \in Nodes, Silent(n) PROVE UNCHANGED <<shown, owed, missed>>
  BY <1>6 DEF Silent, Quiet
<1> QED
  BY <1>1, <1>2, <1>3, <1>4, <1>5, <1>6 DEF StatusNext, statusVars

\* Every reachable state is type-correct.
THEOREM StatusTypeCorrect == StatusSpec => []StatusTypeOK
<1>1. StatusInit => StatusTypeOK
  BY SavedInit DEF StatusInit, SavedInv, StatusTypeOK, NoStatus
<1>2. StatusTypeOK /\ [StatusNext]_statusVars => StatusTypeOK'
  BY StatusTypeStep
<1> QED BY <1>1, <1>2, PTL DEF StatusSpec

-----------------------------------------------------------------------------
(* Doctor and smoke-test                                                    *)

\* Numbers may stand for sets because one set is part of the other: on a
\* controller what is applied is wanted; on an agent what is reported is
\* learned, and was applied before, so that a learned set that is reported is
\* applied as well.
Counted(n) ==
    /\ ~IsUp(n) => applied[n] = {}
    /\ n \in Controllers => applied[n] \subseteq desired[n]
    /\ n \in Agents => lastReported[n] \subseteq applied[n]
    /\ At(n, "report") => learned[n] \subseteq applied[n]

CountedInv == \A n \in Nodes : Counted(n)

\* Each action of a node keeps it so.
LEMMA CountedStep ==
    ASSUME SavedInv, BehindInv, NEW n \in Nodes, Counted(n), NodeStep(n)
    PROVE  Counted(n)'
<1>a. TypeOK /\ WantedIsSaved(n) /\ HistoryIsSaved(n) /\ FilesBehindMemory(n)
  BY DEF SavedInv, Saved, BehindInv
<1>1. CASE Boot(n)
  <2>1. /\ pc[n] = "down" /\ pc'[n] = "decide"
        /\ UNCHANGED <<applied, lastReported>>
    BY <1>1, <1>a DEF Boot, TypeOK
  <2>2. applied[n] = {}
    BY <2>1 DEF Counted
  <2> QED BY <2>1, <2>2 DEF Counted
<1>2. CASE Crash(n)
  BY <1>2, <1>a DEF Crash, Counted, TypeOK
<1>3. CASE SaveState(n)
  <2>1. /\ pc[n] = "saveState" /\ pc'[n] = "decide"
        /\ desired'[n] = NextDesired(n)
        /\ UNCHANGED <<applied, lastReported>>
    BY <1>3, <1>a DEF SaveState, TypeOK
  <2> QED BY <2>1, <1>a, ControllerGrows DEF Counted
<1>4. CASE Applied(n)
  <2>1. /\ pc[n] = "apply" /\ pc'[n] # "down" /\ applied'[n] = desired[n]
        /\ UNCHANGED <<desired, learned, lastReported>>
    BY <1>4, <1>a DEF Applied, AfterApply, TypeOK
  <2>2. learned[n] \subseteq desired[n] /\ lastReported[n] \subseteq learned[n]
    BY <2>1, <1>a DEF WantedIsSaved, HistoryIsSaved
  <2> QED BY <2>1, <2>2 DEF Counted
<1>5. CASE Reconcile(n)
  <2>1. /\ pc[n] = "decide" /\ pc'[n] # "down" /\ UNCHANGED memory
        /\ pc'[n] = "report" => ~Changed(n)
    BY <1>5, <1>a DEF Reconcile, AfterApply, TypeOK
  <2>2. learned[n] \subseteq desired[n]
    BY <2>1, <1>a DEF WantedIsSaved
  <2> QED BY <2>1, <2>2 DEF Counted, Changed, memory
<1>6. CASE ReportOk(n)
  <2>1. /\ pc[n] = "report" /\ pc'[n] = "return"
        /\ lastReported'[n] = learned[n]
        /\ UNCHANGED <<desired, learned, applied>>
    BY <1>6, <1>a DEF ReportOk, TypeOK
  <2> QED BY <2>1 DEF Counted
<1>7. CASE \/ Tick(n) \/ FetchFail(n) \/ SaveLearned(n) \/ SaveFails(n)
           \/ Install(n) \/ InstallFails(n) \/ ReportFail(n) \/ Return(n)
           \/ TimePasses(n) \/ Drift(n)
  <2>1. /\ UNCHANGED <<desired, learned, applied, lastReported>>
        /\ pc'[n] \notin {"down", "report"} \/ pc'[n] = pc[n]
    BY <1>7, <1>a
       DEF Tick, FetchFail, SaveLearned, SaveFails, Install, InstallFails,
           ReportFail, Return, TimePasses, Drift, Fail, memory, TypeOK
  <2> QED BY <2>1 DEF Counted
<1>8. CASE Request(n) \/ Fetched(n)
  <2>1. UNCHANGED memory /\ pc'[n] \notin {"down", "report"}
    <3>1. ASSUME NEW S, Learn(n, S) \/ Accept(n, S)
          PROVE  UNCHANGED memory /\ pc'[n] \notin {"down", "report"}
      BY <3>1, <1>a DEF Learn, Accept, TypeOK
    <3>2. ASSUME NEW S, FetchOk(n, S)
          PROVE  UNCHANGED memory /\ pc'[n] \notin {"down", "report"}
      BY <3>2, <1>a DEF FetchOk, Fail, TypeOK
    <3> QED BY <1>8, <3>1, <3>2 DEF Request, Fetched
  <2> QED BY <2>1 DEF Counted, memory
<1> QED
  BY <1>1, <1>2, <1>3, <1>4, <1>5, <1>6, <1>7, <1>8 DEF NodeStep, Work

\* So it is in every reachable state.
THEOREM CountedCorrect == Spec => []CountedInv
<1>1. Init => CountedInv
  BY DEF Init, CountedInv, Counted
<1>2. SavedInv /\ BehindInv /\ CountedInv /\ [Next]_vars => CountedInv'
  <2> SUFFICES ASSUME SavedInv, BehindInv, CountedInv, [Next]_vars,
                      NEW n \in Nodes
               PROVE  Counted(n)'
    BY DEF CountedInv
  <2>1. CASE UNCHANGED vars
    BY <2>1 DEF vars, memory, CountedInv, Counted
  <2>2. ASSUME NEW m \in Nodes, NodeStep(m) PROVE Counted(n)'
    <3>1. CASE n = m
      BY <2>2, <3>1, CountedStep DEF CountedInv
    <3>2. CASE n # m
      BY <2>2, <3>2, OtherNodes DEF SavedInv, CountedInv, Counted
    <3> QED BY <3>1, <3>2
  <2> QED BY <2>1, <2>2 DEF Next
<1> QED BY <1>1, <1>2, SavedCorrect, BehindCorrect, PTL DEF Spec

\* Wherever the file shows the true numbers, smoke-test passes only when every
\* learned host is reported, doctor only when everything due is applied.
THEOREM DoctorSoundHolds == StatusSpec => []DoctorSound
<1>1. SavedInv /\ CountedInv => DoctorSound
  <2> SUFFICES ASSUME SavedInv, CountedInv, NEW n \in Nodes, IsUp(n),
                      shown[n] = Counts(n), SmokePasses(n)
               PROVE  /\ n \in Agents => learned[n] \subseteq lastReported[n]
                      /\ shown[n].applied >= shown[n].learned =>
                            Due(n) \subseteq applied[n]
    BY DEF DoctorSound, DoctorPasses
  <2>1. /\ TypeOK /\ Counted(n)
        /\ lastReported[n] \subseteq learned[n]
        /\ desired[n] \in SUBSET Nets /\ learned[n] \in SUBSET Nets
    BY NetsAssumption DEF SavedInv, Saved, HistoryIsSaved, CountedInv, TypeOK
  <2>2. /\ shown[n].learned =
             Cardinality(IF n \in Controllers THEN desired[n] ELSE learned[n])
        /\ shown[n].applied = Cardinality(applied[n])
        /\ shown[n].reported = Cardinality(lastReported[n])
    BY DEF Counts
  <2>3. CASE n \in Controllers
    <3>1. applied[n] \in SUBSET desired[n] /\ Due(n) = desired[n] /\ n \notin Agents
      BY <2>1, <2>3 DEF Counted, Due
    <3>2. Cardinality(applied[n]) >= Cardinality(desired[n])
            => applied[n] = desired[n]
      BY <2>1, <3>1, CountType
    <3> QED BY <2>2, <2>3, <3>1, <3>2
  <2>4. CASE n \in Agents
    <3>1. Cardinality(lastReported[n]) >= Cardinality(learned[n])
      BY <2>2, <2>4 DEF SmokePasses
    <3>2. lastReported[n] = learned[n]
      BY <2>1, <3>1, CountType
    <3> QED BY <2>1, <2>4, <3>2 DEF Counted, Due
  <2> QED BY <2>3, <2>4
<1> QED
  BY <1>1, StatusRunsRuntime, SavedCorrect, CountedCorrect, PTL

-----------------------------------------------------------------------------
(* The file keeps up                                                        *)

\* The numbers are true, or somebody will record new ones: the operation that
\* is past its write, or, of one that has failed, its deferred recordStatus.
Recorded(n) ==
    "disk" \notin Faults[n] =>
        \/ shown[n] = Counts(n)
        \/ owed[n] # {} \/ missed[n]
        \/ pc[n] \in {"down", "decide", "apply", "report"}
        \/ At(n, "return") /\ ~ok[n]

RecordedInv == StatusTypeOK /\ \A n \in Nodes : Recorded(n)

\* Steps of Runtime that change no number and end no operation.
LEMMA RecordedCalm ==
    ASSUME NEW n \in Nodes, Recorded(n),
           UNCHANGED <<desired, learned, applied, lastReported, appliedKnown>>,
           shown'[n] = shown[n], owed'[n] = owed[n], missed'[n] = missed[n],
           \/ pc'[n] \in {"decide", "apply", "report"}
           \/ pc'[n] = "return" /\ ~ok'[n]
           \/ pc[n] \notin {"down", "decide", "apply", "report", "return"}
           \/ pc'[n] = pc[n] /\ ok'[n] = ok[n]
    PROVE  Recorded(n)'
    BY DEF Recorded, Counts

\* The steps that record nothing need not.
LEMMA SilentStep ==
    ASSUME RecordedInv, NEW n \in Nodes, Silent(n)
    PROVE  Recorded(n)'
<1>a. TypeOK /\ Recorded(n) /\ UNCHANGED <<shown, owed, missed>>
  BY DEF RecordedInv, StatusTypeOK, Silent, Quiet
<1>1. CASE SaveState(n)
  <2>1. pc'[n] = "decide"
    BY <1>1, <1>a DEF SaveState, TypeOK
  <2> QED BY <2>1 DEF Recorded
<1>2. CASE Tick(n) \/ FetchFail(n) \/ SaveLearned(n) \/ SaveFails(n)
  <2>1. /\ UNCHANGED memory
        /\ \/ pc'[n] = "decide"
           \/ pc'[n] = "return" /\ ~ok'[n]
           \/ pc[n] \notin {"down", "decide", "apply", "report", "return"}
    BY <1>2, <1>a DEF Tick, FetchFail, SaveLearned, SaveFails, Fail, TypeOK
  <2> QED BY <2>1, <1>a, RecordedCalm DEF memory
<1>3. CASE Install(n) \/ InstallFails(n) \/ ReportFail(n)
  <2>1. /\ UNCHANGED memory
        /\ \/ pc'[n] = "apply"
           \/ pc'[n] = "return" /\ ~ok'[n]
    BY <1>3, <1>a DEF Install, InstallFails, ReportFail, Fail, TypeOK
  <2> QED BY <2>1, <1>a, RecordedCalm DEF memory
<1>4. CASE TimePasses(n) \/ Drift(n)
  <2>1. UNCHANGED <<desired, learned, applied, lastReported, appliedKnown, pc, ok>>
    BY <1>4 DEF TimePasses, Drift, memory
  <2> QED BY <2>1, <1>a, RecordedCalm
<1>5. CASE Fetched(n)
  <2>1. PICK S : FetchOk(n, S)
    BY <1>5 DEF Fetched
  <2>2. UNCHANGED memory /\ pc[n] = "fetch"
    BY <2>1 DEF FetchOk
  <2> QED BY <2>2, <1>a, RecordedCalm DEF memory
<1>6. ASSUME NEW S, Learn(n, S) \/ Accept(n, S) PROVE Recorded(n)'
  <2>1. UNCHANGED memory /\ pc[n] = "idle"
    BY <1>6 DEF Learn, Accept
  <2> QED BY <2>1, <1>a, RecordedCalm DEF memory
<1> QED BY <1>1, <1>2, <1>3, <1>4, <1>5, <1>6 DEF Silent

\* A node's own steps keep its file up to date.
LEMMA RecordedStep ==
    ASSUME RecordedInv, TypeOK', NEW n \in Nodes,
           \/ BootRecorded(n) \/ ReconcileRecorded(n) \/ ReturnRecorded(n)
           \/ RecordError(n) \/ CrashRecorded(n) \/ Silent(n)
    PROVE  Recorded(n)'
<1>a. StatusTypeOK /\ TypeOK /\ Recorded(n)
  BY DEF RecordedInv, StatusTypeOK
<1>1. ASSUME Record(n) PROVE Recorded(n)'
  BY <1>1, <1>a, RecordType DEF Recorded
<1>2. CASE BootRecorded(n) \/ RecordError(n)
  BY <1>1, <1>2 DEF BootRecorded, RecordError
<1>3. CASE ReconcileRecorded(n)
  <2>1. AtEnd(n)
    BY <1>3 DEF ReconcileRecorded
  <2>2. pc'[n] \in {"apply", "report", "return"}
    BY <1>3, <1>a DEF ReconcileRecorded, Reconcile, Applied, ReportOk,
                      AfterApply, TypeOK
  <2> QED BY <2>1, <2>2, <1>1 DEF AtEnd, Recorded
<1>4. CASE ReturnRecorded(n)
  <2>1. /\ pc[n] = "return" /\ UNCHANGED memory /\ UNCHANGED shown
        /\ owed'[n] = IF ok[n] \/ op[n] = "accept" THEN owed[n]
                      ELSE owed[n] \cup {op[n]}
        /\ missed'[n] = (missed[n] \/ (op[n] = "accept" /\ ~ok[n]))
    BY <1>4, <1>a DEF ReturnRecorded, Return, StatusTypeOK
  <2> QED BY <2>1, <1>a DEF Recorded, Counts, memory
<1>5. CASE CrashRecorded(n)
  <2>1. pc'[n] = "down"
    BY <1>5, <1>a DEF CrashRecorded, Crash, TypeOK
  <2> QED BY <2>1 DEF Recorded
<1>6. CASE Silent(n)
  BY <1>6, SilentStep
<1> QED BY <1>2, <1>3, <1>4, <1>5, <1>6

\* Nobody else writes a node's file.
LEMMA OtherStatus ==
    ASSUME RecordedInv, TypeOK', NEW m \in Nodes, NEW n \in Nodes, n # m,
           \/ BootRecorded(m) \/ ReconcileRecorded(m) \/ ReturnRecorded(m)
           \/ RecordError(m) \/ CrashRecorded(m) \/ Silent(m)
    PROVE  Recorded(n)'
<1>a. StatusTypeOK /\ TypeOK /\ Recorded(n)
  BY DEF RecordedInv, StatusTypeOK
<1>1. /\ shown'[n] = shown[n] /\ owed'[n] = owed[n] /\ missed'[n] = missed[n]
  <2>1. Record(m) => shown'[n] = shown[n] /\ missed'[n] = missed[n]
    BY <1>a, RecordType
  <2> QED
    BY <2>1, <1>a
       DEF BootRecorded, ReconcileRecorded, AtEnd, ReturnRecorded, RecordError,
           CrashRecorded, Silent, Quiet, StatusTypeOK
<1>2. CASE RecordError(m)
  BY <1>1, <1>2, <1>a
     DEF RecordError, vars, memory, Recorded, Counts
<1>3. CASE ~RecordError(m)
  <2>1. NodeStep(m)
    BY <1>3 DEF BootRecorded, ReconcileRecorded, ReturnRecorded, CrashRecorded,
                Silent, NodeStep, Work, Request
  <2> QED BY <1>1, <1>a, <2>1, OtherNodes DEF Recorded, Counts
<1> QED BY <1>2, <1>3

\* A process at rest that has recorded what it owes shows the true numbers.
THEOREM StatusCurrentHolds == StatusSpec => []StatusCurrent
<1>1. StatusInit => RecordedInv
  <2> SUFFICES ASSUME StatusInit PROVE RecordedInv
    OBVIOUS
  <2>1. StatusTypeOK
    BY SavedInit DEF StatusInit, SavedInv, StatusTypeOK, NoStatus
  <2> QED BY <2>1 DEF StatusInit, Init, RecordedInv, Recorded
<1>2. RecordedInv /\ [StatusNext]_statusVars => RecordedInv'
  <2> SUFFICES ASSUME RecordedInv, [StatusNext]_statusVars PROVE RecordedInv'
    OBVIOUS
  <2>1. StatusTypeOK' /\ TypeOK'
    BY StatusTypeStep DEF RecordedInv, StatusTypeOK
  <2>2. CASE UNCHANGED statusVars
    BY <2>1, <2>2 DEF statusVars, vars, memory, RecordedInv, Recorded, Counts
  <2>3. CASE StatusNext
    <3>1. ASSUME NEW n \in Nodes PROVE Recorded(n)'
      BY <2>1, <2>3, RecordedStep, OtherStatus DEF StatusNext
    <3> QED BY <2>1, <3>1 DEF RecordedInv
  <2> QED BY <2>2, <2>3
<1>3. RecordedInv => StatusCurrent
  BY DEF RecordedInv, Recorded, StatusCurrent
<1> QED BY <1>1, <1>2, <1>3, PTL DEF StatusSpec
=============================================================================
