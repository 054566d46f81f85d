------------------------------- MODULE Status -------------------------------
(* The status file <state_file>.runtime.json: when recordStatus of          *)
(* runtime.go writes it, and what doctor and smoke-test of operations.go    *)
(* conclude from it.  It holds numbers, not sets, and an error is recorded  *)
(* by a deferred call that runs after the operation has freed syncMu, so    *)
(* that the next operation may be under way by then.                        *)
(*                                                                          *)
(* recordStatus takes its numbers under mu and writes them under statusMu,  *)
(* which orders the writers: it is one step.  It skips a write that would   *)
(* leave the file as it is, and tries again what it could not write, since  *)
(* it remembers only what it has written.  Times and the text of the last   *)
(* error are only displayed and left out.                                   *)
EXTENDS Runtime

VARIABLES
    shown,    \* the numbers in the status file
    owed,     \* the failed operations whose recordStatus is still to come
    missed    \* history: an acceptReport has failed since the last record

statusVars == <<vars, shown, owed, missed>>

\* Mutation: a controller is no special case.
CountsOwn(n) == [
    learned  |-> Cardinality(learned[n]),
    applied  |-> Cardinality(applied[n]),
    reported |-> Cardinality(lastReported[n]),
    known    |-> appliedKnown[n]]

\* What recordStatus reports of a node.  "learned" of a controller is all it
\* wants: it has most hosts from reports.
Counts(n) == [
    learned  |-> Cardinality(IF n \in Controllers THEN desired[n] ELSE learned[n]),
    applied  |-> Cardinality(applied[n]),
    reported |-> Cardinality(lastReported[n]),
    known    |-> appliedKnown[n]]

\* No file: the readers' load fails, as their checks do on these numbers.
NoStatus == [learned |-> 0, applied |-> 0, reported |-> 0, known |-> FALSE]

StatusTypeOK ==
    /\ TypeOK
    /\ shown \in [Nodes -> [learned : Nat, applied : Nat, reported : Nat,
                            known : BOOLEAN]]
    /\ owed \in [Nodes -> SUBSET (Ops \ {"accept"})]
    /\ missed \in [Nodes -> BOOLEAN]

\* recordStatus with the memory after the step; the write may fail.
Record(n) ==
    /\ \/ shown' = [shown EXCEPT ![n] = Counts(n)']
       \/ "disk" \in Faults[n] /\ UNCHANGED shown
    /\ missed' = [missed EXCEPT ![n] = FALSE]

\* Run records before its first reconcile, and reconcileLocked as the last
\* thing it does without an error.
BootRecorded(n) == Boot(n) /\ Record(n) /\ UNCHANGED owed

AtEnd(n) ==
    /\ IF pc'[n] = "return" THEN Record(n) ELSE UNCHANGED <<shown, missed>>
    /\ UNCHANGED owed

ReconcileRecorded(n) ==
    \/ Reconcile(n) /\ AtEnd(n)
    \/ Applied(n) /\ AtEnd(n)
    \/ ReportOk(n) /\ AtEnd(n)

\* Mutation: a failed operation is not recorded.
ReturnUnrecorded(n) == Return(n) /\ UNCHANGED <<shown, owed, missed>>

\* Every operation but acceptReport defers recordStatus(err) to its end, after
\* the deferred unlock.
ReturnRecorded(n) ==
    /\ Return(n)
    /\ owed' = [owed EXCEPT ![n] =
           IF ok[n] \/ op[n] = "accept" THEN @ ELSE @ \cup {op[n]}]
    /\ missed' = [missed EXCEPT ![n] = @ \/ (op[n] = "accept" /\ ~ok[n])]
    /\ UNCHANGED shown

RecordError(n) ==
    /\ \E o \in owed[n] : owed' = [owed EXCEPT ![n] = @ \ {o}]
    /\ UNCHANGED vars
    /\ Record(n)

\* Run's loop records the error of one sync before it starts the next, and
\* that of the first reconcile before anything is served.
LoopFree(n) == owed[n] \cap {"boot", "tick"} = {}

CrashRecorded(n) ==
    /\ Crash(n)
    /\ owed' = [owed EXCEPT ![n] = {}]
    /\ missed' = [missed EXCEPT ![n] = FALSE]
    /\ UNCHANGED shown

\* The steps that record nothing.
Quiet == UNCHANGED <<shown, owed, missed>>

Silent(n) ==
    \/ LoopFree(n) /\ Tick(n) /\ Quiet
    \/ \E S \in (SUBSET Hosts) \ {{}} : "boot" \notin owed[n] /\ Learn(n, S) /\ Quiet
    \/ \E S \in (SUBSET Hosts) \ {{}} : "boot" \notin owed[n] /\ Accept(n, S) /\ Quiet
    \/ Fetched(n) /\ Quiet
    \/ FetchFail(n) /\ Quiet
    \/ SaveLearned(n) /\ Quiet
    \/ SaveState(n) /\ Quiet
    \/ SaveFails(n) /\ Quiet
    \/ Install(n) /\ Quiet
    \/ InstallFails(n) /\ Quiet
    \/ ReportFail(n) /\ Quiet
    \/ TimePasses(n) /\ Quiet
    \/ Drift(n) /\ Quiet

StatusInit ==
    /\ Init
    /\ shown = [n \in Nodes |-> NoStatus]
    /\ owed = [n \in Nodes |-> {}]
    /\ missed = [n \in Nodes |-> FALSE]

StatusNext ==
    \E n \in Nodes :
        \/ BootRecorded(n) \/ ReconcileRecorded(n) \/ ReturnRecorded(n)
        \/ RecordError(n) \/ CrashRecorded(n) \/ Silent(n)

StatusSpec == StatusInit /\ [][StatusNext]_statusVars

\* A deferred recordStatus waits for locks that are held for single reads and
\* writes.
StatusFairSpec ==
    /\ StatusSpec
    /\ \A n \in Nodes : Fairness(n) /\ WF_statusVars(RecordError(n))

-----------------------------------------------------------------------------
(* The readers *)

\* Mutation: what an agent has reported is not looked at.
SmokePassesKnown(n) == shown[n].known

\* What smoke-test asks of the file.
SmokePasses(n) ==
    /\ shown[n].known
    /\ n \in Agents => shown[n].reported >= shown[n].learned

\* Doctor's checks "learned -> applied" and, on an agent, "learned -> reported".
DoctorPasses(n) == SmokePasses(n) /\ shown[n].applied >= shown[n].learned

\* What a controller has to apply is all it wants.
Due(n) == IF n \in Controllers THEN desired[n] ELSE learned[n]

\* doctor and smoke-test compare numbers, not sets: wherever they are the true
\* numbers of the moment, also in the middle of an operation, the learned hosts
\* themselves are reported when smoke-test is content and applied when doctor is.
DoctorSound ==
    \A n \in Nodes :
        IsUp(n) /\ shown[n] = Counts(n) =>
            /\ SmokePasses(n) /\ n \in Agents => learned[n] \subseteq lastReported[n]
            /\ DoctorPasses(n) => Due(n) \subseteq applied[n]

\* The file keeps up: a process at rest that has recorded what it owes shows
\* the true numbers, whatever has failed, as long as the file can be written.
\* A report that was saved and could not be applied is the exception.
StatusCurrent ==
    \A n \in {m \in Nodes : "disk" \notin Faults[m]} :
        At(n, "idle") /\ owed[n] = {} /\ ~missed[n] => shown[n] = Counts(n)
=============================================================================
