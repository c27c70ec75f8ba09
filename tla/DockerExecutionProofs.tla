------------------------ MODULE DockerExecutionProofs ------------------------
(***************************************************************************)
(* Proofs about DockerExecution, for any number of runs, workers and keys. *)
(*                                                                         *)
(* AtMostOneRestart and OutcomesAgree hold whatever the workers and locks  *)
(* do: they rest on the execution record alone.  The properties about the  *)
(* lock hold until a run at work loses it (undercut), and need no other    *)
(* assumption about workers and times.                                     *)
(***************************************************************************)
EXTENDS DockerExecution, TLAPS

(* The run committed the RUNNING record of its key. *)
Dispatched(r) == pc[r] \in Holding \/ r \in issued

RecordInv ==
  /\ \A r \in Runs : Dispatched(r) => exec[KeyOf[r]] # "none"
  /\ \A r, s \in Runs :
       Dispatched(r) /\ Dispatched(s) /\ KeyOf[r] = KeyOf[s] => r = s
  /\ \A r \in Runs : pc[r] \in {"start", "recover", "acquire"} => r \notin issued
  /\ \A r \in Runs : pc[r] # "done" => outcome[r] = "none"
  /\ \A r \in Runs : pc[r] = "recover" => verdict[r] \in {"SUCCEEDED", "FAILED"}
  /\ \A r \in Runs : pc[r] = "deleting" =>
       verdict[r] \in {"SUCCEEDED", "FAILED"} /\ exec[KeyOf[r]] = "RUNNING"

IInv == TypeOK /\ RecordInv /\ OutcomesAgree

(* Every action of a run leaves the other runs' places alone. *)
LEMMA StepTyped ==
  ASSUME TypeOK, NEW r \in Runs, Step(r)
  PROVE  TypeOK'
<1> USE ExecutionAssumption DEF TypeOK, Goto, Return, Raise, world, docker, Pcs, LockRow, NoLock
<1>1. CASE Check(r)
  BY <1>1 DEF Check, JudgedByStatus
<1>2. CASE Recover(r)
  BY <1>2 DEF Recover, RecoveredAs
<1>3. CASE Acquire(r)
  BY <1>3 DEF Acquire, acquire_lock, RecoveredAs, JudgedByStatus
<1>4. CASE AcquireRefused(r)
  BY <1>4 DEF AcquireRefused
<1>5. CASE Restart(r)
  BY <1>5 DEF Restart, DispatchWindow
<1>6. CASE LateRestart(r)
  BY <1>6 DEF LateRestart
<1>7. CASE FinishSuccess(r) \/ FinishNotFound(r) \/ ReconcileSuccess(r)
  BY <1>7 DEF FinishSuccess, FinishNotFound, ReconcileSuccess, FinishAndRelease
<1>8. CASE ReconcileUncertain(r)
  <2>1. [lock EXCEPT !.status = "quarantined", !.owner = Nobody] \in LockRow
    BY Zenon DEF LockRow
  <2>2. lock' \in LockRow
    BY Zenon, <1>8, <2>1 DEF ReconcileUncertain, quarantine_resource
  <2> QED
    BY <1>8, <2>2 DEF ReconcileUncertain
<1>9. CASE Delete(r)
  BY <1>9 DEF Delete
<1>10. CASE Abort(r)
  BY <1>10 DEF Abort
<1> QED
  BY <1>1, <1>2, <1>3, <1>4, <1>5, <1>6, <1>7, <1>8, <1>9, <1>10 DEF Step

LEMMA StepKeepsRecord ==
  ASSUME IInv, NEW r \in Runs, Step(r)
  PROVE  (RecordInv /\ OutcomesAgree)'
<1> USE ExecutionAssumption
    DEF IInv, TypeOK, RecordInv, OutcomesAgree, Dispatched, Holding,
        Goto, Return, Raise, world, docker
<1>1. CASE Check(r)
  BY <1>1 DEF Check, JudgedByStatus
<1>2. CASE Recover(r)
  BY <1>2 DEF Recover, RecoveredAs, RowLocked
<1>3. CASE Acquire(r)
  BY <1>3 DEF Acquire, RecoveredAs, JudgedByStatus, RowLocked
<1>4. CASE AcquireRefused(r)
  BY <1>4 DEF AcquireRefused
<1>5. CASE Restart(r)
  BY <1>5 DEF Restart
<1>6. CASE LateRestart(r)
  BY <1>6 DEF LateRestart
<1>7. CASE FinishSuccess(r) \/ FinishNotFound(r) \/ ReconcileSuccess(r)
  BY <1>7 DEF FinishSuccess, FinishNotFound, ReconcileSuccess, FinishAndRelease, RowLocked
<1>8. CASE ReconcileUncertain(r)
  BY <1>8 DEF ReconcileUncertain, RowLocked
<1>9. CASE Delete(r)
  BY <1>9 DEF Delete
<1>10. CASE Abort(r)
  BY <1>10 DEF Abort
<1> QED
  BY Zenon, <1>1, <1>2, <1>3, <1>4, <1>5, <1>6, <1>7, <1>8, <1>9, <1>10 DEF Step

(* The environment touches neither the records nor the runs. *)
LEMMA EnvironmentKeeps ==
  ASSUME IInv, ExpireLock \/ ContainerStops \/ OperatorStop
  PROVE  IInv'
<1>1. UNCHANGED <<pc, exec, seen, verdict, outcome, issued>>
  BY DEF ExpireLock, ContainerStops, OperatorStop, world, docker
<1>2. TypeOK'
  <2>1. CASE ExpireLock
    <3>1. [lock EXCEPT !.status = "expired"] \in LockRow
      BY DEF IInv, TypeOK, LockRow
    <3> QED
      BY <2>1, <3>1 DEF ExpireLock, docker, IInv, TypeOK
  <2>2. CASE ContainerStops
    BY <2>2, ExecutionAssumption DEF ContainerStops, IInv, TypeOK
  <2>3. CASE OperatorStop
    <3>1. stopped' \in BOOLEAN
      BY <2>3, Zenon DEF OperatorStop
    <3> QED
      BY <2>3, <3>1 DEF OperatorStop, IInv, TypeOK
  <2> QED
    BY <2>1, <2>2, <2>3
<1>3. (RecordInv /\ OutcomesAgree)'
  BY <1>1 DEF IInv, RecordInv, OutcomesAgree, Dispatched
<1> QED
  BY <1>2, <1>3 DEF IInv

LEMMA InitEstablishes == Init => IInv
<1> SUFFICES ASSUME Init PROVE IInv
  OBVIOUS
<1>1. TypeOK
  <2>1. stopped \in BOOLEAN /\ undercut \in BOOLEAN
    BY Zenon DEF Init
  <2>2. lock \in LockRow
    BY DEF Init, LockRow, NoLock
  <2> QED
    BY <2>1, <2>2, ExecutionAssumption DEF Init, TypeOK, Pcs
<1>2. RecordInv /\ OutcomesAgree
  BY DEF Init, RecordInv, OutcomesAgree, Dispatched, Holding
<1> QED
  BY <1>1, <1>2 DEF IInv

LEMMA NextPreserves == IInv /\ [Next]_vars => IInv'
<1> SUFFICES ASSUME IInv, [Next]_vars PROVE IInv'
  OBVIOUS
<1>1. CASE \E r \in Runs : Step(r)
  BY <1>1, StepTyped, StepKeepsRecord DEF IInv
<1>2. CASE ExpireLock \/ ContainerStops \/ OperatorStop
  BY <1>2, EnvironmentKeeps
<1>3. CASE UNCHANGED vars
  BY <1>3 DEF vars, IInv, TypeOK, RecordInv, OutcomesAgree, Dispatched
<1> QED
  BY <1>1, <1>2, <1>3 DEF Next

THEOREM Invariance == Spec => []IInv
BY InitEstablishes, NextPreserves, PTL DEF Spec

(* Every variable of the execution protocol keeps its type. *)
THEOREM TypeCorrect == Spec => []TypeOK
<1>1. IInv => TypeOK
  BY DEF IInv
<1> QED
  BY <1>1, Invariance, PTL

(* An attempt sends at most one restart request, after its record, for any *)
(* number of runs, crashes, lock expiries and late effects.                *)
THEOREM RestartAtMostOnce == Spec => []AtMostOneRestart
<1>1. IInv => AtMostOneRestart
  BY DEF IInv, TypeOK, RecordInv, AtMostOneRestart, Dispatched
<1> QED
  BY <1>1, Invariance, PTL

(* All runs of an attempt report what its execution record says for good.  *)
THEOREM ReportsAgree == Spec => []OutcomesAgree
<1>1. IInv => OutcomesAgree
  BY DEF IInv
<1> QED
  BY <1>1, Invariance, PTL

-----------------------------------------------------------------------------
(* What the callers see *)

Calls == [r \in Runs |-> CallOf(r)]

Places ==
  \A r \in Runs :
    /\ pc[r] \in {"start", "recover", "acquire"} => Calls[r] = Adapter!In(KeyOf[r], "called")
    /\ pc[r] \in Holding => Calls[r] = Adapter!In(KeyOf[r], "restarting")
    /\ pc[r] = "done" /\ outcome[r] = "SUCCEEDED" => Calls[r] = Adapter!In(KeyOf[r], "SUCCEEDED")
    /\ pc[r] = "done" /\ outcome[r] # "SUCCEEDED" => Calls[r] = Adapter!In(KeyOf[r], "FAILED")
    /\ pc[r] = "aborted" => Calls[r] = Adapter!Out

LEMMA CallsAre == Places /\ Places'
<1>1. Places
  BY DEF Places, Calls, CallOf, Holding, Adapter!In, Adapter!Out
<1>2. Places'
  BY DEF Places, Calls, CallOf, Holding, Adapter!In, Adapter!Out
<1> QED
  BY <1>1, <1>2

(* Only the call of the run that moves changes. *)
LEMMA OneMoves ==
  ASSUME TypeOK, NEW r \in Runs,
         \A s \in Runs \ {r} : pc'[s] = pc[s] /\ outcome'[s] = outcome[s]
  PROVE  Calls' = [Calls EXCEPT ![r] = Calls'[r]]
<1>1. \A s \in Runs \ {r} : CallOf(s)' = CallOf(s)
  BY Zenon DEF CallOf
<1> QED
  BY Zenon, <1>1 DEF Calls

LEMMA MovesAlone ==
  ASSUME TypeOK, NEW r \in Runs, Step(r)
  PROVE  \A s \in Runs \ {r} : pc'[s] = pc[s] /\ outcome'[s] = outcome[s]
<1> USE DEF TypeOK, Goto, Return, Raise
<1>1. CASE Check(r) \/ Recover(r) \/ Acquire(r) \/ AcquireRefused(r)
  BY <1>1 DEF Check, Recover, Acquire, AcquireRefused
<1>2. CASE Restart(r) \/ LateRestart(r)
  BY <1>2 DEF Restart, LateRestart
<1>3. CASE FinishSuccess(r) \/ FinishNotFound(r) \/ ReconcileSuccess(r) \/ ReconcileUncertain(r)
  BY <1>3 DEF FinishSuccess, FinishNotFound, ReconcileSuccess, FinishAndRelease, ReconcileUncertain
<1>4. CASE Delete(r) \/ Abort(r)
  BY <1>4 DEF Delete, Abort
<1> QED
  BY <1>1, <1>2, <1>3, <1>4 DEF Step

(* The step of a run as its caller sees it *)
Seen(r) ==
  \/ UNCHANGED exec /\ Calls'[r] = Calls[r]
  \/ UNCHANGED exec /\ Calls'[r] = Adapter!Out
  \/ /\ Calls[r] = Adapter!In(KeyOf[r], "called") /\ exec[KeyOf[r]] = "none"
     /\ exec' = [exec EXCEPT ![KeyOf[r]] = "RUNNING"]
     /\ Calls'[r] = Adapter!In(KeyOf[r], "restarting")
  \/ \E status \in Adapter!Outcomes :
       /\ \/ /\ Calls[r] = Adapter!In(KeyOf[r], "called")
             /\ exec[KeyOf[r]] \in {"RUNNING", status}
          \/ Calls[r] = Adapter!In(KeyOf[r], "restarting") /\ exec[KeyOf[r]] = "RUNNING"
       /\ exec' = [exec EXCEPT ![KeyOf[r]] = status]
       /\ Calls'[r] = Adapter!In(KeyOf[r], status)

LEMMA SeenIsStep ==
  ASSUME IInv, NEW r \in Runs, Step(r), Seen(r)
  PROVE  Adapter!Next
<1>1. Calls' = [Calls EXCEPT ![r] = Calls'[r]]
  BY Zenon, OneMoves, MovesAlone DEF IInv
<1>2. KeyOf[r] \in Keys
  BY ExecutionAssumption
<1>3. CASE UNCHANGED exec /\ Calls'[r] \in {Calls[r], Adapter!Out}
  <2>1. PICK gone \in SUBSET Runs : gone = IF Calls'[r] = Calls[r] THEN {} ELSE {r}
    BY Zenon
  <2>2. Calls' = [s \in Runs |-> IF s \in gone THEN Adapter!Out ELSE Calls[s]]
    BY Zenon, <1>1, <1>3, <2>1 DEF Calls
  <2>3. Adapter!Leave(gone)
    BY Zenon, <1>3, <2>2 DEF Adapter!Leave, Calls
  <2> QED
    BY Zenon, <2>3 DEF Adapter!Next
<1>4. CASE /\ Calls[r] = Adapter!In(KeyOf[r], "called") /\ exec[KeyOf[r]] = "none"
           /\ exec' = [exec EXCEPT ![KeyOf[r]] = "RUNNING"]
           /\ Calls'[r] = Adapter!In(KeyOf[r], "restarting")
  <2>1. Adapter!Begin(r, KeyOf[r])
    BY Zenon, <1>1, <1>4 DEF Adapter!Begin, Calls
  <2> QED
    BY Zenon, <1>2, <2>1 DEF Adapter!Next
<1>5. ASSUME NEW status \in Adapter!Outcomes,
             \/ /\ Calls[r] = Adapter!In(KeyOf[r], "called")
                /\ exec[KeyOf[r]] \in {"RUNNING", status}
             \/ Calls[r] = Adapter!In(KeyOf[r], "restarting") /\ exec[KeyOf[r]] = "RUNNING",
             exec' = [exec EXCEPT ![KeyOf[r]] = status],
             Calls'[r] = Adapter!In(KeyOf[r], status)
      PROVE  Adapter!Next
  <2>1. Adapter!Return(r, KeyOf[r], status)
    BY Zenon, <1>1, <1>5 DEF Adapter!Return, Calls
  <2>2. Adapter!Reuse(r, KeyOf[r], status) \/ Adapter!Finish(r, KeyOf[r], status)
    BY Zenon, <1>5, <2>1 DEF Adapter!Reuse, Adapter!Finish, Calls
  <2> QED
    BY Zenon, <1>2, <2>2 DEF Adapter!Next
<1> QED
  BY Zenon, <1>3, <1>4, <1>5 DEF Seen

LEMMA StepIsSeen ==
  ASSUME IInv, NEW r \in Runs, Step(r)
  PROVE  Seen(r)
<1> USE CallsAre, ExecutionAssumption
    DEF IInv, TypeOK, Goto, Return, Raise, Places, Holding, Seen, Adapter!Outcomes
<1>1. CASE Check(r)
  BY <1>1 DEF Check
<1>2. CASE Recover(r)
  BY <1>2 DEF Recover, RecoveredAs, RecordInv
<1>3. CASE Acquire(r)
  BY <1>3 DEF Acquire, RecoveredAs, JudgedByStatus
<1>4. CASE AcquireRefused(r) \/ Abort(r)
  BY <1>4 DEF AcquireRefused, Abort
<1>5. CASE Restart(r)
  BY <1>5 DEF Restart
<1>6. CASE LateRestart(r)
  BY <1>6 DEF LateRestart, Calls, CallOf
<1>7. CASE FinishSuccess(r) \/ FinishNotFound(r) \/ ReconcileSuccess(r)
  BY <1>7 DEF FinishSuccess, FinishNotFound, ReconcileSuccess, FinishAndRelease
<1>8. CASE ReconcileUncertain(r)
  BY <1>8 DEF ReconcileUncertain
<1>9. CASE Delete(r)
  <2>1. /\ exec[KeyOf[r]] = "RUNNING" /\ Calls[r] = Adapter!In(KeyOf[r], "restarting")
        /\ verdict[r] \in Adapter!Outcomes
    BY <1>9 DEF Delete, RecordInv
  <2>2. pc'[r] = "done" /\ outcome'[r] = verdict[r]
    BY <1>9 DEF Delete
  <2>3. Calls'[r] = Adapter!In(KeyOf[r], verdict[r])
    BY <2>1, <2>2
  <2>4. exec' = [exec EXCEPT ![KeyOf[r]] = verdict[r]]
    BY <1>9 DEF Delete
  <2> QED
    BY Zenon, <2>1, <2>3, <2>4 DEF Seen
<1> QED
  BY Zenon, <1>1, <1>2, <1>3, <1>4, <1>5, <1>6, <1>7, <1>8, <1>9 DEF Step

(* Whatever its locks, timeouts and recoveries do, adapter.execute gives   *)
(* its callers what AdapterCalls promises, and IncidentWorkflow assumes.   *)
THEOREM ExecutionRefinesAdapter == Spec => ImplementsAdapter
<1>1. Init => Adapter!Init
  <2> SUFFICES ASSUME Init PROVE Adapter!Init
    OBVIOUS
  <2>1. \A r \in Runs : Calls[r] = Adapter!In(KeyOf[r], "called") /\ KeyOf[r] \in Keys
    BY CallsAre, ExecutionAssumption DEF Init, Places
  <2>2. Calls \in [Runs -> {Adapter!Out} \cup {Adapter!In(k, "called") : k \in Keys}]
    BY Zenon, <2>1 DEF Calls
  <2> QED
    BY Zenon, <2>2 DEF Init, Adapter!Init, Calls
<1>2. IInv /\ [Next]_vars => [Adapter!Next]_(Adapter!vars)
  <2> SUFFICES ASSUME IInv, [Next]_vars PROVE Adapter!Next \/ UNCHANGED Adapter!vars
    OBVIOUS
  <2>1. CASE \E r \in Runs : Step(r)
    BY Zenon, <2>1, StepIsSeen, SeenIsStep
  <2>2. CASE ExpireLock \/ ContainerStops \/ OperatorStop \/ UNCHANGED vars
    <3>1. UNCHANGED <<pc, exec, outcome>>
      BY <2>2 DEF ExpireLock, ContainerStops, OperatorStop, docker, vars
    <3>2. \A r \in Runs : CallOf(r)' = CallOf(r)
      BY Zenon, <3>1 DEF CallOf
    <3>3. Calls' = Calls
      BY Zenon, <3>2 DEF Calls
    <3> QED
      BY <3>1, <3>3 DEF Adapter!vars, Calls
  <2> QED
    BY <2>1, <2>2 DEF Next
<1> QED
  BY <1>1, <1>2, Invariance, PTL DEF Spec, ImplementsAdapter, Adapter!Spec

-----------------------------------------------------------------------------
(* Until a run at work loses its lock *)

LockInv ==
  ~undercut =>
    /\ \A r \in Runs : pc[r] \in Holding =>
         lock = [status |-> "live", owner |-> OwnerOf[r], token |-> r]
    /\ \A r \in issued : outcome[r] = "UNCERTAIN" => lock.status = "quarantined"

(* What has been undercut stays so. *)
LEMMA OnceUndercut ==
  ASSUME IInv, [Next]_vars, ~undercut'
  PROVE  ~undercut
<1>1. CASE \E r \in Runs : Acquire(r)
  BY Zenon, <1>1 DEF Acquire, acquire_lock
<1>2. CASE ExpireLock
  BY Zenon, <1>2 DEF ExpireLock
<1>3. ASSUME NEW r \in Runs, Step(r), ~Acquire(r) PROVE undercut' = undercut
  BY Zenon, <1>3 DEF Step, Check, Recover, AcquireRefused, Restart, LateRestart, FinishSuccess,
     FinishNotFound, ReconcileSuccess, FinishAndRelease, ReconcileUncertain, Delete, Abort, world
<1>4. CASE ContainerStops \/ OperatorStop \/ UNCHANGED vars
  BY Zenon, <1>4 DEF ContainerStops, OperatorStop, vars
<1> QED
  BY Zenon, <1>1, <1>2, <1>3, <1>4 DEF Next

LEMMA StepKeepsLock ==
  ASSUME IInv, LockInv, NEW r \in Runs, Step(r), ~undercut, ~undercut'
  PROVE  LockInv'
<1> USE ExecutionAssumption
    DEF IInv, TypeOK, RecordInv, LockInv, Holding, Goto, Return, Raise, world, docker
<1>1. CASE Check(r)
  BY <1>1 DEF Check
<1>2. CASE Recover(r)
  BY <1>2 DEF Recover
<1>3. CASE Acquire(r)
  <2>1. ASSUME NEW s \in Runs, pc[s] \in Holding PROVE FALSE
    <3>1. lock.status = "live" /\ lock.token = s
      BY <2>1
    <3>2. lock.owner = OwnerOf[r]
      BY <1>3, <3>1 DEF Acquire, acquire_lock, CanAcquire
    <3>3. AtWork
      BY Zenon, <2>1, <3>1 DEF AtWork, Holding
    <3> QED
      BY Zenon, <1>3, <3>2, <3>3 DEF Acquire, acquire_lock
  <2>2. lock.status # "quarantined"
    BY <1>3 DEF Acquire, acquire_lock, CanAcquire, check_safety
  <2> QED
    BY <1>3, <2>1, <2>2 DEF Acquire, acquire_lock
<1>4. CASE AcquireRefused(r)
  BY <1>4 DEF AcquireRefused
<1>5. CASE Restart(r)
  BY <1>5 DEF Restart
<1>6. CASE LateRestart(r)
  BY <1>6 DEF LateRestart
<1>7. CASE FinishSuccess(r) \/ FinishNotFound(r) \/ ReconcileSuccess(r)
  BY <1>7 DEF FinishSuccess, FinishNotFound, ReconcileSuccess, FinishAndRelease
<1>8. CASE ReconcileUncertain(r)
  <2>1. \A s \in Runs : pc[s] \in Holding => s = r
    BY <1>8 DEF ReconcileUncertain
  <2>2. CASE exec[KeyOf[r]] = "RUNNING"
    <3>1. lock' = [lock EXCEPT !.status = "quarantined", !.owner = Nobody]
      BY <1>8, <2>2 DEF ReconcileUncertain, quarantine_resource
    <3>2. lock'.status = "quarantined"
      BY <3>1 DEF LockRow
    <3>3. \A s \in Runs : pc'[s] \notin Holding
      BY <1>8, <2>1, <2>2 DEF ReconcileUncertain
    <3> QED
      BY <3>2, <3>3
  <2>3. CASE exec[KeyOf[r]] # "RUNNING"
    BY <1>8, <2>3 DEF ReconcileUncertain
  <2> QED
    BY <2>2, <2>3
<1>9. CASE Delete(r)
  <2>1. /\ lock.status = "live"
        /\ \A s \in Runs : pc[s] \in Holding => s = r
    BY <1>9 DEF Delete
  <2> QED
    BY <1>9, <2>1 DEF Delete
<1>10. CASE Abort(r)
  BY <1>10 DEF Abort
<1> QED
  BY <1>1, <1>2, <1>3, <1>4, <1>5, <1>6, <1>7, <1>8, <1>9, <1>10 DEF Step

LEMMA NextKeepsLock == IInv /\ LockInv /\ [Next]_vars => LockInv'
<1> SUFFICES ASSUME IInv, LockInv, [Next]_vars, ~undercut' PROVE LockInv'
  BY Zenon DEF LockInv
<1>0. ~undercut
  BY Zenon, OnceUndercut
<1>1. CASE \E r \in Runs : Step(r)
  BY <1>0, <1>1, StepKeepsLock
<1>2. CASE ExpireLock
  <2>1. \A r \in Runs : pc[r] \notin Holding
    <3>1. lock.status = "live" /\ ~AtWork
      BY Zenon, <1>2 DEF ExpireLock
    <3> QED
      BY <1>0, <3>1 DEF LockInv, AtWork
  <2> QED
    BY <1>0, <1>2, <2>1 DEF ExpireLock, docker, LockInv
<1>3. CASE ContainerStops \/ OperatorStop \/ UNCHANGED vars
  BY Zenon, <1>3 DEF ContainerStops, OperatorStop, vars, LockInv
<1> QED
  BY <1>1, <1>2, <1>3 DEF Next

LEMMA LockInvariance == Spec => []LockInv
<1>1. Init => LockInv
  BY DEF Init, LockInv, Holding
<1> QED
  BY <1>1, NextKeepsLock, Invariance, PTL DEF Spec

(* For any workers and times, no two runs are between acquiring and        *)
(* releasing the resource lock unless a run at work had lost its lock      *)
(* before, by expiry or to a run of its own worker.                        *)
THEOREM Exclusion == Spec => []WorkersExclude
<1>1. LockInv => WorkersExclude
  BY DEF LockInv, WorkersExclude, OneAtATime
<1> QED
  BY <1>1, LockInvariance, PTL

(* Until then an uncertain restart quarantines the resource for good, and  *)
(* nobody is left who could restart it.                                    *)
THEOREM QuarantineHolds == Spec => []UncertainQuarantined
<1>1. LockInv => UncertainQuarantined
  BY DEF LockInv, UncertainQuarantined
<1> QED
  BY <1>1, LockInvariance, PTL

=============================================================================
