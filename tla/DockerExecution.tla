--------------------------- MODULE DockerExecution ---------------------------
(***************************************************************************)
(* DockerExecutionAdapter.execute on one container: the idempotency        *)
(* record, the resource lock, the restart itself, and what happens when    *)
(* the Docker daemon does not answer or the process dies half way.         *)
(*                                                                         *)
(* A run is one call of execute.  Runs with the same key are the same      *)
(* attempt of the same incident, started again.  execute_node builds an    *)
(* adapter, and with it a fresh in-process dispatch lock, for every call:  *)
(* that lock is always free, so it does not appear here.                   *)
(*                                                                         *)
(* A step is a transaction or a call to Docker.  The one transaction that  *)
(* is split is the last: release_lock reads the lock row without locking   *)
(* it and then deletes it by primary key.  The version of an execution     *)
(* record is a function of its status, so the status stands for both.      *)
(***************************************************************************)
EXTENDS Naturals, FiniteSets

CONSTANTS
  Runs,               \* calls of execute
  Workers,            \* worker identities: the actor that owns a lock
  Keys,               \* idempotency keys
  OwnerOf,            \* the worker that makes each run
  KeyOf,              \* the idempotency key of each run
  Nobody,             \* no owner, no token; also "system:quarantine"
  StopLimit           \* bound: times the container may stop by itself

ASSUME ExecutionAssumption ==
  /\ OwnerOf \in [Runs -> Workers]
  /\ KeyOf \in [Runs -> Keys]
  /\ Nobody \notin Workers \cup Runs
  /\ StopLimit \in Nat

VARIABLES
  pc,         \* per run: where its call of execute stands
  exec,       \* per key: status of the committed execution record
  lock,       \* the resource_locks row of the container's resource
  container,  \* what docker inspect shows
  starts,     \* container starts so far, what StartedAt and RestartCount show
  seen,       \* per run: starts that do not count as a result of its restart
  verdict,    \* per run: the status it is about to write
  outcome,    \* per run: the ExecutionOutcome it returned
  issued,     \* runs that sent a restart request to the daemon
  inflight,   \* runs whose request timed out and may still take effect
  stopped,    \* automation is DISABLED or the resource emergency-stopped
  stops,      \* container stops so far, up to StopLimit
  undercut    \* history: a run at work has lost its lock, see AtWork

vars == <<pc, exec, lock, container, starts, seen, verdict, outcome, issued,
          inflight, stopped, stops, undercut>>

Pcs == {"start", "recover", "acquire", "dispatch", "restarted", "notfound",
        "unsure", "deleting", "done", "aborted"}

(* A run holds, or believes it holds, the resource lock. *)
Holding == {"dispatch", "restarted", "notfound", "unsure", "deleting"}

LockRow == [status : {"free", "live", "expired", "quarantined"},
            owner : Workers \cup {Nobody}, token : Runs \cup {Nobody}]

NoLock == [status |-> "free", owner |-> Nobody, token |-> Nobody]

TypeOK ==
  /\ pc \in [Runs -> Pcs]
  /\ exec \in [Keys -> {"none", "RUNNING", "SUCCEEDED", "FAILED"}]
  /\ lock \in LockRow
  /\ container \in {"running", "exited", "gone"}
  /\ starts \in Nat
  /\ seen \in [Runs -> Nat]
  /\ verdict \in [Runs -> {"none", "SUCCEEDED", "FAILED"}]
  /\ outcome \in [Runs -> {"none", "SUCCEEDED", "FAILED", "UNCERTAIN"}]
  /\ issued \subseteq Runs
  /\ inflight \subseteq Runs
  /\ stopped \in BOOLEAN
  /\ stops \in 0 .. StopLimit
  /\ undercut \in BOOLEAN

Init ==
  /\ pc = [r \in Runs |-> "start"]
  /\ exec = [k \in Keys |-> "none"]
  /\ lock = NoLock
  /\ container \in {"running", "exited"}
  /\ starts = 0
  /\ seen = [r \in Runs |-> 0]
  /\ verdict = [r \in Runs |-> "none"]
  /\ outcome = [r \in Runs |-> "none"]
  /\ issued = {}
  /\ inflight = {}
  /\ stopped = FALSE
  /\ stops = 0
  /\ undercut = FALSE

-----------------------------------------------------------------------------
docker == <<container, starts, issued, inflight, stopped, stops>>
world  == <<docker, undercut>>

(* An uncommitted UPDATE of the record makes other writers of it wait. *)
RowLocked(k) == \E r \in Runs : pc[r] = "deleting" /\ KeyOf[r] = k

JudgedByStatus_Raw == container

(* Crash recovery judges a RUNNING record by the container being up. *)
JudgedByStatus == IF container = "running" THEN "SUCCEEDED" ELSE "FAILED"

(* What the caller is told when crash recovery writes status v. *)
RecoveredAs(v) == IF v = "SUCCEEDED" THEN "SUCCEEDED" ELSE "UNCERTAIN"

Goto(r, l) == pc' = [pc EXCEPT ![r] = l]

Return(r, o) == Goto(r, "done") /\ outcome' = [outcome EXCEPT ![r] = o]

(* An exception leaves execute and the open transaction is rolled back.   *)
Raise(r) == Goto(r, "aborted") /\ UNCHANGED <<exec, lock, seen, verdict, outcome>>

(* Step 0: look for a record of an earlier run with this key. *)
Check(r) ==
  /\ pc[r] = "start"
  /\ UNCHANGED world
  /\ \/ /\ exec[KeyOf[r]] = "none" /\ container # "gone"
        /\ seen' = [seen EXCEPT ![r] = starts]
        /\ Goto(r, "acquire")
        /\ UNCHANGED <<exec, lock, verdict, outcome>>
     \/ /\ exec[KeyOf[r]] \in {"SUCCEEDED", "FAILED"}
        /\ Return(r, exec[KeyOf[r]])
        /\ UNCHANGED <<exec, lock, seen, verdict>>
     \/ /\ exec[KeyOf[r]] = "RUNNING" /\ container # "gone"
        /\ verdict' = [verdict EXCEPT ![r] = JudgedByStatus]
        /\ Goto(r, "recover")
        /\ UNCHANGED <<exec, lock, seen, outcome>>
     \/ /\ exec[KeyOf[r]] \in {"none", "RUNNING"} /\ container = "gone"
        /\ Raise(r)

Recover_NoVersionCheck(r) ==
  /\ pc[r] = "recover"
  /\ UNCHANGED world
  /\ exec' = [exec EXCEPT ![KeyOf[r]] = verdict[r]]
  /\ Return(r, RecoveredAs(verdict[r]))
  /\ UNCHANGED <<lock, seen, verdict>>

(* finish_execution of a record found RUNNING, in a transaction of its own. *)
Recover(r) ==
  /\ pc[r] = "recover"
  /\ ~RowLocked(KeyOf[r])
  /\ UNCHANGED world
  /\ IF exec[KeyOf[r]] = "RUNNING"
       THEN /\ exec' = [exec EXCEPT ![KeyOf[r]] = verdict[r]]
            /\ Return(r, RecoveredAs(verdict[r]))
            /\ UNCHANGED <<lock, seen, verdict>>
       ELSE Raise(r)

-----------------------------------------------------------------------------
(* ResourceLockService *)

check_safety == ~stopped /\ lock.status # "quarantined"

CanAcquire_AnyOwner(w) == check_safety

(* The WHERE clause of the upsert: expired, or already owned by the caller. *)
CanAcquire(w) ==
  /\ check_safety
  /\ lock.status \in {"free", "expired"} \/ lock.owner = w

(* The run that holds the lock is between acquiring and releasing it.      *)
(* It loses the lock if the 120 s are over, or to its own worker.          *)
AtWork == lock.status = "live" /\ \E s \in Runs : lock.token = s /\ pc[s] \in Holding

acquire_lock(r) ==
  /\ CanAcquire(OwnerOf[r])
  /\ lock' = [status |-> "live", owner |-> OwnerOf[r], token |-> r]
  /\ undercut' = (undercut \/ (AtWork /\ lock.owner = OwnerOf[r]))

(* release_lock checks that the row it read is the caller's. *)
OwnsLock(r) == lock.token = r /\ lock.owner = OwnerOf[r]

quarantine_resource_FlagForgotten == lock' = [lock EXCEPT !.owner = Nobody]

(* The upsert keeps the token of the row it finds. *)
quarantine_resource ==
  lock' = [lock EXCEPT !.status = "quarantined", !.owner = Nobody]

-----------------------------------------------------------------------------
(* Steps 1 and 2, one transaction: take the lock and record the intent.    *)
(* If the record already exists the call returns and keeps the lock.       *)
Acquire_NoIdempotency(r) ==
  /\ pc[r] = "acquire"
  /\ UNCHANGED <<docker, seen, verdict>>
  /\ acquire_lock(r)
  /\ exec' = [exec EXCEPT ![KeyOf[r]] = "RUNNING"]
  /\ Goto(r, "dispatch")
  /\ UNCHANGED outcome

Acquire(r) ==
  /\ pc[r] = "acquire"
  /\ UNCHANGED <<docker, seen, verdict>>
  /\ acquire_lock(r)
  /\ \/ /\ exec[KeyOf[r]] = "none"
        /\ exec' = [exec EXCEPT ![KeyOf[r]] = "RUNNING"]
        /\ Goto(r, "dispatch")
        /\ UNCHANGED outcome
     \/ /\ exec[KeyOf[r]] \in {"SUCCEEDED", "FAILED"}
        /\ Return(r, exec[KeyOf[r]])
        /\ UNCHANGED exec
     \/ /\ exec[KeyOf[r]] = "RUNNING" /\ container # "gone"
        /\ ~RowLocked(KeyOf[r])
        /\ exec' = [exec EXCEPT ![KeyOf[r]] = JudgedByStatus]
        /\ Return(r, RecoveredAs(JudgedByStatus))

(* ResourceLockedError, QuarantinedResourceError, or no container to see. *)
AcquireRefused(r) ==
  /\ pc[r] = "acquire"
  /\ \/ ~CanAcquire(OwnerOf[r])
     \/ exec[KeyOf[r]] = "RUNNING" /\ container = "gone"
  /\ UNCHANGED world
  /\ Raise(r)

(* reconcile accepts a start from up to two seconds before the dispatch:   *)
(* the last start there was may count although the run had seen it.        *)
DispatchWindow(n) == IF n = starts /\ n > 0 THEN n - 1 ELSE n

(* Step 3: the restart request.  The daemon restarts the container, has no *)
(* such container, or the request fails and may yet take effect.           *)
Restart(r) ==
  /\ pc[r] = "dispatch"
  /\ issued' = issued \cup {r}
  /\ UNCHANGED <<exec, lock, verdict, outcome, stopped, stops, undercut>>
  /\ \/ /\ container # "gone"
        /\ container' = "running" /\ starts' = starts + 1
        /\ Goto(r, "restarted")
        /\ UNCHANGED <<seen, inflight>>
     \/ /\ container = "gone"
        /\ Goto(r, "notfound")
        /\ UNCHANGED <<container, starts, seen, inflight>>
     \/ /\ inflight' \in {inflight, inflight \cup {r}}
        /\ seen' = [seen EXCEPT ![r] = DispatchWindow(@)]
        /\ Goto(r, "unsure")
        /\ UNCHANGED <<container, starts>>

(* A timed out request takes effect after all. *)
LateRestart(r) ==
  /\ r \in inflight /\ container # "gone"
  /\ container' = "running" /\ starts' = starts + 1
  /\ inflight' = inflight \ {r}
  /\ UNCHANGED <<pc, exec, lock, seen, verdict, outcome, issued, stopped, stops, undercut>>

-----------------------------------------------------------------------------
(* finish_execution and release_lock, up to the check of the lock row. *)
FinishAndRelease(r, status, o) ==
  /\ ~RowLocked(KeyOf[r])
  /\ UNCHANGED <<world, seen, lock>>
  /\ \/ /\ exec[KeyOf[r]] = "RUNNING" /\ lock.status = "free"
        /\ exec' = [exec EXCEPT ![KeyOf[r]] = status]
        /\ Return(r, o)
        /\ UNCHANGED verdict
     \/ /\ exec[KeyOf[r]] = "RUNNING" /\ OwnsLock(r)
        /\ verdict' = [verdict EXCEPT ![r] = status]
        /\ Goto(r, "deleting")
        /\ UNCHANGED <<exec, outcome>>
     \/ /\ exec[KeyOf[r]] # "RUNNING" \/ (lock.status # "free" /\ ~OwnsLock(r))
        /\ Goto(r, "aborted")
        /\ UNCHANGED <<exec, verdict, outcome>>

(* Step 5, and the ContainerNotFoundError branch of step 3. *)
FinishSuccess(r) ==
  pc[r] = "restarted" /\ container # "gone" /\ FinishAndRelease(r, "SUCCEEDED", "SUCCEEDED")

FinishNotFound(r) ==
  pc[r] = "notfound" /\ FinishAndRelease(r, "FAILED", "FAILED")

(* Step 4: reconcile sees a start that is recent enough. *)
ReconcileSuccess(r) ==
  /\ pc[r] = "unsure" /\ container # "gone" /\ starts > seen[r]
  /\ FinishAndRelease(r, "SUCCEEDED", "SUCCEEDED")

(* Step 4: reconcile proves nothing, or the daemon does not answer. *)
ReconcileUncertain(r) ==
  /\ pc[r] = "unsure"
  /\ ~RowLocked(KeyOf[r])
  /\ UNCHANGED <<world, seen, verdict>>
  /\ IF exec[KeyOf[r]] = "RUNNING"
       THEN /\ exec' = [exec EXCEPT ![KeyOf[r]] = "FAILED"]
            /\ quarantine_resource
            /\ Return(r, "UNCERTAIN")
       ELSE Goto(r, "aborted") /\ UNCHANGED <<exec, lock, outcome>>

(* DELETE FROM resource_locks WHERE resource_id = ..., and commit. *)
Delete(r) ==
  /\ pc[r] = "deleting"
  /\ lock' = NoLock
  /\ exec' = [exec EXCEPT ![KeyOf[r]] = verdict[r]]
  /\ Return(r, verdict[r])
  /\ UNCHANGED <<world, seen, verdict>>

(* The worker dies, the database fails or aborts the transaction, or the   *)
(* snapshot after the restart finds no container.                          *)
Abort(r) ==
  /\ pc[r] \notin {"start", "done", "aborted"}
  /\ UNCHANGED world
  /\ Raise(r)

-----------------------------------------------------------------------------
(* The environment *)

ExpireLock ==
  /\ lock.status = "live"
  /\ lock' = [lock EXCEPT !.status = "expired"]
  /\ undercut' = (undercut \/ AtWork)
  /\ UNCHANGED <<pc, exec, seen, verdict, outcome, docker>>

ContainerStops ==
  /\ stops < StopLimit /\ container # "gone"
  /\ stops' = stops + 1
  /\ container' \in {"exited", "gone"}
  /\ UNCHANGED <<pc, exec, lock, seen, verdict, outcome, starts, issued, inflight, stopped,
                 undercut>>

OperatorStop ==
  /\ stopped' = ~stopped
  /\ UNCHANGED <<pc, exec, lock, seen, verdict, outcome,
                 container, starts, issued, inflight, stops, undercut>>

Step(r) ==
  \/ Check(r) \/ Recover(r) \/ Acquire(r) \/ AcquireRefused(r)
  \/ Restart(r) \/ LateRestart(r)
  \/ FinishSuccess(r) \/ FinishNotFound(r)
  \/ ReconcileSuccess(r) \/ ReconcileUncertain(r)
  \/ Delete(r) \/ Abort(r)

Next ==
  \/ \E r \in Runs : Step(r)
  \/ ExpireLock \/ ContainerStops \/ OperatorStop

Spec == Init /\ [][Next]_vars

-----------------------------------------------------------------------------
(* The idempotency record is a write-ahead log: whoever crashes, retries   *)
(* or runs twice, an attempt sends at most one restart request, and only   *)
(* after its record was committed.                                         *)
AtMostOneRestart ==
  \A r \in issued :
    /\ exec[KeyOf[r]] # "none"
    /\ \A s \in issued : KeyOf[r] = KeyOf[s] => r = s

(* Runs of the same attempt never disagree on whether it succeeded, and    *)
(* what each reported is what the execution record says for good.          *)
OutcomesAgree ==
  \A r \in Runs :
    /\ outcome[r] = "SUCCEEDED" => exec[KeyOf[r]] = "SUCCEEDED"
    /\ outcome[r] \in {"FAILED", "UNCERTAIN"} => exec[KeyOf[r]] = "FAILED"

(* An exclusive lock: one run at a time is between acquire_lock and        *)
(* release_lock, and so inside a restart of the container.                 *)
OneAtATime ==
  \A r, s \in Runs : pc[r] \in Holding /\ pc[s] \in Holding => r = s

(* Nothing but a lock that expired under a run, or was taken over by a run *)
(* of the same worker, lets a second run in beside one that is at work.    *)
WorkersExclude == undercut \/ OneAtATime

(* Unless a run at work has lost its lock in one of these ways, a resource *)
(* stays quarantined once a run has given up on an uncertain restart, and  *)
(* nobody is left who could restart it before an operator looks.           *)
UncertainQuarantined ==
  undercut \/ \A r \in issued :
    outcome[r] = "UNCERTAIN" =>
      lock.status = "quarantined" /\ \A s \in Runs : pc[s] \notin Holding

(* release_lock removes the lock row only for the run whose token the row  *)
(* carries when it goes: an expired worker cannot release a new worker's.  *)
NoForeignRelease ==
  [][lock.status # "free" /\ lock'.status = "free"
       => \E r \in Runs : pc[r] = "deleting" /\ pc'[r] = "done" /\ lock.token = r]_vars

(* When the runs of an attempt are over, SUCCEEDED stands for a restart    *)
(* that was at least requested: what cannot be proven is not a success.    *)
SucceededWasRestarted ==
  \A k \in Keys :
    /\ exec[k] = "SUCCEEDED"
    /\ \A r \in Runs : KeyOf[r] = k => pc[r] \in {"start", "done", "aborted"}
    => \E r \in issued : KeyOf[r] = k

-----------------------------------------------------------------------------
(* What the caller of a run knows of it. *)
CallOf(r) ==
  CASE pc[r] \in {"start", "recover", "acquire"} -> [at |-> "called", key |-> KeyOf[r]]
    [] pc[r] \in Holding -> [at |-> "restarting", key |-> KeyOf[r]]
    [] pc[r] = "done"    -> [at |-> IF outcome[r] = "SUCCEEDED" THEN "SUCCEEDED" ELSE "FAILED",
                             key |-> KeyOf[r]]
    [] OTHER             -> [at |-> "out"]

Adapter == INSTANCE AdapterCalls
             WITH Callers <- Runs, record <- exec, call <- [r \in Runs |-> CallOf(r)]

(* Locks, timeouts, quarantine and crash recovery included, adapter.execute *)
(* gives its callers what IncidentWorkflow takes it for.                    *)
ImplementsAdapter == Adapter!Spec

=============================================================================
