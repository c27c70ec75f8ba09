----------------------- MODULE IncidentCooldownProofs -----------------------
(***************************************************************************)
(* Proof that IncidentWorkflow respects the cooldown, for every number of  *)
(* runs and workers, though they may share owners, lose their leases, fail *)
(* and crash.                                                              *)
(*                                                                         *)
(* verify_node schedules the cooldown with the version it is about to give *)
(* the incident, and run_incident drops every wake-up with an older        *)
(* version.  So a retry can only be begun by a schedule of that version,   *)
(* or by the recovery sweeper when no schedule is left to wait for.        *)
(***************************************************************************)
EXTENDS IncidentWorkflowProofs

-----------------------------------------------------------------------------
(* The incident waits for its retry. *)
Retried == row.attempts = 1 /\ row.state = "DIAGNOSED"

RetryCooldown(s) == s.reason = "COOLDOWN" /\ s.previous_attempt = 1

(* No schedule that can still start a run comes due before the cooldown:   *)
(* an approval wait that was made meanwhile is behind it.                  *)
ScheduleInv(s) ==
  /\ RetryCooldown(s) /\ s.due => 1 \in cooled
  /\ s.version <= row.version \/ RetryCooldown(s)
  /\ Retried /\ s.version >= row.version =>
       \/ 1 \in cooled
       \/ RetryCooldown(s) /\ ~s.due
       \/ s.reason = "AWAITING_APPROVAL" /\ ~s.due /\ row.version \in s.behind

(* Until the cooldown is over its schedule is there, so that the sweeper   *)
(* does not take the incident for stuck.                                   *)
CoolingDown ==
  Retried => \/ 1 \in cooled
             \/ \E s \in schedules : RetryCooldown(s) /\ ~s.due /\ s.version = row.version

(* A notification is older than the retry. *)
InboxInv ==
  \A n \in inbox : n[2] <= row.version /\ (row.attempts = 1 => n[2] < row.version)

Late == {"verify", "resolve", "escalate", "end"}

CooledRun(r) ==
  /\ st[r].version <= row.version
  /\ pc[r] \notin Late /\ st[r].attempts > 0 => 1 \in cooled
  /\ pc[r] = "listed" /\ Retried /\ st[r].version = row.version => 1 \in cooled

CooldownInv ==
  /\ CooldownRespected /\ CoolingDown /\ InboxInv
  /\ \A s \in schedules : ScheduleInv(s)
  /\ \A r \in Runs : CooledRun(r)

-----------------------------------------------------------------------------
(* Steps that count no retry *)

(* A run that is not in the graph and holds no state is not ahead of the   *)
(* incident and has no retry to wait for.                                  *)
LEMMA IdleWaits ==
  ASSUME NEW s \in Runs, pc'[s] = "idle", st'[s] = NoState, row'.version \in Nat
  PROVE  CooledRun(s)'
BY DEF CooledRun, NoState

(* A write that counts no retry ends the waiting. *)
LEMMA WriteEndsWait ==
  ASSUME WorkflowInv, WorkflowInv', RowStep, row'.attempts = row.attempts, row' # row
  PROVE  ~Retried' /\ row'.version > row.version
<1>1. row'.version > row.version
  BY VersionGrows DEF WorkflowInv
<1>2. ASSUME Retried' PROVE FALSE
  <2>1. row.attempts = 1 /\ row.state \in {"DIAGNOSED", "ESCALATED"} /\ row'.state = "DIAGNOSED"
    BY <1>2, RowTyped DEF Retried, WorkflowInv, RowInv, OneRetry
  <2>2. ASSUME NEW t \in States, TransitionAllowed(row, t) PROVE t \in {"PLANNED", "ESCALATED"}
    BY <2>1, <2>2 DEF TransitionAllowed, validate_transition, TRANSITIONS
  <2>3. ~ApprovalRequirable(row)
    BY <2>1 DEF ApprovalRequirable
  <2>4. PICK t \in States : TransitionAllowed(row, t) /\ row' = AfterTransition(row, t)
    BY <2>2, <2>3 DEF RowStep, States
  <2>5. row'.state = t
    BY <2>1, <2>4, RowTyped, Written DEF WorkflowInv, IsRetry
  <2> QED
    BY <2>1, <2>2, <2>4, <2>5
<1> QED
  BY <1>1, <1>2

LEMMA VersionTyped ==
  ASSUME TypeOK
  PROVE  /\ row.version \in Nat /\ row.attempts \in Nat
         /\ \A r \in Runs : st[r].version \in Nat /\ st[r].attempts \in Nat
         /\ \A s \in schedules : s.version \in Nat /\ s.due \in BOOLEAN
         /\ \A n \in inbox : n[2] \in Nat
<1>1. row.version \in Nat /\ row.attempts \in Nat
  BY RowTyped, RetryLimitAssumption
<1>2. \A r \in Runs : st[r].version \in Nat /\ st[r].attempts \in Nat
  BY DEF TypeOK, GraphState
<1>3. \A s \in schedules : s.version \in Nat /\ s.due \in BOOLEAN
  BY DEF TypeOK, Schedules
<1>4. \A n \in inbox : n[2] \in Nat
  BY DEF TypeOK
<1> QED
  BY <1>1, <1>2, <1>3, <1>4

(* What such a step does not touch stays as it must be. *)
LEMMA SchedulesWait ==
  ASSUME WorkflowInv, WorkflowInv', CooldownInv, RowStep, row'.attempts = row.attempts,
         cooled' = cooled, NEW s \in schedules
  PROVE  ScheduleInv(s)'
<1>1. CASE row' = row
  BY <1>1 DEF CooldownInv, ScheduleInv, Retried, RetryCooldown
<1>2. CASE row' # row
  <2>1. ~Retried' /\ row'.version > row.version
    BY <1>2, WriteEndsWait
  <2>2. row.version \in Nat /\ row'.version \in Nat /\ s.version \in Nat
    BY Zenon, VersionTyped DEF WorkflowInv, TypeOK, IncidentRow
  <2> QED
    BY <2>1, <2>2 DEF CooldownInv, ScheduleInv, RetryCooldown
<1> QED
  BY <1>1, <1>2

LEMMA RunsWait ==
  ASSUME WorkflowInv, WorkflowInv', CooldownInv, RowStep, row'.attempts = row.attempts,
         cooled' = cooled, NEW r \in Runs, pc'[r] = pc[r], st'[r] = st[r]
  PROVE  CooledRun(r)'
<1>1. CASE row' = row
  BY <1>1 DEF CooldownInv, CooledRun, Retried
<1>2. CASE row' # row
  <2>1. ~Retried' /\ row'.version > row.version
    BY <1>2, WriteEndsWait
  <2>2. row.version \in Nat /\ row'.version \in Nat /\ st[r].version \in Nat
    BY Zenon, VersionTyped DEF WorkflowInv, TypeOK, IncidentRow
  <2> QED
    BY <2>1, <2>2 DEF CooldownInv, CooledRun
<1> QED
  BY <1>1, <1>2

LEMMA RowWaits ==
  ASSUME WorkflowInv, WorkflowInv', CooldownInv, RowStep, row'.attempts = row.attempts,
         cooled' = cooled, \A s \in schedules : ~s.due => s \in schedules',
         inbox' \subseteq inbox
  PROVE  CoolingDown' /\ InboxInv'
<1>1. CASE row' = row
  <2>1. CoolingDown'
    BY <1>1 DEF CooldownInv, CoolingDown, Retried, RetryCooldown
  <2>2. InboxInv'
    BY <1>1 DEF CooldownInv, InboxInv
  <2> QED
    BY <2>1, <2>2
<1>2. CASE row' # row
  <2>1. ~Retried' /\ row'.version > row.version
    BY <1>2, WriteEndsWait
  <2>2. row.version \in Nat /\ row'.version \in Nat /\ \A n \in inbox : n[2] \in Nat
    BY Zenon, VersionTyped DEF WorkflowInv, TypeOK, IncidentRow
  <2> QED
    BY <2>1, <2>2 DEF CooldownInv, CoolingDown, InboxInv
<1> QED
  BY <1>1, <1>2

(* A step of one run that counts no retry and schedules nothing *)
LEMMA RunStepWaits ==
  ASSUME WorkflowInv, WorkflowInv', CooldownInv, RowStep, row'.attempts = row.attempts,
         cooled' = cooled, schedules' \subseteq schedules,
         \A s \in schedules : ~s.due => s \in schedules', inbox' \subseteq inbox,
         NEW r \in Runs, \A s \in Runs \ {r} : pc'[s] = pc[s] /\ st'[s] = st[s],
         CooledRun(r)', CooldownRespected'
  PROVE  CooldownInv'
<1>1. CoolingDown' /\ InboxInv'
  BY RowWaits
<1>2. \A s \in schedules' : ScheduleInv(s)'
  BY SchedulesWait
<1>3. \A s \in Runs : CooledRun(s)'
  BY RunsWait
<1> QED
  BY <1>1, <1>2, <1>3 DEF CooldownInv

LEMMA SameRespected ==
  ASSUME CooldownInv, exec' = exec, cooled \subseteq cooled'
  PROVE  CooldownRespected'
BY DEF CooldownInv, CooldownRespected

LEMMA StopWaits ==
  ASSUME WorkflowInv, WorkflowInv', CooldownInv, NEW r \in Runs, Stop(r),
         UNCHANGED <<row, exec, cooled, schedules, inbox>>
  PROVE  CooldownInv'
<1>1. /\ pc'[r] = "idle" /\ st'[r] = NoState
      /\ \A s \in Runs \ {r} : pc'[s] = pc[s] /\ st'[s] = st[s]
  BY Zenon DEF Stop, Goto, WorkflowInv, TypeOK
<1>2. CooledRun(r)'
  BY <1>1, VersionTyped DEF CooledRun, NoState, WorkflowInv
<1>3. RowStep
  BY DEF RowStep
<1> QED
  BY <1>1, <1>2, <1>3, SameRespected, RunStepWaits

(* run_incident begins a retry only when the cooldown is over, provided    *)
(* that whoever calls it with the retry's version knows as much.           *)
LEMMA BeginWaits ==
  ASSUME WorkflowInv, WorkflowInv', CooldownInv, NEW r \in Runs, NEW v, run_incident(r, v),
         Retried /\ row.version <= v => 1 \in cooled,
         schedules' \subseteq schedules, \A s \in schedules : ~s.due => s \in schedules',
         inbox' \subseteq inbox
  PROVE  CooldownInv'
<1>1. row' = row /\ exec' = exec /\ cooled' = cooled /\ RowStep
  BY DEF run_incident, trials, RowStep
<1>2. \A s \in Runs \ {r} : pc'[s] = pc[s] /\ st'[s] = st[s]
  BY Zenon DEF WorkflowInv, TypeOK, run_incident, Begins, Skips, Stop, Goto
<1>3. CooledRun(r)'
  <2>1. CASE Begins(r, v)
    <3>1. /\ pc'[r] = "leasing"
          /\ st'[r].version = row.version /\ st'[r].attempts = row.attempts
      BY Zenon, <2>1, BeginState DEF WorkflowInv
    <3>2. row.state \notin Terminal /\ row.version <= v
      BY <2>1 DEF Begins
    <3>3. row.attempts > 0 => Retried
      BY <3>2 DEF Retried, WorkflowInv, RowInv, OneRetry, Terminal
    <3> QED
      BY SMTT(20), <1>1, <3>1, <3>2, <3>3, VersionTyped DEF CooledRun, WorkflowInv
  <2>2. CASE Skips(r, v)
    <3>1. pc'[r] = "idle" /\ st'[r] = NoState
      BY Zenon, <2>2 DEF WorkflowInv, TypeOK, Skips, Stop, Goto
    <3> QED
      BY Zenon, <1>1, <3>1, VersionTyped, IdleWaits DEF WorkflowInv
  <2> QED
    BY <2>1, <2>2 DEF run_incident
<1> QED
  BY Zenon, <1>1, <1>2, <1>3, SameRespected, RunStepWaits

(* Neither a notification nor a due schedule nor the sweeper is too early. *)
LEMMA StartWaits ==
  ASSUME WorkflowInv, WorkflowInv', CooldownInv, NEW r \in Runs, Start(r) \/ Sweep(r)
  PROVE  CooldownInv'
<1> USE DEF trials, outside
<1>1. CASE Deliver(r)
  <2>1. PICK n \in inbox : inbox' = inbox \ {n} /\ run_incident(r, n[2])
    BY Zenon, <1>1 DEF Deliver
  <2>2. Retried => ~(row.version <= n[2])
    BY VersionTyped DEF CooldownInv, InboxInv, Retried, WorkflowInv
  <2> QED
    BY Zenon, <1>1, <2>1, <2>2, BeginWaits DEF Deliver
<1>2. CASE Deduplicate(r)
  <2>1. RowStep /\ row' = row /\ cooled' = cooled /\ schedules' = schedules /\ exec' = exec
        /\ inbox' \subseteq inbox /\ pc' = pc /\ st' = st
    BY Zenon, <1>2 DEF Deduplicate, RowStep
  <2>2. CooledRun(r)'
    BY <2>1, RunsWait
  <2> QED
    BY Zenon, <2>1, <2>2, SameRespected, RunStepWaits
<1>3. CASE Wake(r)
  <2>1. PICK s \in schedules : /\ s.due /\ schedules' = schedules \ {s}
                               /\ run_incident(r, s.version)
    BY <1>3 DEF Wake
  <2>2. Retried /\ row.version <= s.version => 1 \in cooled
    BY Zenon, <2>1, VersionTyped DEF CooldownInv, ScheduleInv, WorkflowInv
  <2> QED
    BY <1>3, <2>1, <2>2, BeginWaits DEF Wake
<1>4. CASE ListStuck(r)
  <2>1. /\ row' = row /\ cooled' = cooled /\ schedules' = schedules /\ exec' = exec
        /\ inbox' = inbox /\ RowStep
        /\ pc[r] = "idle" /\ \A s \in schedules : s.due
    BY <1>4 DEF ListStuck, RowStep
  <2>2. Retried => 1 \in cooled
    BY <2>1 DEF CooldownInv, CoolingDown
  <2>3. /\ pc'[r] = "listed" /\ st'[r].version = row.version /\ st'[r].attempts = st[r].attempts
        /\ \A s \in Runs \ {r} : pc'[s] = pc[s] /\ st'[s] = st[s]
    BY <1>4 DEF ListStuck, Goto, WorkflowInv, TypeOK, GraphState
  <2>4. pc[r] \notin Late
    BY <2>1 DEF Late
  <2>5. CooledRun(r)'
    BY <2>1, <2>2, <2>3, <2>4, VersionTyped DEF CooledRun, CooldownInv, Retried, WorkflowInv
  <2> QED
    BY Zenon, <2>1, <2>3, <2>5, SameRespected, RunStepWaits
<1>5. CASE Sweep(r)
  <2>1. pc[r] = "listed" /\ run_incident(r, st[r].version) /\ UNCHANGED <<schedules, inbox>>
    BY <1>5 DEF Sweep
  <2>2. Retried /\ row.version <= st[r].version => 1 \in cooled
    BY <2>1, VersionTyped DEF CooldownInv, CooledRun, WorkflowInv
  <2> QED
    BY Zenon, <2>1, <2>2, BeginWaits
<1> QED
  BY <1>1, <1>2, <1>3, <1>4, <1>5 DEF Start

LEMMA LeasingWaits ==
  ASSUME WorkflowInv, WorkflowInv', CooldownInv, NEW r \in Runs, AcquireLease(r) \/ VerifyLease(r)
  PROVE  CooldownInv'
<1> USE DEF trials, outside
<1>1. UNCHANGED <<row, exec, cooled, schedules, inbox>> /\ RowStep
  BY Zenon DEF AcquireLease, VerifyLease, RowStep
<1>2. CASE Stop(r)
  BY <1>1, <1>2, StopWaits
<1>3. CASE /\ pc[r] \in {"leasing", "leased"} /\ UNCHANGED st
           /\ Goto(r, "leased") \/ Goto(r, "collect_evidence")
  <2>1. /\ pc'[r] \in {"leased", "collect_evidence"}
        /\ \A s \in Runs \ {r} : pc'[s] = pc[s] /\ st'[s] = st[s]
    BY Zenon, <1>3 DEF Goto, WorkflowInv, TypeOK
  <2>2. CooledRun(r)'
    BY Zenon, <1>1, <1>3, <2>1 DEF CooledRun, CooldownInv, Late
  <2> QED
    BY Zenon, <1>1, <2>1, <2>2, SameRespected, RunStepWaits
<1> QED
  BY Zenon, <1>2, <1>3 DEF AcquireLease, VerifyLease

-----------------------------------------------------------------------------
(* The nodes of the graph, other than a failed verification with a retry   *)
(* left and the end of a run                                               *)

Node(r) ==
  \/ collect_evidence_node(r) \/ SkipDiagnosis(r) \/ diagnose_node(r)
  \/ SkipPlanning(r) \/ plan_node(r) \/ evaluate_policy_node(r) \/ RecordDecision(r)
  \/ PrecheckPasses(r) \/ PrecheckFails(r) \/ Dispatch(r)
  \/ ExecuteNew(r) \/ ExecuteAgain(r) \/ ExecuteFinish(r)
  \/ RecordSuccess(r) \/ RecordFailure(r)
  \/ VerifyHealed(r) \/ VerifyExternal(r) \/ VerifyFailedForGood(r)
  \/ resolve_node(r) \/ escalate_node(r)

Keeping(r) == /\ \A s \in Runs \ {r} : st'[s] = st[s]
              /\ st'[r].version \in {st[r].version, row'.version}
              /\ st'[r].attempts = st[r].attempts \/ pc'[r] = "verify"

LEMMA NodeState ==
  ASSUME WorkflowInv, NEW r \in Runs, Node(r)
  PROVE  Keeping(r)
<1>1. st[r] \in GraphState /\ st \in [Runs -> GraphState]
  BY Zenon DEF WorkflowInv, TypeOK
<1>2. CASE UNCHANGED st
  BY Zenon, <1>2 DEF Keeping
<1>3. CASE \/ collect_evidence_node(r) \/ VerifyHealed(r) \/ VerifyExternal(r)
           \/ VerifyFailedForGood(r)
  <2>1. \E v \in {st[r].version, row'.version} : st' = [st EXCEPT ![r].version = v]
    BY Zenon, <1>3 DEF collect_evidence_node, VerifyHealed, VerifyExternal, VerifyFailedForGood,
                VersionAfter
  <2> QED
    BY <1>1, <2>1 DEF Keeping, GraphState
<1>4. CASE diagnose_node(r)
  <2>1. \E v \in {st[r].version, row'.version} :
          st' = [st EXCEPT ![r].version = v, ![r].diagnosis = TRUE]
    BY Zenon, <1>4 DEF diagnose_node, VersionAfter
  <2> QED
    BY <1>1, <2>1 DEF Keeping, GraphState
<1>5. CASE plan_node(r)
  <2>1. \E p : \E v \in {st[r].version, row'.version} :
          st' = [st EXCEPT ![r].version = v, ![r].plan = p]
    BY Zenon, <1>5 DEF plan_node
  <2> QED
    BY <1>1, <2>1 DEF Keeping, GraphState
<1>6. CASE evaluate_policy_node(r)
  <2>1. \E d : st' = [st EXCEPT ![r].policy_decision = d]
    BY Zenon, <1>6 DEF evaluate_policy_node
  <2> QED
    BY <1>1, <2>1 DEF Keeping, GraphState
<1>7. CASE RecordDecision(r)
  <2>1. \E w : \E v \in {st[r].version, row'.version} :
          st' = [st EXCEPT ![r].version = v, ![r].wait_reason = w]
    BY Zenon, <1>7 DEF RecordDecision, VersionAfter
  <2> QED
    BY <1>1, <2>1 DEF Keeping, GraphState
<1>8. CASE RecordSuccess(r)
  <2>1. \E a : \E v \in {st[r].version, row'.version} :
          st' = [st EXCEPT ![r].version = v, ![r].attempts = a]
    BY Zenon, <1>8 DEF RecordSuccess, VersionAfter
  <2>2. pc'[r] = "verify"
    BY Zenon, <1>8 DEF RecordSuccess, Goto, WorkflowInv, TypeOK
  <2> QED
    BY <1>1, <2>1, <2>2 DEF Keeping, GraphState
<1> QED
  BY Zenon, <1>2, <1>3, <1>4, <1>5, <1>6, <1>7, <1>8
  DEF Node, SkipDiagnosis, SkipPlanning, PrecheckPasses, PrecheckFails, Dispatch, ExecuteNew,
      ExecuteAgain, ExecuteFinish, RecordFailure, resolve_node, escalate_node, Settle

LEMMA NodeMoves ==
  ASSUME WorkflowInv, NEW r \in Runs, Node(r)
  PROVE  /\ UNCHANGED <<cooled, schedules, inbox>>
         /\ pc'[r] # "listed" /\ (pc'[r] \notin Late => pc[r] \notin Late)
         /\ \A s \in Runs \ {r} : pc'[s] = pc[s]
<1> USE DEF trials, outside
<1>1. /\ UNCHANGED <<cooled, schedules, inbox>>
      /\ \E n \in InGraph : Goto(r, n) /\ (n \notin Late => pc[r] \notin Late)
  <2> USE DEF InGraph, Nodes, Late
  <2>1. CASE collect_evidence_node(r) \/ SkipDiagnosis(r) \/ diagnose_node(r)
    BY Zenon, <2>1 DEF collect_evidence_node, SkipDiagnosis, diagnose_node
  <2>2. CASE SkipPlanning(r) \/ plan_node(r) \/ evaluate_policy_node(r)
    BY Zenon, <2>2 DEF SkipPlanning, plan_node, evaluate_policy_node
  <2>3. CASE RecordDecision(r)
    BY <2>3 DEF RecordDecision, route_after_policy
  <2>4. CASE PrecheckPasses(r) \/ PrecheckFails(r) \/ Dispatch(r)
    BY Zenon, <2>4 DEF PrecheckPasses, PrecheckFails, Dispatch
  <2>5. CASE ExecuteNew(r) \/ ExecuteAgain(r) \/ ExecuteFinish(r)
    BY Zenon, <2>5 DEF ExecuteNew, ExecuteAgain, ExecuteFinish, OutcomeNode
  <2>6. CASE RecordSuccess(r) \/ RecordFailure(r) \/ VerifyHealed(r) \/ VerifyExternal(r)
    BY Zenon, <2>6 DEF RecordSuccess, RecordFailure, VerifyHealed, VerifyExternal
  <2>7. CASE VerifyFailedForGood(r) \/ resolve_node(r) \/ escalate_node(r)
    BY <2>7 DEF VerifyFailedForGood, resolve_node, escalate_node, Settle
  <2> QED
    BY Zenon, <2>1, <2>2, <2>3, <2>4, <2>5, <2>6, <2>7 DEF Node
<1> QED
  BY Zenon, <1>1 DEF Goto, WorkflowInv, TypeOK, InGraph

(* An attempt is recorded by a run that began after the cooldown. *)
LEMMA NodeRespects ==
  ASSUME WorkflowInv, CooldownInv, NEW r \in Runs, Node(r)
  PROVE  CooldownRespected'
<1>1. cooled' = cooled
  BY NodeMoves
<1>2. CASE exec' = exec
  BY <1>1, <1>2, SameRespected
<1>3. CASE ExecuteNew(r) \/ ExecuteAgain(r) \/ ExecuteFinish(r)
  <2>1. pc[r] \in {"execute", "restarting"} /\ \E x : exec' = [exec EXCEPT ![Attempt(r)] = x]
    BY Zenon, <1>3 DEF ExecuteNew, ExecuteAgain, ExecuteFinish
  <2>2. Attempt(r) \in Attempts /\ Attempt(r) <= row.attempts + 1
    BY <2>1, AttemptWithin
  <2>3. row.attempts \in Nat /\ row.attempts <= 1 /\ st[r].attempts \in Nat
    BY VersionTyped DEF WorkflowInv, RowInv, OneRetry
  <2>4. Attempt(r) > 1 => Attempt(r) - 1 = 1 /\ st[r].attempts > 0
    BY <2>2, <2>3 DEF Attempt
  <2>5. Attempt(r) > 1 => Attempt(r) - 1 \in cooled
    BY Zenon, <2>1, <2>4 DEF CooldownInv, CooledRun, Late
  <2> QED
    BY Zenon, <1>1, <2>1, <2>2, <2>5 DEF CooldownInv, CooldownRespected, WorkflowInv, TypeOK
<1> QED
  BY Zenon, <1>2, <1>3 DEF trials, Node, collect_evidence_node, SkipDiagnosis, diagnose_node,
    SkipPlanning, plan_node, evaluate_policy_node, RecordDecision, PrecheckPasses,
    PrecheckFails, Dispatch, RecordSuccess, RecordFailure, VerifyHealed, VerifyExternal,
    VerifyFailedForGood, resolve_node, escalate_node, Settle

LEMMA NodeWaits ==
  ASSUME WorkflowInv, WorkflowInv', CooldownInv, RowStep, row'.attempts = row.attempts,
         NEW r \in Runs, Node(r)
  PROVE  CooldownInv'
<1>1. /\ UNCHANGED <<cooled, schedules, inbox>>
      /\ pc'[r] # "listed" /\ (pc'[r] \notin Late => pc[r] \notin Late)
      /\ \A s \in Runs \ {r} : pc'[s] = pc[s] /\ st'[s] = st[s]
      /\ st'[r].version \in {st[r].version, row'.version}
      /\ st'[r].attempts = st[r].attempts \/ pc'[r] = "verify"
  BY Zenon, NodeMoves, NodeState DEF Keeping
<1>2. /\ row.version \in Nat /\ row'.version \in Nat /\ st[r].version \in Nat
      /\ row'.version >= row.version
  BY SMTT(20), VersionTyped, VersionGrows DEF WorkflowInv, TypeOK, IncidentRow
<1>3. CooledRun(r)'
  BY SMTT(20), <1>1, <1>2 DEF CooledRun, CooldownInv, Late
<1> QED
  BY Zenon, <1>1, <1>3, NodeRespects, RunStepWaits

-----------------------------------------------------------------------------
(* Schedules *)

(* schedule_retry_cooldown, by verify_node or by the one that crashed after *)
(* it: the schedule waits for the retry that is, or was to be, counted.     *)
LEMMA CooldownScheduled ==
  ASSUME WorkflowInv, is_retry_eligible,
         schedule_retry_cooldown(MovedFrom({"VERIFYING"}, "DIAGNOSED"))
  PROVE  /\ row.state = "VERIFYING" =>
              /\ row.attempts = 0
              /\ MovedFrom({"VERIFYING"}, "DIAGNOSED").version = row.version + 1
              /\ MovedFrom({"VERIFYING"}, "DIAGNOSED").attempts = 1
              /\ MovedFrom({"VERIFYING"}, "DIAGNOSED").state = "DIAGNOSED"
         /\ row.state # "VERIFYING" => MovedFrom({"VERIFYING"}, "DIAGNOSED") = row
         /\ \E s : /\ schedules' = schedules \cup {s}
                   /\ s.reason = "COOLDOWN" /\ s.due = FALSE
                   /\ s.version = MovedFrom({"VERIFYING"}, "DIAGNOSED").version
                   /\ s.previous_attempt = MovedFrom({"VERIFYING"}, "DIAGNOSED").attempts
<1> DEFINE new == MovedFrom({"VERIFYING"}, "DIAGNOSED")
<1>1. row.state = "VERIFYING" => row.attempts = 0
  BY RowTyped, RetryLimitAssumption DEF WorkflowInv, RowInv, OneRetry
<1>2. /\ row.state = "VERIFYING" =>
           /\ new.version = row.version + 1 /\ new.attempts = row.attempts + 1
           /\ new.state = "DIAGNOSED"
      /\ row.state # "VERIFYING" => new = row
  BY RowTyped, Moving DEF WorkflowInv, States, IsRetry
<1> HIDE DEF new
<1> DEFINE s == [reason |-> "COOLDOWN", version |-> new.version, previous_attempt |-> new.attempts,
                 due |-> FALSE, behind |-> {}]
<1>3. schedules' = schedules \cup {s}
  BY Zenon DEF schedule_retry_cooldown, Schedule, new
<1>4. /\ s.reason = "COOLDOWN" /\ s.due = FALSE
      /\ s.version = new.version /\ s.previous_attempt = new.attempts
  OBVIOUS
<1> HIDE DEF s
<1>5. \E t : /\ schedules' = schedules \cup {t}
             /\ t.reason = "COOLDOWN" /\ t.due = FALSE
             /\ t.version = new.version /\ t.previous_attempt = new.attempts
  BY Zenon, <1>3, <1>4
<1> QED
  BY <1>1, <1>2, <1>5 DEF new

(* What is scheduled for a row that is not written meanwhile *)
LEMMA ScheduledWaits ==
  ASSUME WorkflowInv, WorkflowInv', CooldownInv,
         UNCHANGED <<row, exec, cooled, inbox>>,
         NEW t, schedules' = schedules \cup {t}, ScheduleInv(t),
         \A r \in Runs : CooledRun(r)'
  PROVE  CooldownInv'
<1>1. \A s \in schedules' : ScheduleInv(s)'
  BY Zenon DEF CooldownInv, ScheduleInv, Retried, RetryCooldown
<1>2. CoolingDown'
  BY Zenon DEF CooldownInv, CoolingDown, Retried, RetryCooldown
<1>3. InboxInv'
  BY DEF CooldownInv, InboxInv
<1> QED
  BY <1>1, <1>2, <1>3, SameRespected DEF CooldownInv

(* The cooldown of a row that stays as it is *)
LEMMA CooldownFits ==
  ASSUME WorkflowInv, NEW t, t.reason = "COOLDOWN", t.due = FALSE,
         \/ row.state = "VERIFYING" /\ t.previous_attempt = 1
         \/ t.version = row.version /\ t.previous_attempt = row.attempts
  PROVE  ScheduleInv(t)
BY VersionTyped DEF ScheduleInv, RetryCooldown, Retried, WorkflowInv

(* verify_node counts the retry and schedules its cooldown: whatever knows *)
(* of the incident knows an older version.                                 *)
LEMMA RetryWaits ==
  ASSUME WorkflowInv, WorkflowInv', CooldownInv, NEW r \in Runs, VerifyFailedRetry(r)
  PROVE  CooldownInv'
<1> USE DEF outside
<1> DEFINE new == MovedFrom({"VERIFYING"}, "DIAGNOSED")
<1>1. /\ is_retry_eligible /\ schedule_retry_cooldown(new)
      /\ row' = new /\ UNCHANGED <<exec, cooled, inbox>>
  BY DEF VerifyFailedRetry
<1>2. PICK t : /\ schedules' = schedules \cup {t}
               /\ t.reason = "COOLDOWN" /\ t.due = FALSE
               /\ t.version = new.version /\ t.previous_attempt = new.attempts
  BY Zenon, <1>1, CooldownScheduled
<1>3. /\ row.state = "VERIFYING" =>
           /\ row.attempts = 0 /\ new.version = row.version + 1
           /\ new.attempts = 1 /\ new.state = "DIAGNOSED"
      /\ row.state # "VERIFYING" => new = row
  BY Zenon, <1>1, CooldownScheduled
<1> HIDE DEF new
<1>4. /\ pc'[r] = "end" /\ st'[r].version = row'.version
      /\ \A s \in Runs \ {r} : pc'[s] = pc[s] /\ st'[s] = st[s]
  <2>1. /\ Goto(r, "end")
        /\ st' = [st EXCEPT ![r].version = row'.version, ![r].attempts = row'.attempts,
                            ![r].wait_reason = "COOLDOWN"]
    BY DEF VerifyFailedRetry
  <2> QED
    BY SMTT(20), <2>1 DEF Goto, WorkflowInv, TypeOK, GraphState
<1>5. row.version \in Nat /\ row'.version \in Nat
  BY Zenon, VersionTyped DEF WorkflowInv, TypeOK, IncidentRow
<1>6. CooledRun(r)'
  BY <1>4, <1>5 DEF CooledRun, Late
<1>7. CASE row.state # "VERIFYING"
  <2>1. row' = row
    BY Zenon, <1>1, <1>3, <1>7
  <2>2. \A s \in Runs : CooledRun(s)'
    BY Zenon, <1>1, <1>4, <1>6, <2>1 DEF CooldownInv, CooledRun, Retried
  <2>3. ScheduleInv(t)
    BY Zenon, <1>2, <1>3, <1>7, CooldownFits
  <2> QED
    BY Zenon, <1>1, <1>2, <2>1, <2>2, <2>3, ScheduledWaits
<1>8. CASE row.state = "VERIFYING"
  <2>1. /\ row'.version = row.version + 1 /\ row'.attempts = 1 /\ row'.state = "DIAGNOSED"
        /\ t.version = row'.version /\ RetryCooldown(t) /\ ~t.due
    BY Zenon, <1>1, <1>2, <1>3, <1>8 DEF RetryCooldown
  <2>2. /\ \A s \in Runs : st[s].version \in Nat
        /\ \A s \in schedules : s.version \in Nat /\ s.due \in BOOLEAN
        /\ \A n \in inbox : n[2] \in Nat
    BY Zenon, VersionTyped DEF WorkflowInv
  <2>3. \A s \in Runs : CooledRun(s)'
    BY <1>1, <1>4, <1>5, <1>6, <2>1, <2>2 DEF CooldownInv, CooledRun
  <2>4. \A s \in schedules : ScheduleInv(s)'
    BY SMTT(20), <1>1, <1>5, <2>1, <2>2 DEF CooldownInv, ScheduleInv, RetryCooldown
  <2>5. ScheduleInv(t)'
    BY Zenon, <1>1, <1>5, <2>1 DEF ScheduleInv, RetryCooldown
  <2>6. InboxInv'
    BY <1>1, <1>5, <2>1, <2>2 DEF CooldownInv, InboxInv
  <2>7. CoolingDown'
    BY Zenon, <1>2, <2>1 DEF CoolingDown, RetryCooldown
  <2> QED
    BY Zenon, <1>1, <1>2, <2>3, <2>4, <2>5, <2>6, <2>7, SameRespected DEF CooldownInv
<1> QED
  BY <1>7, <1>8

(* An approval wait that is scheduled during the cooldown is behind it. *)
LEMMA FinishWaits ==
  ASSUME WorkflowInv, WorkflowInv', CooldownInv, NEW r \in Runs, Finish(r)
  PROVE  CooldownInv'
<1> USE DEF trials, outside
<1>1. row' = row /\ Stop(r) /\ UNCHANGED <<exec, cooled, inbox>>
  BY Zenon, FinishKeeps DEF Finish
<1>2. CASE st[r].wait_reason # "AWAITING_APPROVAL"
  BY Zenon, <1>1, <1>2, StopWaits DEF Finish
<1>3. CASE st[r].wait_reason = "AWAITING_APPROVAL"
  <2> DEFINE behind == {c.version : c \in Cooldowns}
             t == [reason |-> "AWAITING_APPROVAL", version |-> st[r].version,
                   previous_attempt |-> 0, due |-> FALSE, behind |-> behind]
  <2>1. Schedule("AWAITING_APPROVAL", st[r].version, 0)
    BY Zenon, <1>1, <1>3 DEF Finish, VersionAfter
  <2>2. schedules' = schedules \cup {t}
    BY Zenon, <2>1 DEF Schedule
  <2>3. Retried => 1 \in cooled \/ row.version \in behind
    BY Zenon, VersionTyped DEF CooldownInv, CoolingDown, RetryCooldown, Cooldowns, WorkflowInv
  <2> HIDE DEF behind
  <2>4. /\ t.reason = "AWAITING_APPROVAL" /\ t.version = st[r].version /\ t.due = FALSE
        /\ t.behind = behind
    OBVIOUS
  <2> HIDE DEF t
  <2>5. ScheduleInv(t)
    BY Zenon, <2>3, <2>4 DEF ScheduleInv, RetryCooldown, CooldownInv, CooledRun
  <2>6. /\ pc'[r] = "idle" /\ st'[r] = NoState
        /\ \A s \in Runs \ {r} : pc'[s] = pc[s] /\ st'[s] = st[s]
    BY Zenon, <1>1 DEF Stop, Goto, WorkflowInv, TypeOK
  <2>7. CooledRun(r)'
    BY Zenon, <1>1, <2>6, VersionTyped, IdleWaits DEF WorkflowInv
  <2>8. \A s \in Runs : CooledRun(s)'
    BY Zenon, <1>1, <2>6, <2>7 DEF CooldownInv, CooledRun, Retried
  <2> QED
    BY Zenon, <1>1, <2>2, <2>5, <2>8, ScheduledWaits
<1> QED
  BY Zenon, <1>2, <1>3

LEMMA ExceptionWaits ==
  ASSUME WorkflowInv, WorkflowInv', CooldownInv, NEW r \in Runs, Raise(r) \/ Fail(r)
  PROVE  CooldownInv'
BY Zenon, StopWaits DEF Raise, Fail, trials, outside

LEMMA CrashWaits ==
  ASSUME WorkflowInv, WorkflowInv', CooldownInv, NEW w \in Workers, Crash(w)
  PROVE  CooldownInv'
<1> USE DEF trials
<1> DEFINE hit == {r \in Runs : OwnerOf[r] = w}
           new == MovedFrom({"VERIFYING"}, "DIAGNOSED")
<1>1. /\ pc' = [r \in Runs |-> IF r \in hit THEN "idle" ELSE pc[r]]
      /\ st' = [r \in Runs |-> IF r \in hit THEN NoState ELSE st[r]]
      /\ UNCHANGED <<row, exec, cooled, inbox>>
  BY DEF Crash
<1>2. \A s \in Runs : CooledRun(s)'
  <2> HIDE DEF hit
  <2> TAKE s \in Runs
  <2>1. CASE s \in hit
    <3>1. pc'[s] = "idle" /\ st'[s] = NoState
      BY Zenon, <1>1, <2>1
    <3> QED
      BY Zenon, <1>1, <3>1, VersionTyped, IdleWaits DEF WorkflowInv
  <2>2. CASE s \notin hit
    <3>1. pc'[s] = pc[s] /\ st'[s] = st[s]
      BY Zenon, <1>1, <2>2
    <3> QED
      BY Zenon, <1>1, <3>1 DEF CooledRun, CooldownInv, Retried
  <2> QED
    BY <2>1, <2>2
<1>3. CASE UNCHANGED schedules
  <2>1. RowStep
    BY Zenon, <1>1 DEF RowStep
  <2>2. CoolingDown' /\ InboxInv'
    BY Zenon, <1>1, <1>3, <2>1, RowWaits
  <2>3. \A s \in schedules' : ScheduleInv(s)'
    BY Zenon, <1>1, <1>3, <2>1, SchedulesWait
  <2> QED
    BY Zenon, <1>1, <1>2, <2>2, <2>3, SameRespected DEF CooldownInv
<1>4. CASE is_retry_eligible /\ schedule_retry_cooldown(new)
  <2>1. PICK t : /\ schedules' = schedules \cup {t}
                 /\ t.reason = "COOLDOWN" /\ t.due = FALSE
                 /\ t.version = new.version /\ t.previous_attempt = new.attempts
    BY Zenon, <1>4, CooldownScheduled
  <2>2. ScheduleInv(t)
    BY Zenon, <1>4, <2>1, CooldownScheduled, CooldownFits
  <2> QED
    BY Zenon, <1>1, <1>2, <2>1, <2>2, ScheduledWaits
<1> QED
  BY <1>3, <1>4 DEF Crash

-----------------------------------------------------------------------------
(* Time, approvers and operators *)

(* What is behind a cooldown is released only when the cooldown is over. *)
LEMMA ComesDueWaits ==
  ASSUME WorkflowInv, CooldownInv, NEW t \in schedules, ComesDue(t)
  PROVE  CooldownInv'
<1> USE DEF outside
<1> DEFINE Left(u) == IF t.reason = "COOLDOWN" THEN u.behind \ {t.version} ELSE u.behind
           After(u) == [u EXCEPT !.behind = Left(u)]
           over == [t EXCEPT !.due = TRUE]
<1>1. /\ ~t.due /\ t.behind = {}
      /\ cooled' = IF t.reason = "COOLDOWN" THEN cooled \cup {t.previous_attempt} ELSE cooled
      /\ UNCHANGED <<row, exec, inbox, pc, st>>
  BY DEF ComesDue
<1>2. schedules' = {After(u) : u \in schedules \ {t}} \cup {over}
  BY DEF ComesDue
<1>3. schedules \subseteq Schedules
  BY Zenon DEF WorkflowInv, TypeOK
<1>4. \A u \in schedules : /\ After(u).reason = u.reason /\ After(u).version = u.version
                           /\ After(u).previous_attempt = u.previous_attempt
                           /\ After(u).due = u.due /\ After(u).behind = Left(u)
  BY <1>3 DEF Schedules
<1>5. /\ over.reason = t.reason /\ over.version = t.version
      /\ over.previous_attempt = t.previous_attempt /\ over.due = TRUE
  BY <1>3 DEF Schedules
<1>6. \A u \in schedules : \A v \in u.behind : v \in Left(u) \/ v = t.version
  OBVIOUS
<1> HIDE DEF After, over, Left
<1>7. cooled \subseteq cooled' /\ (RetryCooldown(t) => 1 \in cooled')
  BY Zenon, <1>1 DEF RetryCooldown
<1>8. Retried /\ t.version >= row.version => 1 \in cooled'
  BY Zenon, <1>1, <1>7 DEF CooldownInv, ScheduleInv
<1>9. ScheduleInv(over)'
  BY Zenon, <1>1, <1>5, <1>7, <1>8 DEF CooldownInv, ScheduleInv, RetryCooldown, Retried
<1>10. ASSUME NEW u \in schedules PROVE ScheduleInv(After(u))'
  <2> DEFINE n == After(u)
  <2>1. /\ n.reason = u.reason /\ n.version = u.version
        /\ n.previous_attempt = u.previous_attempt /\ n.due = u.due
        /\ \A v \in u.behind : v \in n.behind \/ v = t.version
    BY Zenon, <1>4, <1>6
  <2> HIDE DEF n
  <2>2. row.version \in Nat
    BY Zenon, VersionTyped DEF WorkflowInv
  <2>3. ScheduleInv(u)
    BY DEF CooldownInv
  <2>4. ScheduleInv(n)'
    BY SMTT(20), <1>1, <1>7, <1>8, <2>1, <2>2, <2>3 DEF ScheduleInv, RetryCooldown, Retried
  <2> QED
    BY Zenon, <2>4 DEF n
<1>11. \A s \in schedules' : ScheduleInv(s)'
  BY Zenon, <1>2, <1>9, <1>10
<1>12. CoolingDown'
  <2>1. CASE ~Retried \/ 1 \in cooled'
    BY Zenon, <1>1, <2>1 DEF CoolingDown, Retried
  <2>2. CASE Retried /\ 1 \notin cooled'
    <3>1. PICK s \in schedules : RetryCooldown(s) /\ ~s.due /\ s.version = row.version
      BY Zenon, <1>7, <2>2 DEF CooldownInv, CoolingDown
    <3>2. s # t
      BY Zenon, <1>7, <2>2, <3>1
    <3>3. After(s) \in schedules'
      BY <1>2, <3>2
    <3> QED
      BY <1>1, <1>4, <3>1, <3>3 DEF CoolingDown, RetryCooldown
  <2> QED
    BY <2>1, <2>2
<1>13. InboxInv'
  BY Zenon, <1>1 DEF CooldownInv, InboxInv
<1>14. \A s \in Runs : CooledRun(s)'
  BY Zenon, <1>1, <1>7 DEF CooldownInv, CooledRun, Retried
<1> QED
  BY Zenon, <1>1, <1>7, <1>11, <1>12, <1>13, <1>14, SameRespected DEF CooldownInv

(* An approval is announced only before the first attempt. *)
LEMMA ApprovalWaits ==
  ASSUME WorkflowInv, WorkflowInv', CooldownInv, RowStep, row'.attempts = row.attempts,
         Approve \/ Reject
  PROVE  CooldownInv'
<1> USE DEF trials, outside
<1>1. /\ UNCHANGED <<exec, cooled, schedules, pc, st>>
      /\ inbox' = inbox \/ inbox' = inbox \cup {<<"outbox", row'.version>>}
  BY Zenon DEF Approve, Reject
<1>2. row.state = "PENDING_APPROVAL"
  BY Zenon DEF Approve, Reject, CanDecide
<1>3. row.attempts = 0
  BY <1>2, VersionTyped DEF WorkflowInv, RowInv, OneRetry
<1>4. row.version \in Nat /\ row'.version \in Nat /\ \A n \in inbox : n[2] \in Nat
  BY Zenon, VersionTyped DEF WorkflowInv, TypeOK, IncidentRow
<1>5. row'.version >= row.version
  BY <1>4, VersionGrows DEF WorkflowInv
<1>6. InboxInv'
  <2>1. \A n \in inbox' : n[2] <= row'.version
    BY <1>1, <1>4, <1>5 DEF CooldownInv, InboxInv
  <2> QED
    BY <1>3, <2>1 DEF InboxInv
<1>7. CoolingDown'
  BY <1>3 DEF CoolingDown, Retried
<1>8. \A s \in schedules' : ScheduleInv(s)'
  BY Zenon, <1>1, SchedulesWait
<1>9. \A s \in Runs : CooledRun(s)'
  BY Zenon, <1>1, RunsWait
<1> QED
  BY Zenon, <1>1, <1>6, <1>7, <1>8, <1>9, SameRespected DEF CooldownInv

LEMMA OutsideWaits ==
  ASSUME CooldownInv,
         \/ DecideLate \/ (\E m \in Modes : SetMode(m)) \/ GrantExpires
         \/ LeaseExpires \/ cleanup_expired_leases \/ UNCHANGED vars
  PROVE  CooldownInv'
<1>1. UNCHANGED <<row, exec, cooled, schedules, inbox, pc, st>>
  BY Zenon
  DEF DecideLate, SetMode, GrantExpires, LeaseExpires, cleanup_expired_leases, vars, trials,
         outside
<1>2. CooldownRespected' /\ CoolingDown' /\ InboxInv'
  BY Zenon, <1>1 DEF CooldownInv, CooldownRespected, CoolingDown, InboxInv, Retried, RetryCooldown
<1>3. \A s \in schedules' : ScheduleInv(s)'
  BY Zenon, <1>1 DEF CooldownInv, ScheduleInv, Retried, RetryCooldown
<1>4. \A r \in Runs : CooledRun(r)'
  BY Zenon, <1>1 DEF CooldownInv, CooledRun, Retried
<1> QED
  BY Zenon, <1>2, <1>3, <1>4 DEF CooldownInv

-----------------------------------------------------------------------------
(* The invariant and what follows from it *)

LEMMA CooldownStart == Init => CooldownInv
<1> SUFFICES ASSUME Init PROVE CooldownInv
  OBVIOUS
<1>1. row.version = 1 /\ row.attempts = 0
  BY Zenon DEF Init, NewIncident
<1>2. /\ exec = [a \in Attempts |-> "none"] /\ schedules = {}
      /\ inbox = {"webhook", "outbox"} \X {1}
      /\ pc = [r \in Runs |-> "idle"] /\ st = [r \in Runs |-> NoState]
  BY Zenon DEF Init
<1>3. CooldownRespected
  BY Zenon, <1>2 DEF CooldownRespected
<1>4. CoolingDown
  BY <1>1 DEF CoolingDown, Retried
<1>5. InboxInv
  BY <1>1, <1>2 DEF InboxInv
<1>6. \A r \in Runs : CooledRun(r)
  <2> TAKE r \in Runs
  <2>1. pc[r] = "idle" /\ st[r].version = 0 /\ st[r].attempts = 0
    BY Zenon, <1>2 DEF NoState
  <2> QED
    BY <1>1, <2>1 DEF CooledRun
<1> QED
  BY Zenon, <1>2, <1>3, <1>4, <1>5, <1>6 DEF CooldownInv

LEMMA CooldownStep ==
  ASSUME WorkflowInv, CooldownInv, [Next]_vars
  PROVE  CooldownInv'
<1>1. WorkflowInv' /\ RowStep
  BY WorkflowStep
<1>2. ASSUME NEW r \in Runs, Advance(r) PROVE CooldownInv'
  <2>1. CASE Sweep(r)
    BY <1>1, <2>1, StartWaits
  <2>2. CASE AcquireLease(r) \/ VerifyLease(r)
    BY Zenon, <1>1, <2>2, LeasingWaits
  <2>3. CASE VerifyFailedRetry(r)
    BY Zenon, <1>1, <2>3, RetryWaits
  <2>4. CASE Finish(r)
    BY <1>1, <2>4, FinishWaits
  <2>5. CASE Raise(r)
    BY <1>1, <2>5, ExceptionWaits
  <2>6. CASE Node(r) /\ ~VerifyFailedRetry(r)
    BY Zenon, <1>1, <1>2, <2>6, AdvanceKeeps, NodeWaits
  <2> QED
    BY Zenon, <1>2, <2>1, <2>2, <2>3, <2>4, <2>5, <2>6 DEF Advance, Node
<1>3. CASE \E r \in Runs : Start(r) \/ Fail(r)
  BY Zenon, <1>1, <1>3, StartWaits, ExceptionWaits
<1>4. CASE \E w \in Workers : Crash(w)
  BY <1>1, <1>4, CrashWaits
<1>5. CASE Approve \/ Reject
  BY Zenon, <1>1, <1>5, ApprovalKeeps, ApprovalWaits
<1>6. CASE SomeScheduleComesDue
  BY <1>6, ComesDueWaits DEF SomeScheduleComesDue
<1>7. CASE \/ DecideLate \/ (\E m \in Modes : SetMode(m)) \/ GrantExpires
           \/ LeaseExpires \/ cleanup_expired_leases \/ UNCHANGED vars
  BY <1>7, OutsideWaits
<1> QED
  BY Zenon, <1>2, <1>3, <1>4, <1>5, <1>6, <1>7 DEF Next

(* Whoever wakes the incident, a notification, a due schedule or the       *)
(* recovery sweeper, no retry starts before the cooldown of the attempt    *)
(* before it has run out; neither shared owners nor lost leases, failures  *)
(* and crashes change that.                                                *)
THEOREM CooldownIsRespected == Spec => []CooldownRespected
<1>1. Init => CooldownInv
  BY CooldownStart
<1>2. WorkflowInv /\ CooldownInv /\ [Next]_vars => CooldownInv'
  BY CooldownStep
<1>3. CooldownInv => CooldownRespected
  BY DEF CooldownInv
<1> QED
  BY <1>1, <1>2, <1>3, WorkflowInvariance, PTL DEF Spec

=============================================================================
