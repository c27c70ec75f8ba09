-------------------------- MODULE IncidentWorkflow --------------------------
(***************************************************************************)
(* The remediation workflow of one incident: WorkflowRunner.run_incident   *)
(* and the LangGraph nodes it drives, started by stream notifications, by  *)
(* due schedules and by the recovery sweeper, next to the approvals API    *)
(* and an operator who changes the automation mode.                        *)
(*                                                                         *)
(* A run is a loop of a worker, its stream consumer or its recovery        *)
(* sweeper, and calls run_incident again and again.  A step is a           *)
(* transaction.  That a transaction reads and writes the incident row at   *)
(* two moments is the subject of IncidentStore; here its ConflictError is  *)
(* one of the exceptions of Fail.  adapter.execute is reduced to what      *)
(* DockerExecution establishes about its execution record.                 *)
(*                                                                         *)
(* No clock: a lease, a schedule, a grant or a request deadline expires in *)
(* a step of the environment.                                              *)
(***************************************************************************)
EXTENDS IncidentRules, FiniteSets

CONSTANTS
  Runs,               \* loops that call run_incident
  Consumers,          \* ... on notifications from the stream
  Sweepers,           \* ... on due schedules and on stuck incidents
  Workers,            \* worker identities, the owners of leases
  OwnerOf,            \* the worker each run belongs to
  Nobody,             \* no token; as an owner, a worker that is gone for good
  LeasesOutliveRuns,  \* TRUE: a run always renews its lease in time
  Modes,              \* automation modes the operator switches between
  Confidences,        \* how sure the diagnosis may be
  FaultLimit          \* bound: exceptions and crashes

ASSUME WorkflowAssumption ==
  /\ Consumers \cup Sweepers = Runs
  /\ OwnerOf \in [Runs -> Workers]
  /\ Nobody \notin Workers \cup Runs
  /\ LeasesOutliveRuns \in BOOLEAN
  /\ Modes \subseteq {"AUTOMATIC", "APPROVAL_REQUIRED", "DISABLED"}
  /\ Confidences \subseteq {"high", "medium", "low"}
  /\ FaultLimit \in Nat

VARIABLES
  row,          \* incidents
  diagnoses,    \* diagnosis records, counted up to two
  plan,         \* remediation_plans: version 1 exists
  approval,     \* approvals: the decision on that plan
  decision,     \* policy_decisions: the latest
  explained,    \* escalation_records: one exists
  exec,         \* executions: status of the record of each attempt
  healed,       \* attempts with a passing verification that is ours
  disproved,    \* attempts with a failing verification
  cooled,       \* history: attempts after which a cooldown has run out
  schedules,    \* workflow_schedules that are PENDING
  lease,        \* workflow_leases
  inbox,        \* incident notifications in the stream
  seen,         \* per worker: the versions its consumer has taken up
  mode,         \* automation_controls; DISABLED also stands for emergency stop
  confidence,   \* what the policy makes of the diagnosis
  told,         \* an approver came too late and was told of an escalation
  undercut,     \* history: a run at work has lost its lease, see AtWork
  faults,       \* exceptions and crashes so far
  pc, st        \* per run: its node and its graph state

records == <<diagnoses, plan, approval, decision, explained>>
trials  == <<exec, healed, disproved, cooled>>
outside == <<inbox, seen, mode, confidence, told, undercut>>
vars    == <<row, records, trials, schedules, lease, outside, faults, pc, st>>

Record == INSTANCE IncidentRecord

Attempts == 1 .. RetryLimit + 1

Nodes == {"idle", "listed", "leasing", "leased", "collect_evidence", "diagnose", "plan",
          "evaluate_policy", "decided", "precheck", "dispatch", "execute", "restarting",
          "executed", "failed", "verify", "resolve", "escalate", "end"}

(* Past the lease: the graph is running. *)
InGraph == Nodes \ {"idle", "listed", "leasing", "leased"}

Decisions == {"none", "ALLOW", "REQUIRE_APPROVAL", "DENY"}

GraphState == [version : Nat, diagnosis : BOOLEAN, plan : BOOLEAN, attempts : Nat,
               is_approved : BOOLEAN, policy_decision : Decisions,
               wait_reason : {"none", "AWAITING_APPROVAL", "COOLDOWN"}]

NoState == [version |-> 0, diagnosis |-> FALSE, plan |-> FALSE, attempts |-> 0,
            is_approved |-> FALSE, policy_decision |-> "none", wait_reason |-> "none"]

NoLease == [token |-> Nobody, owner |-> Nobody, live |-> FALSE]

(* previous_attempt is part of the resume metadata of a cooldown; behind   *)
(* holds the versions of the cooldowns that were running when the schedule *)
(* was made.                                                               *)
Schedules == [reason : {"AWAITING_APPROVAL", "COOLDOWN"}, version : Nat,
              previous_attempt : Nat, due : BOOLEAN, behind : SUBSET Nat]

Cooldowns == {s \in schedules : s.reason = "COOLDOWN" /\ ~s.due}

TypeOK ==
  /\ row \in IncidentRow
  /\ diagnoses \in 0 .. 2
  /\ plan \in BOOLEAN
  /\ approval \in {"none", "APPROVE", "EXPIRED", "REJECT"}
  /\ decision \in Decisions
  /\ explained \in BOOLEAN
  /\ exec \in [Attempts -> {"none", "RUNNING", "SUCCEEDED", "FAILED"}]
  /\ healed \subseteq Attempts
  /\ disproved \subseteq Attempts
  /\ cooled \subseteq Nat
  /\ schedules \subseteq Schedules
  /\ lease \in [token : Runs \cup {Nobody}, owner : Workers \cup {Nobody}, live : BOOLEAN]
  /\ inbox \subseteq {"webhook", "outbox"} \X Nat
  /\ seen \in [Workers -> SUBSET Nat]
  /\ mode \in Modes
  /\ confidence \in Confidences
  /\ told \in BOOLEAN
  /\ undercut \in BOOLEAN
  /\ faults \in 0 .. FaultLimit
  /\ pc \in [Runs -> Nodes]
  /\ st \in [Runs -> GraphState]

(* ingest_event: the incident is new, and both the webhook handler and the *)
(* outbox announce it.                                                     *)
Init ==
  /\ row = NewIncident(FALSE)
  /\ diagnoses = 0 /\ plan = FALSE /\ approval = "none"
  /\ decision = "none" /\ explained = FALSE
  /\ exec = [a \in Attempts |-> "none"] /\ healed = {} /\ disproved = {}
  /\ cooled = {}
  /\ schedules = {}
  /\ lease = NoLease
  /\ inbox = {"webhook", "outbox"} \X {1}
  /\ seen = [w \in Workers |-> {}]
  /\ mode \in Modes
  /\ confidence \in Confidences
  /\ told = FALSE
  /\ undercut = FALSE
  /\ faults = 0
  /\ pc = [r \in Runs |-> "idle"]
  /\ st = [r \in Runs |-> NoState]

-----------------------------------------------------------------------------
Goto(r, node) == pc' = [pc EXCEPT ![r] = node]

Stop(r) == Goto(r, "idle") /\ st' = [st EXCEPT ![r] = NoState]

MovedFrom_AnyState(S, target) == AfterTransition(row, target)

(* if inc.state in S: inc = await repo.transition(..., inc.version, target) *)
MovedFrom(S, target) == IF row.state \in S THEN AfterTransition(row, target) ELSE row

(* The version a node returns: the new one if it moved the incident.       *)
VersionAfter(r, new) == IF new = row THEN st[r].version ELSE new.version

-----------------------------------------------------------------------------
(* WorkflowRunner.run_incident, down to the start of the graph *)

Begins_WithoutRecords(r, expected) ==
  /\ row.state \notin Terminal /\ row.version <= expected
  /\ st' = [st EXCEPT ![r] =
              [NoState EXCEPT !.version     = row.version,
                              !.attempts    = row.attempts,
                              !.is_approved = row.state = "APPROVED"
                                                \/ approval \in {"APPROVE", "EXPIRED"}]]
  /\ Goto(r, "leasing")

Begins(r, expected) ==
  /\ row.state \notin Terminal /\ row.version <= expected
  /\ st' = [st EXCEPT ![r] =
              [NoState EXCEPT !.version     = row.version,
                              !.diagnosis   = diagnoses > 0,
                              !.plan        = plan,
                              !.attempts    = row.attempts,
                              !.is_approved = row.state = "APPROVED"
                                                \/ approval \in {"APPROVE", "EXPIRED"}]]
  /\ Goto(r, "leasing")

(* A terminal incident or a stale version: the wake-up is dropped. *)
Skips(r, expected) ==
  /\ row.state \in Terminal \/ row.version > expected
  /\ Stop(r)

run_incident(r, expected) ==
  /\ Begins(r, expected) \/ Skips(r, expected)
  /\ UNCHANGED <<row, records, trials, lease, mode, confidence, told, undercut, faults>>

(* The stream consumer takes a notification, once per version.  One that   *)
(* was never published is one that is never delivered.                     *)
Deliver(r) ==
  /\ r \in Consumers /\ pc[r] = "idle"
  /\ \E n \in inbox :
       /\ inbox' = inbox \ {n}
       /\ n[2] \notin seen[OwnerOf[r]]
       /\ seen' = [seen EXCEPT ![OwnerOf[r]] = @ \cup {n[2]}]
       /\ run_incident(r, n[2])
  /\ UNCHANGED schedules

(* The same version again: acknowledged and dropped. *)
Deduplicate(r) ==
  /\ r \in Consumers /\ pc[r] = "idle"
  /\ \E n \in inbox : n[2] \in seen[OwnerOf[r]] /\ inbox' = inbox \ {n}
  /\ UNCHANGED <<row, records, trials, schedules, lease, seen, mode, confidence, told, undercut,
                 faults, pc, st>>

(* recover_due_schedules claims a schedule: PENDING -> PROCESSED. *)
Wake(r) ==
  /\ r \in Sweepers /\ pc[r] = "idle"
  /\ \E s \in schedules :
       s.due /\ schedules' = schedules \ {s} /\ run_incident(r, s.version)
  /\ UNCHANGED <<inbox, seen>>

Recoverable_NotApproved == {"DETECTED", "TRIAGED", "DIAGNOSED", "PLANNED", "EXECUTING",
                            "VERIFYING"}

(* The states whose incidents the recovery sweeper picks up. *)
Recoverable == {"DETECTED", "TRIAGED", "DIAGNOSED", "PLANNED", "APPROVED",
                "EXECUTING", "VERIFYING"}

ListStuck_IgnoringSchedules(r) ==
  /\ r \in Sweepers /\ pc[r] = "idle"
  /\ row.state \in Recoverable
  /\ lease = NoLease
  /\ Goto(r, "listed")
  /\ st' = [st EXCEPT ![r].version = row.version]
  /\ UNCHANGED <<row, records, trials, schedules, lease, outside, faults>>

(* recover_unprocessed_incidents, its query: no lease, nothing scheduled.  *)
ListStuck(r) ==
  /\ r \in Sweepers /\ pc[r] = "idle"
  /\ row.state \in Recoverable
  /\ lease = NoLease
  /\ \A s \in schedules : s.due
  /\ Goto(r, "listed")
  /\ st' = [st EXCEPT ![r].version = row.version]
  /\ UNCHANGED <<row, records, trials, schedules, lease, outside, faults>>

(* ... and, after the incidents listed before this one, its dispatch. *)
Sweep(r) ==
  /\ pc[r] = "listed"
  /\ run_incident(r, st[r].version)
  /\ UNCHANGED <<schedules, inbox, seen>>

(* The WHERE clause of acquire_incident_lease. *)
LeaseFree(r) == ~lease.live \/ lease.owner = OwnerOf[r]

(* The run that holds the lease has not given it back.  It loses it if no  *)
(* renewal comes in time, or to another run of its own worker.             *)
AtWork == lease.live /\ \E s \in Runs : lease.token = s /\ pc[s] \in InGraph \cup {"leased"}

AcquireLease(r) ==
  /\ pc[r] = "leasing"
  /\ IF row.version = st[r].version /\ LeaseFree(r)
       THEN /\ lease' = [token |-> r, owner |-> OwnerOf[r], live |-> TRUE]
            /\ undercut' = (undercut \/ (AtWork /\ lease.owner = OwnerOf[r]))
            /\ Goto(r, "leased") /\ UNCHANGED st
       ELSE Stop(r) /\ UNCHANGED <<lease, undercut>>
  /\ UNCHANGED <<row, records, trials, schedules, inbox, seen, mode, confidence, told, faults>>

Released(r) == IF lease.token = r THEN NoLease ELSE lease

(* The only check of the lease: once, before the graph runs. *)
VerifyLease(r) ==
  /\ pc[r] = "leased"
  /\ IF lease.token = r /\ lease.live /\ row.version = st[r].version
       THEN Goto(r, "collect_evidence") /\ UNCHANGED <<lease, st>>
       ELSE Stop(r) /\ lease' = Released(r)
  /\ UNCHANGED <<row, records, trials, schedules, outside, faults>>

-----------------------------------------------------------------------------
(* The nodes of the graph *)

collect_evidence_node(r) ==
  LET new == IF st[r].diagnosis THEN row ELSE MovedFrom({"DETECTED"}, "TRIAGED") IN
  /\ pc[r] = "collect_evidence"
  /\ row' = new
  /\ st' = [st EXCEPT ![r].version = VersionAfter(r, new)]
  /\ Goto(r, "diagnose")
  /\ UNCHANGED <<records, trials, schedules, lease, outside, faults>>

(* DETECTED and TRIAGED incidents move on; in any later state the record   *)
(* is added and the incident stays where it is.                            *)
Diagnosed(target) ==
  IF row.state = "DETECTED"
    THEN AfterTransition(AfterTransition(row, "TRIAGED"), target)
    ELSE MovedFrom({"TRIAGED"}, target)

SkipDiagnosis(r) ==
  /\ pc[r] = "diagnose" /\ st[r].diagnosis
  /\ Goto(r, "plan")
  /\ UNCHANGED <<row, records, trials, schedules, lease, outside, faults, st>>

diagnose_node(r) ==
  /\ pc[r] = "diagnose" /\ ~st[r].diagnosis
  /\ \E is_actionable \in BOOLEAN :
       LET new == Diagnosed(IF is_actionable THEN "DIAGNOSED" ELSE "ESCALATED") IN
       /\ row' = new
       /\ explained' = (explained \/ ~is_actionable)
       /\ st' = [st EXCEPT ![r].version = VersionAfter(r, new), ![r].diagnosis = TRUE]
       /\ Goto(r, IF is_actionable THEN "plan" ELSE "escalate")
  /\ diagnoses' = IF diagnoses < 2 THEN diagnoses + 1 ELSE diagnoses
  /\ UNCHANGED <<plan, approval, decision, trials, schedules, lease, outside, faults>>

SkipPlanning(r) ==
  /\ pc[r] = "plan" /\ st[r].plan
  /\ Goto(r, "evaluate_policy")
  /\ UNCHANGED <<row, records, trials, schedules, lease, outside, faults, st>>

(* Planning writes with the version in the graph state.  If that is stale  *)
(* the node raises, as it does if the plan exists by now: see Fail.        *)
plan_node(r) ==
  /\ pc[r] = "plan" /\ ~st[r].plan
  /\ row.version = st[r].version
  /\ \E target \in {"PLANNED", "ESCALATED"} :
       /\ TransitionAllowed(row, target)
       /\ target = "PLANNED" => ~plan
       /\ row' = AfterTransition(row, target)
       /\ plan' = (plan \/ target = "PLANNED")
       /\ explained' = (explained \/ target = "ESCALATED")
       /\ st' = [st EXCEPT ![r].version = row'.version, ![r].plan = plan']
       /\ Goto(r, IF target = "PLANNED" THEN "evaluate_policy" ELSE "escalate")
  /\ UNCHANGED <<diagnoses, approval, decision, trials, schedules, lease, outside, faults>>

evaluate_ForgettingApproval(attempts) ==
  IF mode = "DISABLED" \/ confidence = "low" \/ attempts > RetryLimit
    THEN "DENY"
  ELSE IF mode = "APPROVAL_REQUIRED" \/ confidence = "medium"
    THEN "REQUIRE_APPROVAL"
  ELSE "ALLOW"

(* PolicyEngine.evaluate on the facts the node gives it: it passes on no   *)
(* grant, no earlier execution and no lock, so it never sees a cooldown.   *)
evaluate(attempts) ==
  IF mode = "DISABLED" \/ confidence = "low" \/ attempts > RetryLimit
    THEN "DENY"
  ELSE IF mode = "APPROVAL_REQUIRED" \/ row.approval_required \/ confidence = "medium"
    THEN "REQUIRE_APPROVAL"
  ELSE "ALLOW"

evaluate_policy_node(r) ==
  /\ pc[r] = "evaluate_policy"
  /\ st' = [st EXCEPT ![r].policy_decision = evaluate(st[r].attempts)]
  /\ Goto(r, "decided")
  /\ UNCHANGED <<row, records, trials, schedules, lease, outside, faults>>

RoutedByDecision(d) ==
  CASE d = "DENY" -> MovedFrom({"PLANNED"}, "ESCALATED")
    [] d = "REQUIRE_APPROVAL" /\ row.state = "PLANNED" ->
         AfterTransition(IF row.approval_required THEN row ELSE AfterRequireApproval(row),
                         "PENDING_APPROVAL")
    [] OTHER -> row

(* route_after_policy, and wait_for_approval_node with its route *)
route_after_policy(d, is_approved) ==
  CASE d = "DENY"                              -> "escalate"
    [] d = "REQUIRE_APPROVAL" /\ ~is_approved  -> "end"
    [] OTHER                                   -> "precheck"

(* evaluate_policy_node, its second transaction: the decision is recorded  *)
(* and routes the incident.                                                *)
RecordDecision(r) ==
  LET d   == st[r].policy_decision
      new == RoutedByDecision(d) IN
  /\ pc[r] = "decided"
  /\ row' = new
  /\ decision' = d
  /\ explained' = (explained \/ d = "DENY")
  /\ st' = [st EXCEPT ![r].version = VersionAfter(r, new),
                      ![r].wait_reason = IF d = "REQUIRE_APPROVAL"
                                           THEN "AWAITING_APPROVAL" ELSE "none"]
  /\ Goto(r, route_after_policy(d, st[r].is_approved))
  /\ UNCHANGED <<diagnoses, plan, approval, trials, schedules, lease, outside, faults>>

(* adapter.precheck: what it demands of decision, approval and controls.   *)
Authorised ==
  /\ decision # "DENY"
  /\ decision = "REQUIRE_APPROVAL" \/ mode = "APPROVAL_REQUIRED" => approval = "APPROVE"
  /\ mode # "DISABLED"

PrecheckPasses(r) ==
  /\ pc[r] = "precheck"
  /\ Authorised
  /\ Goto(r, "dispatch")
  /\ UNCHANGED <<row, records, trials, schedules, lease, outside, faults, st>>

(* Not authorised, or the container is not what the plan was made for. *)
PrecheckFails(r) ==
  /\ pc[r] = "precheck"
  /\ row' = MovedFrom({"APPROVED", "PLANNED"}, "ESCALATED")
  /\ explained' = TRUE
  /\ Goto(r, "escalate")
  /\ UNCHANGED <<diagnoses, plan, approval, decision, trials, schedules, lease, outside,
                 faults, st>>

(* A PLANNED incident that requires approval must not be dispatched. *)
Dispatchable == row.state \in {"APPROVED", "PLANNED"} => TransitionAllowed(row, "EXECUTING")

Dispatch(r) ==
  /\ pc[r] = "dispatch" /\ Dispatchable
  /\ row' = MovedFrom({"APPROVED", "PLANNED"}, "EXECUTING")
  /\ Goto(r, "execute")
  /\ UNCHANGED <<records, trials, schedules, lease, outside, faults, st>>

Attempt_OffByOne(r) == st[r].attempts + 2

(* The number in the idempotency key of the execution. *)
Attempt(r) == st[r].attempts + 1

OutcomeNode_Unchecked(status) == "executed"

OutcomeNode(status) == IF status = "SUCCEEDED" THEN "executed" ELSE "failed"

(* adapter.execute: record the attempt under the resource lock, restart *)
ExecuteNew(r) ==
  /\ pc[r] = "execute" /\ exec[Attempt(r)] = "none" /\ mode # "DISABLED"
  /\ exec' = [exec EXCEPT ![Attempt(r)] = "RUNNING"]
  /\ Goto(r, "restarting")
  /\ UNCHANGED <<row, records, healed, disproved, cooled, schedules, lease, outside, faults, st>>

(* ... or reuse what an earlier run of the attempt left, and if that one   *)
(* did not finish, judge by the state the container is in.                 *)
ExecuteAgain(r) ==
  /\ pc[r] = "execute" /\ exec[Attempt(r)] # "none"
  /\ \E status \in {"SUCCEEDED", "FAILED"} :
       /\ exec[Attempt(r)] \in {"RUNNING", status}
       /\ exec' = [exec EXCEPT ![Attempt(r)] = status]
       /\ Goto(r, OutcomeNode(status))
  /\ UNCHANGED <<row, records, healed, disproved, cooled, schedules, lease, outside, faults, st>>

ExecuteFinish(r) ==
  /\ pc[r] = "restarting" /\ exec[Attempt(r)] = "RUNNING"
  /\ \E status \in {"SUCCEEDED", "FAILED"} :
       /\ exec' = [exec EXCEPT ![Attempt(r)] = status]
       /\ Goto(r, OutcomeNode(status))
  /\ UNCHANGED <<row, records, healed, disproved, cooled, schedules, lease, outside, faults, st>>

RecordSuccess(r) ==
  LET new == MovedFrom({"EXECUTING"}, "VERIFYING") IN
  /\ pc[r] = "executed"
  /\ row' = new
  /\ st' = [st EXCEPT ![r].version = VersionAfter(r, new), ![r].attempts = Attempt(r)]
  /\ Goto(r, "verify")
  /\ UNCHANGED <<records, trials, schedules, lease, outside, faults>>

RecordFailure_NoRecord(r) ==
  /\ pc[r] = "failed"
  /\ row' = IF row.state = "EXECUTING"
              THEN AfterTransition(AfterTransition(row, "FAILED"), "ESCALATED") ELSE row
  /\ Goto(r, "escalate")
  /\ UNCHANGED <<records, trials, schedules, lease, outside, faults, st>>

RecordFailure(r) ==
  /\ pc[r] = "failed"
  /\ row' = IF row.state = "EXECUTING"
              THEN AfterTransition(AfterTransition(row, "FAILED"), "ESCALATED") ELSE row
  /\ explained' = TRUE
  /\ Goto(r, "escalate")
  /\ UNCHANGED <<diagnoses, plan, approval, decision, trials, schedules, lease, outside,
                 faults, st>>

-----------------------------------------------------------------------------
(* verify_node: one transaction after the verifier's verdict *)

Schedule(reason, version, attempt) ==
  schedules' = schedules \cup
    {[reason |-> reason, version |-> version, previous_attempt |-> attempt, due |-> FALSE,
      behind |-> IF reason = "COOLDOWN" THEN {} ELSE {c.version : c \in Cooldowns}]}

(* schedule_retry_cooldown, in a transaction that commits before the one   *)
(* that moves the incident to `new'.                                       *)
schedule_retry_cooldown(new) == Schedule("COOLDOWN", new.version, new.attempts)

VerifyHealed(r) ==
  LET new == MovedFrom({"VERIFYING"}, "RESOLVED") IN
  /\ pc[r] = "verify"
  /\ row' = new
  /\ healed' = healed \cup {st[r].attempts}
  /\ st' = [st EXCEPT ![r].version = new.version]
  /\ Goto(r, "resolve")
  /\ UNCHANGED <<records, exec, disproved, cooled, schedules, lease, outside, faults>>

(* Recovered without the agent, or no telling: never counted as ours. *)
VerifyExternal(r) ==
  LET new == MovedFrom({"VERIFYING"}, "ESCALATED") IN
  /\ pc[r] = "verify"
  /\ row' = new
  /\ explained' = TRUE
  /\ st' = [st EXCEPT ![r].version = new.version]
  /\ Goto(r, "escalate")
  /\ UNCHANGED <<diagnoses, plan, approval, decision, trials, schedules, lease, outside, faults>>

is_retry_eligible == row.attempts < RetryLimit

VerifyFailedRetry(r) ==
  LET new == MovedFrom({"VERIFYING"}, "DIAGNOSED") IN
  /\ pc[r] = "verify" /\ is_retry_eligible
  /\ row' = new
  /\ disproved' = disproved \cup {st[r].attempts}
  /\ schedule_retry_cooldown(new)
  /\ st' = [st EXCEPT ![r].version = new.version, ![r].attempts = new.attempts,
                      ![r].wait_reason = "COOLDOWN"]
  /\ Goto(r, "end")
  /\ UNCHANGED <<records, exec, healed, cooled, lease, outside, faults>>

VerifyFailedForGood(r) ==
  LET new == MovedFrom({"VERIFYING"}, "ESCALATED") IN
  /\ pc[r] = "verify" /\ ~is_retry_eligible
  /\ row' = new
  /\ disproved' = disproved \cup {st[r].attempts}
  /\ explained' = TRUE
  /\ st' = [st EXCEPT ![r].version = new.version]
  /\ Goto(r, "escalate")
  /\ UNCHANGED <<diagnoses, plan, approval, decision, exec, healed, cooled, schedules, lease,
                 outside, faults>>

(* resolve_node and escalate_node write with the version in the graph      *)
(* state and swallow every exception.                                      *)
Settle(r, node, target) ==
  /\ pc[r] = node
  /\ row' = IF row.version = st[r].version /\ TransitionAllowed(row, target)
              THEN AfterTransition(row, target) ELSE row
  /\ Goto(r, "end")
  /\ UNCHANGED <<records, trials, schedules, lease, outside, faults, st>>

resolve_node(r)  == Settle(r, "resolve", "RESOLVED")
escalate_node(r) == Settle(r, "escalate", "ESCALATED")

(* run_incident after the graph: an interrupt is scheduled whenever the    *)
(* graph state still says AWAITING_APPROVAL, then the lease is released.   *)
Finish(r) ==
  /\ pc[r] = "end"
  /\ IF st[r].wait_reason = "AWAITING_APPROVAL"
       THEN LET new == MovedFrom({"PLANNED"}, "PENDING_APPROVAL") IN
            row' = new /\ Schedule("AWAITING_APPROVAL", VersionAfter(r, new), 0)
       ELSE UNCHANGED <<row, schedules>>
  /\ lease' = Released(r)
  /\ Stop(r)
  /\ UNCHANGED <<records, trials, outside, faults>>

-----------------------------------------------------------------------------
(* Exceptions and crashes *)

(* The node raises whatever happens: its write or its attempt is refused. *)
Refused(r) ==
  \/ /\ pc[r] = "plan" /\ ~st[r].plan
     /\ \/ row.version # st[r].version
        \/ plan
        \/ ~TransitionAllowed(row, "PLANNED")
  \/ pc[r] = "dispatch" /\ ~Dispatchable
  \/ pc[r] = "execute" /\ exec[Attempt(r)] = "none" /\ mode = "DISABLED"
  \/ pc[r] = "restarting" /\ exec[Attempt(r)] # "RUNNING"

Raise(r) ==
  /\ Refused(r)
  /\ lease' = Released(r) /\ Stop(r)
  /\ UNCHANGED <<row, records, trials, schedules, outside, faults>>

(* Any other exception: a lost connection, a ConflictError, a held lock. *)
Fail(r) ==
  /\ pc[r] # "idle" /\ faults < FaultLimit
  /\ faults' = faults + 1
  /\ lease' = Released(r) /\ Stop(r)
  /\ UNCHANGED <<row, records, trials, schedules, outside>>

(* The worker dies, with all its runs and with what its consumer has seen, *)
(* and may come back under another name.  The lease stays, and so does a   *)
(* cooldown that verify_node had committed before its own transaction.     *)
Crash(w) ==
  LET hit == {r \in Runs : OwnerOf[r] = w} IN
  /\ faults < FaultLimit /\ \E r \in hit : pc[r] # "idle"
  /\ faults' = faults + 1
  /\ pc' = [r \in Runs |-> IF r \in hit THEN "idle" ELSE pc[r]]
  /\ st' = [r \in Runs |-> IF r \in hit THEN NoState ELSE st[r]]
  /\ \/ UNCHANGED lease
     \/ lease.owner = w /\ lease' = [lease EXCEPT !.owner = Nobody]
  /\ \/ UNCHANGED schedules
     \/ /\ is_retry_eligible /\ \E r \in hit : pc[r] = "verify"
        /\ schedule_retry_cooldown(MovedFrom({"VERIFYING"}, "DIAGNOSED"))
  /\ seen' = [seen EXCEPT ![w] = {}]
  /\ UNCHANGED <<row, records, trials, inbox, mode, confidence, told, undercut>>

-----------------------------------------------------------------------------
(* The approvals API: submit_approval *)

CanDecide == row.state = "PENDING_APPROVAL" /\ plan /\ approval = "none"

Approve ==
  /\ CanDecide /\ ~told
  /\ approval' = "APPROVE"
  /\ row' = AfterTransition(row, "APPROVED")
  /\ inbox' = inbox \cup {<<"outbox", row'.version>>}
  /\ UNCHANGED <<diagnoses, plan, decision, explained, trials, schedules, lease, seen, mode,
                 confidence, told, undercut, faults, pc, st>>

Reject ==
  /\ CanDecide /\ ~told
  /\ approval' = "REJECT"
  /\ row' = AfterTransition(row, "ESCALATED")
  /\ explained' = TRUE
  /\ UNCHANGED <<diagnoses, plan, decision, trials, schedules, lease, outside, faults, pc, st>>

(* Past the deadline, which may be at any time and for good, the incident  *)
(* is escalated and 410 is raised, inside the transaction: unit_of_work    *)
(* rolls the escalation back.  (In other states 410 is all there is.)      *)
DecideLate ==
  /\ CanDecide /\ ~told
  /\ told' = TRUE
  /\ UNCHANGED <<row, records, trials, schedules, lease, inbox, seen, mode, confidence,
                 undercut, faults, pc, st>>

(* update_controls, or the emergency stop of the resource *)
SetMode(m) ==
  /\ mode # m
  /\ mode' = m
  /\ UNCHANGED <<row, records, trials, schedules, lease, inbox, seen, confidence, told,
                 undercut, faults, pc, st>>

-----------------------------------------------------------------------------
(* Time *)

GrantExpires ==
  /\ approval = "APPROVE"
  /\ approval' = "EXPIRED"
  /\ UNCHANGED <<row, diagnoses, plan, decision, explained, trials, schedules, lease,
                 outside, faults, pc, st>>

(* A cooldown takes 600 seconds and an approval 1800: an approval wait     *)
(* comes due after the cooldowns that were running when it began.          *)
ComesDue(s) ==
  /\ ~s.due /\ s.behind = {}
  /\ schedules' = {[t EXCEPT !.behind = IF s.reason = "COOLDOWN" THEN @ \ {s.version} ELSE @] :
                     t \in schedules \ {s}} \cup {[s EXCEPT !.due = TRUE]}
  /\ cooled' = IF s.reason = "COOLDOWN" THEN cooled \cup {s.previous_attempt} ELSE cooled
  /\ UNCHANGED <<row, records, exec, healed, disproved, lease, outside, faults, pc, st>>

LeaseExpires ==
  /\ lease.live
  /\ LeasesOutliveRuns => pc[lease.token] \in {"idle", "listed", "leasing"}
  /\ lease' = [lease EXCEPT !.live = FALSE]
  /\ undercut' = (undercut \/ AtWork)
  /\ UNCHANGED <<row, records, trials, schedules, inbox, seen, mode, confidence, told, faults,
                 pc, st>>

cleanup_expired_leases ==
  /\ lease # NoLease /\ ~lease.live
  /\ lease' = NoLease
  /\ UNCHANGED <<row, records, trials, schedules, outside, faults, pc, st>>

-----------------------------------------------------------------------------
Start(r) == Deliver(r) \/ Deduplicate(r) \/ Wake(r) \/ ListStuck(r)

Advance(r) ==
  \/ Sweep(r) \/ AcquireLease(r) \/ VerifyLease(r)
  \/ collect_evidence_node(r)
  \/ SkipDiagnosis(r) \/ diagnose_node(r)
  \/ SkipPlanning(r) \/ plan_node(r)
  \/ evaluate_policy_node(r) \/ RecordDecision(r)
  \/ PrecheckPasses(r) \/ PrecheckFails(r) \/ Dispatch(r)
  \/ ExecuteNew(r) \/ ExecuteAgain(r) \/ ExecuteFinish(r)
  \/ RecordSuccess(r) \/ RecordFailure(r)
  \/ VerifyHealed(r) \/ VerifyExternal(r)
  \/ VerifyFailedRetry(r) \/ VerifyFailedForGood(r)
  \/ resolve_node(r) \/ escalate_node(r)
  \/ Finish(r) \/ Raise(r)

SomeScheduleComesDue == \E s \in schedules : ComesDue(s)

Next ==
  \/ \E r \in Runs : Start(r) \/ Advance(r) \/ Fail(r)
  \/ \E w \in Workers : Crash(w)
  \/ Approve \/ Reject \/ DecideLate
  \/ \E m \in Modes : SetMode(m)
  \/ GrantExpires \/ SomeScheduleComesDue
  \/ LeaseExpires \/ cleanup_expired_leases

Spec == Init /\ [][Next]_vars

(* A run that can go on does; time passes; the recovery loop, which runs   *)
(* every three seconds for as long as the worker does, finds what is due,  *)
(* removes expired leases and lists what is stuck.  Nothing is assumed of  *)
(* notifications, approvers and operators.                                 *)
Fairness ==
  /\ \A r \in Runs : WF_vars(Advance(r))
  /\ WF_vars(SomeScheduleComesDue) /\ WF_vars(LeaseExpires)
  /\ WF_vars(cleanup_expired_leases)
  /\ WF_vars(\E r \in Runs : Wake(r))
  /\ WF_vars(\E r \in Runs : ListStuck(r))

FairSpec == Spec /\ Fairness

-----------------------------------------------------------------------------
(* Every write of the workflow, its approvers and its crashes is a legal   *)
(* transaction on the incident row.                                        *)
ImplementsRecord == Record!Spec

(* Whoever ends an incident in ESCALATED, whichever node, run or approver, *)
(* has left an escalation record that says why.                            *)
EscalationExplained == row.state = "ESCALATED" => explained

(* However verify_node and resolve_node are reached, RESOLVED stands for a *)
(* restart that succeeded and a verification of that same attempt that     *)
(* passed and was attributed to the agent.                                 *)
ResolvedWasHealed ==
  row.state = "RESOLVED" => \E a \in healed : exec[a] = "SUCCEEDED"

(* adapter.execute is asked for an attempt only within the budget the row  *)
(* has paid for, and only after the one before was verified and failed.    *)
AttemptsJustified ==
  \A a \in Attempts :
    exec[a] # "none" => a <= row.attempts + 1 /\ (a > 1 => a - 1 \in disproved)

(* Whoever wakes the incident, no retry starts before a cooldown has run   *)
(* out that schedule_retry_cooldown made when the attempt before failed.   *)
CooldownRespected == \A a \in Attempts : exec[a] # "none" /\ a > 1 => a - 1 \in cooled

Begun(a) == exec[a] = "none" /\ exec'[a] = "RUNNING"

(* Once evaluate_policy_node has asked for approval of an incident,        *)
(* nothing is restarted for it before a person has granted it, unless a    *)
(* run at work had lost its lease and another one got in beside it.        *)
RestartAuthorised ==
  [][\A a \in Attempts :
       Begun(a) /\ row.approval_required => approval \in {"APPROVE", "EXPIRED"} \/ undercut]_vars

(* A wake-up that is duplicated, retried or raced by another run does not  *)
(* diagnose the incident twice, as the stream consumer promises.           *)
OneDiagnosis == diagnoses <= 1

(* Nothing but a lease that expired under a run, or was taken over by a    *)
(* run of the same worker, lets an incident be diagnosed twice: neither    *)
(* duplicates nor crashes, versions that were read before the lease, nor   *)
(* another worker.                                                         *)
SingleDiagnosis == undercut \/ OneDiagnosis

(* Whatever a run of run_incident writes to the incident it writes while   *)
(* it holds the lease: ownership is checked again at every such boundary.  *)
WritesUnderLease ==
  [][\A r \in Runs :
       pc[r] \in InGraph /\ pc'[r] # pc[r] /\ row' # row => lease.token = r /\ lease.live]_vars

(* The call of adapter.execute a run is in. *)
CallOf(r) ==
  CASE pc[r] = "execute"    -> [at |-> "called", key |-> Attempt(r)]
    [] pc[r] = "restarting" -> [at |-> "restarting", key |-> Attempt(r)]
    [] pc[r] = "executed"   -> [at |-> "SUCCEEDED", key |-> Attempt(r)]
    [] pc[r] = "failed"     -> [at |-> "FAILED", key |-> Attempt(r)]
    [] OTHER                -> [at |-> "out"]

Adapter == INSTANCE AdapterCalls
             WITH Callers <- Runs, Keys <- Attempts, record <- exec,
                  call <- [r \in Runs |-> CallOf(r)]

(* execute_node calls the adapter for attempts of its incident only, and   *)
(* acts on an outcome only if it is the one in the execution record.       *)
ImplementsAdapter == Adapter!Spec

(* An approver whom submit_approval told that the request had expired and  *)
(* the incident had been escalated can rely on it.                         *)
LateDecisionEscalates == told => row.state = "ESCALATED"

(* Though every notification be lost and a worker die, the recovery        *)
(* sweeper sees to it that an incident leaves the states before dispatch   *)
(* that only the workflow can take it out of.                              *)
NeverStranded ==
  \A s \in {"DETECTED", "TRIAGED", "PLANNED", "APPROVED"} :
    row.state = s ~> row.state # s

(* The retries of verify_node are bounded: once a restart has failed its   *)
(* verification the incident comes to an end, healed or given up.          *)
RetriesEnd == disproved # {} ~> row.state \in Terminal
=============================================================================
