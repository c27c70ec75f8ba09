------------------------------ MODULE Remediation ----------------------------
(***************************************************************************)
(* One attempt at healing one incident, with the contents of what flows    *)
(* through the workflow: evidence is collected, diagnosed, planned for,    *)
(* judged by the policy, approved, executed and verified, by the pure      *)
(* functions of Diagnosis, Planning and Policy and the loop of             *)
(* Verification.                                                           *)
(*                                                                         *)
(* Every node commits to the database; its checkpoint is stored in the     *)
(* background while the next nodes run and commit.  A crash loses what is  *)
(* not stored.  A resumed run starts at the first node, from the records   *)
(* of the database merged over the last stored checkpoint, and a node      *)
(* whose record exists is skipped.                                         *)
(*                                                                         *)
(* Leases, versions, schedules, retries, the exactly-once execution and    *)
(* crashes in it and in the verification are IncidentWorkflow's and        *)
(* DockerExecution's.                                                      *)
(***************************************************************************)
EXTENDS Diagnosis, Planning, Policy, Verification

CONSTANTS
  Containers,   \* the container id of each generation of the binding
  Answers,      \* what Docker, Prometheus and Loki may answer a collection
  Services,     \* compose services of the resources that have incidents
  GivenId,      \* container_id label of a resource that was registered with one
  CrashLimit    \* bound on worker crashes

ASSUME RemediationAssumption ==
  /\ Containers \in [1..Generations -> HexIds]
  /\ "none" \notin Services /\ "none" \notin HexIds
  /\ "demo-api-container-id" \notin HexIds
  /\ \A answer \in Answers : answer.container # "none"

VARIABLES
  stage,        \* the next node of the graph, or how the attempt ended
  graph,        \* the channels of the graph state, in the worker's memory
  saved,        \* what a new run would start from, for each checkpoint that
                \* may be the last one stored
  db,           \* the incident's records
  crashes,
  inspected,    \* history: generation of the container the evidence is about
  warranted,    \* history: the evidence argues for a restart
  lost          \* history: a crash lost the binding of the evidence

run     == <<stage, graph, saved, db, crashes, lost>>
history == <<inspected, warranted>>
vars    == <<run, history, verification>>

NoObservation == [status |-> "none"]
NoDiagnosis   == [cause |-> "none", confidence |-> 0, actionable |-> FALSE]
NoPlan        == [version |-> 0]

Observations  == {to_observation_bundle(answer) : answer \in Answers}

Nodes    == {"collect_evidence", "diagnose", "plan", "evaluate_policy", "execute", "verify"}
Outcomes == {"resolved", "escalated", "retry"}

Init ==
  /\ InitVerification
  /\ stage = "collect_evidence" /\ crashes = 0
  /\ \E service \in Services :
       db = [service |-> service, evidence |-> FALSE, diagnosis |-> NoDiagnosis,
             plan |-> NoPlan, approved |-> FALSE]
  /\ graph = [evidence |-> FALSE, observation |-> NoObservation, container |-> "none",
              generation |-> 0, service |-> "none", diagnosis |-> FALSE, cause |-> "none",
              confidence |-> None, plan |-> FALSE, approved |-> FALSE]
  /\ saved = {graph}
  /\ inspected = 0 /\ warranted = FALSE /\ lost = FALSE

-----------------------------------------------------------------------------
(* The steps of a run. *)

(* The initial state of a resumed run over the channels of the checkpoint. *)
(* The observation, the confidence and the service are in no record; the   *)
(* observation is not read again once there is a diagnosis.                *)
Resume(g, records) ==
  [evidence    |-> records.evidence,
   observation |-> IF records.diagnosis = NoDiagnosis THEN g.observation ELSE NoObservation,
   container   |-> IF records.plan = NoPlan THEN g.container
                   ELSE records.plan.target.container,
   generation  |-> IF records.plan = NoPlan THEN g.generation
                   ELSE records.plan.target.generation,
   service     |-> g.service,
   diagnosis   |-> records.diagnosis # NoDiagnosis,
   cause       |-> records.diagnosis.cause,
   confidence  |-> g.confidence,
   plan        |-> records.plan # NoPlan,
   approved    |-> records.approved]

StartOver(g, records) == graph' = Resume(g, records) /\ saved' = {graph'}

(* A crash, after which run_incident starts over unless the incident has   *)
(* reached a terminal state.                                               *)
CrashWith(records, next) ==
  /\ crashes < CrashLimit /\ crashes' = crashes + 1
  /\ \E g \in saved :
       /\ StartOver(g, records)
       /\ lost' = (lost \/ (records.evidence /\ records.plan = NoPlan /\ g.generation = 0))
  /\ stage' = IF next \in Outcomes THEN next ELSE "collect_evidence"

(* ainvoke goes on to the next node while the checkpoints are stored, one  *)
(* after the other; before it returns it waits for them.  The execution is *)
(* not interrupted here.                                                   *)
Checkpoints(records, channels, next) ==
  LET behind == IF next \in {"diagnose", "plan", "evaluate_policy"} THEN saved ELSE {}
  IN  {Resume(g, records) : g \in behind \cup {channels}}

(* A node: its transaction, then its checkpoint. *)
Node(node, records, channels, next) ==
  /\ stage = node /\ db' = records
  /\ \/ /\ graph' = channels /\ stage' = next
        /\ saved' = Checkpoints(records, channels, next)
        /\ UNCHANGED <<crashes, lost>>
     \/ CrashWith(records, next)

Skip(node, next) ==
  /\ stage = node /\ stage' = next
  /\ UNCHANGED <<graph, saved, db, crashes, lost, history, verification>>

Crash ==
  /\ stage \in Nodes \ {"execute", "verify"}
  /\ CrashWith(db, stage)
  /\ UNCHANGED <<db, history, verification>>

SkipCollection ==
  (graph.evidence \/ graph.diagnosis) /\ Skip("collect_evidence", "diagnose")

(* The binding that labels = n stands for.  Without a discovery there is   *)
(* the container the resource was registered with, if any, and the         *)
(* generation counts as 1.                                                 *)
Binding(n) ==
  [container  |-> IF n = -1 THEN GivenId ELSE IF n = 0 THEN "none" ELSE Containers[n],
   generation |-> IF n < 1 THEN 1 ELSE n,
   service    |-> db.service]

(* The evidence is about the container of the binding, and without one the *)
(* inspection finds nothing; Rebind is what the discovery of this          *)
(* collection, or of another, does to the binding.                         *)
collect_evidence_node ==
  /\ ~graph.evidence /\ ~graph.diagnosis
  /\ UNCHANGED verification /\ inspected' = labels
  /\ \E o \in Observations :
       /\ Binding(labels).container = "none" => o.status = "not_found"
       /\ Node("collect_evidence", [db EXCEPT !.evidence = TRUE],
               [graph EXCEPT !.evidence = TRUE, !.observation = o,
                             !.container = Binding(labels).container,
                             !.generation = Binding(labels).generation,
                             !.service = db.service],
               "diagnose")
       /\ warranted' = Warranted(o)

SkipDiagnosis == graph.diagnosis /\ Skip("diagnose", "plan")

(* A lost observation is replaced by an empty one. *)
diagnose_node ==
  /\ ~graph.diagnosis
  /\ UNCHANGED <<history, verification>>
  /\ \E diag \in {diagnose(IF graph.observation = NoObservation THEN DefaultBundle
                          ELSE graph.observation)} :
       Node("diagnose", [db EXCEPT !.diagnosis = diag],
            [graph EXCEPT !.observation = NoObservation, !.diagnosis = TRUE,
                          !.cause = diag.cause, !.confidence = diag.confidence],
            IF diag.actionable THEN "plan" ELSE "escalated")

SkipPlanning == graph.plan /\ Skip("plan", "evaluate_policy")

TargetBinding_OfNow == Binding(labels)

(* The target of the plan; what the channels do not have is read from the  *)
(* labels of now, each field for itself.                                   *)
TargetBinding ==
  LET now == Binding(labels)
  IN  [container  |-> IF graph.container # "none" THEN graph.container
                      ELSE IF now.container # "none" THEN now.container
                      ELSE "demo-api-container-id",
       generation |-> IF graph.generation # 0 THEN graph.generation ELSE now.generation,
       service    |-> IF graph.service # "none" THEN graph.service ELSE now.service]

(* The binding is validated before the try: an id that is none raises out  *)
(* of the node, the transaction is rolled back and the incident is swept   *)
(* again.                                                                  *)
PlanBadTarget ==
  /\ stage = "plan" /\ ~graph.plan /\ TargetBinding.container \notin HexIds
  /\ StartOver(graph, db) /\ stage' = "collect_evidence"
  /\ UNCHANGED <<db, crashes, lost, history, verification>>

plan_node ==
  LET cause == db.diagnosis.cause
      plan  == Draft(cause, TargetBinding)
      bad   == PlanRaises(cause, TargetBinding) \/ plan.profile = "none"
  IN  /\ ~graph.plan /\ TargetBinding.container \in HexIds
      /\ Node("plan", IF bad THEN db ELSE [db EXCEPT !.plan = plan],
              IF bad THEN graph
              ELSE [graph EXCEPT !.plan = TRUE, !.container = plan.target.container,
                                 !.generation = plan.target.generation,
                                 !.service = plan.target.service],
              IF bad THEN "escalated" ELSE "evaluate_policy")
      /\ UNCHANGED <<history, verification>>

-----------------------------------------------------------------------------
(* Policy and approval. *)

(* The context of the first attempt.  The node passes on no grant, lock,   *)
(* last execution or age of the evidence, and a confidence that the graph  *)
(* state has lost is taken to be 0.90.                                     *)
EvaluationContext(mode, stopped) ==
  [mode |-> mode, stopped |-> stopped,
   service |-> IF graph.service = "none" THEN "demo-api" ELSE graph.service,
   container |-> db.plan.target.container, action |-> "restart_container",
   risk |-> db.plan.risk, environment |-> "local", cause |-> graph.cause,
   confidence |-> IF graph.confidence = None THEN 90 ELSE graph.confidence,
   attempts |-> 0, age |-> None, since |-> None, locked |-> FALSE, grant |-> NoGrant,
   version |-> db.plan.version, hash |-> db.plan.hash]

(* A deferred incident is left to a later run. *)
route_after_policy(decision) ==
  IF decision = "DENY" THEN "escalated"
  ELSE IF decision = "DEFER" THEN "collect_evidence"
  ELSE IF decision = "REQUIRE_APPROVAL" /\ ~graph.approved THEN "waiting"
  ELSE "execute"

(* The recorded decision authorises the execution in IncidentWorkflow.     *)
(* mode is the control's mode, raised to APPROVAL_REQUIRED if the incident *)
(* asks for that; a stop of the resource stops its service.                *)
evaluate_policy_node ==
  /\ graph.plan
  /\ \E mode \in {"AUTOMATIC", "APPROVAL_REQUIRED", "DISABLED"},
        stopped \in {{}, {db.service}, {db.plan.target.container}} :
       LET decision == evaluate(EvaluationContext(mode, stopped))
       IN  Node("evaluate_policy", db, graph, route_after_policy(decision))
  /\ UNCHANGED <<history, verification>>

Approve ==
  /\ stage = "waiting" /\ stage' = "collect_evidence"
  /\ db' = [db EXCEPT !.approved = TRUE]
  /\ StartOver(graph, db')
  /\ UNCHANGED <<crashes, lost, history, verification>>

(* Rejected, or not decided in time. *)
Reject ==
  /\ stage = "waiting" /\ stage' = "escalated"
  /\ UNCHANGED <<graph, saved, db, crashes, lost, history, verification>>

-----------------------------------------------------------------------------
(* Execution and verification. *)

(* The precheck compares the plan's binding with the resource's; what the  *)
(* adapter does after that is DockerExecution's.                           *)
ExecuteSucceeds ==
  /\ stage = "execute"
  /\ db.plan.target.container = Binding(labels).container
  /\ db.plan.target.generation = Binding(labels).generation
  /\ Start(labels) /\ stage' = "verify"
  /\ UNCHANGED <<graph, saved, db, crashes, lost, history>>

ExecuteFails ==
  /\ stage = "execute" /\ stage' = "escalated"
  /\ UNCHANGED <<graph, saved, db, crashes, lost, history, verification>>

(* The plan's profile is no scenario's: the root cause selects it. *)
scenario_id ==
  CASE graph.cause = "CONTAINER_STOPPED" -> "SCN-001"
    [] graph.cause = "CPU_SATURATION"    -> "SCN-002"
    [] graph.cause = "API_UNRESPONSIVE"  -> "SCN-003"
    [] OTHER                             -> "none"

run_verification ==
  /\ stage = "verify"
  /\ (\E s \in Samples : Sample(s, scenario_id)) \/ Timeout \/ Attribute(scenario_id)
  /\ UNCHANGED <<run, history>>

(* The verdict is recorded; a first failure leaves a retry. *)
verify_node ==
  /\ stage = "verify" /\ loop \in {"passed", "failed", "external"}
  /\ stage' = CASE loop = "passed"   -> "resolved"
               [] loop = "external" -> "escalated"
               [] loop = "failed"   -> "retry"
  /\ UNCHANGED <<graph, saved, db, crashes, lost, history, verification>>

-----------------------------------------------------------------------------
Work ==
  \/ SkipCollection \/ collect_evidence_node \/ SkipDiagnosis \/ diagnose_node
  \/ SkipPlanning \/ PlanBadTarget \/ plan_node \/ evaluate_policy_node
  \/ ExecuteSucceeds \/ ExecuteFails \/ run_verification \/ verify_node

Around == World /\ UNCHANGED <<run, history>>

Next == Work \/ Crash \/ Approve \/ Reject \/ Around

Spec == Init /\ [][Next]_vars

(* A worker that is up goes on with the run it has, and the recovery       *)
(* sweeper resumes what a crash left; nobody has to decide.                *)
FairSpec == Spec /\ WF_vars(Work)

-----------------------------------------------------------------------------
(* A plan is stored only for evidence on which a restart can be argued     *)
(* for: never for a workload whose signals are all good, whatever alert is *)
(* firing, for telemetry that is unavailable or too old, or for a running  *)
(* workload whose dependency is out (the rules' contradictions and         *)
(* precedence, the engine's freshness check, plan_node).                   *)
RestartWarranted == db.plan # NoPlan => warranted

(* A restart that nobody approved has a committed diagnosis of a supported *)
(* cause at or above the automatic threshold, also when the confidence was *)
(* lost with a checkpoint and the policy node assumed one.                 *)
UnattendedIsCertain ==
  stage \in {"execute", "verify"} /\ ~db.approved =>
    db.diagnosis.actionable /\ db.diagnosis.confidence >= AutoThreshold

(* The stored plan is for a binding that the resource has had since the    *)
(* evidence was collected, container and generation of one and the same,   *)
(* and it is valid as the console's dry run puts it together again from    *)
(* the stored rows.  It is for the very container that the evidence is     *)
(* about, whatever was rebound since, unless a crash lost the binding with *)
(* its checkpoint (collect_evidence_node, run_incident, plan_node).        *)
PlanSound ==
  db.plan # NoPlan =>
    \E n \in inspected..labels :
      /\ n = inspected \/ lost
      /\ db.plan.target = Binding(n)
      /\ validate(Rebuilt(db.plan, db.service), Binding(n))

(* agentcore/nodes/evidence.py:57: the binding is refreshed before the     *)
(* evidence of an incident is collected, "then freeze that binding into    *)
(* its plan" (collect_evidence_node, plan_node).                           *)
BindingFrozen == db.plan # NoPlan => db.plan.target = Binding(inspected)

(* The evidence is about a container that the resource was registered with *)
(* by its name, in the place of an id.                                     *)
InspectedByName == inspected = -1 /\ GivenId \notin HexIds

(* An attempt comes to an end or waits for a person, unless it inspected a *)
(* container by its name: the verification loop has a time limit also when *)
(* readiness never returns, and checkpoints lost before the execution      *)
(* leave no node without a way on (plan_node, run_verification).           *)
RemediationEnds ==
  stage \in Nodes ~> stage \in Outcomes \cup {"waiting"} \/ InspectedByName

(* agentcore/nodes/planning.py:29: a diagnosed incident gets a plan, or    *)
(* "On failure/escalation" it is ESCALATED (plan_node).                    *)
PlanningDecides ==
  stage = "plan" ~> (db.plan # NoPlan \/ stage \in Outcomes)

(* docs/m1/verification-contract.md, section 2: a missing signal or a      *)
(* stale observation resets the stabilization timer                        *)
(* (elapsed_healthy_seconds).                                              *)
MissingSignalResets ==
  [][\A s \in Samples :
       run_verification /\ Sample(s, scenario_id) /\ ~Complete(s, Profile(scenario_id))
         => window'.elapsed = 0]_vars
=============================================================================
