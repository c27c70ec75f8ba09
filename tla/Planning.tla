------------------------------- MODULE Planning ------------------------------
(***************************************************************************)
(* The deterministic planner and the plan validator as pure functions.     *)
(*                                                                         *)
(* A target binding is [container, generation, service] of the incident's  *)
(* only resource.  A step keeps the fields that the validator compares.    *)
(* SHA-256 is injective for this purpose: the content hash of a plan is    *)
(* the record of everything that is hashed.                                *)
(***************************************************************************)
EXTENDS Integers, FiniteSets, Sequences, SequencesExt

CONSTANT
  HexIds    \* container ids that match the pattern of the parameter schemas

Registered == {"inspect_container", "restart_container", "wait_for_stabilization",
               "notify_operator", "open_incident_ticket"}
Mutating   == {"restart_container"}

RestartCauses == {"CONTAINER_STOPPED", "CPU_SATURATION", "API_UNRESPONSIVE"}

(* Steps whose parameters name no container or service carry "none". *)
Step(position, action, container, service) ==
  [position |-> position, action |-> action, container |-> container, service |-> service]

compute_plan_content_hash(version, risk, target, steps, profile) ==
  [version |-> version, risk |-> risk, target |-> target,
   steps |-> SortSeq(steps, LAMBDA s, t : s.position < t.position),
   profile |-> profile]

(* The parameter schemas: a container id in hexadecimal, a restart only of *)
(* demo-api, and a step that names neither has nothing to check.           *)
ParametersValid(s) ==
  /\ s.action \in {"inspect_container", "restart_container"} => s.container \in HexIds
  /\ s.action = "restart_container" => s.service = "demo-api"

(* validate: the plan is accepted when its list of errors is empty. *)
validate(plan, expected) ==
  LET steps   == Range(plan.steps)
      muts    == {s \in steps : s.action \in Mutating}
      inspect == {s \in steps : s.action = "inspect_container"}
      wait    == {s \in steps : s.action = "wait_for_stabilization"}
  IN  /\ plan.target = expected
      /\ plan.target.service = "demo-api"
      /\ \A j, k \in 1..Len(plan.steps) :
           j # k => plan.steps[j].position # plan.steps[k].position
      /\ \A s \in steps :
           /\ s.action \in Registered
           /\ ParametersValid(s)
           /\ s.container \in {"none", plan.target.container}
           /\ s.service \in {"none", plan.target.service}
      /\ Cardinality(muts) <= 1
      /\ \A m \in muts :
           /\ inspect # {} /\ \A s \in inspect : s.position < m.position
           /\ wait # {} /\ \A s \in wait : s.position > m.position
      /\ plan.hash = compute_plan_content_hash(plan.version, plan.risk, plan.target,
                                               plan.steps, plan.profile)

(* The plan for a diagnosis: a restart framed by an inspection and a wait, *)
(* or a notification and a ticket.                                         *)
Draft(cause, target) ==
  LET restart == cause \in RestartCauses
      steps   == IF restart
                 THEN <<Step(0, "inspect_container", target.container, "none"),
                        Step(1, "restart_container", target.container, target.service),
                        Step(2, "wait_for_stabilization", "none", "none")>>
                 ELSE <<Step(0, "notify_operator", "none", "none"),
                        Step(1, "open_incident_ticket", "none", "none")>>
      profile == IF restart THEN "m1_default_restart_profile" ELSE "none"
  IN  [version |-> 1, risk |-> "LOW", target |-> target, steps |-> steps,
       profile |-> profile,
       hash |-> compute_plan_content_hash(1, "LOW", target, steps, profile)]

(* create_plan raises PlanValidationError exactly when its draft is not    *)
(* valid for the binding it was asked for.                                 *)
PlanRaises(cause, target) == ~validate(Draft(cause, target), target)

(* The plan that the dry run of the console rebuilds from the rows of the  *)
(* stored plan and from the service the resource has now.                  *)
Rebuilt(plan, service) == [plan EXCEPT !.target.service = service]
=============================================================================
