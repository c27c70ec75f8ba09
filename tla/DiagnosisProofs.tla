---------------------------- MODULE DiagnosisProofs ---------------------------
(***************************************************************************)
(* Proofs about the diagnostic engine, the planner and the policy engine,  *)
(* for every observation, target and evaluation context.                   *)
(***************************************************************************)
EXTENDS Diagnosis, Planning, Policy, FiniteSetTheorems, TLAPS

(* Readiness codes are made up from the probe. *)
CodeFromProbe(o) == o.ratio = 100 => o.code = 200

(* The least element of a set of rule numbers. *)
LEMMA LeastRule ==
  ASSUME NEW S \in SUBSET (1..5), S # {}
  PROVE  Min(S) \in S /\ \A k \in S : Min(S) <= k
<1>1. \A y \in S : y \in Int /\ 1 <= y /\ y <= 5
  OBVIOUS
<1>2. \E x \in S : \A y \in S : x <= y
  <2>1. CASE 1 \in S  BY <2>1, <1>1
  <2>2. CASE 1 \notin S /\ 2 \in S  BY <2>2, <1>1
  <2>3. CASE 1 \notin S /\ 2 \notin S /\ 3 \in S  BY <2>3, <1>1
  <2>4. CASE 1 \notin S /\ 2 \notin S /\ 3 \notin S /\ 4 \in S  BY <2>4, <1>1
  <2>5. CASE 1 \notin S /\ 2 \notin S /\ 3 \notin S /\ 4 \notin S
    <3>1. \A y \in S : y = 5  BY <2>5, <1>1
    <3>2. PICK x \in S : TRUE  BY Zenon
    <3>3. \A y \in S : x <= y  BY <3>1, <3>2
    <3> QED BY <3>3
  <2> QED BY <2>1, <2>2, <2>3, <2>4, <2>5
<1> QED BY Zenon, <1>2 DEF Min

(* What the chosen rule says, when the engine gets as far as the rules. *)
LEMMA ChosenRule ==
  ASSUME NEW o, diagnose(o).actionable
  PROVE  /\ ~(o.prometheus = "UNAVAILABLE" \/ o.freshness > 900 \/ o.status = "not_found")
         /\ \E k \in 1..5 :
              /\ rules(o)[k].matched
              /\ \A j \in 1..5 : rules(o)[j].matched => k <= j
              /\ diagnose(o) = Verdict(rules(o)[k].cause, rules(o)[k].confidence)
<1> DEFINE matching == {k \in 1..5 : rules(o)[k].matched}
<1>1. ~Verdict("INSUFFICIENT_EVIDENCE", 0).actionable /\ ~Verdict("AMBIGUOUS", 40).actionable
  BY Zenon DEF Verdict, Supported
<1>2. ~(o.prometheus = "UNAVAILABLE" \/ o.freshness > 900 \/ o.status = "not_found")
  BY <1>1 DEF diagnose
<1>3. matching # {} /\ diagnose(o) = Verdict(rules(o)[Min(matching)].cause,
                                             rules(o)[Min(matching)].confidence)
  BY <1>1, <1>2 DEF diagnose
<1>4. Min(matching) \in matching /\ \A k \in matching : Min(matching) <= k
  BY <1>3, LeastRule
<1> QED BY <1>2, <1>3, <1>4

(* A diagnosis on which a plan can be made has one of the three supported  *)
(* causes, at a confidence that needs no approval, and is never made of a  *)
(* healthy workload, of missing or old telemetry, or of a running workload *)
(* with a dependency that is out: for every observation                    *)
(* (DeterministicDiagnosisEngine.diagnose and the five rules).             *)
THEOREM ActionableIsWarranted ==
  ASSUME NEW o, CodeFromProbe(o), diagnose(o).actionable
  PROVE  /\ diagnose(o).cause \in Supported
         /\ diagnose(o).confidence \in AutoThreshold..100
         /\ Warranted(o)
<1>1. PICK k \in 1..5 :
        /\ rules(o)[k].matched
        /\ \A j \in 1..5 : rules(o)[j].matched => k <= j
        /\ diagnose(o) = Verdict(rules(o)[k].cause, rules(o)[k].confidence)
  BY ChosenRule
<1>2. rules(o)[k].cause \in Supported
  <2>1. Verdict(rules(o)[k].cause, rules(o)[k].confidence).actionable
    BY <1>1
  <2> QED BY <2>1, Zenon DEF Verdict
<1>3. ~(o.prometheus = "UNAVAILABLE" \/ o.freshness > 900 \/ o.status = "not_found")
  BY ChosenRule
<1>4. SUFFICES /\ rules(o)[k].confidence \in AutoThreshold..100
               /\ ~Healthy(o) /\ (DependencyOut(o) => o.status # "running")
  BY <1>1, <1>2, <1>3 DEF Verdict, Warranted
<1>5. CASE k = 1
  BY <1>1, <1>5 DEF rules, ContainerStoppedRule, Match, NoMatch, Contradicted,
                    AutoThreshold, Healthy, DependencyOut
<1>6. CASE k = 2
  BY <1>1, <1>2, <1>6 DEF rules, DependencyUnavailableRule, Match, NoMatch, Supported
<1>7. CASE k = 3
  <2>1. ~rules(o)[2].matched
    BY <1>1, <1>7
  <2>2. ~DependencyOut(o)
    BY <2>1 DEF rules, DependencyUnavailableRule, Match, NoMatch, DependencyOut
  <2> QED
    BY <1>1, <1>7, <2>2 DEF rules, CpuSaturationRule, Match, NoMatch, Contradicted,
                            AutoThreshold, Healthy
<1>8. CASE k = 4
  BY <1>1, <1>8 DEF rules, ApiUnresponsiveRule, ReadinessFailed, Match, NoMatch,
                    Contradicted, AutoThreshold, Healthy, DependencyOut, CodeFromProbe
<1>9. CASE k = 5
  BY <1>1, <1>2, <1>9 DEF rules, NoActiveFaultRule, Match, NoMatch, Supported
<1> QED BY <1>5, <1>6, <1>7, <1>8, <1>9

(* An observation that was lost is never acted upon. *)
LEMMA DefaultNotActionable == ~diagnose(DefaultBundle).actionable
<1> SUFFICES ASSUME diagnose(DefaultBundle).actionable PROVE FALSE
  OBVIOUS
<1>1. PICK k \in 1..5 : rules(DefaultBundle)[k].matched
  BY ChosenRule
<1> QED
  BY <1>1 DEF rules, DefaultBundle, None, ContainerStoppedRule, DependencyUnavailableRule,
              CpuSaturationRule, ApiUnresponsiveRule, ReadinessFailed, NoActiveFaultRule,
              Match, NoMatch, Contradicted

(* The bundle made of a collection has its readiness code from the probe. *)
LEMMA BundleCode == \A e : CodeFromProbe(to_observation_bundle(e))
BY DEF CodeFromProbe, to_observation_bundle, None

-----------------------------------------------------------------------------
(* A restart without a person's approval passes every gate: automation is  *)
(* enabled and not in approval mode, neither the service nor the container *)
(* is stopped, the action, service, environment and cause are allowed, the *)
(* confidence reaches the automatic threshold, attempts are left, and no   *)
(* cooldown or lock is in the way; with an approval, that one is for this  *)
(* version and content, not expired, and by an approver: for every context *)
(* (PolicyEngine.evaluate).                                                *)
THEOREM AllowedIsLicensed ==
  ASSUME NEW ctx, evaluate(ctx) = "ALLOW"
  PROVE  /\ HardGates(ctx) /\ cooldown(ctx) /\ resource_lock(ctx)
         /\ \/ ctx.mode # "APPROVAL_REQUIRED" /\ ctx.confidence >= AutoThreshold
            \/ /\ ctx.grant # NoGrant /\ ctx.grant.decision = "APPROVE"
               /\ ctx.grant.version = ctx.version
               /\ ctx.grant.hash \in {"none", ctx.hash}
               /\ ~ctx.grant.expired /\ ctx.grant.role \in {"approver", "admin"}
BY DEF evaluate, approval_requirement

(* d is c with more caution: a stricter mode, more emergency stops, less   *)
(* confidence, older evidence, more attempts, a later last execution, a    *)
(* lock.                                                                   *)
MoreCautious(c, d) ==
  /\ \/ d.mode \in {c.mode, "DISABLED"}
     \/ c.mode = "AUTOMATIC" /\ d.mode = "APPROVAL_REQUIRED"
  /\ c.stopped \subseteq d.stopped
  /\ {c.confidence, d.confidence, c.age, d.age, c.attempts, d.attempts, c.since, d.since}
       \subseteq Int
  /\ d.confidence <= c.confidence /\ d.age >= c.age /\ d.attempts >= c.attempts
  /\ c.since = -1 \/ (d.since # -1 /\ d.since <= c.since)
  /\ c.locked => d.locked
  /\ /\ c.service = d.service /\ c.container = d.container /\ c.action = d.action
     /\ c.risk = d.risk /\ c.environment = d.environment /\ c.cause = d.cause
     /\ c.grant = d.grant /\ c.version = d.version /\ c.hash = d.hash

(* No gate works the wrong way round: whatever PolicyEngine.evaluate       *)
(* allows it allows as well with less caution, so that no switch of mode,  *)
(* emergency stop, failed attempt or loss of confidence ever unlocks a     *)
(* restart.                                                                *)
THEOREM CautionNeverAllows ==
  ASSUME NEW c, NEW d, MoreCautious(c, d), evaluate(d) = "ALLOW"
  PROVE  evaluate(c) = "ALLOW"
<1>1. /\ HardGates(d) /\ cooldown(d) /\ resource_lock(d)
      /\ approval_requirement(d) \in {"AUTOMATIC_EXECUTION_PERMITTED", "APPROVAL_VALID"}
  BY DEF evaluate
<1>2. /\ c.confidence \in Int /\ d.confidence \in Int /\ c.age \in Int /\ d.age \in Int
      /\ c.attempts \in Int /\ d.attempts \in Int /\ c.since \in Int /\ d.since \in Int
  BY DEF MoreCautious
<1>3. HardGates(c)
  <2>1. kill_switch(c) /\ emergency_stop(c)
    BY Zenon, <1>1 DEF HardGates, kill_switch, emergency_stop, MoreCautious
  <2>2. prohibited_action(c) /\ allowlist(c) /\ environment(c)
    BY Zenon, <1>1 DEF HardGates, prohibited_action, allowlist, environment, MoreCautious
  <2>3. confidence_and_evidence(c) /\ attempt_budget(c)
    BY <1>1, <1>2
    DEF HardGates, confidence_and_evidence, attempt_budget, MoreCautious, EvidenceLimit,
        MinThreshold, RetryLimit
  <2> QED
    BY <2>1, <2>2, <2>3 DEF HardGates
<1>4. cooldown(c) /\ resource_lock(c)
  BY <1>1, <1>2 DEF cooldown, resource_lock, MoreCautious, Cooldown
<1>5. approval_requirement(c) \in {"AUTOMATIC_EXECUTION_PERMITTED", "APPROVAL_VALID"}
  <2>1. CASE d.mode # "APPROVAL_REQUIRED" /\ d.confidence >= AutoThreshold
    <3>1. c.mode # "APPROVAL_REQUIRED" /\ c.confidence >= AutoThreshold
      BY <1>1, <1>2, <2>1 DEF HardGates, kill_switch, MoreCautious, AutoThreshold
    <3> QED
      BY <3>1 DEF approval_requirement
  <2>2. CASE ~(d.mode # "APPROVAL_REQUIRED" /\ d.confidence >= AutoThreshold)
    BY <1>1, <2>2 DEF approval_requirement, MoreCautious
  <2> QED
    BY <2>1, <2>2
<1> QED
  BY <1>3, <1>4, <1>5 DEF evaluate

-----------------------------------------------------------------------------
(* Telemetry that diagnose does not turn away. *)
Usable(o) == ~(o.prometheus = "UNAVAILABLE" \/ o.freshness > 900 \/ o.status = "not_found")

(* A rule with none before it that matches decides. *)
LEMMA FirstRule ==
  ASSUME NEW o, Usable(o), NEW k \in 1..5, rules(o)[k].matched,
         \A j \in 1..5 : j < k => ~rules(o)[j].matched
  PROVE  diagnose(o) = Verdict(rules(o)[k].cause, rules(o)[k].confidence)
<1> DEFINE matching == {j \in 1..5 : rules(o)[j].matched}
<1>1. Min(matching) \in matching /\ \A j \in matching : Min(matching) <= j
  BY LeastRule
<1>2. Min(matching) = k
  BY <1>1
<1> QED
  BY <1>2 DEF diagnose, Usable

(* A container that Docker reports exited or dead is diagnosed as stopped, *)
(* at a confidence that needs no approval, whatever alerts, metrics and    *)
(* dependency outages come with it.                                        *)
THEOREM StoppedIsDiagnosed ==
  ASSUME NEW o, Usable(o), o.status \in {"exited", "dead"}
  PROVE  /\ diagnose(o).cause = "CONTAINER_STOPPED" /\ diagnose(o).actionable
         /\ diagnose(o).confidence >= AutoThreshold
<1>1. rules(o)[1].matched /\ rules(o)[1].cause = "CONTAINER_STOPPED"
      /\ rules(o)[1].confidence \in {90, 95}
  BY DEF rules, ContainerStoppedRule, Match
<1>2. diagnose(o) = Verdict(rules(o)[1].cause, rules(o)[1].confidence)
  BY <1>1, FirstRule
<1>3. diagnose(o).cause = "CONTAINER_STOPPED" /\ diagnose(o).confidence = rules(o)[1].confidence
  BY <1>1, <1>2 DEF Verdict
<1>4. diagnose(o).actionable
  <2>1. rules(o)[1].cause \in Supported
    BY <1>1 DEF Supported
  <2>2. Verdict(rules(o)[1].cause, rules(o)[1].confidence).actionable
    BY <2>1, Zenon DEF Verdict
  <2> QED
    BY Zenon, <1>2, <2>2
<1> QED
  BY <1>1, <1>3, <1>4 DEF AutoThreshold

(* A running workload whose dependency is out, by measurement, by alert or *)
(* by the logs, is never restarted for it, however saturated or            *)
(* unresponsive it is as well.                                             *)
THEOREM OutageIsNotRestarted ==
  ASSUME NEW o, Usable(o), o.status = "running", DependencyUnavailableRule(o).matched
  PROVE  diagnose(o).cause = "DEPENDENCY_UNAVAILABLE" /\ ~diagnose(o).actionable
<1>1. rules(o)[2].matched /\ rules(o)[2].cause = "DEPENDENCY_UNAVAILABLE"
  BY DEF rules, DependencyUnavailableRule, Match, NoMatch
<1>2. ~rules(o)[1].matched
  BY DEF rules, ContainerStoppedRule, Match, NoMatch, Contradicted
<1>3. diagnose(o) = Verdict(rules(o)[2].cause, rules(o)[2].confidence)
  BY <1>1, <1>2, FirstRule
<1>4. diagnose(o).cause = "DEPENDENCY_UNAVAILABLE"
  BY <1>1, <1>3 DEF Verdict
<1>5. ~diagnose(o).actionable
  <2>1. rules(o)[2].cause \notin Supported
    BY <1>1 DEF Supported
  <2>2. ~Verdict(rules(o)[2].cause, rules(o)[2].confidence).actionable
    BY <2>1, Zenon DEF Verdict
  <2> QED
    BY Zenon, <1>3, <2>2
<1> QED
  BY <1>4, <1>5

-----------------------------------------------------------------------------
(* The planner and its own validator agree: create_plan raises only for a  *)
(* service other than demo-api or, where it would restart, for a container *)
(* id that the parameter schemas reject; every other draft passes all of   *)
(* the validator's checks, the order of its steps and its hash included.   *)
THEOREM PlannerRaisesOnBadTargets ==
  ASSUME NEW cause, NEW target
  PROVE  PlanRaises(cause, target) <=>
           \/ target.service # "demo-api"
           \/ cause \in RestartCauses /\ target.container \notin HexIds
<1> DEFINE plan    == Draft(cause, target)
           i       == Step(0, "inspect_container", target.container, "none")
           r       == Step(1, "restart_container", target.container, target.service)
           w       == Step(2, "wait_for_stabilization", "none", "none")
           n       == Step(0, "notify_operator", "none", "none")
           t       == Step(1, "open_incident_ticket", "none", "none")
           muts    == {s \in Range(plan.steps) : s.action \in Mutating}
<1>1. /\ plan.target = target
      /\ plan.hash = compute_plan_content_hash(plan.version, plan.risk, plan.target,
                                               plan.steps, plan.profile)
  BY Zenon DEF Draft
<1>2. CASE target.service = "demo-api" /\ cause \in RestartCauses
  <2>1. plan.steps = <<i, r, w>>
    BY Zenon, <1>2 DEF Draft
  <2>2. Range(plan.steps) = {i, r, w}
    BY <2>1 DEF Range
  <2>3. /\ i.position = 0 /\ r.position = 1 /\ w.position = 2
        /\ i.action = "inspect_container" /\ r.action = "restart_container"
        /\ w.action = "wait_for_stabilization"
        /\ i.container = target.container /\ r.container = target.container
        /\ w.container = "none" /\ i.service = "none" /\ r.service = target.service
        /\ w.service = "none"
    BY Zenon DEF Step
  <2>4. \A j, k \in 1..Len(plan.steps) :
          j # k => plan.steps[j].position # plan.steps[k].position
    <3> HIDE DEF i, r, w
    <3> QED
      BY <2>1, <2>3
  <2>5. muts = {r}
    <3> HIDE DEF i, r, w
    <3> QED
      BY <2>2, <2>3 DEF Mutating
  <2>6. Cardinality(muts) <= 1
    <3> HIDE DEF r, muts
    <3>1. Cardinality(muts) = 1
      BY Zenon, <2>5, FS_Singleton
    <3> QED
      BY <3>1
  <2>7. \A m \in muts :
          LET inspect == {s \in Range(plan.steps) : s.action = "inspect_container"}
              wait    == {s \in Range(plan.steps) : s.action = "wait_for_stabilization"}
          IN  /\ inspect # {} /\ \A s \in inspect : s.position < m.position
              /\ wait # {} /\ \A s \in wait : s.position > m.position
    <3> HIDE DEF i, r, w, muts
    <3> QED
      BY <2>2, <2>3, <2>5
  <2>8. (\A s \in Range(plan.steps) :
           /\ s.action \in Registered
           /\ ParametersValid(s)
           /\ s.container \in {"none", target.container}
           /\ s.service \in {"none", target.service})
        <=> target.container \in HexIds
    <3> HIDE DEF i, r, w
    <3> QED
      BY <1>2, <2>2, <2>3 DEF Registered, ParametersValid
  <2> HIDE DEF i, r, w, plan
  <2>9. validate(plan, target) <=> target.container \in HexIds
    BY <1>1, <1>2, <2>4, <2>6, <2>7, <2>8 DEF validate
  <2> QED
    BY <1>2, <2>9 DEF PlanRaises, plan
<1>3. CASE target.service = "demo-api" /\ cause \notin RestartCauses
  <2>1. plan.steps = <<n, t>>
    BY Zenon, <1>3 DEF Draft
  <2>2. Range(plan.steps) = {n, t}
    BY <2>1 DEF Range
  <2>3. /\ n.position = 0 /\ t.position = 1
        /\ n.action = "notify_operator" /\ t.action = "open_incident_ticket"
        /\ n.container = "none" /\ t.container = "none"
        /\ n.service = "none" /\ t.service = "none"
    BY Zenon DEF Step
  <2> HIDE DEF n, t
  <2>4. \A j, k \in 1..Len(plan.steps) :
          j # k => plan.steps[j].position # plan.steps[k].position
    BY <2>1, <2>3
  <2>5. muts = {}
    BY <2>2, <2>3 DEF Mutating
  <2>6. Cardinality(muts) <= 1
    BY <2>5, FS_EmptySet
  <2>7. \A s \in Range(plan.steps) :
          /\ s.action \in Registered
          /\ ParametersValid(s)
          /\ s.container \in {"none", target.container}
          /\ s.service \in {"none", target.service}
    BY <2>2, <2>3 DEF Registered, ParametersValid
  <2> HIDE DEF plan
  <2>8. validate(plan, target)
    BY <1>1, <1>3, <2>4, <2>5, <2>6, <2>7 DEF validate
  <2> QED
    BY <1>3, <2>8 DEF PlanRaises, plan
<1>4. CASE target.service # "demo-api"
  BY <1>1, <1>4 DEF PlanRaises, validate
<1> QED
  BY <1>2, <1>3, <1>4
=============================================================================
