-------------------------------- MODULE Policy --------------------------------
(***************************************************************************)
(* The policy engine: ten gates over an evaluation context, and the order  *)
(* in which their results decide.  Confidence is in hundredths.            *)
(*                                                                         *)
(* A context has the fields of EvaluationContext that a gate reads; its    *)
(* grant is NoGrant or [decision, version, hash, expired, role].           *)
(***************************************************************************)
EXTENDS Integers

NoGrant == [decision |-> "none"]

AutoThreshold == 85    \* auto_approval_confidence_threshold
MinThreshold  == 60    \* min_approval_confidence_threshold
RetryLimit    == 2
Cooldown      == 600
EvidenceLimit == 300

AllowedActions ==
  {"restart_container", "inspect_container", "wait_for_stabilization",
   "notify_operator", "open_incident_ticket"}

UnsupportedCauses ==
  {"AMBIGUOUS", "INSUFFICIENT_EVIDENCE", "NO_ACTIVE_FAULT",
   "DEPENDENCY_UNAVAILABLE", "UNKNOWN"}

-----------------------------------------------------------------------------
kill_switch(ctx)       == ctx.mode # "DISABLED"
emergency_stop(ctx)    == ctx.service \notin ctx.stopped /\ ctx.container \notin ctx.stopped
prohibited_action(ctx) == ctx.action \in AllowedActions /\ ctx.risk = "LOW"
allowlist(ctx)         == ctx.service = "demo-api"
environment(ctx)       == ctx.environment = "local"

(* The age of the evidence counts only when the context carries one. *)
confidence_and_evidence(ctx) ==
  /\ ctx.cause \notin UnsupportedCauses
  /\ ctx.age <= EvidenceLimit
  /\ ctx.confidence >= MinThreshold

(* The rule set's retry limit, not the incident's. *)
attempt_budget(ctx) == ctx.attempts < 1 + RetryLimit

(* since is the time since the last execution; -1 if none is known. *)
cooldown(ctx)      == ctx.since = -1 \/ ctx.since >= Cooldown
resource_lock(ctx) == ~ctx.locked

(* Gate 10 returns a reason code. *)
approval_requirement(ctx) ==
  IF ctx.mode # "APPROVAL_REQUIRED" /\ ctx.confidence >= AutoThreshold
  THEN "AUTOMATIC_EXECUTION_PERMITTED"
  ELSE IF ctx.grant = NoGrant THEN "APPROVAL_REQUIRED"
  ELSE IF ctx.grant.decision = "REJECT" THEN "APPROVAL_REJECTED"
  ELSE IF ctx.grant.decision # "APPROVE" THEN "APPROVAL_DECISION_INVALID"
  ELSE IF ctx.grant.version # ctx.version THEN "APPROVAL_PLAN_VERSION_MISMATCH"
  ELSE IF ctx.grant.hash \notin {"none", ctx.hash} THEN "APPROVAL_CONTENT_HASH_MISMATCH"
  ELSE IF ctx.grant.expired THEN "APPROVAL_EXPIRED"
  ELSE IF ctx.grant.role \notin {"approver", "admin"} THEN "UNAUTHORIZED_APPROVER_ROLE"
  ELSE "APPROVAL_VALID"

(* The gates that deny whatever the others say. *)
HardGates(ctx) ==
  /\ kill_switch(ctx) /\ emergency_stop(ctx) /\ prohibited_action(ctx)
  /\ allowlist(ctx) /\ environment(ctx)
  /\ confidence_and_evidence(ctx) /\ attempt_budget(ctx)

(* Denial, then cooldown, then the lock, then the approval. *)
evaluate(ctx) ==
  LET reason == approval_requirement(ctx)
  IN  IF \/ ~HardGates(ctx)
         \/ reason \notin {"AUTOMATIC_EXECUTION_PERMITTED", "APPROVAL_VALID",
                            "APPROVAL_REQUIRED"}
      THEN "DENY"
      ELSE IF ~cooldown(ctx) \/ ~resource_lock(ctx) THEN "DEFER"
      ELSE IF reason = "APPROVAL_REQUIRED" THEN "REQUIRE_APPROVAL"
      ELSE "ALLOW"
=============================================================================
