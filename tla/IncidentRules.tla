--------------------------- MODULE IncidentRules ---------------------------
(***************************************************************************)
(* The incident row: its states, the transition table, the versioned       *)
(* writes of the repository, and the trigger that guards the table.        *)
(* Operators only; the specifications that use them are IncidentRecord     *)
(* (abstract), IncidentStore (concurrent writers) and IncidentWorkflow.    *)
(***************************************************************************)
EXTENDS Naturals

CONSTANT RetryLimit        \* incidents.retry_limit

ASSUME RetryLimitAssumption == RetryLimit \in Nat

States == {"DETECTED", "TRIAGED", "DIAGNOSED", "PLANNED", "PENDING_APPROVAL",
           "APPROVED", "EXECUTING", "VERIFYING", "FAILED",
           "RESOLVED", "ESCALATED", "ROLLEDBACK"}

Terminal == {"RESOLVED", "ESCALATED", "ROLLEDBACK"}

TRANSITIONS ==
  [DETECTED         |-> {"TRIAGED"},
   TRIAGED          |-> {"DIAGNOSED", "ESCALATED"},
   DIAGNOSED        |-> {"PLANNED", "ESCALATED"},
   PLANNED          |-> {"PENDING_APPROVAL", "EXECUTING", "ESCALATED"},
   PENDING_APPROVAL |-> {"APPROVED", "ESCALATED"},
   APPROVED         |-> {"EXECUTING", "ESCALATED"},
   EXECUTING        |-> {"VERIFYING", "FAILED"},
   VERIFYING        |-> {"RESOLVED", "DIAGNOSED", "ESCALATED"},
   FAILED           |-> {"ROLLEDBACK", "ESCALATED"},
   RESOLVED         |-> {},
   ESCALATED        |-> {},
   ROLLEDBACK       |-> {}]

validate_transition(current, target) == target \in TRANSITIONS[current]

IncidentRow == [state : States, version : Nat \ {0},
                attempts : 0 .. RetryLimit, approval_required : BOOLEAN]

NewIncident_VersionZero(required) ==
  [state |-> "DETECTED", version |-> 0, attempts |-> 0, approval_required |-> required]

NewIncident(required) == [state |-> "DETECTED", version |-> 1,
                          attempts |-> 0, approval_required |-> required]

IsRetry_AfterFailure(current, target) == current = "FAILED" /\ target = "DIAGNOSED"

IsRetry(current, target) == current = "VERIFYING" /\ target = "DIAGNOSED"

-----------------------------------------------------------------------------
(* ControlPlaneRepository.transition: its checks, then its UPDATE. *)

TransitionAllowed_OneRetryTooMany(r, target) ==
  /\ validate_transition(r.state, target)
  /\ r.state = "PLANNED" /\ target # "ESCALATED"
        => target = IF r.approval_required THEN "PENDING_APPROVAL" ELSE "EXECUTING"
  /\ IsRetry(r.state, target) => r.attempts <= RetryLimit

TransitionAllowed(r, target) ==
  /\ validate_transition(r.state, target)
  /\ r.state = "PLANNED" /\ target # "ESCALATED"
        => target = IF r.approval_required THEN "PENDING_APPROVAL" ELSE "EXECUTING"
  /\ IsRetry(r.state, target) => r.attempts < RetryLimit

(* UPDATE incidents SET ... : `read' is the row the checks were made on. *)
AfterUpdate(current, read, target) ==
  [current EXCEPT !.state    = target,
                  !.version  = read.version + 1,
                  !.attempts = IF IsRetry(read.state, target)
                                 THEN read.attempts + 1 ELSE @]

AfterTransition(r, target) == AfterUpdate(r, r, target)

(* require_incident_approval: one conditional UPDATE. *)

ApprovalRequirable(r) == r.state = "PLANNED" /\ ~r.approval_required

AfterRequireApproval(r) == [r EXCEPT !.approval_required = TRUE, !.version = @ + 1]

-----------------------------------------------------------------------------
(* guard_incident: the trigger's own copy of the rules, on old and new row. *)

guard_edges ==
  {<<"DETECTED", "TRIAGED">>,
   <<"TRIAGED", "DIAGNOSED">>, <<"TRIAGED", "ESCALATED">>,
   <<"DIAGNOSED", "PLANNED">>, <<"DIAGNOSED", "ESCALATED">>,
   <<"PLANNED", "PENDING_APPROVAL">>, <<"PLANNED", "EXECUTING">>, <<"PLANNED", "ESCALATED">>,
   <<"PENDING_APPROVAL", "APPROVED">>, <<"PENDING_APPROVAL", "ESCALATED">>,
   <<"APPROVED", "EXECUTING">>, <<"APPROVED", "ESCALATED">>,
   <<"EXECUTING", "VERIFYING">>, <<"EXECUTING", "FAILED">>,
   <<"VERIFYING", "RESOLVED">>, <<"VERIFYING", "DIAGNOSED">>, <<"VERIFYING", "ESCALATED">>,
   <<"FAILED", "ROLLEDBACK">>, <<"FAILED", "ESCALATED">>}

guard_incident(old, new) ==
  /\ new.version = old.version + 1
  /\ new.state # old.state =>
        /\ <<old.state, new.state>> \in guard_edges
        /\ old.state = "PLANNED" /\ new.state # "ESCALATED"
              => /\ old.approval_required => new.state = "PENDING_APPROVAL"
                 /\ ~old.approval_required => new.state = "EXECUTING"
  /\ IF IsRetry(old.state, new.state)
       THEN old.attempts < RetryLimit /\ new.attempts = old.attempts + 1
       ELSE new.attempts = old.attempts

=============================================================================
