--------------------------- MODULE IncidentRecord ---------------------------
(***************************************************************************)
(* What the control plane promises about one incident row: how it may      *)
(* evolve, transaction by transaction, whoever writes it.  IncidentStore   *)
(* and IncidentWorkflow are shown to implement this specification.         *)
(*                                                                         *)
(* Some transactions make two writes; nobody sees the row between them.    *)
(***************************************************************************)
EXTENDS IncidentRules

VARIABLE row

Init == \E required \in BOOLEAN : row = NewIncident(required)

Transition(target) ==
  /\ TransitionAllowed(row, target)
  /\ row' = AfterTransition(row, target)

RequireApproval ==
  /\ ApprovalRequirable(row)
  /\ row' = AfterRequireApproval(row)

(* diagnose_node on a DETECTED incident; the failure branch of execute_node *)
TransitionTwice(via, target) ==
  /\ TransitionAllowed(row, via)
  /\ TransitionAllowed(AfterTransition(row, via), target)
  /\ row' = AfterTransition(AfterTransition(row, via), target)

(* evaluate_policy_node on REQUIRE_APPROVAL *)
RequireApprovalAndRoute ==
  /\ ApprovalRequirable(row)
  /\ row' = AfterTransition(AfterRequireApproval(row), "PENDING_APPROVAL")

Next ==
  \/ \E target \in States : Transition(target)
  \/ RequireApproval
  \/ \E target \in {"DIAGNOSED", "ESCALATED"} : TransitionTwice("TRIAGED", target)
  \/ TransitionTwice("FAILED", "ESCALATED")
  \/ RequireApprovalAndRoute

Spec == Init /\ [][Next]_row

=============================================================================
