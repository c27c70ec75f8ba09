-------------------------- MODULE MCIncidentWorkflow --------------------------
EXTENDS IncidentWorkflow, TLC

CONSTANTS r1, r2, w1, w2

(* One loop of one worker. *)
SingleOwner == r1 :> w1

(* The stream consumer and the recovery sweeper of one worker. *)
SharedOwner == r1 :> w1 @@ r2 :> w1

(* Two workers. *)
OwnOwner == r1 :> w1 @@ r2 :> w2

=============================================================================
