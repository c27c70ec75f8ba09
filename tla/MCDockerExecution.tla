-------------------------- MODULE MCDockerExecution --------------------------
EXTENDS DockerExecution, TLC

CONSTANTS r1, r2, r3, w1, w2, w3, k1, k2, k3

(* r1 and r2 are the same attempt run by the stream consumer and the       *)
(* recovery sweeper of one worker; r3 is another incident on another one.  *)
SharedOwner == r1 :> w1 @@ r2 :> w1 @@ r3 :> w2
SharedKey   == r1 :> k1 @@ r2 :> k1 @@ r3 :> k2

(* Every run on a worker of its own. *)
OwnOwner == r1 :> w1 @@ r2 :> w2 @@ r3 :> w3

(* Three incidents on one resource, two of them with the same worker. *)
OwnKey == r1 :> k1 @@ r2 :> k2 @@ r3 :> k3

=============================================================================
