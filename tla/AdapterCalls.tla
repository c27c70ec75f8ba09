---------------------------- MODULE AdapterCalls ----------------------------
(***************************************************************************)
(* What DockerExecutionAdapter.execute promises its callers about the      *)
(* idempotency records: an attempt is begun once, whoever comes later      *)
(* reuses or judges what is there, and an outcome is for good.             *)
(*                                                                         *)
(* DockerExecution is shown to implement this specification with its locks *)
(* and restarts, and IncidentWorkflow, which has neither, to expect no     *)
(* more of adapter.execute than this.                                      *)
(***************************************************************************)
CONSTANTS Callers, Keys

VARIABLES
  record,   \* per key: status of the committed execution record
  call      \* per caller: the call it is in, or Out

vars == <<record, call>>

Outcomes == {"SUCCEEDED", "FAILED"}

Out == [at |-> "out"]

(* A call is "called", "restarting" the container, or back with an outcome; *)
(* UNCERTAIN is to the caller a failure like others.                        *)
In(k, at) == [at |-> at, key |-> k]

Init ==
  /\ record = [k \in Keys |-> "none"]
  /\ call \in [Callers -> {Out} \cup {In(k, "called") : k \in Keys}]

Call(c, k) ==
  /\ call[c] = Out
  /\ call' = [call EXCEPT ![c] = In(k, "called")]
  /\ UNCHANGED record

(* create_execution commits the record before the restart is dispatched. *)
Begin(c, k) ==
  /\ call[c] = In(k, "called") /\ record[k] = "none"
  /\ record' = [record EXCEPT ![k] = "RUNNING"]
  /\ call' = [call EXCEPT ![c] = In(k, "restarting")]

Return(c, k, status) ==
  /\ record' = [record EXCEPT ![k] = status]
  /\ call' = [call EXCEPT ![c] = In(k, status)]

(* An earlier call left an outcome, or crashed and its restart is judged. *)
Reuse(c, k, status) ==
  /\ call[c] = In(k, "called") /\ record[k] \in {"RUNNING", status}
  /\ Return(c, k, status)

(* finish_execution, unless somebody has judged this call meanwhile. *)
Finish(c, k, status) ==
  /\ call[c] = In(k, "restarting") /\ record[k] = "RUNNING"
  /\ Return(c, k, status)

(* Callers go on, raise or die. *)
Leave(gone) ==
  /\ call' = [c \in Callers |-> IF c \in gone THEN Out ELSE call[c]]
  /\ UNCHANGED record

Next ==
  \/ \E c \in Callers, k \in Keys :
       \/ Call(c, k) \/ Begin(c, k)
       \/ \E status \in Outcomes : Reuse(c, k, status) \/ Finish(c, k, status)
  \/ \E gone \in SUBSET Callers : Leave(gone)

Spec == Init /\ [][Next]_vars

=============================================================================
