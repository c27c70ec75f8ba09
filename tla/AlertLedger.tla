----------------------------- MODULE AlertLedger -----------------------------
(***************************************************************************)
(* What intake promises about incidents, one by one: an incident is        *)
(* inserted only while its correlation key has no other one that is active *)
(* or about to be, the workers are told of it before it is committed, and  *)
(* it is committed or rolled back together with the others of its request. *)
(* AlertIntake is shown to implement this specification, and               *)
(* IncidentDelivery builds on it.                                          *)
(*                                                                         *)
(* The workflow is reduced to three states: nobody has worked on the       *)
(* incident, somebody has, it is RESOLVED, ESCALATED or ROLLEDBACK.        *)
(***************************************************************************)
EXTENDS Naturals

CONSTANTS
  Keys,     \* correlation keys
  Ids       \* incident ids

VARIABLES
  status,   \* per incident
  keyOf     \* per incident: its correlation key

ledger == <<status, keyOf>>

Uncommitted == {"inserted", "announced"}
Active      == {"DETECTED", "WORKING"}
Statuses    == Uncommitted \cup Active \cup {"none", "rolledback", "CLOSED"}

LedgerTypeOK ==
  /\ status \in [Ids -> Statuses]
  /\ keyOf \in [Ids -> Keys \cup {"none"}]

LedgerInit ==
  /\ status = [i \in Ids |-> "none"]
  /\ keyOf = [i \in Ids |-> "none"]

(* The unique index uq_active_incident, which counts rows that are not     *)
(* committed yet as well.                                                  *)
KeyFree(k) ==
  \A i \in Ids : keyOf[i] = k => status[i] \notin Active \cup Uncommitted

(* get_or_create_incident inserts an incident. *)
Insert(i, k) ==
  /\ status[i] = "none" /\ KeyFree(k)
  /\ status' = [status EXCEPT ![i] = "inserted"]
  /\ keyOf' = [keyOf EXCEPT ![i] = k]

(* publish_incident_created has been tried, with whatever result. *)
Announce(i) ==
  /\ status[i] = "inserted"
  /\ status' = [status EXCEPT ![i] = "announced"]
  /\ UNCHANGED keyOf

(* The end of a request, with the incidents it inserted. *)
CommitAll(S) ==
  /\ \A i \in S : status[i] = "announced"
  /\ status' = [i \in Ids |-> IF i \in S THEN "DETECTED" ELSE status[i]]
  /\ UNCHANGED keyOf

RollBackAll(S) ==
  /\ \A i \in S : status[i] \in Uncommitted
  /\ status' = [i \in Ids |-> IF i \in S THEN "rolledback" ELSE status[i]]
  /\ UNCHANGED keyOf

(* The first transaction of a run of the workflow on the incident. *)
Work(i) ==
  /\ status[i] = "DETECTED"
  /\ status' = [status EXCEPT ![i] = "WORKING"]
  /\ UNCHANGED keyOf

(* The workflow resolves or escalates it. *)
Close(i) ==
  /\ status[i] = "WORKING"
  /\ status' = [status EXCEPT ![i] = "CLOSED"]
  /\ UNCHANGED keyOf

LedgerNext ==
  \/ \E i \in Ids : (\E k \in Keys : Insert(i, k)) \/ Announce(i) \/ Work(i) \/ Close(i)
  \/ \E S \in SUBSET Ids : CommitAll(S) \/ RollBackAll(S)

LedgerSpec == LedgerInit /\ [][LedgerNext]_ledger

=============================================================================
