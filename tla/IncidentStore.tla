---------------------------- MODULE IncidentStore ----------------------------
(***************************************************************************)
(* Concurrent transactions on one incident row.  A transaction reads the   *)
(* row (SELECT, no row lock), validates the move on what it read, and      *)
(* writes with UPDATE ... WHERE version = expected.  At READ COMMITTED     *)
(* another transaction may commit between the two.                         *)
(***************************************************************************)
EXTENDS IncidentRules

CONSTANT Writers        \* transactions that may be open at once

VARIABLES
  row,               \* the committed incident row
  snap,              \* per writer: the row its transaction read
  goal,              \* per writer: the state it is about to write, or "none"
  dispatches,        \* history: how often the incident entered EXECUTING
  approvedInCycle    \* history: APPROVED was entered since the last PLANNED

vars == <<row, snap, goal, dispatches, approvedInCycle>>

Record == INSTANCE IncidentRecord

TypeOK ==
  /\ row \in IncidentRow
  /\ snap \in [Writers -> IncidentRow]
  /\ goal \in [Writers -> States \cup {"none"}]
  /\ dispatches \in Nat
  /\ approvedInCycle \in BOOLEAN

Init ==
  /\ \E required \in BOOLEAN : row = NewIncident(required)
  /\ snap = [w \in Writers |-> row]
  /\ goal = [w \in Writers |-> "none"]
  /\ dispatches = 0
  /\ approvedInCycle = FALSE

-----------------------------------------------------------------------------
Read_StaleIdentityMap(w, target) ==
  /\ goal[w] = "none"
  /\ TransitionAllowed(snap[w], target)
  /\ snap' = [snap EXCEPT ![w].version = row.version]
  /\ goal' = [goal EXCEPT ![w] = target]
  /\ UNCHANGED <<row, dispatches, approvedInCycle>>

(* transition(), first half: session.get and the checks on what was read. *)
Read(w, target) ==
  /\ goal[w] = "none"
  /\ TransitionAllowed(row, target)
  /\ snap' = [snap EXCEPT ![w] = row]
  /\ goal' = [goal EXCEPT ![w] = target]
  /\ UNCHANGED <<row, dispatches, approvedInCycle>>

(* Bookkeeping of the history variables when `target' is committed. *)
Observe(target) ==
  /\ dispatches' = dispatches + IF target = "EXECUTING" THEN 1 ELSE 0
  /\ approvedInCycle' = CASE target = "APPROVED" -> TRUE
                          [] target = "PLANNED"  -> FALSE
                          [] OTHER               -> approvedInCycle

(* transition(), second half: the UPDATE matches the version that was read *)
(* and the trigger accepts the new row.                                    *)
Write(w) ==
  LET new == AfterUpdate(row, snap[w], goal[w]) IN
  /\ goal[w] # "none"
  /\ snap[w].version = row.version
  /\ guard_incident(row, new)
  /\ row' = new
  /\ Observe(goal[w])
  /\ goal' = [goal EXCEPT ![w] = "none"]
  /\ UNCHANGED snap

(* The UPDATE matches no row: ConflictError, the transaction rolls back. *)
Conflict(w) ==
  /\ goal[w] # "none"
  /\ snap[w].version # row.version
  /\ goal' = [goal EXCEPT ![w] = "none"]
  /\ UNCHANGED <<row, snap, dispatches, approvedInCycle>>

(* Any other exception in the transaction, or a crash, before it commits. *)
Rollback(w) ==
  /\ goal[w] # "none"
  /\ goal' = [goal EXCEPT ![w] = "none"]
  /\ UNCHANGED <<row, snap, dispatches, approvedInCycle>>

RequireApproval_AnyState ==
  /\ ~row.approval_required
  /\ guard_incident(row, AfterRequireApproval(row))
  /\ row' = AfterRequireApproval(row)
  /\ UNCHANGED <<snap, goal, dispatches, approvedInCycle>>

(* require_incident_approval: a single conditional UPDATE. *)
RequireApproval ==
  /\ ApprovalRequirable(row)
  /\ guard_incident(row, AfterRequireApproval(row))
  /\ row' = AfterRequireApproval(row)
  /\ UNCHANGED <<snap, goal, dispatches, approvedInCycle>>

Next ==
  \/ \E w \in Writers, target \in States : Read(w, target)
  \/ \E w \in Writers : Write(w)
  \/ \E w \in Writers : Conflict(w)
  \/ \E w \in Writers : Rollback(w)
  \/ RequireApproval

Spec == Init /\ [][Next]_vars

-----------------------------------------------------------------------------
(* A transaction that still holds the current version validated its move   *)
(* on the row it is about to overwrite: version equality implies that      *)
(* nothing else of the row has changed since it was read.                  *)
SnapshotsFresh ==
  \A w \in Writers :
    goal[w] # "none" /\ snap[w].version = row.version => snap[w] = row

(* The rules the repository checks in Python on its snapshot are never     *)
(* overruled by the trigger's own copy of them on the row itself: a write  *)
(* whose version matches is accepted by guard_incident.                    *)
GuardNeverFires ==
  \A w \in Writers :
    goal[w] # "none" /\ snap[w].version = row.version
      => guard_incident(row, AfterUpdate(row, snap[w], goal[w]))

(* An incident enters EXECUTING at most retry_limit + 1 times, however its *)
(* writers interleave: each further entry was paid for by an attempt.      *)
DispatchesBounded == dispatches <= row.attempts + 1 /\ dispatches <= RetryLimit + 1

(* An incident that requires approval is never past the approval gate      *)
(* without an APPROVED of the same planning cycle.                         *)
ApprovalGate ==
  row.approval_required
    /\ row.state \in {"APPROVED", "EXECUTING", "VERIFYING", "FAILED", "RESOLVED"}
  => approvedInCycle

(* Optimistic writers implement the abstract row: every committed change   *)
(* is one legal transition, or approval routing, of the current row.       *)
ImplementsRecord == Record!Spec

=============================================================================
