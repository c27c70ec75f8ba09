------------------------ MODULE IncidentStoreProofs ------------------------
(***************************************************************************)
(* Proofs about IncidentStore, for every set of writers and retry limit.   *)
(*                                                                         *)
(* The inductive invariant adds to the properties: no transaction has read *)
(* a version from the future, each still wants a move that was legal on    *)
(* what it read, and an incident that is between attempts has not been     *)
(* dispatched more often than its attempts counter says.                   *)
(***************************************************************************)
EXTENDS IncidentStore, TLAPS

Dispatched == {"EXECUTING", "VERIFYING", "FAILED"} \cup Terminal

OpenTxn(w) ==
  goal[w] # "none" =>
    /\ snap[w].version <= row.version
    /\ snap[w].version = row.version => snap[w] = row
    /\ TransitionAllowed(snap[w], goal[w])

DispatchPaidFor ==
  dispatches <= row.attempts + IF row.state \in Dispatched THEN 1 ELSE 0

IInv ==
  /\ TypeOK
  /\ \A w \in Writers : OpenTxn(w)
  /\ DispatchPaidFor
  /\ ApprovalGate

-----------------------------------------------------------------------------
(* The table the Python code reads and the trigger's own copy of it are    *)
(* the same relation.                                                      *)
LEMMA EdgesAgree ==
  \A s, t \in States : validate_transition(s, t) <=> <<s, t>> \in guard_edges
BY DEF States, validate_transition, TRANSITIONS, guard_edges

(* No state is its own successor. *)
LEMMA NoSelfLoop == \A s \in States : ~validate_transition(s, s)
BY DEF States, validate_transition, TRANSITIONS

(* A legal transition of a well-typed row yields a well-typed row. *)
LEMMA TransitionTyped ==
  ASSUME NEW r \in IncidentRow, NEW t \in States, TransitionAllowed(r, t)
  PROVE  AfterTransition(r, t) \in IncidentRow
<1> DEFINE a == IF IsRetry(r.state, t) THEN r.attempts + 1 ELSE r.attempts
<1>1. r.attempts \in 0 .. RetryLimit /\ r.version \in Nat \ {0}
  BY DEF IncidentRow
<1>2. a \in 0 .. RetryLimit
  BY <1>1, RetryLimitAssumption DEF TransitionAllowed
<1>3. r.version + 1 \in Nat \ {0}
  BY <1>1
<1>4. AfterTransition(r, t)
        = [r EXCEPT !.state = t, !.version = r.version + 1, !.attempts = a]
  BY DEF AfterTransition, AfterUpdate
<1> HIDE DEF a
<1> QED
  BY Zenon, <1>2, <1>3, <1>4 DEF IncidentRow

(* A legal transition is accepted by the trigger. *)
LEMMA GuardAccepts ==
  ASSUME NEW r \in IncidentRow, NEW t \in States, TransitionAllowed(r, t)
  PROVE  guard_incident(r, AfterTransition(r, t))
<1> DEFINE new == AfterTransition(r, t)
<1>1. /\ new.version = r.version + 1
      /\ new.state = t
      /\ new.attempts = IF IsRetry(r.state, t) THEN r.attempts + 1 ELSE r.attempts
  BY DEF AfterTransition, AfterUpdate, IncidentRow
<1>2. r.state \in States
  BY DEF IncidentRow
<1>3. <<r.state, t>> \in guard_edges
  BY <1>2, EdgesAgree DEF TransitionAllowed
<1>4. IsRetry(r.state, t) => r.attempts < RetryLimit
  BY DEF TransitionAllowed
<1>5. r.state = "PLANNED" /\ t # "ESCALATED"
         => /\ r.approval_required => t = "PENDING_APPROVAL"
            /\ ~r.approval_required => t = "EXECUTING"
  BY DEF TransitionAllowed
<1> HIDE DEF new
<1>6. guard_incident(r, new)
  BY <1>1, <1>3, <1>4, <1>5 DEF guard_incident
<1> QED
  BY <1>6 DEF new

-----------------------------------------------------------------------------
LEMMA InitEstablishes == Init => IInv
<1> SUFFICES ASSUME Init PROVE IInv
  OBVIOUS
<1>1. PICK required \in BOOLEAN : row = NewIncident(required)
  BY DEF Init
<1>2. row \in IncidentRow
  BY <1>1, RetryLimitAssumption DEF NewIncident, IncidentRow, States
<1>3. TypeOK
  BY Zenon, <1>2 DEF Init, TypeOK
<1>4. \A w \in Writers : OpenTxn(w)
  BY DEF Init, OpenTxn
<1>5. DispatchPaidFor /\ ApprovalGate
  BY <1>1 DEF Init, DispatchPaidFor, ApprovalGate, NewIncident, Dispatched, Terminal
<1> QED
  BY <1>3, <1>4, <1>5 DEF IInv

LEMMA ReadPreserves ==
  ASSUME IInv, NEW w \in Writers, NEW t \in States, Read(w, t)
  PROVE  IInv'
<1>1. TypeOK'
  BY DEF IInv, TypeOK, Read
<1>2. ASSUME NEW v \in Writers PROVE OpenTxn(v)'
  BY DEF IInv, TypeOK, Read, OpenTxn, IncidentRow
<1>3. (DispatchPaidFor /\ ApprovalGate)'
  BY DEF IInv, Read, DispatchPaidFor, ApprovalGate
<1> QED
  BY <1>1, <1>2, <1>3 DEF IInv

(* A write that commits is a legal transition of the row it overwrites. *)
LEMMA WriteIsTransition ==
  ASSUME IInv, NEW w \in Writers, Write(w)
  PROVE  /\ goal[w] \in States
         /\ TransitionAllowed(row, goal[w])
         /\ row' = AfterTransition(row, goal[w])
<1>1. snap[w] = row /\ TransitionAllowed(snap[w], goal[w])
  BY DEF IInv, OpenTxn, Write
<1> QED
  BY <1>1 DEF IInv, TypeOK, Write, AfterTransition

LEMMA WritePreserves ==
  ASSUME IInv, NEW w \in Writers, Write(w)
  PROVE  IInv'
<1> DEFINE t == goal[w]
<1>1. t \in States /\ TransitionAllowed(row, t) /\ row' = AfterTransition(row, t)
  BY WriteIsTransition
<1>2. row \in IncidentRow /\ row' \in IncidentRow
  BY <1>1, TransitionTyped DEF IInv, TypeOK
<1>3. /\ row'.state = t
      /\ row'.version = row.version + 1
      /\ row'.approval_required = row.approval_required
      /\ row'.attempts = IF IsRetry(row.state, t) THEN row.attempts + 1 ELSE row.attempts
  BY <1>1, <1>2 DEF AfterTransition, AfterUpdate, IncidentRow
<1>4. TypeOK'
  <2>1. dispatches' \in Nat
    BY DEF IInv, TypeOK, Write, Observe
  <2>2. approvedInCycle' \in BOOLEAN
    BY Zenon DEF IInv, TypeOK, Write, Observe
  <2> QED
    BY <1>2, <2>1, <2>2 DEF IInv, TypeOK, Write
<1>5. ASSUME NEW v \in Writers PROVE OpenTxn(v)'
  BY <1>2, <1>3 DEF IInv, TypeOK, OpenTxn, Write, IncidentRow
<1>6. DispatchPaidFor'
  <2>1. dispatches' = dispatches + IF t = "EXECUTING" THEN 1 ELSE 0
    BY DEF Write, Observe
  <2>2. /\ row.attempts \in Nat /\ dispatches \in Nat /\ row.state \in States
    BY <1>2, RetryLimitAssumption DEF IInv, TypeOK, IncidentRow
  <2>3. t \in TRANSITIONS[row.state]
    BY <1>1 DEF TransitionAllowed, validate_transition
  <2>4. CASE t = "EXECUTING"
    <3>1. row.state \notin Dispatched
      BY <2>2, <2>3, <2>4 DEF TRANSITIONS, States, Dispatched, Terminal
    <3>2. dispatches <= row.attempts
      BY <3>1, <2>2 DEF IInv, DispatchPaidFor
    <3> QED
      BY <3>2, <2>1, <2>2, <2>4, <1>3 DEF DispatchPaidFor, IsRetry, Dispatched
  <2>5. CASE IsRetry(row.state, t)
    BY <2>1, <2>2, <2>5, <1>3 DEF IInv, DispatchPaidFor, IsRetry, Dispatched, Terminal
  <2>6. CASE t # "EXECUTING" /\ ~IsRetry(row.state, t)
    <3>1. row.state \in Dispatched => t \in Dispatched
      BY <2>2, <2>3, <2>6 DEF TRANSITIONS, States, Dispatched, Terminal, IsRetry
    <3> QED
      BY <3>1, <2>1, <2>2, <2>6, <1>3 DEF IInv, DispatchPaidFor
  <2> QED
    BY <2>4, <2>5, <2>6
<1>7. ApprovalGate'
  <2>1. approvedInCycle' = CASE t = "APPROVED" -> TRUE
                             [] t = "PLANNED"  -> FALSE
                             [] OTHER          -> approvedInCycle
    BY DEF Write, Observe
  <2>2. row.state \in States /\ t \in TRANSITIONS[row.state]
    BY <1>1, <1>2 DEF TransitionAllowed, validate_transition, IncidentRow
  <2>3. SUFFICES ASSUME row.approval_required,
                        t \in {"EXECUTING", "VERIFYING", "FAILED", "RESOLVED"}
                 PROVE  approvedInCycle
    BY <1>3, <2>1, <2>3 DEF ApprovalGate
  <2>4. row.state \in {"APPROVED", "EXECUTING", "VERIFYING"}
    BY <1>1, <2>2, <2>3 DEF TRANSITIONS, States, TransitionAllowed
  <2> QED
    BY <2>3, <2>4 DEF IInv, ApprovalGate
<1> QED
  BY <1>4, <1>5, <1>6, <1>7 DEF IInv

(* Conflict and Rollback close a transaction and change nothing else. *)
LEMMA ClosePreserves ==
  ASSUME IInv, NEW w \in Writers, Conflict(w) \/ Rollback(w)
  PROVE  IInv'
<1>1. /\ goal' = [goal EXCEPT ![w] = "none"]
      /\ UNCHANGED <<row, snap, dispatches, approvedInCycle>>
  BY DEF Conflict, Rollback
<1>2. TypeOK'
  BY <1>1 DEF IInv, TypeOK
<1>3. ASSUME NEW v \in Writers PROVE OpenTxn(v)'
  BY <1>1 DEF IInv, TypeOK, OpenTxn
<1>4. (DispatchPaidFor /\ ApprovalGate)'
  BY <1>1 DEF IInv, DispatchPaidFor, ApprovalGate
<1> QED
  BY <1>2, <1>3, <1>4 DEF IInv

LEMMA RequireApprovalPreserves ==
  ASSUME IInv, RequireApproval
  PROVE  IInv'
<1>1. /\ row.state = "PLANNED"
      /\ row' = [row EXCEPT !.approval_required = TRUE, !.version = row.version + 1]
      /\ UNCHANGED <<snap, goal, dispatches, approvedInCycle>>
  BY DEF RequireApproval, ApprovalRequirable, AfterRequireApproval
<1>2. row \in IncidentRow
  BY DEF IInv, TypeOK
<1>3. row' \in IncidentRow
  <2>1. row.version + 1 \in Nat \ {0}
    BY <1>2 DEF IncidentRow
  <2>2. TRUE \in BOOLEAN
    OBVIOUS
  <2> DEFINE r2 == [row EXCEPT !.version = row.version + 1]
  <2>3. r2 \in IncidentRow
    BY <1>2, <2>1 DEF IncidentRow
  <2>4. row' = [r2 EXCEPT !.approval_required = TRUE]
    BY Zenon, <1>1, <1>2 DEF IncidentRow
  <2> HIDE DEF r2
  <2> QED
    BY <2>2, <2>3, <2>4, Zenon DEF IncidentRow
<1>4. /\ row'.state = "PLANNED" /\ row'.attempts = row.attempts
      /\ row'.version = row.version + 1
  BY <1>1, <1>2 DEF IncidentRow
<1>5. TypeOK'
  BY <1>1, <1>3 DEF IInv, TypeOK
<1>6. ASSUME NEW v \in Writers PROVE OpenTxn(v)'
  BY <1>1, <1>2, <1>4 DEF IInv, TypeOK, OpenTxn, IncidentRow
<1>7. DispatchPaidFor' /\ ApprovalGate'
  BY <1>1, <1>4 DEF IInv, DispatchPaidFor, ApprovalGate, Dispatched, Terminal
<1> QED
  BY <1>5, <1>6, <1>7 DEF IInv

LEMMA StepPreserves == IInv /\ [Next]_vars => IInv'
<1> SUFFICES ASSUME IInv, [Next]_vars PROVE IInv'
  OBVIOUS
<1>1. CASE \E w \in Writers, t \in States : Read(w, t)
  BY <1>1, ReadPreserves
<1>2. CASE \E w \in Writers : Write(w)
  BY <1>2, WritePreserves
<1>3. CASE \E w \in Writers : Conflict(w) \/ Rollback(w)
  BY <1>3, ClosePreserves
<1>4. CASE RequireApproval
  BY <1>4, RequireApprovalPreserves
<1>5. CASE UNCHANGED vars
  BY <1>5 DEF vars, IInv, TypeOK, OpenTxn, DispatchPaidFor, ApprovalGate
<1> QED
  BY <1>1, <1>2, <1>3, <1>4, <1>5 DEF Next

THEOREM Invariance == Spec => []IInv
BY InitEstablishes, StepPreserves, PTL DEF Spec

-----------------------------------------------------------------------------
(* The row, the open transactions and the history keep their types: in     *)
(* particular attempts never exceeds retry_limit.                          *)
THEOREM TypeCorrect == Spec => []TypeOK
<1>1. IInv => TypeOK
  BY DEF IInv
<1> QED
  BY <1>1, Invariance, PTL

(* A matching version means that the row is exactly the one the            *)
(* transaction validated its move on.                                      *)
THEOREM VersionPinsRow == Spec => []SnapshotsFresh
<1>1. IInv => SnapshotsFresh
  BY DEF IInv, OpenTxn, SnapshotsFresh
<1> QED
  BY <1>1, Invariance, PTL

(* The trigger never rejects a write whose version matches: the checks in  *)
(* transition() are at least as strict as guard_incident.                  *)
THEOREM ChecksSubsumeTrigger == Spec => []GuardNeverFires
<1>1. IInv => GuardNeverFires
  <2> SUFFICES ASSUME IInv, NEW w \in Writers,
                      goal[w] # "none", snap[w].version = row.version
               PROVE  guard_incident(row, AfterUpdate(row, snap[w], goal[w]))
    BY DEF GuardNeverFires
  <2>1. snap[w] = row /\ TransitionAllowed(row, goal[w])
    BY DEF IInv, OpenTxn
  <2>2. row \in IncidentRow /\ goal[w] \in States
    BY DEF IInv, TypeOK
  <2> QED
    BY <2>1, <2>2, GuardAccepts DEF AfterTransition
<1> QED
  BY <1>1, Invariance, PTL

(* At most retry_limit + 1 entries into EXECUTING, for any retry_limit and *)
(* any number of racing writers.                                           *)
THEOREM BoundedDispatches == Spec => []DispatchesBounded
<1>1. IInv => DispatchesBounded
  BY RetryLimitAssumption
     DEF IInv, TypeOK, IncidentRow, DispatchPaidFor, DispatchesBounded
<1> QED
  BY <1>1, Invariance, PTL

(* An incident that requires approval is never past the gate without one.  *)
THEOREM ApprovalGateHolds == Spec => []ApprovalGate
<1>1. IInv => ApprovalGate
  BY DEF IInv
<1> QED
  BY <1>1, Invariance, PTL

(* The abstract specification's instance of the rules is the same rules. *)
LEMMA SameRules ==
  /\ \A b : Record!NewIncident(b) = NewIncident(b)
  /\ \A r, t : /\ Record!TransitionAllowed(r, t) <=> TransitionAllowed(r, t)
               /\ Record!AfterTransition(r, t) = AfterTransition(r, t)
  /\ \A r : /\ Record!ApprovalRequirable(r) <=> ApprovalRequirable(r)
            /\ Record!AfterRequireApproval(r) = AfterRequireApproval(r)
  /\ Record!States = States
BY DEF Record!NewIncident, NewIncident, Record!States, States,
       Record!TransitionAllowed, TransitionAllowed,
       Record!validate_transition, validate_transition,
       Record!TRANSITIONS, TRANSITIONS, Record!IsRetry, IsRetry,
       Record!AfterTransition, AfterTransition, Record!AfterUpdate, AfterUpdate,
       Record!ApprovalRequirable, ApprovalRequirable,
       Record!AfterRequireApproval, AfterRequireApproval

LEMMA RefinementStep == IInv /\ [Next]_vars => [Record!Next]_row
<1> SUFFICES ASSUME IInv, [Next]_vars PROVE Record!Next \/ UNCHANGED row
  OBVIOUS
<1>1. CASE \E w \in Writers : Write(w)
  BY <1>1, WriteIsTransition, SameRules DEF Record!Next, Record!Transition
<1>2. CASE RequireApproval
  BY <1>2, SameRules DEF RequireApproval, Record!Next, Record!RequireApproval
<1>3. CASE UNCHANGED vars
  BY <1>3 DEF vars
<1>4. CASE \E w \in Writers : \/ \E t \in States : Read(w, t)
                              \/ Conflict(w) \/ Rollback(w)
  BY <1>4 DEF Read, Conflict, Rollback
<1> QED
  BY <1>1, <1>2, <1>3, <1>4 DEF Next

(* The optimistic protocol implements the abstract row: each commit is one *)
(* transition, or the approval routing, of the current row.                *)
THEOREM Refinement == Spec => ImplementsRecord
<1>1. Init => Record!Init
  BY SameRules DEF Init, Record!Init
<1> QED
  BY <1>1, RefinementStep, Invariance, PTL DEF Spec, ImplementsRecord, Record!Spec

-----------------------------------------------------------------------------
(* What the abstract row promises by itself, and so of everything that     *)
(* implements it.                                                          *)

RowHistory ==
  /\ row.state \notin Terminal
  /\ row'.version > row.version
  /\ row'.attempts \in {row.attempts, row.attempts + 1}
  /\ row.approval_required => row'.approval_required

(* One transition: its row is typed, its version the next, and it left a   *)
(* state that is not terminal.                                             *)
LEMMA TransitionHistory ==
  ASSUME NEW r \in IncidentRow, NEW t \in States, TransitionAllowed(r, t)
  PROVE  /\ AfterTransition(r, t) \in IncidentRow
         /\ AfterTransition(r, t).state = t
         /\ AfterTransition(r, t).version = r.version + 1
         /\ AfterTransition(r, t).attempts \in {r.attempts, r.attempts + 1}
         /\ ~IsRetry(r.state, t) => AfterTransition(r, t).attempts = r.attempts
         /\ AfterTransition(r, t).approval_required = r.approval_required
         /\ r.state \notin Terminal
<1>1. r.state \notin Terminal
  BY DEF TransitionAllowed, validate_transition, TRANSITIONS, Terminal
<1>2. AfterTransition(r, t) \in IncidentRow
  BY TransitionTyped
<1> QED
  BY <1>1, <1>2 DEF AfterTransition, AfterUpdate, IncidentRow

LEMMA RequirementHistory ==
  ASSUME NEW r \in IncidentRow, ApprovalRequirable(r)
  PROVE  /\ AfterRequireApproval(r) \in IncidentRow
         /\ AfterRequireApproval(r).state = "PLANNED"
         /\ AfterRequireApproval(r).version = r.version + 1
         /\ AfterRequireApproval(r).attempts = r.attempts
         /\ AfterRequireApproval(r).approval_required
<1> DEFINE q == [r EXCEPT !.version = r.version + 1]
<1>1. q \in IncidentRow
  BY DEF IncidentRow
<1>2. q.state = "PLANNED" /\ q.version = r.version + 1 /\ q.attempts = r.attempts
  BY DEF IncidentRow, ApprovalRequirable
<1>3. AfterRequireApproval(r) = [q EXCEPT !.approval_required = TRUE]
  BY Zenon DEF AfterRequireApproval, IncidentRow
<1> HIDE DEF q
<1>4. AfterRequireApproval(r) \in IncidentRow
  BY Zenon, <1>1, <1>3 DEF IncidentRow
<1> QED
  BY <1>1, <1>2, <1>3, <1>4 DEF IncidentRow

LEMMA RecordStep ==
  ASSUME row \in IncidentRow, Record!Next
  PROVE  row' \in IncidentRow /\ RowHistory
<1> USE DEF RowHistory
<1>1. row.version \in Nat /\ row.attempts \in Nat
  BY RetryLimitAssumption DEF IncidentRow
<1>2. ASSUME NEW t \in States, TransitionAllowed(row, t), row' = AfterTransition(row, t)
      PROVE  row' \in IncidentRow /\ RowHistory
  BY <1>1, <1>2, TransitionHistory
<1>3. ASSUME ApprovalRequirable(row), row' = AfterRequireApproval(row)
      PROVE  row' \in IncidentRow /\ RowHistory
  BY <1>1, <1>3, RequirementHistory DEF ApprovalRequirable, Terminal
<1>4. ASSUME NEW via \in {"TRIAGED", "FAILED"}, NEW t \in {"DIAGNOSED", "ESCALATED"},
             TransitionAllowed(row, via),
             TransitionAllowed(AfterTransition(row, via), t),
             row' = AfterTransition(AfterTransition(row, via), t)
      PROVE  row' \in IncidentRow /\ RowHistory
  <2> DEFINE mid == AfterTransition(row, via)
  <2>1. /\ mid \in IncidentRow /\ mid.state = via /\ mid.version = row.version + 1
        /\ mid.attempts = row.attempts /\ mid.approval_required = row.approval_required
        /\ row.state \notin Terminal
    BY <1>4, TransitionHistory DEF States, IsRetry
  <2> HIDE DEF mid
  <2>2. row' = AfterTransition(mid, t) /\ TransitionAllowed(mid, t) /\ t \in States
    BY <1>4 DEF mid, States
  <2> QED
    BY <1>1, <2>1, <2>2, TransitionHistory
<1>5. ASSUME ApprovalRequirable(row),
             row' = AfterTransition(AfterRequireApproval(row), "PENDING_APPROVAL")
      PROVE  row' \in IncidentRow /\ RowHistory
  <2> DEFINE mid == AfterRequireApproval(row)
  <2>1. /\ mid \in IncidentRow /\ mid.state = "PLANNED" /\ mid.version = row.version + 1
        /\ mid.attempts = row.attempts /\ mid.approval_required
    BY <1>5, RequirementHistory
  <2> HIDE DEF mid
  <2>2. row' = AfterTransition(mid, "PENDING_APPROVAL")
    BY <1>5 DEF mid
  <2>3. TransitionAllowed(mid, "PENDING_APPROVAL")
    BY <2>1 DEF TransitionAllowed, validate_transition, TRANSITIONS, IsRetry
  <2>4. "PENDING_APPROVAL" \in States /\ ~IsRetry(mid.state, "PENDING_APPROVAL")
    BY <2>1 DEF States, IsRetry
  <2>5. row' \in IncidentRow /\ row'.version = mid.version + 1
        /\ row'.attempts = mid.attempts /\ row'.approval_required = mid.approval_required
    BY Zenon, <2>1, <2>2, <2>3, <2>4, TransitionHistory
  <2> QED
    BY <1>1, <1>5, <2>1, <2>5 DEF ApprovalRequirable, Terminal
<1> QED
  BY <1>2, <1>3, <1>4, <1>5, SameRules
  DEF Record!Next, Record!Transition, Record!RequireApproval, Record!TransitionTwice,
      Record!RequireApprovalAndRoute

(* Whoever implements the abstract row: a terminal incident never changes  *)
(* again, every change has a greater version than all before it, attempts  *)
(* are counted one by one and never forgotten, and a required approval     *)
(* stays required (ControlPlaneRepository.transition,                      *)
(* require_incident_approval).                                             *)
THEOREM RecordHistory == Record!Spec => [][RowHistory]_row
<1>1. Record!Init => row \in IncidentRow
  BY SameRules, RetryLimitAssumption DEF Record!Init, NewIncident, IncidentRow, States
<1>2. row \in IncidentRow /\ [Record!Next]_row => (row \in IncidentRow)' /\ [RowHistory]_row
  BY RecordStep
<1> QED
  BY <1>1, <1>2, PTL DEF Record!Spec

(* In particular racing writers never reopen an incident or lose a count.  *)
THEOREM RowOnlyMovesOn == Spec => [][RowHistory]_row
BY Refinement, RecordHistory, PTL DEF ImplementsRecord

(* The first of several writers wins: once a transaction has changed the   *)
(* row, every other one that is open holds an older version, so that its   *)
(* UPDATE will match nothing and raise ConflictError.                      *)
THEOREM FirstWriterWins ==
  Spec => [][row' # row => \A w \in Writers : goal'[w] # "none"
                             => snap'[w].version < row'.version]_vars
<1>1. IInv /\ [Next]_vars =>
        (row' # row => \A w \in Writers : goal'[w] # "none" => snap'[w].version < row'.version)
  <2> SUFFICES ASSUME IInv, [Next]_vars, row' # row, NEW w \in Writers, goal'[w] # "none"
               PROVE  snap'[w].version < row'.version
    OBVIOUS
  <2>1. row' \in IncidentRow /\ row'.version > row.version
    <3>1. Record!Next
      BY RefinementStep
    <3> QED
      BY <3>1, RecordStep DEF IInv, TypeOK, RowHistory
  <2>2. UNCHANGED snap /\ goal[w] # "none"
    BY DEF Next, Read, Write, Conflict, Rollback, RequireApproval, vars, IInv, TypeOK
  <2>3. snap[w].version <= row.version /\ snap[w].version \in Nat /\ row.version \in Nat
    BY <2>2 DEF IInv, OpenTxn, TypeOK, IncidentRow
  <2> QED
    BY <2>1, <2>2, <2>3 DEF IncidentRow
<1> QED
  BY <1>1, Invariance, PTL DEF Spec

=============================================================================
