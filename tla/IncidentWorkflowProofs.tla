----------------------- MODULE IncidentWorkflowProofs -----------------------
(***************************************************************************)
(* Proofs about IncidentWorkflow, for every number of runs and workers,    *)
(* every retry limit and every number of exceptions and crashes.           *)
(***************************************************************************)
EXTENDS IncidentWorkflow, Integers, TLAPS

Granted == approval \in {"APPROVE", "EXPIRED"}

PastPlan == {"evaluate_policy", "decided", "precheck", "dispatch", "execute", "restarting",
             "executed", "failed", "verify", "resolve"}
PastDiagnosis == PastPlan \cup {"plan", "escalate", "end"}

(* What a run knows of the records stays true, and where it is in the      *)
(* graph says what must have happened.                                     *)
RunInv(r) ==
  /\ pc[r] = "escalate" => explained
  /\ st[r].diagnosis => diagnoses > 0
  /\ pc[r] \in PastDiagnosis => st[r].diagnosis
  /\ st[r].plan => plan
  /\ pc[r] \in PastPlan => st[r].plan
  /\ st[r].wait_reason = "AWAITING_APPROVAL" => plan /\ row.state # "PLANNED"
  /\ st[r].is_approved => Granted
  /\ pc[r] \notin {"verify", "resolve", "escalate", "end"} => st[r].attempts <= row.attempts
  /\ pc[r] = "executed" => exec[Attempt(r)] = "SUCCEEDED"
  /\ pc[r] = "verify" =>
       st[r].attempts \in 1 .. row.attempts + 1 /\ exec[st[r].attempts] = "SUCCEEDED"
  /\ pc[r] = "resolve" => \E a \in healed : exec[a] = "SUCCEEDED"

(* Only a first retry is ever counted: it leaves the incident DIAGNOSED    *)
(* with its plan, and a plan that exists is not made again.                *)
OneRetry ==
  row.attempts > 0 =>
    /\ row.attempts = 1 /\ 1 \in disproved
    /\ plan /\ row.state \in {"DIAGNOSED", "ESCALATED"}

RowInv ==
  /\ row.state = "PLANNED" => plan
  /\ row.state \in {"DETECTED", "TRIAGED"} <=> diagnoses = 0
  /\ row.state = "APPROVED" => Granted
  /\ OneRetry

WorkflowInv ==
  /\ TypeOK /\ RowInv
  /\ EscalationExplained /\ ResolvedWasHealed /\ AttemptsJustified
  /\ \A r \in Runs : RunInv(r)

-----------------------------------------------------------------------------
(* What a transition writes *)

LEMMA Written ==
  ASSUME NEW q \in IncidentRow, NEW t \in States,
         IsRetry(q.state, t) => q.attempts < RetryLimit
  PROVE  /\ AfterTransition(q, t) \in IncidentRow
         /\ AfterTransition(q, t).state = t
         /\ AfterTransition(q, t).version = q.version + 1
         /\ AfterTransition(q, t).approval_required = q.approval_required
         /\ AfterTransition(q, t).attempts =
              IF IsRetry(q.state, t) THEN q.attempts + 1 ELSE q.attempts
<1> DEFINE a == IF IsRetry(q.state, t) THEN q.attempts + 1 ELSE q.attempts
<1>1. q.version + 1 \in Nat \ {0} /\ q.attempts \in 0 .. RetryLimit
  BY DEF IncidentRow
<1>2. a \in 0 .. RetryLimit
  BY <1>1, RetryLimitAssumption
<1>3. AfterTransition(q, t) = [q EXCEPT !.state = t, !.version = q.version + 1, !.attempts = a]
  BY DEF AfterTransition, AfterUpdate
<1> HIDE DEF a
<1>4. /\ AfterTransition(q, t) \in IncidentRow
      /\ AfterTransition(q, t).state = t
      /\ AfterTransition(q, t).version = q.version + 1
      /\ AfterTransition(q, t).approval_required = q.approval_required
      /\ AfterTransition(q, t).attempts = a
  BY Zenon, <1>1, <1>2, <1>3 DEF IncidentRow
<1> QED
  BY <1>4 DEF a

LEMMA Required ==
  ASSUME NEW q \in IncidentRow
  PROVE  /\ AfterRequireApproval(q) \in IncidentRow
         /\ AfterRequireApproval(q).state = q.state
         /\ AfterRequireApproval(q).version = q.version + 1
         /\ AfterRequireApproval(q).approval_required
         /\ AfterRequireApproval(q).attempts = q.attempts
<1>1. q.version + 1 \in Nat \ {0}
  BY DEF IncidentRow
<1>2. /\ AfterRequireApproval(q) \in IncidentRow
      /\ AfterRequireApproval(q).state = q.state
      /\ AfterRequireApproval(q).version = q.version + 1
      /\ AfterRequireApproval(q).approval_required = TRUE
      /\ AfterRequireApproval(q).attempts = q.attempts
  BY Zenon, <1>1 DEF IncidentRow, AfterRequireApproval
<1> QED
  BY <1>2

LEMMA Moving ==
  ASSUME row \in IncidentRow, NEW S, NEW t \in States,
         "VERIFYING" \in S /\ t = "DIAGNOSED" => is_retry_eligible
  PROVE  /\ MovedFrom(S, t) \in IncidentRow
         /\ row.state \notin S => MovedFrom(S, t) = row
         /\ row.state \in S => MovedFrom(S, t) = AfterTransition(row, t)
         /\ row.state \in S => /\ MovedFrom(S, t).state = t
                               /\ MovedFrom(S, t).version = row.version + 1
         /\ MovedFrom(S, t).version >= row.version
         /\ MovedFrom(S, t).approval_required = row.approval_required
         /\ MovedFrom(S, t).attempts =
              IF row.state \in S /\ IsRetry(row.state, t) THEN row.attempts + 1 ELSE row.attempts
<1>1. CASE row.state \in S
  <2>1. IsRetry(row.state, t) => row.attempts < RetryLimit
    BY <1>1 DEF IsRetry, is_retry_eligible
  <2>2. row.version \in Nat
    BY DEF IncidentRow
  <2> QED
    BY <1>1, <2>1, <2>2, Written DEF MovedFrom
<1>2. CASE row.state \notin S
  <2>1. row.version \in Nat
    BY DEF IncidentRow
  <2> QED
    BY <1>2, <2>1 DEF MovedFrom
<1> QED
  BY <1>1, <1>2

LEMMA ScheduleTyped ==
  ASSUME TypeOK, NEW reason \in {"AWAITING_APPROVAL", "COOLDOWN"}, NEW v \in Nat, NEW a \in Nat,
         Schedule(reason, v, a)
  PROVE  schedules' \subseteq Schedules
<1>1. {c.version : c \in Cooldowns} \in SUBSET Nat
  BY DEF TypeOK, Cooldowns, Schedules
<1> DEFINE behind == IF reason = "COOLDOWN" THEN {} ELSE {c.version : c \in Cooldowns}
<1>2. behind \in SUBSET Nat
  BY <1>1
<1> HIDE DEF behind
<1>3. [reason |-> reason, version |-> v, previous_attempt |-> a, due |-> FALSE,
       behind |-> behind] \in Schedules
  BY <1>2 DEF Schedules
<1> QED
  BY Zenon, <1>3 DEF Schedule, TypeOK, behind

-----------------------------------------------------------------------------
(* What no step takes back *)

Grows ==
  /\ row'.attempts >= row.attempts
  /\ plan => plan'
  /\ plan /\ row.state # "PLANNED" => row'.state # "PLANNED"
  /\ explained => explained'
  /\ diagnoses' >= diagnoses
  /\ Granted => Granted'
  /\ healed \subseteq healed'
  /\ \A a \in Attempts : exec[a] = "SUCCEEDED" => exec'[a] = "SUCCEEDED"

(* A run that is not in the graph and holds no state claims nothing. *)
LEMMA IdleKnows ==
  ASSUME NEW s \in Runs, pc'[s] = "idle", st'[s] = NoState, row'.attempts \in Nat
  PROVE  RunInv(s)'
BY DEF RunInv, PastPlan, PastDiagnosis, NoState

LEMMA OthersKeep ==
  ASSUME TypeOK, TypeOK', Grows, NEW s \in Runs, RunInv(s), pc'[s] = pc[s], st'[s] = st[s]
  PROVE  RunInv(s)'
<1>1. /\ st[s] \in GraphState /\ pc[s] \in Nodes
      /\ row.attempts \in 0 .. RetryLimit /\ row'.attempts \in 0 .. RetryLimit
      /\ diagnoses \in Nat /\ diagnoses' \in Nat
      /\ healed \subseteq Attempts
  BY DEF TypeOK, IncidentRow
<1>2. st[s].attempts \in Nat
  BY <1>1 DEF GraphState
<1>3. pc[s] = "executed" => Attempt(s)' = Attempt(s) /\ Attempt(s) \in Attempts
  BY <1>1, <1>2, RetryLimitAssumption DEF RunInv, Attempt, Attempts
<1>4. pc[s] = "verify" => st[s].attempts \in Attempts
  BY <1>1, <1>2, RetryLimitAssumption DEF RunInv, Attempts
<1> USE DEF Grows, RunInv
<1>5. (pc[s] = "executed" => exec[Attempt(s)] = "SUCCEEDED")'
  BY <1>3
<1>6. (pc[s] = "verify" =>
       st[s].attempts \in 1 .. row.attempts + 1 /\ exec[st[s].attempts] = "SUCCEEDED")'
  BY <1>1, <1>2, <1>4, RetryLimitAssumption
<1>7. (pc[s] = "resolve" => \E a \in healed : exec[a] = "SUCCEEDED")'
  BY <1>1
<1>8. (pc[s] \notin {"verify", "resolve", "escalate", "end"} => st[s].attempts <= row.attempts)'
  BY <1>1, <1>2, RetryLimitAssumption
<1>9. (st[s].diagnosis => diagnoses > 0)'
  BY <1>1
<1> QED
  BY Zenon, <1>5, <1>6, <1>7, <1>8, <1>9

(* A step of one run keeps the invariant if it keeps what concerns the     *)
(* incident and what concerns that run, and takes nothing back.            *)
LEMMA StepKeeps ==
  ASSUME WorkflowInv, TypeOK', Grows,
         RowInv', EscalationExplained', ResolvedWasHealed', AttemptsJustified',
         NEW r \in Runs, RunInv(r)',
         \A s \in Runs \ {r} : pc'[s] = pc[s] /\ st'[s] = st[s]
  PROVE  WorkflowInv'
<1>1. \A s \in Runs : RunInv(s)'
  <2> TAKE s \in Runs
  <2>1. CASE s = r
    BY <2>1
  <2>2. CASE s # r
    BY <2>2, OthersKeep DEF WorkflowInv
  <2> QED
    BY <2>1, <2>2
<1> QED
  BY <1>1 DEF WorkflowInv

LEMMA RowTyped ==
  ASSUME TypeOK
  PROVE  /\ row \in IncidentRow /\ row.state \in States /\ row.version \in Nat \ {0}
         /\ row.attempts \in 0 .. RetryLimit /\ row.approval_required \in BOOLEAN
BY DEF TypeOK, IncidentRow

(* Steps that leave the incident and its records alone *)
LEMMA QuietKeeps ==
  ASSUME WorkflowInv,
         UNCHANGED <<row, diagnoses, plan, approval, explained, exec, healed, disproved>>
  PROVE  /\ Grows /\ RowInv'
         /\ EscalationExplained' /\ ResolvedWasHealed' /\ AttemptsJustified'
<1>1. row.attempts \in 0 .. RetryLimit /\ diagnoses \in 0 .. 2
  BY RowTyped DEF WorkflowInv, TypeOK
<1>2. Grows
  BY <1>1, RetryLimitAssumption DEF Grows, Granted
<1>3. RowInv'
  BY DEF WorkflowInv, RowInv, OneRetry, Granted
<1>4. EscalationExplained' /\ ResolvedWasHealed' /\ AttemptsJustified'
  BY DEF WorkflowInv, EscalationExplained, ResolvedWasHealed, AttemptsJustified
<1> QED
  BY <1>2, <1>3, <1>4

(* Steps that move a diagnosed incident, other than back for a retry *)
LEMMA MoveKeeps ==
  ASSUME WorkflowInv, row' \in IncidentRow, row'.attempts = row.attempts,
         UNCHANGED <<diagnoses, plan, exec>>,
         Granted => Granted', explained => explained',
         healed \subseteq healed', disproved \subseteq disproved',
         \/ row' = row
         \/ /\ row.state \notin {"DETECTED", "TRIAGED"}
            /\ row'.state \notin {"DETECTED", "TRIAGED", "PLANNED"}
            /\ row'.state = "ESCALATED" => explained'
            /\ row'.state = "RESOLVED" => \E a \in healed' : exec[a] = "SUCCEEDED"
            /\ row'.state = "APPROVED" => Granted'
            /\ row.state = "DIAGNOSED" => row'.state = "ESCALATED"
            /\ row.state # "ESCALATED"
  PROVE  /\ Grows /\ RowInv'
         /\ EscalationExplained' /\ ResolvedWasHealed' /\ AttemptsJustified'
<1>1. row.attempts \in 0 .. RetryLimit /\ diagnoses \in 0 .. 2
  BY RowTyped DEF WorkflowInv, TypeOK
<1>2. Grows
  BY <1>1, RetryLimitAssumption DEF Grows
<1>3. RowInv'
  BY <1>1, RetryLimitAssumption DEF WorkflowInv, RowInv, OneRetry
<1>4. EscalationExplained'
  BY DEF WorkflowInv, EscalationExplained
<1>5. ResolvedWasHealed'
  BY DEF WorkflowInv, ResolvedWasHealed
<1>6. AttemptsJustified'
  BY DEF WorkflowInv, AttemptsJustified
<1> QED
  BY <1>2, <1>3, <1>4, <1>5, <1>6

-----------------------------------------------------------------------------
(* run_incident, down to the start of the graph *)

(* What run_incident reads before the graph *)
LEMMA BeginState ==
  ASSUME TypeOK, NEW r \in Runs, NEW v, Begins(r, v)
  PROVE  /\ pc'[r] = "leasing" /\ st'[r] \in GraphState
         /\ st'[r].version = row.version /\ st'[r].attempts = row.attempts
         /\ st'[r].diagnosis <=> diagnoses > 0
         /\ st'[r].plan <=> plan
         /\ st'[r].is_approved <=> row.state = "APPROVED" \/ Granted
         /\ st'[r].wait_reason = "none"
<1> DEFINE d == diagnoses > 0
           g == row.state = "APPROVED" \/ approval \in {"APPROVE", "EXPIRED"}
<1>1. d \in BOOLEAN /\ g \in BOOLEAN /\ plan \in BOOLEAN
  BY DEF TypeOK
<1>2. st' = [st EXCEPT ![r] = [NoState EXCEPT !.version = row.version, !.diagnosis = d,
                               !.plan = plan, !.attempts = row.attempts, !.is_approved = g]]
  BY DEF Begins
<1> HIDE DEF d, g
<1>3. st'[r] = [version |-> row.version, diagnosis |-> d, plan |-> plan,
                attempts |-> row.attempts, is_approved |-> g,
                policy_decision |-> "none", wait_reason |-> "none"]
  BY Zenon, <1>2 DEF TypeOK, NoState
<1>4. st'[r] \in GraphState
  BY <1>1, <1>3, RowTyped DEF GraphState, Decisions
<1>5. pc'[r] = "leasing"
  BY DEF Begins, Goto, TypeOK
<1>6. /\ st'[r].version = row.version /\ st'[r].attempts = row.attempts
      /\ st'[r].wait_reason = "none"
      /\ st'[r].diagnosis = d /\ st'[r].plan = plan /\ st'[r].is_approved = g
  BY <1>3
<1>7. (st'[r].diagnosis <=> d) /\ (st'[r].plan <=> plan) /\ (st'[r].is_approved <=> g)
  BY <1>6, Zenon
<1> QED
  BY <1>4, <1>5, <1>6, <1>7, Zenon DEF d, g, Granted

LEMMA BeginKeeps ==
  ASSUME WorkflowInv, NEW r \in Runs, NEW v, run_incident(r, v),
         inbox' \subseteq inbox, seen' \in [Workers -> SUBSET Nat], schedules' \subseteq schedules
  PROVE  WorkflowInv'
<1> USE DEF records, trials
<1>1. st'[r] \in GraphState /\ pc'[r] \in {"idle", "leasing"}
  <2>1. CASE Begins(r, v)
    BY <2>1, BeginState DEF WorkflowInv
  <2>2. CASE Skips(r, v)
    BY Zenon, <2>2 DEF WorkflowInv, TypeOK, Skips, Stop, Goto, NoState, GraphState, Decisions
  <2> QED
    BY <2>1, <2>2 DEF run_incident
<1>2. TypeOK'
  <2>1. pc' \in [Runs -> Nodes] /\ st' \in [Runs -> GraphState]
    BY <1>1 DEF WorkflowInv, TypeOK, run_incident, Begins, Skips, Stop, Goto, Nodes
  <2> QED
    BY Zenon, <2>1 DEF WorkflowInv, TypeOK, run_incident
<1>3. RunInv(r)'
  <2>1. CASE Begins(r, v)
    BY SMTT(20), <2>1, BeginState, RowTyped, RetryLimitAssumption
    DEF RunInv, PastPlan, PastDiagnosis, WorkflowInv, RowInv, Granted, run_incident
  <2>2. CASE Skips(r, v)
    <3>1. pc'[r] = "idle" /\ st'[r] = NoState
      BY Zenon, <2>2 DEF WorkflowInv, TypeOK, Skips, Stop, Goto
    <3>2. row'.attempts \in Nat
      BY <1>2, RetryLimitAssumption DEF TypeOK, IncidentRow
    <3> QED
      BY Zenon, <3>1, <3>2, IdleKnows
  <2> QED
    BY <2>1, <2>2 DEF run_incident
<1>4. \A s \in Runs \ {r} : pc'[s] = pc[s] /\ st'[s] = st[s]
  BY DEF WorkflowInv, TypeOK, run_incident, Begins, Skips, Stop, Goto
<1> QED
  BY <1>2, <1>3, <1>4, QuietKeeps, StepKeeps DEF run_incident

(* A run that stops knows nothing. *)
LEMMA StopKeeps ==
  ASSUME WorkflowInv, TypeOK', NEW r \in Runs, Stop(r),
         UNCHANGED <<row, diagnoses, plan, approval, explained, exec, healed, disproved>>
  PROVE  WorkflowInv'
<1>1. pc'[r] = "idle" /\ st'[r] = NoState
  BY Zenon DEF WorkflowInv, TypeOK, Stop, Goto
<1>2. RunInv(r)'
  <2>1. row'.attempts \in Nat
    BY RetryLimitAssumption DEF TypeOK, IncidentRow
  <2> QED
    BY Zenon, <1>1, <2>1, IdleKnows
<1>3. \A s \in Runs \ {r} : pc'[s] = pc[s] /\ st'[s] = st[s]
  BY Zenon DEF WorkflowInv, TypeOK, Stop, Goto
<1> QED
  BY <1>2, <1>3, QuietKeeps, StepKeeps

LEMMA StopTyped ==
  ASSUME TypeOK, NEW r \in Runs, Stop(r)
  PROVE  pc' \in [Runs -> Nodes] /\ st' \in [Runs -> GraphState]
BY Zenon DEF TypeOK, Stop, Goto, NoState, GraphState, Nodes, Decisions

(* A step that moves no run *)
LEMMA ResidentKeeps ==
  ASSUME WorkflowInv, TypeOK', Grows,
         RowInv', EscalationExplained', ResolvedWasHealed', AttemptsJustified',
         UNCHANGED <<pc, st>>
  PROVE  WorkflowInv'
BY OthersKeep DEF WorkflowInv

(* Deliver, Deduplicate, Wake and ListStuck *)
LEMMA StartKeeps ==
  ASSUME WorkflowInv, NEW r \in Runs, Start(r)
  PROVE  WorkflowInv'
<1> USE DEF records, trials, outside
<1>1. CASE Deliver(r)
  <2>1. PICK n \in inbox : /\ inbox' = inbox \ {n}
                           /\ seen' = [seen EXCEPT ![OwnerOf[r]] = @ \cup {n[2]}]
                           /\ run_incident(r, n[2])
    BY Zenon, <1>1 DEF Deliver
  <2>2. n[2] \in Nat
    BY DEF WorkflowInv, TypeOK
  <2>3. seen' \in [Workers -> SUBSET Nat]
    BY Zenon, <2>1, <2>2 DEF WorkflowInv, TypeOK
  <2> QED
    BY Zenon, <1>1, <2>1, <2>3, BeginKeeps DEF Deliver
<1>2. CASE Deduplicate(r)
  <2>1. TypeOK'
    BY ZenonT(30), <1>2 DEF Deduplicate, WorkflowInv, TypeOK
  <2> QED
    BY <1>2, <2>1, QuietKeeps, ResidentKeeps DEF Deduplicate
<1>3. CASE Wake(r)
  <2>1. PICK s \in schedules : schedules' = schedules \ {s} /\ run_incident(r, s.version)
    BY <1>3 DEF Wake
  <2> QED
    BY Zenon, <1>3, <2>1, BeginKeeps DEF Wake, WorkflowInv, TypeOK
<1>4. CASE ListStuck(r)
  <2>1. /\ pc'[r] = "listed" /\ st'[r] = [st[r] EXCEPT !.version = row.version]
        /\ st[r] \in GraphState /\ st'[r] \in GraphState
    BY SMTT(20), <1>4, RowTyped DEF ListStuck, Goto, WorkflowInv, TypeOK, GraphState
  <2>2. TypeOK'
    <3>1. pc' \in [Runs -> Nodes] /\ st' \in [Runs -> GraphState]
      BY <1>4, <2>1 DEF ListStuck, Goto, WorkflowInv, TypeOK, Nodes
    <3> QED
      BY <1>4, <3>1 DEF ListStuck, WorkflowInv, TypeOK
  <2>3. /\ st'[r].diagnosis = st[r].diagnosis /\ st'[r].plan = st[r].plan
        /\ st'[r].wait_reason = st[r].wait_reason /\ st'[r].is_approved = st[r].is_approved
        /\ st'[r].attempts = st[r].attempts
    BY <2>1 DEF GraphState
  <2>4. RunInv(r)'
    BY ZenonT(30), <1>4, <2>1, <2>3 DEF ListStuck, WorkflowInv, RunInv, PastPlan, PastDiagnosis, Granted
  <2>5. \A s \in Runs \ {r} : pc'[s] = pc[s] /\ st'[s] = st[s]
    BY <1>4 DEF ListStuck, Goto, WorkflowInv, TypeOK
  <2> QED
    BY <1>4, <2>2, <2>4, <2>5, QuietKeeps, StepKeeps DEF ListStuck
<1> QED
  BY <1>1, <1>2, <1>3, <1>4 DEF Start

(* A run that goes on to another node with what it knows *)
LEMMA GotoFrame ==
  ASSUME WorkflowInv, NEW r \in Runs, NEW n \in Nodes, Goto(r, n)
  PROVE  /\ pc' \in [Runs -> Nodes] /\ pc'[r] = n
         /\ \A s \in Runs \ {r} : pc'[s] = pc[s]
BY Zenon DEF WorkflowInv, TypeOK, Goto

LEMMA LeaseTyped ==
  ASSUME TypeOK, NEW r \in Runs, lease' = Released(r)
  PROVE  lease' \in [token : Runs \cup {Nobody}, owner : Workers \cup {Nobody}, live : BOOLEAN]
BY Zenon DEF TypeOK, Released, NoLease

LEMMA LeasingKeeps ==
  ASSUME WorkflowInv, NEW r \in Runs, Sweep(r) \/ AcquireLease(r) \/ VerifyLease(r)
  PROVE  WorkflowInv'
<1> USE DEF records, trials, outside
<1>1. CASE Sweep(r)
  BY Zenon, <1>1, BeginKeeps DEF Sweep, WorkflowInv, TypeOK
<1>2. CASE AcquireLease(r)
  <2>1. CASE Stop(r) /\ UNCHANGED <<lease, undercut>>
    <3>1. TypeOK'
      BY ZenonT(30), <1>2, <2>1, StopTyped DEF AcquireLease, WorkflowInv, TypeOK
    <3> QED
      BY Zenon, <1>2, <2>1, <3>1, StopKeeps DEF AcquireLease
  <2>2. CASE /\ lease' = [token |-> r, owner |-> OwnerOf[r], live |-> TRUE]
             /\ Goto(r, "leased") /\ UNCHANGED st
    <3>0. undercut' \in BOOLEAN
      BY Zenon, <1>2 DEF AcquireLease, WorkflowInv, TypeOK
    <3>1. lease' \in [token : Runs \cup {Nobody}, owner : Workers \cup {Nobody}, live : BOOLEAN]
      BY Zenon, <2>2, WorkflowAssumption
    <3>2. /\ pc' \in [Runs -> Nodes] /\ pc'[r] = "leased"
          /\ \A s \in Runs \ {r} : pc'[s] = pc[s]
      BY Zenon, <2>2, GotoFrame DEF Nodes
    <3>3. TypeOK'
      BY Zenon, <1>2, <2>2, <3>0, <3>1, <3>2 DEF AcquireLease, WorkflowInv, TypeOK
    <3>4. RunInv(r)'
      BY Zenon, <1>2, <2>2, <3>2
      DEF AcquireLease, WorkflowInv, RunInv, PastPlan, PastDiagnosis, Granted
    <3> QED
      BY Zenon, <1>2, <2>2, <3>2, <3>3, <3>4, QuietKeeps, StepKeeps DEF AcquireLease
  <2> QED
    BY Zenon, <1>2, <2>1, <2>2 DEF AcquireLease
<1>3. CASE VerifyLease(r)
  <2>1. CASE Stop(r) /\ lease' = Released(r)
    <3>1. TypeOK'
      BY Zenon, <1>3, <2>1, StopTyped, LeaseTyped DEF VerifyLease, WorkflowInv, TypeOK
    <3> QED
      BY Zenon, <1>3, <2>1, <3>1, StopKeeps DEF VerifyLease
  <2>2. CASE Goto(r, "collect_evidence") /\ UNCHANGED <<lease, st>>
    <3>1. /\ pc' \in [Runs -> Nodes] /\ pc'[r] = "collect_evidence"
          /\ \A s \in Runs \ {r} : pc'[s] = pc[s]
      BY Zenon, <2>2, GotoFrame DEF Nodes
    <3>2. TypeOK'
      BY ZenonT(30), <1>3, <2>2, <3>1 DEF VerifyLease, WorkflowInv, TypeOK
    <3>3. RunInv(r)'
      BY Zenon, <1>3, <2>2, <3>1
      DEF VerifyLease, WorkflowInv, RunInv, PastPlan, PastDiagnosis, Granted
    <3> QED
      BY Zenon, <1>3, <2>2, <3>1, <3>2, <3>3, QuietKeeps, StepKeeps DEF VerifyLease
  <2> QED
    BY Zenon, <1>3, <2>1, <2>2 DEF VerifyLease
<1> QED
  BY <1>1, <1>2, <1>3

-----------------------------------------------------------------------------
(* The nodes of the graph up to the decision *)

(* A write to the incident row that IncidentRecord allows *)
RowStep ==
  \/ row' = row
  \/ \E t \in States : TransitionAllowed(row, t) /\ row' = AfterTransition(row, t)
  \/ \E via \in {"TRIAGED", "FAILED"}, t \in {"DIAGNOSED", "ESCALATED"} :
       /\ via = "FAILED" => t = "ESCALATED"
       /\ TransitionAllowed(row, via)
       /\ TransitionAllowed(AfterTransition(row, via), t)
       /\ row' = AfterTransition(AfterTransition(row, via), t)
  \/ /\ ApprovalRequirable(row)
     /\ row' = AfterTransition(AfterRequireApproval(row), "PENDING_APPROVAL")

LEMMA MovedIsStep ==
  ASSUME NEW t \in States, TransitionAllowed(row, t), row' = AfterTransition(row, t)
  PROVE  RowStep
BY DEF RowStep

LEMMA VersionFrame ==
  ASSUME WorkflowInv, NEW r \in Runs, NEW v \in Nat, st' = [st EXCEPT ![r].version = v]
  PROVE  /\ st' \in [Runs -> GraphState] /\ st'[r].version = v
         /\ st'[r].diagnosis = st[r].diagnosis /\ st'[r].plan = st[r].plan
         /\ st'[r].attempts = st[r].attempts /\ st'[r].is_approved = st[r].is_approved
         /\ st'[r].policy_decision = st[r].policy_decision
         /\ st'[r].wait_reason = st[r].wait_reason
         /\ \A s \in Runs \ {r} : st'[s] = st[s]
<1>1. st[r] \in GraphState /\ st \in [Runs -> GraphState]
  BY DEF WorkflowInv, TypeOK
<1>2. st'[r] = [st[r] EXCEPT !.version = v]
  BY <1>1
<1>3. st'[r] \in GraphState
  BY <1>1, <1>2 DEF GraphState
<1> QED
  BY <1>1, <1>2, <1>3 DEF GraphState

LEMMA NewVersion ==
  ASSUME WorkflowInv, NEW r \in Runs, NEW new \in IncidentRow
  PROVE  VersionAfter(r, new) \in Nat /\ new.version \in Nat
BY Zenon DEF VersionAfter, WorkflowInv, TypeOK, GraphState, IncidentRow

LEMMA EvidenceKeeps ==
  ASSUME WorkflowInv, NEW r \in Runs, collect_evidence_node(r)
  PROVE  WorkflowInv' /\ RowStep /\ row'.attempts = row.attempts
<1> USE DEF records, trials, outside
<1> DEFINE new == IF st[r].diagnosis THEN row ELSE MovedFrom({"DETECTED"}, "TRIAGED")
<1>1. /\ row' = new /\ st' = [st EXCEPT ![r].version = VersionAfter(r, new)]
      /\ pc[r] = "collect_evidence" /\ Goto(r, "diagnose")
  BY DEF collect_evidence_node
<1>2. /\ row' \in IncidentRow /\ row'.attempts = row.attempts
      /\ \/ row' = row
         \/ /\ row.state = "DETECTED" /\ row'.state = "TRIAGED"
            /\ row' = AfterTransition(row, "TRIAGED")
  BY <1>1, RowTyped, Moving DEF WorkflowInv, States, IsRetry
<1> HIDE DEF new
<1>3. VersionAfter(r, new) \in Nat
  BY <1>1, <1>2, NewVersion
<1>4. /\ st' \in [Runs -> GraphState]
      /\ st'[r].diagnosis = st[r].diagnosis /\ st'[r].plan = st[r].plan
      /\ st'[r].attempts = st[r].attempts /\ st'[r].is_approved = st[r].is_approved
      /\ st'[r].wait_reason = st[r].wait_reason
      /\ \A s \in Runs \ {r} : st'[s] = st[s]
  BY Zenon, <1>1, <1>3, VersionFrame
<1>5. /\ pc' \in [Runs -> Nodes] /\ pc'[r] = "diagnose"
      /\ \A s \in Runs \ {r} : pc'[s] = pc[s]
  BY <1>1, GotoFrame DEF Nodes
<1>6. TypeOK'
  BY <1>2, <1>4, <1>5 DEF collect_evidence_node, WorkflowInv, TypeOK
<1>7. RunInv(r)'
  BY <1>1, <1>2, <1>4, <1>5
  DEF collect_evidence_node, WorkflowInv, RunInv, PastPlan, PastDiagnosis, Granted
<1>8. Grows
  BY <1>2, RowTyped DEF collect_evidence_node, Grows, WorkflowInv, TypeOK, Granted
<1>9. RowInv' /\ EscalationExplained' /\ ResolvedWasHealed'
  BY <1>2 DEF collect_evidence_node, WorkflowInv, RowInv, OneRetry, Granted,
              EscalationExplained, ResolvedWasHealed
<1>10. AttemptsJustified'
  BY <1>2 DEF collect_evidence_node, WorkflowInv, AttemptsJustified
<1>11. RowStep
  <2>1. row.state = "DETECTED" => TransitionAllowed(row, "TRIAGED")
    BY DEF TransitionAllowed, validate_transition, TRANSITIONS, IsRetry
  <2> QED
    BY Zenon, <1>2, <2>1, MovedIsStep DEF RowStep, States
<1> QED
  BY Zenon, <1>2, <1>4, <1>5, <1>6, <1>7, <1>8, <1>9, <1>10, <1>11, StepKeeps

(* diagnose_node's write: where it goes, and that the row allows it *)
LEMMA DiagnosedMoves ==
  ASSUME TypeOK, NEW t \in {"DIAGNOSED", "ESCALATED"}, row' = Diagnosed(t)
  PROVE  /\ row' \in IncidentRow /\ row'.attempts = row.attempts
         /\ row'.approval_required = row.approval_required
         /\ IF row.state \in {"DETECTED", "TRIAGED"}
              THEN row'.state = t /\ row'.version > row.version
              ELSE row' = row
         /\ RowStep
<1> DEFINE via == AfterTransition(row, "TRIAGED")
<1> USE RowTyped DEF IsRetry
<1>1. CASE row.state = "DETECTED"
  <2>1. /\ via \in IncidentRow /\ via.state = "TRIAGED" /\ via.version = row.version + 1
        /\ via.attempts = row.attempts /\ via.approval_required = row.approval_required
    BY ZenonT(30), <1>1, Written DEF States
  <2>2. row' = AfterTransition(via, t)
    BY <1>1 DEF Diagnosed
  <2>3. TransitionAllowed(row, "TRIAGED")
    BY <1>1 DEF TransitionAllowed, validate_transition, TRANSITIONS
  <2>4. TransitionAllowed(via, t)
    BY <2>1 DEF TransitionAllowed, validate_transition, TRANSITIONS
  <2>5. RowStep
    BY Zenon, <2>2, <2>3, <2>4 DEF RowStep
  <2> HIDE DEF via
  <2>6. /\ row' \in IncidentRow /\ row'.state = t /\ row'.version = via.version + 1
        /\ row'.attempts = via.attempts /\ row'.approval_required = via.approval_required
    BY SMTT(20), <2>1, <2>2, Written DEF States
  <2> QED
    BY <1>1, <2>1, <2>5, <2>6
<1>2. CASE row.state = "TRIAGED"
  <2>1. row' = AfterTransition(row, t)
    BY <1>2 DEF Diagnosed, MovedFrom
  <2>2. /\ row' \in IncidentRow /\ row'.state = t /\ row'.version = row.version + 1
        /\ row'.attempts = row.attempts /\ row'.approval_required = row.approval_required
    BY <1>2, <2>1, Written DEF States
  <2>3. TransitionAllowed(row, t)
    BY <1>2 DEF TransitionAllowed, validate_transition, TRANSITIONS
  <2>4. RowStep
    BY <2>1, <2>3, MovedIsStep DEF States
  <2> QED
    BY <1>2, <2>2, <2>4
<1>3. CASE row.state \notin {"DETECTED", "TRIAGED"}
  BY Zenon, <1>3 DEF Diagnosed, MovedFrom, RowStep
<1> QED
  BY Zenon, <1>1, <1>2, <1>3

LEMMA DiagnoseKeeps ==
  ASSUME WorkflowInv, NEW r \in Runs, diagnose_node(r)
  PROVE  WorkflowInv' /\ RowStep /\ row'.attempts = row.attempts
<1> USE DEF records, trials, outside
<1>1. PICK is_actionable \in BOOLEAN :
        LET new == Diagnosed(IF is_actionable THEN "DIAGNOSED" ELSE "ESCALATED") IN
        /\ row' = new
        /\ explained' = (explained \/ ~is_actionable)
        /\ st' = [st EXCEPT ![r].version = VersionAfter(r, new), ![r].diagnosis = TRUE]
        /\ Goto(r, IF is_actionable THEN "plan" ELSE "escalate")
  BY Zenon DEF diagnose_node
<1> DEFINE t == IF is_actionable THEN "DIAGNOSED" ELSE "ESCALATED"
<1>2. t \in {"DIAGNOSED", "ESCALATED"} /\ row' = Diagnosed(t)
  BY <1>1
<1>3. /\ row' \in IncidentRow /\ row'.attempts = row.attempts
      /\ IF row.state \in {"DETECTED", "TRIAGED"} THEN row'.state = t ELSE row' = row
      /\ RowStep
  <2> HIDE DEF t
  <2> QED
    BY <1>2, DiagnosedMoves DEF WorkflowInv
<1>4. explained' \in BOOLEAN /\ (explained => explained') /\ (t = "ESCALATED" => explained')
  BY Zenon, <1>1
<1>5. /\ st' \in [Runs -> GraphState]
      /\ st'[r].diagnosis = TRUE /\ st'[r].plan = st[r].plan
      /\ st'[r].attempts = st[r].attempts /\ st'[r].is_approved = st[r].is_approved
      /\ st'[r].wait_reason = st[r].wait_reason
      /\ \A s \in Runs \ {r} : st'[s] = st[s]
  <2>1. PICK v \in Nat : st' = [st EXCEPT ![r].version = v, ![r].diagnosis = TRUE]
    BY Zenon, <1>1, <1>3, NewVersion
  <2>2. st[r] \in GraphState /\ st \in [Runs -> GraphState]
    BY Zenon DEF WorkflowInv, TypeOK
  <2>3. st'[r] = [st[r] EXCEPT !.version = v, !.diagnosis = TRUE]
    BY <2>1, <2>2
  <2>4. st'[r] \in GraphState
    BY Zenon, <2>2, <2>3 DEF GraphState
  <2> QED
    BY <2>1, <2>2, <2>3, <2>4 DEF GraphState
<1>6. /\ pc' \in [Runs -> Nodes]
      /\ pc'[r] = (IF is_actionable THEN "plan" ELSE "escalate")
      /\ \A s \in Runs \ {r} : pc'[s] = pc[s]
  BY <1>1, GotoFrame DEF Nodes
<1>7. diagnoses \in 0 .. 2 /\ diagnoses' \in 1 .. 2 /\ diagnoses' >= diagnoses
  BY DEF diagnose_node, WorkflowInv, TypeOK
<1>8. TypeOK'
  BY <1>3, <1>4, <1>5, <1>6, <1>7 DEF diagnose_node, WorkflowInv, TypeOK
<1>9. RunInv(r)'
  <2>1. pc'[r] = "escalate" => explained'
    BY <1>4, <1>6
  <2>2. st'[r].wait_reason = "AWAITING_APPROVAL" => plan' /\ row'.state # "PLANNED"
    BY Zenon, <1>3, <1>5 DEF diagnose_node, WorkflowInv, RunInv
  <2>3. pc'[r] \notin {"verify", "resolve", "escalate", "end"} => st'[r].attempts <= row'.attempts
    BY Zenon, <1>3, <1>5 DEF diagnose_node, WorkflowInv, RunInv
  <2> QED
    BY <1>5, <1>6, <1>7, <2>1, <2>2, <2>3
    DEF diagnose_node, WorkflowInv, RunInv, PastPlan, PastDiagnosis, Granted
<1>10. Grows
  BY <1>3, <1>4, <1>7, RowTyped DEF diagnose_node, Grows, WorkflowInv, Granted
<1>11. RowInv' /\ EscalationExplained' /\ ResolvedWasHealed'
  <2>1. row'.state \notin {"DETECTED", "TRIAGED"}
    BY <1>3
  <2>2. OneRetry'
    BY <1>3, RowTyped DEF diagnose_node, WorkflowInv, RowInv, OneRetry
  <2> QED
    BY <1>3, <1>4, <1>7, <2>1, <2>2 DEF diagnose_node, WorkflowInv, RowInv, Granted,
              EscalationExplained, ResolvedWasHealed
<1>12. AttemptsJustified'
  BY <1>3 DEF diagnose_node, WorkflowInv, AttemptsJustified
<1> QED
  BY Zenon, <1>3, <1>5, <1>6, <1>8, <1>9, <1>10, <1>11, <1>12, StepKeeps

(* The nodes that only pass a run on *)
LEMMA PassingKeeps ==
  ASSUME WorkflowInv, NEW r \in Runs,
         SkipDiagnosis(r) \/ SkipPlanning(r) \/ evaluate_policy_node(r) \/ PrecheckPasses(r)
  PROVE  WorkflowInv' /\ row' = row
<1> USE DEF records, trials, outside
<1>1. PICK n \in {"plan", "evaluate_policy", "decided", "dispatch"} : Goto(r, n)
  BY DEF SkipDiagnosis, SkipPlanning, evaluate_policy_node, PrecheckPasses
<1>2. /\ pc' \in [Runs -> Nodes] /\ pc'[r] = n
      /\ \A s \in Runs \ {r} : pc'[s] = pc[s]
  BY Zenon, <1>1, GotoFrame DEF Nodes
<1>3. /\ st' \in [Runs -> GraphState]
      /\ st'[r].diagnosis = st[r].diagnosis /\ st'[r].plan = st[r].plan
      /\ st'[r].attempts = st[r].attempts /\ st'[r].is_approved = st[r].is_approved
      /\ st'[r].wait_reason = st[r].wait_reason
      /\ \A s \in Runs \ {r} : st'[s] = st[s]
  <2>1. CASE UNCHANGED st
    BY Zenon, <2>1 DEF WorkflowInv, TypeOK
  <2>2. CASE evaluate_policy_node(r)
    <3>1. evaluate(st[r].attempts) \in Decisions
      BY DEF evaluate, Decisions
    <3>2. st[r] \in GraphState /\ st \in [Runs -> GraphState]
      BY Zenon DEF WorkflowInv, TypeOK
    <3>3. st'[r] = [st[r] EXCEPT !.policy_decision = evaluate(st[r].attempts)]
      BY <2>2, <3>2 DEF evaluate_policy_node
    <3>4. st'[r] \in GraphState
      BY <3>1, <3>2, <3>3 DEF GraphState
    <3> QED
      BY <2>2, <3>2, <3>3, <3>4 DEF GraphState, evaluate_policy_node
  <2> QED
    BY Zenon, <2>1, <2>2 DEF SkipDiagnosis, SkipPlanning, PrecheckPasses
<1>4. UNCHANGED <<row, records, trials, schedules, lease, outside, faults>>
  BY DEF SkipDiagnosis, SkipPlanning, evaluate_policy_node, PrecheckPasses
<1>5. TypeOK'
  BY ZenonT(30), <1>2, <1>3, <1>4 DEF WorkflowInv, TypeOK
<1>6. /\ n \in PastDiagnosis \ {"escalate"} => st[r].diagnosis
      /\ n \in PastPlan => st[r].plan
      /\ pc[r] \in {"diagnose", "plan", "evaluate_policy", "precheck"}
  BY Zenon, <1>1, <1>2 DEF SkipDiagnosis, SkipPlanning, evaluate_policy_node, PrecheckPasses,
                    WorkflowInv, RunInv, PastPlan, PastDiagnosis, TypeOK, Goto
<1>7. RunInv(r)'
  BY Zenon, <1>2, <1>3, <1>4, <1>6 DEF WorkflowInv, RunInv, PastDiagnosis, Granted
<1> QED
  BY Zenon, <1>2, <1>3, <1>4, <1>5, <1>7, QuietKeeps, StepKeeps

LEMMA PlanKeeps ==
  ASSUME WorkflowInv, NEW r \in Runs, plan_node(r)
  PROVE  WorkflowInv' /\ RowStep /\ row'.attempts = row.attempts
<1> USE DEF records, trials, outside
<1>1. PICK target \in {"PLANNED", "ESCALATED"} :
        /\ TransitionAllowed(row, target)
        /\ target = "PLANNED" => ~plan
        /\ row' = AfterTransition(row, target)
        /\ plan' = (plan \/ target = "PLANNED")
        /\ explained' = (explained \/ target = "ESCALATED")
        /\ st' = [st EXCEPT ![r].version = row'.version, ![r].plan = plan']
        /\ Goto(r, IF target = "PLANNED" THEN "evaluate_policy" ELSE "escalate")
  BY DEF plan_node
<1>2. /\ row' \in IncidentRow /\ row'.state = target /\ row'.attempts = row.attempts
      /\ row'.version \in Nat
  <2>1. ~IsRetry(row.state, target)
    BY DEF IsRetry
  <2>2. /\ row' \in IncidentRow /\ row'.state = target /\ row'.attempts = row.attempts
    BY <1>1, <2>1, RowTyped, Written DEF States, WorkflowInv
  <2> QED
    BY <2>2 DEF IncidentRow
<1>3. RowStep
  BY <1>1, MovedIsStep DEF States
<1>4. /\ explained' \in BOOLEAN /\ (explained => explained')
      /\ target = "ESCALATED" => explained'
      /\ plan' \in BOOLEAN /\ (plan => plan') /\ (target = "PLANNED" => plan')
  BY Zenon, <1>1
<1>5. /\ st' \in [Runs -> GraphState]
      /\ st'[r].diagnosis = st[r].diagnosis /\ st'[r].plan = plan'
      /\ st'[r].attempts = st[r].attempts /\ st'[r].is_approved = st[r].is_approved
      /\ st'[r].wait_reason = st[r].wait_reason
      /\ \A s \in Runs \ {r} : st'[s] = st[s]
  <2>1. st[r] \in GraphState /\ st \in [Runs -> GraphState]
    BY Zenon DEF WorkflowInv, TypeOK
  <2>2. PICK v \in Nat, p \in BOOLEAN :
          st' = [st EXCEPT ![r].version = v, ![r].plan = p] /\ p = plan'
    BY Zenon, <1>1, <1>2, <1>4
  <2>3. st'[r] = [st[r] EXCEPT !.version = v, !.plan = p]
    BY <2>1, <2>2
  <2>4. st'[r] \in GraphState
    BY Zenon, <2>1, <2>3 DEF GraphState
  <2> QED
    BY <2>1, <2>2, <2>3, <2>4 DEF GraphState
<1>6. /\ pc' \in [Runs -> Nodes]
      /\ pc'[r] = (IF target = "PLANNED" THEN "evaluate_policy" ELSE "escalate")
      /\ \A s \in Runs \ {r} : pc'[s] = pc[s]
  BY <1>1, GotoFrame DEF Nodes
<1>7. TypeOK'
  BY Zenon, <1>2, <1>4, <1>5, <1>6 DEF plan_node, WorkflowInv, TypeOK
<1>8. st[r].diagnosis /\ diagnoses > 0 /\ pc[r] = "plan"
  BY Zenon DEF plan_node, WorkflowInv, RunInv, PastDiagnosis
<1>9. RunInv(r)'
  BY SMTT(20), <1>1, <1>2, <1>4, <1>5, <1>6, <1>8
  DEF plan_node, WorkflowInv, RunInv, PastPlan, PastDiagnosis, Granted
<1>10. Grows
  BY SMTT(20), <1>1, <1>2, <1>4, RowTyped DEF plan_node, Grows, WorkflowInv, TypeOK, Granted
<1>11. RowInv' /\ EscalationExplained' /\ ResolvedWasHealed'
  <2>1. diagnoses # 0
    BY <1>8
  <2>2. OneRetry'
    BY Zenon, <1>1, <1>2, <1>4 DEF plan_node, WorkflowInv, RowInv, OneRetry
  <2> QED
    BY <1>2, <1>4, <2>1, <2>2 DEF plan_node, WorkflowInv, RowInv, EscalationExplained,
                                  ResolvedWasHealed
<1>12. AttemptsJustified'
  BY <1>2 DEF plan_node, WorkflowInv, AttemptsJustified
<1> QED
  BY Zenon, <1>2, <1>3, <1>5, <1>6, <1>7, <1>9, <1>10, <1>11, <1>12, StepKeeps

(* The write that a policy decision makes *)
LEMMA RoutedMoves ==
  ASSUME TypeOK, NEW d, row' = RoutedByDecision(d)
  PROVE  /\ row' \in IncidentRow /\ row'.attempts = row.attempts
         /\ row'.version >= row.version
         /\ d \notin {"DENY", "REQUIRE_APPROVAL"} => row' = row
         /\ row.state # "PLANNED" => row' = row
         /\ row.state = "PLANNED" /\ d = "DENY" => row'.state = "ESCALATED"
         /\ row.state = "PLANNED" /\ d = "REQUIRE_APPROVAL" => row'.state = "PENDING_APPROVAL"
         /\ row'.approval_required /\ d # "REQUIRE_APPROVAL" => row.approval_required
         /\ RowStep
<1> USE RowTyped DEF IsRetry
<1>1. CASE row.state = "PLANNED" /\ d = "DENY"
  <2>1. row' = AfterTransition(row, "ESCALATED")
    BY <1>1 DEF RoutedByDecision, MovedFrom
  <2>2. TransitionAllowed(row, "ESCALATED")
    BY <1>1 DEF TransitionAllowed, validate_transition, TRANSITIONS
  <2>3. RowStep
    BY <2>1, <2>2, MovedIsStep DEF States
  <2>4. /\ row' \in IncidentRow /\ row'.attempts = row.attempts /\ row'.state = "ESCALATED"
        /\ row'.version = row.version + 1 /\ row'.approval_required = row.approval_required
    BY <1>1, <2>1, Written DEF States
  <2> QED
    BY <1>1, <2>3, <2>4
<1>2. CASE row.state = "PLANNED" /\ d = "REQUIRE_APPROVAL"
  <2> DEFINE q == IF row.approval_required THEN row ELSE AfterRequireApproval(row)
  <2>1. row' = AfterTransition(q, "PENDING_APPROVAL")
    BY <1>2 DEF RoutedByDecision
  <2>2. /\ q \in IncidentRow /\ q.state = "PLANNED" /\ q.attempts = row.attempts
        /\ q.version >= row.version /\ q.version \in Nat
    BY <1>2, Required DEF IncidentRow
  <2>3. RowStep
    <3>1. CASE row.approval_required
      <4>1. TransitionAllowed(row, "PENDING_APPROVAL")
        BY SMTT(20), <1>2, <3>1 DEF TransitionAllowed, validate_transition, TRANSITIONS
      <4> QED
        BY <2>1, <3>1, <4>1, MovedIsStep DEF States
    <3>2. CASE ~row.approval_required
      BY <1>2, <2>1, <3>2 DEF RowStep, ApprovalRequirable
    <3> QED
      BY <3>1, <3>2
  <2> HIDE DEF q
  <2>4. /\ row' \in IncidentRow /\ row'.attempts = row.attempts
        /\ row'.state = "PENDING_APPROVAL" /\ row'.version = q.version + 1
    BY <2>1, <2>2, Written DEF States
  <2> QED
    BY <1>2, <2>2, <2>3, <2>4
<1>3. CASE row.state # "PLANNED" \/ d \notin {"DENY", "REQUIRE_APPROVAL"}
  BY <1>3 DEF RoutedByDecision, MovedFrom, RowStep
<1> QED
  BY Zenon, <1>1, <1>2, <1>3

LEMMA DecisionKeeps ==
  ASSUME WorkflowInv, NEW r \in Runs, RecordDecision(r)
  PROVE  WorkflowInv' /\ RowStep /\ row'.attempts = row.attempts
<1> USE DEF records, trials, outside
<1> DEFINE d == st[r].policy_decision
           w == IF d = "REQUIRE_APPROVAL" THEN "AWAITING_APPROVAL" ELSE "none"
           n == route_after_policy(d, st[r].is_approved)
<1>1. /\ pc[r] = "decided" /\ row' = RoutedByDecision(d) /\ decision' = d
      /\ explained' = (explained \/ d = "DENY")
      /\ st' = [st EXCEPT ![r].version = VersionAfter(r, row'), ![r].wait_reason = w]
      /\ Goto(r, n)
      /\ UNCHANGED <<diagnoses, plan, approval, trials, schedules, lease, outside, faults>>
  BY DEF RecordDecision
<1>2. /\ row' \in IncidentRow /\ row'.attempts = row.attempts
      /\ row.state # "PLANNED" => row' = row
      /\ d \notin {"DENY", "REQUIRE_APPROVAL"} => row' = row
      /\ row.state = "PLANNED" /\ d = "DENY" => row'.state = "ESCALATED"
      /\ row.state = "PLANNED" /\ d = "REQUIRE_APPROVAL" => row'.state = "PENDING_APPROVAL"
      /\ RowStep
  <2> HIDE DEF d
  <2> QED
    BY <1>1, RoutedMoves DEF WorkflowInv
<1>3. /\ n \in {"escalate", "end", "precheck"} /\ (n = "escalate" => d = "DENY")
      /\ n \in Nodes
  BY DEF route_after_policy, Nodes
<1>4. /\ pc' \in [Runs -> Nodes] /\ pc'[r] = n
      /\ \A s \in Runs \ {r} : pc'[s] = pc[s]
  <2> HIDE DEF n
  <2> QED
    BY <1>1, <1>3, GotoFrame
<1>5. explained' \in BOOLEAN /\ (explained => explained') /\ (d = "DENY" => explained')
  BY Zenon, <1>1
<1>6. /\ st' \in [Runs -> GraphState]
      /\ st'[r].diagnosis = st[r].diagnosis /\ st'[r].plan = st[r].plan
      /\ st'[r].attempts = st[r].attempts /\ st'[r].is_approved = st[r].is_approved
      /\ st'[r].wait_reason = w
      /\ \A s \in Runs \ {r} : st'[s] = st[s]
  <2>1. st[r] \in GraphState /\ st \in [Runs -> GraphState] /\ w \in {"AWAITING_APPROVAL", "none"}
    BY Zenon DEF WorkflowInv, TypeOK
  <2> HIDE DEF w
  <2>2. PICK v \in Nat : st' = [st EXCEPT ![r].version = v, ![r].wait_reason = w]
    BY Zenon, <1>1, <1>2, NewVersion
  <2>3. st'[r] = [st[r] EXCEPT !.version = v, !.wait_reason = w]
    BY <2>1, <2>2
  <2>4. st'[r] \in GraphState
    BY Zenon, <2>1, <2>3 DEF GraphState
  <2> QED
    BY <2>1, <2>2, <2>3, <2>4 DEF GraphState
<1>7. d \in Decisions
  BY Zenon DEF WorkflowInv, TypeOK, GraphState
<1>8. TypeOK'
  BY Zenon, <1>1, <1>2, <1>4, <1>5, <1>6, <1>7 DEF WorkflowInv, TypeOK
<1>9. st[r].plan /\ plan /\ st[r].diagnosis /\ diagnoses > 0 /\ st[r].attempts <= row.attempts
  BY Zenon, <1>1 DEF WorkflowInv, RunInv, PastPlan, PastDiagnosis
<1> HIDE DEF n
<1>10. RunInv(r)'
  <2>1. st'[r].wait_reason = "AWAITING_APPROVAL" => plan' /\ row'.state # "PLANNED"
    BY <1>1, <1>2, <1>6, <1>9
  <2> HIDE DEF d, w
  <2> QED
    BY Zenon, <1>1, <1>2, <1>3, <1>4, <1>5, <1>6, <1>9, <2>1
    DEF WorkflowInv, RunInv, PastPlan, PastDiagnosis, Granted
<1>11. /\ Grows /\ RowInv'
       /\ EscalationExplained' /\ ResolvedWasHealed' /\ AttemptsJustified'
  <2>1. \/ row' = row
        \/ row.state = "PLANNED" /\ d = "DENY" /\ row'.state = "ESCALATED"
        \/ row.state = "PLANNED" /\ row'.state = "PENDING_APPROVAL"
    BY Zenon, <1>2
  <2> HIDE DEF d
  <2> QED
    BY <1>1, <1>2, <1>5, <2>1, MoveKeeps DEF Granted
<1> QED
  BY Zenon, <1>2, <1>4, <1>6, <1>8, <1>10, <1>11, StepKeeps

-----------------------------------------------------------------------------
(* The nodes from the precheck to the restart *)

LEMMA PrecheckFailsKeeps ==
  ASSUME WorkflowInv, NEW r \in Runs, PrecheckFails(r)
  PROVE  WorkflowInv' /\ RowStep /\ row'.attempts = row.attempts
<1> USE DEF records, trials, outside
<1>1. /\ row' \in IncidentRow /\ row'.attempts = row.attempts
      /\ \/ row' = row
         \/ /\ row.state \in {"APPROVED", "PLANNED"} /\ row'.state = "ESCALATED"
            /\ row' = AfterTransition(row, "ESCALATED")
  BY SMTT(20), RowTyped, Moving DEF PrecheckFails, WorkflowInv, States, IsRetry
<1>2. row.state \in {"APPROVED", "PLANNED"} => TransitionAllowed(row, "ESCALATED")
  BY DEF TransitionAllowed, validate_transition, TRANSITIONS, IsRetry
<1>3. RowStep
  BY Zenon, <1>1, <1>2, MovedIsStep DEF RowStep, States
<1>4. /\ pc' \in [Runs -> Nodes] /\ pc'[r] = "escalate"
      /\ \A s \in Runs \ {r} : pc'[s] = pc[s]
  BY Zenon, GotoFrame DEF PrecheckFails, Nodes
<1>5. TypeOK'
  BY Zenon, <1>1, <1>4 DEF PrecheckFails, WorkflowInv, TypeOK
<1>6. RunInv(r)'
  BY Zenon, <1>1, <1>4 DEF PrecheckFails, WorkflowInv, RunInv, PastPlan, PastDiagnosis, Granted
<1>7. /\ Grows /\ RowInv'
      /\ EscalationExplained' /\ ResolvedWasHealed' /\ AttemptsJustified'
  BY Zenon, <1>1, MoveKeeps DEF PrecheckFails, Granted
<1> QED
  BY Zenon, <1>1, <1>3, <1>4, <1>5, <1>6, <1>7, StepKeeps DEF PrecheckFails

LEMMA DispatchKeeps ==
  ASSUME WorkflowInv, NEW r \in Runs, Dispatch(r)
  PROVE  WorkflowInv' /\ RowStep /\ row'.attempts = row.attempts
<1> USE DEF records, trials, outside
<1>1. /\ row' \in IncidentRow /\ row'.attempts = row.attempts
      /\ \/ row' = row
         \/ /\ row.state \in {"APPROVED", "PLANNED"} /\ row'.state = "EXECUTING"
            /\ row' = AfterTransition(row, "EXECUTING")
  BY SMTT(20), RowTyped, Moving DEF Dispatch, WorkflowInv, States, IsRetry
<1>2. row.state \in {"APPROVED", "PLANNED"} => TransitionAllowed(row, "EXECUTING")
  BY DEF Dispatch, Dispatchable
<1>3. RowStep
  BY Zenon, <1>1, <1>2, MovedIsStep DEF RowStep, States
<1>4. /\ pc' \in [Runs -> Nodes] /\ pc'[r] = "execute"
      /\ \A s \in Runs \ {r} : pc'[s] = pc[s]
  BY Zenon, GotoFrame DEF Dispatch, Nodes
<1>5. TypeOK'
  BY ZenonT(30), <1>1, <1>4 DEF Dispatch, WorkflowInv, TypeOK
<1>6. RunInv(r)'
  BY Zenon, <1>1, <1>4 DEF Dispatch, WorkflowInv, RunInv, PastPlan, PastDiagnosis, Granted
<1>7. /\ Grows /\ RowInv'
      /\ EscalationExplained' /\ ResolvedWasHealed' /\ AttemptsJustified'
  BY Zenon, <1>1, MoveKeeps DEF Dispatch, Granted
<1> QED
  BY Zenon, <1>1, <1>3, <1>4, <1>5, <1>6, <1>7, StepKeeps DEF Dispatch

(* The attempt of a run that has not been verified is within the budget,   *)
(* and the one before it was disproved.                                    *)
LEMMA AttemptWithin ==
  ASSUME WorkflowInv, NEW r \in Runs,
         pc[r] \notin {"verify", "resolve", "escalate", "end"}
  PROVE  /\ Attempt(r) \in Attempts /\ Attempt(r) <= row.attempts + 1
         /\ Attempt(r) > 1 => Attempt(r) - 1 \in disproved
<1>1. st[r].attempts \in Nat /\ row.attempts \in 0 .. RetryLimit
  BY Zenon, RowTyped DEF WorkflowInv, TypeOK, GraphState
<1>2. st[r].attempts <= row.attempts
  BY Zenon DEF WorkflowInv, RunInv
<1>3. row.attempts > 0 => row.attempts = 1 /\ 1 \in disproved
  BY DEF WorkflowInv, RowInv, OneRetry
<1>4. Attempt(r) > 1 => Attempt(r) - 1 = 1
  BY <1>1, <1>2, <1>3, RetryLimitAssumption DEF Attempt
<1> QED
  BY SMTT(20), <1>1, <1>2, <1>3, <1>4, RetryLimitAssumption DEF Attempt, Attempts

LEMMA ExecuteKeeps ==
  ASSUME WorkflowInv, NEW r \in Runs, ExecuteNew(r) \/ ExecuteAgain(r) \/ ExecuteFinish(r)
  PROVE  WorkflowInv' /\ row' = row
<1> USE DEF records, trials, outside
<1> DEFINE a == Attempt(r)
<1>1. PICK status \in {"RUNNING", "SUCCEEDED", "FAILED"},
           n \in {"restarting", "executed", "failed"} :
        /\ pc[r] \in {"execute", "restarting"}
        /\ exec' = [exec EXCEPT ![a] = status] /\ Goto(r, n)
        /\ n = "executed" => status = "SUCCEEDED"
        /\ exec[a] = "SUCCEEDED" => status = "SUCCEEDED"
  BY Zenon DEF ExecuteNew, ExecuteAgain, ExecuteFinish, OutcomeNode
<1>2. UNCHANGED <<row, records, healed, disproved, cooled, schedules, lease, outside, faults, st>>
  BY Zenon DEF ExecuteNew, ExecuteAgain, ExecuteFinish
<1>3. /\ a \in Attempts /\ a <= row.attempts + 1
      /\ a > 1 => a - 1 \in disproved
  BY Zenon, <1>1, AttemptWithin
<1> HIDE DEF a
<1>4. /\ exec' \in [Attempts -> {"none", "RUNNING", "SUCCEEDED", "FAILED"}]
      /\ exec'[a] = status /\ \A b \in Attempts \ {a} : exec'[b] = exec[b]
  BY Zenon, <1>1, <1>3 DEF WorkflowInv, TypeOK
<1>5. /\ pc' \in [Runs -> Nodes] /\ pc'[r] = n
      /\ \A s \in Runs \ {r} : pc'[s] = pc[s]
  BY Zenon, <1>1, GotoFrame DEF Nodes
<1>6. TypeOK'
  BY ZenonT(30), <1>2, <1>4, <1>5 DEF WorkflowInv, TypeOK
<1>7. Grows
  BY SMTT(20), <1>1, <1>2, <1>4, RowTyped, RetryLimitAssumption
  DEF Grows, Granted, WorkflowInv, TypeOK
<1>8. RowInv' /\ EscalationExplained'
  BY Zenon, <1>2 DEF WorkflowInv, RowInv, OneRetry, Granted, EscalationExplained
<1>9. ResolvedWasHealed'
  BY Zenon, <1>2, <1>7 DEF WorkflowInv, ResolvedWasHealed, Grows, TypeOK
<1>10. AttemptsJustified'
  BY Zenon, <1>2, <1>3, <1>4 DEF WorkflowInv, AttemptsJustified
<1>11. RunInv(r)'
  <2>1. Attempt(r)' = a
    BY Zenon, <1>2 DEF a, Attempt
  <2> QED
    BY Zenon, <1>1, <1>2, <1>4, <1>5, <2>1 DEF WorkflowInv, RunInv, PastPlan, PastDiagnosis, Granted
<1> QED
  BY Zenon, <1>2, <1>5, <1>6, <1>7, <1>8, <1>9, <1>10, <1>11, StepKeeps

LEMMA SuccessKeeps ==
  ASSUME WorkflowInv, NEW r \in Runs, RecordSuccess(r)
  PROVE  WorkflowInv' /\ RowStep /\ row'.attempts = row.attempts
<1> USE DEF records, trials, outside
<1>1. /\ pc[r] = "executed" /\ row' = MovedFrom({"EXECUTING"}, "VERIFYING")
      /\ st' = [st EXCEPT ![r].version = VersionAfter(r, row'), ![r].attempts = Attempt(r)]
      /\ Goto(r, "verify")
      /\ UNCHANGED <<records, trials, schedules, lease, outside, faults>>
  BY DEF RecordSuccess
<1>2. /\ row' \in IncidentRow /\ row'.attempts = row.attempts
      /\ \/ row' = row
         \/ /\ row.state = "EXECUTING" /\ row'.state = "VERIFYING"
            /\ row' = AfterTransition(row, "VERIFYING")
  BY <1>1, RowTyped, Moving DEF WorkflowInv, States, IsRetry
<1>3. row.state = "EXECUTING" => TransitionAllowed(row, "VERIFYING")
  BY SMTT(20) DEF TransitionAllowed, validate_transition, TRANSITIONS, IsRetry
<1>4. RowStep
  BY Zenon, <1>2, <1>3, MovedIsStep DEF RowStep, States
<1>5. /\ pc' \in [Runs -> Nodes] /\ pc'[r] = "verify"
      /\ \A s \in Runs \ {r} : pc'[s] = pc[s]
  BY Zenon, <1>1, GotoFrame DEF Nodes
<1>6. Attempt(r) \in Attempts /\ Attempt(r) \in 1 .. row.attempts + 1
  BY <1>1, AttemptWithin, RowTyped, RetryLimitAssumption DEF Attempts, WorkflowInv
<1>7. /\ st' \in [Runs -> GraphState]
      /\ st'[r].diagnosis = st[r].diagnosis /\ st'[r].plan = st[r].plan
      /\ st'[r].attempts = Attempt(r) /\ st'[r].is_approved = st[r].is_approved
      /\ st'[r].wait_reason = st[r].wait_reason
      /\ \A s \in Runs \ {r} : st'[s] = st[s]
  <2>1. st[r] \in GraphState /\ st \in [Runs -> GraphState]
    BY Zenon DEF WorkflowInv, TypeOK
  <2>2. VersionAfter(r, row') \in Nat /\ Attempt(r) \in Nat
    BY <1>2, <1>6, NewVersion, RetryLimitAssumption DEF Attempts
  <2>3. st'[r] = [st[r] EXCEPT !.version = VersionAfter(r, row'), !.attempts = Attempt(r)]
    BY <1>1, <2>1
  <2>4. st'[r] \in GraphState
    BY Zenon, <2>1, <2>2, <2>3 DEF GraphState
  <2> QED
    BY <1>1, <2>1, <2>3, <2>4 DEF GraphState
<1>8. TypeOK'
  BY ZenonT(30), <1>1, <1>2, <1>5, <1>7 DEF WorkflowInv, TypeOK
<1>9. exec[Attempt(r)] = "SUCCEEDED"
  BY <1>1 DEF WorkflowInv, RunInv
<1>10. RunInv(r)'
  BY <1>1, <1>2, <1>5, <1>6, <1>7, <1>9 DEF WorkflowInv, RunInv, PastPlan, PastDiagnosis, Granted
<1>11. /\ Grows /\ RowInv'
       /\ EscalationExplained' /\ ResolvedWasHealed' /\ AttemptsJustified'
  BY <1>1, <1>2, MoveKeeps DEF Granted
<1> QED
  BY Zenon, <1>2, <1>4, <1>5, <1>7, <1>8, <1>10, <1>11, StepKeeps

LEMMA FailureKeeps ==
  ASSUME WorkflowInv, NEW r \in Runs, RecordFailure(r)
  PROVE  WorkflowInv' /\ RowStep /\ row'.attempts = row.attempts
<1> USE DEF records, trials, outside
<1> DEFINE via == AfterTransition(row, "FAILED")
<1>1. /\ row' \in IncidentRow /\ row'.attempts = row.attempts /\ RowStep
      /\ row' = row \/ (row.state = "EXECUTING" /\ row'.state = "ESCALATED")
  <2>1. CASE row.state = "EXECUTING"
    <3>1. via \in IncidentRow /\ via.state = "FAILED" /\ via.attempts = row.attempts
      BY ZenonT(30), <2>1, RowTyped, Written DEF WorkflowInv, States, IsRetry
    <3>2. TransitionAllowed(row, "FAILED")
      BY SMTT(20), <2>1 DEF TransitionAllowed, validate_transition, TRANSITIONS, IsRetry
    <3>3. TransitionAllowed(via, "ESCALATED")
      BY SMTT(20), <3>1 DEF TransitionAllowed, validate_transition, TRANSITIONS, IsRetry
    <3>4. row' = AfterTransition(via, "ESCALATED")
      BY Zenon, <2>1 DEF RecordFailure
    <3>5. RowStep
      BY Zenon, <3>2, <3>3, <3>4 DEF RowStep
    <3> HIDE DEF via
    <3> QED
      BY ZenonT(30), <2>1, <3>1, <3>4, <3>5, Written DEF States, IsRetry
  <2>2. CASE row.state # "EXECUTING"
    BY Zenon, <2>2, RowTyped DEF RecordFailure, RowStep, WorkflowInv
  <2> QED
    BY <2>1, <2>2
<1>2. /\ pc' \in [Runs -> Nodes] /\ pc'[r] = "escalate"
      /\ \A s \in Runs \ {r} : pc'[s] = pc[s]
  BY Zenon, GotoFrame DEF RecordFailure, Nodes
<1>3. TypeOK'
  BY Zenon, <1>1, <1>2 DEF RecordFailure, WorkflowInv, TypeOK
<1>4. RunInv(r)'
  BY Zenon, <1>1, <1>2 DEF RecordFailure, WorkflowInv, RunInv, PastPlan, PastDiagnosis, Granted
<1>5. /\ Grows /\ RowInv'
      /\ EscalationExplained' /\ ResolvedWasHealed' /\ AttemptsJustified'
  BY Zenon, <1>1, MoveKeeps DEF RecordFailure, Granted
<1> QED
  BY Zenon, <1>1, <1>2, <1>3, <1>4, <1>5, StepKeeps DEF RecordFailure

-----------------------------------------------------------------------------
(* verify_node *)

LEMMA VerifiedAttempt ==
  ASSUME WorkflowInv, NEW r \in Runs, pc[r] = "verify"
  PROVE  /\ st[r].attempts \in Attempts /\ st[r].attempts \in 1 .. row.attempts + 1
         /\ exec[st[r].attempts] = "SUCCEEDED"
         /\ st[r].plan /\ plan /\ st[r].diagnosis /\ diagnoses > 0
<1>1. row.attempts \in 0 .. RetryLimit
  BY RowTyped DEF WorkflowInv
<1>2. /\ st[r].attempts \in 1 .. row.attempts + 1 /\ exec[st[r].attempts] = "SUCCEEDED"
      /\ st[r].plan /\ plan /\ st[r].diagnosis /\ diagnoses > 0
  BY Zenon DEF WorkflowInv, RunInv, PastPlan, PastDiagnosis
<1> QED
  BY <1>1, <1>2, RetryLimitAssumption DEF Attempts

(* A verdict that ends the incident, or finds it ended *)
LEMMA VerdictKeeps ==
  ASSUME WorkflowInv, NEW r \in Runs,
         VerifyHealed(r) \/ VerifyExternal(r) \/ VerifyFailedForGood(r)
  PROVE  WorkflowInv' /\ RowStep /\ row'.attempts = row.attempts
<1> USE DEF records, trials, outside
<1>1. pc[r] = "verify"
  BY DEF VerifyHealed, VerifyExternal, VerifyFailedForGood
<1>2. PICK t \in {"RESOLVED", "ESCALATED"}, n \in {"resolve", "escalate"} :
        /\ row' = MovedFrom({"VERIFYING"}, t)
        /\ st' = [st EXCEPT ![r].version = row'.version] /\ Goto(r, n)
        /\ healed \subseteq healed' /\ healed' \subseteq healed \cup {st[r].attempts}
        /\ disproved \subseteq disproved' /\ disproved' \subseteq disproved \cup {st[r].attempts}
        /\ t = "RESOLVED" => n = "resolve" /\ st[r].attempts \in healed' /\ explained' = explained
        /\ t = "ESCALATED" => n = "escalate" /\ explained' = TRUE
        /\ UNCHANGED <<diagnoses, plan, approval, decision, exec, cooled, schedules, lease,
                       outside, faults>>
  <2>1. CASE VerifyHealed(r)
    BY <2>1 DEF VerifyHealed
  <2>2. CASE VerifyExternal(r)
    BY Zenon, <2>2 DEF VerifyExternal
  <2>3. CASE VerifyFailedForGood(r)
    BY Zenon, <2>3 DEF VerifyFailedForGood
  <2> QED
    BY Zenon, <2>1, <2>2, <2>3
<1>3. /\ row' \in IncidentRow /\ row'.attempts = row.attempts
      /\ \/ row' = row
         \/ /\ row.state = "VERIFYING" /\ row'.state = t
            /\ row' = AfterTransition(row, t)
  BY <1>2, RowTyped, Moving DEF WorkflowInv, States, IsRetry
<1>4. row.state = "VERIFYING" => TransitionAllowed(row, t)
  BY SMTT(20) DEF TransitionAllowed, validate_transition, TRANSITIONS, IsRetry
<1>5. RowStep
  BY Zenon, <1>3, <1>4, MovedIsStep DEF RowStep, States
<1>6. /\ pc' \in [Runs -> Nodes] /\ pc'[r] = n
      /\ \A s \in Runs \ {r} : pc'[s] = pc[s]
  BY <1>2, GotoFrame DEF Nodes
<1>7. /\ st' \in [Runs -> GraphState]
      /\ st'[r].diagnosis = st[r].diagnosis /\ st'[r].plan = st[r].plan
      /\ st'[r].attempts = st[r].attempts /\ st'[r].is_approved = st[r].is_approved
      /\ st'[r].wait_reason = st[r].wait_reason
      /\ \A s \in Runs \ {r} : st'[s] = st[s]
  BY Zenon, <1>2, <1>3, NewVersion, VersionFrame
<1>8. /\ st[r].attempts \in Attempts /\ exec[st[r].attempts] = "SUCCEEDED"
      /\ st[r].plan /\ plan /\ st[r].diagnosis /\ diagnoses > 0
  BY Zenon, <1>1, VerifiedAttempt
<1>9. explained' \in BOOLEAN /\ (explained => explained')
  <2>1. explained \in BOOLEAN /\ (explained' = explained \/ explained' = TRUE)
    BY <1>2 DEF WorkflowInv, TypeOK
  <2> QED
    BY <2>1, Zenon
<1>10. TypeOK'
  BY ZenonT(30), <1>2, <1>3, <1>6, <1>7, <1>8, <1>9 DEF WorkflowInv, TypeOK
<1>11. RunInv(r)'
  <2>1. st'[r].wait_reason = "AWAITING_APPROVAL" => plan' /\ row'.state # "PLANNED"
    BY <1>2, <1>3, <1>7 DEF WorkflowInv, RunInv
  <2>2. st'[r].is_approved => Granted'
    BY Zenon, <1>2, <1>7 DEF WorkflowInv, RunInv, Granted
  <2>3. pc'[r] = "resolve" => \E a \in healed' : exec'[a] = "SUCCEEDED"
    BY <1>2, <1>6, <1>8
  <2>4. pc'[r] = "escalate" => explained'
    BY <1>2, <1>6
  <2> QED
    BY <1>2, <1>6, <1>7, <1>8, <2>1, <2>2, <2>3, <2>4 DEF RunInv, PastPlan, PastDiagnosis
<1>12. /\ Grows /\ RowInv'
       /\ EscalationExplained' /\ ResolvedWasHealed' /\ AttemptsJustified'
  BY <1>2, <1>3, <1>8, <1>9, MoveKeeps DEF Granted
<1> QED
  BY Zenon, <1>3, <1>5, <1>6, <1>7, <1>10, <1>11, <1>12, StepKeeps

LEMMA RetryKeeps ==
  ASSUME WorkflowInv, NEW r \in Runs, VerifyFailedRetry(r)
  PROVE  WorkflowInv' /\ RowStep
<1> USE DEF records, trials, outside
<1>1. /\ pc[r] = "verify" /\ is_retry_eligible
      /\ row' = MovedFrom({"VERIFYING"}, "DIAGNOSED")
      /\ disproved' = disproved \cup {st[r].attempts}
      /\ Schedule("COOLDOWN", row'.version, row'.attempts)
      /\ st' = [st EXCEPT ![r].version = row'.version, ![r].attempts = row'.attempts,
                          ![r].wait_reason = "COOLDOWN"]
      /\ Goto(r, "end")
      /\ UNCHANGED <<records, exec, healed, cooled, lease, outside, faults>>
  BY DEF VerifyFailedRetry, schedule_retry_cooldown
<1>2. /\ row' \in IncidentRow /\ row'.version \in Nat /\ row'.attempts \in Nat
      /\ \/ row' = row
         \/ /\ row.state = "VERIFYING" /\ row'.state = "DIAGNOSED"
            /\ row' = AfterTransition(row, "DIAGNOSED") /\ row'.attempts = row.attempts + 1
  <2>1. /\ row' \in IncidentRow
        /\ \/ row' = row
           \/ /\ row.state = "VERIFYING" /\ row'.state = "DIAGNOSED"
              /\ row' = AfterTransition(row, "DIAGNOSED") /\ row'.attempts = row.attempts + 1
    BY <1>1, RowTyped, Moving DEF WorkflowInv, States, IsRetry
  <2> QED
    BY <2>1, RetryLimitAssumption DEF IncidentRow
<1>3. row.state = "VERIFYING" => TransitionAllowed(row, "DIAGNOSED")
  BY <1>1 DEF TransitionAllowed, validate_transition, TRANSITIONS, IsRetry, is_retry_eligible
<1>4. RowStep
  BY Zenon, <1>2, <1>3, MovedIsStep DEF RowStep, States
<1>5. /\ pc' \in [Runs -> Nodes] /\ pc'[r] = "end"
      /\ \A s \in Runs \ {r} : pc'[s] = pc[s]
  BY Zenon, <1>1, GotoFrame DEF Nodes
<1>6. /\ st' \in [Runs -> GraphState]
      /\ st'[r].diagnosis = st[r].diagnosis /\ st'[r].plan = st[r].plan
      /\ st'[r].is_approved = st[r].is_approved
      /\ st'[r].wait_reason = "COOLDOWN"
      /\ \A s \in Runs \ {r} : st'[s] = st[s]
  <2>1. st[r] \in GraphState /\ st \in [Runs -> GraphState]
    BY Zenon DEF WorkflowInv, TypeOK
  <2>2. st'[r] = [st[r] EXCEPT !.version = row'.version, !.attempts = row'.attempts,
                               !.wait_reason = "COOLDOWN"]
    BY <1>1, <2>1
  <2>3. st'[r] \in GraphState
    BY Zenon, <1>2, <2>1, <2>2 DEF GraphState
  <2> QED
    BY <1>1, <2>1, <2>2, <2>3 DEF GraphState
<1>7. schedules' \subseteq Schedules
  BY <1>1, <1>2, ScheduleTyped DEF WorkflowInv
<1>8. /\ st[r].attempts \in Attempts /\ st[r].attempts \in 1 .. row.attempts + 1
      /\ st[r].plan /\ plan /\ st[r].diagnosis /\ diagnoses > 0
  BY <1>1, VerifiedAttempt
<1>9. TypeOK'
  BY Zenon, <1>1, <1>2, <1>5, <1>6, <1>7, <1>8 DEF WorkflowInv, TypeOK
<1>10. RunInv(r)'
  <2>1. st'[r].is_approved => Granted'
    BY Zenon, <1>1, <1>6 DEF WorkflowInv, RunInv, Granted
  <2> QED
    BY <1>1, <1>5, <1>6, <1>8, <2>1 DEF RunInv, PastPlan, PastDiagnosis
<1>11. row.state = "VERIFYING" => row.attempts = 0 /\ 1 \in disproved'
  BY <1>1, <1>8, RowTyped, RetryLimitAssumption DEF WorkflowInv, RowInv, OneRetry
<1>12. Grows
  BY <1>1, <1>2, RowTyped DEF Grows, WorkflowInv, TypeOK, Granted
<1>13. RowInv' /\ EscalationExplained' /\ ResolvedWasHealed'
  <2>1. CASE row' = row
    BY Zenon, <1>1, <2>1 DEF WorkflowInv, RowInv, OneRetry, Granted, EscalationExplained,
                      ResolvedWasHealed
  <2>2. CASE row.state = "VERIFYING" /\ row'.state = "DIAGNOSED"
                                     /\ row'.attempts = row.attempts + 1
    BY <1>1, <1>8, <1>11, <2>2 DEF RowInv, OneRetry, EscalationExplained, ResolvedWasHealed
  <2> QED
    BY Zenon, <1>2, <2>1, <2>2
<1>14. AttemptsJustified'
  <2>1. row'.attempts >= row.attempts /\ row.attempts \in Nat
    BY <1>2, RowTyped, RetryLimitAssumption DEF WorkflowInv
  <2> QED
    BY <1>1, <1>2, <2>1, RetryLimitAssumption DEF WorkflowInv, AttemptsJustified, Attempts
<1> QED
  BY Zenon, <1>4, <1>5, <1>6, <1>9, <1>10, <1>12, <1>13, <1>14, StepKeeps

-----------------------------------------------------------------------------
(* The end of a run *)

LEMMA SettleKeeps ==
  ASSUME WorkflowInv, NEW r \in Runs, resolve_node(r) \/ escalate_node(r)
  PROVE  WorkflowInv' /\ RowStep /\ row'.attempts = row.attempts
<1> USE DEF records, trials, outside
<1>1. PICK n \in {"resolve", "escalate"} :
        LET t == IF n = "resolve" THEN "RESOLVED" ELSE "ESCALATED" IN Settle(r, n, t)
  BY DEF resolve_node, escalate_node
<1> DEFINE t == IF n = "resolve" THEN "RESOLVED" ELSE "ESCALATED"
<1>2. /\ pc[r] = n /\ Goto(r, "end") /\ (t = "RESOLVED" <=> n = "resolve")
      /\ t \in {"RESOLVED", "ESCALATED"}
      /\ \/ row' = row
         \/ TransitionAllowed(row, t) /\ row' = AfterTransition(row, t)
      /\ UNCHANGED <<records, trials, schedules, lease, outside, faults, st>>
  BY Zenon, <1>1 DEF Settle
<1> HIDE DEF t
<1>3. RowStep
  BY Zenon, <1>2, MovedIsStep DEF RowStep, States
<1>4. /\ row' \in IncidentRow /\ row'.attempts = row.attempts
      /\ \/ row' = row
         \/ TransitionAllowed(row, t) /\ row'.state = t
  BY SMTT(20), <1>2, RowTyped, Written DEF WorkflowInv, States, IsRetry
<1>5. TransitionAllowed(row, t) =>
        /\ row.state # "DETECTED" /\ row.state # "ESCALATED"
        /\ t = "RESOLVED" => row.state = "VERIFYING"
  BY SMTT(20), <1>2, RowTyped
  DEF WorkflowInv, TransitionAllowed, validate_transition, TRANSITIONS, States
<1>6. /\ n = "resolve" => \E a \in healed : exec[a] = "SUCCEEDED"
      /\ n = "escalate" => explained
      /\ st[r].diagnosis /\ diagnoses > 0
  BY Zenon, <1>2 DEF WorkflowInv, RunInv, PastPlan, PastDiagnosis
<1>7. row.state \notin {"DETECTED", "TRIAGED"}
  BY <1>6 DEF WorkflowInv, RowInv
<1>8. /\ pc' \in [Runs -> Nodes] /\ pc'[r] = "end"
      /\ \A s \in Runs \ {r} : pc'[s] = pc[s]
  BY Zenon, <1>2, GotoFrame DEF Nodes
<1>9. TypeOK'
  BY Zenon, <1>2, <1>4, <1>8 DEF WorkflowInv, TypeOK
<1>10. RunInv(r)'
  BY Zenon, <1>2, <1>4, <1>6, <1>8 DEF WorkflowInv, RunInv, PastPlan, PastDiagnosis, Granted
<1>11. /\ Grows /\ RowInv'
       /\ EscalationExplained' /\ ResolvedWasHealed' /\ AttemptsJustified'
  BY Zenon, <1>2, <1>4, <1>5, <1>6, <1>7, MoveKeeps DEF Granted
<1> QED
  BY Zenon, <1>4, <1>2, <1>3, <1>8, <1>9, <1>10, <1>11, StepKeeps

(* An approval wait is scheduled for an incident that has left PLANNED: the *)
(* transition run_incident would still make has been made.                  *)
LEMMA FinishKeeps ==
  ASSUME WorkflowInv, NEW r \in Runs, Finish(r)
  PROVE  WorkflowInv' /\ row' = row
<1> USE DEF records, trials, outside
<1>1. st[r].wait_reason = "AWAITING_APPROVAL" => row.state # "PLANNED"
  BY Zenon DEF WorkflowInv, RunInv
<1>2. row' = row
  BY Zenon, <1>1 DEF Finish, MovedFrom
<1>3. schedules' \subseteq Schedules
  <2>1. CASE st[r].wait_reason = "AWAITING_APPROVAL"
    <3>1. PICK new \in IncidentRow : Schedule("AWAITING_APPROVAL", VersionAfter(r, new), 0)
      BY Zenon, <1>1, <2>1, RowTyped DEF Finish, MovedFrom, WorkflowInv
    <3> QED
      BY Zenon, <3>1, NewVersion, ScheduleTyped DEF WorkflowInv
  <2>2. CASE st[r].wait_reason # "AWAITING_APPROVAL"
    BY Zenon, <2>2 DEF Finish, WorkflowInv, TypeOK
  <2> QED
    BY <2>1, <2>2
<1>4. TypeOK'
  BY Zenon, <1>2, <1>3, StopTyped, LeaseTyped DEF Finish, WorkflowInv, TypeOK
<1> QED
  BY Zenon, <1>2, <1>4, StopKeeps DEF Finish

LEMMA ExceptionKeeps ==
  ASSUME WorkflowInv, NEW r \in Runs, Raise(r) \/ Fail(r)
  PROVE  WorkflowInv' /\ row' = row
<1> USE DEF records, trials, outside
<1>1. /\ lease' = Released(r) /\ Stop(r)
      /\ UNCHANGED <<row, records, trials, schedules, outside>>
  BY Zenon DEF Raise, Fail
<1>2. faults' \in 0 .. FaultLimit
  BY SMTT(20), WorkflowAssumption DEF Raise, Fail, WorkflowInv, TypeOK
<1>3. TypeOK'
  BY Zenon, <1>1, <1>2, StopTyped, LeaseTyped DEF WorkflowInv, TypeOK
<1> QED
  BY Zenon, <1>1, <1>3, StopKeeps

LEMMA CrashKeeps ==
  ASSUME WorkflowInv, NEW w \in Workers, Crash(w)
  PROVE  WorkflowInv' /\ row' = row
<1> USE DEF records, trials, outside
<1> DEFINE hit == {r \in Runs : OwnerOf[r] = w}
<1>1. /\ pc' = [r \in Runs |-> IF r \in hit THEN "idle" ELSE pc[r]]
      /\ st' = [r \in Runs |-> IF r \in hit THEN NoState ELSE st[r]]
      /\ UNCHANGED <<row, records, trials, inbox, mode, confidence, told, undercut>>
  BY DEF Crash
<1> HIDE DEF hit
<1>2. faults' \in 0 .. FaultLimit
  BY WorkflowAssumption DEF Crash, WorkflowInv, TypeOK
<1>3. pc' \in [Runs -> Nodes]
  BY Zenon, <1>1 DEF WorkflowInv, TypeOK, Nodes
<1>4. st' \in [Runs -> GraphState]
  <2>1. NoState \in GraphState
    BY Zenon DEF NoState, GraphState, Decisions
  <2> QED
    BY Zenon, <1>1, <2>1 DEF WorkflowInv, TypeOK
<1>5. lease' \in [token : Runs \cup {Nobody}, owner : Workers \cup {Nobody}, live : BOOLEAN]
  BY DEF Crash, WorkflowInv, TypeOK
<1>6. seen' \in [Workers -> SUBSET Nat]
  BY DEF Crash, WorkflowInv, TypeOK
<1>7. schedules' \subseteq Schedules
  <2>1. CASE UNCHANGED schedules
    BY Zenon, <2>1 DEF WorkflowInv, TypeOK
  <2>2. CASE is_retry_eligible /\ schedule_retry_cooldown(MovedFrom({"VERIFYING"}, "DIAGNOSED"))
    <3>1. MovedFrom({"VERIFYING"}, "DIAGNOSED") \in IncidentRow
      BY Zenon, <2>2, RowTyped, Moving DEF WorkflowInv, States
    <3>2. /\ MovedFrom({"VERIFYING"}, "DIAGNOSED").version \in Nat
          /\ MovedFrom({"VERIFYING"}, "DIAGNOSED").attempts \in Nat
      BY <3>1, RetryLimitAssumption DEF IncidentRow
    <3> QED
      BY Zenon, <2>2, <3>2, ScheduleTyped DEF schedule_retry_cooldown, WorkflowInv
  <2> QED
    BY <2>1, <2>2 DEF Crash
<1>8. TypeOK'
  BY Zenon, <1>1, <1>2, <1>3, <1>4, <1>5, <1>6, <1>7 DEF WorkflowInv, TypeOK
<1>9. /\ Grows /\ RowInv'
      /\ EscalationExplained' /\ ResolvedWasHealed' /\ AttemptsJustified'
  BY Zenon, <1>1, QuietKeeps
<1>10. \A s \in Runs : RunInv(s)'
  <2>1. row'.attempts \in Nat
    BY SMTT(20), <1>8, RetryLimitAssumption DEF TypeOK, IncidentRow
  <2> TAKE s \in Runs
  <2>2. CASE s \in hit
    <3>1. pc'[s] = "idle" /\ st'[s] = NoState
      BY Zenon, <1>1, <2>2
    <3> QED
      BY Zenon, <2>1, <3>1, IdleKnows
  <2>3. CASE s \notin hit
    <3>1. pc'[s] = pc[s] /\ st'[s] = st[s]
      BY Zenon, <1>1, <2>3
    <3> QED
      BY Zenon, <1>8, <1>9, <3>1, OthersKeep DEF WorkflowInv
  <2> QED
    BY <2>2, <2>3
<1> QED
  BY Zenon, <1>1, <1>8, <1>9, <1>10 DEF WorkflowInv

-----------------------------------------------------------------------------
(* Approvers, operators and time *)

LEMMA ApprovalKeeps ==
  ASSUME WorkflowInv, Approve \/ Reject
  PROVE  WorkflowInv' /\ RowStep /\ row'.attempts = row.attempts
<1> USE DEF records, trials, outside
<1>1. row.state = "PENDING_APPROVAL" /\ plan /\ approval = "none"
  BY Zenon DEF Approve, Reject, CanDecide
<1>2. PICK t \in {"APPROVED", "ESCALATED"} :
        /\ row' = AfterTransition(row, t)
        /\ approval' = (IF t = "APPROVED" THEN "APPROVE" ELSE "REJECT")
        /\ explained' = explained \/ explained' = TRUE
        /\ t = "ESCALATED" => explained' = TRUE
        /\ inbox' = inbox \/ inbox' = inbox \cup {<<"outbox", row'.version>>}
        /\ UNCHANGED <<diagnoses, plan, decision, trials, schedules, lease, seen, mode,
                       confidence, told, undercut, faults, pc, st>>
  BY Zenon DEF Approve, Reject
<1>3. /\ row' \in IncidentRow /\ row'.attempts = row.attempts /\ row'.state = t
      /\ row'.version \in Nat
  <2>1. row' \in IncidentRow /\ row'.attempts = row.attempts /\ row'.state = t
    BY SMTT(20), <1>1, <1>2, RowTyped, Written DEF WorkflowInv, States, IsRetry
  <2> QED
    BY Zenon, <2>1 DEF IncidentRow
<1>4. TransitionAllowed(row, t)
  BY SMTT(20), <1>1 DEF TransitionAllowed, validate_transition, TRANSITIONS, IsRetry
<1>5. RowStep
  BY Zenon, <1>2, <1>4, MovedIsStep DEF States
<1>6. inbox' \subseteq {"webhook", "outbox"} \X Nat
  BY SMTT(20), <1>2, <1>3 DEF WorkflowInv, TypeOK
<1>7. explained' \in BOOLEAN /\ (explained => explained')
  <2>1. explained \in BOOLEAN /\ (explained' = explained \/ explained' = TRUE)
    BY Zenon, <1>2 DEF WorkflowInv, TypeOK
  <2> QED
    BY <2>1, Zenon
<1>8. TypeOK'
  BY Zenon, <1>2, <1>3, <1>6, <1>7 DEF WorkflowInv, TypeOK
<1>9. ~Granted /\ (t = "APPROVED" => Granted')
  BY Zenon, <1>1, <1>2 DEF Granted
<1>10. /\ Grows /\ RowInv'
       /\ EscalationExplained' /\ ResolvedWasHealed' /\ AttemptsJustified'
  BY Zenon, <1>1, <1>2, <1>3, <1>7, <1>9, MoveKeeps
<1> QED
  BY Zenon, <1>3, <1>2, <1>5, <1>8, <1>10, ResidentKeeps

LEMMA GrantExpiresKeeps ==
  ASSUME WorkflowInv, GrantExpires
  PROVE  WorkflowInv' /\ row' = row
<1> USE DEF records, trials, outside
<1>1. Granted /\ Granted'
  BY Zenon DEF GrantExpires, Granted
<1>2. TypeOK'
  BY Zenon DEF GrantExpires, WorkflowInv, TypeOK
<1>3. /\ Grows /\ RowInv'
      /\ EscalationExplained' /\ ResolvedWasHealed' /\ AttemptsJustified'
  BY Zenon, <1>1, RowTyped, MoveKeeps DEF GrantExpires, WorkflowInv
<1> QED
  BY Zenon, <1>2, <1>3, ResidentKeeps DEF GrantExpires

LEMMA ComesDueKeeps ==
  ASSUME WorkflowInv, NEW s \in schedules, ComesDue(s)
  PROVE  WorkflowInv' /\ row' = row
<1> USE DEF records, trials, outside
<1>1. /\ schedules' = {[t EXCEPT !.behind = IF s.reason = "COOLDOWN" THEN @ \ {s.version} ELSE @] :
                         t \in schedules \ {s}} \cup {[s EXCEPT !.due = TRUE]}
      /\ cooled' = IF s.reason = "COOLDOWN" THEN cooled \cup {s.previous_attempt} ELSE cooled
      /\ UNCHANGED <<row, records, exec, healed, disproved, lease, outside, faults, pc, st>>
  BY DEF ComesDue
<1>2. s \in Schedules /\ s.previous_attempt \in Nat /\ schedules \subseteq Schedules
  BY Zenon DEF WorkflowInv, TypeOK, Schedules
<1>3. cooled' \subseteq Nat
  BY <1>1, <1>2 DEF WorkflowInv, TypeOK
<1>4. [s EXCEPT !.due = TRUE] \in Schedules
  BY Zenon, <1>2 DEF Schedules
<1>5. \A t \in Schedules :
        [t EXCEPT !.behind = IF s.reason = "COOLDOWN" THEN @ \ {s.version} ELSE @] \in Schedules
  <2> TAKE t \in Schedules
  <2> DEFINE b == IF s.reason = "COOLDOWN" THEN t.behind \ {s.version} ELSE t.behind
  <2>1. b \in SUBSET Nat
    BY DEF Schedules
  <2> HIDE DEF b
  <2>2. [t EXCEPT !.behind = b] \in Schedules
    BY <2>1 DEF Schedules
  <2> QED
    BY <2>2 DEF b
<1>6. schedules' \subseteq Schedules
  BY Zenon, <1>1, <1>2, <1>4, <1>5
<1>7. TypeOK'
  BY <1>1, <1>3, <1>6 DEF WorkflowInv, TypeOK
<1>8. /\ Grows /\ RowInv'
      /\ EscalationExplained' /\ ResolvedWasHealed' /\ AttemptsJustified'
  BY <1>1, QuietKeeps
<1> QED
  BY <1>1, <1>7, <1>8, ResidentKeeps

LEMMA OutsideKeeps ==
  ASSUME WorkflowInv,
         \/ DecideLate \/ (\E m \in Modes : SetMode(m))
         \/ LeaseExpires \/ cleanup_expired_leases \/ UNCHANGED vars
  PROVE  WorkflowInv' /\ row' = row
<1> USE DEF records, trials, outside
<1>1. UNCHANGED <<row, records, trials, schedules, inbox, seen, confidence, faults, pc, st>>
  BY DEF DecideLate, SetMode, LeaseExpires, cleanup_expired_leases, vars
<1>2. told' \in BOOLEAN /\ undercut' \in BOOLEAN /\ mode' \in Modes
  BY Zenon DEF DecideLate, SetMode, LeaseExpires, cleanup_expired_leases, vars, WorkflowInv, TypeOK
<1>3. lease' \in [token : Runs \cup {Nobody}, owner : Workers \cup {Nobody}, live : BOOLEAN]
  <2>1. CASE LeaseExpires
    BY Zenon, <2>1 DEF LeaseExpires, WorkflowInv, TypeOK
  <2>2. CASE cleanup_expired_leases
    BY Zenon, <2>2 DEF cleanup_expired_leases, NoLease
  <2>3. CASE UNCHANGED lease
    BY Zenon, <2>3 DEF WorkflowInv, TypeOK
  <2> QED
    BY Zenon, <2>1, <2>2, <2>3 DEF DecideLate, SetMode, vars
<1>4. TypeOK'
  BY Zenon, <1>1, <1>2, <1>3 DEF WorkflowInv, TypeOK
<1>5. /\ Grows /\ RowInv'
      /\ EscalationExplained' /\ ResolvedWasHealed' /\ AttemptsJustified'
  BY Zenon, <1>1, QuietKeeps
<1> QED
  BY Zenon, <1>1, <1>4, <1>5, ResidentKeeps

-----------------------------------------------------------------------------
(* The invariant and what follows from it *)

LEMMA AdvanceKeeps ==
  ASSUME WorkflowInv, NEW r \in Runs, Advance(r)
  PROVE  /\ WorkflowInv' /\ RowStep
         /\ row'.attempts = row.attempts \/ VerifyFailedRetry(r)
<1>1. CASE Sweep(r) \/ AcquireLease(r) \/ VerifyLease(r)
  <2>1. row' = row
    BY Zenon, <1>1 DEF Sweep, run_incident, AcquireLease, VerifyLease
  <2> QED
    BY Zenon, <1>1, <2>1, LeasingKeeps DEF RowStep
<1>2. CASE collect_evidence_node(r) \/ diagnose_node(r) \/ plan_node(r) \/ RecordDecision(r)
  BY Zenon, <1>2, EvidenceKeeps, DiagnoseKeeps, PlanKeeps, DecisionKeeps
<1>3. CASE SkipDiagnosis(r) \/ SkipPlanning(r) \/ evaluate_policy_node(r) \/ PrecheckPasses(r)
  BY Zenon, <1>3, PassingKeeps DEF RowStep
<1>4. CASE PrecheckFails(r) \/ Dispatch(r) \/ RecordSuccess(r) \/ RecordFailure(r)
  BY Zenon, <1>4, PrecheckFailsKeeps, DispatchKeeps, SuccessKeeps, FailureKeeps
<1>5. CASE ExecuteNew(r) \/ ExecuteAgain(r) \/ ExecuteFinish(r)
  BY Zenon, <1>5, ExecuteKeeps DEF RowStep
<1>6. CASE VerifyHealed(r) \/ VerifyExternal(r) \/ VerifyFailedForGood(r)
  BY Zenon, <1>6, VerdictKeeps
<1>7. CASE VerifyFailedRetry(r)
  BY Zenon, <1>7, RetryKeeps
<1>8. CASE resolve_node(r) \/ escalate_node(r)
  BY Zenon, <1>8, SettleKeeps
<1>9. CASE Finish(r) \/ Raise(r)
  BY Zenon, <1>9, FinishKeeps, ExceptionKeeps DEF RowStep
<1> QED
  BY Zenon, <1>1, <1>2, <1>3, <1>4, <1>5, <1>6, <1>7, <1>8, <1>9 DEF Advance

LEMMA WorkflowStep ==
  ASSUME WorkflowInv, [Next]_vars
  PROVE  WorkflowInv' /\ RowStep
<1>1. CASE \E r \in Runs : Start(r)
  <2>1. row' = row
    BY <1>1 DEF Start, Deliver, Deduplicate, Wake, ListStuck, run_incident
  <2> QED
    BY Zenon, <1>1, <2>1, StartKeeps DEF RowStep
<1>2. CASE \E r \in Runs : Advance(r)
  BY Zenon, <1>2, AdvanceKeeps
<1>3. CASE \E r \in Runs : Fail(r)
  BY Zenon, <1>3, ExceptionKeeps DEF RowStep
<1>4. CASE \E w \in Workers : Crash(w)
  BY Zenon, <1>4, CrashKeeps DEF RowStep
<1>5. CASE Approve \/ Reject
  BY Zenon, <1>5, ApprovalKeeps
<1>6. CASE GrantExpires
  BY Zenon, <1>6, GrantExpiresKeeps DEF RowStep
<1>7. CASE SomeScheduleComesDue
  BY Zenon, <1>7, ComesDueKeeps DEF RowStep, SomeScheduleComesDue
<1>8. CASE \/ DecideLate \/ (\E m \in Modes : SetMode(m))
           \/ LeaseExpires \/ cleanup_expired_leases \/ UNCHANGED vars
  BY Zenon, <1>8, OutsideKeeps DEF RowStep
<1> QED
  BY Zenon, <1>1, <1>2, <1>3, <1>4, <1>5, <1>6, <1>7, <1>8 DEF Next

LEMMA WorkflowStart == Init => WorkflowInv
<1> SUFFICES ASSUME Init PROVE WorkflowInv
  OBVIOUS
<1>1. /\ row \in IncidentRow /\ row.state = "DETECTED" /\ row.attempts = 0
  BY SMTT(20), RetryLimitAssumption DEF Init, NewIncident, IncidentRow, States
<1>2. st \in [Runs -> GraphState] /\ lease \in
        [token : Runs \cup {Nobody}, owner : Workers \cup {Nobody}, live : BOOLEAN]
  BY Zenon DEF Init, NoState, GraphState, Decisions, NoLease
<1>3. /\ diagnoses = 0 /\ plan = FALSE /\ approval = "none" /\ decision = "none"
      /\ explained = FALSE /\ exec = [a \in Attempts |-> "none"] /\ healed = {}
      /\ disproved = {} /\ cooled = {} /\ schedules = {}
      /\ inbox = {"webhook", "outbox"} \X {1} /\ seen = [w \in Workers |-> {}]
      /\ mode \in Modes /\ confidence \in Confidences /\ told = FALSE
      /\ undercut = FALSE /\ faults = 0
      /\ pc = [r \in Runs |-> "idle"] /\ st = [r \in Runs |-> NoState]
  BY Zenon DEF Init
<1>4. TypeOK /\ RowInv /\ EscalationExplained /\ ResolvedWasHealed
  <2>1. inbox \subseteq {"webhook", "outbox"} \X Nat
    BY <1>3
  <2>2. 0 \in 0 .. FaultLimit
    BY WorkflowAssumption
  <2>3. TypeOK
    <3>1. exec \in [Attempts -> {"none", "RUNNING", "SUCCEEDED", "FAILED"}]
      BY Zenon, <1>3
    <3>2. seen \in [Workers -> SUBSET Nat] /\ pc \in [Runs -> Nodes]
      BY Zenon, <1>3 DEF Nodes
    <3>3. plan \in BOOLEAN /\ explained \in BOOLEAN /\ told \in BOOLEAN
          /\ undercut \in BOOLEAN
      BY <1>3, Zenon
    <3>4. /\ diagnoses \in 0 .. 2 /\ approval \in {"none", "APPROVE", "EXPIRED", "REJECT"}
          /\ decision \in Decisions /\ faults \in 0 .. FaultLimit
      BY <1>3, <2>2 DEF Decisions
    <3>5. /\ healed \subseteq Attempts /\ disproved \subseteq Attempts /\ cooled \subseteq Nat
          /\ schedules \subseteq Schedules
      BY Zenon, <1>3
    <3> QED
      BY Zenon, <1>1, <1>2, <1>3, <2>1, <3>1, <3>2, <3>3, <3>4, <3>5 DEF TypeOK
  <2>4. RowInv
    BY <1>1, <1>3 DEF RowInv, OneRetry
  <2> QED
    BY Zenon, <1>1, <2>3, <2>4 DEF EscalationExplained, ResolvedWasHealed
<1>5. AttemptsJustified
  BY Zenon DEF Init, AttemptsJustified
<1>6. \A r \in Runs : RunInv(r)
  BY SMTT(20), <1>1, <1>3 DEF RunInv, NoState, PastPlan, PastDiagnosis
<1> QED
  BY <1>4, <1>5, <1>6 DEF WorkflowInv

(* What the runs of run_incident, the approvers and the operators keep     *)
(* between them, and what the theorems below rest on.                      *)
THEOREM WorkflowInvariance == Spec => []WorkflowInv
BY WorkflowStart, WorkflowStep, PTL DEF Spec

(* Every record the workflow keeps has its type, whatever fails or crashes. *)
THEOREM WorkflowTyped == Spec => []TypeOK
<1>1. WorkflowInv => TypeOK
  BY DEF WorkflowInv
<1> QED
  BY <1>1, WorkflowInvariance, PTL

(* Whichever node, run or approver escalates the incident, it has left an  *)
(* escalation record.                                                      *)
THEOREM EscalationsAreExplained == Spec => []EscalationExplained
<1>1. WorkflowInv => EscalationExplained
  BY DEF WorkflowInv
<1> QED
  BY <1>1, WorkflowInvariance, PTL

(* RESOLVED stands for a restart that succeeded and whose verification     *)
(* passed, however verify_node and resolve_node are reached.               *)
THEOREM ResolutionsAreHealed == Spec => []ResolvedWasHealed
<1>1. WorkflowInv => ResolvedWasHealed
  BY DEF WorkflowInv
<1> QED
  BY <1>1, WorkflowInvariance, PTL

(* An attempt is asked for only within the budget and after the one before *)
(* was verified and failed, though runs share the incident.                *)
THEOREM AttemptsAreJustified == Spec => []AttemptsJustified
<1>1. WorkflowInv => AttemptsJustified
  BY DEF WorkflowInv
<1> QED
  BY <1>1, WorkflowInvariance, PTL

(* Whatever retry_limit allows, verify_node counts one retry at most: the  *)
(* plan it would need to execute again is never made a second time.        *)
THEOREM OneRetryIsCounted == Spec => [](row.attempts <= 1)
<1>1. WorkflowInv => row.attempts <= 1
  <2> SUFFICES ASSUME WorkflowInv PROVE row.attempts <= 1
    OBVIOUS
  <2>1. row.attempts \in 0 .. RetryLimit
    BY RowTyped DEF WorkflowInv
  <2>2. row.attempts > 0 => row.attempts = 1
    BY Zenon DEF WorkflowInv, RowInv, OneRetry
  <2> QED
    BY <2>1, <2>2, RetryLimitAssumption
<1> QED
  BY <1>1, WorkflowInvariance, PTL

(* IncidentRecord's instance of the rules is the same rules. *)
LEMMA SameRules ==
  /\ \A b : Record!NewIncident(b) = NewIncident(b)
  /\ \A q, t : /\ Record!TransitionAllowed(q, t) <=> TransitionAllowed(q, t)
               /\ Record!AfterTransition(q, t) = AfterTransition(q, t)
  /\ \A q : /\ Record!ApprovalRequirable(q) <=> ApprovalRequirable(q)
            /\ Record!AfterRequireApproval(q) = AfterRequireApproval(q)
  /\ Record!States = States
BY DEF Record!NewIncident, NewIncident, Record!States, States,
       Record!TransitionAllowed, TransitionAllowed,
       Record!validate_transition, validate_transition,
       Record!TRANSITIONS, TRANSITIONS, Record!IsRetry, IsRetry,
       Record!AfterTransition, AfterTransition, Record!AfterUpdate, AfterUpdate,
       Record!ApprovalRequirable, ApprovalRequirable,
       Record!AfterRequireApproval, AfterRequireApproval

(* Every write of the workflow, its approvers and its recovery is a legal  *)
(* transaction on the incident row, for any runs and any retry limit.      *)
THEOREM WorkflowRefinesRecord == Spec => ImplementsRecord
<1>1. Init => Record!Init
  BY Zenon, SameRules DEF Init, Record!Init
<1>2. WorkflowInv /\ [Next]_vars => [Record!Next]_row
  <2> SUFFICES ASSUME WorkflowInv, [Next]_vars PROVE Record!Next \/ UNCHANGED row
    OBVIOUS
  <2>1. RowStep
    BY WorkflowStep
  <2> QED
    BY Zenon, <2>1, SameRules DEF RowStep, Record!Next, Record!Transition, Record!TransitionTwice,
                           Record!RequireApprovalAndRoute
<1> QED
  BY <1>1, <1>2, WorkflowInvariance, PTL DEF Spec, ImplementsRecord, Record!Spec

-----------------------------------------------------------------------------
(* The lease.  Until a run at work loses its lease, one run at a time is   *)
(* in the graph; what it has read stays true while it is there, and what a *)
(* run has read before it got the lease is still true if the version is.   *)

LeaseHeld(r) ==
  pc[r] \in InGraph \cup {"leased"} =>
    lease.token = r /\ lease.live /\ lease.owner = OwnerOf[r]

FreshDiagnosis(r) ==
  /\ pc[r] \in {"leasing", "leased"} =>
       /\ st[r].version <= row.version
       /\ st[r].version = row.version /\ ~st[r].diagnosis => diagnoses = 0
  /\ pc[r] \in {"collect_evidence", "diagnose"} /\ ~st[r].diagnosis => diagnoses = 0

ApprovalKnown(r) ==
  row.approval_required =>
    /\ pc[r] = "decided" => st[r].policy_decision \in {"REQUIRE_APPROVAL", "DENY"}
    /\ pc[r] \in {"precheck", "dispatch", "execute"} => Granted

Alone(r) == LeaseHeld(r) /\ FreshDiagnosis(r) /\ ApprovalKnown(r)

AloneInv == OneDiagnosis /\ \A r \in Runs : Alone(r)

(* A write makes the version grow. *)
LEMMA VersionGrows ==
  ASSUME TypeOK, RowStep
  PROVE  row' = row \/ row'.version > row.version
<1> USE RowTyped
<1>1. ASSUME NEW q \in IncidentRow, NEW t \in States, TransitionAllowed(q, t)
      PROVE  AfterTransition(q, t) \in IncidentRow /\ AfterTransition(q, t).version = q.version + 1
  BY Zenon, <1>1, Written DEF TransitionAllowed
<1>2. CASE \E t \in States : TransitionAllowed(row, t) /\ row' = AfterTransition(row, t)
  BY <1>1, <1>2
<1>3. CASE \E via \in {"TRIAGED", "FAILED"}, t \in {"DIAGNOSED", "ESCALATED"} :
             /\ via = "FAILED" => t = "ESCALATED"
             /\ TransitionAllowed(row, via)
             /\ TransitionAllowed(AfterTransition(row, via), t)
             /\ row' = AfterTransition(AfterTransition(row, via), t)
  <2>1. PICK via \in States, t \in States :
             /\ TransitionAllowed(row, via)
             /\ TransitionAllowed(AfterTransition(row, via), t)
             /\ row' = AfterTransition(AfterTransition(row, via), t)
    BY Zenon, <1>3 DEF States
  <2> DEFINE q == AfterTransition(row, via)
  <2>2. q \in IncidentRow /\ q.version = row.version + 1
    BY Zenon, <1>1, <2>1
  <2> HIDE DEF q
  <2>3. row'.version = q.version + 1
    BY Zenon, <1>1, <2>1, <2>2 DEF q
  <2> QED
    BY <2>2, <2>3
<1>4. CASE /\ ApprovalRequirable(row)
           /\ row' = AfterTransition(AfterRequireApproval(row), "PENDING_APPROVAL")
  <2> DEFINE q == AfterRequireApproval(row)
  <2>1. q \in IncidentRow /\ q.state = "PLANNED" /\ q.version = row.version + 1
    BY Zenon, <1>4, Required DEF ApprovalRequirable
  <2> HIDE DEF q
  <2>2. row'.version = q.version + 1
    BY Zenon, <1>4, <2>1, Written DEF q, IsRetry, States
  <2> QED
    BY <2>1, <2>2
<1> QED
  BY Zenon, <1>2, <1>3, <1>4 DEF RowStep

(* Nobody else is past the lease while one run is. *)
LEMMA OthersWait ==
  ASSUME WorkflowInv, AloneInv, NEW r \in Runs, pc[r] \in InGraph \cup {"leased"},
         NEW s \in Runs \ {r}
  PROVE  pc[s] \in {"idle", "listed", "leasing"}
BY SMTT(20) DEF AloneInv, Alone, LeaseHeld, WorkflowInv, TypeOK, InGraph, Nodes

LEMMA WaitingStay ==
  ASSUME WorkflowInv, AloneInv, TypeOK', RowStep, NEW s \in Runs,
         pc[s] \in {"idle", "listed", "leasing"}, pc'[s] = pc[s], st'[s] = st[s],
         diagnoses' = diagnoses \/ row'.version > row.version
  PROVE  Alone(s)'
<1>1. row.version \in Nat /\ st[s].version \in Nat /\ row'.version \in Nat
  BY Zenon, RowTyped DEF WorkflowInv, TypeOK, GraphState, IncidentRow
<1>2. LeaseHeld(s)' /\ ApprovalKnown(s)'
  BY Zenon DEF LeaseHeld, ApprovalKnown, InGraph, Nodes
<1>3. row' = row \/ row'.version > row.version
  BY Zenon, VersionGrows DEF WorkflowInv
<1>4. FreshDiagnosis(s)'
  BY SMTT(20), <1>1, <1>3 DEF FreshDiagnosis, AloneInv, Alone
<1> QED
  BY Zenon, <1>2, <1>4 DEF Alone

(* A step of the run that is in the graph *)
LEMMA GraphStep ==
  ASSUME WorkflowInv, AloneInv, TypeOK', RowStep, NEW r \in Runs, pc[r] \in InGraph,
         \A s \in Runs \ {r} : pc'[s] = pc[s] /\ st'[s] = st[s],
         diagnoses' = diagnoses \/ row'.version > row.version,
         OneDiagnosis', Alone(r)'
  PROVE  AloneInv'
<1>1. \A s \in Runs \ {r} : Alone(s)'
  BY Zenon, OthersWait, WaitingStay
<1> QED
  BY Zenon, <1>1 DEF AloneInv

(* ... that takes it to a node of which nothing more is claimed *)
PlainNodes == {"idle", "plan", "evaluate_policy", "restarting", "executed", "failed", "verify",
               "resolve", "escalate", "end"}

LEMMA PlainAlone ==
  ASSUME AloneInv, NEW r \in Runs, pc[r] \in InGraph,
         pc'[r] = "idle" \/ (pc'[r] \in PlainNodes /\ lease' = lease)
  PROVE  Alone(r)'
<1>1. LeaseHeld(r)'
  BY Zenon DEF AloneInv, Alone, LeaseHeld, InGraph, PlainNodes
<1>2. FreshDiagnosis(r)' /\ ApprovalKnown(r)'
  BY Zenon DEF FreshDiagnosis, ApprovalKnown, PlainNodes
<1> QED
  BY Zenon, <1>1, <1>2 DEF Alone

LEMMA QuietAlone ==
  ASSUME AloneInv, NEW s \in Runs, pc'[s] = pc[s], st'[s] = st[s],
         UNCHANGED <<row, diagnoses, approval, lease>>
  PROVE  Alone(s)'
BY Zenon DEF AloneInv, Alone, LeaseHeld, FreshDiagnosis, ApprovalKnown, Granted

LEMMA BeginAlone ==
  ASSUME WorkflowInv, AloneInv, NEW r \in Runs, NEW v, run_incident(r, v)
  PROVE  AloneInv'
<1> USE DEF records
<1>1. UNCHANGED <<row, diagnoses, approval, lease>>
  BY Zenon DEF run_incident
<1>2. \A s \in Runs \ {r} : pc'[s] = pc[s] /\ st'[s] = st[s]
  BY DEF WorkflowInv, TypeOK, run_incident, Begins, Skips, Stop, Goto
<1>3. Alone(r)'
  <2>1. CASE Begins(r, v)
    <3>1. /\ pc'[r] = "leasing" /\ st'[r].version = row.version
          /\ ~st'[r].diagnosis => ~(diagnoses > 0)
      BY Zenon, <2>1, BeginState DEF WorkflowInv
    <3>2. diagnoses \in 0 .. 2 /\ row.version \in Nat
      BY Zenon, RowTyped DEF WorkflowInv, TypeOK
    <3> QED
      BY SMTT(20), <1>1, <3>1, <3>2 DEF Alone, LeaseHeld, FreshDiagnosis, ApprovalKnown, InGraph
  <2>2. CASE Skips(r, v)
    <3>1. pc'[r] = "idle"
      BY Zenon, <2>2 DEF WorkflowInv, TypeOK, Skips, Stop, Goto
    <3> QED
      BY Zenon, <3>1 DEF Alone, LeaseHeld, FreshDiagnosis, ApprovalKnown, InGraph
  <2> QED
    BY Zenon, <2>1, <2>2 DEF run_incident
<1> QED
  BY Zenon, <1>1, <1>2, <1>3, QuietAlone DEF AloneInv, OneDiagnosis

LEMMA StartAlone ==
  ASSUME WorkflowInv, AloneInv, NEW r \in Runs, Start(r) \/ Sweep(r)
  PROVE  AloneInv'
<1> USE DEF records
<1>1. CASE Deliver(r) \/ Wake(r) \/ Sweep(r)
  BY Zenon, <1>1, BeginAlone DEF Deliver, Wake, Sweep
<1>2. CASE Deduplicate(r)
  BY Zenon, <1>2, QuietAlone DEF Deduplicate, AloneInv, OneDiagnosis
<1>3. CASE ListStuck(r)
  <2>1. UNCHANGED <<row, diagnoses, approval, lease>> /\ pc'[r] = "listed"
    BY Zenon, <1>3 DEF ListStuck, Goto, WorkflowInv, TypeOK
  <2>2. \A s \in Runs \ {r} : pc'[s] = pc[s] /\ st'[s] = st[s]
    BY Zenon, <1>3 DEF ListStuck, Goto, WorkflowInv, TypeOK
  <2>3. Alone(r)'
    BY Zenon, <2>1 DEF Alone, LeaseHeld, FreshDiagnosis, ApprovalKnown, InGraph
  <2> QED
    BY Zenon, <2>1, <2>2, <2>3, QuietAlone DEF AloneInv, OneDiagnosis
<1> QED
  BY Zenon, <1>1, <1>2, <1>3 DEF Start

(* A run that stops gives back its own lease and nobody else's. *)
LEMMA StopAlone ==
  ASSUME WorkflowInv, AloneInv, NEW r \in Runs, Stop(r),
         lease' = lease \/ lease' = Released(r), UNCHANGED <<row, diagnoses, approval>>
  PROVE  AloneInv'
<1>1. pc'[r] = "idle" /\ \A s \in Runs \ {r} : pc'[s] = pc[s] /\ st'[s] = st[s]
  BY Zenon DEF Stop, Goto, WorkflowInv, TypeOK
<1>2. Alone(r)'
  BY Zenon, <1>1 DEF Alone, LeaseHeld, FreshDiagnosis, ApprovalKnown, InGraph
<1>3. \A s \in Runs \ {r} : Alone(s)'
  <2> TAKE s \in Runs \ {r}
  <2>1. LeaseHeld(s)'
    BY ZenonT(30), <1>1 DEF AloneInv, Alone, LeaseHeld, Released
  <2> QED
    BY Zenon, <1>1, <2>1 DEF AloneInv, Alone, FreshDiagnosis, ApprovalKnown, Granted
<1> QED
  BY Zenon, <1>2, <1>3 DEF AloneInv, OneDiagnosis

(* acquire_incident_lease turns away the runs of other workers. *)
LEMMA LeasingAlone ==
  ASSUME WorkflowInv, AloneInv, NEW r \in Runs, AcquireLease(r) \/ VerifyLease(r), ~undercut'
  PROVE  AloneInv'
<1> USE DEF records
<1>1. UNCHANGED <<row, diagnoses, approval>>
  BY Zenon DEF AcquireLease, VerifyLease
<1>2. CASE Stop(r)
  BY Zenon, <1>1, <1>2, StopAlone DEF AcquireLease, VerifyLease, Stop, Goto, WorkflowInv, TypeOK
<1>3. CASE /\ pc[r] = "leasing" /\ LeaseFree(r) /\ Goto(r, "leased") /\ UNCHANGED st
           /\ lease' = [token |-> r, owner |-> OwnerOf[r], live |-> TRUE]
           /\ undercut' = (undercut \/ (AtWork /\ lease.owner = OwnerOf[r]))
  <2>1. pc'[r] = "leased" /\ \A s \in Runs \ {r} : pc'[s] = pc[s]
    BY Zenon, <1>3, GotoFrame DEF Nodes
  <2>2. Alone(r)'
    BY Zenon, <1>1, <1>3, <2>1 DEF AloneInv, Alone, LeaseHeld, FreshDiagnosis, ApprovalKnown
  <2>3. \A s \in Runs \ {r} : Alone(s)'
    <3> TAKE s \in Runs \ {r}
    <3>1. pc[s] \notin InGraph \cup {"leased"}
      <4> SUFFICES ASSUME pc[s] \in InGraph \cup {"leased"} PROVE FALSE
        BY Zenon
      <4>1. lease.token = s /\ lease.live
        BY Zenon DEF AloneInv, Alone, LeaseHeld
      <4>2. AtWork /\ lease.owner = OwnerOf[r]
        BY Zenon, <1>3, <4>1 DEF AtWork, LeaseFree
      <4> QED
        BY Zenon, <1>3, <4>2
    <3>2. LeaseHeld(s)'
      BY Zenon, <2>1, <3>1 DEF LeaseHeld
    <3> QED
      BY Zenon, <1>1, <1>3, <2>1, <3>2
      DEF AloneInv, Alone, FreshDiagnosis, ApprovalKnown, Granted
  <2> QED
    BY Zenon, <1>1, <2>2, <2>3 DEF AloneInv, OneDiagnosis
<1>4. CASE /\ pc[r] = "leased" /\ row.version = st[r].version
           /\ Goto(r, "collect_evidence") /\ UNCHANGED <<lease, st>>
  <2>1. pc'[r] = "collect_evidence" /\ \A s \in Runs \ {r} : pc'[s] = pc[s]
    BY Zenon, <1>4, GotoFrame DEF Nodes
  <2>2. Alone(r)'
    BY Zenon, <1>1, <1>4, <2>1 DEF AloneInv, Alone, LeaseHeld, FreshDiagnosis, ApprovalKnown
  <2> QED
    BY Zenon, <1>1, <1>4, <2>1, <2>2, QuietAlone DEF AloneInv, OneDiagnosis
<1> QED
  BY Zenon, <1>2, <1>3, <1>4 DEF AcquireLease, VerifyLease

(* diagnose_node adds the first diagnosis, and then moves the incident. *)
LEMMA DiagnoseAlone ==
  ASSUME WorkflowInv, AloneInv, TypeOK', NEW r \in Runs, diagnose_node(r)
  PROVE  AloneInv'
<1>1. pc[r] = "diagnose" /\ ~st[r].diagnosis /\ pc[r] \in InGraph /\ lease' = lease
  BY DEF diagnose_node, InGraph, Nodes
<1>2. diagnoses = 0
  BY Zenon, <1>1 DEF AloneInv, Alone, FreshDiagnosis
<1>3. diagnoses' = 1
  BY <1>2 DEF diagnose_node
<1>4. row.state \in {"DETECTED", "TRIAGED"}
  BY Zenon, <1>2 DEF WorkflowInv, RowInv
<1>5. PICK t \in {"DIAGNOSED", "ESCALATED"} : row' = Diagnosed(t)
  BY DEF diagnose_node
<1>6. row'.version > row.version /\ RowStep
  BY Zenon, <1>4, <1>5, DiagnosedMoves DEF WorkflowInv
<1>7. /\ pc'[r] \in {"plan", "escalate"}
      /\ \A s \in Runs \ {r} : pc'[s] = pc[s] /\ st'[s] = st[s]
  BY ZenonT(30) DEF diagnose_node, Goto, WorkflowInv, TypeOK
<1>8. Alone(r)'
  BY Zenon, <1>1, <1>7, PlainAlone DEF PlainNodes
<1>9. OneDiagnosis'
  BY <1>3 DEF OneDiagnosis
<1> QED
  BY Zenon, <1>1, <1>6, <1>7, <1>8, <1>9, GraphStep

(* The nodes that lead to nodes of which nothing is claimed *)
LEMMA PlainStepAlone ==
  ASSUME WorkflowInv, AloneInv, TypeOK', RowStep, NEW r \in Runs,
         \/ SkipDiagnosis(r) \/ SkipPlanning(r) \/ plan_node(r) \/ PrecheckFails(r)
         \/ ExecuteNew(r) \/ ExecuteAgain(r) \/ ExecuteFinish(r)
         \/ RecordSuccess(r) \/ RecordFailure(r)
         \/ VerifyHealed(r) \/ VerifyExternal(r)
         \/ VerifyFailedRetry(r) \/ VerifyFailedForGood(r)
         \/ resolve_node(r) \/ escalate_node(r)
  PROVE  AloneInv'
<1> USE DEF records
<1>1. /\ pc[r] \in InGraph /\ diagnoses' = diagnoses /\ lease' = lease
      /\ \E n \in PlainNodes : Goto(r, n)
  <2>1. CASE SkipDiagnosis(r) \/ SkipPlanning(r) \/ plan_node(r) \/ PrecheckFails(r)
    BY Zenon, <2>1
    DEF SkipDiagnosis, SkipPlanning, plan_node, PrecheckFails, InGraph, Nodes, PlainNodes
  <2>2. CASE ExecuteNew(r) \/ ExecuteAgain(r) \/ ExecuteFinish(r)
    BY Zenon, <2>2
    DEF ExecuteNew, ExecuteAgain, ExecuteFinish, OutcomeNode, InGraph, Nodes, PlainNodes
  <2>3. CASE RecordSuccess(r) \/ RecordFailure(r) \/ VerifyHealed(r) \/ VerifyExternal(r)
    BY Zenon, <2>3 DEF RecordSuccess, RecordFailure, VerifyHealed, VerifyExternal, InGraph, Nodes,
                PlainNodes
  <2>4. CASE VerifyFailedRetry(r) \/ VerifyFailedForGood(r)
    BY Zenon, <2>4 DEF VerifyFailedRetry, VerifyFailedForGood, InGraph, Nodes, PlainNodes
  <2>5. CASE resolve_node(r) \/ escalate_node(r)
    BY Zenon, <2>5 DEF resolve_node, escalate_node, Settle, InGraph, Nodes, PlainNodes
  <2> QED
    BY Zenon, <2>1, <2>2, <2>3, <2>4, <2>5
<1>2. \A s \in Runs \ {r} : st'[s] = st[s]
  <2>1. CASE UNCHANGED st
    BY Zenon, <2>1
  <2>2. CASE plan_node(r) \/ RecordSuccess(r)
    BY Zenon, <2>2 DEF plan_node, RecordSuccess, WorkflowInv, TypeOK
  <2>3. CASE VerifyHealed(r) \/ VerifyExternal(r) \/ VerifyFailedRetry(r) \/ VerifyFailedForGood(r)
    BY ZenonT(30), <2>3 DEF VerifyHealed, VerifyExternal, VerifyFailedRetry, VerifyFailedForGood,
                WorkflowInv, TypeOK
  <2> QED
    BY Zenon, <2>1, <2>2, <2>3
    DEF SkipDiagnosis, SkipPlanning, PrecheckFails, ExecuteNew, ExecuteAgain,
                            ExecuteFinish, RecordFailure, resolve_node, escalate_node, Settle
<1>3. pc'[r] \in PlainNodes /\ \A s \in Runs \ {r} : pc'[s] = pc[s]
  BY ZenonT(30), <1>1 DEF Goto, WorkflowInv, TypeOK
<1>4. Alone(r)'
  BY Zenon, <1>1, <1>3, PlainAlone
<1>5. OneDiagnosis'
  BY Zenon, <1>1 DEF AloneInv, OneDiagnosis
<1> QED
  BY Zenon, <1>1, <1>2, <1>3, <1>4, <1>5, GraphStep

LEMMA EvidenceAlone ==
  ASSUME WorkflowInv, AloneInv, TypeOK', RowStep, NEW r \in Runs, collect_evidence_node(r)
  PROVE  AloneInv'
<1> USE DEF records
<1>1. /\ pc[r] = "collect_evidence" /\ pc[r] \in InGraph /\ lease' = lease
      /\ UNCHANGED <<diagnoses, approval>> /\ Goto(r, "diagnose")
      /\ \E v : st' = [st EXCEPT ![r].version = v]
  BY Zenon DEF collect_evidence_node, InGraph, Nodes
<1>2. /\ pc'[r] = "diagnose" /\ \A s \in Runs \ {r} : pc'[s] = pc[s] /\ st'[s] = st[s]
      /\ st'[r].diagnosis = st[r].diagnosis
  BY <1>1 DEF Goto, WorkflowInv, TypeOK, GraphState
<1>3. Alone(r)'
  BY <1>1, <1>2 DEF AloneInv, Alone, LeaseHeld, FreshDiagnosis, ApprovalKnown
<1>4. OneDiagnosis'
  BY <1>1 DEF AloneInv, OneDiagnosis
<1> QED
  BY <1>1, <1>2, <1>3, <1>4, GraphStep

(* What the policy is asked with, an approval that is required is in it. *)
LEMMA PolicyAlone ==
  ASSUME WorkflowInv, AloneInv, TypeOK', RowStep, NEW r \in Runs, evaluate_policy_node(r)
  PROVE  AloneInv'
<1> USE DEF records
<1>1. /\ pc[r] = "evaluate_policy" /\ pc[r] \in InGraph
      /\ UNCHANGED <<row, diagnoses, approval, lease>> /\ Goto(r, "decided")
      /\ st' = [st EXCEPT ![r].policy_decision = evaluate(st[r].attempts)]
  BY DEF evaluate_policy_node, InGraph, Nodes
<1>2. /\ pc'[r] = "decided" /\ \A s \in Runs \ {r} : pc'[s] = pc[s] /\ st'[s] = st[s]
      /\ st'[r].policy_decision = evaluate(st[r].attempts)
  BY <1>1 DEF Goto, WorkflowInv, TypeOK, GraphState
<1>3. row.approval_required => evaluate(st[r].attempts) \in {"REQUIRE_APPROVAL", "DENY"}
  BY Zenon DEF evaluate
<1>4. Alone(r)'
  BY <1>1, <1>2, <1>3 DEF AloneInv, Alone, LeaseHeld, FreshDiagnosis, ApprovalKnown
<1>5. OneDiagnosis'
  BY <1>1 DEF AloneInv, OneDiagnosis
<1> QED
  BY <1>1, <1>2, <1>4, <1>5, GraphStep

LEMMA DecisionAlone ==
  ASSUME WorkflowInv, AloneInv, TypeOK', RowStep, NEW r \in Runs, RecordDecision(r)
  PROVE  AloneInv'
<1> USE DEF records
<1> DEFINE d == st[r].policy_decision
           n == route_after_policy(d, st[r].is_approved)
<1>1. /\ pc[r] = "decided" /\ pc[r] \in InGraph /\ row' = RoutedByDecision(d)
      /\ UNCHANGED <<diagnoses, approval, lease>> /\ Goto(r, n)
  BY DEF RecordDecision, InGraph, Nodes
<1>2. \A s \in Runs \ {r} : st'[s] = st[s]
  BY Zenon DEF RecordDecision, WorkflowInv, TypeOK
<1>3. pc'[r] = n /\ \A s \in Runs \ {r} : pc'[s] = pc[s]
  BY Zenon, <1>1 DEF Goto, WorkflowInv, TypeOK
<1>4. /\ n \in {"escalate", "end", "precheck"}
      /\ n = "precheck" => d # "DENY" /\ (d = "REQUIRE_APPROVAL" => st[r].is_approved)
  BY DEF route_after_policy
<1>5. /\ row'.approval_required /\ d # "REQUIRE_APPROVAL" => row.approval_required
  <2> HIDE DEF d
  <2> QED
    BY Zenon, <1>1, RoutedMoves DEF WorkflowInv
<1>6. row.approval_required => d \in {"REQUIRE_APPROVAL", "DENY"}
  BY Zenon, <1>1 DEF AloneInv, Alone, ApprovalKnown
<1>7. st[r].is_approved => Granted
  BY Zenon DEF WorkflowInv, RunInv
<1>8. Alone(r)'
  <2> HIDE DEF n, d
  <2>1. n = "precheck" /\ row'.approval_required => Granted
    BY Zenon, <1>4, <1>5, <1>6, <1>7
  <2>2. ApprovalKnown(r)'
    BY Zenon, <1>1, <1>3, <1>4, <2>1 DEF ApprovalKnown, Granted
  <2>3. LeaseHeld(r)'
    BY Zenon, <1>1 DEF AloneInv, Alone, LeaseHeld
  <2>4. FreshDiagnosis(r)'
    BY Zenon, <1>3, <1>4 DEF FreshDiagnosis
  <2> QED
    BY Zenon, <2>2, <2>3, <2>4 DEF Alone
<1>9. OneDiagnosis'
  BY Zenon, <1>1 DEF AloneInv, OneDiagnosis
<1> QED
  BY Zenon, <1>1, <1>2, <1>3, <1>8, <1>9, GraphStep

LEMMA DispatchAlone ==
  ASSUME WorkflowInv, AloneInv, TypeOK', RowStep, NEW r \in Runs,
         PrecheckPasses(r) \/ Dispatch(r)
  PROVE  AloneInv'
<1> USE DEF records
<1>1. /\ pc[r] \in {"precheck", "dispatch"} /\ pc[r] \in InGraph
      /\ UNCHANGED <<diagnoses, approval, lease, st>>
      /\ Goto(r, "dispatch") \/ Goto(r, "execute")
  BY Zenon DEF PrecheckPasses, Dispatch, InGraph, Nodes
<1>2. pc'[r] \in {"dispatch", "execute"} /\ \A s \in Runs \ {r} : pc'[s] = pc[s]
  BY Zenon, <1>1 DEF Goto, WorkflowInv, TypeOK
<1>3. row'.approval_required = row.approval_required
  BY SMTT(20), RowTyped, Moving DEF PrecheckPasses, Dispatch, WorkflowInv, States
<1>4. Alone(r)'
  BY Zenon, <1>1, <1>2, <1>3
  DEF AloneInv, Alone, LeaseHeld, FreshDiagnosis, ApprovalKnown, Granted
<1>5. OneDiagnosis'
  BY Zenon, <1>1 DEF AloneInv, OneDiagnosis
<1> QED
  BY Zenon, <1>1, <1>2, <1>4, <1>5, GraphStep

LEMMA CrashAlone ==
  ASSUME WorkflowInv, AloneInv, NEW w \in Workers, Crash(w)
  PROVE  AloneInv'
<1> USE DEF records
<1>1. UNCHANGED <<row, diagnoses, approval>>
  BY DEF Crash
<1>2. ASSUME NEW s \in Runs PROVE Alone(s)'
  <2>1. CASE OwnerOf[s] = w
    <3>1. pc'[s] = "idle"
      BY <2>1 DEF Crash
    <3> QED
      BY Zenon, <3>1 DEF Alone, LeaseHeld, FreshDiagnosis, ApprovalKnown, InGraph
  <2>2. CASE OwnerOf[s] # w
    <3>1. pc'[s] = pc[s] /\ st'[s] = st[s]
      BY <2>2 DEF Crash
    <3>2. lease' = lease \/ lease.owner = w
      BY DEF Crash
    <3>3. LeaseHeld(s)'
      BY Zenon, <2>2, <3>1, <3>2 DEF AloneInv, Alone, LeaseHeld
    <3> QED
      BY Zenon, <1>1, <3>1, <3>3 DEF AloneInv, Alone, FreshDiagnosis, ApprovalKnown, Granted
  <2> QED
    BY <2>1, <2>2
<1> QED
  BY <1>1, <1>2 DEF AloneInv, OneDiagnosis

(* An approver's write does not disturb the run in the graph. *)
LEMMA ApprovalAlone ==
  ASSUME WorkflowInv, AloneInv, Approve \/ Reject \/ GrantExpires
  PROVE  AloneInv'
<1> USE DEF records
<1>1. UNCHANGED <<diagnoses, lease, pc, st>> /\ (Granted => Granted')
  BY Zenon DEF Approve, Reject, CanDecide, GrantExpires, Granted
<1>2. /\ row'.approval_required = row.approval_required
      /\ row' = row \/ row'.version = row.version + 1
  <2>1. CASE GrantExpires
    BY Zenon, <2>1 DEF GrantExpires
  <2>2. CASE Approve \/ Reject
    <3>1. PICK t \in {"APPROVED", "ESCALATED"} : row' = AfterTransition(row, t)
      BY Zenon, <2>2 DEF Approve, Reject
    <3> QED
      BY SMTT(20), <3>1, RowTyped, Written DEF WorkflowInv, States, IsRetry
  <2> QED
    BY Zenon, <2>1, <2>2
<1>3. ASSUME NEW s \in Runs PROVE Alone(s)'
  <2>1. row.version \in Nat /\ st[s].version \in Nat
    BY Zenon, RowTyped DEF WorkflowInv, TypeOK, GraphState
  <2>2. FreshDiagnosis(s)'
    BY SMTT(20), <1>1, <1>2, <2>1 DEF AloneInv, Alone, FreshDiagnosis
  <2>3. LeaseHeld(s)' /\ ApprovalKnown(s)'
    BY Zenon, <1>1, <1>2 DEF AloneInv, Alone, LeaseHeld, ApprovalKnown
  <2> QED
    BY <2>2, <2>3 DEF Alone
<1> QED
  BY Zenon, <1>1, <1>3 DEF AloneInv, OneDiagnosis

LEMMA OutsideAlone ==
  ASSUME WorkflowInv, AloneInv, ~undercut',
         \/ DecideLate \/ (\E m \in Modes : SetMode(m)) \/ SomeScheduleComesDue
         \/ LeaseExpires \/ cleanup_expired_leases \/ UNCHANGED vars
  PROVE  AloneInv'
<1> USE DEF records
<1>1. UNCHANGED <<row, diagnoses, approval, pc, st>>
  BY DEF DecideLate, SetMode, SomeScheduleComesDue, ComesDue, LeaseExpires,
         cleanup_expired_leases, vars
<1>2. ASSUME NEW s \in Runs PROVE LeaseHeld(s)'
  <2>1. CASE UNCHANGED lease
    BY Zenon, <1>1, <2>1 DEF AloneInv, Alone, LeaseHeld
  <2>2. CASE LeaseExpires \/ cleanup_expired_leases
    <3>1. pc[s] \notin InGraph \cup {"leased"}
      <4> SUFFICES ASSUME pc[s] \in InGraph \cup {"leased"} PROVE FALSE
        BY Zenon
      <4>1. lease.token = s /\ lease.live
        BY Zenon DEF AloneInv, Alone, LeaseHeld
      <4>2. AtWork
        BY Zenon, <4>1 DEF AtWork
      <4> QED
        BY Zenon, <2>2, <4>1, <4>2 DEF LeaseExpires, cleanup_expired_leases
    <3> QED
      BY Zenon, <1>1, <3>1 DEF LeaseHeld
  <2> QED
    BY <2>1, <2>2 DEF DecideLate, SetMode, SomeScheduleComesDue, ComesDue, vars
<1> QED
  BY Zenon, <1>1, <1>2
  DEF AloneInv, Alone, FreshDiagnosis, ApprovalKnown, Granted, OneDiagnosis

LEMMA AloneStep ==
  ASSUME WorkflowInv, AloneInv, [Next]_vars, ~undercut'
  PROVE  AloneInv'
<1> USE DEF records
<1>1. TypeOK' /\ RowStep
  BY Zenon, WorkflowStep DEF WorkflowInv
<1>2. ASSUME NEW r \in Runs, Start(r) PROVE AloneInv'
  BY <1>2, StartAlone
<1>3. ASSUME NEW r \in Runs, Advance(r) PROVE AloneInv'
  <2>1. CASE Sweep(r)
    BY <2>1, StartAlone
  <2>2. CASE AcquireLease(r) \/ VerifyLease(r)
    BY <2>2, LeasingAlone
  <2>3. CASE collect_evidence_node(r) \/ diagnose_node(r)
    BY Zenon, <1>1, <2>3, EvidenceAlone, DiagnoseAlone
  <2>4. CASE evaluate_policy_node(r) \/ RecordDecision(r) \/ PrecheckPasses(r) \/ Dispatch(r)
    BY Zenon, <1>1, <2>4, PolicyAlone, DecisionAlone, DispatchAlone
  <2>5. CASE Finish(r)
    <3>1. row' = row
      BY <2>5, FinishKeeps
    <3> QED
      BY Zenon, <2>5, <3>1, StopAlone DEF Finish
  <2>6. CASE Raise(r)
    BY Zenon, <2>6, StopAlone DEF Raise
  <2> QED
    BY Zenon, <1>1, <1>3, <2>1, <2>2, <2>3, <2>4, <2>5, <2>6, PlainStepAlone DEF Advance
<1>4. ASSUME NEW r \in Runs, Fail(r) PROVE AloneInv'
  BY Zenon, <1>4, StopAlone DEF Fail
<1>5. CASE \E w \in Workers : Crash(w)
  BY <1>5, CrashAlone
<1>6. CASE Approve \/ Reject \/ GrantExpires
  BY <1>6, ApprovalAlone
<1>7. CASE \/ DecideLate \/ (\E m \in Modes : SetMode(m)) \/ SomeScheduleComesDue
           \/ LeaseExpires \/ cleanup_expired_leases \/ UNCHANGED vars
  BY <1>7, OutsideAlone
<1> QED
  BY Zenon, <1>2, <1>3, <1>4, <1>5, <1>6, <1>7 DEF Next

LEMMA AloneStart == Init => AloneInv
<1> SUFFICES ASSUME Init PROVE AloneInv
  OBVIOUS
<1>1. diagnoses = 0 /\ pc = [r \in Runs |-> "idle"]
  BY Zenon DEF Init
<1> QED
  BY <1>1 DEF AloneInv, OneDiagnosis, Alone, LeaseHeld, FreshDiagnosis, ApprovalKnown,
              InGraph

(* What has been undercut stays so. *)
LEMMA OnceUndercut ==
  ASSUME [Next]_vars, ~undercut'
  PROVE  ~undercut
<1> USE DEF outside
<1>1. CASE \E r \in Runs : AcquireLease(r)
  BY Zenon, <1>1 DEF AcquireLease
<1>2. CASE LeaseExpires
  BY Zenon, <1>2 DEF LeaseExpires
<1>3. ASSUME NEW r \in Runs, Start(r) \/ Fail(r) PROVE undercut' = undercut
  BY Zenon, <1>3 DEF Start, Deliver, Deduplicate, Wake, ListStuck, run_incident, Fail
<1>4. ASSUME NEW r \in Runs, Advance(r), ~AcquireLease(r) PROVE undercut' = undercut
  BY Zenon, <1>4 DEF Advance, Sweep, run_incident, VerifyLease, collect_evidence_node,
     SkipDiagnosis, diagnose_node, SkipPlanning, plan_node, evaluate_policy_node, RecordDecision,
     PrecheckPasses, PrecheckFails, Dispatch, ExecuteNew, ExecuteAgain, ExecuteFinish,
     RecordSuccess, RecordFailure, VerifyHealed, VerifyExternal, VerifyFailedRetry,
     VerifyFailedForGood, resolve_node, escalate_node, Settle, Finish, Raise
<1>5. CASE \/ (\E w \in Workers : Crash(w)) \/ Approve \/ Reject \/ DecideLate
           \/ (\E m \in Modes : SetMode(m)) \/ GrantExpires \/ SomeScheduleComesDue
           \/ cleanup_expired_leases \/ UNCHANGED vars
  BY Zenon, <1>5 DEF Crash, Approve, Reject, DecideLate, SetMode, GrantExpires,
     SomeScheduleComesDue, ComesDue, cleanup_expired_leases, vars
<1> QED
  BY Zenon, <1>1, <1>2, <1>3, <1>4, <1>5 DEF Next

Undisturbed == ~undercut => AloneInv

(* Until a run at work loses its lease, a run in the graph holds the lease *)
(* of run_incident, and no other run writes what it has read.              *)
THEOREM AloneInvariance == Spec => []Undisturbed
<1>1. WorkflowInv /\ Undisturbed /\ [Next]_vars => Undisturbed'
  BY Zenon, AloneStep, OnceUndercut DEF Undisturbed
<1>2. Init => Undisturbed
  BY Zenon, AloneStart DEF Undisturbed
<1> QED
  BY <1>1, <1>2, WorkflowInvariance, PTL DEF Spec

(* For any workers, crashes and duplicates, run_incident diagnoses an      *)
(* incident once unless a run at work had lost its lease before, by expiry *)
(* or to a run of its own worker.                                          *)
THEOREM DiagnosedOnce == Spec => []SingleDiagnosis
<1>1. Undisturbed => SingleDiagnosis
  BY Zenon DEF Undisturbed, AloneInv, SingleDiagnosis
<1> QED
  BY <1>1, AloneInvariance, PTL

(* And once evaluate_policy_node has asked for approval, adapter.execute   *)
(* starts no attempt before submit_approval has recorded a grant, unless a *)
(* run at work had lost its lease: two runs must not be in the graph for   *)
(* one decision to hold, and nothing else is needed.                       *)
THEOREM RestartsAreAuthorised == Spec => RestartAuthorised
<1>1. WorkflowInv /\ Undisturbed /\ [Next]_vars =>
        [\A a \in Attempts : Begun(a) /\ row.approval_required
                               => approval \in {"APPROVE", "EXPIRED"} \/ undercut]_vars
  <2> SUFFICES ASSUME WorkflowInv, Undisturbed, [Next]_vars, NEW a \in Attempts,
                      Begun(a), row.approval_required, ~undercut
               PROVE  approval \in {"APPROVE", "EXPIRED"}
    OBVIOUS
  <2>1. exec' # exec
    BY Zenon DEF Begun
  <2>2. \E r \in Runs : ExecuteNew(r) \/ ExecuteAgain(r) \/ ExecuteFinish(r)
    <3> USE DEF records, trials, outside
    <3>1. \E r \in Runs : Advance(r)
      BY ZenonT(30), <2>1
      DEF Next, Start, Deliver, Deduplicate, Wake, ListStuck, run_incident, Fail, Crash,
                  Approve, Reject, DecideLate, SetMode, GrantExpires, SomeScheduleComesDue,
                  ComesDue, LeaseExpires, cleanup_expired_leases, vars
    <3>2. PICK r \in Runs : Advance(r)
      BY Zenon, <3>1
    <3> QED
      BY Zenon, <2>1, <3>2 DEF Advance, Sweep, run_incident, AcquireLease, VerifyLease,
        collect_evidence_node, SkipDiagnosis, diagnose_node, SkipPlanning, plan_node,
        evaluate_policy_node, RecordDecision, PrecheckPasses, PrecheckFails, Dispatch,
        RecordSuccess, RecordFailure, VerifyHealed, VerifyExternal, VerifyFailedRetry,
        VerifyFailedForGood, resolve_node, escalate_node, Settle, Finish, Raise
  <2>3. PICK r \in Runs : ExecuteNew(r) \/ ExecuteAgain(r) \/ ExecuteFinish(r)
    BY Zenon, <2>2
  <2>4. pc[r] \in {"execute", "restarting"}
    BY Zenon, <2>3 DEF ExecuteNew, ExecuteAgain, ExecuteFinish
  <2>5. Attempt(r) \in Attempts
    BY Zenon, <2>4, AttemptWithin
  <2>6. pc[r] = "execute"
    BY Zenon, <2>3, <2>5 DEF ExecuteNew, ExecuteAgain, ExecuteFinish, Begun, WorkflowInv, TypeOK
  <2> QED
    BY Zenon, <2>6 DEF Undisturbed, AloneInv, Alone, ApprovalKnown, Granted
<1> QED
  BY <1>1, WorkflowInvariance, AloneInvariance, PTL DEF Spec, RestartAuthorised

-----------------------------------------------------------------------------
(* What is for good *)

RowHistory ==
  /\ row.state \notin Terminal
  /\ row'.version > row.version
  /\ row'.attempts \in {row.attempts, row.attempts + 1}
  /\ row.approval_required => row'.approval_required

LEMMA AllowedWrite ==
  ASSUME NEW q \in IncidentRow, NEW t \in States, TransitionAllowed(q, t)
  PROVE  /\ AfterTransition(q, t) \in IncidentRow
         /\ AfterTransition(q, t).state = t
         /\ AfterTransition(q, t).version = q.version + 1
         /\ AfterTransition(q, t).approval_required = q.approval_required
         /\ AfterTransition(q, t).attempts \in {q.attempts, q.attempts + 1}
         /\ ~IsRetry(q.state, t) => AfterTransition(q, t).attempts = q.attempts
         /\ q.state \notin Terminal
<1>1. q.state \notin Terminal
  BY SMTT(20) DEF TransitionAllowed, validate_transition, TRANSITIONS, Terminal
<1>2. IsRetry(q.state, t) => q.attempts < RetryLimit
  BY Zenon DEF TransitionAllowed
<1> QED
  BY Zenon, <1>1, <1>2, Written

(* Every write the row accepts continues its history. *)
LEMMA WriteHistory ==
  ASSUME row \in IncidentRow, RowStep
  PROVE  row' = row \/ RowHistory
<1>1. row.version \in Nat /\ row.attempts \in Nat
  BY RetryLimitAssumption DEF IncidentRow
<1>2. ASSUME NEW t \in States, TransitionAllowed(row, t), row' = AfterTransition(row, t)
      PROVE  RowHistory
  BY <1>1, <1>2, AllowedWrite DEF RowHistory
<1>3. ASSUME NEW via \in {"TRIAGED", "FAILED"}, NEW t \in {"DIAGNOSED", "ESCALATED"},
             TransitionAllowed(row, via), TransitionAllowed(AfterTransition(row, via), t),
             row' = AfterTransition(AfterTransition(row, via), t)
      PROVE  RowHistory
  <2> DEFINE q == AfterTransition(row, via)
  <2>1. via \in States /\ t \in States
    BY Zenon DEF States
  <2>2. /\ q \in IncidentRow /\ q.version = row.version + 1 /\ q.attempts = row.attempts
        /\ q.approval_required = row.approval_required /\ row.state \notin Terminal
    BY Zenon, <1>3, <2>1, AllowedWrite DEF IsRetry
  <2> HIDE DEF q
  <2>3. /\ row'.version = q.version + 1 /\ row'.attempts \in {q.attempts, q.attempts + 1}
        /\ row'.approval_required = q.approval_required
    BY Zenon, <1>3, <2>1, <2>2, AllowedWrite DEF q
  <2> QED
    BY SMTT(20), <1>1, <2>2, <2>3 DEF RowHistory
<1>4. ASSUME ApprovalRequirable(row),
             row' = AfterTransition(AfterRequireApproval(row), "PENDING_APPROVAL")
      PROVE  RowHistory
  <2> DEFINE q == AfterRequireApproval(row)
  <2>1. /\ q \in IncidentRow /\ q.state = "PLANNED" /\ q.version = row.version + 1
        /\ q.approval_required /\ q.attempts = row.attempts
    BY Zenon, <1>4, Required DEF ApprovalRequirable
  <2> HIDE DEF q
  <2>2. /\ row'.version = q.version + 1 /\ row'.attempts = q.attempts
        /\ row'.approval_required = q.approval_required
    BY ZenonT(30), <1>4, <2>1, Written DEF q, IsRetry, States
  <2> QED
    BY SMTT(20), <1>1, <1>4, <2>1, <2>2 DEF RowHistory, ApprovalRequirable, Terminal
<1> QED
  BY Zenon, <1>2, <1>3, <1>4 DEF RowStep

(* No run, approver or recovery reopens a terminal incident, writes over a *)
(* newer version, forgets a retry or withdraws a required approval.        *)
THEOREM IncidentOnlyMovesOn == Spec => [][RowHistory]_row
<1>1. WorkflowInv /\ [Next]_vars => [RowHistory]_row
  BY Zenon, WorkflowStep, WriteHistory, RowTyped DEF WorkflowInv
<1> QED
  BY <1>1, WorkflowInvariance, PTL DEF Spec

(* Once verify_node has sent an incident back for a retry it is never      *)
(* RESOLVED, though the retry be executed and heal the service: only an    *)
(* escalation ends it.                                                     *)
THEOREM RetriedIsNeverResolved ==
  Spec => [](row.attempts > 0 => row.state \in {"DIAGNOSED", "ESCALATED"})
<1>1. WorkflowInv => (row.attempts > 0 => row.state \in {"DIAGNOSED", "ESCALATED"})
  BY Zenon DEF WorkflowInv, RowInv, OneRetry
<1> QED
  BY <1>1, WorkflowInvariance, PTL

(* What the database keeps of the incident, once written *)
RecordsKept ==
  /\ plan => plan'
  /\ plan /\ row.state # "PLANNED" => row'.state # "PLANNED"
  /\ explained => explained'
  /\ diagnoses' >= diagnoses
  /\ \/ approval' = approval \/ approval = "none"
     \/ approval = "APPROVE" /\ approval' = "EXPIRED"
  /\ healed \subseteq healed' /\ disproved \subseteq disproved' /\ cooled \subseteq cooled'
  /\ \A a \in Attempts :
       /\ exec[a] \in {"SUCCEEDED", "FAILED"} => exec'[a] = exec[a]
       /\ exec[a] # "none" => exec'[a] # "none"

LEMMA NewStates ==
  ASSUME row \in IncidentRow
  PROVE  /\ \A t : AfterTransition(row, t).state = t
         /\ \A S, t : MovedFrom(S, t).state \in {row.state, t}
         /\ \A t, u : AfterTransition(AfterTransition(row, u), t).state = t
         /\ \A t : AfterTransition(AfterRequireApproval(row), t).state = t
<1>1. \A t : AfterTransition(row, t).state = t
  BY Zenon DEF AfterTransition, AfterUpdate, IncidentRow
<1>2. \A S, t : MovedFrom(S, t).state \in {row.state, t}
  BY Zenon, <1>1 DEF MovedFrom
<1>3. \A t, u : AfterTransition(AfterTransition(row, u), t).state = t
  BY DEF AfterTransition, AfterUpdate, IncidentRow
<1>4. \A t : AfterTransition(AfterRequireApproval(row), t).state = t
  BY DEF AfterTransition, AfterUpdate, AfterRequireApproval, IncidentRow
<1> QED
  BY Zenon, <1>1, <1>2, <1>3, <1>4

(* Only plan_node makes an incident PLANNED, and only if it has no plan. *)
LEMMA PlannedOnce ==
  ASSUME WorkflowInv, NEW r \in Runs, Advance(r), ~plan_node(r), row.state # "PLANNED"
  PROVE  row'.state # "PLANNED"
<1> DEFINE Unplanned(q) == q.state # "PLANNED"
<1>1. /\ Unplanned(row)
      /\ \A t : t # "PLANNED" => /\ Unplanned(AfterTransition(row, t))
                                 /\ \A S : Unplanned(MovedFrom(S, t))
                                 /\ \A u : Unplanned(AfterTransition(AfterTransition(row, u), t))
                                 /\ Unplanned(AfterTransition(AfterRequireApproval(row), t))
  BY ZenonT(30), NewStates, RowTyped DEF WorkflowInv
<1>2. /\ \A S : /\ Unplanned(MovedFrom(S, "TRIAGED")) /\ Unplanned(MovedFrom(S, "DIAGNOSED"))
                /\ Unplanned(MovedFrom(S, "ESCALATED")) /\ Unplanned(MovedFrom(S, "EXECUTING"))
                /\ Unplanned(MovedFrom(S, "VERIFYING")) /\ Unplanned(MovedFrom(S, "RESOLVED"))
                /\ Unplanned(MovedFrom(S, "PENDING_APPROVAL"))
      /\ \A t \in {"DIAGNOSED", "ESCALATED", "RESOLVED", "PENDING_APPROVAL"} :
           /\ Unplanned(AfterTransition(row, t))
           /\ \A u : Unplanned(AfterTransition(AfterTransition(row, u), t))
           /\ Unplanned(AfterTransition(AfterRequireApproval(row), t))
  <2>1. \A t \in {"TRIAGED", "DIAGNOSED", "ESCALATED", "EXECUTING", "VERIFYING", "RESOLVED",
                  "PENDING_APPROVAL"} : t # "PLANNED"
    OBVIOUS
  <2> HIDE DEF Unplanned
  <2> QED
    BY Zenon, <1>1, <2>1
<1>3. Unplanned(row)
  BY <1>1
<1> SUFFICES Unplanned(row')
  BY Zenon
<1> HIDE DEF Unplanned
<1>4. CASE collect_evidence_node(r)
  BY Zenon, <1>2, <1>3, <1>4 DEF collect_evidence_node
<1>5. CASE diagnose_node(r)
  BY ZenonT(30), <1>2, <1>5 DEF diagnose_node, Diagnosed
<1>6. CASE RecordDecision(r)
  BY Zenon, <1>2, <1>3, <1>6 DEF RecordDecision, RoutedByDecision
<1>7. CASE PrecheckFails(r) \/ Dispatch(r) \/ RecordSuccess(r) \/ RecordFailure(r)
  BY Zenon, <1>2, <1>3, <1>7 DEF PrecheckFails, Dispatch, RecordSuccess, RecordFailure
<1>8. CASE VerifyHealed(r) \/ VerifyExternal(r) \/ VerifyFailedRetry(r) \/ VerifyFailedForGood(r)
  BY ZenonT(30), <1>2, <1>8 DEF VerifyHealed, VerifyExternal, VerifyFailedRetry, VerifyFailedForGood
<1>9. CASE resolve_node(r) \/ escalate_node(r)
  BY Zenon, <1>2, <1>3, <1>9 DEF resolve_node, escalate_node, Settle
<1>10. CASE Finish(r)
  BY Zenon, <1>2, <1>3, <1>10 DEF Finish
<1>11. CASE \/ Sweep(r) \/ AcquireLease(r) \/ VerifyLease(r) \/ SkipDiagnosis(r)
            \/ SkipPlanning(r) \/ evaluate_policy_node(r) \/ PrecheckPasses(r)
            \/ ExecuteNew(r) \/ ExecuteAgain(r) \/ ExecuteFinish(r) \/ Raise(r)
  <2>1. row' = row
    BY Zenon, <1>11
    DEF Sweep, run_incident, AcquireLease, VerifyLease, SkipDiagnosis, SkipPlanning,
        evaluate_policy_node, PrecheckPasses, ExecuteNew, ExecuteAgain, ExecuteFinish, Raise
  <2> QED
    BY Zenon, <1>3, <2>1
<1> QED
  BY Zenon, <1>4, <1>5, <1>6, <1>7, <1>8, <1>9, <1>10, <1>11 DEF Advance

(* adapter.execute writes no outcome over another. *)
LEMMA OutcomesKept ==
  ASSUME WorkflowInv, NEW r \in Runs, ExecuteNew(r) \/ ExecuteAgain(r) \/ ExecuteFinish(r)
  PROVE  \A a \in Attempts :
           /\ exec[a] \in {"SUCCEEDED", "FAILED"} => exec'[a] = exec[a]
           /\ exec[a] # "none" => exec'[a] # "none"
<1>1. PICK status \in {"RUNNING", "SUCCEEDED", "FAILED"} :
        /\ exec' = [exec EXCEPT ![Attempt(r)] = status]
        /\ exec[Attempt(r)] \in {"none", "RUNNING", status}
  BY Zenon DEF ExecuteNew, ExecuteAgain, ExecuteFinish
<1> QED
  BY SMTT(20), <1>1 DEF WorkflowInv, TypeOK

LEMMA AdvanceKeepsRecords ==
  ASSUME WorkflowInv, NEW r \in Runs, Advance(r)
  PROVE  RecordsKept
<1> USE DEF RecordsKept, records, trials
<1>1. diagnoses \in Nat /\ diagnoses >= diagnoses
  BY SMTT(20) DEF WorkflowInv, TypeOK
<1>2. CASE plan_node(r)
  <2>1. PICK target \in {"PLANNED", "ESCALATED"} :
          /\ target = "PLANNED" => ~plan
          /\ row' = AfterTransition(row, target)
          /\ (plan => plan') /\ (explained => explained')
          /\ UNCHANGED <<diagnoses, approval, trials>>
    BY Zenon, <1>2 DEF plan_node
  <2>2. row'.state = target
    BY Zenon, <2>1, NewStates, RowTyped DEF WorkflowInv
  <2> QED
    BY Zenon, <1>1, <2>1, <2>2
<1>3. CASE ~plan_node(r)
  <2>1. row.state # "PLANNED" => row'.state # "PLANNED"
    BY Zenon, <1>3, PlannedOnce
  <2>2. CASE diagnose_node(r)
    <3>1. diagnoses' >= diagnoses
      BY <1>1, <2>2 DEF diagnose_node
    <3>2. (explained => explained') /\ UNCHANGED <<plan, approval, trials>>
      BY Zenon, <2>2 DEF diagnose_node
    <3> QED
      BY Zenon, <2>1, <3>1, <3>2
  <2>3. CASE RecordDecision(r) \/ PrecheckFails(r) \/ RecordFailure(r) \/ VerifyExternal(r)
    <3>1. (explained => explained') /\ UNCHANGED <<diagnoses, plan, approval, trials>>
      BY Zenon, <2>3 DEF RecordDecision, PrecheckFails, RecordFailure, VerifyExternal
    <3> QED
      BY Zenon, <1>1, <2>1, <3>1
  <2>4. CASE VerifyHealed(r) \/ VerifyFailedRetry(r) \/ VerifyFailedForGood(r)
    <3>1. (explained => explained') /\ UNCHANGED <<diagnoses, plan, approval, exec, cooled>>
      <4>1. CASE VerifyHealed(r)
        BY Zenon, <4>1 DEF VerifyHealed
      <4>2. CASE VerifyFailedRetry(r)
        BY Zenon, <4>2 DEF VerifyFailedRetry
      <4>3. CASE VerifyFailedForGood(r)
        BY Zenon, <4>3 DEF VerifyFailedForGood
      <4> QED
        BY Zenon, <2>4, <4>1, <4>2, <4>3
    <3>2. healed \subseteq healed' /\ disproved \subseteq disproved'
      BY Zenon, <2>4 DEF VerifyHealed, VerifyFailedRetry, VerifyFailedForGood
    <3> QED
      BY Zenon, <1>1, <2>1, <3>1, <3>2
  <2>5. CASE ExecuteNew(r) \/ ExecuteAgain(r) \/ ExecuteFinish(r)
    <3>1. UNCHANGED <<records, healed, disproved, cooled>>
      BY Zenon, <2>5 DEF ExecuteNew, ExecuteAgain, ExecuteFinish
    <3>2. \A a \in Attempts : /\ exec[a] \in {"SUCCEEDED", "FAILED"} => exec'[a] = exec[a]
                              /\ exec[a] # "none" => exec'[a] # "none"
      BY Zenon, <2>5, OutcomesKept
    <3> QED
      BY Zenon, <1>1, <2>1, <3>1, <3>2
  <2>6. CASE \/ Sweep(r) \/ AcquireLease(r) \/ VerifyLease(r) \/ collect_evidence_node(r)
             \/ SkipDiagnosis(r) \/ SkipPlanning(r) \/ evaluate_policy_node(r)
             \/ PrecheckPasses(r) \/ Dispatch(r) \/ RecordSuccess(r)
             \/ resolve_node(r) \/ escalate_node(r) \/ Finish(r) \/ Raise(r)
    <3>1. UNCHANGED <<records, trials>>
      BY Zenon, <2>6
      DEF Sweep, run_incident, AcquireLease, VerifyLease, collect_evidence_node, SkipDiagnosis,
          SkipPlanning, evaluate_policy_node, PrecheckPasses, Dispatch, RecordSuccess,
          resolve_node, escalate_node, Settle, Finish, Raise
    <3> QED
      BY Zenon, <1>1, <2>1, <3>1
  <2> QED
    BY Zenon, <1>3, <2>2, <2>3, <2>4, <2>5, <2>6 DEF Advance
<1> QED
  BY Zenon, <1>2, <1>3

(* Nothing the workflow has recorded is taken back: a diagnosis, a plan    *)
(* and an escalation stay, a plan is not made twice, an approval is        *)
(* decided once and can only expire, the outcome of an attempt and its     *)
(* verdict stand, whichever runs race, fail or crash.                      *)
THEOREM RecordsAreKept == Spec => [][RecordsKept]_vars
<1>1. ASSUME WorkflowInv, Next PROVE RecordsKept
  <2> USE DEF RecordsKept, records, trials
  <2>1. diagnoses >= diagnoses
    BY SMTT(20), <1>1 DEF WorkflowInv, TypeOK
  <2>2. CASE \E r \in Runs : Advance(r)
    BY Zenon, <2>2, <1>1, AdvanceKeepsRecords
  <2>3. CASE \/ \E r \in Runs : Start(r) \/ Fail(r)
             \/ \E w \in Workers : Crash(w)
             \/ DecideLate \/ (\E m \in Modes : SetMode(m)) \/ LeaseExpires
             \/ cleanup_expired_leases
    <3>1. UNCHANGED <<row, records, trials>>
      BY Zenon, <2>3
      DEF Start, Deliver, Deduplicate, Wake, ListStuck, run_incident, Fail, Crash, DecideLate,
          SetMode, LeaseExpires, cleanup_expired_leases
    <3> QED
      BY Zenon, <2>1, <3>1
  <2>4. CASE Approve \/ Reject
    <3>1. row'.state \in {"APPROVED", "ESCALATED"}
      BY Zenon, <1>1, <2>4, NewStates, RowTyped DEF Approve, Reject, WorkflowInv
    <3>2. row'.state # "PLANNED"
      BY <3>1
    <3>3. approval = "none" /\ UNCHANGED <<diagnoses, plan, trials>>
      BY Zenon, <2>4 DEF Approve, Reject, CanDecide
    <3>4. explained => explained'
      BY Zenon, <2>4 DEF Approve, Reject
    <3> QED
      BY Zenon, <2>1, <3>2, <3>3, <3>4
  <2>5. CASE GrantExpires
    <3>1. /\ approval = "APPROVE" /\ approval' = "EXPIRED"
          /\ UNCHANGED <<row, diagnoses, plan, explained, trials>>
      BY Zenon, <2>5 DEF GrantExpires
    <3> QED
      BY Zenon, <2>1, <3>1
  <2>6. CASE SomeScheduleComesDue
    <3>1. UNCHANGED <<row, records, exec, healed, disproved>> /\ cooled \subseteq cooled'
      BY Zenon, <2>6 DEF SomeScheduleComesDue, ComesDue
    <3> QED
      BY Zenon, <2>1, <3>1
  <2> QED
    BY Zenon, <1>1, <2>2, <2>3, <2>4, <2>5, <2>6 DEF Next
<1> QED
  BY <1>1, WorkflowInvariance, PTL DEF Spec

-----------------------------------------------------------------------------
(* The policy *)

Engine == INSTANCE Policy

(* A context as evaluate_policy_node builds it for a restart: the mode is  *)
(* raised for an incident that requires approval; no grant, no earlier     *)
(* execution and no lock are passed on.                                    *)
NodeContext(r, ctx) ==
  /\ IF mode = "DISABLED"
       THEN ctx.mode = "DISABLED" \/ ~Engine!emergency_stop(ctx)
       ELSE /\ ctx.mode = IF row.approval_required THEN "APPROVAL_REQUIRED" ELSE mode
            /\ Engine!emergency_stop(ctx)
  /\ ctx.confidence \in Nat
  /\ confidence = "low" <=> ~Engine!confidence_and_evidence(ctx)
  /\ confidence = "high" => ctx.confidence >= Engine!AutoThreshold
  /\ confidence = "medium" => ctx.confidence < Engine!AutoThreshold
  /\ Engine!prohibited_action(ctx) /\ Engine!allowlist(ctx) /\ Engine!environment(ctx)
  /\ ctx.attempts = st[r].attempts
  /\ ctx.grant = Engine!NoGrant /\ ctx.since = -1 /\ ~ctx.locked

PolicyExact ==
  \A r \in Runs : \A ctx :
    pc[r] = "evaluate_policy" /\ NodeContext(r, ctx)
      => Engine!evaluate(ctx) = evaluate(st[r].attempts)

LEMMA WithinBudgets ==
  ASSUME NEW a \in Nat, NEW n \in 0 .. RetryLimit, a <= n, n > 0 => n = 1
  PROVE  a < 3 /\ ~(a > RetryLimit)
BY RetryLimitAssumption

(* The three cases of IncidentWorkflow's evaluate are what the ten gates   *)
(* of PolicyEngine.evaluate make of such a context, whatever else is in    *)
(* it.  So the attempt budget of the rule set is never the reason to deny, *)
(* and DEFER is never the answer.                                          *)
THEOREM PolicyIsExact == Spec => []PolicyExact
<1>1. ASSUME WorkflowInv, NEW r \in Runs, NEW ctx, pc[r] = "evaluate_policy",
             NodeContext(r, ctx)
      PROVE  Engine!evaluate(ctx) = evaluate(st[r].attempts)
  <2>1. /\ st[r].attempts \in Nat /\ row.attempts \in 0 .. RetryLimit
        /\ mode \in {"AUTOMATIC", "APPROVAL_REQUIRED", "DISABLED"}
        /\ confidence \in {"high", "medium", "low"}
    BY Zenon, <1>1, RowTyped, WorkflowAssumption DEF WorkflowInv, TypeOK, GraphState
  <2>2. st[r].attempts <= row.attempts /\ (row.attempts > 0 => row.attempts = 1)
    BY SMTT(20), <1>1 DEF WorkflowInv, RunInv, RowInv, OneRetry
  <2>3. /\ ctx.attempts = st[r].attempts /\ ctx.since = -1 /\ ~ctx.locked
        /\ ctx.grant = Engine!NoGrant /\ ctx.confidence \in Nat
    BY Zenon, <1>1 DEF NodeContext
  <2>4. st[r].attempts < 3 /\ ~(st[r].attempts > RetryLimit)
    BY Zenon, <2>1, <2>2, WithinBudgets
  <2>5. /\ Engine!attempt_budget(ctx) /\ Engine!cooldown(ctx) /\ Engine!resource_lock(ctx)
    BY <2>3, <2>4
    DEF Engine!attempt_budget, Engine!RetryLimit, Engine!cooldown, Engine!resource_lock
  <2>6. Engine!approval_requirement(ctx) =
          IF ctx.mode # "APPROVAL_REQUIRED" /\ ctx.confidence >= Engine!AutoThreshold
            THEN "AUTOMATIC_EXECUTION_PERMITTED" ELSE "APPROVAL_REQUIRED"
    BY Zenon, <2>3 DEF Engine!approval_requirement
  <2>7. /\ Engine!prohibited_action(ctx) /\ Engine!allowlist(ctx) /\ Engine!environment(ctx)
        /\ confidence = "low" <=> ~Engine!confidence_and_evidence(ctx)
    BY Zenon, <1>1 DEF NodeContext
  <2>8. mode = "DISABLED" <=> ~(Engine!kill_switch(ctx) /\ Engine!emergency_stop(ctx))
    <3>1. CASE mode = "DISABLED"
      BY Zenon, <1>1, <3>1 DEF NodeContext, Engine!kill_switch
    <3>2. CASE mode # "DISABLED"
      <4>1. /\ ctx.mode = IF row.approval_required THEN "APPROVAL_REQUIRED" ELSE mode
            /\ Engine!emergency_stop(ctx)
        BY Zenon, <1>1, <3>2 DEF NodeContext
      <4> QED
        BY <3>2, <4>1 DEF Engine!kill_switch
    <3> QED
      BY <3>1, <3>2
  <2>9. Engine!HardGates(ctx) <=> mode # "DISABLED" /\ confidence # "low"
    BY Zenon, <2>5, <2>7, <2>8 DEF Engine!HardGates
  <2>10. CASE mode = "DISABLED" \/ confidence = "low"
    BY Zenon, <2>9, <2>10 DEF evaluate, Engine!evaluate
  <2>11. CASE mode # "DISABLED" /\ confidence # "low"
    <3>1. ctx.mode = IF row.approval_required THEN "APPROVAL_REQUIRED" ELSE mode
      BY Zenon, <1>1, <2>11 DEF NodeContext
    <3>2. /\ confidence = "high" => ctx.confidence >= Engine!AutoThreshold
          /\ confidence = "medium" => ctx.confidence < Engine!AutoThreshold
      BY Zenon, <1>1 DEF NodeContext
    <3>3. ctx.confidence >= Engine!AutoThreshold <=> confidence = "high"
      BY <2>1, <2>3, <2>11, <3>2 DEF Engine!AutoThreshold
    <3> DEFINE asked == mode = "APPROVAL_REQUIRED" \/ row.approval_required
                          \/ confidence = "medium"
    <3>4. Engine!approval_requirement(ctx) =
            IF asked THEN "APPROVAL_REQUIRED" ELSE "AUTOMATIC_EXECUTION_PERMITTED"
      BY <2>1, <2>6, <2>11, <3>1, <3>3
    <3>5. evaluate(st[r].attempts) = IF asked THEN "REQUIRE_APPROVAL" ELSE "ALLOW"
      BY <2>4, <2>11 DEF evaluate
    <3>6. Engine!evaluate(ctx) = IF asked THEN "REQUIRE_APPROVAL" ELSE "ALLOW"
      <4> HIDE DEF asked
      <4> QED
        BY <2>5, <2>9, <2>11, <3>4 DEF Engine!evaluate
    <3> QED
      BY <3>5, <3>6
  <2> QED
    BY <2>10, <2>11
<1>2. WorkflowInv => PolicyExact
  BY Zenon, <1>1 DEF PolicyExact
<1> QED
  BY <1>2, WorkflowInvariance, PTL

-----------------------------------------------------------------------------
(* The adapter *)

Calls == [r \in Runs |-> CallOf(r)]

InCall == {"execute", "restarting", "executed", "failed"}

LEMMA CallsAre ==
  ASSUME NEW r \in Runs
  PROVE  /\ Calls[r] = CallOf(r) /\ Calls'[r] = CallOf(r)'
         /\ pc[r] \notin InCall => Calls[r] = Adapter!Out
         /\ pc'[r] \notin InCall => Calls'[r] = Adapter!Out
         /\ pc[r] = "execute" => Calls[r] = Adapter!In(Attempt(r), "called")
         /\ pc'[r] = "execute" => Calls'[r] = Adapter!In(Attempt(r)', "called")
         /\ pc[r] = "restarting" => Calls[r] = Adapter!In(Attempt(r), "restarting")
         /\ pc'[r] = "restarting" => Calls'[r] = Adapter!In(Attempt(r)', "restarting")
         /\ pc'[r] = "executed" => Calls'[r] = Adapter!In(Attempt(r)', "SUCCEEDED")
         /\ pc'[r] = "failed" => Calls'[r] = Adapter!In(Attempt(r)', "FAILED")
<1>1. Calls[r] = CallOf(r) /\ Calls'[r] = CallOf(r)'
  BY Zenon DEF Calls
<1> QED
  BY <1>1 DEF CallOf, InCall, Adapter!Out, Adapter!In

(* Only the call of the run that moves changes. *)
LEMMA OneCallMoves ==
  ASSUME NEW r \in Runs, \A s \in Runs \ {r} : pc'[s] = pc[s], st' = st
  PROVE  Calls' = [Calls EXCEPT ![r] = Calls'[r]]
<1>1. \A s \in Runs \ {r} : CallOf(s)' = CallOf(s)
  BY Zenon DEF CallOf, Attempt
<1> QED
  BY Zenon, <1>1 DEF Calls

(* A step in which no run enters a call or gets on with one *)
Elsewhere(r) == pc'[r] \notin InCall \/ (pc'[r] = pc[r] /\ st'[r] = st[r])

LEMMA ElsewhereLeaves ==
  ASSUME exec' = exec, \A r \in Runs : Elsewhere(r)
  PROVE  Adapter!Next
<1> DEFINE gone == {r \in Runs : pc'[r] \notin InCall}
<1>1. \A r \in Runs : Calls'[r] = IF r \in gone THEN Adapter!Out ELSE Calls[r]
  <2> TAKE r \in Runs
  <2>1. CASE r \in gone
    BY Zenon, <2>1, CallsAre
  <2>2. CASE r \notin gone
    <3>1. pc'[r] = pc[r] /\ st'[r] = st[r]
      BY Zenon, <2>2 DEF Elsewhere
    <3>2. CallOf(r)' = CallOf(r)
      BY Zenon, <3>1 DEF CallOf, Attempt
    <3> QED
      BY Zenon, <2>2, <3>2, CallsAre
  <2> QED
    BY Zenon, <2>1, <2>2
<1>2. Calls' = [r \in Runs |-> IF r \in gone THEN Adapter!Out ELSE Calls[r]]
  BY Zenon, <1>1 DEF Calls
<1>3. Adapter!Leave(gone)
  BY Zenon, <1>2 DEF Adapter!Leave, Calls
<1> QED
  BY Zenon, <1>3 DEF Adapter!Next

(* A run that goes to a node outside adapter.execute *)
LEMMA GoesElsewhere ==
  ASSUME TypeOK, NEW r \in Runs, NEW n \in Nodes \ InCall, Goto(r, n),
         \A s \in Runs \ {r} : st'[s] = st[s]
  PROVE  \A s \in Runs : Elsewhere(s)
BY Zenon DEF TypeOK, Goto, Elsewhere

LEMMA NodesElsewhere ==
  /\ \A n \in {"idle", "listed", "leasing", "leased", "collect_evidence", "diagnose", "plan",
               "evaluate_policy", "decided", "precheck", "dispatch", "verify", "resolve",
               "escalate", "end"} : n \in Nodes \ InCall
BY DEF Nodes, InCall

LEMMA StartsElsewhere ==
  ASSUME WorkflowInv, NEW r \in Runs, Start(r) \/ Sweep(r)
  PROVE  exec' = exec /\ \A s \in Runs : Elsewhere(s)
<1> USE DEF trials
<1>1. CASE Deduplicate(r)
  BY Zenon, <1>1 DEF Deduplicate, Elsewhere
<1>2. CASE ListStuck(r)
  <2>1. Goto(r, "listed") /\ exec' = exec /\ \A s \in Runs \ {r} : st'[s] = st[s]
    BY Zenon, <1>2 DEF ListStuck, WorkflowInv, TypeOK
  <2> QED
    BY Zenon, <2>1, GoesElsewhere, NodesElsewhere DEF WorkflowInv
<1>3. CASE Deliver(r) \/ Wake(r) \/ Sweep(r)
  <2>1. PICK v : run_incident(r, v)
    BY Zenon, <1>3 DEF Deliver, Wake, Sweep
  <2>2. exec' = exec /\ \E n \in {"leasing", "idle"} : Goto(r, n)
    BY Zenon, <2>1 DEF run_incident, Begins, Skips, Stop
  <2>3. \A s \in Runs \ {r} : st'[s] = st[s]
    BY Zenon, <2>1 DEF run_incident, Begins, Skips, Stop, WorkflowInv, TypeOK
  <2> QED
    BY Zenon, <2>2, <2>3, GoesElsewhere, NodesElsewhere DEF WorkflowInv
<1> QED
  BY Zenon, <1>1, <1>2, <1>3 DEF Start

LEMMA NodeElsewhere ==
  ASSUME WorkflowInv, NEW r \in Runs, Advance(r),
         ~(Dispatch(r) \/ ExecuteNew(r) \/ ExecuteAgain(r) \/ ExecuteFinish(r))
  PROVE  exec' = exec /\ \A s \in Runs : Elsewhere(s)
<1> USE DEF trials
<1>1. SUFFICES ASSUME ~Sweep(r)
               PROVE  /\ exec' = exec /\ \A s \in Runs \ {r} : st'[s] = st[s]
                      /\ \E n \in {"idle", "leased", "collect_evidence", "diagnose", "plan",
                                   "evaluate_policy", "decided", "precheck", "dispatch",
                                   "verify", "resolve", "escalate", "end"} : Goto(r, n)
  BY Zenon, <1>1, StartsElsewhere, GoesElsewhere, NodesElsewhere DEF WorkflowInv
<1>2. st \in [Runs -> GraphState]
  BY Zenon DEF WorkflowInv, TypeOK
<1>3. CASE AcquireLease(r) \/ VerifyLease(r)
  BY Zenon, <1>2, <1>3 DEF AcquireLease, VerifyLease, Stop
<1>4. CASE collect_evidence_node(r) \/ SkipDiagnosis(r) \/ diagnose_node(r)
  BY Zenon, <1>2, <1>4 DEF collect_evidence_node, SkipDiagnosis, diagnose_node
<1>5. CASE SkipPlanning(r) \/ plan_node(r) \/ evaluate_policy_node(r)
  BY Zenon, <1>2, <1>5 DEF SkipPlanning, plan_node, evaluate_policy_node
<1>6. CASE RecordDecision(r)
  <2>1. \A d, b : route_after_policy(d, b) \in {"escalate", "end", "precheck"}
    BY Zenon DEF route_after_policy
  <2> QED
    BY Zenon, <1>2, <1>6, <2>1 DEF RecordDecision
<1>7. CASE PrecheckPasses(r) \/ PrecheckFails(r)
  BY Zenon, <1>2, <1>7 DEF PrecheckPasses, PrecheckFails
<1>8. CASE RecordSuccess(r) \/ RecordFailure(r)
  BY Zenon, <1>2, <1>8 DEF RecordSuccess, RecordFailure
<1>9. CASE VerifyHealed(r) \/ VerifyExternal(r)
  BY Zenon, <1>2, <1>9 DEF VerifyHealed, VerifyExternal
<1>10. CASE VerifyFailedRetry(r) \/ VerifyFailedForGood(r)
  BY Zenon, <1>2, <1>10 DEF VerifyFailedRetry, VerifyFailedForGood
<1>11. CASE resolve_node(r) \/ escalate_node(r)
  BY Zenon, <1>2, <1>11 DEF resolve_node, escalate_node, Settle
<1>12. CASE Finish(r) \/ Raise(r)
  BY Zenon, <1>2, <1>12 DEF Finish, Raise, Stop
<1> QED
  BY Zenon, <1>1, <1>3, <1>4, <1>5, <1>6, <1>7, <1>8, <1>9, <1>10, <1>11, <1>12 DEF Advance

(* Entering a call, and the three ways to get on with one *)
LEMMA ExecuteIsCall ==
  ASSUME WorkflowInv, NEW r \in Runs,
         Dispatch(r) \/ ExecuteNew(r) \/ ExecuteAgain(r) \/ ExecuteFinish(r)
  PROVE  Adapter!Next
<1> DEFINE a == Attempt(r)
<1>1. pc[r] \in {"dispatch", "execute", "restarting"} /\ st' = st
  BY Zenon DEF Dispatch, ExecuteNew, ExecuteAgain, ExecuteFinish
<1>2. a \in Attempts
  <2>1. pc[r] \notin {"verify", "resolve", "escalate", "end"}
    BY <1>1
  <2> QED
    BY Zenon, <2>1, AttemptWithin
<1>3. Attempt(r)' = a
  BY Zenon, <1>1 DEF Attempt
<1>4. ASSUME NEW n \in Nodes, Goto(r, n)
      PROVE  pc'[r] = n /\ Calls' = [Calls EXCEPT ![r] = Calls'[r]]
  BY Zenon, <1>1, <1>4, GotoFrame, OneCallMoves
<1> HIDE DEF a
<1>5. ASSUME NEW status \in {"SUCCEEDED", "FAILED"}, Goto(r, OutcomeNode(status))
      PROVE  Calls' = [Calls EXCEPT ![r] = Adapter!In(a, status)]
  <2>1. CASE status = "SUCCEEDED"
    <3>1. Goto(r, "executed") /\ "executed" \in Nodes
      BY Zenon, <1>5, <2>1 DEF OutcomeNode, Nodes
    <3> QED
      BY Zenon, <1>3, <1>4, <2>1, <3>1, CallsAre
  <2>2. CASE status = "FAILED"
    <3>1. Goto(r, "failed") /\ "failed" \in Nodes
      BY <1>5, <2>2 DEF OutcomeNode, Nodes
    <3> QED
      BY Zenon, <1>3, <1>4, <2>2, <3>1, CallsAre
  <2> QED
    BY Zenon, <2>1, <2>2
<1>6. CASE Dispatch(r)
  <2>1. pc[r] \notin InCall
    BY SMTT(20), <1>6 DEF Dispatch, InCall
  <2>2. pc'[r] = "execute" /\ Calls' = [Calls EXCEPT ![r] = Calls'[r]] /\ exec' = exec
    BY Zenon, <1>4, <1>6 DEF Dispatch, Nodes, trials
  <2>3. Calls[r] = Adapter!Out /\ Calls' = [Calls EXCEPT ![r] = Adapter!In(a, "called")]
    BY Zenon, <1>3, <2>1, <2>2, CallsAre
  <2>4. Adapter!Call(r, a)
    BY Zenon, <2>2, <2>3 DEF Adapter!Call, Calls
  <2> QED
    BY Zenon, <1>2, <2>4 DEF Adapter!Next
<1>7. CASE ExecuteNew(r)
  <2>1. pc'[r] = "restarting" /\ Calls' = [Calls EXCEPT ![r] = Calls'[r]]
    BY Zenon, <1>4, <1>7 DEF ExecuteNew, Nodes
  <2>2. /\ Calls[r] = Adapter!In(a, "called") /\ exec[a] = "none"
        /\ exec' = [exec EXCEPT ![a] = "RUNNING"]
    BY Zenon, <1>7, CallsAre DEF ExecuteNew, a
  <2>3. Calls' = [Calls EXCEPT ![r] = Adapter!In(a, "restarting")]
    BY Zenon, <1>3, <2>1, CallsAre
  <2>4. Adapter!Begin(r, a)
    BY Zenon, <2>2, <2>3 DEF Adapter!Begin, Calls
  <2> QED
    BY Zenon, <1>2, <2>4 DEF Adapter!Next
<1>8. CASE ExecuteAgain(r) \/ ExecuteFinish(r)
  <2>1. PICK status \in {"SUCCEEDED", "FAILED"} :
          /\ \/ pc[r] = "execute" /\ exec[a] \in {"RUNNING", status}
             \/ pc[r] = "restarting" /\ exec[a] = "RUNNING"
          /\ exec' = [exec EXCEPT ![a] = status]
          /\ Goto(r, OutcomeNode(status))
    BY Zenon, <1>8 DEF ExecuteAgain, ExecuteFinish, a
  <2>2. Adapter!Return(r, a, status)
    BY Zenon, <1>5, <2>1 DEF Adapter!Return, Calls
  <2>3. \/ Calls[r] = Adapter!In(a, "called") /\ exec[a] \in {"RUNNING", status}
        \/ Calls[r] = Adapter!In(a, "restarting") /\ exec[a] = "RUNNING"
    BY Zenon, <2>1, CallsAre DEF a
  <2>4. Adapter!Reuse(r, a, status) \/ Adapter!Finish(r, a, status)
    BY Zenon, <2>2, <2>3 DEF Adapter!Reuse, Adapter!Finish, Calls
  <2> QED
    BY Zenon, <1>2, <2>4 DEF Adapter!Next, Adapter!Outcomes
<1> QED
  BY Zenon, <1>6, <1>7, <1>8

(* However its runs are started, raced and killed, the workflow calls the  *)
(* adapter as AdapterCalls has it, which is what DockerExecution is shown  *)
(* to implement.                                                           *)
THEOREM WorkflowRefinesAdapter == Spec => ImplementsAdapter
<1>1. Init => Adapter!Init
  <2> SUFFICES ASSUME Init PROVE Adapter!Init
    OBVIOUS
  <2>1. \A r \in Runs : pc[r] = "idle"
    BY Zenon DEF Init
  <2>2. \A r \in Runs : Calls[r] = Adapter!Out
    BY Zenon, <2>1, CallsAre, NodesElsewhere
  <2>3. Calls \in [Runs -> {Adapter!Out} \cup {Adapter!In(k, "called") : k \in Attempts}]
    BY Zenon, <2>2 DEF Calls
  <2> QED
    BY Zenon, <2>3 DEF Init, Adapter!Init, Calls
<1>2. ASSUME WorkflowInv, Next PROVE Adapter!Next
  <2>1. CASE \E r \in Runs : Start(r) \/ Advance(r)
    BY Zenon, <1>2, <2>1, StartsElsewhere, NodeElsewhere, ExecuteIsCall, ElsewhereLeaves
  <2>2. CASE \E r \in Runs : Fail(r)
    <3>1. PICK r \in Runs : Fail(r)
      BY <2>2
    <3>2. exec' = exec /\ Goto(r, "idle") /\ \A s \in Runs \ {r} : st'[s] = st[s]
      BY Zenon, <1>2, <3>1 DEF Fail, Stop, trials, WorkflowInv, TypeOK
    <3> QED
      BY Zenon, <1>2, <3>2, GoesElsewhere, NodesElsewhere, ElsewhereLeaves DEF WorkflowInv
  <2>3. CASE \E w \in Workers : Crash(w)
    <3>1. PICK w \in Workers : Crash(w)
      BY <2>3
    <3>2. exec' = exec
      BY Zenon, <3>1 DEF Crash, trials
    <3>3. PICK hit : /\ pc' = [r \in Runs |-> IF r \in hit THEN "idle" ELSE pc[r]]
                     /\ st' = [r \in Runs |-> IF r \in hit THEN NoState ELSE st[r]]
      BY Zenon, <3>1 DEF Crash
    <3>4. \A r \in Runs : pc'[r] = "idle" \/ (pc'[r] = pc[r] /\ st'[r] = st[r])
      BY Zenon, <3>3
    <3> QED
      BY Zenon, <3>2, <3>4, NodesElsewhere, ElsewhereLeaves DEF Elsewhere
  <2>4. CASE \/ Approve \/ Reject \/ DecideLate \/ (\E m \in Modes : SetMode(m))
             \/ GrantExpires \/ SomeScheduleComesDue \/ LeaseExpires \/ cleanup_expired_leases
    <3>1. UNCHANGED <<exec, pc, st>>
      BY Zenon, <2>4
      DEF Approve, Reject, DecideLate, SetMode, GrantExpires, SomeScheduleComesDue, ComesDue,
          LeaseExpires, cleanup_expired_leases, trials
    <3> QED
      BY Zenon, <3>1, ElsewhereLeaves DEF Elsewhere
  <2> QED
    BY Zenon, <1>2, <2>1, <2>2, <2>3, <2>4 DEF Next
<1>3. ASSUME UNCHANGED vars PROVE UNCHANGED Adapter!vars
  <2>1. UNCHANGED <<exec, pc, st>>
    BY Zenon, <1>3 DEF vars, trials
  <2>2. \A r \in Runs : CallOf(r)' = CallOf(r)
    BY Zenon, <2>1 DEF CallOf, Attempt
  <2>3. Calls' = Calls
    BY Zenon, <2>2 DEF Calls
  <2> QED
    BY <2>1, <2>3 DEF Adapter!vars, Calls
<1> QED
  BY <1>1, <1>2, <1>3, WorkflowInvariance, PTL DEF Spec, ImplementsAdapter, Adapter!Spec

=============================================================================
