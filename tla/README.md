# TLA+ models of the self-healing agent

The agent watches a demo service, turns alerts into incidents, diagnoses them,
plans a container restart, asks a policy and, if need be, a person for leave,
restarts the container, and verifies that it helped. These modules model it from
the alert to the verdict: how alerts become incidents, how workers hear of them, the
incident row and the workflow that moves it, what is concluded and decided on the
way, the execution of the restart, and its verification.

## The system and its parts

| Part | Code | Modelled in |
| --- | --- | --- |
| Incident row, state machine, optimistic versions, database trigger | `control-api` repository, migrations | `IncidentRules`, `IncidentRecord`, `IncidentStore` |
| Docker adapter: idempotency record, resource lock, quarantine, reconciliation | `provider-adapters`, `services/resources` | `AdapterCalls`, `DockerExecution` |
| Workflow: runner, graph nodes, routes | `agent-core` | `IncidentWorkflow` |
| Leases, schedules, recovery sweeper, stream consumer | `agent-core/runtime`, `agent-worker` | `IncidentWorkflow` |
| Approvals API, automation mode, emergency stop | `control-api/app/api` | `IncidentWorkflow`; the stop also in `DockerExecution` |
| Alert intake: webhook, events endpoint, correlation | `control-api/app/api`, `app/services` | `AlertLedger`, `AlertIntake` |
| Outbox, publishers, incident stream, consumer, recovery list | `control-api/app/services`, `agent-worker` | `IncidentDelivery` |
| Evidence, diagnosis rules and engine | `diagnosis`, `telemetry-client` | `Diagnosis` |
| Action catalog: plans, validator, dry run | `action-catalog` | `Planning` |
| Policy engine | `policy-engine` | `Policy`; in `IncidentWorkflow` the decision only |
| Independent verifier | `agent-core/verification` | `Verification`; in `IncidentWorkflow` the verdict only |
| Checkpoints and resumed runs | `agent-core/runtime`, LangGraph | `Remediation` |
| Discovery, fault injector, telemetry clients, console | | in part: see the end |
| Sessions, dashboard, demo workload | | not modelled |

How they interact. An alert creates an incident (DETECTED) and announces it twice,
from the webhook handler and through the outbox. A worker process has two loops
that call `run_incident`: the stream consumer, on announcements, and the recovery
sweeper, on due schedules and on incidents nobody seems to work on. A run takes
the lease of the incident and walks the graph from its start; each node is a
transaction or two on the incident row and its records. Approvers and operators
write to the same tables.

The modules cut this in four. `AlertIntake` and `IncidentDelivery` go from the alert
to the first transaction of a run, `IncidentStore` is the row, `IncidentWorkflow`
and `DockerExecution` are the control of the runs, and `Remediation` is the contents
that one attempt hands from node to node.

## Modules

**IncidentRules** holds what every writer of the row shares: `TRANSITIONS`, the
checks of `transition`, its UPDATE, and `guard_incident`, the trigger's own copy of
the rules. **IncidentRecord** is the abstract specification: a row that changes by
one legal transition, or by the routing of an approval, at a time. Two nodes make
two transitions in a transaction, hence `TransitionTwice` and
`RequireApprovalAndRoute`.

**IncidentStore** models what really happens: a transaction reads the row (`Read`),
validates on its snapshot and updates where the version still matches (`Write`), or
finds that it does not (`Conflict`), or is rolled back. The transactions are
READ COMMITTED. `dispatches` and `approvedInCycle` are history variables.

**DockerExecution** models `DockerExecutionAdapter.execute` on one container. A run
is a call; runs with the same key are the same attempt made again. Steps are
transactions and Docker calls, and the transaction with `release_lock` is split
where the code reads the lock row without locking it. Docker (external) may restart
the container, time out and restart it later, time out for good, or not know it.
What reconciliation can tell from `StartedAt`, and its tolerance of two seconds,
is kept through the number of starts a run has seen. `undercut` is a history
variable: a call at work has lost its lock, because the 120 s were over or because
its own worker took it again.

**AdapterCalls** is the abstract specification between the two: callers that begin an
attempt once (`Begin`), finish it (`Finish`), find or judge what an earlier call left
(`Reuse`), or go away (`Leave`), beside one record per attempt whose outcome is for
good. `DockerExecution` implements it with locks, restarts and reconciliation, and
the execution nodes of `IncidentWorkflow` implement it as callers who assume no more,
so the two modules fit together although neither contains the other.

**IncidentWorkflow** models the workflow of one incident: `Deliver`, `Deduplicate`,
`Wake`, `ListStuck` and `Sweep` start runs; `AcquireLease` and `VerifyLease` come
next; then one action, or a few, per node, named after it; then `Finish`. `Raise`
is a node that cannot but fail, `Fail` any other exception, `Crash` the death of a
worker. Approvers and operators are `Approve`, `Reject`, `DecideLate`, `SetMode`.
Evidence, diagnosis, plan and verdict are reduced to how the nodes branch on them.
The row is written atomically here, which `IncidentStore` justifies, and
`adapter.execute` is reduced to its records, as in `AdapterCalls`. There is
no clock: leases, grants and schedules expire in steps of their own, except that an
approval wait (1800 s) does not come due before a cooldown (600 s) that was already
running, which the field `behind` of a schedule keeps track of. `undercut` says that a
run at work has lost its lease, to time or to another run of its worker.

**AlertLedger** is what intake promises about incidents: inserted only while the
correlation key is free, announced, then committed or rolled back with the others of
the request. **AlertIntake** implements it. A request is one transaction, and its
statements are the steps, since an INSERT waits for the transaction that holds the
same unique key and fails when that one commits: `Resolve`, `Provision`,
`store_event`, `SelectActive`, `InsertIncident` or `InsertConflict` (which selects
again), `publish_incident_created`, `Commit`, and `Abort` for any exception.
`IngestResolved` is the way of an alert that is over.

**IncidentDelivery** extends the ledger with the ways an incident reaches a worker.
`Intake` writes the outbox row and publishes; `Fetch`, `PublishRow`, `CommitSweep`
and `AbortSweep` are the outbox sweep, which locks its rows for one transaction;
`Read`, `Deduplicate` and `Process` are the stream consumer with its set of versions
seen; `Recover` is the sweeper that asks the database. Redis (external) is a count
of unread messages per incident and the group's pending entries. Publication may
fail for good or end in the dead letter stream, acknowledgement may fail, worker and
sweeper may die.

**Diagnosis**, **Planning** and **Policy** are operators: from the answers of
Docker, Prometheus and Loki to an observation, through the five rules and the
engine's decision table to a diagnosis; from a root cause to a plan, its validation
and the plan that the dry run rebuilds; from a context through ten gates to a
decision. **Verification** is the sampling loop: six checks per sample, warm-up,
stabilization window, time limit and attribution, beside a world in which the
container is replaced or restarts by itself and the fault is cleared or injected
again. `streak` and `relief` are history variables.

**Remediation** composes the four to one attempt at healing. `run_incident` calls
`ainvoke` without asking for durability, so a checkpoint is stored in the background
while the next nodes run and commit: `saved` holds what a new run would start from, for
each checkpoint that may be the last one stored, and a crash picks one of them.
`Resume` is that start: records over checkpointed channels, the observation, confidence
and service being in no record. The resource is bound to no container, or was
registered by hand with one, until a discovery binds it; the row that a discovery
refreshes is taken to be the incident's own. `PlanBadTarget` is the validation of the
target that raises outside the `try` of `plan_node`: everything is rolled back and the
incident is swept again. `lost` is a history variable: a crash took the binding of the
evidence. Crashes during execution and verification, leases and retries are left to
`IncidentWorkflow` and `DockerExecution`.

`MC*` modules give the constants their values. Operators with a name like
`Attempt_OffByOne` are faulty variants of the definition that follows them, and are
used by no specification: each shows that a property notices that fault.

## Runs

| Run | Instance | Checks | Result |
| --- | --- | --- | --- |
| `store` | 3 writers, retry limit 2 | types; a snapshot with the row's version is the row; the trigger never has to object; at most retry limit + 1 dispatches; no way round a required approval; implements `IncidentRecord` | holds |
| `exec_shared` | 3 calls, two of one attempt and worker; locks expire | types; one restart per attempt; callers agree on the outcome; unless a call at work lost its lock, one call at a time and an uncertain outcome quarantines; implements `AdapterCalls` | holds |
| `exec_release` | 3 calls on 3 workers; locks expire | nobody deletes another's lock | violated |
| `workflow_single` | 1 run, all modes, retry limit 1 | types; escalations explained; attempts paid for; cooldown kept; no restart before a required approval; implements `IncidentRecord`, approvals included | holds |
| `workflow_shared` | consumer and sweeper of 1 worker, retry limit 2, leases may expire under a run | escalations, attempts and cooldown as before; RESOLVED was healed; one diagnosis unless a run at work lost its lease; row writes are legal: implements `IncidentRecord`; implements `AdapterCalls` | holds |
| `workflow_lease` | 1 run, whose lease may expire | the row is written only under the lease | violated |
| `workflow_live` | 1 run, fair | no incident stays DETECTED, TRIAGED, PLANNED or APPROVED | holds |
| `workflow_retries` | 1 run, retry limit 2, no faults, fair | after a failed verification the incident comes to an end | violated |
| `intake` | 2 requests, 2 keys, batches in opposite orders, fair | an answered firing alert is stored and linked to a committed incident of its key; requests end; implements `AlertLedger` | holds |
| `delivery` | 2 incidents, 1 outbox sweeper, 1 worker, 1 crash, fair | an incident nobody has worked on leaves a trace; every incident is picked up, unless older ones that stay open fill the recovery list | holds |
| `remediation` | 1 attempt, 2 containers, 1 crash, 1 change of the world, fair | restarts are warranted, unattended ones certain; plans are for the container inspected, unless a crash lost its binding, and stay valid; a pass is stable and earned; the attempt ends, unless its container was registered by name | holds |
| `remediation_alerts` | as `remediation` | a missing or stale signal resets the timer | violated |

Six further configurations state what a document or comment says and are violated;
the next section describes them: `MCDockerExecution_exclusion.cfg` and
`_unproven.cfg`, `MCIncidentWorkflow_late.cfg` and `_duplicate.cfg`,
`MCRemediation_frozen.cfg` and `_unbound.cfg`.

Bounds. Two or three writers, runs and workers are enough for a race, a bystander and
a successor; more only repeat the same conflicts. A retry limit of 1 has a retry and
an exhausted budget; 2, the default of the code, has a retry that is neither the first
nor the last. `FaultLimit` is 1: one exception or crash at any point, with leases,
schedules and grants expiring freely beside it. `StopLimit` bounds how often the
container stops of itself. Diagnosis records are counted up to two, since the question
is whether there is more than one. `intake` has two requests that can wait for each
other, a resource that is known and one that is not, an alert that is repeated, one in
a new window and one that is over; `AlertLimit` 5 lets two batches of two and a single
alert be sent, or up to five single ones. In `delivery` the limits of the set of
versions seen and of the recovery list (5000 and 10 in the code) are 1, so that both
are reached with two incidents. `CopyLimit` 1 allows one copy of an announcement at a
time, unread or in hand; duplicates come one after the other, by the second
announcement, a sweep done again, or a message published before the commit. In
`remediation` the collections lie around the thresholds of the rules, in the
combinations the rules tell apart, and the samples are a good one and each single
deviation from it. A resource starts without a binding or registered under the name
`GivenId`, and is bound at most twice. The window (90 s, 7 samples, 15 s apart, at
most 300 s, 3 readiness successes) is scaled to 1, 2, 1, 4 and 2, which keeps the one
fact the argument needs, that `(MinSamples - 1) * Interval >= Target`; the proofs are
for all values with it. Deadlock is not checked: a settled incident and a finished
call take no further step.

Fairness. In `workflow_live` and `workflow_retries` a run that can take a step does:
the loops of a worker are `while` loops around awaits. Time passes, so schedules come
due and leases expire. The recovery loop runs every few seconds and does its three
duties each time. Nothing is assumed of notifications, approvers or operators, and in
these two runs a run is taken to renew its lease in time. PENDING_APPROVAL is not
among the states of `NeverStranded`, since only a person ends it; nor are DIAGNOSED,
EXECUTING and VERIFYING: see the next section.

In `intake` a request goes on unless it has to wait, one whose insert failed with an
exception nobody catches is aborted, and of two that wait for each other PostgreSQL
aborts one. In `delivery` sweeper and consumer are loops that survive exceptions; a
run which the recovery sweeper starts over and over gets through its first
transaction once, provided that the incident is among the oldest. Nothing says that the
workflow of any incident ends, which the finding about retries refutes for some:
`PickedUp` names ten such incidents, older than this one, as the only way to stay
DETECTED. Nothing is assumed of Redis. In `remediation` a worker
goes on with its run, or recovery resumes it after a crash or an exception; nobody has
to approve.

## Where code and documents disagree

- *Exclusive resource lock* (`docs/m1/docker-boundary.md:71`, `:73`). The lock is
  re-entrant for its owner, the worker, and the in-process lock is made anew for
  every call. Two runs of a worker get in together; the one that is done deletes the
  lock while the other is at work (`MCDockerExecution_exclusion.cfg`). A lock that
  expires under a call lets another worker in. There is no third way: `WorkersExclude`.
- *Release by the owner* (`docs/m1/docker-boundary.md:72`). "An expired worker cannot
  release a new worker's lock." `release_lock` reads the row, compares token and owner,
  and deletes in a second statement; a lock that expires and is taken over in between
  is deleted all the same (`exec_release`).
- *Unproven success* (`ADR-0004:16`). An execution record left RUNNING is taken for
  a success if the container is up, restarted or not
  (`MCDockerExecution_unproven.cfg`).
- *Bounded retries* (`ADR-0007:28`). A retry resumes at DIAGNOSED, planning is
  skipped with its transition, and no later node moves the row. The restart happens
  while the incident is DIAGNOSED, a passing verification cannot resolve it, and a
  failing one does not count (`workflow_retries`). With retry limit 1 the budget is
  used up by then, and the incident escalates.
- *Late approval* (`api/approvals.py:168`). "Incident has been escalated" is said by
  the exception that rolls the escalation back (`MCIncidentWorkflow_late.cfg`).
- *Duplicate wake-ups* (`consumer.py:16`). The lease is re-entrant for the worker, so
  its consumer and its sweeper can both diagnose (`MCIncidentWorkflow_duplicate.cfg`).
- *Lease rechecked* (`lease.py:16`, `:43`). "Recheck lease ownership and incident version
  at each durable boundary." The lease is verified once, before the graph; after that
  only the version is. A run that has lost its lease goes on writing (`workflow_lease`).
  What still holds then is what `workflow_shared` checks.
- *Frozen binding* (`nodes/evidence.py:57`). "then freeze that binding into its plan".
  The binding is in no record until there is a plan. A crash before its checkpoint is
  stored, with the diagnosis committed already, makes planning read the labels of now
  (`MCRemediation_frozen.cfg`).
- *Planning decides* (`nodes/planning.py:29`). "On failure/escalation: Persists
  EscalationRecord & AttentionItem and transitions DIAGNOSED -> ESCALATED." A container
  that was registered by its name is inspected and diagnosed, but its `TargetBinding`
  raises before the `try`; the incident stays DIAGNOSED and is swept again and again
  (`MCRemediation_unbound.cfg`). A resource with no container at all does not get there:
  the inspection finds nothing, and the diagnosis is not actionable.
- *Missing signals* (`verification-contract.md:17`). "Any failing check, missing
  telemetry signal, or stale observation immediately resets the stabilization timer
  to 0 seconds." `get_active_alerts` answers an error with an empty list, which
  passes; and the latency check and the error query do not look at the age of their
  sample (`remediation_alerts`). `PassedIsStable` therefore asks of a sample what the
  code does see to: container and readiness, CPU and traffic that are present and
  fresh, errors and latency that are present, every one of them within its limit, and
  no alert of the profile firing if the alerts were answered.

An EXECUTING incident whose resumed run is refused by the policy or the precheck
stays EXECUTING for as long as the refusal lasts, and a request nobody answers stays
pending; the models show both, and `NeverStranded` leaves those states out. A crash
between the commit of the evidence and its checkpoint makes the resumed run diagnose
an empty bundle and escalate. A firing alert may be linked to an incident that is
closed before the request commits, and then waits for its next notification. A
container that restarts by itself between two samples, 15 s or more before the
second, leaves no sign in them; `PassedIsStable` speaks of samples, as the contract
does.

## Proofs

`IncidentStoreProofs`, for any set of writers and any retry limit: `TypeCorrect`,
`VersionPinsRow`, `ChecksSubsumeTrigger`, `BoundedDispatches`, `ApprovalGateHolds`
and `Refinement`. None of the properties is inductive by itself. The invariant adds
that an open transaction has read no version from the future, that its move was
legal on what it read, and that an incident between attempts has been dispatched no
more often than its attempts say. The version grows with every write, so a snapshot
with the current version is the current row; the rest follows from lemmas about the
rules, the main one being that whatever the Python checks allow the trigger
allows (`GuardAccepts`). `Refinement` maps the row to itself. `RecordHistory` is about
the abstract record alone: a terminal row never changes, the version grows, the
attempts grow by at most one, a required approval stays required. `RowOnlyMovesOn`
is the same of `IncidentStore`, by way of the refinement. `FirstWriterWins`: after a
commit every other open transaction holds an older version.

`DockerExecutionProofs`, for any number of calls, workers and attempts: `TypeCorrect`,
`RestartAtMostOnce` and `ReportsAgree` rest on the execution record alone. The
invariant says that a call which holds the lock or has sent a restart has committed
the record, and that no two such calls share a key. `Exclusion` and `QuarantineHolds`
hold unless `undercut`, for any assignment of calls to workers and with locks that
expire at any time. Their invariant, `LockInv`, says that as long as no call at work
has lost its lock, a call between acquiring and deleting is the one the lock row
names, so that it is alone, and that a call which gave up left the quarantine flag
behind. `ExecutionRefinesAdapter` does not need `undercut` at all: a call is mapped to
where its caller is in it, and a step of it to one of `AdapterCalls` or to a stutter.
The invariant is needed where a call recovers or finishes: the record it has locked is
still RUNNING when the transaction ends. A call whose record was judged meanwhile
raises, which its caller sees as `Leave`.

`AlertIntakeProofs`, for any number of requests, keys and batches:
`IntakeRefinesLedger`, every step of a request is a step of the ledger or a stutter.
The invariant says that the incidents of an open transaction are its own, are not
committed, and have been announced except for the one whose publication is next; so
a commit or a rollback is one of the ledger's. `NoAlertLost` adds that the events of
an open transaction are its own, that a firing alert's event is stored or among them,
and that a request past an alert has linked it to an incident that is committed or
will be together with the link.

`IncidentDeliveryProofs`, for any number of incidents, publishers and workers and any
limits: `NoTraceLost`. It needs that an incident which a worker remembers is pending or
has been worked on, so that a duplicate may be acknowledged, and that one marked
PUBLISHED, or about to be by an open sweep, has its message somewhere or has been
worked on. `DeliveryRefinesLedger`: whatever happens on the way, the ledger sees only
steps of its own, inserts while the key is free among them. `MarksAreFinal`: an outbox
row that is PUBLISHED or FAILED stays so, since the rows that a sweep has fetched are
locked, hence PENDING and in no other sweep.

`IncidentWorkflowProofs`, for any number of runs, workers, exceptions and crashes and
any retry limit, with owners shared and leases lost: `WorkflowTyped`,
`EscalationsAreExplained`, `ResolutionsAreHealed`, `AttemptsAreJustified`,
`WorkflowRefinesRecord` and `OneRetryIsCounted`. The invariant `WorkflowInv` says of
each run that what it remembers of the records is still so, and what must have
happened for it to be at its node (`RunInv`). Records are only ever added (`Grows`),
which is why a run that has been overtaken keeps its part. Of the row it says what the
states stand for, and that an incident with a retry counted is DIAGNOSED or ESCALATED
and has its plan (`OneRetry`). Since a plan is not made twice, no node moves the
incident on from there: `OneRetryIsCounted` is the reason behind `workflow_retries`,
and `RetriedIsNeverResolved` is its other half.

From the same invariant follow the action properties `IncidentOnlyMovesOn` (the row,
as in `RowOnlyMovesOn`) and `RecordsAreKept` (plan, escalation record, outcomes and
decision are never undone). `PolicyIsExact` closes a gap of abstraction: the workflow
decides with three cases where the code has ten gates, and for every context that the
policy node can build the two agree; the attempt budget of the rule set never denies
because a run never counts more than one earlier attempt. `WorkflowRefinesAdapter` maps
a run in the execution node to a call of `AdapterCalls` and every other place to being
out of it.

`DiagnosedOnce` and `RestartsAreAuthorised` hold unless `undercut`, for any assignment
of runs to workers and with leases that expire at any time. As long as no run at work
has lost its lease, a run in the graph holds it (`LeaseHeld`), so it is alone there; what
it knows of diagnosis and approval is so (`FreshDiagnosis`, `ApprovalKnown`), since what
a run read before it got the lease is still true if the version is. This covers workers
of different names, for which TLC is too slow; `workflow_shared` has two runs of one
worker. `MCIncidentWorkflow_duplicate.cfg` shows that the exception is needed.

`IncidentCooldownProofs`: `CooldownIsRespected`, with no such assumption. During a
cooldown its schedule exists and has the row's version; notifications and listed
incidents have older ones, which `run_incident` drops; an approval wait with that
version was made during the cooldown and comes due after it; and the sweeper takes
no incident that has a schedule still to come.

`DiagnosisProofs`, about the operators, for every observation and context:
`ActionableIsWarranted` and `AllowedIsLicensed`. The second also covers grants, locks
and cooldowns that the policy node never passes on. `CautionNeverAllows` says that no
gate works the wrong way round. `StoppedIsDiagnosed` and `OutageIsNotRestarted` are
about the order of the rules when several match. `PlannerRaisesOnBadTargets` says for
which targets the planner's drafts pass the validator, and that there are no others.

`RemediationProofs`, for all windows, containers, answers and numbers of crashes.
`StableVerification`: the counters of the loop never run ahead of the history of
sound samples, and with n of them the clock is at least (n - 1) intervals after the
first. `EarnedVerification`: the injector is asked after the loop has ended.
`WarrantedRestart`, `CertainUnattended` and `SoundPlan` rest on an invariant about
what a crash can take away, `DataInv`. It is about the channels in memory and about
every state a crash could restore (`ChannelsInv`): they agree with the records, an
observation at hand is the one the history remembers, and the binding is there as a
whole, as inspected or as planned, or not at all. The last is why a plan never mixes the
container of one generation with the number of another, although `plan_node` falls
back field by field. A committed diagnosis is the diagnosis of the remembered observation
or of the empty bundle, which is not actionable (`DiagnosisBound`); a plan implies
such a diagnosis and a binding that the resource has had since (`PlanBound`), and without
a loss it is the one inspected (`KnownUnlessLost`).

Assumptions on the constants are those the code justifies: a retry limit in `Nat`,
each call and run with a worker, a value that stands for nobody, finitely many
incident ids, hexadecimal ids for the containers that a discovery binds, and a
verification profile whose samples span its window, as all three of the code do.

Only model-checked: liveness (`RequestsEnd`, `PickedUp`, `RemediationEnds`,
`NeverStranded`), which the prover cannot do. Every other property that a run finds to
hold is also proved.

## Not modelled, and what comes next

Left out for good: HTTP clients, dashboard and read models, redaction and logging
(input and output without shared state); passwords, tokens and cookies of sessions
(library code, single rows); the session-less paths of the nodes, which only tests
use; `renew_lock` and `clear_quarantine`, which nothing calls; the TTL path of
`_check_external_clearance`, which `verify_node` does not use; the health score,
deployment history and similar incidents, which are stored and decide nothing.

Modelled in part: discovery is a binding that moves on, the fault injector is the
status it reports, telemetry is the outcome and age of a query, the console is its
dry run. Simulated notifications and tickets are steps of a plan whose outcome
nothing depends on. DEFER cannot be reached: the policy node passes on no earlier
execution and no lock, so only the theorem about `Policy` covers it.

What could follow: approvals with a clock and repeated decisions; the races of the
fault injector's own timers; `Remediation` over several attempts.
