-------------------------- MODULE IncidentDelivery --------------------------
(***************************************************************************)
(* How a recorded incident reaches a worker: the outbox sweeper of the     *)
(* control API, the Redis stream with its consumer group, the stream       *)
(* consumer of each worker with its in-memory deduplication, and the       *)
(* recovery sweeper that asks the database instead.                        *)
(*                                                                         *)
(* Messages about an incident are all alike: both publishers announce      *)
(* version 1, so they are counted.  A run of the workflow is one step that *)
(* takes the incident out of DETECTED, or fails before or after it did;    *)
(* IncidentWorkflow is about what happens then.                            *)
(***************************************************************************)
EXTENDS AlertLedger, FiniteSets

CONSTANTS
  Publishers,   \* outbox sweepers, one per control API process
  Workers,      \* agent workers
  SeenLimit,    \* entries in _seen before it is cleared, 5000 in the code
  ListLimit,    \* incidents a recovery sweep looks at, 10 in the code
  CopyLimit,    \* bound: copies of a message on their way to a worker
  CrashLimit    \* bound: crashes of workers and of sweepers

(* Ids are numbered in the order of created_at, which is the order in      *)
(* which the requests began; they may be inserted in any other.            *)
ASSUME DeliveryAssumption ==
  /\ SeenLimit \in Nat /\ ListLimit \in Nat /\ CopyLimit \in Nat /\ CrashLimit \in Nat
  /\ Ids \subseteq Nat /\ IsFiniteSet(Ids)

VARIABLES
  outbox,     \* outbox_events, by incident
  stream,     \* incident stream: copies of a message nobody has read
  dlq,        \* incidents whose message is in the dead letter stream
  sweep,      \* per publisher: the rows it has locked and their new status
  taken,      \* per worker: messages of its current read not yet processed
  pending,    \* incidents with a pending entry of the group that is in no current
              \* read: some worker read it and did not acknowledge it
  seen,       \* per worker: incidents in _seen
  crashes     \* crashes so far, up to CrashLimit

messages == <<outbox, stream, dlq, sweep, taken, pending, seen>>
vars == <<ledger, messages, crashes>>

Nothing == [i \in Ids |-> 0]
NoRows  == [i \in Ids |-> "none"]
Rows    == {"none", "PENDING", "PUBLISHED", "FAILED"}

TypeOK ==
  /\ LedgerTypeOK
  /\ outbox \in [Ids -> Rows]
  /\ stream \in [Ids -> Nat]
  /\ pending \subseteq Ids /\ dlq \subseteq Ids
  /\ sweep \in [Publishers -> [Ids -> Rows]]
  /\ taken \in [Workers -> [Ids -> Nat]]
  /\ seen \in [Workers -> SUBSET Ids]
  /\ crashes \in 0 .. CrashLimit

Init ==
  /\ LedgerInit
  /\ outbox = NoRows /\ stream = Nothing /\ dlq = {}
  /\ sweep = [s \in Publishers |-> NoRows]
  /\ pending = {}
  /\ taken = [w \in Workers |-> Nothing]
  /\ seen = [w \in Workers |-> {}]
  /\ crashes = 0

-----------------------------------------------------------------------------
(* The requests, as AlertLedger describes them *)

(* publish_with_retry: up to three attempts, each of which may reach the   *)
(* stream although it reports an error, then the dead letter stream.  It   *)
(* raises only if that fails too.                                          *)
publish_with_retry(i, raised) ==
  /\ stream' \in {[stream EXCEPT ![i] = @ + n] : n \in 0 .. 3}
  /\ stream' = stream \/ \A w \in Workers : stream'[i] + taken[w][i] <= CopyLimit
  /\ \/ ~raised /\ stream' # stream /\ UNCHANGED dlq
     \/ ~raised /\ dlq' = dlq \cup {i}
     \/ raised /\ UNCHANGED dlq

Intake ==
  /\ \/ \E i \in Ids, k \in Keys : Insert(i, k) /\ UNCHANGED messages
     \/ \E i \in Ids, raised \in BOOLEAN :
          /\ Announce(i) /\ publish_with_retry(i, raised)
          /\ UNCHANGED <<outbox, sweep, taken, pending, seen>>
     \/ \E S \in SUBSET Ids \ {{}} :
          /\ CommitAll(S)
          /\ outbox' = [i \in Ids |-> IF i \in S THEN "PENDING" ELSE outbox[i]]
          /\ UNCHANGED <<stream, dlq, sweep, taken, pending, seen>>
     \/ \E S \in SUBSET Ids \ {{}} : RollBackAll(S) /\ UNCHANGED messages
  /\ UNCHANGED crashes

-----------------------------------------------------------------------------
(* OutboxService.sweep_and_publish, one transaction *)

(* fetch_pending_outbox_events ... FOR UPDATE SKIP LOCKED *)
Fetch(s) ==
  /\ \A i \in Ids : sweep[s][i] = "none"
  /\ LET rows == {i \in Ids : outbox[i] = "PENDING" /\ \A p \in Publishers : sweep[p][i] = "none"}
     IN  /\ rows # {}
         /\ sweep' = [sweep EXCEPT ![s] = [i \in Ids |-> IF i \in rows THEN "PENDING" ELSE "none"]]
  /\ UNCHANGED <<ledger, outbox, stream, dlq, taken, pending, seen, crashes>>

PublishRow_AlwaysMarked(s, i) ==
  /\ sweep[s][i] = "PENDING"
  /\ \E raised \in BOOLEAN :
       /\ publish_with_retry(i, raised)
       /\ sweep' = [sweep EXCEPT ![s][i] = "PUBLISHED"]
  /\ UNCHANGED <<ledger, outbox, taken, pending, seen, crashes>>

(* A message in the dead letter stream counts as published. *)
PublishRow(s, i) ==
  /\ sweep[s][i] = "PENDING"
  /\ \E raised \in BOOLEAN :
       /\ publish_with_retry(i, raised)
       /\ sweep' = [sweep EXCEPT ![s][i] = IF raised THEN "FAILED" ELSE "PUBLISHED"]
  /\ UNCHANGED <<ledger, outbox, taken, pending, seen, crashes>>

EndSweep(s) == sweep' = [sweep EXCEPT ![s] = NoRows]

CommitSweep(s) ==
  /\ \A i \in Ids : sweep[s][i] # "PENDING"
  /\ \E i \in Ids : sweep[s][i] # "none"
  /\ outbox' = [i \in Ids |-> IF sweep[s][i] # "none" THEN sweep[s][i] ELSE outbox[i]]
  /\ EndSweep(s)
  /\ UNCHANGED <<ledger, stream, dlq, taken, pending, seen, crashes>>

(* The process or the transaction dies: the rows are PENDING as before,    *)
(* those whose message is out included.                                    *)
AbortSweep(s) ==
  /\ sweep[s] # NoRows
  /\ crashes < CrashLimit /\ crashes' = crashes + 1
  /\ EndSweep(s)
  /\ UNCHANGED <<ledger, outbox, stream, dlq, taken, pending, seen>>

-----------------------------------------------------------------------------
(* The stream consumer *)

(* XREADGROUP with ">": new messages only; batch_size is more than there   *)
(* ever are here.                                                          *)
Read(w) ==
  /\ taken[w] = Nothing /\ stream # Nothing
  /\ taken' = [taken EXCEPT ![w] = stream]
  /\ stream' = Nothing
  /\ UNCHANGED <<ledger, outbox, dlq, sweep, pending, seen, crashes>>

(* The worker is done with a message.  Acknowledged, it is gone; XACK may  *)
(* fail like any other call.                                               *)
Drop(w, i) == taken' = [taken EXCEPT ![w][i] = @ - 1]

xack(i) == UNCHANGED pending

NoAck(i) == pending' = pending \cup {i}

Deduplicate(w, i) ==
  /\ taken[w][i] > 0 /\ i \in seen[w]
  /\ Drop(w, i) /\ (xack(i) \/ NoAck(i))
  /\ UNCHANGED <<ledger, outbox, stream, dlq, sweep, seen, crashes>>

(* self._seen.add, before the run, and the bound on its size. *)
Remember(w, i) ==
  LET more == seen[w] \cup {i} IN
  seen' = [seen EXCEPT ![w] = IF Cardinality(more) > SeenLimit THEN {} ELSE more]

(* _process_message.  An incident that is not committed is a LookupError,  *)
(* one past version 1 or closed is skipped.  A run that raises, before or  *)
(* after it moved the incident, leaves its message among the pending       *)
(* entries, which nobody reads again.                                      *)
Process(w, i) ==
  /\ taken[w][i] > 0 /\ i \notin seen[w]
  /\ Remember(w, i) /\ Drop(w, i)
  /\ \/ Work(i) /\ (xack(i) \/ NoAck(i))
     \/ status[i] \in {"WORKING", "CLOSED"} /\ xack(i) /\ UNCHANGED ledger
     \/ NoAck(i) /\ UNCHANGED ledger
  /\ UNCHANGED <<outbox, stream, dlq, sweep, crashes>>

(* The worker restarts: what it had read stays with the group. *)
Crash(w) ==
  /\ crashes < CrashLimit /\ crashes' = crashes + 1
  /\ pending' = pending \cup {i \in Ids : taken[w][i] > 0}
  /\ taken' = [taken EXCEPT ![w] = Nothing]
  /\ seen' = [seen EXCEPT ![w] = {}]
  /\ UNCHANGED <<ledger, outbox, stream, dlq, sweep>>

Listed_ClosedToo(i, states) ==
  /\ status[i] \in states
  /\ Cardinality({j \in Ids : j < i /\ status[j] # "none"}) < ListLimit

(* recover_unprocessed_incidents lists the oldest incidents in one of some *)
(* states.                                                                 *)
Listed(i, states) ==
  /\ status[i] \in states
  /\ Cardinality({j \in Ids : j < i /\ status[j] \in states}) < ListLimit

(* One that is being worked on is left out while it has a lease or a       *)
(* schedule.  The run that is started moves the incident; one that raises  *)
(* first changes nothing.                                                  *)
Recover(i) ==
  /\ Listed(i, {"DETECTED"})
  /\ Work(i)
  /\ UNCHANGED <<messages, crashes>>

Workflow(i) == Close(i) /\ UNCHANGED <<messages, crashes>>

-----------------------------------------------------------------------------
Sweeper(s) == Fetch(s) \/ CommitSweep(s) \/ \E i \in Ids : PublishRow(s, i)

Consumer(w) == Read(w) \/ \E i \in Ids : Deduplicate(w, i) \/ Process(w, i)

Next ==
  \/ Intake
  \/ \E s \in Publishers : Sweeper(s) \/ AbortSweep(s)
  \/ \E w \in Workers : Consumer(w) \/ Crash(w)
  \/ \E i \in Ids : Recover(i) \/ Workflow(i)

Spec == Init /\ [][Next]_vars

(* The sweeper and the consumer are loops that go on after any exception.  *)
(* A run that the recovery sweeper starts again and again gets through to  *)
(* its first transaction once.  But the sweeper need not find an incident  *)
(* while older ones keep it off the list, whether or not they have a lease *)
(* at the moment, and nothing says that the workflow of any of them ends.  *)
FairSpec ==
  /\ Spec
  /\ \A s \in Publishers : WF_vars(Sweeper(s))
  /\ \A w \in Workers : WF_vars(Consumer(w))
  /\ \A i \in Ids : WF_vars(Listed(i, Active) /\ Recover(i))

-----------------------------------------------------------------------------
(* A message about the incident is somewhere between publisher and worker. *)
MessageAround(i) ==
  stream[i] > 0 \/ i \in pending \/ i \in dlq \/ \E w \in Workers : taken[w][i] > 0

(* While nobody has worked on a committed incident something still says    *)
(* so: its outbox row waits or has failed, or its message is in the        *)
(* stream, among the pending entries or in the dead letter stream.  No     *)
(* acknowledgement and no PUBLISHED mark ever removes the last trace, even *)
(* though a message may arrive before the commit, fail, and make the       *)
(* consumer drop its copy from the outbox as a duplicate.                  *)
TraceRemains ==
  \A i \in Ids :
    status[i] = "DETECTED" => outbox[i] \in {"PENDING", "FAILED"} \/ MessageAround(i)

(* Older incidents that are still open fill the list of the recovery       *)
(* sweeper.                                                                *)
Crowded(i) == Cardinality({j \in Ids : j < i /\ status[j] \in Active}) >= ListLimit

(* What the consumer drops as a duplicate and what the publisher parks is  *)
(* found by the recovery sweeper, whatever becomes of the other incidents: *)
(* a committed incident stays DETECTED for ever only if as many older ones *)
(* as the sweeper lists stay open for ever (recover_unprocessed_incidents, *)
(* limit=10, oldest first).                                                *)
PickedUp ==
  \A i \in Ids : status[i] = "DETECTED" ~> (status[i] \in {"WORKING", "CLOSED"} \/ []Crowded(i))

=============================================================================
