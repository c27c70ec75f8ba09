----------------------------- MODULE AlertIntake -----------------------------
(***************************************************************************)
(* Requests that report alerts: the Alertmanager webhook, which takes a    *)
(* batch, and the generic events endpoint, which takes one firing event.   *)
(* Each request is ONE transaction, whatever the number of its alerts.     *)
(*                                                                         *)
(* A step is a statement, because that is where two requests interleave:   *)
(* under READ COMMITTED a query sees what is committed and what its own    *)
(* transaction wrote, while an insert waits for another transaction that   *)
(* holds the same unique key, until that one commits or rolls back.        *)
(*                                                                         *)
(* A row is "uncommitted" while the transaction that wrote it is open.     *)
(* The correlation key (resource and scenario) stands for the resource as  *)
(* well: the keys below are on resources of their own.                     *)
(***************************************************************************)
EXTENDS Naturals, Sequences

CONSTANTS
  Handlers,     \* requests being served at the same time
  Keys,         \* correlation keys
  KnownKeys,    \* ... whose resource discovery has registered already
  Starts,       \* startsAt of an alert, as its deduplication window
  Batches,      \* bodies of requests: sequences of alerts
  AlertLimit    \* bound: alerts reported, and so incident ids drawn

Alert == [key : Keys, start : Starts, status : {"firing", "resolved"}]

ASSUME IntakeAssumption ==
  /\ KnownKeys \subseteq Keys
  /\ Batches \subseteq Seq(Alert)
  /\ AlertLimit \in Nat

VARIABLES
  pc,         \* per handler: the next statement
  batch,      \* per handler: the alerts still to ingest
  tx,         \* per handler: the rows of its open transaction
  resource,   \* resources, by key
  event,      \* events, by key and deduplication window
  incident,   \* incidents: key and state
  links,      \* incident_events, committed
  accepted,   \* history: firing events of requests that were answered
  sent        \* alerts reported so far, up to AlertLimit

vars == <<pc, batch, tx, resource, event, incident, links, accepted, sent>>

Events == Keys \X Starts

(* Incident ids, in the order they are drawn. *)
Ids == 1 .. AlertLimit

(* Incident states as in AlertLedger. *)
Uncommitted == {"inserted", "announced"}
Active      == {"DETECTED", "WORKING"}

NoTx == [res |-> {}, ev |-> {}, inc |-> {}, links |-> {}, firing |-> {}]

Init ==
  /\ pc = [h \in Handlers |-> "idle"]
  /\ batch = [h \in Handlers |-> <<>>]
  /\ tx = [h \in Handlers |-> NoTx]
  /\ resource = [k \in Keys |-> IF k \in KnownKeys THEN "stored" ELSE "none"]
  /\ event = [e \in Events |-> "none"]
  /\ incident = [i \in Ids |-> [key |-> "none", state |-> "none"]]
  /\ links = {} /\ accepted = {}
  /\ sent = 0

-----------------------------------------------------------------------------
Current(h) == Head(batch[h])

(* Source, resource, fingerprint and window; the status of the alert is    *)
(* part of none of them.                                                   *)
compute_fingerprint(alert) == <<alert.key, alert.start>>

Goto(h, where) == pc' = [pc EXCEPT ![h] = where]

(* On to the next alert of the batch, or to the end of the transaction. *)
NextAlert(h) ==
  /\ batch' = [batch EXCEPT ![h] = Tail(@)]
  /\ Goto(h, IF Len(batch[h]) = 1 THEN "commit" ELSE "resolve")

Send(h, alerts) ==
  /\ pc[h] = "idle" /\ sent + Len(alerts) <= AlertLimit
  /\ sent' = sent + Len(alerts)
  /\ batch' = [batch EXCEPT ![h] = alerts]
  /\ Goto(h, IF alerts = <<>> THEN "idle" ELSE "resolve")
  /\ UNCHANGED <<tx, resource, event, incident, links, accepted>>

(* ResourceResolver.resolve: the queries. *)
Resolve(h) ==
  LET k == Current(h).key IN
  /\ pc[h] = "resolve"
  /\ Goto(h, IF resource[k] = "stored" \/ k \in tx[h].res THEN "store" ELSE "provision")
  /\ UNCHANGED <<batch, tx, resource, event, incident, links, accepted, sent>>

(* ... and the insert of an unmanaged placeholder.  Nothing catches the    *)
(* IntegrityError if another request made the placeholder since: Abort.    *)
Provision(h) ==
  LET k == Current(h).key IN
  /\ pc[h] = "provision"
  /\ resource[k] = "none"
  /\ resource' = [resource EXCEPT ![k] = "uncommitted"]
  /\ tx' = [tx EXCEPT ![h].res = @ \cup {k}]
  /\ Goto(h, "store")
  /\ UNCHANGED <<batch, event, incident, links, accepted, sent>>

(* INSERT ... ON CONFLICT DO NOTHING, then the existing row. *)
store_event(h) ==
  LET e == compute_fingerprint(Current(h)) IN
  /\ pc[h] = "store"
  /\ event[e] = "uncommitted" => e \in tx[h].ev
  /\ event' = [event EXCEPT ![e] = IF @ = "none" THEN "uncommitted" ELSE @]
  /\ tx' = [tx EXCEPT ![h].ev     = IF event[e] = "none" THEN @ \cup {e} ELSE @,
                      ![h].firing = IF Current(h).status = "firing" THEN @ \cup {e} ELSE @]
  /\ Goto(h, IF Current(h).status = "firing" THEN "select" ELSE "resolved")
  /\ UNCHANGED <<batch, resource, incident, links, accepted, sent>>

(* get_active_incident_by_correlation_key, as this transaction sees it. *)
ActiveIncident(h, k) ==
  {i \in Ids : incident[i].key = k /\ (incident[i].state \in Active \/ i \in tx[h].inc)}

link_event(h, i) ==
  tx' = [tx EXCEPT ![h].links = @ \cup {<<compute_fingerprint(Current(h)), i>>}]

(* A resolved alert is linked to the active incident, if there is one. *)
IngestResolved(h) ==
  LET active == ActiveIncident(h, Current(h).key) IN
  /\ pc[h] = "resolved"
  /\ IF active = {} THEN UNCHANGED tx ELSE \E i \in active : link_event(h, i)
  /\ NextAlert(h)
  /\ UNCHANGED <<resource, event, incident, links, accepted, sent>>

(* get_or_create_incident: the query, before the insert and after an       *)
(* IntegrityError.  If the second one finds nothing the error is raised    *)
(* again: Abort.                                                           *)
SelectActive(h) ==
  LET active == ActiveIncident(h, Current(h).key) IN
  /\ pc[h] \in {"select", "reselect"}
  /\ \/ /\ active # {}
        /\ \E i \in active : link_event(h, i)
        /\ NextAlert(h)
     \/ /\ active = {} /\ pc[h] = "select"
        /\ Goto(h, "insert")
        /\ UNCHANGED <<tx, batch>>
  /\ UNCHANGED <<resource, event, incident, links, accepted, sent>>

InsertIncident_NoIndex(h) ==
  /\ pc[h] = "insert"
  /\ \E i \in Ids :
       /\ incident[i].state = "none"
       /\ \A j \in Ids : j < i => incident[j].state # "none"
       /\ incident' = [incident EXCEPT ![i] = [key |-> Current(h).key, state |-> "inserted"]]
       /\ tx' = [tx EXCEPT ![h].inc = @ \cup {i},
                           ![h].links = @ \cup {<<compute_fingerprint(Current(h)), i>>}]
  /\ Goto(h, "publish")
  /\ UNCHANGED <<batch, resource, event, links, accepted, sent>>

(* ... the insert, in a savepoint, against the unique index over the       *)
(* active incidents of a key; then the link and the outbox row.            *)
InsertIncident(h) ==
  LET k == Current(h).key IN
  /\ pc[h] = "insert"
  /\ \A i \in Ids : incident[i].key = k => incident[i].state \notin Active \cup Uncommitted
  /\ \E i \in Ids :
       /\ incident[i].state = "none"
       /\ \A j \in Ids : j < i => incident[j].state # "none"
       /\ incident' = [incident EXCEPT ![i] = [key |-> k, state |-> "inserted"]]
       /\ tx' = [tx EXCEPT ![h].inc = @ \cup {i},
                           ![h].links = @ \cup {<<compute_fingerprint(Current(h)), i>>}]
  /\ Goto(h, "publish")
  /\ UNCHANGED <<batch, resource, event, links, accepted, sent>>

InsertConflict_Ignored(h) ==
  /\ pc[h] = "insert"
  /\ \E i \in Ids : incident[i].key = Current(h).key /\ incident[i].state \in Active
  /\ NextAlert(h)
  /\ UNCHANGED <<tx, resource, event, incident, links, accepted, sent>>

(* IntegrityError: the savepoint is rolled back. *)
InsertConflict(h) ==
  /\ pc[h] = "insert"
  /\ \E i \in Ids : incident[i].key = Current(h).key /\ incident[i].state \in Active
  /\ Goto(h, "reselect")
  /\ UNCHANGED <<batch, tx, resource, event, incident, links, accepted, sent>>

-----------------------------------------------------------------------------
(* The handler tells the workers at once, before it has committed; what    *)
(* publishing raises is logged.  Where the message goes: IncidentDelivery. *)
publish_incident_created(h) ==
  /\ pc[h] = "publish"
  /\ \E i \in tx[h].inc :
       /\ incident[i].state = "inserted"
       /\ incident' = [incident EXCEPT ![i].state = "announced"]
  /\ NextAlert(h)
  /\ UNCHANGED <<tx, resource, event, links, accepted, sent>>

(* Rows of this transaction, turned into committed ones or removed. *)
EndRows(h, res, inc) ==
  /\ resource' = [k \in Keys |-> IF k \in tx[h].res THEN res ELSE resource[k]]
  /\ event' = [e \in Events |-> IF e \in tx[h].ev THEN res ELSE event[e]]
  /\ incident' = [i \in Ids |-> IF i \in tx[h].inc THEN [incident[i] EXCEPT !.state = inc]
                                                   ELSE incident[i]]

EndRequest(h) ==
  /\ tx' = [tx EXCEPT ![h] = NoTx]
  /\ batch' = [batch EXCEPT ![h] = <<>>]
  /\ Goto(h, "idle")

Commit(h) ==
  /\ pc[h] = "commit"
  /\ EndRows(h, "stored", "DETECTED")
  /\ links' = links \cup tx[h].links
  /\ accepted' = accepted \cup tx[h].firing
  /\ EndRequest(h)
  /\ UNCHANGED sent

Abort_KeepingRows(h) ==
  /\ pc[h] # "idle"
  /\ EndRequest(h)
  /\ UNCHANGED <<resource, event, incident, links, accepted, sent>>

(* Any exception, a deadlock the database breaks, or the end of the        *)
(* process: unit_of_work rolls the whole batch back and the sender, who    *)
(* gets no answer or an error, may send it again.                          *)
Abort(h) ==
  /\ pc[h] # "idle"
  /\ EndRows(h, "none", "rolledback")
  /\ EndRequest(h)
  /\ UNCHANGED <<links, accepted, sent>>

(* What no retry inside the request can get past. *)
MustAbort(h) ==
  \/ pc[h] = "provision" /\ resource[Current(h).key] = "stored"
  \/ pc[h] = "reselect" /\ ActiveIncident(h, Current(h).key) = {}

(* The transaction whose row an insert of h is waiting for. *)
WaitsFor(h, g) ==
  /\ g # h
  /\ \/ pc[h] = "provision" /\ Current(h).key \in tx[g].res
     \/ pc[h] = "store" /\ compute_fingerprint(Current(h)) \in tx[g].ev
     \/ pc[h] = "insert" /\ \E i \in tx[g].inc : incident[i].key = Current(h).key

(* One step of a request that is not interrupted. *)
Handle(h) ==
  \/ Resolve(h) \/ Provision(h) \/ store_event(h) \/ IngestResolved(h)
  \/ SelectActive(h) \/ InsertIncident(h) \/ InsertConflict(h)
  \/ publish_incident_created(h) \/ Commit(h)

(* A worker takes the incident up; the workflow closes it. *)
Progress(i) ==
  /\ incident[i].state \in Active
  /\ incident' = [incident EXCEPT ![i].state = IF @ = "DETECTED" THEN "WORKING" ELSE "CLOSED"]
  /\ UNCHANGED <<pc, batch, tx, resource, event, links, accepted, sent>>

Next ==
  \/ \E h \in Handlers : (\E alerts \in Batches : Send(h, alerts)) \/ Handle(h) \/ Abort(h)
  \/ \E i \in Ids : Progress(i)

Spec == Init /\ [][Next]_vars

(* A request is served to its end unless it fails, the failures that have  *)
(* a cause happen, and so does the one by which PostgreSQL breaks a cycle  *)
(* of transactions that wait for each other.                               *)
Fairness ==
  \A h \in Handlers :
    /\ WF_vars(Handle(h))
    /\ WF_vars(MustAbort(h) /\ Abort(h))
    /\ WF_vars((\E g \in Handlers : WaitsFor(h, g) /\ WaitsFor(g, h)) /\ Abort(h))

FairSpec == Spec /\ Fairness

-----------------------------------------------------------------------------
TypeOK ==
  /\ pc \in [Handlers -> {"idle", "resolve", "provision", "store", "select", "insert",
                          "reselect", "resolved", "publish", "commit"}]
  /\ batch \in [Handlers -> Seq(Alert)]
  /\ \A h \in Handlers : batch[h] = <<>> <=> pc[h] \in {"idle", "commit"}
  /\ tx \in [Handlers -> [res : SUBSET Keys, ev : SUBSET Events, inc : SUBSET Ids,
                          links : SUBSET (Events \X Ids), firing : SUBSET Events]]
  /\ resource \in [Keys -> {"none", "uncommitted", "stored"}]
  /\ event \in [Events -> {"none", "uncommitted", "stored"}]
  /\ incident \in [Ids -> [key : Keys \cup {"none"},
                           state : Uncommitted \cup Active \cup {"none", "rolledback", "CLOSED"}]]
  /\ links \subseteq Events \X Ids
  /\ accepted \subseteq Events
  /\ sent \in 0 .. AlertLimit

(* Intake implements AlertLedger: seen through its incident rows, a        *)
(* request inserts an incident only for a key that has no active one, and  *)
(* commits or rolls back all of its incidents in one step.                 *)
Ledger == INSTANCE AlertLedger
            WITH status <- [i \in Ids |-> incident[i].state],
                 keyOf  <- [i \in Ids |-> incident[i].key]

ImplementsLedger == Ledger!LedgerSpec

(* No firing alert gets lost in a request that was answered: its event is  *)
(* stored, and linked to an incident of its key that was committed,        *)
(* although queries, inserts, savepoints and commits of other requests     *)
(* came in between.                                                        *)
AlertsTracked ==
  \A e \in accepted :
    /\ event[e] = "stored"
    /\ \E i \in Ids : /\ <<e, i>> \in links
                      /\ incident[i].key = e[1]
                      /\ incident[i].state \in Active \cup {"CLOSED"}

(* A request never waits for good: neither for another one that waits for  *)
(* it, as two batches that name the same keys in opposite orders do, nor   *)
(* for one that failed.                                                    *)
RequestsEnd == \A h \in Handlers : pc[h] # "idle" ~> pc[h] = "idle"

=============================================================================
