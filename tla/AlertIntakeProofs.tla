--------------------------- MODULE AlertIntakeProofs --------------------------
(***************************************************************************)
(* Proofs that AlertIntake implements AlertLedger and that it loses no     *)
(* alert, for every number of requests, keys, batches and alerts.          *)
(***************************************************************************)
EXTENDS AlertIntake, SequenceTheorems, TLAPS

Places == {"idle", "resolve", "provision", "store", "select", "insert",
           "reselect", "resolved", "publish", "commit"}

States == Uncommitted \cup Active \cup {"none", "rolledback", "CLOSED"}

Transactions ==
  [res : SUBSET Keys, ev : SUBSET Events, inc : SUBSET Ids,
   links : SUBSET (Events \X Ids), firing : SUBSET Events]

Typed ==
  /\ pc \in [Handlers -> Places]
  /\ batch \in [Handlers -> Seq(Alert)]
  /\ \A h \in Handlers : pc[h] \in Places \ {"idle", "commit"} => batch[h] # <<>>
  /\ tx \in [Handlers -> Transactions]
  /\ incident \in [Ids -> [key : Keys \cup {"none"}, state : States]]

(* The incidents of an open transaction are its own and not committed, and *)
(* at most one of them has not been announced: the one whose publication   *)
(* comes next.                                                             *)
Owned ==
  \A h \in Handlers : \A i \in tx[h].inc :
    /\ \A g \in Handlers : i \in tx[g].inc => g = h
    /\ incident[i].state \in Uncommitted
    /\ incident[i].state = "inserted" =>
         /\ pc[h] = "publish"
         /\ \A j \in tx[h].inc : incident[j].state = "inserted" => j = i

IntakeInv == Typed /\ Owned

(* The alert a request is at. *)
LEMMA CurrentAlert ==
  ASSUME Typed, NEW h \in Handlers, pc[h] \notin {"idle", "commit"}
  PROVE  /\ Current(h).key \in Keys /\ compute_fingerprint(Current(h)) \in Events
         /\ Tail(batch[h]) \in Seq(Alert) /\ (Len(batch[h]) # 1 => Tail(batch[h]) # <<>>)
<1>1. batch[h] \in Seq(Alert) /\ batch[h] # <<>>
  BY DEF Typed
<1>2. Head(batch[h]) \in Alert /\ Tail(batch[h]) \in Seq(Alert)
  BY <1>1
<1>3. Len(batch[h]) # 1 => Tail(batch[h]) # <<>>
  <2>1. Len(Tail(batch[h])) = Len(batch[h]) - 1 /\ Len(batch[h]) \in Nat
    BY <1>1, HeadTailProperties, LenProperties
  <2>2. Tail(batch[h]) = <<>> => Len(Tail(batch[h])) = 0
    BY EmptySeq, Zenon
  <2> DEFINE n == Len(batch[h])
             m == Len(Tail(batch[h]))
  <2>3. m = n - 1 /\ n \in Nat
    BY <2>1
  <2> HIDE DEF m, n
  <2>4. n # 1 => m # 0
    BY <2>3
  <2> QED BY <2>2, <2>4, Zenon DEF m, n
<1> QED BY <1>2, <1>3 DEF Alert, Current, compute_fingerprint, Events

LEMMA NextAlertTyped ==
  ASSUME Typed, NEW h \in Handlers, pc[h] \notin {"idle", "commit"}, NextAlert(h)
  PROVE  /\ pc' \in [Handlers -> Places] /\ batch' \in [Handlers -> Seq(Alert)]
         /\ \A g \in Handlers : pc'[g] \in Places \ {"idle", "commit"} => batch'[g] # <<>>
         /\ \A g \in Handlers : g # h => pc'[g] = pc[g]
         /\ pc'[h] # "publish"
<1>1. Tail(batch[h]) \in Seq(Alert) /\ (Len(batch[h]) # 1 => Tail(batch[h]) # <<>>)
  BY CurrentAlert
<1>2. /\ batch' = [batch EXCEPT ![h] = Tail(batch[h])]
      /\ pc' = [pc EXCEPT ![h] = IF Len(batch[h]) = 1 THEN "commit" ELSE "resolve"]
  BY DEF NextAlert, Goto
<1> QED BY <1>1, <1>2 DEF Typed, Places

(* What a step of one request that does not touch the incidents may do. *)
Quiet(h) ==
  /\ UNCHANGED incident /\ pc[h] # "publish" /\ \A g \in Handlers : g # h => pc'[g] = pc[g]
  /\ \E t \in Transactions : tx' = [tx EXCEPT ![h] = t] /\ t.inc = tx[h].inc

LEMMA QuietStep ==
  ASSUME IntakeInv, NEW h \in Handlers, Quiet(h),
         pc' \in [Handlers -> Places], batch' \in [Handlers -> Seq(Alert)],
         \A g \in Handlers : pc'[g] \in Places \ {"idle", "commit"} => batch'[g] # <<>>
  PROVE  IntakeInv'
<1>1. PICK t \in Transactions : tx' = [tx EXCEPT ![h] = t] /\ t.inc = tx[h].inc
  BY Zenon DEF Quiet
<1>2. tx \in [Handlers -> Transactions]
  BY DEF IntakeInv, Typed, Transactions
<1>3. tx' \in [Handlers -> Transactions] /\ \A g \in Handlers : tx'[g].inc = tx[g].inc
  BY <1>1, <1>2
<1>4. Typed'
  BY <1>3 DEF IntakeInv, Typed, Transactions, Quiet
<1>5. Owned'
  BY Zenon, <1>3 DEF IntakeInv, Owned, Quiet
<1> QED BY <1>4, <1>5 DEF IntakeInv

(* A statement that moves the request on, or writes into its transaction   *)
(* a resource, an event or a link.                                         *)
LEMMA StatementStep ==
  ASSUME IntakeInv, NEW h \in Handlers,
         \/ \E alerts \in Batches : Send(h, alerts)
         \/ Resolve(h) \/ Provision(h) \/ store_event(h) \/ IngestResolved(h)
         \/ SelectActive(h) \/ InsertConflict(h)
  PROVE  IntakeInv' /\ UNCHANGED incident
<1> USE DEF IntakeInv
<1>0. tx \in [Handlers -> Transactions] /\ tx[h] \in Transactions
  BY DEF Typed, Transactions
<1>1. ASSUME UNCHANGED tx PROVE \E t \in Transactions : tx' = [tx EXCEPT ![h] = t] /\ t.inc = tx[h].inc
  <2>1. tx' = [tx EXCEPT ![h] = tx[h]]
    BY <1>0, <1>1
  <2> QED BY Zenon, <1>0, <2>1
<1>2. ASSUME NEW where \in Places \ {"idle", "commit"}, Goto(h, where), UNCHANGED batch,
             pc[h] \notin {"idle", "commit"}
      PROVE  /\ pc' \in [Handlers -> Places] /\ batch' \in [Handlers -> Seq(Alert)]
             /\ \A g \in Handlers : pc'[g] \in Places \ {"idle", "commit"} => batch'[g] # <<>>
             /\ \A g \in Handlers : g # h => pc'[g] = pc[g]
  BY <1>2 DEF Typed, Goto, Places
<1>3. ASSUME NEW alerts \in Batches, Send(h, alerts) PROVE IntakeInv' /\ UNCHANGED incident
  <2>1. alerts \in Seq(Alert) /\ UNCHANGED <<tx, incident>>
    BY <1>3, IntakeAssumption DEF Send
  <2>2. /\ pc' \in [Handlers -> Places] /\ batch' \in [Handlers -> Seq(Alert)]
        /\ \A g \in Handlers : pc'[g] \in Places \ {"idle", "commit"} => batch'[g] # <<>>
        /\ \A g \in Handlers : g # h => pc'[g] = pc[g]
    BY <1>3, <2>1 DEF Send, Goto, Typed, Places
  <2>3. Quiet(h)
    BY <1>1, <1>3, <2>1, <2>2 DEF Quiet, Send
  <2> QED BY <2>1, <2>2, <2>3, QuietStep
<1>4. CASE Resolve(h) \/ InsertConflict(h)
  <2>1. UNCHANGED <<tx, incident, batch>> /\ pc[h] \in {"resolve", "insert"}
    BY <1>4 DEF Resolve, InsertConflict
  <2>2. \E where \in {"store", "provision", "reselect"} : Goto(h, where)
    BY <1>4 DEF Resolve, InsertConflict
  <2>3. /\ pc' \in [Handlers -> Places] /\ batch' \in [Handlers -> Seq(Alert)]
        /\ \A g \in Handlers : pc'[g] \in Places \ {"idle", "commit"} => batch'[g] # <<>>
        /\ \A g \in Handlers : g # h => pc'[g] = pc[g]
    BY <1>2, <2>1, <2>2 DEF Places
  <2>4. Quiet(h)
    BY <1>1, <2>1, <2>3 DEF Quiet
  <2> QED BY <2>1, <2>3, <2>4, QuietStep
<1>5. CASE Provision(h) \/ store_event(h)
  <2>1. UNCHANGED <<incident, batch>> /\ pc[h] \in {"provision", "store"}
    BY <1>5 DEF Provision, store_event
  <2>2. \E where \in {"store", "select", "resolved"} : Goto(h, where)
    BY <1>5 DEF Provision, store_event
  <2>3. /\ pc' \in [Handlers -> Places] /\ batch' \in [Handlers -> Seq(Alert)]
        /\ \A g \in Handlers : pc'[g] \in Places \ {"idle", "commit"} => batch'[g] # <<>>
        /\ \A g \in Handlers : g # h => pc'[g] = pc[g]
    BY <1>2, <2>1, <2>2 DEF Places
  <2>4. Current(h).key \in Keys /\ compute_fingerprint(Current(h)) \in Events
    BY <2>1, CurrentAlert
  <2>5. \E t \in Transactions : tx' = [tx EXCEPT ![h] = t] /\ t.inc = tx[h].inc
    <3>1. CASE Provision(h)
      <4> DEFINE t == [tx[h] EXCEPT !.res = @ \cup {Current(h).key}]
      <4>1. t \in Transactions /\ t.inc = tx[h].inc
        BY <1>0, <2>4 DEF Transactions
      <4>2. tx' = [tx EXCEPT ![h] = t]
        BY <1>0, <3>1 DEF Provision
      <4> QED BY Zenon, <4>1, <4>2
    <3>2. CASE store_event(h)
      <4> DEFINE e == compute_fingerprint(Current(h))
                 t == [tx[h] EXCEPT !.ev = IF event[e] = "none" THEN @ \cup {e} ELSE @,
                                    !.firing = IF Current(h).status = "firing"
                                               THEN @ \cup {e} ELSE @]
      <4>1. t \in Transactions /\ t.inc = tx[h].inc
        BY Zenon, <1>0, <2>4 DEF Transactions
      <4>2. tx' = [tx EXCEPT ![h] = t]
        BY Zenon, <1>0, <3>2 DEF store_event
      <4> QED BY Zenon, <4>1, <4>2
    <3> QED BY <1>5, <3>1, <3>2
  <2>6. Quiet(h)
    BY Zenon, <2>1, <2>3, <2>5 DEF Quiet
  <2> QED BY <2>1, <2>3, <2>6, QuietStep
<1>6. CASE IngestResolved(h) \/ SelectActive(h)
  <2>1. UNCHANGED incident /\ pc[h] \in {"resolved", "select", "reselect"}
    BY <1>6 DEF IngestResolved, SelectActive
  <2>2. compute_fingerprint(Current(h)) \in Events
    BY <2>1, CurrentAlert
  <2>3. /\ pc' \in [Handlers -> Places] /\ batch' \in [Handlers -> Seq(Alert)]
        /\ \A g \in Handlers : pc'[g] \in Places \ {"idle", "commit"} => batch'[g] # <<>>
        /\ \A g \in Handlers : g # h => pc'[g] = pc[g]
    <3>1. NextAlert(h) \/ (Goto(h, "insert") /\ UNCHANGED batch)
      BY <1>6 DEF IngestResolved, SelectActive
    <3> QED BY <1>2, <2>1, <3>1, NextAlertTyped DEF Places
  <2>4. \E t \in Transactions : tx' = [tx EXCEPT ![h] = t] /\ t.inc = tx[h].inc
    <3>1. ASSUME NEW i \in Ids, link_event(h, i)
          PROVE  \E t \in Transactions : tx' = [tx EXCEPT ![h] = t] /\ t.inc = tx[h].inc
      <4> DEFINE l == <<compute_fingerprint(Current(h)), i>>
                 t == [tx[h] EXCEPT !.links = @ \cup {l}]
      <4>1. l \in Events \X Ids
        BY <2>2
      <4> HIDE DEF l
      <4>2. t \in Transactions /\ t.inc = tx[h].inc
        BY <1>0, <4>1 DEF Transactions
      <4>3. tx' = [tx EXCEPT ![h] = t]
        BY <1>0, <3>1 DEF link_event, l
      <4> QED BY Zenon, <4>2, <4>3
    <3>2. UNCHANGED tx \/ \E i \in Ids : link_event(h, i)
      BY <1>6 DEF IngestResolved, SelectActive, ActiveIncident
    <3> QED BY <1>1, <3>1, <3>2
  <2>5. Quiet(h)
    BY Zenon, <2>1, <2>3, <2>4 DEF Quiet
  <2> QED BY <2>1, <2>3, <2>5, QuietStep
<1> QED BY <1>3, <1>4, <1>5, <1>6

-----------------------------------------------------------------------------
(* The steps that the ledger sees. *)

LEMMA InsertStep ==
  ASSUME IntakeInv, NEW h \in Handlers, InsertIncident(h)
  PROVE  IntakeInv' /\ Ledger!LedgerNext
<1> USE DEF IntakeInv
<1> DEFINE k == Current(h).key
           e == compute_fingerprint(Current(h))
<1>1. /\ k \in Keys /\ e \in Events /\ pc[h] = "insert"
      /\ pc' = [pc EXCEPT ![h] = "publish"] /\ UNCHANGED batch
      /\ \A i \in Ids : incident[i].key = k => incident[i].state \notin Active \cup Uncommitted
  BY CurrentAlert DEF InsertIncident, Goto
<1>2. PICK i \in Ids :
        /\ incident[i].state = "none"
        /\ incident' = [incident EXCEPT ![i] = [key |-> k, state |-> "inserted"]]
        /\ tx' = [tx EXCEPT ![h].inc = @ \cup {i}, ![h].links = @ \cup {<<e, i>>}]
  BY Zenon DEF InsertIncident
<1>3. <<e, i>> \in Events \X Ids
  BY <1>1
<1> HIDE DEF k, e
<1>4. /\ tx' \in [Handlers -> Transactions] /\ tx'[h].inc = tx[h].inc \cup {i}
      /\ \A g \in Handlers : g # h => tx'[g] = tx[g]
  <2> DEFINE t == [tx[h] EXCEPT !.inc = @ \cup {i}, !.links = @ \cup {<<e, i>>}]
  <2>1. tx \in [Handlers -> Transactions] /\ tx[h] \in Transactions
    BY DEF Typed, Transactions
  <2>2. tx' = [tx EXCEPT ![h] = t]
    BY Zenon, <1>2, <2>1
  <2>3. t \in Transactions /\ t.inc = tx[h].inc \cup {i}
    BY Zenon, <1>3, <2>1 DEF Transactions
  <2> HIDE DEF t
  <2> QED BY <2>1, <2>2, <2>3
<1>5. Typed'
  BY <1>1, <1>2, <1>4 DEF Typed, Places, States, Uncommitted, Transactions
<1>6. \A g \in Handlers : i \notin tx[g].inc
  BY <1>2 DEF Owned, Uncommitted
<1>7. \A j \in Ids : incident'[j].state = IF j = i THEN "inserted" ELSE incident[j].state
  BY <1>2 DEF Typed
<1>8. \A j \in tx[h].inc : incident[j].state # "inserted"
  BY <1>1 DEF Owned
<1>9. Owned'
  <2> SUFFICES ASSUME NEW g \in Handlers, NEW j \in tx'[g].inc
               PROVE  /\ \A f \in Handlers : j \in tx'[f].inc => f = g
                      /\ incident'[j].state \in Uncommitted
                      /\ incident'[j].state = "inserted" =>
                           /\ pc'[g] = "publish"
                           /\ \A l \in tx'[g].inc : incident'[l].state = "inserted" => l = j
    BY DEF Owned
  <2>1. \A f \in Handlers : tx[f].inc \subseteq Ids
    BY DEF Typed, Transactions
  <2>2. \A f \in Handlers : \A l \in tx[f].inc : incident'[l].state = incident[l].state
    BY <1>6, <1>7, <2>1
  <2>3. CASE j = i
    <3>1. g = h
      BY <1>4, <1>6, <2>3
    <3>2. incident'[i].state = "inserted" /\ pc'[h] = "publish"
      BY <1>1, <1>7 DEF Typed
    <3>3. \A l \in tx'[h].inc : incident'[l].state = "inserted" => l = i
      BY <1>4, <1>8, <2>2
    <3> QED BY <1>4, <1>6, <2>3, <3>1, <3>2, <3>3 DEF Uncommitted
  <2>4. CASE j # i
    <3>1. j \in tx[g].inc
      BY <1>4, <2>4
    <3>2. \A f \in Handlers : j \in tx'[f].inc => j \in tx[f].inc
      BY <1>4, <2>4
    <3>3. g = h => incident'[j].state # "inserted"
      BY <1>8, <2>2, <3>1
    <3>4. g # h => tx'[g].inc = tx[g].inc /\ pc'[g] = pc[g]
      BY <1>1, <1>4 DEF Typed
    <3>5. \A f \in Handlers : j \in tx'[f].inc => f = g
      BY <3>1, <3>2 DEF Owned
    <3> QED BY <2>2, <3>1, <3>3, <3>4, <3>5 DEF Owned
  <2> QED BY <2>3, <2>4
<1>10. PICK c \in Keys : c = k
  BY <1>1
<1>11. Ledger!Insert(i, c)
  BY Zenon, <1>1, <1>2, <1>10
  DEF Typed, Ledger!Insert, Ledger!KeyFree, Ledger!Active, Ledger!Uncommitted,
                    Active, Uncommitted
<1>12. Ledger!LedgerNext
  BY <1>11 DEF Ledger!LedgerNext
<1> QED BY <1>5, <1>9, <1>12

LEMMA PublishStep ==
  ASSUME IntakeInv, NEW h \in Handlers, publish_incident_created(h)
  PROVE  IntakeInv' /\ Ledger!LedgerNext
<1> USE DEF IntakeInv
<1>1. PICK i \in tx[h].inc : /\ incident[i].state = "inserted"
                             /\ incident' = [incident EXCEPT ![i].state = "announced"]
  BY Zenon DEF publish_incident_created
<1>2. pc[h] = "publish" /\ NextAlert(h) /\ UNCHANGED tx /\ i \in Ids
  BY DEF publish_incident_created, Typed, Transactions
<1>3. Typed'
  BY <1>1, <1>2, NextAlertTyped DEF Typed, States, Uncommitted
<1>4. \A g \in Handlers : g # h => pc'[g] = pc[g]
  BY <1>2, NextAlertTyped
<1>5. \A j \in Ids : incident'[j].state = IF j = i THEN "announced" ELSE incident[j].state
  BY <1>1, <1>2 DEF Typed
<1>6. \A g \in Handlers : tx[g].inc \subseteq Ids
  BY DEF Typed, Transactions
<1>7. \A j \in tx[h].inc : incident'[j].state # "inserted"
  BY <1>1, <1>5, <1>6 DEF Owned
<1>8. Owned'
  <2> SUFFICES ASSUME NEW g \in Handlers, NEW j \in tx[g].inc
               PROVE  /\ \A f \in Handlers : j \in tx[f].inc => f = g
                      /\ incident'[j].state \in Uncommitted
                      /\ incident'[j].state = "inserted" =>
                           /\ pc'[g] = "publish"
                           /\ \A l \in tx[g].inc : incident'[l].state = "inserted" => l = j
    BY <1>2 DEF Owned
  <2>1. CASE g = h
    BY <1>5, <1>6, <1>7, <2>1 DEF Owned, Uncommitted
  <2>2. CASE g # h
    <3>1. i \notin tx[g].inc
      BY <1>1, <2>2 DEF Owned
    <3>2. \A l \in tx[g].inc : incident'[l].state = incident[l].state
      BY <1>5, <1>6, <3>1
    <3> QED BY <1>4, <2>2, <3>2 DEF Owned
  <2> QED BY <2>1, <2>2
<1>9. Ledger!Announce(i)
  BY Zenon, <1>1, <1>2 DEF Typed, Ledger!Announce
<1> QED BY <1>2, <1>3, <1>8, <1>9 DEF Ledger!LedgerNext

(* The end of a request: its incidents all get the same state. *)
LEMMA EndStep ==
  ASSUME IntakeInv, NEW h \in Handlers, NEW res, NEW inc \in {"DETECTED", "rolledback"},
         EndRows(h, res, inc), EndRequest(h)
  PROVE  /\ IntakeInv'
         /\ \A i \in Ids : /\ incident'[i].key = incident[i].key
                            /\ incident'[i].state = IF i \in tx[h].inc THEN inc
                                                    ELSE incident[i].state
<1> USE DEF IntakeInv
<1>1. \A i \in Ids : /\ incident'[i].key = incident[i].key
                     /\ incident'[i].state = IF i \in tx[h].inc THEN inc ELSE incident[i].state
  BY DEF EndRows, Typed
<1>2. NoTx \in Transactions
  BY DEF NoTx, Transactions
<1>3. incident' \in [Ids -> [key : Keys \cup {"none"}, state : States]]
  BY Zenon DEF EndRows, Typed, States, Active
<1>4. /\ tx' \in [Handlers -> Transactions] /\ tx'[h].inc = {}
      /\ \A g \in Handlers : g # h => tx'[g] = tx[g] /\ pc'[g] = pc[g]
  BY <1>2 DEF EndRequest, Goto, Typed, Transactions, NoTx
<1>5. Typed'
  BY <1>3, <1>4 DEF EndRequest, Goto, Typed, Places, Transactions
<1>6. Owned'
  <2> SUFFICES ASSUME NEW g \in Handlers, NEW i \in tx'[g].inc
               PROVE  /\ \A f \in Handlers : i \in tx'[f].inc => f = g
                      /\ incident'[i].state \in Uncommitted
                      /\ incident'[i].state = "inserted" =>
                           /\ pc'[g] = "publish"
                           /\ \A l \in tx'[g].inc : incident'[l].state = "inserted" => l = i
    BY DEF Owned
  <2>1. g # h /\ tx'[g] = tx[g] /\ tx[g].inc \subseteq Ids
    BY <1>4 DEF Typed, Transactions
  <2>2. \A l \in tx[g].inc : l \notin tx[h].inc
    BY <2>1 DEF Owned
  <2>3. \A l \in tx[g].inc : incident'[l].state = incident[l].state
    BY <1>1, <2>1, <2>2
  <2>4. \A f \in Handlers : i \in tx'[f].inc => f = g
    BY <1>4, <2>1 DEF Owned
  <2> QED BY <1>4, <2>1, <2>3, <2>4 DEF Owned
<1> QED BY <1>1, <1>5, <1>6

(* At the commit every incident of the transaction has been announced. *)
LEMMA EndRefines ==
  ASSUME IntakeInv, NEW h \in Handlers, Commit(h) \/ Abort(h)
  PROVE  IntakeInv' /\ Ledger!LedgerNext
<1>1. PICK S \in SUBSET Ids : S = tx[h].inc /\ \A i \in S : incident[i].state \in Uncommitted
  BY DEF IntakeInv, Typed, Transactions, Owned
<1>2. CASE Commit(h)
  <2>1. /\ IntakeInv'
        /\ \A i \in Ids : /\ incident'[i].key = incident[i].key
                           /\ incident'[i].state = IF i \in tx[h].inc THEN "DETECTED"
                                                   ELSE incident[i].state
    BY <1>2, EndStep DEF Commit
  <2>2. \A i \in tx[h].inc : incident[i].state = "announced"
    BY <1>1, <1>2 DEF Commit, IntakeInv, Owned, Uncommitted
  <2>3. Ledger!CommitAll(S)
    BY <1>1, <2>1, <2>2 DEF Ledger!CommitAll
  <2>4. Ledger!LedgerNext
    BY <2>3 DEF Ledger!LedgerNext
  <2> QED BY <2>1, <2>4
<1>3. CASE Abort(h)
  <2>1. /\ IntakeInv'
        /\ \A i \in Ids : /\ incident'[i].key = incident[i].key
                           /\ incident'[i].state = IF i \in tx[h].inc THEN "rolledback"
                                                   ELSE incident[i].state
    BY <1>3, EndStep DEF Abort
  <2>2. Ledger!RollBackAll(S)
    BY <1>1, <2>1 DEF Ledger!RollBackAll, Ledger!Uncommitted, Uncommitted
  <2>3. Ledger!LedgerNext
    BY <2>2 DEF Ledger!LedgerNext
  <2> QED BY <2>1, <2>3
<1> QED BY <1>2, <1>3

LEMMA ProgressStep ==
  ASSUME IntakeInv, NEW i \in Ids, Progress(i)
  PROVE  IntakeInv' /\ Ledger!LedgerNext
<1> USE DEF IntakeInv
<1>1. /\ incident[i].state \in Active /\ UNCHANGED <<pc, batch, tx>>
      /\ incident' = [incident EXCEPT ![i].state = IF @ = "DETECTED" THEN "WORKING" ELSE "CLOSED"]
  BY DEF Progress
<1>2. Typed'
  <2>1. incident' \in [Ids -> [key : Keys \cup {"none"}, state : States]]
    BY Zenon, <1>1 DEF Typed, States, Active
  <2> QED BY <1>1, <2>1 DEF Typed
<1>3. \A h \in Handlers : tx[h].inc \subseteq Ids /\ i \notin tx[h].inc
  BY <1>1 DEF Typed, Transactions, Owned, Active, Uncommitted
<1>4. \A j \in Ids : j # i => incident'[j] = incident[j]
  BY <1>1 DEF Typed
<1>5. Owned'
  BY <1>1, <1>3, <1>4 DEF Owned
<1>6. Ledger!Work(i) \/ Ledger!Close(i)
  BY Zenon, <1>1 DEF Typed, Active, Ledger!Work, Ledger!Close
<1> QED BY <1>2, <1>5, <1>6 DEF Ledger!LedgerNext

LEMMA IntakeStep ==
  ASSUME IntakeInv, [Next]_vars
  PROVE  IntakeInv' /\ [Ledger!LedgerNext]_(Ledger!ledger)
<1>1. ASSUME UNCHANGED incident PROVE UNCHANGED Ledger!ledger
  BY <1>1 DEF Ledger!ledger
<1>2. CASE UNCHANGED vars
  BY <1>1, <1>2 DEF vars, IntakeInv, Typed, Owned
<1> QED
  BY <1>1, <1>2, StatementStep, InsertStep, PublishStep, EndRefines, ProgressStep
    DEF Next, Handle

LEMMA IntakeStart == Init => IntakeInv /\ Ledger!LedgerInit
<1> SUFFICES ASSUME Init PROVE IntakeInv /\ Ledger!LedgerInit
  OBVIOUS
<1>1. NoTx \in Transactions /\ NoTx.inc = {}
  BY DEF NoTx, Transactions
<1>2. Typed
  BY <1>1 DEF Init, Typed, Places, States, Transactions
<1>3. Owned
  BY <1>1 DEF Init, Owned
<1> QED BY <1>2, <1>3 DEF Init, IntakeInv, Ledger!LedgerInit

(* Every behaviour of the requests is one of the ledger's: an insert finds *)
(* its key free, a request commits only what it has announced, and commits *)
(* or rolls back all of it at once, however statements of requests         *)
(* interleave (alertmanager_webhook, ingest_event, get_or_create_incident, *)
(* unit_of_work).                                                          *)
THEOREM IntakeRefinesLedger == Spec => ImplementsLedger
<1>1. IntakeInv /\ [Next]_vars => IntakeInv' /\ [Ledger!LedgerNext]_(Ledger!ledger)
  BY IntakeStep
<1> QED BY <1>1, IntakeStart, PTL DEF Spec, ImplementsLedger, Ledger!LedgerSpec

-----------------------------------------------------------------------------
(* Alerts are tracked.  The events of an open transaction are its own; the *)
(* event of a firing alert is stored or among them; and once the request   *)
(* is past the alert, it is linked to an incident of its key that is       *)
(* committed, or will be together with the event.                          *)

Settled(i) == incident[i].state \in Active \cup {"CLOSED"}

AtHand(h, e) ==
  pc[h] \in {"select", "insert", "reselect"} /\ e = compute_fingerprint(Current(h))

Linked(h, e) ==
  \E i \in Ids : /\ <<e, i>> \in tx[h].links /\ incident[i].key = e[1]
                 /\ i \in tx[h].inc \/ Settled(i)

EventsTyped == event \in [Events -> {"none", "uncommitted", "stored"}]

EventsOwned ==
  \A h \in Handlers : \A e \in tx[h].ev :
    event[e] = "uncommitted" /\ \A g \in Handlers : e \in tx[g].ev => g = h

FiringTracked ==
  \A h \in Handlers : \A e \in tx[h].firing :
    /\ event[e] = "stored" \/ e \in tx[h].ev
    /\ AtHand(h, e) \/ Linked(h, e)

AcceptedTyped == accepted \subseteq Events

TrackInv == EventsTyped /\ AcceptedTyped /\ EventsOwned /\ FiringTracked /\ AlertsTracked

LEMMA SettledStays ==
  ASSUME IntakeInv, [Next]_vars, NEW i \in Ids, incident[i].state # "none"
  PROVE  incident'[i].key = incident[i].key /\ (Settled(i) => Settled(i)')
<1> DEFINE st == [j \in Ids |-> incident[j].state]
           ke == [j \in Ids |-> incident[j].key]
<1>1. [Ledger!LedgerNext]_<<st, ke>>
  BY IntakeStep DEF Ledger!ledger
<1>2. /\ st[i] = incident[i].state /\ st'[i] = incident'[i].state
      /\ ke[i] = incident[i].key /\ ke'[i] = incident'[i].key
  OBVIOUS
<1>3. st \in [Ids -> States] /\ ke \in [Ids -> Keys \cup {"none"}]
  BY DEF IntakeInv, Typed
<1>4. /\ ke'[i] = ke[i]
      /\ st[i] \in Active \cup {"CLOSED"} => st'[i] \in Active \cup {"CLOSED"}
  <2>1. ASSUME NEW j \in Ids, NEW k \in Keys, Ledger!Insert(j, k)
        PROVE  <1>4!:
    BY Zenon, <2>1, <1>2, <1>3 DEF Ledger!Insert, Active
  <2>2. ASSUME NEW j \in Ids, Ledger!Announce(j) \/ Ledger!Work(j) \/ Ledger!Close(j)
        PROVE  <1>4!:
    BY Zenon, <2>2, <1>2, <1>3 DEF Ledger!Announce, Ledger!Work, Ledger!Close, Active
  <2>3. ASSUME NEW S \in SUBSET Ids, Ledger!CommitAll(S) \/ Ledger!RollBackAll(S)
        PROVE  <1>4!:
    <3>1. CASE Ledger!CommitAll(S)
      BY Zenon, <3>1, <1>2, <1>3 DEF Ledger!CommitAll, Ledger!Uncommitted, Active
    <3>2. CASE Ledger!RollBackAll(S)
      BY Zenon, <3>2, <1>2, <1>3 DEF Ledger!RollBackAll, Ledger!Uncommitted, Active
    <3> QED BY <2>3, <3>1, <3>2
  <2> QED BY <1>1, <2>1, <2>2, <2>3 DEF Ledger!LedgerNext
<1> QED BY <1>2, <1>4 DEF Settled

(* A step of request h, of which the other ones notice nothing: their      *)
(* alerts stay tracked.  What is left to show is about h itself.           *)
Unnoticed(h) ==
  /\ \A g \in Handlers : g # h => tx'[g] = tx[g] /\ pc'[g] = pc[g] /\ batch'[g] = batch[g]
  /\ \A e \in Events : event[e] = "stored" => event'[e] = "stored"
  /\ \A g \in Handlers : g # h => \A e \in tx[g].ev : event'[e] = event[e] /\ e \notin tx'[h].ev
  /\ links \subseteq links'

OwnTracked(h) ==
  /\ \A e \in tx'[h].ev : event'[e] = "uncommitted"
  /\ \A e \in tx'[h].firing : event'[e] = "stored" \/ e \in tx'[h].ev
  /\ \A e \in tx'[h].firing : AtHand(h, e)' \/ Linked(h, e)'
  /\ \A e \in accepted' \ accepted :
       /\ e \in Events /\ event'[e] = "stored"
       /\ \E i \in Ids : /\ <<e, i>> \in links' /\ incident'[i].key = e[1]
                         /\ incident'[i].state \in Active \cup {"CLOSED"}

(* An incident that a transaction has linked to stays one. *)
LEMMA LinkStays ==
  ASSUME IntakeInv, [Next]_vars, NEW h \in Handlers, NEW e, Linked(h, e),
         tx[h].links \subseteq tx'[h].links, tx[h].inc \subseteq tx'[h].inc
  PROVE  Linked(h, e)'
<1>1. PICK i \in Ids : /\ <<e, i>> \in tx[h].links /\ incident[i].key = e[1]
                       /\ i \in tx[h].inc \/ Settled(i)
  BY DEF Linked
<1>2. incident[i].state # "none"
  BY <1>1 DEF IntakeInv, Owned, Settled, Uncommitted, Active
<1>3. incident'[i].key = incident[i].key /\ (Settled(i) => Settled(i)')
  BY <1>2, SettledStays
<1> QED BY <1>1, <1>3 DEF Linked

LEMMA TrackStep ==
  ASSUME IntakeInv, TrackInv, [Next]_vars, NEW h \in Handlers,
         Unnoticed(h), OwnTracked(h), EventsTyped'
  PROVE  TrackInv'
<1> USE DEF TrackInv
<1>1. \A g \in Handlers : tx[g].ev \subseteq Events /\ tx[g].firing \subseteq Events
  BY DEF IntakeInv, Typed, Transactions
<1>2. AcceptedTyped'
  BY DEF AcceptedTyped, OwnTracked
<1>3. EventsOwned'
  BY DEF EventsOwned, OwnTracked, Unnoticed
<1>4. FiringTracked'
  <2> SUFFICES ASSUME NEW g \in Handlers, NEW e \in tx'[g].firing
               PROVE  /\ event'[e] = "stored" \/ e \in tx'[g].ev
                      /\ AtHand(g, e)' \/ Linked(g, e)'
    BY DEF FiringTracked
  <2>1. CASE g = h
    BY <2>1 DEF OwnTracked
  <2>2. CASE g # h
    <3>1. tx'[g] = tx[g] /\ pc'[g] = pc[g] /\ batch'[g] = batch[g] /\ e \in Events
      BY <1>1, <2>2 DEF Unnoticed
    <3>2. event'[e] = "stored" \/ e \in tx'[g].ev
      BY <3>1 DEF FiringTracked, Unnoticed
    <3>3. AtHand(g, e) => AtHand(g, e)'
      BY <3>1 DEF AtHand, Current
    <3>4. Linked(g, e) => Linked(g, e)'
      BY <3>1, LinkStays
    <3> QED BY <3>1, <3>2, <3>3, <3>4 DEF FiringTracked
  <2> QED BY <2>1, <2>2
<1>5. AlertsTracked'
  <2> SUFFICES ASSUME NEW e \in accepted, e \in accepted'
               PROVE  /\ event'[e] = "stored"
                      /\ \E i \in Ids : /\ <<e, i>> \in links' /\ incident'[i].key = e[1]
                                        /\ incident'[i].state \in Active \cup {"CLOSED"}
    BY DEF AlertsTracked, OwnTracked
  <2>1. PICK i \in Ids : /\ <<e, i>> \in links /\ incident[i].key = e[1]
                         /\ incident[i].state \in Active \cup {"CLOSED"}
    BY Zenon DEF AlertsTracked
  <2>2. incident'[i].key = incident[i].key /\ (Settled(i) => Settled(i)')
    BY <2>1, SettledStays DEF Active
  <2>3. event'[e] = "stored" /\ <<e, i>> \in links'
    BY <2>1 DEF AlertsTracked, AcceptedTyped, Unnoticed
  <2> QED BY <2>1, <2>2, <2>3 DEF Settled
<1> QED BY <1>2, <1>3, <1>4, <1>5

(* Steps that leave the events of the request's transaction alone. *)
LEMMA PlainTracked ==
  ASSUME IntakeInv, TrackInv, [Next]_vars, NEW h \in Handlers,
         UNCHANGED <<event, links, accepted>>,
         \A g \in Handlers : g # h => tx'[g] = tx[g] /\ pc'[g] = pc[g] /\ batch'[g] = batch[g],
         tx'[h].ev = tx[h].ev, tx'[h].firing = tx[h].firing,
         tx[h].links \subseteq tx'[h].links, tx[h].inc \subseteq tx'[h].inc,
         \A e \in tx[h].firing : AtHand(h, e) => AtHand(h, e)' \/ Linked(h, e)'
  PROVE  TrackInv'
<1> USE DEF TrackInv
<1>1. Unnoticed(h)
  BY Zenon DEF Unnoticed, EventsOwned
<1>2. \A e \in tx[h].firing : AtHand(h, e)' \/ Linked(h, e)'
  BY LinkStays DEF FiringTracked
<1>3. OwnTracked(h)
  BY <1>2 DEF OwnTracked, EventsOwned, FiringTracked
<1>4. EventsTyped'
  BY DEF EventsTyped
<1> QED BY <1>1, <1>3, <1>4, TrackStep

LEMMA MoveTracked ==
  ASSUME IntakeInv, TrackInv, [Next]_vars, NEW h \in Handlers,
         \/ \E alerts \in Batches : Send(h, alerts)
         \/ Resolve(h) \/ Provision(h) \/ InsertConflict(h) \/ publish_incident_created(h)
  PROVE  TrackInv'
<1>0. /\ pc \in [Handlers -> Places] /\ batch \in [Handlers -> Seq(Alert)]
      /\ tx \in [Handlers -> Transactions]
  BY DEF IntakeInv, Typed
<1>1. UNCHANGED <<event, links, accepted>>
  BY DEF Send, Resolve, Provision, InsertConflict, publish_incident_created
<1>2. \A g \in Handlers : g # h => tx'[g] = tx[g] /\ pc'[g] = pc[g] /\ batch'[g] = batch[g]
  BY <1>0 DEF Send, Resolve, Provision, InsertConflict, publish_incident_created, NextAlert, Goto
<1>3. /\ tx'[h].ev = tx[h].ev /\ tx'[h].firing = tx[h].firing
      /\ tx[h].links \subseteq tx'[h].links /\ tx[h].inc \subseteq tx'[h].inc
  <2>1. CASE Provision(h)
    BY <1>0, <2>1 DEF Provision, Transactions
  <2>2. CASE ~Provision(h)
    BY <2>2 DEF Send, Resolve, InsertConflict, publish_incident_created
  <2> QED BY <2>1, <2>2
<1>4. \A e : AtHand(h, e) => AtHand(h, e)'
  <2>1. CASE InsertConflict(h)
    BY <1>0, <2>1 DEF InsertConflict, AtHand, Goto, Current
  <2>2. CASE ~InsertConflict(h)
    BY <2>2 DEF Send, Resolve, Provision, publish_incident_created, AtHand
  <2> QED BY <2>1, <2>2
<1> QED BY <1>1, <1>2, <1>3, <1>4, PlainTracked

LEMMA StoreTracked ==
  ASSUME IntakeInv, TrackInv, [Next]_vars, NEW h \in Handlers, store_event(h)
  PROVE  TrackInv'
<1> USE DEF TrackInv
<1> DEFINE e == compute_fingerprint(Current(h))
           firing == Current(h).status = "firing"
<1>0. /\ pc \in [Handlers -> Places] /\ tx \in [Handlers -> Transactions]
      /\ event \in [Events -> {"none", "uncommitted", "stored"}]
  BY DEF IntakeInv, Typed, EventsTyped
<1>1. /\ pc[h] = "store" /\ e \in Events /\ UNCHANGED <<batch, links, accepted>>
      /\ event[e] = "uncommitted" => e \in tx[h].ev
      /\ event' = [event EXCEPT ![e] = IF @ = "none" THEN "uncommitted" ELSE @]
      /\ pc' = [pc EXCEPT ![h] = IF firing THEN "select" ELSE "resolved"]
  BY CurrentAlert DEF store_event, Goto, IntakeInv
<1>2. /\ \A g \in Handlers : g # h => tx'[g] = tx[g]
      /\ tx'[h].ev = IF event[e] = "none" THEN tx[h].ev \cup {e} ELSE tx[h].ev
      /\ tx'[h].firing = IF firing THEN tx[h].firing \cup {e} ELSE tx[h].firing
      /\ tx'[h].links = tx[h].links /\ tx'[h].inc = tx[h].inc
  BY <1>0 DEF store_event, Transactions
<1>3. \A d : firing /\ d = e => AtHand(h, d)'
  BY <1>0, <1>1 DEF AtHand, Current
<1>4. \A d \in tx[h].firing : Linked(h, d)'
  <2>1. \A d \in tx[h].firing : Linked(h, d)
    BY <1>1 DEF FiringTracked, AtHand
  <2> QED BY Zenon, <1>2, <2>1, LinkStays
<1> HIDE DEF e, firing
<1>5. EventsTyped'
  BY <1>0, <1>1 DEF EventsTyped
<1>6. \A d \in Events : event[d] # "none" => event'[d] = event[d]
  BY <1>0, <1>1
<1>7. event[e] = "none" => event'[e] = "uncommitted" /\ \A g \in Handlers : e \notin tx[g].ev
  BY <1>0, <1>1 DEF EventsOwned
<1>8. \A g \in Handlers : tx[g].ev \subseteq Events /\ tx[g].firing \subseteq Events
  BY <1>0 DEF Transactions
<1>9. Unnoticed(h)
  <2>1. \A g \in Handlers : g # h => tx'[g] = tx[g] /\ pc'[g] = pc[g] /\ batch'[g] = batch[g]
    BY <1>0, <1>1, <1>2
  <2>2. ASSUME NEW g \in Handlers, g # h, NEW d \in tx[g].ev
        PROVE  event'[d] = event[d] /\ d \notin tx'[h].ev
    <3>1. event[d] = "uncommitted" /\ d \in Events /\ d \notin tx[h].ev
      BY <1>8, <2>2 DEF EventsOwned
    <3> QED BY <1>2, <1>6, <1>7, <2>2, <3>1
  <2> QED BY <1>1, <1>6, <2>1, <2>2 DEF Unnoticed
<1>10. OwnTracked(h)
  <2>1. \A d \in tx'[h].ev : event'[d] = "uncommitted"
    BY <1>2, <1>6, <1>7, <1>8 DEF EventsOwned
  <2>2. \A d \in tx'[h].firing : event'[d] = "stored" \/ d \in tx'[h].ev
    <3>1. \A d \in tx[h].firing : event'[d] = "stored" \/ d \in tx'[h].ev
      BY <1>2, <1>6, <1>8 DEF FiringTracked
    <3>2. event'[e] = "stored" \/ e \in tx'[h].ev
      BY <1>0, <1>1, <1>2, <1>6
    <3> QED BY <1>2, <3>1, <3>2
  <2>3. \A d \in tx'[h].firing : AtHand(h, d)' \/ Linked(h, d)'
    BY <1>2, <1>3, <1>4
  <2> QED BY <1>1, <2>1, <2>2, <2>3 DEF OwnTracked
<1> QED BY <1>5, <1>9, <1>10, TrackStep

LEMMA LinkTracked ==
  ASSUME IntakeInv, TrackInv, [Next]_vars, NEW h \in Handlers,
         IngestResolved(h) \/ SelectActive(h)
  PROVE  TrackInv'
<1>0. /\ pc \in [Handlers -> Places] /\ batch \in [Handlers -> Seq(Alert)]
      /\ tx \in [Handlers -> Transactions]
  BY DEF IntakeInv, Typed
<1>1. UNCHANGED <<event, incident, links, accepted>> /\ pc[h] \in {"resolved", "select", "reselect"}
  BY DEF IngestResolved, SelectActive
<1>2. UNCHANGED tx \/ \E i \in ActiveIncident(h, Current(h).key) : link_event(h, i)
  BY DEF IngestResolved, SelectActive
<1>3. \A g \in Handlers : g # h => tx'[g] = tx[g] /\ pc'[g] = pc[g] /\ batch'[g] = batch[g]
  BY <1>0, <1>2 DEF IngestResolved, SelectActive, link_event, NextAlert, Goto
<1>4. /\ tx'[h].ev = tx[h].ev /\ tx'[h].firing = tx[h].firing
      /\ tx[h].links \subseteq tx'[h].links /\ tx[h].inc \subseteq tx'[h].inc
  BY <1>0, <1>2 DEF link_event, Transactions
<1>5. ASSUME NEW e \in tx[h].firing, AtHand(h, e) PROVE AtHand(h, e)' \/ Linked(h, e)'
  <2>1. SelectActive(h) /\ e = compute_fingerprint(Current(h))
    BY Zenon, <1>5 DEF AtHand, IngestResolved
  <2>2. CASE Goto(h, "insert") /\ UNCHANGED batch
    BY <1>0, <2>1, <2>2 DEF AtHand, Goto, Current
  <2>3. ASSUME NEW i \in ActiveIncident(h, Current(h).key), link_event(h, i) PROVE Linked(h, e)'
    <3>1. /\ i \in Ids /\ incident[i].key = Current(h).key
          /\ i \in tx[h].inc \/ Settled(i)
      BY <2>3 DEF ActiveIncident, Settled
    <3>2. e[1] = Current(h).key
      BY <2>1 DEF compute_fingerprint
    <3>3. <<e, i>> \in tx'[h].links /\ tx'[h].inc = tx[h].inc
      BY <1>0, <2>1, <2>3 DEF link_event, Transactions
    <3> QED BY <1>1, <3>1, <3>2, <3>3 DEF Linked, Settled
  <2> QED BY Zenon, <2>1, <2>2, <2>3 DEF SelectActive
<1> QED BY <1>1, <1>3, <1>4, <1>5, PlainTracked

LEMMA InsertTracked ==
  ASSUME IntakeInv, TrackInv, [Next]_vars, NEW h \in Handlers, InsertIncident(h)
  PROVE  TrackInv'
<1>0. /\ pc \in [Handlers -> Places] /\ tx \in [Handlers -> Transactions]
      /\ incident \in [Ids -> [key : Keys \cup {"none"}, state : States]]
  BY DEF IntakeInv, Typed
<1>1. PICK i \in Ids :
        /\ incident' = [incident EXCEPT ![i] = [key |-> Current(h).key, state |-> "inserted"]]
        /\ tx' = [tx EXCEPT ![h].inc = @ \cup {i},
                            ![h].links = @ \cup {<<compute_fingerprint(Current(h)), i>>}]
  BY Zenon DEF InsertIncident
<1>2. UNCHANGED <<event, links, accepted, batch>>
  BY DEF InsertIncident
<1>3. \A g \in Handlers : g # h => tx'[g] = tx[g] /\ pc'[g] = pc[g] /\ batch'[g] = batch[g]
  BY <1>0, <1>1, <1>2 DEF InsertIncident, Goto
<1>4. /\ tx'[h].ev = tx[h].ev /\ tx'[h].firing = tx[h].firing
      /\ tx'[h].inc = tx[h].inc \cup {i}
      /\ tx'[h].links = tx[h].links \cup {<<compute_fingerprint(Current(h)), i>>}
  BY <1>0, <1>1 DEF Transactions
<1>5. ASSUME NEW e \in tx[h].firing, AtHand(h, e) PROVE Linked(h, e)'
  <2>1. e = compute_fingerprint(Current(h)) /\ e[1] = Current(h).key
    BY <1>5 DEF AtHand, compute_fingerprint
  <2>2. incident'[i].key = e[1] /\ i \in tx'[h].inc /\ <<e, i>> \in tx'[h].links
    BY <1>0, <1>1, <1>4, <2>1
  <2> QED BY <2>2 DEF Linked
<1> QED BY Zenon, <1>2, <1>3, <1>4, <1>5, PlainTracked

(* At the commit no alert is at hand, and the links become visible with    *)
(* the incidents and events they join.                                     *)
LEMMA EndTracked ==
  ASSUME IntakeInv, TrackInv, [Next]_vars, NEW h \in Handlers, Commit(h) \/ Abort(h)
  PROVE  TrackInv'
<1> USE DEF TrackInv
<1>0. /\ pc \in [Handlers -> Places] /\ batch \in [Handlers -> Seq(Alert)]
      /\ tx \in [Handlers -> Transactions]
      /\ event \in [Events -> {"none", "uncommitted", "stored"}]
  BY DEF IntakeInv, Typed, EventsTyped
<1>1. /\ EndRequest(h) /\ links \subseteq links'
      /\ \E res \in {"stored", "none"} :
           event' = [e \in Events |-> IF e \in tx[h].ev THEN res ELSE event[e]]
  BY DEF Commit, Abort, EndRows
<1>2. EventsTyped'
  BY <1>0, <1>1 DEF EventsTyped
<1>3. tx'[h].ev = {} /\ tx'[h].firing = {}
  BY <1>0, <1>1 DEF EndRequest, NoTx
<1>4. \A g \in Handlers : g # h => tx'[g] = tx[g] /\ pc'[g] = pc[g] /\ batch'[g] = batch[g]
  BY <1>0, <1>1 DEF EndRequest, Goto
<1>5. \A g \in Handlers : tx[g].ev \subseteq Events /\ tx[g].firing \subseteq Events
  BY <1>0 DEF Transactions
<1>6. Unnoticed(h)
  <2>1. \A e \in Events : e \notin tx[h].ev => event'[e] = event[e]
    BY <1>1
  <2>2. \A e \in tx[h].ev : event[e] # "stored"
    BY DEF EventsOwned
  <2>3. \A g \in Handlers : g # h => \A e \in tx[g].ev : e \notin tx[h].ev
    BY DEF EventsOwned
  <2> QED BY Zenon, <1>1, <1>3, <1>4, <1>5, <2>1, <2>2, <2>3 DEF Unnoticed
<1>7. ASSUME NEW e \in accepted' \ accepted
      PROVE  /\ e \in Events /\ event'[e] = "stored"
             /\ \E i \in Ids : /\ <<e, i>> \in links' /\ incident'[i].key = e[1]
                               /\ incident'[i].state \in Active \cup {"CLOSED"}
  <2>1. /\ pc[h] = "commit" /\ EndRows(h, "stored", "DETECTED")
        /\ links' = links \cup tx[h].links /\ e \in tx[h].firing
    BY <1>7 DEF Commit, Abort
  <2>2. e \in Events /\ event'[e] = "stored"
    BY <1>5, <2>1 DEF EndRows, FiringTracked
  <2>3. PICK i \in Ids : /\ <<e, i>> \in tx[h].links /\ incident[i].key = e[1]
                         /\ i \in tx[h].inc \/ Settled(i)
    BY <2>1 DEF FiringTracked, AtHand, Linked
  <2>4. /\ incident'[i].key = incident[i].key
        /\ incident'[i].state = IF i \in tx[h].inc THEN "DETECTED" ELSE incident[i].state
    BY <1>1, <2>1, EndStep
  <2> QED BY Zenon, <2>1, <2>2, <2>3, <2>4 DEF Settled, Active
<1>8. OwnTracked(h)
  BY Zenon, <1>3, <1>7 DEF OwnTracked
<1> QED BY <1>2, <1>6, <1>8, TrackStep

LEMMA ProgressTracked ==
  ASSUME IntakeInv, TrackInv, [Next]_vars, UNCHANGED <<pc, batch, tx, event, links, accepted>>
  PROVE  TrackInv'
<1> USE DEF TrackInv
<1>1. EventsTyped' /\ AcceptedTyped' /\ EventsOwned'
  BY DEF EventsTyped, AcceptedTyped, EventsOwned
<1>2. FiringTracked'
  BY LinkStays DEF FiringTracked, AtHand, Current
<1>3. AlertsTracked'
  BY SettledStays DEF AlertsTracked, Settled, Active
<1> QED BY <1>1, <1>2, <1>3

(* A firing alert of an answered request is stored and linked to a         *)
(* committed incident of its key, for any number of requests, batches and  *)
(* keys (ingest_event, store_event, get_or_create_incident, unit_of_work). *)
THEOREM NoAlertLost == Spec => []AlertsTracked
<1>1. Init => TrackInv
  BY DEF Init, TrackInv, EventsTyped, AcceptedTyped, EventsOwned, FiringTracked, AlertsTracked, NoTx
<1>2. IntakeInv /\ TrackInv /\ [Next]_vars => TrackInv'
  <2> SUFFICES ASSUME IntakeInv, TrackInv, [Next]_vars PROVE TrackInv'
    OBVIOUS
  <2>1. CASE UNCHANGED vars
    BY <2>1, ProgressTracked DEF vars
  <2>2. ASSUME NEW i \in Ids, Progress(i) PROVE TrackInv'
    BY <2>2, ProgressTracked DEF Progress
  <2> QED
    BY Zenon, <2>1, <2>2, MoveTracked, StoreTracked, LinkTracked, InsertTracked, EndTracked
      DEF Next, Handle
<1>3. IntakeInv /\ [Next]_vars => IntakeInv'
  BY IntakeStep
<1>4. TrackInv => AlertsTracked
  BY DEF TrackInv
<1> QED BY <1>1, <1>2, <1>3, <1>4, IntakeStart, PTL DEF Spec
=============================================================================
