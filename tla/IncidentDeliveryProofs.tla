------------------------ MODULE IncidentDeliveryProofs ------------------------
(***************************************************************************)
(* Proofs about AlertLedger and IncidentDelivery, for every number of      *)
(* incidents, publishers, workers, copies and crashes.                     *)
(***************************************************************************)
EXTENDS IncidentDelivery, TLAPS

-----------------------------------------------------------------------------
(* The ledger. *)

LEMMA LedgerStart == LedgerInit => LedgerTypeOK
BY DEF LedgerInit, LedgerTypeOK, Statuses, Active, Uncommitted

LEMMA LedgerTyped ==
  ASSUME LedgerTypeOK, [LedgerNext]_ledger
  PROVE  LedgerTypeOK'
BY DEF LedgerTypeOK, Statuses, Active, Uncommitted, ledger, LedgerNext, Insert, Announce, Work,
       Close, CommitAll, RollBackAll

(* Delivery moves incidents only as the ledger does. *)
LEMMA DeliveryLedger == [Next]_vars => [LedgerNext]_ledger
<1> SUFFICES ASSUME [Next]_vars PROVE [LedgerNext]_ledger
  OBVIOUS
<1>1. CASE Intake
  BY <1>1 DEF Intake, LedgerNext
<1>2. ASSUME NEW s \in Publishers, Sweeper(s) \/ AbortSweep(s) PROVE UNCHANGED ledger
  BY <1>2 DEF Sweeper, AbortSweep, Fetch, CommitSweep, PublishRow
<1>3. ASSUME NEW w \in Workers, Consumer(w) \/ Crash(w) PROVE [LedgerNext]_ledger
  BY <1>3 DEF Consumer, Crash, Read, Deduplicate, Process, LedgerNext
<1>4. ASSUME NEW i \in Ids, Recover(i) \/ Workflow(i) PROVE LedgerNext
  BY <1>4 DEF Recover, Workflow, LedgerNext
<1> QED BY <1>1, <1>2, <1>3, <1>4 DEF Next, vars

(* With publishers, consumers, crashes and recovery around it, what        *)
(* becomes of the incidents is still what AlertLedger allows: whatever     *)
(* intake promises of the ledger holds of the incidents delivered here.    *)
THEOREM DeliveryRefinesLedger == Spec => LedgerSpec
<1>1. Init => LedgerInit
  BY DEF Init
<1> QED BY <1>1, DeliveryLedger, PTL DEF Spec, LedgerSpec

-----------------------------------------------------------------------------
(* The messages.  What is marked PUBLISHED, in the table or in the         *)
(* transaction of a sweep, has left a message that is still about or an    *)
(* incident that somebody has worked on; and what a consumer has seen is a *)
(* pending entry or has been worked on.                                    *)

Worked(i) == status[i] \in {"WORKING", "CLOSED"}

Traced(i) == MessageAround(i) \/ Worked(i)

Recorded == \A i \in Ids : status[i] = "DETECTED" => outbox[i] # "none"

SeenTraced == \A w \in Workers : \A i \in seen[w] : i \in pending \/ Worked(i)

PublishedTraced ==
  \A i \in Ids :
    outbox[i] = "PUBLISHED" \/ (\E s \in Publishers : sweep[s][i] = "PUBLISHED") => Traced(i)

TraceInv == TypeOK /\ Recorded /\ SeenTraced /\ PublishedTraced

(* Work that has begun is not undone. *)
LEMMA WorkedStays ==
  ASSUME LedgerTypeOK, [LedgerNext]_ledger, NEW i \in Ids, Worked(i)
  PROVE  Worked(i)'
BY DEF LedgerTypeOK, LedgerNext, Insert, Announce, Work, Close, CommitAll, RollBackAll, ledger,
       Worked, Uncommitted

(* The result of an attempt to publish. *)
LEMMA PublishFacts ==
  ASSUME NEW i \in Ids, NEW raised \in BOOLEAN, TypeOK, publish_with_retry(i, raised)
  PROVE  /\ stream' \in [Ids -> Nat] /\ \A j \in Ids : stream'[j] >= stream[j]
         /\ dlq' \subseteq Ids /\ dlq \subseteq dlq'
         /\ ~raised => stream'[i] > 0 \/ i \in dlq'
<1>1. PICK n \in 0 .. 3 : stream' = [stream EXCEPT ![i] = @ + n]
  BY DEF publish_with_retry
<1>2. stream \in [Ids -> Nat] /\ dlq \subseteq Ids
  BY DEF TypeOK
<1>3. stream' \in [Ids -> Nat] /\ \A j \in Ids : stream'[j] >= stream[j]
  BY <1>1, <1>2
<1>4. stream' # stream => stream'[i] > 0
  BY <1>1, <1>2
<1> QED BY <1>2, <1>3, <1>4 DEF publish_with_retry

(* A message stays about unless a worker is done with it. *)
LEMMA AroundStays ==
  ASSUME TypeOK, NEW i \in Ids, MessageAround(i),
         stream' \in [Ids -> Nat], stream'[i] >= stream[i],
         pending \subseteq pending', dlq \subseteq dlq', UNCHANGED taken
  PROVE  MessageAround(i)'
BY DEF MessageAround, TypeOK

(* A step that touches neither the marks nor what was seen. *)
LEMMA IntakeStep ==
  ASSUME TraceInv, Intake
  PROVE  TraceInv'
<1> USE DEF messages
<1>1. [LedgerNext]_ledger
  BY DEF Intake, LedgerNext
<1>2. /\ UNCHANGED <<sweep, taken, pending, seen, crashes>>
      /\ stream' \in [Ids -> Nat] /\ \A j \in Ids : stream'[j] >= stream[j]
      /\ dlq' \subseteq Ids /\ dlq \subseteq dlq'
  <2>1. ASSUME NEW i \in Ids, NEW raised \in BOOLEAN, publish_with_retry(i, raised)
        PROVE  /\ stream' \in [Ids -> Nat] /\ \A j \in Ids : stream'[j] >= stream[j]
               /\ dlq' \subseteq Ids /\ dlq \subseteq dlq'
    BY <2>1, PublishFacts DEF TraceInv
  <2>2. ASSUME UNCHANGED <<stream, dlq>>
        PROVE  /\ stream' \in [Ids -> Nat] /\ \A j \in Ids : stream'[j] >= stream[j]
               /\ dlq' \subseteq Ids /\ dlq \subseteq dlq'
    BY <2>2 DEF TraceInv, TypeOK
  <2> QED BY <2>1, <2>2 DEF Intake
<1> DEFINE Marked ==
             /\ outbox' \in [Ids -> Rows]
             /\ \A i \in Ids : outbox'[i] \in {outbox[i], "PENDING"}
             /\ \A i \in Ids : status'[i] = "DETECTED" /\ status[i] # "DETECTED" =>
                                outbox'[i] = "PENDING"
<1>3. Marked
  <2> USE DEF TraceInv, TypeOK, LedgerTypeOK, Rows
  <2>1. ASSUME NEW S \in SUBSET Ids, CommitAll(S),
               outbox' = [i \in Ids |-> IF i \in S THEN "PENDING" ELSE outbox[i]]
        PROVE  Marked
    BY <2>1 DEF CommitAll
  <2>2. ASSUME UNCHANGED outbox,
               \/ \E i \in Ids, k \in Keys : Insert(i, k)
               \/ \E i \in Ids : Announce(i)
               \/ \E S \in SUBSET Ids : RollBackAll(S)
        PROVE  Marked
    BY <2>2 DEF Insert, Announce, RollBackAll
  <2> QED BY <2>1, <2>2 DEF Intake
<1>4. LedgerTypeOK'
  <2>1. LedgerTypeOK
    BY DEF TraceInv, TypeOK
  <2> QED BY <1>1, <2>1, LedgerTyped
<1>5. TypeOK'
  BY <1>2, <1>3, <1>4 DEF TraceInv, TypeOK
<1>6. Recorded'
  BY <1>3 DEF TraceInv, Recorded
<1>7. \A i \in Ids : Worked(i) => Worked(i)'
  BY <1>1, WorkedStays DEF TraceInv, TypeOK
<1>8. SeenTraced'
  BY <1>2, <1>7 DEF TraceInv, TypeOK, SeenTraced
<1>9. \A i \in Ids : Traced(i) => Traced(i)'
  BY <1>2, <1>7, AroundStays DEF TraceInv, Traced
<1>10. PublishedTraced'
  BY <1>2, <1>3, <1>9 DEF TraceInv, PublishedTraced
<1> QED BY <1>5, <1>6, <1>8, <1>10 DEF TraceInv

LEMMA SweepStep ==
  ASSUME TraceInv, NEW s \in Publishers, Sweeper(s) \/ AbortSweep(s)
  PROVE  TraceInv'
<1> USE DEF TraceInv
<1>1. UNCHANGED <<ledger, taken, pending, seen>>
  BY DEF Sweeper, AbortSweep, Fetch, CommitSweep, PublishRow
<1>2. \A i \in Ids : Worked(i)' <=> Worked(i)
  BY <1>1 DEF Worked, ledger
<1>3. SeenTraced' /\ LedgerTypeOK'
  BY <1>1, <1>2 DEF SeenTraced, TypeOK, LedgerTypeOK, ledger
<1>4. CASE Fetch(s)
  <2>1. TypeOK' /\ Recorded'
    BY <1>1, <1>3, <1>4 DEF Fetch, TypeOK, Recorded, ledger, Rows
  <2>2. \A i \in Ids : Traced(i) => Traced(i)'
    BY <1>1, <1>2, <1>4 DEF Fetch, Traced, MessageAround
  <2>3. PublishedTraced'
    BY <1>4, <2>2 DEF Fetch, PublishedTraced, TypeOK
  <2> QED BY <1>3, <2>1, <2>3
<1>5. ASSUME NEW i \in Ids, PublishRow(s, i) PROVE TraceInv'
  <2>1. PICK raised \in BOOLEAN :
          /\ publish_with_retry(i, raised)
          /\ sweep' = [sweep EXCEPT ![s][i] = IF raised THEN "FAILED" ELSE "PUBLISHED"]
    BY Zenon, <1>5 DEF PublishRow
  <2>2. UNCHANGED <<outbox, crashes>>
    BY <1>5 DEF PublishRow
  <2>3. /\ stream' \in [Ids -> Nat] /\ \A j \in Ids : stream'[j] >= stream[j]
        /\ dlq' \subseteq Ids /\ dlq \subseteq dlq'
        /\ ~raised => stream'[i] > 0 \/ i \in dlq'
    BY <2>1, PublishFacts
  <2>4. TypeOK' /\ Recorded'
    BY <1>1, <1>3, <2>1, <2>2, <2>3 DEF TypeOK, Recorded, ledger, Rows
  <2>5. \A j \in Ids : Traced(j) => Traced(j)'
    BY <1>1, <1>2, <2>3, AroundStays DEF Traced
  <2>6. ~raised => Traced(i)'
    BY <2>3 DEF Traced, MessageAround
  <2>7. ASSUME NEW p \in Publishers, NEW j \in Ids, sweep'[p][j] = "PUBLISHED"
        PROVE  sweep[p][j] = "PUBLISHED" \/ (j = i /\ ~raised)
    BY <2>1, <2>7 DEF TypeOK
  <2>8. PublishedTraced'
    BY <2>2, <2>5, <2>6, <2>7 DEF PublishedTraced
  <2> QED BY <1>3, <2>4, <2>8
<1>6. CASE CommitSweep(s) \/ AbortSweep(s)
  <2>1. /\ UNCHANGED <<stream, dlq>> /\ sweep' = [sweep EXCEPT ![s] = NoRows]
        /\ crashes' \in 0 .. CrashLimit
        /\ \A i \in Ids : outbox'[i] = outbox[i] \/ (outbox'[i] = sweep[s][i] /\ sweep[s][i] # "none")
        /\ outbox' \in [Ids -> Rows]
    BY <1>6, DeliveryAssumption DEF CommitSweep, AbortSweep, EndSweep, TypeOK
  <2>2. TypeOK' /\ Recorded'
    BY <1>1, <1>3, <2>1 DEF TypeOK, Recorded, ledger, NoRows, Rows
  <2>3. \A i \in Ids : Traced(i) => Traced(i)'
    BY <1>1, <1>2, <2>1 DEF Traced, MessageAround
  <2>4. PublishedTraced'
    BY <2>1, <2>3 DEF PublishedTraced, TypeOK, NoRows
  <2> QED BY <1>3, <2>2, <2>4
<1> QED BY <1>4, <1>5, <1>6 DEF Sweeper

(* A consumer drops a copy only when the incident has been worked on, is   *)
(* a pending entry already, or becomes one.                                *)
LEMMA ConsumeStep ==
  ASSUME TraceInv, NEW w \in Workers, Consumer(w) \/ Crash(w)
  PROVE  TraceInv'
<1> USE DEF TraceInv
<1>1. UNCHANGED <<outbox, dlq, sweep>> /\ [LedgerNext]_ledger
  BY DEF Consumer, Crash, Read, Deduplicate, Process, LedgerNext
<1>2. \A i \in Ids : Worked(i) => Worked(i)'
  BY <1>1, WorkedStays DEF TypeOK
<1>3. LedgerTypeOK' /\ Recorded'
  <2>1. LedgerTypeOK'
    BY <1>1, LedgerTyped DEF TypeOK
  <2>2. \A i \in Ids : status'[i] = "DETECTED" => status[i] = "DETECTED"
    BY DEF Consumer, Crash, Read, Deduplicate, Process, Work, ledger, TypeOK, LedgerTypeOK
  <2> QED BY <1>1, <2>1, <2>2 DEF Recorded
<1>4. CASE Read(w)
  <2>1. TypeOK' /\ SeenTraced'
    BY <1>1, <1>2, <1>3, <1>4 DEF Read, TypeOK, SeenTraced, Nothing
  <2>2. \A i \in Ids : Traced(i) => Traced(i)'
    BY <1>2, <1>4 DEF Read, Traced, MessageAround, TypeOK, Nothing
  <2>3. PublishedTraced'
    BY <1>1, <2>2 DEF PublishedTraced
  <2> QED BY <1>3, <2>1, <2>3
<1>5. CASE Crash(w)
  <2>1. TypeOK' /\ SeenTraced'
    <3>1. /\ pending' \subseteq Ids /\ pending \subseteq pending' /\ UNCHANGED stream
          /\ crashes' \in 0 .. CrashLimit
      <4>1. crashes' \in 0 .. CrashLimit
        BY <1>5, DeliveryAssumption DEF Crash, TypeOK
      <4>2. pending' = pending \cup {i \in Ids : taken[w][i] > 0} /\ UNCHANGED stream
        BY <1>5 DEF Crash
      <4>3. pending \subseteq Ids
        BY DEF TypeOK
      <4> HIDE DEF TraceInv
      <4> QED BY <4>1, <4>2, <4>3
    <3>2. taken' \in [Workers -> [Ids -> Nat]]
      BY <1>5 DEF Crash, TypeOK, Nothing
    <3>3. /\ seen' \in [Workers -> SUBSET Ids]
          /\ \A v \in Workers : seen'[v] \subseteq seen[v]
      BY <1>5 DEF Crash, TypeOK
    <3>4. SeenTraced'
      BY <1>2, <3>1, <3>3 DEF SeenTraced, TypeOK
    <3> QED BY <1>1, <1>3, <3>1, <3>2, <3>3, <3>4 DEF TypeOK
  <2>2. \A i \in Ids : Traced(i) => Traced(i)'
    BY <1>2, <1>5 DEF Crash, Traced, MessageAround, TypeOK, Nothing
  <2>3. PublishedTraced'
    BY <1>1, <2>2 DEF PublishedTraced
  <2> QED BY <1>3, <2>1, <2>3
<1>6. ASSUME NEW i \in Ids, Deduplicate(w, i) \/ Process(w, i) PROVE TraceInv'
  <2>1. /\ taken[w][i] > 0 /\ UNCHANGED <<stream, crashes>>
        /\ taken' = [taken EXCEPT ![w][i] = @ - 1]
        /\ pending' \in {pending, pending \cup {i}}
    BY <1>6 DEF Deduplicate, Process, Drop, xack, NoAck
  <2>2. i \in pending' \/ Worked(i)'
    <3>1. CASE Deduplicate(w, i)
      BY <1>2, <3>1 DEF Deduplicate, SeenTraced, xack, NoAck, Worked
    <3>2. CASE Process(w, i)
      BY <1>2, <3>2 DEF Process, NoAck, Work, Worked, TypeOK, LedgerTypeOK
    <3> QED BY <1>6, <3>1, <3>2
  <2>3. /\ seen' \in [Workers -> SUBSET Ids]
        /\ \A v \in Workers : seen'[v] \subseteq seen[v] \cup {i}
    <3>1. CASE Deduplicate(w, i)
      BY <3>1 DEF Deduplicate, TypeOK
    <3>2. CASE Process(w, i)
      <4>1. PICK more : /\ more \in {{}, seen[w] \cup {i}}
                        /\ seen' = [seen EXCEPT ![w] = more]
        BY Zenon, <3>2 DEF Process, Remember
      <4>2. seen \in [Workers -> SUBSET Ids] /\ more \subseteq seen[w] \cup {i}
        BY <4>1 DEF TypeOK
      <4>3. more \in SUBSET Ids
        BY <4>2
      <4> QED BY <4>1, <4>2, <4>3
    <3> QED BY <1>6, <3>1, <3>2
  <2>4. TypeOK'
    <3>1. taken \in [Workers -> [Ids -> Nat]]
      BY DEF TypeOK
    <3>2. taken[w][i] - 1 \in Nat
      BY <2>1, <3>1
    <3>3. taken' \in [Workers -> [Ids -> Nat]]
      BY <2>1, <3>1, <3>2
    <3> QED BY <1>1, <1>3, <2>1, <2>3, <3>3 DEF TypeOK
  <2>5. SeenTraced'
    BY <1>2, <2>1, <2>2, <2>3 DEF SeenTraced, TypeOK
  <2>6. \A j \in Ids : Traced(j) => Traced(j)'
    BY <1>1, <1>2, <2>1, <2>2 DEF Traced, MessageAround, TypeOK
  <2>7. PublishedTraced'
    BY SMTT(20), <1>1, <2>6 DEF PublishedTraced
  <2> QED BY <1>3, <2>4, <2>5, <2>7
<1> QED BY <1>4, <1>5, <1>6 DEF Consumer

LEMMA TraceInvariance == Spec => []TraceInv
<1>1. Init => TraceInv
  BY DeliveryAssumption
    DEF Init, LedgerInit, TraceInv, TypeOK, LedgerTypeOK, Statuses, Rows, NoRows, Nothing,
        Recorded, SeenTraced, PublishedTraced
<1>2. TraceInv /\ [Next]_vars => TraceInv'
  <2> SUFFICES ASSUME TraceInv, [Next]_vars PROVE TraceInv'
    OBVIOUS
  <2>1. ASSUME NEW i \in Ids, Recover(i) \/ Workflow(i) PROVE TraceInv'
    <3>1. UNCHANGED <<outbox, stream, dlq, sweep, taken, pending, seen, crashes>>
      BY <2>1 DEF Recover, Workflow, messages
    <3>2. [LedgerNext]_ledger /\ \A j \in Ids : status'[j] = "DETECTED" => status[j] = "DETECTED"
      BY <2>1 DEF Recover, Workflow, LedgerNext, Work, Close, TraceInv, TypeOK, LedgerTypeOK
    <3>3. LedgerTypeOK' /\ \A j \in Ids : Worked(j) => Worked(j)'
      BY <3>2, LedgerTyped, WorkedStays DEF TraceInv, TypeOK
    <3>4. TypeOK' /\ Recorded' /\ SeenTraced'
      BY <3>1, <3>2, <3>3 DEF TraceInv, TypeOK, Recorded, SeenTraced
    <3>5. PublishedTraced'
      BY <3>1, <3>3 DEF TraceInv, PublishedTraced, Traced, MessageAround
    <3> QED BY <3>4, <3>5 DEF TraceInv
  <2>2. CASE UNCHANGED vars
    BY <2>2 DEF vars, messages, ledger, TraceInv, TypeOK, LedgerTypeOK, Recorded, SeenTraced,
                PublishedTraced, Traced, MessageAround, Worked
  <2> QED BY <2>1, <2>2, IntakeStep, SweepStep, ConsumeStep DEF Next
<1> QED BY <1>1, <1>2, PTL DEF Spec

(* While nobody has worked on a committed incident, its outbox row or a    *)
(* message of it is still there: for every interleaving, crash, duplicate  *)
(* and early message (sweep_and_publish, publish_with_retry,               *)
(* _process_message).                                                      *)
THEOREM NoTraceLost == Spec => []TraceRemains
<1>1. TraceInv => TraceRemains
  BY DEF TraceInv, TypeOK, Rows, Recorded, PublishedTraced, Traced, Worked, TraceRemains
<1> QED BY <1>1, TraceInvariance, PTL

-----------------------------------------------------------------------------
(* The marks of the outbox.  A row belongs to a committed incident; a      *)
(* sweep has locked rows that are PENDING, and no other sweep has them.    *)

MarkInv ==
  /\ \A i \in Ids : outbox[i] # "none" => status[i] = "DETECTED" \/ Worked(i)
  /\ \A s \in Publishers, i \in Ids : sweep[s][i] # "none" => outbox[i] = "PENDING"
  /\ \A s, p \in Publishers, i \in Ids :
       sweep[s][i] # "none" /\ sweep[p][i] # "none" => s = p

MarkFinal ==
  \A i \in Ids : outbox[i] \in {"PUBLISHED", "FAILED"} => outbox'[i] = outbox[i]

LEMMA MarkStart == Init => MarkInv
BY DEF Init, MarkInv, NoRows

LEMMA MarkStep ==
  ASSUME TypeOK, MarkInv, [Next]_vars
  PROVE  MarkInv' /\ MarkFinal
<1> USE DEF MarkInv, MarkFinal, Worked
<1>1. [LedgerNext]_ledger /\ LedgerTypeOK
  BY DeliveryLedger DEF TypeOK
<1>2. \A i \in Ids : status[i] = "DETECTED" \/ Worked(i) => status'[i] = "DETECTED" \/ Worked(i)'
  BY <1>1 DEF LedgerTypeOK, LedgerNext, Insert, Announce, Work, Close, CommitAll, RollBackAll,
              ledger, Uncommitted
<1>3. CASE UNCHANGED <<outbox, sweep>>
  BY <1>2, <1>3
<1>4. CASE Intake
  <2>1. CASE UNCHANGED outbox
    BY <1>3, <1>4, <2>1 DEF Intake, messages
  <2>2. ASSUME NEW S \in SUBSET Ids, CommitAll(S), UNCHANGED sweep,
               outbox' = [i \in Ids |-> IF i \in S THEN "PENDING" ELSE outbox[i]]
        PROVE  MarkInv' /\ MarkFinal
    <3>1. \A i \in S : outbox[i] = "none" /\ status'[i] = "DETECTED"
      BY <2>2 DEF CommitAll
    <3> QED BY <1>2, <2>2, <3>1
  <2> QED BY <1>4, <2>1, <2>2 DEF Intake, messages
<1>5. ASSUME NEW s \in Publishers, Sweeper(s) \/ AbortSweep(s)
      PROVE  MarkInv' /\ MarkFinal
  <2> USE DEF TypeOK, NoRows
  <2>1. UNCHANGED status
    BY <1>5 DEF Sweeper, AbortSweep, Fetch, CommitSweep, PublishRow, ledger
  <2>2. CASE Fetch(s)
    BY <2>1, <2>2 DEF Fetch
  <2>3. CASE \E i \in Ids : PublishRow(s, i)
    BY <2>1, <2>3 DEF PublishRow
  <2>4. CASE CommitSweep(s)
    BY <2>1, <2>4 DEF CommitSweep, EndSweep
  <2>5. CASE AbortSweep(s)
    BY <2>1, <2>5 DEF AbortSweep, EndSweep
  <2> QED BY SMTT(20), <1>5, <2>2, <2>3, <2>4, <2>5 DEF Sweeper
<1>6. ASSUME NEW w \in Workers, Consumer(w) \/ Crash(w) PROVE UNCHANGED <<outbox, sweep>>
  BY <1>6 DEF Consumer, Crash, Read, Deduplicate, Process
<1>7. ASSUME NEW i \in Ids, Recover(i) \/ Workflow(i) PROVE UNCHANGED <<outbox, sweep>>
  BY <1>7 DEF Recover, Workflow, messages
<1>8. UNCHANGED vars => UNCHANGED <<outbox, sweep>>
  BY DEF vars, messages
<1> QED BY SMTT(20), <1>3, <1>4, <1>5, <1>6, <1>7, <1>8 DEF Next

(* An outbox row is marked once, by one sweep: whatever publishers race,   *)
(* die or publish again, PUBLISHED and FAILED are never overwritten, by    *)
(* the commit of another sweep or by a later request                       *)
(* (fetch_pending_outbox_events, FOR UPDATE SKIP LOCKED).                  *)
THEOREM MarksAreFinal == Spec => [][MarkFinal]_vars
<1>1. TraceInv => TypeOK
  BY DEF TraceInv
<1>2. TypeOK /\ MarkInv /\ [Next]_vars => MarkInv' /\ MarkFinal
  BY MarkStep
<1> QED BY <1>1, <1>2, MarkStart, TraceInvariance, PTL DEF Spec
=============================================================================
