--------------------------- MODULE RemediationProofs --------------------------
(***************************************************************************)
(* Proofs about Remediation, for every set of answers and samples and      *)
(* every length of the verification window.                                *)
(***************************************************************************)
EXTENDS Remediation, DiagnosisProofs

-----------------------------------------------------------------------------
(* The verification loop.  Its counters count the same samples as the      *)
(* history does, the clock moves on by an interval for each of them, and a *)
(* window that is not over has not been achieved.                          *)

Counted ==
  /\ window.elapsed = window.healthy * Interval
  /\ window.healthy <= streak.n
  /\ loop = "sampling" => window.healthy < MinSamples
  /\ loop = "passed" => window.healthy >= MinSamples

Clocked ==
  /\ loop \in {"idle", "sampling"} /\ streak.n > 0 =>
       window.clock - streak.from >= streak.n * Interval
  /\ streak.n > 0 => window.clock - streak.from >= (streak.n - 1) * Interval

Fresh == loop = "idle" => window = NoWindow /\ streak = NoStreak

LoopInv == VerificationTypeOK /\ Counted /\ Clocked /\ Fresh

(* A step of the distributive law, for the provers. *)
LEMMA Times ==
  ASSUME NEW n \in Nat, NEW i \in Nat
  PROVE  /\ n * i \in Nat /\ (n + 1) * i = n * i + i /\ (n + 1 - 1) * i = n * i
         /\ n > 0 => (n - 1) * i + i = n * i
OBVIOUS

LEMMA TimesMonotone ==
  ASSUME NEW m \in Nat, NEW n \in Nat, m <= n, NEW i \in Nat
  PROVE  m * i <= n * i
OBVIOUS

(* A sample that passes every check is sound. *)
LEMMA PassingIsSound ==
  ASSUME NEW s, NEW profile, all_passed(s, profile)
  PROVE  Sound(s, profile)
<1>1. /\ evaluate_target_state(s) = "PASS" /\ evaluate_readiness(s) = "PASS"
      /\ evaluate_cpu(s) = "PASS" /\ evaluate_traffic_error_rate(s, profile) = "PASS"
      /\ evaluate_latency(s, profile) = "PASS" /\ evaluate_alerts(s, profile) = "PASS"
  BY DEF all_passed
<1>2. labels = target /\ s.container = "running" /\ s.readiness = "ok"
  BY Zenon, <1>1 DEF evaluate_target_state, evaluate_readiness
<1>3. Present(s.cpu) /\ ~Stale(s.cpu) /\ ~(s.cpu.value > 75)
  BY Zenon, <1>1 DEF evaluate_cpu
<1>4. /\ Present(s.total) /\ ~Stale(s.total) /\ ~(s.total.value < 20) /\ Present(s.errors)
      /\ ~(s.errors.value * 100 > profile.errors * s.total.value)
  BY Zenon, <1>1 DEF evaluate_traffic_error_rate
<1>5. profile.latency # -1 => Present(s.latency) /\ ~(s.latency.value > profile.latency)
  BY Zenon, <1>1 DEF evaluate_latency
<1>6. s.alerts.reachable => s.alerts.firing \cap profile.alerts = {}
  BY Zenon, <1>1 DEF evaluate_alerts
<1> QED BY Zenon, <1>2, <1>3, <1>4, <1>5, <1>6 DEF Sound

(* One evaluation keeps the counters, the history and the clock together.  *)
LEMMA SampleStep ==
  ASSUME NEW s, NEW scenario, LoopInv, Sample(s, scenario)
  PROVE  LoopInv'
<1> DEFINE counted == Count(window, s, Profile(scenario))
           over    == Achieved(counted)
<1> USE WindowAssumption
<1>1. PICK took \in 0..SampleTime :
        LET pause == IF over THEN took ELSE took + Interval
        IN  /\ window' = [counted EXCEPT !.clock = @ + pause]
            /\ age' = IF age + pause > Interval THEN Interval ELSE age + pause
  BY Zenon DEF Sample
<1>2. /\ counted \in [clock : Nat, ready : 0..MinReady, met : BOOLEAN,
                       elapsed : Nat, healthy : Nat]
      /\ counted.clock = window.clock
      /\ counted.elapsed = counted.healthy * Interval
      /\ counted.healthy \in {0, window.healthy + 1}
      /\ counted.healthy # 0 => Sound(s, Profile(scenario))
  <2>1. window \in [clock : Nat, ready : 0..MinReady, met : BOOLEAN,
                    elapsed : Nat, healthy : Nat]
    BY DEF LoopInv, VerificationTypeOK
  <2>2. window.elapsed = window.healthy * Interval
    BY DEF LoopInv, Counted
  <2>3. (window.healthy + 1) * Interval = window.elapsed + Interval /\ 0 * Interval = 0
    BY <2>1, <2>2, Times
  <2> DEFINE ready == IF evaluate_readiness(s) = "PASS" THEN window.ready + 1 ELSE 0
             met   == window.met \/ ready >= MinReady
             good  == met /\ all_passed(s, Profile(scenario))
  <2>4. counted = [clock   |-> window.clock,
                   ready   |-> IF ready > MinReady THEN MinReady ELSE ready,
                   met     |-> met,
                   elapsed |-> IF good THEN window.elapsed + Interval ELSE 0,
                   healthy |-> IF good THEN window.healthy + 1 ELSE 0]
    BY Zenon DEF Count
  <2>5. met \in BOOLEAN
    OBVIOUS
  <2>6. (IF ready > MinReady THEN MinReady ELSE ready) \in 0..MinReady
    BY <2>1
  <2>7. good => Sound(s, Profile(scenario))
    BY PassingIsSound
  <2> HIDE DEF counted, ready, met, good
  <2> QED BY <2>1, <2>2, <2>3, <2>4, <2>5, <2>6, <2>7
<1>3. over => counted.healthy >= MinSamples
  BY DEF Achieved
<1>4. counted.healthy >= MinSamples => over
  <2> SUFFICES ASSUME counted.healthy >= MinSamples PROVE counted.elapsed >= Target
    BY DEF Achieved
  <2>1. (MinSamples - 1) * Interval <= counted.healthy * Interval
    BY <1>2, TimesMonotone
  <2> QED BY <1>2, <2>1
<1>5. /\ window' \in [clock : Nat, ready : 0..MinReady, met : BOOLEAN,
                       elapsed : Nat, healthy : Nat]
      /\ window'.clock >= window.clock
      /\ ~over => window'.clock >= window.clock + Interval
      /\ window'.healthy = counted.healthy /\ window'.elapsed = counted.elapsed
  <2> HIDE DEF counted, over
  <2> QED BY <1>1, <1>2
<1>6. /\ loop = "sampling" /\ loop' = IF over THEN "ended" ELSE "sampling"
      /\ streak' = IF ~Sound(s, Profile(scenario)) THEN NoStreak
                   ELSE [n    |-> IF streak.n < MinSamples THEN streak.n + 1 ELSE streak.n,
                         from |-> IF streak.n = 0 THEN window.clock ELSE streak.from]
      /\ relief' \in BOOLEAN
      /\ UNCHANGED <<labels, target, fault, upsets>>
  BY Zenon DEF Sample
<1>7. streak \in [n : 0..MinSamples, from : Nat] /\ age \in 0..Interval /\ window.clock \in Nat
      /\ window.healthy \in Nat
  BY DEF LoopInv, VerificationTypeOK
<1> HIDE DEF counted, over
<1>8. age' \in 0..Interval
  BY <1>1, <1>7
<1>9. streak' \in [n : 0..MinSamples, from : Nat]
  BY <1>6, <1>7 DEF NoStreak
<1>10. VerificationTypeOK'
  BY Zenon, <1>5, <1>6, <1>8, <1>9 DEF LoopInv, VerificationTypeOK
<1>11. Counted'
  <2>1. window.healthy <= streak.n /\ window.healthy < MinSamples
    BY Zenon, <1>6 DEF LoopInv, Counted
  <2>2. window'.healthy <= streak'.n
    BY <1>2, <1>5, <1>6, <1>7, <1>9, <2>1 DEF NoStreak
  <2> QED BY <1>2, <1>4, <1>5, <1>6, <2>2 DEF Counted
<1>12. Clocked'
  <2> SUFFICES ASSUME streak'.n > 0
               PROVE  /\ ~over => window'.clock - streak'.from >= streak'.n * Interval
                      /\ window'.clock - streak'.from >= (streak'.n - 1) * Interval
    BY Zenon, <1>6 DEF Clocked
  <2>1. /\ Sound(s, Profile(scenario)) /\ streak'.n \in {streak.n, streak.n + 1}
        /\ streak.n = 0 => streak'.n = 1 /\ streak'.from = window.clock
        /\ streak.n > 0 => streak'.from = streak.from
    BY <1>6, <1>7 DEF NoStreak
  <2>2. CASE streak.n = 0
    <3>1. 1 * Interval = Interval /\ (1 - 1) * Interval = 0
      OBVIOUS
    <3> QED BY <1>5, <1>7, <2>1, <2>2, <3>1
  <2>3. CASE streak.n > 0
    <3>1. window.clock - streak.from >= streak.n * Interval
      BY Zenon, <1>6, <2>3 DEF LoopInv, Clocked
    <3>2. /\ streak.n * Interval \in Nat /\ (streak.n + 1) * Interval = streak.n * Interval + Interval
          /\ (streak.n + 1 - 1) * Interval = streak.n * Interval
          /\ (streak.n - 1) * Interval + Interval = streak.n * Interval
      BY <1>7, <2>3, Times
    <3> QED BY <1>5, <1>7, <2>1, <2>3, <3>1, <3>2
  <2> QED BY <1>7, <2>2, <2>3
<1>13. Fresh'
  BY Zenon, <1>6 DEF Fresh
<1> QED BY <1>10, <1>11, <1>12, <1>13 DEF LoopInv

(* Every other step of the loop and of the world leaves the counters, and  *)
(* a verification starts from none.                                        *)
LEMMA LoopStep ==
  ASSUME LoopInv,
         \/ \E g \in -1..Generations : loop = "idle" /\ Start(g)
         \/ Timeout \/ (\E scenario : Attribute(scenario)) \/ World
         \/ UNCHANGED verification
  PROVE  LoopInv'
<1> USE WindowAssumption
<1>1. ASSUME NEW g \in -1..Generations, loop = "idle", Start(g) PROVE LoopInv'
  BY <1>1 DEF LoopInv, VerificationTypeOK, Counted, Clocked, Fresh, Start, NoWindow, NoStreak
<1>2. CASE Timeout
  BY Zenon, <1>2 DEF LoopInv, VerificationTypeOK, Counted, Clocked, Fresh, Timeout
<1>3. ASSUME NEW scenario, Attribute(scenario) PROVE LoopInv'
  BY Zenon, <1>3 DEF LoopInv, VerificationTypeOK, Counted, Clocked, Fresh, Attribute, Achieved
<1>4. CASE World
  <2>1. CASE Clear
    BY <2>1 DEF LoopInv, VerificationTypeOK, Counted, Clocked, Fresh, Clear, Upset
  <2>2. CASE Inject
    <3>1. relief' \in BOOLEAN /\ fault' = "active"
      BY <2>2, Zenon DEF Inject
    <3>2. upsets' \in 0..WorldLimit /\ loop \in {"sampling", "ended"}
      BY <2>2 DEF Inject, Upset, LoopInv, VerificationTypeOK
    <3>3. UNCHANGED <<loop, window, labels, target, age, streak>>
      BY Zenon, <2>2 DEF Inject
    <3> QED BY Zenon, <3>1, <3>2, <3>3 DEF LoopInv, VerificationTypeOK, Counted, Clocked, Fresh
  <2>3. CASE SelfRestart
    BY <2>3 DEF LoopInv, VerificationTypeOK, Counted, Clocked, Fresh, SelfRestart, Upset
  <2>4. CASE Rebind
    BY <2>4 DEF LoopInv, VerificationTypeOK, Counted, Clocked, Fresh, Rebind
  <2> QED BY Zenon, <1>4, <2>1, <2>2, <2>3, <2>4 DEF World
<1>5. CASE UNCHANGED verification
  BY Zenon, <1>5
  DEF LoopInv, VerificationTypeOK, Counted, Clocked, Fresh, verification, NoWindow, NoStreak
<1> QED BY Zenon, <1>1, <1>2, <1>3, <1>4, <1>5

(* What the invariant is for. *)
LEMMA LoopInvStable == LoopInv => PassedIsStable
<1> SUFFICES ASSUME LoopInv, loop = "passed"
             PROVE  streak.n = MinSamples /\ window.clock - streak.from >= Target
  BY DEF PassedIsStable
<1>1. streak.n = MinSamples
  BY WindowAssumption DEF LoopInv, VerificationTypeOK, Counted
<1>2. window.clock - streak.from >= (MinSamples - 1) * Interval
  BY <1>1, WindowAssumption DEF LoopInv, Clocked
<1> QED BY <1>1, <1>2, WindowAssumption DEF LoopInv, VerificationTypeOK

-----------------------------------------------------------------------------
(* The records and the channels.  Whatever a run starts or goes on from    *)
(* agrees with the records where they say something; an observation is     *)
(* there only until the diagnosis; the binding of the channels is the one  *)
(* that was inspected, or there is none, and then a crash has lost it.  An *)
(* incident that is not over has no diagnosis or one that can be acted     *)
(* upon; and a plan is the planner's for that diagnosis and a binding      *)
(* since the inspection.                                                   *)

Causes == Supported \cup Unsupported \cup {"none"}

Bound(n, service) ==
  [container  |-> IF n = -1 THEN GivenId ELSE IF n = 0 THEN "none" ELSE Containers[n],
   generation |-> IF n < 1 THEN 1 ELSE n,
   service    |-> service]

Targets == [container : HexIds, generation : 1..Generations, service : Services]

Plans == {NoPlan} \cup {Draft(c, b) : c \in Causes, b \in Targets}

Channels ==
  [evidence : BOOLEAN, observation : Observations \cup {NoObservation},
   container : HexIds \cup {GivenId, "none"}, generation : 0..Generations,
   service : Services \cup {"none"}, diagnosis : BOOLEAN, cause : Causes,
   confidence : Int, plan : BOOLEAN, approved : BOOLEAN]

Diagnoses == [cause : Causes, confidence : Int, actionable : BOOLEAN]

Records ==
  [service : Services, evidence : BOOLEAN, diagnosis : Diagnoses, plan : Plans,
   approved : BOOLEAN]

DataTypeOK ==
  /\ stage \in Nodes \cup Outcomes \cup {"waiting"} /\ db \in Records
  /\ inspected \in -1..Generations /\ warranted \in BOOLEAN /\ lost \in BOOLEAN

Agrees(g, records) ==
  /\ g.evidence = records.evidence
  /\ g.diagnosis <=> records.diagnosis # NoDiagnosis
  /\ g.cause = records.diagnosis.cause
  /\ g.plan <=> records.plan # NoPlan

Observed(g, records, n, w) ==
  g.observation # NoObservation =>
    /\ records.evidence /\ records.diagnosis = NoDiagnosis
    /\ w = Warranted(g.observation)
    /\ Bound(n, records.service).container = "none" => g.observation.status = "not_found"

Unbound(g) == g.container = "none" /\ g.generation = 0 /\ g.service = "none"

Carries(g, bound) ==
  /\ g.container = bound.container /\ g.generation = bound.generation
  /\ g.service = bound.service

OfInspected(g, records, n) ==
  records.plan = NoPlan =>
    IF g.generation = 0 THEN Unbound(g)
    ELSE records.evidence /\ Carries(g, Bound(n, records.service))

Consistent(g, records, n, w) ==
  g \in Channels /\ Agrees(g, records) /\ Observed(g, records, n, w) /\ OfInspected(g, records, n)

ChannelsInv == \A g \in saved \cup {graph} : Consistent(g, db, inspected, warranted)

KnownUnlessLost == db.evidence /\ db.plan = NoPlan /\ ~lost => graph.generation # 0

DiagnosisBound ==
  /\ db.diagnosis # NoDiagnosis /\ stage \notin Outcomes => db.diagnosis.actionable
  /\ db.diagnosis.actionable =>
       /\ db.diagnosis # NoDiagnosis /\ warranted /\ db.evidence
       /\ db.diagnosis.cause \in Supported /\ db.diagnosis.confidence >= AutoThreshold
       /\ Bound(inspected, db.service).container # "none"

PlanBound ==
  /\ db.evidence => inspected <= labels
  /\ db.plan # NoPlan =>
       /\ db.diagnosis.actionable
       /\ \E n \in inspected..labels :
            /\ n = inspected \/ lost
            /\ db.plan = Draft(db.diagnosis.cause, Bound(n, db.service))
            /\ ~PlanRaises(db.diagnosis.cause, Bound(n, db.service))

Progress ==
  /\ stage = "plan" => db.diagnosis # NoDiagnosis
  /\ stage \in {"evaluate_policy", "waiting", "execute", "verify"} => db.plan # NoPlan
  /\ loop # "idle" => stage \in {"verify"} \cup Outcomes

DataInv ==
  /\ DataTypeOK /\ ChannelsInv /\ KnownUnlessLost
  /\ DiagnosisBound /\ PlanBound /\ Progress

(* An observation is not the absence of one, and has its code from the     *)
(* probe.                                                                  *)
LEMMA ObservationFacts ==
  /\ NoObservation \notin Observations
  /\ \A o \in Observations : CodeFromProbe(o)
<1>1. \A e \in Answers : to_observation_bundle(e).status = e.container
  BY Zenon DEF to_observation_bundle
<1>2. NoObservation.status = "none"
  BY Zenon DEF NoObservation
<1> QED BY Zenon, <1>1, <1>2, BundleCode, RemediationAssumption DEF Observations

(* A diagnosis is one, and is well-typed. *)
LEMMA DiagnoseFacts ==
  ASSUME NEW o
  PROVE  /\ diagnose(o) \in Diagnoses
         /\ diagnose(o) # NoDiagnosis
<1>1. \A c \in Supported \cup Unsupported, f \in Int :
        /\ Verdict(c, f) \in Diagnoses
        /\ Verdict(c, f) # NoDiagnosis
  BY DEF Verdict, NoDiagnosis, Diagnoses, Causes, Supported, Unsupported
<1> DEFINE matching == {k \in 1..5 : rules(o)[k].matched}
<1>2. \A k \in 1..5 : rules(o)[k].matched =>
        rules(o)[k].cause \in Supported \cup Unsupported /\ rules(o)[k].confidence \in Int
  BY SMTT(20) DEF rules, ContainerStoppedRule, DependencyUnavailableRule, CpuSaturationRule,
         ApiUnresponsiveRule, NoActiveFaultRule, Match, NoMatch, Contradicted,
         Supported, Unsupported
<1>3. matching # {} => Min(matching) \in matching
  BY Zenon, LeastRule
<1>4. "INSUFFICIENT_EVIDENCE" \in Unsupported /\ "AMBIGUOUS" \in Unsupported
  BY Zenon DEF Unsupported
<1>5. \/ diagnose(o) \in {Verdict("INSUFFICIENT_EVIDENCE", 0), Verdict("AMBIGUOUS", 40)}
      \/ /\ matching # {}
         /\ diagnose(o) = Verdict(rules(o)[Min(matching)].cause,
                                  rules(o)[Min(matching)].confidence)
  BY SMTT(20) DEF diagnose
<1> HIDE DEF matching
<1>6. CASE diagnose(o) \in {Verdict("INSUFFICIENT_EVIDENCE", 0), Verdict("AMBIGUOUS", 40)}
  BY <1>1, <1>4, <1>6
<1>7. CASE /\ matching # {}
           /\ diagnose(o) = Verdict(rules(o)[Min(matching)].cause,
                                    rules(o)[Min(matching)].confidence)
  <2>1. Min(matching) \in 1..5 /\ rules(o)[Min(matching)].matched
    BY Zenon, <1>3, <1>7 DEF matching
  <2> QED BY Zenon, <1>1, <1>2, <1>7, <2>1
<1> QED BY Zenon, <1>5, <1>6, <1>7

(* A plan is not the absence of one, and has the target it was made for. *)
LEMMA PlanFacts ==
  /\ \A c, b : Draft(c, b) # NoPlan /\ Draft(c, b).target = b
  /\ \A plan \in Plans : plan # NoPlan => plan.target \in Targets
<1>1. \A c, b : Draft(c, b).version = 1 /\ Draft(c, b).target = b
  BY Zenon DEF Draft
<1>2. NoPlan.version = 0
  BY Zenon DEF NoPlan
<1> QED BY <1>1, <1>2 DEF Plans

(* The binding of a label. *)
LEMMA BoundFacts ==
  ASSUME NEW n \in -1..Generations, NEW service \in Services
  PROVE  /\ Bound(n, service).container \in HexIds \cup {GivenId, "none"}
         /\ Bound(n, service).generation \in 1..Generations
         /\ Bound(n, service).service = service
<1>1. Generations \in Nat \ {0} /\ \A k \in 1..Generations : Containers[k] \in HexIds
  BY WindowAssumption, RemediationAssumption
<1> QED BY <1>1 DEF Bound

(* What a resumed run finds in the channels is consistent with the records *)
(* it is resumed from, when these go on from the ones before: nothing that *)
(* was recorded is taken back, and the evidence is of one collection.      *)
LEMMA ResumeConsistent ==
  ASSUME NEW g, NEW old \in Records, NEW n, NEW w, Consistent(g, old, n, w),
         NEW new \in Records, NEW m, NEW v,
         new.service = old.service, old.evidence => new.evidence /\ m = n /\ v = w,
         new.diagnosis = old.diagnosis \/ old.diagnosis = NoDiagnosis,
         new.plan = old.plan \/ old.plan = NoPlan
  PROVE  /\ Consistent(Resume(g, new), new, m, v)
         /\ new.plan = NoPlan => Resume(g, new).generation = g.generation
<1> DEFINE r == Resume(g, new)
<1>1. /\ new.evidence \in BOOLEAN /\ new.diagnosis.cause \in Causes
      /\ new.approved \in BOOLEAN /\ new.plan \in Plans /\ g \in Channels
  BY Zenon DEF Records, Diagnoses, Consistent
<1>2. /\ (IF new.plan = NoPlan THEN g.generation ELSE new.plan.target.generation)
           \in 0..Generations
      /\ (IF new.plan = NoPlan THEN g.container ELSE new.plan.target.container)
           \in HexIds \cup {GivenId, "none"}
  BY <1>1, PlanFacts, WindowAssumption DEF Channels, Targets
<1>3. r \in Channels
  BY Zenon, <1>1, <1>2 DEF Channels, Resume
<1>4. (r.diagnosis <=> new.diagnosis # NoDiagnosis) /\ (r.plan <=> new.plan # NoPlan)
  BY Zenon DEF Resume
<1>5. /\ r.evidence = new.evidence /\ r.cause = new.diagnosis.cause
      /\ r.observation = IF new.diagnosis = NoDiagnosis THEN g.observation ELSE NoObservation
      /\ new.plan = NoPlan => r.generation = g.generation /\ r.container = g.container
      /\ r.service = g.service
  BY Zenon DEF Resume
<1> HIDE DEF r
<1>6. Agrees(r, new)
  BY Zenon, <1>4, <1>5 DEF Agrees
<1>7. Observed(r, new, m, v)
  BY Zenon, <1>5 DEF Consistent, Observed
<1>8. OfInspected(r, new, m)
  <2> SUFFICES ASSUME new.plan = NoPlan
               PROVE  IF r.generation = 0 THEN Unbound(r)
                      ELSE new.evidence /\ Carries(r, Bound(m, new.service))
    BY Zenon DEF OfInspected
  <2>1. old.plan = NoPlan
    BY Zenon
  <2> QED BY Zenon, <1>5, <2>1 DEF Consistent, OfInspected, Unbound, Carries
<1> QED BY Zenon, <1>3, <1>5, <1>6, <1>7, <1>8 DEF Consistent, r

(* The constants of the stages, unfolded. *)
LEMMA Stages ==
  /\ Nodes \cap Outcomes = {} /\ "waiting" \notin Nodes \cup Outcomes
  /\ {"collect_evidence", "diagnose", "plan", "evaluate_policy", "execute", "verify"} = Nodes
  /\ {"resolved", "escalated", "retry"} = Outcomes
BY Zenon DEF Nodes, Outcomes

(* A crash, with the records that were committed before it. *)
LEMMA CrashChannels ==
  ASSUME DataInv, NEW records \in Records, NEW next, CrashWith(records, next), db' = records,
         records.service = db.service,
         db.evidence => records.evidence /\ UNCHANGED history,
         records.diagnosis = db.diagnosis \/ db.diagnosis = NoDiagnosis,
         records.plan = db.plan \/ db.plan = NoPlan
  PROVE  ChannelsInv' /\ KnownUnlessLost' /\ lost' \in BOOLEAN /\ (lost => lost')
<1> USE DEF history
<1>1. PICK g \in saved :
        /\ graph' = Resume(g, records) /\ saved' = {graph'}
        /\ lost' = (lost \/ (records.evidence /\ records.plan = NoPlan /\ g.generation = 0))
  BY Zenon DEF CrashWith, StartOver
<1>2. db \in Records /\ Consistent(g, db, inspected, warranted)
  BY Zenon DEF DataInv, DataTypeOK, ChannelsInv
<1>3. /\ Consistent(graph', db', inspected', warranted')
      /\ records.plan = NoPlan => graph'.generation = g.generation
  BY Zenon, <1>1, <1>2, ResumeConsistent
<1>4. ChannelsInv'
  BY Zenon, <1>1, <1>3 DEF ChannelsInv
<1>5. KnownUnlessLost'
  BY Zenon, <1>1, <1>3 DEF KnownUnlessLost
<1> QED BY Zenon, <1>1, <1>4, <1>5

(* A node, whether its worker lives or crashes. *)
LEMMA NodeChannels ==
  ASSUME DataInv, NEW node, NEW records \in Records, NEW channels, NEW next,
         Node(node, records, channels, next),
         records.service = db.service,
         db.evidence => records.evidence /\ UNCHANGED history,
         records.diagnosis = db.diagnosis \/ db.diagnosis = NoDiagnosis,
         records.plan = db.plan \/ db.plan = NoPlan,
         Consistent(channels, records, inspected', warranted'),
         records.evidence /\ records.plan = NoPlan /\ ~lost => channels.generation # 0
  PROVE  ChannelsInv' /\ KnownUnlessLost' /\ lost' \in BOOLEAN /\ (lost => lost')
<1> USE DEF history
<1>1. db' = records
  BY Zenon DEF Node
<1>2. CASE CrashWith(records, next)
  BY Zenon, <1>1, <1>2, CrashChannels
<1>3. CASE /\ graph' = channels /\ UNCHANGED lost
           /\ saved' = Checkpoints(records, channels, next)
  <2>1. ASSUME NEW h \in saved' PROVE Consistent(h, records, inspected', warranted')
    <3>1. PICK g \in saved \cup {channels} : h = Resume(g, records)
      BY Zenon, <1>3, <2>1 DEF Checkpoints
    <3>2. CASE g = channels
      BY Zenon, <3>1, <3>2, ResumeConsistent
    <3>3. CASE g \in saved
      <4>1. db \in Records /\ Consistent(g, db, inspected, warranted)
        BY Zenon, <3>3 DEF DataInv, DataTypeOK, ChannelsInv
      <4> QED BY Zenon, <3>1, <4>1, ResumeConsistent
    <3> QED BY Zenon, <3>2, <3>3
  <2>2. ChannelsInv'
    BY Zenon, <1>1, <1>3, <2>1 DEF ChannelsInv
  <2>3. KnownUnlessLost'
    BY Zenon, <1>1, <1>3 DEF KnownUnlessLost
  <2>4. lost' \in BOOLEAN
    BY Zenon, <1>3 DEF DataInv, DataTypeOK
  <2> QED BY Zenon, <1>3, <2>2, <2>3, <2>4
<1> QED BY Zenon, <1>2, <1>3 DEF Node

(* A run that goes on with the same records from the same channels. *)
LEMMA SameRecords ==
  ASSUME DataInv, stage \in Nodes \cup {"waiting"}, UNCHANGED <<history, loop, labels>>,
         db' \in Records, db'.service = db.service, db'.evidence = db.evidence,
         db'.diagnosis = db.diagnosis, db'.plan = db.plan,
         ChannelsInv' /\ KnownUnlessLost' /\ lost' \in BOOLEAN /\ (lost => lost'),
         stage' \in Nodes \cup Outcomes \cup {"waiting"},
         stage' = "plan" => db.diagnosis # NoDiagnosis,
         stage' \in {"evaluate_policy", "waiting", "execute", "verify"} => db.plan # NoPlan,
         loop # "idle" => stage' \in {"verify"} \cup Outcomes
  PROVE  DataInv'
<1> USE DEF history
<1>1. DataTypeOK'
  BY Zenon DEF DataInv, DataTypeOK
<1>2. DiagnosisBound'
  BY Zenon, Stages DEF DataInv, DiagnosisBound
<1>3. PlanBound'
  BY Zenon DEF DataInv, PlanBound
<1>4. Progress'
  BY Zenon DEF DataInv, Progress
<1> QED BY Zenon, <1>1, <1>2, <1>3, <1>4 DEF DataInv

(* Channels that are as they were. *)
LEMMA SameChannels ==
  ASSUME DataInv, UNCHANGED <<history, db, graph, saved, lost>>
  PROVE  ChannelsInv' /\ KnownUnlessLost' /\ lost' \in BOOLEAN /\ (lost => lost')
<1>1. ChannelsInv' /\ KnownUnlessLost'
  BY Zenon DEF DataInv, ChannelsInv, KnownUnlessLost, history
<1>2. lost' \in BOOLEAN /\ (lost => lost')
  BY Zenon DEF DataInv, DataTypeOK
<1> QED BY Zenon, <1>1, <1>2

(* A run that ended, or was given up, without new records. *)
LEMMA RestartChannels ==
  ASSUME DataInv, UNCHANGED <<history, lost>>,
         db' \in Records, db'.service = db.service, db'.evidence = db.evidence,
         db'.diagnosis = db.diagnosis, db'.plan = db.plan, StartOver(graph, db')
  PROVE  ChannelsInv' /\ KnownUnlessLost' /\ lost' \in BOOLEAN /\ (lost => lost')
<1> USE DEF history
<1>1. db \in Records /\ Consistent(graph, db, inspected, warranted)
  BY Zenon DEF DataInv, DataTypeOK, ChannelsInv
<1>2. graph' = Resume(graph, db') /\ saved' = {graph'}
  BY Zenon DEF StartOver
<1>3. /\ Consistent(graph', db', inspected', warranted')
      /\ db'.plan = NoPlan => graph'.generation = graph.generation
  BY Zenon, <1>1, <1>2, ResumeConsistent
<1>4. ChannelsInv'
  BY Zenon, <1>2, <1>3 DEF ChannelsInv
<1>5. KnownUnlessLost'
  BY Zenon, <1>3 DEF DataInv, KnownUnlessLost
<1>6. lost' \in BOOLEAN /\ (lost => lost')
  BY Zenon DEF DataInv, DataTypeOK
<1> QED BY Zenon, <1>4, <1>5, <1>6

(* The collection: nothing is known before it, so that a crash loses its   *)
(* observation and its binding together.                                   *)
LEMMA CollectStep ==
  ASSUME DataInv, labels \in -1..Generations, collect_evidence_node
  PROVE  DataInv'
<1> DEFINE records == [db EXCEPT !.evidence = TRUE]
           channels(o) == [graph EXCEPT !.evidence = TRUE, !.observation = o,
                                        !.container = Binding(labels).container,
                                        !.generation = Binding(labels).generation,
                                        !.service = db.service]
<1>1. PICK o \in Observations :
        /\ Binding(labels).container = "none" => o.status = "not_found"
        /\ Node("collect_evidence", records, channels(o), "diagnose")
        /\ warranted' = Warranted(o)
  BY Zenon DEF collect_evidence_node
<1>2. /\ inspected' = labels /\ UNCHANGED <<labels, loop>> /\ ~graph.evidence /\ ~graph.diagnosis
  BY Zenon DEF collect_evidence_node, verification
<1>3. /\ graph \in Channels /\ Agrees(graph, db) /\ db \in Records /\ db.service \in Services
      /\ lost \in BOOLEAN
  BY Zenon DEF DataInv, DataTypeOK, ChannelsInv, Consistent, Records
<1>4. /\ db.diagnosis = NoDiagnosis /\ ~db.evidence /\ db.plan = NoPlan
      /\ graph.cause = "none" /\ ~graph.plan
  <2>1. db.diagnosis = NoDiagnosis /\ ~db.evidence
    BY Zenon, <1>2, <1>3 DEF Agrees
  <2>2. ~db.diagnosis.actionable /\ db.diagnosis.cause = "none"
    BY <2>1 DEF NoDiagnosis
  <2>3. db.plan = NoPlan
    BY Zenon, <2>2 DEF DataInv, PlanBound
  <2> QED BY Zenon, <1>3, <2>1, <2>2, <2>3 DEF Agrees
<1>5. /\ records \in Records /\ records.evidence = TRUE /\ records.service = db.service
      /\ records.diagnosis = NoDiagnosis /\ records.plan = NoPlan
  BY Zenon, <1>3, <1>4 DEF Records
<1>6. /\ Binding(labels) = Bound(labels, db.service)
      /\ Binding(labels).container \in HexIds \cup {GivenId, "none"}
      /\ Binding(labels).generation \in 0..Generations
      /\ Binding(labels).generation # 0 /\ Binding(labels).service = db.service
  <2>1. Binding(labels) = Bound(labels, db.service)
    BY Zenon DEF Binding, Bound
  <2>2. \A g \in 1..Generations : g \in 0..Generations /\ g # 0
    BY WindowAssumption
  <2> QED BY Zenon, <1>3, <2>1, <2>2, BoundFacts
<1> DEFINE c == channels(o)
<1>7. /\ c \in Channels /\ c.evidence = TRUE /\ c.observation = o
      /\ c.container = Binding(labels).container /\ c.generation = Binding(labels).generation
      /\ c.service = db.service /\ c.cause = graph.cause
      /\ c.diagnosis = graph.diagnosis /\ c.plan = graph.plan
  BY Zenon, <1>3, <1>6 DEF Channels
<1> HIDE DEF c
<1>8. Consistent(c, records, inspected', warranted')
  <2>1. Agrees(c, records)
    <3>1. c.cause = records.diagnosis.cause
      BY <1>4, <1>5, <1>7 DEF NoDiagnosis
    <3> QED BY Zenon, <1>2, <1>4, <1>5, <1>7, <3>1 DEF Agrees
  <2>2. Observed(c, records, inspected', warranted')
    BY Zenon, <1>1, <1>2, <1>5, <1>6, <1>7 DEF Observed
  <2>3. OfInspected(c, records, inspected')
    BY Zenon, <1>2, <1>5, <1>6, <1>7 DEF OfInspected, Carries
  <2> QED BY Zenon, <1>7, <2>1, <2>2, <2>3 DEF Consistent
<1>9. Node("collect_evidence", records, c, "diagnose")
  BY Zenon, <1>1 DEF c
<1> HIDE DEF records
<1>10. ChannelsInv' /\ KnownUnlessLost' /\ lost' \in BOOLEAN
  BY Zenon, <1>4, <1>5, <1>6, <1>7, <1>8, <1>9, NodeChannels
<1>11. db' = records /\ stage' \in {"diagnose", "collect_evidence"} /\ stage = "collect_evidence"
  BY Zenon, <1>9 DEF Node, CrashWith, Outcomes
<1>12. DataTypeOK'
  <2>1. warranted' \in BOOLEAN
    BY Zenon, <1>1 DEF Warranted
  <2> QED BY Zenon, <1>2, <1>5, <1>10, <1>11, <2>1 DEF DataTypeOK, Nodes
<1>13. DiagnosisBound'
  BY <1>5, <1>11 DEF DiagnosisBound, NoDiagnosis
<1>14. PlanBound'
  <2>1. inspected' <= labels'
    BY <1>2
  <2> QED BY Zenon, <1>5, <1>11, <2>1 DEF PlanBound
<1>15. Progress'
  BY Zenon, <1>2, <1>11 DEF DataInv, Progress, Outcomes
<1> QED BY Zenon, <1>10, <1>12, <1>13, <1>14, <1>15 DEF DataInv

(* The diagnosis: only an observation that is still there can be acted     *)
(* upon, and it is of a container that was found.                          *)
LEMMA DiagnoseStep ==
  ASSUME DataInv, diagnose_node
  PROVE  DataInv'
<1> DEFINE o    == IF graph.observation = NoObservation THEN DefaultBundle
                   ELSE graph.observation
           diag == diagnose(o)
           records  == [db EXCEPT !.diagnosis = diag]
           channels == [graph EXCEPT !.observation = NoObservation, !.diagnosis = TRUE,
                                     !.cause = diag.cause, !.confidence = diag.confidence]
           next == IF diag.actionable THEN "plan" ELSE "escalated"
<1>1. /\ Node("diagnose", records, channels, next)
      /\ ~graph.diagnosis /\ UNCHANGED <<history, loop, labels>>
  BY Zenon DEF diagnose_node, verification
<1>2. diag \in Diagnoses /\ diag # NoDiagnosis
  BY Zenon, DiagnoseFacts
<1>3. /\ Consistent(graph, db, inspected, warranted) /\ graph \in Channels
      /\ Agrees(graph, db) /\ db \in Records
  BY Zenon DEF DataInv, DataTypeOK, ChannelsInv, Consistent
<1>4. db.diagnosis = NoDiagnosis /\ db.plan = NoPlan
  <2>1. db.diagnosis = NoDiagnosis
    BY Zenon, <1>1, <1>3 DEF Agrees
  <2> QED BY <2>1 DEF DataInv, PlanBound, NoDiagnosis
<1>5. diag.actionable =>
        /\ warranted /\ diag.cause \in Supported /\ diag.confidence >= AutoThreshold
        /\ db.evidence /\ Bound(inspected, db.service).container # "none"
  <2> SUFFICES ASSUME diag.actionable
               PROVE  /\ warranted /\ diag.cause \in Supported
                      /\ diag.confidence >= AutoThreshold
                      /\ db.evidence /\ Bound(inspected, db.service).container # "none"
    OBVIOUS
  <2>1. graph.observation # NoObservation /\ o = graph.observation
    BY Zenon, DefaultNotActionable
  <2>2. CodeFromProbe(o)
    BY Zenon, <1>3, <2>1, ObservationFacts DEF Channels
  <2>3. diag.cause \in Supported /\ diag.confidence \in AutoThreshold..100 /\ Warranted(o)
    BY Zenon, <2>2, ActionableIsWarranted
  <2>4. /\ warranted = Warranted(o) /\ db.evidence
        /\ Bound(inspected, db.service).container = "none" => o.status = "not_found"
    BY Zenon, <1>3, <2>1 DEF Consistent, Observed
  <2>5. diag.confidence >= AutoThreshold
    BY <2>3 DEF AutoThreshold
  <2>6. o.status # "not_found"
    BY Zenon, <2>3 DEF Warranted
  <2> HIDE DEF o, diag
  <2> QED BY Zenon, <2>3, <2>4, <2>5, <2>6
<1> HIDE DEF o, diag
<1>6. /\ records \in Records /\ records.diagnosis = diag /\ records.service = db.service
      /\ records.evidence = db.evidence /\ records.plan = NoPlan
  BY Zenon, <1>2, <1>3, <1>4 DEF Records
<1>7. /\ channels \in Channels /\ channels.evidence = graph.evidence
      /\ channels.observation = NoObservation /\ channels.diagnosis = TRUE
      /\ channels.cause = diag.cause /\ channels.plan = graph.plan
      /\ channels.container = graph.container /\ channels.generation = graph.generation
      /\ channels.service = graph.service
  BY Zenon, <1>2, <1>3 DEF Channels, Diagnoses
<1> HIDE DEF records, channels
<1>8. Consistent(channels, records, inspected', warranted')
  <2>1. Agrees(channels, records)
    BY Zenon, <1>2, <1>3, <1>4, <1>6, <1>7 DEF Agrees
  <2>2. Observed(channels, records, inspected', warranted')
    BY Zenon, <1>7 DEF Observed
  <2>3. OfInspected(channels, records, inspected')
    BY Zenon, <1>1, <1>3, <1>4, <1>6, <1>7 DEF Consistent, OfInspected, Unbound, Carries, history
  <2> QED BY Zenon, <1>7, <2>1, <2>2, <2>3 DEF Consistent
<1>9. ChannelsInv' /\ KnownUnlessLost' /\ lost' \in BOOLEAN
  <2>1. records.evidence /\ records.plan = NoPlan /\ ~lost => channels.generation # 0
    BY Zenon, <1>4, <1>6, <1>7 DEF DataInv, KnownUnlessLost
  <2> HIDE DEF next
  <2> QED BY Zenon, <1>1, <1>4, <1>6, <1>8, <2>1, NodeChannels DEF history
<1>10. /\ db' = records /\ stage = "diagnose"
       /\ stage' \in {"plan", "collect_evidence", "escalated"}
       /\ stage' # "escalated" => diag.actionable
  BY Zenon, <1>1 DEF Node, CrashWith, Outcomes
<1>11. DataTypeOK'
  BY Zenon, <1>1, <1>6, <1>9, <1>10 DEF DataInv, DataTypeOK, Nodes, Outcomes, history
<1>12. DiagnosisBound'
  BY Zenon, <1>1, <1>2, <1>5, <1>6, <1>10 DEF DiagnosisBound, Outcomes, history
<1>13. PlanBound'
  BY Zenon, <1>1, <1>6, <1>10 DEF DataInv, PlanBound, history
<1>14. Progress'
  BY Zenon, <1>1, <1>2, <1>6, <1>10 DEF Progress, DataInv, Outcomes
<1> QED BY Zenon, <1>9, <1>11, <1>12, <1>13, <1>14 DEF DataInv

(* The plan: its target is the binding that was inspected, or a later one  *)
(* if that was lost.                                                       *)
LEMMA TargetKnown ==
  ASSUME DataInv, labels \in -1..Generations, stage = "plan", ~graph.plan,
         TargetBinding.container \in HexIds
  PROVE  /\ db.plan = NoPlan /\ db.diagnosis.actionable
         /\ TargetBinding \in Targets
         /\ \E n \in inspected..labels :
              (n = inspected \/ lost) /\ TargetBinding = Bound(n, db.service)
<1>1. /\ db.diagnosis.actionable /\ db.evidence
      /\ Bound(inspected, db.service).container # "none"
  BY Zenon, Stages DEF DataInv, Progress, DiagnosisBound
<1>2. /\ db.plan = NoPlan /\ OfInspected(graph, db, inspected)
      /\ graph.generation = 0 => lost
  BY Zenon, <1>1 DEF DataInv, ChannelsInv, Consistent, Agrees, KnownUnlessLost
<1>3. /\ db.service \in Services /\ db.service # "none" /\ "none" \notin HexIds
      /\ "demo-api-container-id" \notin HexIds /\ inspected \in -1..Generations
      /\ inspected <= labels /\ Generations \in Nat
  BY Zenon, <1>1, RemediationAssumption, WindowAssumption
  DEF DataInv, DataTypeOK, Records, PlanBound
<1>4. Binding(labels) = Bound(labels, db.service)
  BY Zenon DEF Binding, Bound
<1> DEFINE t == TargetBinding
<1>5. t = [container |-> t.container, generation |-> t.generation, service |-> t.service]
  BY Zenon DEF TargetBinding
<1>6. \A n : Bound(n, db.service) = [container  |-> Bound(n, db.service).container,
                                     generation |-> Bound(n, db.service).generation,
                                     service    |-> db.service]
  BY Zenon DEF Bound
<1>7. CASE graph.generation # 0
  <2>1. Carries(graph, Bound(inspected, db.service))
    BY Zenon, <1>2, <1>7 DEF OfInspected
  <2>2. /\ graph.container = Bound(inspected, db.service).container
        /\ graph.generation = Bound(inspected, db.service).generation
        /\ graph.service = db.service
    BY Zenon, <1>3, <2>1, BoundFacts DEF Carries
  <2>3. /\ t.container = graph.container /\ t.generation = graph.generation
        /\ t.service = graph.service
    BY Zenon, <1>1, <1>3, <1>7, <2>2 DEF TargetBinding
  <2>4. t = Bound(inspected, db.service)
    BY Zenon, <1>5, <1>6, <2>2, <2>3
  <2>5. t \in Targets
    <3>1. t.generation \in 1..Generations /\ t.service \in Services
      BY Zenon, <1>3, <2>4, BoundFacts
    <3> QED BY Zenon, <1>5, <3>1 DEF Targets
  <2>6. inspected \in inspected..labels
    BY <1>3
  <2> QED BY Zenon, <1>1, <1>2, <2>4, <2>5, <2>6
<1>8. CASE graph.generation = 0
  <2>1. graph.container = "none" /\ graph.service = "none" /\ lost
    BY Zenon, <1>2, <1>8 DEF OfInspected, Unbound
  <2>2. /\ t.container = Bound(labels, db.service).container
        /\ t.generation = Bound(labels, db.service).generation
        /\ t.service = Bound(labels, db.service).service
    BY Zenon, <1>3, <1>4, <1>8, <2>1 DEF TargetBinding
  <2>3. t = Bound(labels, db.service)
    <3>1. Bound(labels, db.service).service = db.service
      BY Zenon, <1>3, BoundFacts
    <3> HIDE DEF t
    <3> QED BY Zenon, <1>5, <1>6, <2>2, <3>1
  <2>4. t \in Targets
    <3>1. t.generation \in 1..Generations /\ t.service \in Services
      BY Zenon, <1>3, <2>3, BoundFacts
    <3> QED BY Zenon, <1>5, <3>1 DEF Targets
  <2>5. labels \in inspected..labels
    BY <1>3
  <2> QED BY Zenon, <1>1, <1>2, <2>1, <2>3, <2>4, <2>5
<1> QED BY Zenon, <1>7, <1>8

LEMMA PlanStep ==
  ASSUME DataInv, labels \in -1..Generations, plan_node
  PROVE  DataInv'
<1> DEFINE cause    == db.diagnosis.cause
           plan     == Draft(cause, TargetBinding)
           bad      == PlanRaises(cause, TargetBinding) \/ plan.profile = "none"
           planned  == [db EXCEPT !.plan = plan]
           channels == [graph EXCEPT !.plan = TRUE, !.container = plan.target.container,
                                     !.generation = plan.target.generation,
                                     !.service = plan.target.service]
<1>1. /\ Node("plan", IF bad THEN db ELSE planned, IF bad THEN graph ELSE channels,
              IF bad THEN "escalated" ELSE "evaluate_policy")
      /\ UNCHANGED <<history, loop, labels>> /\ ~graph.plan /\ stage = "plan"
      /\ TargetBinding.container \in HexIds
  BY Zenon DEF plan_node, Node, verification
<1>2. /\ Consistent(graph, db, inspected, warranted) /\ graph \in Channels
      /\ Agrees(graph, db) /\ db \in Records /\ cause \in Causes
      /\ db.evidence /\ db.plan = NoPlan /\ ~lost => graph.generation # 0
  BY Zenon DEF DataInv, DataTypeOK, ChannelsInv, Consistent, Records, Diagnoses, KnownUnlessLost
<1>3. /\ db.plan = NoPlan /\ db.diagnosis.actionable /\ TargetBinding \in Targets
      /\ \E n \in inspected..labels :
           (n = inspected \/ lost) /\ TargetBinding = Bound(n, db.service)
  BY Zenon, <1>1, TargetKnown
<1>4. plan.target = TargetBinding /\ plan # NoPlan /\ plan \in Plans
  BY <1>2, <1>3, PlanFacts DEF Plans
<1>5. CASE bad
  <2>1. Node("plan", db, graph, "escalated")
    BY Zenon, <1>1, <1>5
  <2>2. ChannelsInv' /\ KnownUnlessLost' /\ lost' \in BOOLEAN /\ (lost => lost')
    BY Zenon, <1>1, <1>2, <2>1, NodeChannels DEF history
  <2>3. db' = db /\ stage' = "escalated"
    BY Zenon, <2>1 DEF Node, CrashWith, Outcomes
  <2> QED BY Zenon, <1>1, <1>2, <2>2, <2>3, SameRecords, Stages
<1>6. CASE ~bad
  <2>1. Node("plan", planned, channels, "evaluate_policy") /\ ~PlanRaises(cause, TargetBinding)
    BY Zenon, <1>1, <1>6
  <2> HIDE DEF bad, plan
  <2>2. /\ planned \in Records /\ planned.plan = plan /\ planned.diagnosis = db.diagnosis
        /\ planned.service = db.service /\ planned.evidence = db.evidence
    BY Zenon, <1>2, <1>4 DEF Records
  <2>3. /\ plan.target.container \in HexIds /\ plan.target.generation \in 0..Generations
        /\ plan.target.service \in Services
    BY <1>3, <1>4, WindowAssumption DEF Targets
  <2>4. /\ channels \in Channels /\ channels.evidence = graph.evidence
        /\ channels.observation = graph.observation /\ channels.plan = TRUE
        /\ channels.diagnosis = graph.diagnosis /\ channels.cause = graph.cause
    BY Zenon, <1>2, <2>3 DEF Channels
  <2> HIDE DEF planned, channels
  <2>5. Consistent(channels, planned, inspected', warranted')
    <3>1. Agrees(channels, planned)
      BY Zenon, <1>2, <1>4, <2>2, <2>4 DEF Agrees
    <3>2. Observed(channels, planned, inspected', warranted')
      BY Zenon, <1>1, <1>2, <2>2, <2>4 DEF Consistent, Observed, history
    <3>3. OfInspected(channels, planned, inspected')
      BY Zenon, <1>4, <2>2 DEF OfInspected
    <3> QED BY Zenon, <2>4, <3>1, <3>2, <3>3 DEF Consistent
  <2>6. ChannelsInv' /\ KnownUnlessLost' /\ lost' \in BOOLEAN /\ (lost => lost')
    BY Zenon, <1>1, <1>3, <1>4, <2>1, <2>2, <2>5, NodeChannels DEF history
  <2>7. db' = planned /\ stage' \in {"evaluate_policy", "collect_evidence"}
    BY Zenon, <2>1 DEF Node, CrashWith, Outcomes
  <2>8. DataTypeOK'
    BY Zenon, <1>1, <2>2, <2>6, <2>7 DEF DataInv, DataTypeOK, Nodes, history
  <2>9. DiagnosisBound'
    BY Zenon, <1>1, <1>3, <2>2, <2>7 DEF DataInv, DiagnosisBound, history
  <2>10. PlanBound'
    <3>1. PICK n \in inspected..labels :
            (n = inspected \/ lost) /\ TargetBinding = Bound(n, db.service)
      BY Zenon, <1>3
    <3>2. db'.evidence => inspected' <= labels'
      BY Zenon, <1>1, <2>2, <2>7 DEF DataInv, PlanBound, history
    <3>3. /\ n \in inspected'..labels' /\ (n = inspected' \/ lost')
          /\ db'.plan = Draft(db'.diagnosis.cause, Bound(n, db'.service))
          /\ ~PlanRaises(db'.diagnosis.cause, Bound(n, db'.service))
      BY Zenon, <1>1, <2>1, <2>2, <2>6, <2>7, <3>1 DEF plan, history
    <3> QED BY Zenon, <1>3, <2>2, <2>7, <3>2, <3>3 DEF PlanBound
  <2>11. Progress'
    BY Zenon, <1>1, <1>4, <2>2, <2>7, Stages DEF DataInv, Progress
  <2> QED BY Zenon, <2>6, <2>8, <2>9, <2>10, <2>11 DEF DataInv
<1> QED BY Zenon, <1>5, <1>6

(* Steps that change neither the records nor the channels, but let the     *)
(* binding move on.                                                        *)
LEMMA ElsewhereStep ==
  ASSUME DataInv, labels \in -1..Generations, labels' \in Int, labels' >= labels,
         UNCHANGED <<history, db, graph, saved, lost>>, DataTypeOK', Progress',
         stage \notin Outcomes \/ stage' \in Outcomes
  PROVE  DataInv'
<1> USE DEF history
<1>1. ChannelsInv' /\ KnownUnlessLost'
  BY Zenon, SameChannels
<1>2. DiagnosisBound'
  BY Zenon DEF DataInv, DiagnosisBound
<1>3. PlanBound'
  <2>1. db.evidence => inspected <= labels'
    BY WindowAssumption DEF DataInv, DataTypeOK, PlanBound
  <2>2. \A n \in inspected..labels : n \in inspected..labels'
    BY WindowAssumption DEF DataInv, DataTypeOK
  <2> QED BY Zenon, <2>1, <2>2 DEF DataInv, PlanBound
<1> QED BY Zenon, <1>1, <1>2, <1>3 DEF DataInv

(* Every step keeps the records and the channels together. *)
LEMMA DataStep ==
  ASSUME DataInv, LoopInv, [Next]_vars
  PROVE  DataInv'
<1> USE Stages
<1>0. labels \in -1..Generations /\ labels \in Int /\ labels >= labels
  BY WindowAssumption DEF LoopInv, VerificationTypeOK
<1>1. db \in Records /\ stage \in Nodes \cup Outcomes \cup {"waiting"}
  BY Zenon DEF DataInv, DataTypeOK
<1>2. stage \in {"evaluate_policy", "waiting", "execute", "verify"} => db.plan # NoPlan
  BY Zenon DEF DataInv, Progress
<1>3. stage \notin {"verify"} \cup Outcomes => loop = "idle"
  BY Zenon DEF DataInv, Progress
<1>4. Agrees(graph, db)
  BY Zenon DEF DataInv, ChannelsInv, Consistent
<1>5. CASE SkipCollection
  BY Zenon, <1>1, <1>3, <1>5, SameRecords, SameChannels DEF SkipCollection, Skip, verification
<1>6. CASE collect_evidence_node
  BY Zenon, <1>0, <1>6, CollectStep
<1>7. CASE SkipDiagnosis
  <2>1. db.diagnosis # NoDiagnosis
    BY Zenon, <1>4, <1>7 DEF SkipDiagnosis, Agrees
  <2> QED
    BY Zenon, <1>1, <1>3, <1>7, <2>1, SameRecords, SameChannels
    DEF SkipDiagnosis, Skip, verification
<1>8. CASE diagnose_node
  BY Zenon, <1>8, DiagnoseStep
<1>9. CASE SkipPlanning
  <2>1. db.plan # NoPlan
    BY Zenon, <1>4, <1>9 DEF SkipPlanning, Agrees
  <2> QED
    BY Zenon, <1>1, <1>3, <1>9, <2>1, SameRecords, SameChannels
    DEF SkipPlanning, Skip, verification
<1>10. CASE PlanBadTarget
  BY Zenon, <1>1, <1>3, <1>10, SameRecords, RestartChannels DEF PlanBadTarget, verification
<1>11. CASE plan_node
  BY Zenon, <1>0, <1>11, PlanStep
<1>12. CASE evaluate_policy_node
  <2>1. PICK next \in {"collect_evidence", "waiting", "execute", "escalated"} :
          Node("evaluate_policy", db, graph, next)
    BY Zenon, <1>12 DEF evaluate_policy_node, route_after_policy
  <2>2. UNCHANGED <<history, loop, labels>>
    BY Zenon, <1>12 DEF evaluate_policy_node, verification
  <2>3. /\ Consistent(graph, db, inspected, warranted)
        /\ db.evidence /\ db.plan = NoPlan /\ ~lost => graph.generation # 0
    BY Zenon DEF DataInv, ChannelsInv, KnownUnlessLost
  <2>4. ChannelsInv' /\ KnownUnlessLost' /\ lost' \in BOOLEAN /\ (lost => lost')
    BY Zenon, <1>1, <2>1, <2>2, <2>3, NodeChannels DEF history
  <2>5. /\ stage = "evaluate_policy" /\ db' = db
        /\ stage' \in {"collect_evidence", "waiting", "execute", "escalated"}
    BY Zenon, <2>1 DEF Node, CrashWith
  <2> QED BY Zenon, <1>1, <1>2, <1>3, <2>2, <2>4, <2>5, SameRecords
<1>13. CASE ExecuteSucceeds
  <2>1. /\ stage = "execute" /\ stage' = "verify" /\ UNCHANGED <<graph, saved, db, lost, history>>
        /\ labels' = labels /\ db.plan # NoPlan
    BY Zenon, <1>2, <1>13 DEF ExecuteSucceeds, Start
  <2>2. DataTypeOK' /\ Progress'
    BY Zenon, <2>1 DEF DataInv, DataTypeOK, Progress, history
  <2> QED BY Zenon, <1>0, <2>1, <2>2, ElsewhereStep
<1>14. CASE ExecuteFails
  BY Zenon, <1>1, <1>3, <1>14, SameRecords, SameChannels DEF ExecuteFails, verification
<1>15. CASE run_verification
  <2>1. stage = "verify" /\ UNCHANGED <<stage, graph, saved, db, lost, history>>
    BY Zenon, <1>15 DEF run_verification, run
  <2>2. labels' = labels
    BY Zenon, <1>15 DEF run_verification, Sample, Timeout, Attribute
  <2>3. DataTypeOK' /\ Progress'
    BY Zenon, <2>1 DEF DataInv, DataTypeOK, Progress, history
  <2> QED BY Zenon, <1>0, <2>1, <2>2, <2>3, ElsewhereStep
<1>16. CASE verify_node
  BY Zenon, <1>1, <1>16, SameRecords, SameChannels DEF verify_node, verification
<1>17. CASE Crash
  <2>1. /\ CrashWith(db, stage) /\ db' = db /\ UNCHANGED <<history, loop, labels>>
        /\ stage \in Nodes \ {"execute", "verify"}
    BY Zenon, <1>17 DEF Crash, verification
  <2>2. ChannelsInv' /\ KnownUnlessLost' /\ lost' \in BOOLEAN /\ (lost => lost')
    BY Zenon, <1>1, <2>1, CrashChannels
  <2>3. stage' = "collect_evidence"
    BY Zenon, <2>1 DEF CrashWith
  <2> QED BY Zenon, <1>1, <1>3, <2>1, <2>2, <2>3, SameRecords
<1>18. CASE Approve
  <2>1. /\ stage = "waiting" /\ stage' = "collect_evidence"
        /\ UNCHANGED <<lost, history, loop, labels>>
        /\ db' = [db EXCEPT !.approved = TRUE] /\ StartOver(graph, db')
    BY Zenon, <1>18 DEF Approve, verification
  <2>2. /\ db' \in Records /\ db'.service = db.service /\ db'.evidence = db.evidence
        /\ db'.diagnosis = db.diagnosis /\ db'.plan = db.plan
    BY Zenon, <1>1, <2>1 DEF Records
  <2>3. ChannelsInv' /\ KnownUnlessLost' /\ lost' \in BOOLEAN /\ (lost => lost')
    BY Zenon, <2>1, <2>2, RestartChannels
  <2> QED BY Zenon, <1>3, <2>1, <2>2, <2>3, SameRecords
<1>19. CASE Reject
  BY Zenon, <1>1, <1>3, <1>19, SameRecords, SameChannels DEF Reject, verification
<1>20. CASE Around \/ UNCHANGED vars
  <2>1. /\ UNCHANGED <<stage, graph, saved, db, lost, history>>
        /\ loop' # "idle" => loop # "idle"
    BY Zenon, <1>20
    DEF Around, vars, run, verification, World, Clear, Inject, SelfRestart, Rebind
  <2>2. labels' = labels \/ Rebind
    BY Zenon, <1>20 DEF Around, vars, verification, World, Clear, Inject, SelfRestart
  <2>3. labels' \in Int /\ labels' >= labels
    BY <1>0, <2>2 DEF Rebind
  <2>4. DataTypeOK' /\ Progress'
    BY Zenon, <2>1 DEF DataInv, DataTypeOK, Progress, history
  <2> QED BY Zenon, <1>0, <2>1, <2>3, <2>4, ElsewhereStep
<1> QED
  BY Zenon, <1>5, <1>6, <1>7, <1>8, <1>9, <1>10, <1>11, <1>12, <1>13, <1>14, <1>15, <1>16,
     <1>17, <1>18, <1>19, <1>20 DEF Next, Work

-----------------------------------------------------------------------------
(* The recovery that is attributed to the agent. *)

Earned ==
  /\ loop = "idle" => ~relief
  /\ relief => fault = "gone"
  /\ loop = "passed" => ~relief

Inv == LoopInv /\ DataInv /\ Earned

(* A verification that runs has a scenario, so the injector is asked. *)
LEMMA ScenarioKnown ==
  ASSUME DataInv, stage = "verify"
  PROVE  scenario_id # "none"
<1>1. graph.cause \in Supported
  BY Zenon DEF DataInv, Progress, PlanBound, DiagnosisBound, ChannelsInv, Consistent, Agrees
<1> QED BY <1>1 DEF scenario_id, Supported

LEMMA InitInv == Init => Inv
<1> SUFFICES ASSUME Init PROVE Inv
  OBVIOUS
<1>1. LoopInv /\ Earned
  <2>1. VerificationTypeOK
    <3>1. NoWindow \in [clock : Nat, ready : 0..MinReady, met : BOOLEAN,
                        elapsed : Nat, healthy : Nat]
      BY WindowAssumption DEF NoWindow
    <3>2. NoStreak \in [n : 0..MinSamples, from : Nat]
      BY WindowAssumption DEF NoStreak
    <3>3. /\ {-1, 0} \subseteq -1..Generations /\ Interval \in 0..Interval
          /\ 0 \in 0..WorldLimit
      BY WindowAssumption
    <3> QED BY <3>1, <3>2, <3>3, Zenon DEF Init, InitVerification, VerificationTypeOK
  <2>2. Counted
    BY SMTT(20), WindowAssumption DEF Init, InitVerification, Counted, NoWindow, NoStreak
  <2>3. Clocked
    BY SMTT(20) DEF Init, InitVerification, Clocked, NoStreak
  <2>4. Fresh
    BY Zenon DEF Init, InitVerification, Fresh
  <2>5. Earned
    BY Zenon DEF Init, InitVerification, Earned
  <2> QED BY Zenon, <2>1, <2>2, <2>3, <2>4, <2>5 DEF LoopInv
<1>2. PICK service \in Services :
        db = [service |-> service, evidence |-> FALSE, diagnosis |-> NoDiagnosis,
              plan |-> NoPlan, approved |-> FALSE]
  BY Zenon DEF Init
<1>3. DataTypeOK
  <2>1. NoDiagnosis \in Diagnoses /\ NoPlan \in Plans
    BY DEF NoDiagnosis, Diagnoses, Causes, Plans
  <2>2. db \in Records
    BY Zenon, <1>2, <2>1 DEF Records
  <2> QED
    <3>1. inspected \in -1..Generations
      BY WindowAssumption DEF Init
    <3> QED BY Zenon, <2>2, <3>1 DEF Init, DataTypeOK, Nodes
<1>4. ChannelsInv
  <2>1. "none" \in Causes /\ None \in Int /\ 0 \in 0..Generations
    BY WindowAssumption DEF Causes, None
  <2>2. graph \in Channels
    BY Zenon, <2>1 DEF Init, Channels
  <2>3. Agrees(graph, db)
    BY <1>2, Zenon DEF Init, Agrees, NoDiagnosis
  <2>4. Observed(graph, db, inspected, warranted) /\ OfInspected(graph, db, inspected)
    BY Zenon DEF Init, Observed, OfInspected, Unbound
  <2> QED BY Zenon, <2>2, <2>3, <2>4 DEF Init, ChannelsInv, Consistent
<1>5. KnownUnlessLost /\ DiagnosisBound /\ PlanBound /\ Progress
  BY Zenon, <1>2
  DEF Init, InitVerification, KnownUnlessLost, DiagnosisBound, PlanBound, Progress, NoDiagnosis
<1> QED BY Zenon, <1>1, <1>3, <1>4, <1>5 DEF Inv, DataInv

(* A step of the specification keeps the loop's invariant and the          *)
(* attribution.                                                            *)
LEMMA LoopNext ==
  ASSUME Inv, [Next]_vars
  PROVE  LoopInv' /\ Earned'
<1>1. CASE ExecuteSucceeds
  <2>1. loop = "idle" /\ labels \in -1..Generations /\ Start(labels)
    BY Zenon, <1>1
    DEF Inv, DataInv, Progress, Outcomes, ExecuteSucceeds, LoopInv, VerificationTypeOK
  <2>2. LoopInv'
    BY Zenon, <2>1, LoopStep DEF Inv
  <2> QED BY Zenon, <2>1, <2>2 DEF Inv, Earned, Start
<1>2. CASE run_verification
  <2>1. ASSUME NEW s \in Samples, Sample(s, scenario_id) PROVE LoopInv' /\ Earned'
    <3>1. LoopInv'
      BY Zenon, <2>1, SampleStep DEF Inv
    <3>2. /\ relief' => fault = "gone" /\ fault' = fault
          /\ loop' \in {"ended", "sampling"} /\ fault' = fault
      BY Zenon, <2>1 DEF Sample
    <3> QED BY Zenon, <3>1, <3>2 DEF Earned
  <2>2. CASE Timeout
    <3>1. LoopInv'
      BY Zenon, <2>2, LoopStep DEF Inv
    <3> QED BY Zenon, <2>2, <3>1 DEF Earned, Timeout
  <2>3. CASE Attribute(scenario_id)
    <3>1. LoopInv'
      BY Zenon, <2>3, LoopStep DEF Inv
    <3>2. scenario_id # "none"
      BY Zenon, <1>2, ScenarioKnown DEF Inv, run_verification
    <3>3. loop' = "passed" => fault # "gone"
      BY Zenon, <2>3, <3>2 DEF Attribute, ExternalClearance
    <3> QED BY Zenon, <2>3, <3>1, <3>3 DEF Inv, Earned, Attribute
  <2> QED BY Zenon, <1>2, <2>1, <2>2, <2>3 DEF run_verification
<1>3. CASE Around
  <2>1. LoopInv'
    BY Zenon, <1>3, LoopStep DEF Inv, Around
  <2> QED
    BY <1>3, <2>1 DEF Inv, Earned, Around, World, Clear, Inject, SelfRestart, Rebind, Upset
<1>4. CASE UNCHANGED verification
  <2>1. LoopInv'
    BY Zenon, <1>4, LoopStep DEF Inv
  <2> QED BY Zenon, <1>4, <2>1 DEF Inv, Earned, verification
<1> QED
  BY Zenon, <1>1, <1>2, <1>3, <1>4
    DEF Next, Work, vars, SkipCollection, collect_evidence_node, SkipDiagnosis, diagnose_node,
        SkipPlanning, PlanBadTarget, plan_node, evaluate_policy_node, ExecuteFails,
        verify_node, Crash, Approve, Reject, Skip

LEMMA Invariance == Spec => []Inv
<1>1. Inv /\ [Next]_vars => Inv'
  BY Zenon, DataStep, LoopNext DEF Inv
<1> QED BY <1>1, InitInv, PTL DEF Spec

(* A verification passes only after MinSamples sound samples in a row that *)
(* span the stabilization window, for every profile with                   *)
(* (MinSamples - 1) intervals as long as the window (run_verification).    *)
THEOREM StableVerification == Spec => []PassedIsStable
<1>1. Inv => PassedIsStable
  BY Zenon, LoopInvStable DEF Inv
<1> QED BY <1>1, Invariance, PTL

(* A recovery that the injector brought about by the end of the window is  *)
(* never the agent's (_check_external_clearance, verify_node).             *)
THEOREM EarnedVerification == Spec => []PassedIsEarned
<1>1. Inv => PassedIsEarned
  BY Zenon DEF Inv, Earned, PassedIsEarned
<1> QED BY <1>1, Invariance, PTL

(* A stored plan has evidence that argues for a restart, for every answer  *)
(* of the telemetry and every crash (collector, engine, diagnose_node,     *)
(* plan_node).                                                             *)
THEOREM WarrantedRestart == Spec => []RestartWarranted
<1>1. Inv => RestartWarranted
  BY Zenon DEF Inv, DataInv, PlanBound, DiagnosisBound, RestartWarranted
<1> QED BY <1>1, Invariance, PTL

(* Nothing is restarted unattended on an uncertain or unsupported          *)
(* diagnosis, also when the policy node has to assume the confidence       *)
(* (evaluate_policy_node).                                                 *)
THEOREM CertainUnattended == Spec => []UnattendedIsCertain
<1>1. Inv => UnattendedIsCertain
  BY Zenon DEF Inv, DataInv, Progress, PlanBound, DiagnosisBound, UnattendedIsCertain
<1> QED BY <1>1, Invariance, PTL

(* The stored plan is for one binding that the resource has had since the  *)
(* evidence was collected, is valid as the dry run rebuilds it, and is for *)
(* the inspected container unless a crash lost that with its checkpoint:   *)
(* for every order in which checkpoints are stored behind the nodes, and   *)
(* every rebinding meanwhile (run_incident, plan_node,                     *)
(* compute_plan_content_hash, dry_run).                                    *)
THEOREM SoundPlan == Spec => []PlanSound
<1>1. ASSUME Inv, db.plan # NoPlan, NEW n, db.plan = Draft(db.diagnosis.cause, Binding(n)),
             ~PlanRaises(db.diagnosis.cause, Binding(n))
      PROVE  /\ db.plan.target = Binding(n)
             /\ validate(Rebuilt(db.plan, db.service), Binding(n))
  <2> DEFINE cause == db.diagnosis.cause
             bound == Binding(n)
  <2>1. db.plan = Draft(cause, bound) /\ ~PlanRaises(cause, bound)
    BY Zenon, <1>1
  <2>2. [bound EXCEPT !.service = db.service] = bound
    BY DEF Binding
  <2> HIDE DEF bound, cause
  <2>3. Rebuilt(Draft(cause, bound), db.service) = Draft(cause, bound)
    <3>1. Rebuilt(Draft(cause, bound), db.service)
            = [Draft(cause, bound) EXCEPT !.target = [@ EXCEPT !.service = db.service]]
      BY DEF Rebuilt
    <3> QED BY <2>2, <3>1 DEF Draft
  <2> QED BY Zenon, <2>1, <2>3, PlanFacts DEF PlanRaises, bound
<1>2. \A n : Bound(n, db.service) = Binding(n)
  BY Zenon DEF Bound, Binding
<1>3. Inv => PlanSound
  <2> SUFFICES ASSUME Inv, db.plan # NoPlan
               PROVE  \E n \in inspected..labels :
                        /\ n = inspected \/ lost
                        /\ db.plan.target = Binding(n)
                        /\ validate(Rebuilt(db.plan, db.service), Binding(n))
    BY Zenon DEF PlanSound
  <2>1. PICK n \in inspected..labels :
          /\ n = inspected \/ lost
          /\ db.plan = Draft(db.diagnosis.cause, Binding(n))
          /\ ~PlanRaises(db.diagnosis.cause, Binding(n))
    BY Zenon, <1>2 DEF Inv, DataInv, PlanBound
  <2> QED BY Zenon, <1>1, <2>1
<1> QED BY <1>3, Invariance, PTL
=============================================================================
