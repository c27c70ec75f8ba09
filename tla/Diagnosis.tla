------------------------------ MODULE Diagnosis ------------------------------
(***************************************************************************)
(* Evidence and diagnosis as pure functions: what the collector makes of   *)
(* the answers of Docker, Prometheus and Loki, the five diagnostic rules   *)
(* and the engine that picks a root cause.                                 *)
(*                                                                         *)
(* Ratios, CPU and confidence are in hundredths (85 is 0.85) and ages in   *)
(* seconds.  A query stands for its outcome after the collector's bounded  *)
(* retries: [status, value, age].                                          *)
(***************************************************************************)
EXTENDS Integers, FiniteSetsExt

None == -1    \* Python's None where a number is expected

Metrics ==
  {"up", "cpu_rate", "process_cpu", "probe_success",
   "http_requests_total", "http_errors", "redis_connected", "db_connections"}

Supported   == {"CONTAINER_STOPPED", "CPU_SATURATION", "API_UNRESPONSIVE"}
Unsupported == {"AMBIGUOUS", "INSUFFICIENT_EVIDENCE", "NO_ACTIVE_FAULT",
                "DEPENDENCY_UNAVAILABLE", "UNKNOWN"}

-----------------------------------------------------------------------------
(* The alerts of /api/v1/alerts; every error of the query reads as an      *)
(* empty list.                                                             *)
get_active_alerts(a) == IF a.reachable THEN a.firing ELSE {}

(* latest_value of a query: an error, a failure or an empty result has none. *)
Latest(query) == IF query.status = "success" THEN query.value ELSE None

(* The completeness of the metrics: one unavailable query outweighs any    *)
(* number of errors.                                                       *)
Completeness(prom) ==
  IF \E m \in Metrics : prom[m].status = "unavailable" THEN "UNAVAILABLE"
  ELSE IF \E m \in Metrics : prom[m].status = "error" THEN "ERROR"
  ELSE "COMPLETE"

(* The freshness of a bundle is that of its FRESHEST answer. *)
Freshness(e) ==
  LET ages == {e.prom[m].age : m \in {q \in Metrics : e.prom[q].status = "success"}}
              \cup (IF e.logs.age = None THEN {} ELSE {e.logs.age})
  IN  IF ages = {} THEN None ELSE Min(ages)

(* collect followed by to_observation_bundle.  The demo API's own CPU      *)
(* counter has priority over the process counter, and the readiness code   *)
(* is made up from the probe.                                              *)
to_observation_bundle(e) ==
  LET cpu   == Latest(e.prom["cpu_rate"])
      ratio == Latest(e.prom["probe_success"])
      redis == Latest(e.prom["redis_connected"])
  IN  [status     |-> e.container,
       up         |-> Latest(e.prom["up"]),
       cpu        |-> IF cpu # None THEN cpu ELSE Latest(e.prom["process_cpu"]),
       ratio      |-> ratio,
       code       |-> IF ratio = None THEN None ELSE IF ratio >= 100 THEN 200 ELSE 503,
       redis      |-> IF redis = None THEN None ELSE IF redis >= 100 THEN 1 ELSE 0,
       db         |-> Latest(e.prom["db_connections"]),
       alerts     |-> get_active_alerts(e.alerts),
       logs       |-> e.logs.dependency,
       prometheus |-> Completeness(e.prom),
       freshness  |-> Freshness(e)]

(* The ObservationBundle diagnose_node builds when the graph state holds   *)
(* none: the schema's defaults.                                            *)
DefaultBundle ==
  [status |-> "unknown", up |-> None, cpu |-> None, ratio |-> None,
   code |-> None, redis |-> None, db |-> None, alerts |-> {}, logs |-> FALSE,
   prometheus |-> "none", freshness |-> None]

-----------------------------------------------------------------------------
(* The rules.  A rule matches, is contradicted, or neither. *)

Match(cause, confidence) ==
  [matched |-> TRUE, contradicted |-> FALSE, cause |-> cause, confidence |-> confidence]
Contradicted ==
  [matched |-> FALSE, contradicted |-> TRUE, cause |-> "none", confidence |-> 0]
NoMatch ==
  [matched |-> FALSE, contradicted |-> FALSE, cause |-> "none", confidence |-> 0]

ContainerStoppedRule(o) ==
  IF o.status = "running" /\ o.up = 1 /\ o.code = 200 THEN Contradicted
  ELSE IF \/ o.status \in {"exited", "dead"}
          \/ o.up = 0 /\ o.status # "running"
  THEN Match("CONTAINER_STOPPED", IF "ContainerDown" \in o.alerts THEN 95 ELSE 90)
  ELSE NoMatch

DependencyUnavailableRule(o) ==
  IF \/ o.redis = 0 \/ "RedisUnreachable" \in o.alerts
     \/ o.db >= 8 \/ "PostgresPoolExhausted" \in o.alerts
     \/ o.logs
  THEN Match("DEPENDENCY_UNAVAILABLE", 90)
  ELSE NoMatch

CpuSaturationRule(o) ==
  LET firing == "HighCpuSaturation" \in o.alerts
  IN  IF \/ o.status \in {"exited", "dead"}
         \/ firing /\ o.cpu # None /\ o.cpu < 50
      THEN Contradicted
      ELSE IF o.status = "running" /\ (o.cpu >= 75 \/ (firing /\ o.cpu >= 70))
      THEN Match("CPU_SATURATION", IF firing THEN 90 ELSE 85)
      ELSE NoMatch

(* Readiness failed, or the alert alone says so. *)
ReadinessFailed(o) ==
  \/ o.ratio # None /\ o.ratio < 50
  \/ o.code \notin {None, 200}
  \/ "ApiUnresponsive" \in o.alerts

ApiUnresponsiveRule_AlertTrusted(o) ==
  LET firing == "ApiUnresponsive" \in o.alerts
  IN  IF o.cpu >= 75 \/ o.redis = 0 \/ o.db >= 8 THEN Contradicted
      ELSE IF o.status = "running" /\ ReadinessFailed(o)
      THEN Match("API_UNRESPONSIVE", IF firing THEN 90 ELSE 85)
      ELSE NoMatch

ApiUnresponsiveRule_LowConfidence(o) ==
  LET firing == "ApiUnresponsive" \in o.alerts
  IN  IF \/ o.ratio >= 100 /\ o.code = 200
         \/ o.cpu >= 75
         \/ o.redis = 0 \/ o.db >= 8
      THEN Contradicted
      ELSE IF o.status = "running" /\ ReadinessFailed(o)
      THEN Match("API_UNRESPONSIVE", IF firing THEN 90 ELSE 80)
      ELSE NoMatch

ApiUnresponsiveRule(o) ==
  LET firing == "ApiUnresponsive" \in o.alerts
  IN  IF \/ o.ratio >= 100 /\ o.code = 200
         \/ o.cpu >= 75
         \/ o.redis = 0 \/ o.db >= 8
      THEN Contradicted
      ELSE IF o.status = "running" /\ ReadinessFailed(o)
      THEN Match("API_UNRESPONSIVE", IF firing THEN 90 ELSE 85)
      ELSE NoMatch

NoActiveFaultRule(o) ==
  IF /\ o.status = "running"
     /\ o.up = None \/ o.up >= 1
     /\ o.ratio = None \/ o.ratio >= 100
     /\ o.code \in {None, 200}
     /\ o.cpu < 50
     /\ o.redis # 0 /\ o.db < 8
  THEN Match("NO_ACTIVE_FAULT", 95)
  ELSE NoMatch

-----------------------------------------------------------------------------
(* The engine: unusable telemetry first, then the first rule that matches  *)
(* in the order of the priorities, then the two fallbacks.                 *)

rules(o) ==
  <<ContainerStoppedRule(o), DependencyUnavailableRule(o), CpuSaturationRule(o),
    ApiUnresponsiveRule(o), NoActiveFaultRule(o)>>

Verdict(cause, confidence) ==
  [cause |-> cause, confidence |-> confidence, actionable |-> cause \in Supported]

diagnose(o) ==
  LET results  == rules(o)
      matching == {k \in 1..5 : results[k].matched}
      chosen   == results[Min(matching)]
  IN  IF \/ o.prometheus = "UNAVAILABLE"
         \/ o.freshness > 900
         \/ o.status = "not_found"
      THEN Verdict("INSUFFICIENT_EVIDENCE", 0)
      ELSE IF matching # {} THEN Verdict(chosen.cause, chosen.confidence)
      ELSE IF \E k \in 1..5 : results[k].contradicted THEN Verdict("AMBIGUOUS", 40)
      ELSE Verdict("INSUFFICIENT_EVIDENCE", 0)

-----------------------------------------------------------------------------
(* What a reader would call a healthy workload: every signal that the      *)
(* rules look at is there and is good.                                     *)
Healthy(o) ==
  /\ o.status = "running" /\ o.up = 1 /\ o.ratio = 100
  /\ o.cpu \in 0..49 /\ o.redis = 1 /\ o.db \in 0..7

(* An outage of Redis or PostgreSQL that was measured. *)
DependencyOut(o) == o.redis = 0 \/ o.db >= 8

(* Observations on which a restart can be argued for. *)
Warranted(o) ==
  /\ ~Healthy(o)
  /\ o.prometheus # "UNAVAILABLE" /\ ~(o.freshness > 900)
  /\ o.status # "not_found"
  /\ DependencyOut(o) => o.status # "running"
=============================================================================
