---------------------------- MODULE MCRemediation ----------------------------
EXTENDS Remediation, TLC

MCContainers == <<"c1", "c2">>
MCHexIds     == {"c1", "c2"}

Ok(value)  == [status |-> "success", value |-> value, age |-> 5]
Old(value) == [status |-> "success", value |-> value, age |-> 1000]
Lost(how)  == [status |-> how, value |-> None, age |-> None]

-----------------------------------------------------------------------------
(* Collections: the signals around the thresholds of the rules, in the     *)
(* combinations that the rules tell apart.                                 *)

Prom(up, cpu, process, probe, redis, db_connections) ==
  ("up" :> up) @@ ("cpu_rate" :> cpu) @@ ("process_cpu" :> process) @@
  ("probe_success" :> probe) @@ ("http_requests_total" :> Ok(30)) @@
  ("http_errors" :> Lost("empty")) @@ ("redis_connected" :> redis) @@
  ("db_connections" :> db_connections)

Reported(firing) == [reachable |-> TRUE, firing |-> firing]

Alerts == {Reported({}), Reported({"ApiUnresponsive"}),
           [reachable |-> FALSE, firing |-> {"ApiUnresponsive"}]}
Outage == Reported({"ContainerDown", "RedisUnreachable"})
Load   == Reported({"HighCpuSaturation"})

Answer(container, prom, alerts, logs) ==
  [container |-> container, prom |-> prom, alerts |-> alerts, logs |-> logs]

QuietLogs == [age |-> None, dependency |-> FALSE]

MCAnswers ==
  \* the container, its availability and its readiness
  {Answer(c, Prom(up, Ok(49), Ok(80), probe, Ok(100), Ok(7)), a, QuietLogs) :
     c \in {"running", "exited", "unknown"},
     up \in {Ok(1), Ok(0), Lost("error")},
     probe \in {Ok(100), Ok(49), Lost("empty")}, a \in Alerts \cup {Outage}}
  \cup
  {Answer("not_found", Prom(Ok(0), Ok(49), Ok(80), Ok(49), Ok(100), Ok(7)), a, QuietLogs) :
     a \in Alerts \cup {Outage}}
  \cup
  \* the load and the dependencies of a running container
  {Answer("running", Prom(Ok(1), cpu, Ok(80), probe, deps[1], deps[2]), a, QuietLogs) :
     cpu \in {Ok(49), Ok(72), Ok(75), Lost("empty")}, probe \in {Ok(100), Ok(0)},
     deps \in {<<Ok(100), Ok(7)>>, <<Ok(0), Ok(7)>>, <<Ok(100), Ok(8)>>},
     a \in Alerts \cup {Load}}
  \cup
  \* metrics that are old or unavailable, logs that may be fresh
  {Answer("exited", Prom(up, Old(80), Old(80), Old(0), Old(100), Old(3)), a, logs) :
     up \in {Old(0), Lost("unavailable")}, a \in Alerts,
     logs \in [age : {None, 10}, dependency : BOOLEAN]}

-----------------------------------------------------------------------------
(* Samples: a good one, and one deviation from it at a time. *)

Good ==
  [container |-> "running", readiness |-> "ok", cpu |-> Ok(75), total |-> Ok(100),
   errors |-> Ok(1), latency |-> Ok(200), alerts |-> [reachable |-> TRUE, firing |-> {}]]

MCSamples ==
  {Good,
   [Good EXCEPT !.container = "unobserved"], [Good EXCEPT !.readiness = "slow"],
   [Good EXCEPT !.cpu = Ok(76)],    [Good EXCEPT !.cpu = Old(20)],
   [Good EXCEPT !.total = Ok(19)],  [Good EXCEPT !.errors = Ok(2)],
   [Good EXCEPT !.errors = Lost("empty")],
   [Good EXCEPT !.latency = Ok(201)], [Good EXCEPT !.latency = Old(200)],
   [Good EXCEPT !.alerts = [reachable |-> FALSE, firing |-> {}]],
   [Good EXCEPT !.alerts.firing = {"HighCpuSaturation", "ApiUnresponsive"}]}
=============================================================================
