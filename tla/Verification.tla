----------------------------- MODULE Verification ----------------------------
(***************************************************************************)
(* The independent verification of a restart: the telemetry evaluator, its *)
(* sampling loop and the attribution of the recovery, with the world they  *)
(* observe: the container that may be replaced or restart by itself, and   *)
(* the fault, which may be cleared, expire or be injected again meanwhile. *)
(*                                                                         *)
(* Time is counted in a unit that divides the evaluation interval.  Ratios *)
(* and CPU are in hundredths, latency in milliseconds, ages in seconds.    *)
(***************************************************************************)
EXTENDS Integers

CONSTANTS
  Interval,     \* evaluation_interval_seconds; also the counters' warm-up
  Target,       \* stabilization_window_seconds
  MinSamples,   \* min_consecutive_passing_samples
  MaxDuration,  \* max_verification_duration_seconds
  MinReady,     \* readiness.required_consecutive_successes
  SampleTime,   \* bound on the time one evaluation takes
  Samples,      \* what one evaluation may be answered
  Generations,  \* bound on the generations of the container binding
  WorldLimit    \* bound on what happens to the world during verification

ASSUME WindowAssumption ==
  /\ Interval \in Nat \ {0} /\ Target \in Nat /\ MaxDuration \in Nat
  /\ MinSamples \in Nat \ {0} /\ MinReady \in Nat /\ SampleTime \in Nat
  /\ Generations \in Nat \ {0} /\ WorldLimit \in Nat
  /\ (MinSamples - 1) * Interval >= Target

VARIABLES
  loop,       \* run_verification: "idle", "sampling", "ended" and its verdict
  window,     \* its local variables
  labels,     \* generation of the binding in the resource's labels, 0 before
              \* the first discovery, -1 if registered with a container
  target,     \* generation of the binding under verification
  age,        \* time since the container started, up to Interval
  fault,      \* the injector's status; "gone" is cleared or expired
  upsets,     \* number of things that happened to the world
  streak,     \* history: the last samples in a row that were sound
  relief      \* history: the fault was gone when the loop ended

verification == <<loop, window, labels, target, age, fault, upsets, streak, relief>>

FreshLimit == 30

NoWindow == [clock |-> 0, ready |-> 0, met |-> FALSE, elapsed |-> 0, healthy |-> 0]
NoStreak == [n |-> 0, from |-> 0]    \* n counts up to MinSamples

-----------------------------------------------------------------------------
(* The profiles of the three scenarios; latency -1 is "not configured". *)
Profile(scenario) ==
  CASE scenario = "SCN-001" -> [alerts |-> {"ContainerDown"}, errors |-> 2, latency |-> -1]
    [] scenario = "SCN-002" -> [alerts |-> {"HighCpuSaturation"}, errors |-> 2, latency |-> 200]
    [] scenario = "SCN-003" -> [alerts |-> {"ApiUnresponsive"}, errors |-> 1, latency |-> 200]
    [] OTHER -> [alerts |-> {"ContainerDown", "HighCpuSaturation", "ApiUnresponsive"},
                 errors |-> 2, latency |-> 200]

(* The checks: PASS, FAIL or UNKNOWN.  A query is [status, value, age]. *)

Present(query) == query.status = "success"
Stale(query)   == query.age > FreshLimit

(* observe_container raises when the target is gone ("unobserved"); once   *)
(* the labels name another container, that one's identity is reported.     *)
evaluate_target_state(s) ==
  IF s.container = "unobserved" THEN "UNKNOWN"
  ELSE IF labels # target \/ s.container # "running" THEN "FAIL" ELSE "PASS"

evaluate_readiness(s) == IF s.readiness = "ok" THEN "PASS" ELSE "FAIL"

(* A container of unknown start time counts as warmed up. *)
check_counter_stability(s) == s.container # "unobserved" => age >= Interval

evaluate_cpu(s) ==
  IF ~check_counter_stability(s) \/ ~Present(s.cpu) \/ Stale(s.cpu) THEN "UNKNOWN"
  ELSE IF s.cpu.value > 75 THEN "FAIL" ELSE "PASS"

(* total and errors are requests in the window; at least 20 are needed. *)
evaluate_traffic_error_rate(s, profile) ==
  IF \/ ~check_counter_stability(s) \/ ~Present(s.total) \/ Stale(s.total)
     \/ s.total.value < 20 \/ ~Present(s.errors)    \* their age is not looked at
  THEN "UNKNOWN"
  ELSE IF s.errors.value * 100 > profile.errors * s.total.value THEN "FAIL" ELSE "PASS"

(* The age of the latency is not looked at. *)
evaluate_latency(s, profile) ==
  IF profile.latency = -1 THEN "PASS"
  ELSE IF ~check_counter_stability(s) \/ ~Present(s.latency) THEN "UNKNOWN"
  ELSE IF s.latency.value > profile.latency THEN "FAIL" ELSE "PASS"

(* An alerts endpoint that does not answer reads as no alert. *)
evaluate_alerts(s, profile) ==
  IF s.alerts.reachable /\ s.alerts.firing \cap profile.alerts # {} THEN "FAIL" ELSE "PASS"

all_passed(s, profile) ==
  {evaluate_target_state(s), evaluate_readiness(s), evaluate_cpu(s),
   evaluate_traffic_error_rate(s, profile), evaluate_latency(s, profile),
   evaluate_alerts(s, profile)} = {"PASS"}

-----------------------------------------------------------------------------
(* What the contract asks of a sample that counts, said of the signals     *)
(* themselves: of the workload, as far as they were answered, and of the   *)
(* telemetry.                                                              *)

Sound(s, profile) ==
  /\ labels = target /\ s.container = "running" /\ s.readiness = "ok"
  /\ \A q \in {s.cpu, s.total} : Present(q) /\ ~Stale(q)
  /\ Present(s.errors) /\ (profile.latency # -1 => Present(s.latency))
  /\ ~(s.cpu.value > 75) /\ ~(s.total.value < 20)
  /\ ~(s.errors.value * 100 > profile.errors * s.total.value)
  /\ profile.latency # -1 => ~(s.latency.value > profile.latency)
  /\ s.alerts.reachable => s.alerts.firing \cap profile.alerts = {}

Complete(s, profile) ==
  /\ s.container # "unobserved" /\ s.alerts.reachable
  /\ \A q \in {s.cpu, s.total, s.errors} : Present(q) /\ ~Stale(q)
  /\ profile.latency # -1 => Present(s.latency) /\ ~Stale(s.latency)

-----------------------------------------------------------------------------
(* The loop. *)

InitVerification ==
  /\ loop = "idle" /\ window = NoWindow
  /\ labels \in {-1, 0} /\ target = 0
  /\ age = Interval /\ upsets = 0
  /\ fault = "idle"
  /\ streak = NoStreak /\ relief = FALSE

(* run_verification begins, on a container that has just been restarted;   *)
(* what the injector did before that shows in its status.                  *)
Start(generation) ==
  /\ loop' = "sampling" /\ window' = NoWindow
  /\ target' = generation /\ age' \in 0..Interval
  /\ fault' \in {"idle", "active", "gone"}
  /\ UNCHANGED <<labels, upsets, streak, relief>>

Achieved_ByTime(w) == w.elapsed >= Target

(* Long enough, and often enough. *)
Achieved(w) == w.elapsed >= Target /\ w.healthy >= MinSamples

(* The counters after a sample: readiness first, then, once it has been    *)
(* seen MinReady times in a row, the stabilization window.                 *)
Count(w, s, profile) ==
  LET ready == IF evaluate_readiness(s) = "PASS" THEN w.ready + 1 ELSE 0
      met   == w.met \/ ready >= MinReady
      good  == met /\ all_passed(s, profile)
  IN  [clock   |-> w.clock,
       ready   |-> IF ready > MinReady THEN MinReady ELSE ready,
       met     |-> met,
       elapsed |-> IF good THEN w.elapsed + Interval ELSE 0,
       healthy |-> IF good THEN w.healthy + 1 ELSE 0]

(* One evaluation, and the sleep before the next one unless the window is  *)
(* achieved.  The number of readiness successes matters up to MinReady.    *)
Sample(s, scenario) ==
  LET profile == Profile(scenario)
      counted == Count(window, s, profile)
      over    == Achieved(counted)
  IN  /\ loop = "sampling" /\ window.clock < MaxDuration
      /\ \E took \in 0..SampleTime :
           LET pause == IF over THEN took ELSE took + Interval
           IN  /\ window' = [counted EXCEPT !.clock = @ + pause]
               /\ age' = IF age + pause > Interval THEN Interval ELSE age + pause
      /\ loop' = IF over THEN "ended" ELSE loop
      /\ relief' = (over /\ fault = "gone")
      /\ streak' = IF ~Sound(s, profile) THEN NoStreak
                   ELSE [n    |-> IF streak.n < MinSamples THEN streak.n + 1 ELSE streak.n,
                         from |-> IF streak.n = 0 THEN window.clock ELSE streak.from]
      /\ UNCHANGED <<labels, target, fault, upsets>>

Timeout_WhenReady ==
  /\ loop = "sampling" /\ window.clock >= MaxDuration /\ window.met
  /\ loop' = "ended" /\ relief' = (fault = "gone")
  /\ UNCHANGED <<window, labels, target, age, fault, upsets, streak>>

Timeout ==
  /\ loop = "sampling" /\ window.clock >= MaxDuration
  /\ loop' = "ended" /\ relief' = (fault = "gone")
  /\ UNCHANGED <<window, labels, target, age, fault, upsets, streak>>

ExternalClearance_Optional(scenario, answered) ==
  scenario # "none" /\ answered /\ fault = "gone"

(* _check_external_clearance: the recovery is not the agent's when the     *)
(* injector says that the fault is gone, or does not answer.               *)
ExternalClearance(scenario, answered) ==
  scenario # "none" /\ (answered => fault = "gone")

Attribute(scenario) ==
  /\ loop = "ended"
  /\ \E answered \in BOOLEAN :
       loop' = IF ExternalClearance(scenario, answered) THEN "external"
               ELSE IF Achieved(window) THEN "passed" ELSE "failed"
  /\ UNCHANGED <<window, labels, target, age, fault, upsets, streak, relief>>

-----------------------------------------------------------------------------
(* The world: the injector (the fault is cleared, expires, is injected     *)
(* again), a restart somewhere in the sleep between two samples, and a     *)
(* collection for another incident that finds the container replaced.      *)

Upset ==
  /\ loop \in {"sampling", "ended"} /\ upsets < WorldLimit
  /\ upsets' = upsets + 1

Clear ==
  /\ Upset /\ fault = "active" /\ fault' = "gone"
  /\ UNCHANGED <<loop, window, labels, target, age, streak, relief>>

Inject ==
  /\ Upset /\ fault # "active"
  /\ fault' = "active" /\ relief' = FALSE
  /\ UNCHANGED <<loop, window, labels, target, age, streak>>

SelfRestart ==
  /\ Upset /\ loop = "sampling"
  /\ age' \in 0..Interval
  /\ UNCHANGED <<loop, window, labels, target, fault, streak, relief>>

Rebind ==
  /\ labels < Generations /\ labels' = IF labels < 1 THEN 1 ELSE labels + 1
  /\ UNCHANGED <<loop, window, target, age, fault, upsets, streak, relief>>

World == Clear \/ Inject \/ SelfRestart \/ Rebind

-----------------------------------------------------------------------------
VerificationTypeOK ==
  /\ loop \in {"idle", "sampling", "ended", "passed", "failed", "external"}
  /\ window \in [clock : Nat, ready : 0..MinReady, met : BOOLEAN,
                 elapsed : Nat, healthy : Nat]
  /\ labels \in -1..Generations /\ target \in -1..Generations /\ age \in 0..Interval
  /\ fault \in {"idle", "active", "gone"} /\ upsets \in 0..WorldLimit
  /\ streak \in [n : 0..MinSamples, from : Nat]
  /\ relief \in BOOLEAN

(* A verification passes only after MinSamples sound samples in a row that *)
(* span the stabilization window on the clock: no failing signal, replaced *)
(* container, missing measurement, stale CPU or traffic, or early success  *)
(* of the counters gets an incident resolved (run_verification's counters  *)
(* and breaks).  What the code does with stale errors and latency and with *)
(* alerts that are not answered, MissingSignalResets says.                 *)
PassedIsStable ==
  loop = "passed" =>
    streak.n = MinSamples /\ window.clock - streak.from >= Target

(* A verification does not pass when the fault had been cleared or had     *)
(* expired by the end of the window, unless it was injected again since    *)
(* (_check_external_clearance).                                            *)
PassedIsEarned == loop = "passed" => ~relief
=============================================================================
