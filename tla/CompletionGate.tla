---------------------------- MODULE CompletionGate ----------------------------
(***************************************************************************)
(* host/src/report.rs and host/src/main.rs: the verdicts on a run.  The    *)
(* thresholds are those of the frozen manifest.  An outcome is a record of *)
(* what run() returned.                                                    *)
(***************************************************************************)
EXTENDS JitterStats, FiniteSets

CONSTANTS
    missed_deadlines_max, p99_jitter_us_max, rejected_frames_max, watchdog_may_trip,
    max_reaction_time_us        \* of the sensor-freeze control

ASSUME ManifestAssumption ==
    /\ missed_deadlines_max \in Nat /\ p99_jitter_us_max \in Nat /\ rejected_frames_max \in Nat
    /\ watchdog_may_trip \in BOOLEAN /\ max_reaction_time_us \in Nat

\* Mutant: the deadlines are not looked at.
GatePassWithoutDeadlines(o) ==
    /\ P99(o.jitter) <= p99_jitter_us_max
    /\ o.rejected <= rejected_frames_max
    /\ watchdog_may_trip \/ o.safeState = {}

\* Mutants: rejected frames, or a tripped watchdog, are not looked at.
GatePassWithoutRejects(o) ==
    /\ o.jitter.missed <= missed_deadlines_max
    /\ P99(o.jitter) <= p99_jitter_us_max
    /\ watchdog_may_trip \/ o.safeState = {}
GatePassWithoutWatchdog(o) ==
    /\ o.jitter.missed <= missed_deadlines_max
    /\ P99(o.jitter) <= p99_jitter_us_max
    /\ o.rejected <= rejected_frames_max

\* evaluate_positive_gate: every check passed.
GatePass(o) ==
    /\ o.jitter.missed <= missed_deadlines_max
    /\ P99(o.jitter) <= p99_jitter_us_max
    /\ o.rejected <= rejected_frames_max
    /\ watchdog_may_trip \/ o.safeState = {}

\* evaluate_cpu_hog: the gate failed; the split says what it failed for.
CpuHogCaught(o) == ~GatePass(o)
Attributable(o) ==
    o.missesInside > 0 /\ o.missesInside > o.missesOutside

\* evaluate_can_corrupt, against the totals and the histogram of a manifest.
CanCorruptCaught(o, spec) ==
    /\ o.rejected = spec.rejected
    /\ \A r \in DOMAIN spec.byReason : o.byReason[r] = spec.byReason[r]
    /\ o.accepted = spec.accepted
    /\ ~GatePass(o)

\* SafeState::time_since_last_accepted_us
Reaction(s) == s.tripped_at_us - s.last_seen_us

\* evaluate_sensor_freeze: tripped in time, after the freeze, and held.
SensorFreezeCaught(o, spec) ==
    /\ o.safeState # {}
    /\ \A s \in o.safeState : Reaction(s) <= max_reaction_time_us
    /\ o.actuatorZeroSinceTrip
    /\ ~GatePass(o)
    /\ o.tripCycle # {} /\ \A t \in o.tripCycle : t > spec.freeze_at_cycle

\* cmd_run's exit: a control asks whether it was caught, a positive run whether
\* the gate passed.
Verdict(id, o, spec) ==
    CASE id = "cpu-hog"       -> CpuHogCaught(o)
      [] id = "can-corrupt"   -> CanCorruptCaught(o, spec)
      [] id = "sensor-freeze" -> SensorFreezeCaught(o, spec)
      [] OTHER                -> GatePass(o)
=============================================================================
