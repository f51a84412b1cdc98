------------------------------- MODULE Watchdog -------------------------------
(***************************************************************************)
(* core/src/watchdog.rs: the sensor-staleness watchdog.  `latched` is an   *)
(* Option<SafeState>, a set of at most one record.  Instants are           *)
(* microseconds of a monotonic clock.                                      *)
(***************************************************************************)
EXTENDS Integers

CONSTANT TimeoutUs      \* the staleness budget, 80 000 us in the manifest

ASSUME TimeoutAssumption == TimeoutUs \in Nat

SafeState == [last_seen_us : Nat, tripped_at_us : Nat]

VARIABLES lastSeen, latched
watchdogVars == << lastSeen, latched >>

WatchdogTypeOK ==
    /\ lastSeen \in Nat
    /\ latched \in SUBSET SafeState

\* Mutant: the deadline runs from clock zero, not from construction.
ArmAtZero(start) == lastSeen = 0 /\ latched = {}

\* Watchdog::new: armed from construction, not from the first frame.
Arm(start) == lastSeen = start /\ latched = {}

-----------------------------------------------------------------------------
\* Mutant: the comparison is inverted, a new reading does not move the deadline.
FeedInverted(now) ==
    /\ lastSeen' = (IF now < lastSeen THEN now ELSE lastSeen)
    /\ UNCHANGED latched

\* feed: an earlier timestamp does not move the deadline backwards.
Feed(now) ==
    /\ lastSeen' = (IF now > lastSeen THEN now ELSE lastSeen)
    /\ UNCHANGED latched

\* Mutant: one budget too many.
StaleLate(now) == now > lastSeen + 2 * TimeoutUs
Stale(now) == now > lastSeen + TimeoutUs

\* Mutant: a later check restamps the latched state.
CheckedRestamping(now) ==
    IF Stale(now) THEN {[last_seen_us |-> lastSeen, tripped_at_us |-> now]}
                  ELSE latched

\* check: what is latched after a check at `now`.
Checked(now) ==
    IF latched = {} /\ Stale(now)
    THEN {[last_seen_us |-> lastSeen, tripped_at_us |-> now]}
    ELSE latched

Check(now) ==
    /\ latched' = Checked(now)
    /\ UNCHANGED lastSeen

\* Mutant: the latch is cleared but the node is not re-armed.
WatchdogResetUnarmed(now) == lastSeen' = lastSeen /\ latched' = {}

\* reset: the only way out of the safe state.
WatchdogReset(now) == lastSeen' = now /\ latched' = {}

\* How far past its budget a trip landed.
OvershootPastBudget(s) == s.tripped_at_us - (s.last_seen_us + TimeoutUs)
=============================================================================
