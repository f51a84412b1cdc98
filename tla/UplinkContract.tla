---------------------------- MODULE UplinkContract ----------------------------
(***************************************************************************)
(* What device and cloud promise together (docs/decisions/0001, Decisions  *)
(* and Recovery invariants): a reading is held by the device from the      *)
(* moment it is sampled; it leaves from the front, either because the      *)
(* cloud has confirmed it or, when the device is full, counted as lost;    *)
(* what is confirmed stays confirmed.  There are no requests, answers,     *)
(* sessions, credentials or files here.                                    *)
(***************************************************************************)
EXTENDS Naturals, Sequences

CONSTANTS Readings, Capacity

VARIABLES held, delivered, lost

contractVars == << held, delivered, lost >>

Init == held = << >> /\ delivered = {} /\ lost = 0

Sample(r) ==
    /\ \A i \in DOMAIN held : held[i] # r
    /\ r \notin delivered
    /\ IF Len(held) = Capacity
       THEN held' = Append(Tail(held), r) /\ lost' = lost + 1
       ELSE held' = Append(held, r) /\ UNCHANGED lost
    /\ UNCHANGED delivered

\* The cloud confirms the readings of S, and the device lets go of its first
\* n if it knows that they are confirmed.
Confirm(S, n) ==
    /\ delivered' = delivered \cup S
    /\ \A i \in 1 .. n : held[i] \in delivered'
    /\ held' = SubSeq(held, n + 1, Len(held))
    /\ UNCHANGED lost

Next ==
    \/ \E r \in Readings : Sample(r)
    \/ \E S \in SUBSET Readings, n \in 0 .. Len(held) : Confirm(S, n)

Spec == Init /\ [][Next]_contractVars
=============================================================================
