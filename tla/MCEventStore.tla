----------------------------- MODULE MCEventStore -----------------------------
(* Instances of EventStore for TLC.                                        *)
EXTENDS EventStore, TLC

\* Devices, identities, secrets and valid values are only compared.
Symmetry ==
    Permutations(Ids) \cup Permutations(Devices)
    \cup Permutations(Secrets) \cup Permutations(Values \ Invalid)
=============================================================================
