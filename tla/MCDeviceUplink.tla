---------------------------- MODULE MCDeviceUplink ----------------------------
(* Instances of DeviceUplink for TLC.                                      *)
EXTENDS DeviceUplink, TLC

\* Identities of two sessions of two readings.
SessionIds == (1 .. MaxBoots) \X (0 .. MaxSequence - 1)
=============================================================================
