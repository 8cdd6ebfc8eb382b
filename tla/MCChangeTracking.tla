-------------------------- MODULE MCChangeTracking --------------------------
(* Instances of ChangeTracking for TLC. *)
EXTENDS ChangeTracking

CONSTANTS p1, p2

NoJobWrites == [p \in Plugins |-> {}]
\* p1 plays misc/pro: its jobs download external plugins
DownloadJobs == [p \in Plugins |-> IF p = p1 THEN {"external_plugins"} ELSE {}]
=============================================================================
