--------------------------- MODULE MCJobScheduler ---------------------------
(* Instances of JobScheduler: job names are those of core plugins. *)
EXTENDS JobScheduler

CONSTANTS blacklist, greylist, mmdb, asn, p1, p2, p3

ThreeJobs == {blacklist, mmdb, asn}
\* mmdb and asn belong to one plugin
ThreePlugins == [j \in ThreeJobs |-> IF j = blacklist THEN p1 ELSE p2]
Downloads == {-1, 0, 1, 2}
Updates == {0, 1}
TwoJobs == {blacklist, greylist}
TwoPlugins == [j \in TwoJobs |-> IF j = blacklist THEN p1 ELSE p3]
=============================================================================
