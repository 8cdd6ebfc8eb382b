---------------------------- MODULE MCDeployment ----------------------------
(* Instances of Deployment for TLC. *)
EXTENDS Deployment

CONSTANTS i1, i2

One == <<i1>>
Two == <<i1, i2>>
=============================================================================
