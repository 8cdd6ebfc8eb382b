----------------------------- MODULE MCInstance -----------------------------
(***************************************************************************)
(* Instances of Uploads and Limit for TLC: two parts of the Lua code of an *)
(* instance that share no state.  A behaviour of this module is one of     *)
(* them, in which the other does nothing: part says which.                 *)
(***************************************************************************)
EXTENDS Uploads, Limit, TLC

CONSTANTS u1, u2, f, g, r1, r2, r3, r4, w1, w2

\* The first archive has a file the second has not; at first there is only f.
MCHolds == [u \in Uploads \cup {Original} |->
               CASE u = u1 -> {f, g} [] u = u2 -> {g} [] OTHER -> {f}]

VARIABLE part

\* Requests are alike, and so are workers.
Alike == Permutations(Requests) \cup Permutations(Workers)

InstanceInit ==
    /\ Init /\ LimitInit
    /\ \/ part = "limit"
       \/ part = "upload" /\ ~useRedis /\ ~useGlobal /\ worker = [r \in Requests |-> w1]

InstanceNext ==
    \/ part = "upload" /\ Next /\ UNCHANGED <<part, limitVars>>
    \/ part = "limit" /\ LimitNext /\ UNCHANGED <<part, vars>>

InstanceSpec == InstanceInit /\ [][InstanceNext]_<<part, vars, limitVars>>
=============================================================================
