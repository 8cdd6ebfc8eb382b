------------------------------ MODULE MCRunAV ------------------------------
(***************************************************************************)
(* Instances of RunAV and of the modules of its library for TLC.  They     *)
(* share no state, so a behaviour of this module is one of one of them:    *)
(* part says which.                                                        *)
(***************************************************************************)
EXTENDS RunAV, RpcLog, RpcConf, RpcBlocklist

CONSTANTS c1, c2

VARIABLE part

libVars == <<logVars, confVars, blocklistVars>>
allVars == <<part, vars, libVars>>

FileNames == {<<"x">>, <<"x", ":">>, <<":", "x">>}

Rpc == "MODSEC_RPC"
Home == "MODSEC_RPC_HOME"
RpcNames == {Rpc, Home}
RpcPart == [n \in RpcNames |-> IF n = Rpc THEN RpcNames ELSE {Home}]

Address == "10.0.0.1"
Longer == "10.0.0.10"
Addresses == {Address, Longer}
AddressPart == [a \in Addresses |-> IF a = Address THEN Addresses ELSE {Longer}]

AllInit ==
    /\ Init /\ LogInit
    /\ part \in {"scan", "log", "conf", "sweep"}
    /\ ConfInit /\ (part # "conf" => file = "modsec")
    /\ BlocklistInit /\ (part # "sweep" => given = <<>> /\ ip = "NULL")

AllNext ==
    \/ part = "scan" /\ Next /\ UNCHANGED <<part, libVars>>
    \/ /\ UNCHANGED <<part, vars>>
       /\ \/ part = "log" /\ LogNext /\ UNCHANGED <<confVars, blocklistVars>>
          \/ part = "conf" /\ ConfNext /\ UNCHANGED <<logVars, blocklistVars>>
          \/ part = "sweep" /\ BlocklistNext /\ UNCHANGED <<logVars, confVars>>

AllSpec ==
    /\ AllInit /\ [][AllNext]_allVars
    /\ part = "scan" => Fairness
    /\ part = "log" => LogFairness

\* See the comment in RpcLog.
LogEnds == part = "log" => Logged
=============================================================================
