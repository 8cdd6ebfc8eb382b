--------------------------- MODULE ChangeDelivery ---------------------------
(***************************************************************************)
(* What ChangeTracking promises to those who write to the database, with   *)
(* no scheduler and no flags: the instances run content that the database  *)
(* held, never go back to an older version, and a change that was accepted *)
(* runs on them when the pass that accepted it ends, unless that pass      *)
(* failed.  It does not promise that an accepted change stays: a version   *)
(* has the changes of those before it, but for what a start took back.     *)
(***************************************************************************)
EXTENDS Naturals

CONSTANTS
    Areas,
    OnDisk  \* areas whose files on disk are stored when the scheduler starts

VARIABLES
    db,     \* version of the content of an area in the database
    live,   \* version that the instances run
    owed,   \* version that was accepted last
    phase,  \* "start", "busy": the first pass, another one is under way; how it ended:
            \* "delivered", "failed"
    undone  \* areas where accepted changes were taken back
vars == <<db, live, owed, phase, undone>>

\* f <= g everywhere
Upto(f, g) == \A a \in Areas : f[a] <= g[a]

Init ==
    /\ db = [a \in Areas |-> 0]
    /\ live = [a \in Areas |-> 0]
    /\ owed = [a \in Areas |-> 0]
    /\ phase \in {"start", "delivered"}
    /\ undone = {}

\* content is added by anybody at any time, also by the scheduler itself
Write ==
    /\ db' \in [Areas -> Nat] /\ Upto(db, db')
    /\ UNCHANGED <<live, owed, phase, undone>>

\* what is found on disk is stored over it
TakeBack ==
    /\ phase = "start"
    /\ \E a \in OnDisk :
          /\ db' = [db EXCEPT ![a] = @ + 1]
          /\ owed[a] > 0 /\ undone' = undone \cup {a}
    /\ UNCHANGED <<live, owed, phase>>

\* a pass begins: the changes of some areas are accepted
Accept ==
    /\ phase \in {"delivered", "failed"}
    /\ phase' = "busy"
    /\ \A a \in Areas : owed'[a] \in {owed[a], db[a]}
    /\ UNCHANGED <<db, live, undone>>

\* the instances are sent newer content
Apply ==
    /\ phase \in {"start", "busy"}
    /\ live' \in [Areas -> Nat]
    /\ Upto(live, live') /\ Upto(live', db)
    /\ UNCHANGED <<db, owed, phase, undone>>

Complete ==
    /\ phase \in {"start", "busy"}
    /\ \/ phase' = "delivered" /\ Upto(owed, live)
       \/ phase' = "failed"
    /\ UNCHANGED <<db, live, owed, undone>>

\* the scheduler is restarted, which begins a pass
Interrupt ==
    /\ phase' = "start"
    /\ UNCHANGED <<db, live, owed, undone>>

Next == Write \/ TakeBack \/ Accept \/ Apply \/ Complete \/ Interrupt

Spec == Init /\ [][Next]_vars
=============================================================================
