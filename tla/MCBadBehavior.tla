--------------------------- MODULE MCBadBehavior ---------------------------
(* One service that bans for itself.  With Redis two instances get one     *)
(* request each; without Redis they have nothing in common, so that all    *)
(* requests go to one of them.                                             *)
EXTENDS BadBehavior
CONSTANT Busy  \* the instance that gets the requests without Redis
MCMaxRequests == [r \in BOOLEAN |-> [i \in Instances |-> IF r THEN 1 ELSE IF i = Busy THEN 3 ELSE 0]]
MCScope == [s \in Services |-> "service"]
MCBanTime == Forever
MCMode == [s \in Services |-> "block"]
=============================================================================
