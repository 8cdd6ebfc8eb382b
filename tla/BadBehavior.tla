---------------------------- MODULE BadBehavior ----------------------------
(***************************************************************************)
(* The bad behavior plugin (common/core/badbehavior/badbehavior.lua) on    *)
(* top of Bans: requests of one address that end with a bad status are     *)
(* queued by the workers, the timer of worker 0 counts them, in Redis when *)
(* there is one, bans the address at Threshold and takes every count back  *)
(* CountTime later.  The API of an instance bans and unbans as well.       *)
(*                                                                         *)
(* Time stamps are kept as remaining times; the timer runs once in a unit. *)
(***************************************************************************)
EXTENDS Bans, Sequences

CONSTANTS
    Scope,        \* Scope[s]: BAD_BEHAVIOR_BAN_SCOPE of s, "service" or "global"
    Mode,         \* Mode[s]: SECURITY_MODE of s, "block" or "detect"
    Threshold,    \* BAD_BEHAVIOR_THRESHOLD
    CountTime,    \* BAD_BEHAVIOR_COUNT_TIME
    BanTime,      \* BAD_BEHAVIOR_BAN_TIME, Forever for 0
    Whitelisted,  \* what is_ip_whitelisted may answer: part of {"yes", "no", "error"}
    MaxRequests,  \* bound: MaxRequests[useRedis][i] requests of the address to i
    OrderTimes,   \* the durations of the bans ordered through the API
    MaxOrders     \* bound: bans and unbans through the API

ASSUME CountingAssumption ==
    /\ Threshold \in Nat \ {0}
    /\ CountTime \in Nat \ {0}
    /\ BanTime \in Times \ {None}
    /\ OrderTimes \subseteq Times \ {None}
    /\ Scope \in [Services -> {"service", "global"}]
    /\ Mode \in [Services -> {"block", "detect"}]

VARIABLES
    incr,     \* incr[i]: plugin_badbehavior_incr, the services of the bad requests
    decr,     \* decr[i]: plugin_badbehavior_decr, keys and the time until they are due
    count,    \* count[i][k]: plugin_badbehavior_count_..., a number that expires
    shared,   \* shared[k]: plugin_bad_behavior_... in Redis
    timer,    \* timer[i]: where the timer of i is
    serving,  \* serving[i]: the service the request of i is for
    requests, \* requests[i]: requests to i so far
    orders    \* orders to the API so far

countVars == <<incr, decr, count, shared, timer>>
vars == <<bansVars, countVars, serving, requests, orders>>

\* Under which key the bad requests of a service are counted and banned.
KeyOf(s) == IF Scope[s] = "service" THEN s ELSE Global

Zero == [n |-> 0, left |-> 0]
Counted(n) == [n |-> n, left |-> CountTime]
ExpiredNever(c) == c   \* mutant: EXPIRE is forgotten
Expired(c) == IF c.left <= 1 THEN Zero ELSE [c EXCEPT !.left = @ - 1]

\* The timer: its phase, the entries its loop has left, and what it has counted
\* in this run, per key the last number and the service it came with.
Stopped == [at |-> "due", left |-> 0, of |-> Global, seen |-> [k \in Keys |-> [n |-> 0, of |-> k]]]
Request(i) == <<i, "request">>
Timer(i) == <<i, "timer">>
Api(i) == <<i, "api">>

Phases == {"due", "decr", "incr", "look", "bans", "ran"}
Counters == [n : Nat, left : 0 .. CountTime]

CountTypeOK ==
    /\ TypeOK
    /\ incr \in [Instances -> Seq(Keys)]
    /\ decr \in [Instances -> Seq([key : Keys, left : -1 .. CountTime])]
    /\ count \in [Instances -> [Keys -> Counters]]
    /\ shared \in [Keys -> Counters]
    /\ timer \in [Instances -> [at : Phases, left : Nat, of : Keys,
                                 seen : [Keys -> [n : Nat, of : Keys]]]]
    /\ serving \in [Instances -> Keys]
    /\ requests \in [Instances -> Nat]
    /\ orders \in Nat

CountInit ==
    /\ Init
    /\ incr = [i \in Instances |-> <<>>]
    /\ decr = [i \in Instances |-> <<>>]
    /\ count = [i \in Instances |-> [k \in Keys |-> Zero]]
    /\ shared = [k \in Keys |-> Zero]
    /\ timer = [i \in Instances |-> Stopped]
    /\ serving = [i \in Instances |-> Global]
    /\ requests = [i \in Instances |-> 0]
    /\ orders = 0

(***************************************************************************)
(* A request: is_banned in the access phase, then an answer; log() queues  *)
(* it when the status is bad and the address is not known to be banned.    *)
(* The log phase cannot reach Redis: with USE_REDIS its second is_banned   *)
(* is nil before it has looked into the dictionary.                        *)
(***************************************************************************)
Access(i) ==
    /\ requests[i] < MaxRequests[useRedis][i]
    /\ \E s \in Services :
          /\ Lookup(Request(i), s)
          /\ serving' = [serving EXCEPT ![i] = s]
    /\ requests' = [requests EXCEPT ![i] = @ + 1]
    /\ UNCHANGED <<countVars, orders>>

BannedLocally(i, s) == local[i][s] # None \/ local[i][Global] # None

Log(i) ==
    /\ Answered(Request(i))
    /\ \/ UNCHANGED incr                     \* a good status, or a banned client
       \/ /\ doing[Request(i)].op # "banned"
          /\ useRedis \/ ~BannedLocally(i, serving[i])
          /\ incr' = [incr EXCEPT ![i] = Append(@, serving[i])]
    /\ serving' = [serving EXCEPT ![i] = Global]
    /\ UNCHANGED <<useRedis, local, redis, faults, own, grace, decr, count, shared, timer, requests, orders>>

(***************************************************************************)
(* The timer, first loop: the entries that were in the list when it began. *)
(* One that is due is taken back from the counter, in Redis or, when that  *)
(* fails, in the dictionary; the others go to the end of the list.         *)
(***************************************************************************)
\* A loop with entries left goes on; the length of the second list is read when
\* the first loop ends, and the bans follow the second.
LoopOneMore(i, at, left) ==   \* mutant: one turn too many
    IF left >= 0 THEN [at |-> at, left |-> left] ELSE [at |-> "bans", left |-> 0]
Loop(i, at, left) ==
    IF left > 0 THEN [at |-> at, left |-> left]
    ELSE IF at = "decr" /\ incr[i] # <<>> THEN [at |-> "incr", left |-> Len(incr[i])]
    ELSE [at |-> "bans", left |-> 0]

Moves(i, at, left) ==
    timer' = [timer EXCEPT ![i].at = Loop(i, at, left).at, ![i].left = Loop(i, at, left).left]

TimerStart(i) ==
    /\ timer[i].at = "due"
    /\ Moves(i, "decr", Len(decr[i]))
    /\ UNCHANGED <<bansVars, incr, decr, count, shared, serving, requests, orders>>

DownBelowZero(c) == Counted(c.n - 1)   \* mutant: no floor, the counter may have expired
DownToOne(c) == IF c.n <= 1 THEN c ELSE Counted(c.n - 1)   \* mutant: the last one stays
Down(c) == IF c.n <= 1 THEN Zero ELSE Counted(c.n - 1)

\* "no memory": the dictionary does not take a value or a list entry.
NoMemory == faults < MaxFaults /\ faults' = faults + 1

Decrease(i, k) ==
    \/ /\ ~useRedis /\ RedisAnswers
       /\ count' = [count EXCEPT ![i][k] = Down(@)]
       /\ UNCHANGED shared
    \/ /\ useRedis /\ RedisAnswers
       /\ shared' = [shared EXCEPT ![k] = Down(@)]
       /\ count' = [count EXCEPT ![i][k] = Down(shared[k])]
    \/ /\ useRedis /\ RedisFails              \* not executed, or the answer is lost
       /\ shared' \in {shared, [shared EXCEPT ![k] = Down(@)]}
       /\ count' = [count EXCEPT ![i][k] = Down(@)]
    \/ /\ NoMemory                            \* the dictionary keeps the number it has
       /\ shared' = IF useRedis THEN [shared EXCEPT ![k] = Down(@)] ELSE shared
       /\ UNCHANGED count

TimerDecr(i) ==
    /\ timer[i].at = "decr"
    /\ LET head == Head(decr[i])
       IN \/ /\ head.left < 0
             /\ decr' = [decr EXCEPT ![i] = Tail(@)]
             /\ Decrease(i, head.key)
          \/ /\ head.left >= 0
             /\ decr' = [decr EXCEPT ![i] = Append(Tail(@), head)]
             /\ UNCHANGED <<count, shared, faults>>
          \/ /\ head.left >= 0 /\ NoMemory    \* it cannot be put back: the decrease is lost
             /\ decr' = [decr EXCEPT ![i] = Tail(@)]
             /\ UNCHANGED <<count, shared>>
    /\ Moves(i, "decr", timer[i].left - 1)
    /\ UNCHANGED <<useRedis, local, redis, doing, own, grace, incr, serving, requests, orders>>

(***************************************************************************)
(* Second loop: pop a request and look the address up again; unless it is  *)
(* banned, count it and queue the decrease.                                *)
(***************************************************************************)
TimerIncr(i) ==
    /\ timer[i].at = "incr"
    /\ Lookup(Timer(i), Head(incr[i]))
    /\ incr' = [incr EXCEPT ![i] = Tail(@)]
    /\ timer' = [timer EXCEPT ![i].at = "look", ![i].of = Head(incr[i])]
    /\ UNCHANGED <<decr, count, shared, serving, requests, orders>>

TimerSkip(i) ==
    /\ timer[i].at = "look" /\ doing[Timer(i)].op = "banned"
    /\ Answered(Timer(i))
    /\ Moves(i, "incr", timer[i].left - 1)
    /\ UNCHANGED <<useRedis, local, redis, faults, own, grace, incr, decr, count, shared,
                   serving, requests, orders>>

\* The script of redis_increase: at the threshold it writes the ban key too,
\* whatever the security mode and the whitelist say.
Script(k, up) ==
    /\ shared' = [shared EXCEPT ![k] = Counted(up)]
    /\ IF up >= Threshold THEN Stored(k, BanTime) ELSE UNCHANGED <<redis, grace>>

Increase(i, k, n) ==
    \/ /\ ~useRedis /\ RedisAnswers
       /\ n = count[i][k].n + 1
       /\ UNCHANGED <<redis, grace, shared>>
    \/ /\ useRedis /\ RedisAnswers
       /\ n = shared[k].n + 1
       /\ Script(k, n)
    \/ /\ useRedis /\ RedisFails              \* not executed, or the answer is lost
       /\ n = count[i][k].n + 1
       /\ Script(k, shared[k].n + 1) \/ UNCHANGED <<redis, grace, shared>>

DueInGlobal(k) == [key |-> Global, left |-> CountTime]   \* mutant: the scope is lost
DueIn(k) == [key |-> k, left |-> CountTime]

TimerCount(i) ==
    LET s == timer[i].of
        k == KeyOf(s)
    IN /\ timer[i].at = "look" /\ doing[Timer(i)].op \in {"free", "unknown"}
       /\ Answered(Timer(i))
       /\ \E n \in {count[i][k].n + 1, shared[k].n + 1} :
             /\ Increase(i, k, n)
             /\ count' = [count EXCEPT ![i][k] = Counted(n)]
             /\ decr' = [decr EXCEPT ![i] = Append(@, DueIn(k))]
             /\ timer' = [timer EXCEPT ![i].at = Loop(i, "incr", timer[i].left - 1).at,
                                       ![i].left = @ - 1,
                                       ![i].seen[k] = [n |-> n, of |-> s]]
       /\ UNCHANGED <<useRedis, local, own, incr, serving, requests, orders>>

\* The dictionary is full: the counter is not saved, and the request is not
\* counted although Redis has counted it; or only its decrease is not queued.
TimerCountFull(i) ==
    LET s == timer[i].of
        k == KeyOf(s)
        n == IF useRedis THEN shared[k].n + 1 ELSE count[i][k].n + 1
    IN /\ timer[i].at = "look" /\ doing[Timer(i)].op \in {"free", "unknown"}
       /\ Answered(Timer(i))
       /\ NoMemory
       /\ IF useRedis THEN Script(k, n) ELSE UNCHANGED <<redis, grace, shared>>
       /\ \/ /\ Moves(i, "incr", timer[i].left - 1)
             /\ UNCHANGED count
          \/ /\ count' = [count EXCEPT ![i][k] = Counted(n)]
             /\ timer' = [timer EXCEPT ![i].at = Loop(i, "incr", timer[i].left - 1).at,
                                       ![i].left = @ - 1,
                                       ![i].seen[k] = [n |-> n, of |-> s]]
       /\ UNCHANGED <<useRedis, local, own, incr, decr, serving, requests, orders>>

(***************************************************************************)
(* Last loop: the keys counted in this run that have reached the           *)
(* threshold, with the settings of the last request counted for them.      *)
(***************************************************************************)
Reached(c) == c.n > 0 /\ c.n >= Threshold

TimerBan(i, k) ==
    LET s == timer[i].seen[k].of
    IN /\ timer[i].at = "bans" /\ doing[Timer(i)].op = "idle"
       /\ Reached(timer[i].seen[k])
       /\ \E listed \in Whitelisted :
             CASE listed = "yes" -> RemoveBan(Timer(i), k)
               [] listed = "no" /\ Mode[s] = "block" -> AddBan(Timer(i), k, BanTime)
               [] OTHER -> UNCHANGED bansVars
       /\ timer' = [timer EXCEPT ![i].seen[k].n = 0]
       /\ UNCHANGED <<incr, decr, count, shared, serving, requests, orders>>

TimerEnd(i) ==
    /\ timer[i].at = "bans" /\ doing[Timer(i)].op = "idle"
    /\ \A k \in Keys : ~Reached(timer[i].seen[k])
    /\ timer' = [timer EXCEPT ![i] = [Stopped EXCEPT !.at = "ran"]]
    /\ UNCHANGED <<bansVars, incr, decr, count, shared, serving, requests, orders>>

(***************************************************************************)
(* POST /ban and POST /unban of an instance: of a scope, for some time.    *)
(***************************************************************************)
Order(i) ==
    /\ orders < MaxOrders
    /\ orders' = orders + 1
    /\ \E k \in Keys :
          \/ \E ttl \in OrderTimes : AddBan(Api(i), k, ttl)
          \/ RemoveBan(Api(i), k)
    /\ UNCHANGED <<countVars, serving, requests>>

\* Calls to Redis that are in progress.
CallStep(h) ==
    /\ LookLocal(h) \/ AskRedis(h) \/ CacheBan(h) \/ SetRedis(h) \/ DeleteRedis(h)
    /\ UNCHANGED <<countVars, serving, requests, orders>>

\* A unit of time: bans, counters and the waiting decreases get older.
Tick ==
    /\ Age
    /\ \A i \in Instances : timer[i].at \in {"due", "ran"}
    /\ count' = [i \in Instances |-> [k \in Keys |-> Expired(count[i][k])]]
    /\ shared' = [k \in Keys |-> Expired(shared[k])]
    /\ decr' = [i \in Instances |-> [j \in DOMAIN decr[i] |->
                   [decr[i][j] EXCEPT !.left = IF @ < 0 THEN @ ELSE @ - 1]]]
    /\ timer' = [i \in Instances |-> Stopped]
    /\ UNCHANGED <<incr, serving, requests, orders>>

TimerStep(i) ==
    \/ TimerStart(i) \/ TimerDecr(i) \/ TimerIncr(i) \/ TimerSkip(i) \/ TimerCount(i)
    \/ TimerCountFull(i) \/ TimerEnd(i)
    \/ \E k \in Keys : TimerBan(i, k)

CountNext ==
    \/ \E i \in Instances : Access(i) \/ Log(i) \/ TimerStep(i) \/ Order(i)
    \/ \E h \in Handlers : CallStep(h)
    \/ Tick

\* The timer is rescheduled after every run, calls to Redis return or time out,
\* and time passes.
CountSpec ==
    /\ CountInit /\ [][CountNext]_vars
    /\ \A i \in Instances :
          /\ WF_vars(TimerStep(i) \/ CallStep(Timer(i)))
          /\ WF_vars(Log(i) \/ CallStep(Request(i)))
          /\ WF_vars(CallStep(Api(i)))
    /\ WF_vars(Tick)

-----------------------------------------------------------------------------
\* The loops of the timer read the length of a list once and then pop that many
\* entries, while the workers push to it: there is always one to pop ("can't get
\* incr list element" is never returned, which would drop the rest of the run).
LoopsInBounds ==
    \A i \in Instances :
        /\ timer[i].at = "decr" => timer[i].left \in 1 .. Len(decr[i])
        /\ timer[i].at = "incr" => timer[i].left \in 1 .. Len(incr[i])
        /\ timer[i].at = "look" => timer[i].left \in 1 .. Len(incr[i]) + 1

Pending(i, k) == Cardinality({j \in DOMAIN decr[i] : decr[i][j].key = k})

\* The counter of an address never runs ahead of the bad requests that are
\* still to be taken back: every increase leaves one decrease in the list, and
\* neither the expiry of the counter, nor the floor at zero, nor the loop that
\* puts back what is not due (badbehavior.lua:155) loses the balance.  The
\* counter in Redis balances the lists of all instances.  Both as long as the
\* dictionary takes every value and every call to Redis is answered: a decrease
\* that falls back to the dictionary leaves Redis as it was, and one that the
\* dictionary does not take is lost.
NoOvercount ==
    /\ ~useRedis /\ faults = 0 => \A i \in Instances, k \in Keys : count[i][k].n <= Pending(i, k)
    /\ \A k \in Keys : useRedis /\ faults = 0 =>
          shared[k].n <= Cardinality(UNION {{<<i, j>> : j \in {d \in DOMAIN decr[i] : decr[i][d].key = k}}
                                               : i \in Instances})

\* What the timer bans on: at the end of its run a key it counted up to n has
\* at least n requests within the last CountTime behind it, not only in the
\* list; without Redis, where the list is complete, and as long as the
\* dictionary takes every entry.
BansJustified ==
    ~useRedis /\ faults = 0 => \A i \in Instances, k \in Keys :
        timer[i].at = "bans" =>
            timer[i].seen[k].n <=
                Cardinality({j \in DOMAIN decr[i] : decr[i][j].key = k /\ decr[i][j].left >= 0})

\* Nothing is held against an address for ever: once it sends no more requests
\* every queued request is counted or skipped, every decrease is applied, every
\* counter is gone, and no ban of limited time is left, also when calls to
\* Redis have failed or the dictionary was full.
Fades ==
    <>[]( /\ \A i \in Instances : incr[i] = <<>> /\ decr[i] = <<>>
          /\ \A k \in Keys : redis[k] \in {None, Forever} /\ shared[k] = Zero
          /\ \A i \in Instances, k \in Keys : local[i][k] \in {None, Forever} /\ count[i][k] = Zero )
=============================================================================
