-------------------------------- MODULE Bans --------------------------------
(***************************************************************************)
(* The bans of one address on instances that share a Redis server:         *)
(* utils.is_banned, utils.add_ban and utils.remove_ban (bw/lua/bunkerweb/  *)
(* utils.lua).                                                             *)
(*                                                                         *)
(* A ban is a key with a remaining time.  Every instance keeps the keys in *)
(* a shared dictionary (local); with USE_REDIS they are also in Redis, and *)
(* a lookup that finds a key there copies it into the local dictionary for *)
(* at most CacheTTL.  Every call to Redis is a step of its own: the worker *)
(* yields there, so that other handlers run between the answer and its     *)
(* use.                                                                    *)
(*                                                                         *)
(* Time passes in units longer than a handler runs (BAN_LOCAL_CACHE_TTL is *)
(* 30 s, a Redis call times out after 1 s): Tick needs every handler idle. *)
(* The dictionary of the stream subsystem, written and cleared together    *)
(* with the one of HTTP, is not kept apart.                                *)
(***************************************************************************)
EXTENDS Integers, FiniteSets

CONSTANTS
    Instances,   \* the BunkerWeb instances
    Services,    \* the server names a ban can be scoped to
    Global,      \* the key "bans_ip_<ip>"; the others are "bans_service_<s>_ip_<ip>"
    CacheTTL,    \* BAN_LOCAL_CACHE_TTL
    RedisModes,  \* the values USE_REDIS may have: a subset of BOOLEAN
    KeptBans,    \* the remaining times Redis may have kept for a key: it outlives the instances
    MaxFaults    \* bound: failures of a call to Redis, or of a write to a full dictionary

ASSUME CacheTTLAssumption == CacheTTL \in Nat \ {0}
ASSUME RedisModesAssumption == RedisModes \subseteq BOOLEAN
ASSUME KeptBansAssumption == KeptBans \subseteq Nat \cup {-1}
ASSUME GlobalAssumption == Global \notin Services

VARIABLES
    useRedis,  \* the setting USE_REDIS
    local,     \* local[i][k]: the time key k stays in the dictionary of i
    redis,     \* redis[k]: the time key k stays in Redis
    doing,     \* doing[h]: what handler h is in the middle of
    faults,    \* failures so far
    own,       \* history: local[i][k] was written by an add_ban on i
    grace      \* history: the time a cached copy of a ban that Redis has no more may last

bansVars == <<useRedis, local, redis, doing, faults, own, grace>>

Keys == Services \cup {Global}

\* An instance serves one request, runs the timer of worker 0 and answers its
\* API, each possibly in the middle of a call to Redis.
Handlers == Instances \X {"request", "timer", "api"}

\* Remaining times: None for a key that is not there, Forever for a permanent
\* ban (ttl 0 in the dictionary, TTL -1 in Redis).
None == 0
Forever == -1
Times == Nat \cup {Forever}
Older(t) == IF t > 0 THEN t - 1 ELSE t

Idle == [op |-> "idle", keys |-> {}, ttl |-> None]
Results == {"banned", "free", "unknown"}
Operations == {"idle", "look", "ask", "cache", "set", "delete"} \cup Results

TypeOK ==
    /\ useRedis \in BOOLEAN
    /\ local \in [Instances -> [Keys -> Times]]
    /\ redis \in [Keys -> Times]
    /\ doing \in [Handlers -> [op : Operations, keys : SUBSET Keys, ttl : Times]]
    /\ faults \in Nat
    /\ own \in [Instances -> [Keys -> BOOLEAN]]
    /\ grace \in [Keys -> 0 .. CacheTTL]

Init ==
    /\ useRedis \in RedisModes
    /\ local = [i \in Instances |-> [k \in Keys |-> None]]
    /\ redis \in [Keys -> IF useRedis THEN KeptBans ELSE {None}]
    /\ doing = [h \in Handlers |-> Idle]
    /\ faults = 0
    /\ own = [i \in Instances |-> [k \in Keys |-> FALSE]]
    /\ grace = [k \in Keys |-> 0]

RedisAnswers == UNCHANGED faults
RedisFails == faults < MaxFaults /\ faults' = faults + 1

Becomes(h, op, keys, ttl) ==
    doing' = [doing EXCEPT ![h] = [op |-> op, keys |-> keys, ttl |-> ttl]]

(***************************************************************************)
(* is_banned(ip, server_name): the service key, then the global one, each  *)
(* in the dictionary and then in Redis.  The connection to Redis is opened *)
(* first; without it the answer is nil ("unknown").  Without a server name *)
(* (s is Global) only the global key is looked up.                         *)
(***************************************************************************)
Lookup(h, s) ==
    /\ doing[h].op = "idle"
    /\ \/ RedisAnswers /\ Becomes(h, "look", {s, Global}, None)
       \/ useRedis /\ RedisFails /\ Becomes(h, "unknown", {}, None)
    /\ UNCHANGED <<useRedis, local, redis, own, grace>>

\* The key a lookup is at: the global one comes last.
LookedUp(h) == CHOOSE k \in doing[h].keys : k = Global => doing[h].keys = {Global}

NotThere(h) ==
    LET rest == doing[h].keys \ {LookedUp(h)}
    IN Becomes(h, IF rest = {} THEN "free" ELSE "look", rest, None)

LookLocal(h) ==
    /\ doing[h].op = "look"
    /\ \/ /\ local[h[1]][LookedUp(h)] # None
          /\ Becomes(h, "banned", {}, None)
       \/ /\ local[h[1]][LookedUp(h)] = None
          /\ IF useRedis THEN Becomes(h, "ask", doing[h].keys, None) ELSE NotThere(h)
    /\ UNCHANGED <<useRedis, local, redis, faults, own, grace>>

\* The part of a ban's remaining time that may be cached.  Redis answers in
\* rounded seconds: the TTL of a key about to expire is 0, as if it were permanent.
CachedForAll(t) == {IF t > 0 THEN t ELSE CacheTTL}   \* mutant: not capped
CachedFor(t) == {IF t > 0 /\ t < CacheTTL THEN t ELSE CacheTTL} \cup {c \in {CacheTTL} : t = 1}

AskRedis(h) ==
    /\ doing[h].op = "ask"
    /\ \/ /\ RedisAnswers
          /\ IF redis[LookedUp(h)] = None
             THEN NotThere(h)
             ELSE \E ttl \in CachedFor(redis[LookedUp(h)]) : Becomes(h, "cache", {LookedUp(h)}, ttl)
       \/ RedisFails /\ Becomes(h, "unknown", {}, None)
    /\ UNCHANGED <<useRedis, local, redis, own, grace>>

\* The answer of Redis arrives in the worker: the ban goes into the dictionary.
CacheBan(h) ==
    /\ doing[h].op = "cache"
    /\ \E k \in doing[h].keys :
          /\ local' = [local EXCEPT ![h[1]][k] = doing[h].ttl]
          /\ own' = [own EXCEPT ![h[1]][k] = FALSE]
    /\ Becomes(h, "banned", {}, None)
    /\ UNCHANGED <<useRedis, redis, faults, grace>>

\* The caller takes the answer of its lookup.
Answered(h) ==
    /\ doing[h].op \in Results
    /\ doing' = [doing EXCEPT ![h] = Idle]

(***************************************************************************)
(* add_ban: the dictionary, then Redis (with EX, or without an expiry).    *)
(* When Redis cannot be reached the call returns false and the local ban   *)
(* stays.                                                                  *)
(***************************************************************************)
AddBan(h, k, ttl) ==
    /\ doing[h].op = "idle"
    /\ local' = [local EXCEPT ![h[1]][k] = ttl]
    /\ own' = [own EXCEPT ![h[1]][k] = TRUE]
    /\ IF useRedis THEN Becomes(h, "set", {k}, ttl) ELSE UNCHANGED doing
    /\ UNCHANGED <<useRedis, redis, faults, grace>>

\* Redis takes the key, or drops it (None): copies of the ban that was there may
\* still be cached.  A call that fails may have been executed all the same.
Stored(k, ttl) ==
    /\ redis' = [redis EXCEPT ![k] = ttl]
    /\ grace' = [grace EXCEPT ![k] = IF redis[k] = None THEN @ ELSE CacheTTL]

Called(k, ttl) ==
    \/ (RedisAnswers \/ RedisFails) /\ Stored(k, ttl)
    \/ RedisFails /\ UNCHANGED <<redis, grace>>

SetRedis(h) ==
    /\ doing[h].op = "set"
    /\ \E k \in doing[h].keys : Called(k, doing[h].ttl)
    /\ doing' = [doing EXCEPT ![h] = Idle]
    /\ UNCHANGED <<useRedis, local, own>>

(***************************************************************************)
(* remove_ban: the local keys first, "so unbans take effect locally even   *)
(* if Redis is unreachable", then the same keys in Redis.  A global unban  *)
(* takes the service keys found in the local dictionary with it.           *)
(***************************************************************************)
ServiceBans(i) == {k \in Services : local[i][k] # None}

RemoveBan(h, k) ==
    LET gone == IF k = Global THEN {Global} \cup ServiceBans(h[1]) ELSE {k}
    IN /\ doing[h].op = "idle"
       /\ local' = [local EXCEPT ![h[1]] = [j \in Keys |-> IF j \in gone THEN None ELSE @[j]]]
       /\ own' = [own EXCEPT ![h[1]] = [j \in Keys |-> IF j \in gone THEN FALSE ELSE @[j]]]
       /\ IF useRedis THEN Becomes(h, "delete", gone, None) ELSE UNCHANGED doing
       /\ UNCHANGED <<useRedis, redis, faults, grace>>

\* One DEL; the global key is the first.  Its outcome is not looked at, the next
\* key is tried; without a connection the keys are left.
DeleteRedis(h) ==
    /\ doing[h].op = "delete"
    /\ \/ /\ \E k \in doing[h].keys :
                /\ Global \in doing[h].keys => k = Global
                /\ Called(k, None)
                /\ IF doing[h].keys = {k}
                   THEN doing' = [doing EXCEPT ![h] = Idle]
                   ELSE Becomes(h, "delete", doing[h].keys \ {k}, None)
       \/ /\ RedisFails
          /\ doing' = [doing EXCEPT ![h] = Idle]
          /\ UNCHANGED <<redis, grace>>
    /\ UNCHANGED <<useRedis, local, own>>

\* A unit of time passes: keys expire, one that Redis has no more perhaps after
\* its cached copy was made for CacheTTL.
Age ==
    /\ \A h \in Handlers : doing[h].op = "idle"
    /\ local' = [i \in Instances |-> [k \in Keys |-> Older(local[i][k])]]
    /\ redis' = [k \in Keys |-> Older(redis[k])]
    /\ grace' = [k \in Keys |-> IF redis[k] = 1 THEN CacheTTL - 1 ELSE Older(grace[k])]
    /\ UNCHANGED <<useRedis, doing, faults, own>>

(***************************************************************************)
(* What the callers may do with bans: the steps above; they take answers   *)
(* and call Redis for matters of their own, which may fail, and the script *)
(* of badbehavior.lua writes the ban key itself.                           *)
(***************************************************************************)
AnyCall == RedisAnswers \/ RedisFails

Taken(h) == Answered(h) /\ AnyCall /\ UNCHANGED <<useRedis, local, redis, own, grace>>

Scripted(h, k, ttl) == Answered(h) /\ AnyCall /\ Stored(k, ttl) /\ UNCHANGED <<useRedis, local, own>>

OtherCall == AnyCall /\ UNCHANGED <<useRedis, local, redis, doing, own, grace>>

Next ==
    \/ \E h \in Handlers :
          \/ \E s \in Keys : Lookup(h, s)
          \/ LookLocal(h) \/ AskRedis(h) \/ CacheBan(h)
          \/ \E k \in Keys, ttl \in Times : AddBan(h, k, ttl)
          \/ SetRedis(h)
          \/ \E k \in Keys : RemoveBan(h, k)
          \/ DeleteRedis(h)
          \/ Taken(h)
          \/ \E k \in Keys, ttl \in Times : Scripted(h, k, ttl)
    \/ OtherCall
    \/ Age

Spec == Init /\ [][Next]_bansVars

\* "Cache locally with a short TTL so unbans propagate within
\* BAN_LOCAL_CACHE_TTL seconds" (utils.lua:964): a ban an instance holds that
\* none of its own add_ban calls put there is one Redis has, or had until less
\* than CacheTTL ago, however lookups, bans and unbans of the instances
\* interleave.
UnbansPropagate ==
    \A i \in Instances, k \in Keys :
        local[i][k] # None => own[i][k] \/ redis[k] # None \/ grace[k] > 0
=============================================================================
