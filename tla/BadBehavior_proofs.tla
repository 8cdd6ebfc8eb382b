------------------------- MODULE BadBehavior_proofs -------------------------
(***************************************************************************)
(* Proofs about BadBehavior: of Bans, which it extends, that an unban      *)
(* propagates within CacheTTL; its loops, that whatever the plugin and the *)
(* API do with bans is a behavior of Bans, and that counters and bans have *)
(* requests behind them.                                                   *)
(***************************************************************************)
EXTENDS BadBehavior, FiniteSetTheorems, FunctionTheorems, TLAPS

(***************************************************************************)
(* Bans.                                                                   *)
(***************************************************************************)
USE DEF None, Forever

\* A remaining time t of key k that was copied from Redis: at most CacheTTL,
\* and Redis keeps the ban at least as long or is about to drop it, or did when
\* the copy was made and the ban has been replaced, deleted or dropped since.
Backed(k, t) ==
    t # None =>
        /\ t \in 1 .. CacheTTL
        /\ redis[k] \in {Forever, 1} \/ t <= redis[k] \/ t <= grace[k]

\* What is in a dictionary without an add_ban of the instance is backed.
CachedBacked ==
    \A i \in Instances, k \in Keys : ~own[i][k] => Backed(k, local[i][k])

\* So is the answer a handler has received and not yet put there.
AnswersBacked ==
    \A h \in Handlers : doing[h].op = "cache" =>
        \A k \in doing[h].keys : Backed(k, doing[h].ttl)

\* A lookup is at a service and the global key, or at the global key.
LookupKeys ==
    \A h \in Handlers : doing[h].op \in {"look", "ask"} =>
        \E s \in Keys : doing[h].keys = {s, Global}

IInv == TypeOK /\ CachedBacked /\ AnswersBacked /\ LookupKeys

\* The key a lookup is at is one of its keys, and what is left after it is the
\* global key or nothing.
LEMMA LookedUpKey ==
    ASSUME IInv, NEW h \in Handlers, doing[h].op \in {"look", "ask"}
    PROVE  /\ LookedUp(h) \in doing[h].keys
           /\ LookedUp(h) \in Keys
           /\ doing[h].keys \ {LookedUp(h)} \in {{}, {Global}}
<1>1. PICK s \in Keys : doing[h].keys = {s, Global}
  BY DEF IInv, LookupKeys
<1>2. \E k \in doing[h].keys : k = Global => doing[h].keys = {Global}
  BY <1>1
<1>3. /\ LookedUp(h) \in doing[h].keys
      /\ LookedUp(h) = Global => doing[h].keys = {Global}
  BY <1>2 DEF LookedUp
<1>. QED
  BY <1>1, <1>3 DEF Keys

\* Going on to the next key keeps a lookup a lookup.
LEMMA NotThereStep ==
    ASSUME IInv, NEW h \in Handlers, doing[h].op \in {"look", "ask"}, NotThere(h)
    PROVE  /\ doing' \in [Handlers -> [op : Operations, keys : SUBSET Keys, ttl : Times]]
           /\ LookupKeys'
           /\ \A g \in Handlers : doing'[g].op = "cache" => doing'[g] = doing[g]
<1>. DEFINE rest == doing[h].keys \ {LookedUp(h)}
<1>1. rest \in {{}, {Global}}
  BY LookedUpKey
<1>2. doing' = [doing EXCEPT ![h] = [op |-> IF rest = {} THEN "free" ELSE "look",
                                     keys |-> rest, ttl |-> 0]]
  BY DEF NotThere, Becomes
<1>3. rest \in SUBSET Keys /\ Global \in Keys /\ {Global, Global} = {Global}
  BY <1>1 DEF Keys
<1>. HIDE DEF rest
<1>. QED
  BY <1>1, <1>2, <1>3 DEF IInv, TypeOK, LookupKeys, Operations, Results, Times

\* A copied ban is kept for CacheTTL at most, and never longer than the ban, but
\* for one in its last unit of time.
LEMMA CachedForBounds ==
    ASSUME NEW t \in Times, t # None, NEW ttl \in CachedFor(t)
    PROVE  ttl \in 1 .. CacheTTL /\ (t \in {Forever, 1} \/ ttl <= t)
BY CacheTTLAssumption DEF CachedFor, Times

\* Nothing is cached at the start.
LEMMA InitInv == Init => IInv
<1>. SUFFICES ASSUME Init PROVE IInv
  OBVIOUS
<1>1. TypeOK
  <2>1. useRedis \in BOOLEAN
    BY RedisModesAssumption DEF Init
  <2>2. redis \in [Keys -> Times]
    <3>. DEFINE Kept == IF useRedis THEN KeptBans ELSE {0}
    <3>1. Kept \subseteq Times
      BY KeptBansAssumption DEF Times
    <3>2. redis \in [Keys -> Kept]
      BY DEF Init
    <3>. HIDE DEF Kept
    <3>. QED
      BY <3>1, <3>2
  <2>. QED
    BY <2>1, <2>2, CacheTTLAssumption
    DEF Init, TypeOK, Times, Idle, Operations, Results
<1>2. CachedBacked /\ AnswersBacked /\ LookupKeys
  BY DEF Init, CachedBacked, AnswersBacked, LookupKeys, Backed, Idle
<1>. QED
  BY <1>1, <1>2 DEF IInv

\* Redis taking, replacing or dropping one key leaves every copy backed.
LEMMA StoreBacks ==
    ASSUME TypeOK, NEW k \in Keys, NEW ttl \in Times, Stored(k, ttl)
    PROVE  /\ redis' \in [Keys -> Times] /\ grace' \in [Keys -> 0 .. CacheTTL]
           /\ \A j \in Keys, t \in Times : Backed(j, t) => Backed(j, t)'
<1>1. redis' \in [Keys -> Times] /\ grace' \in [Keys -> 0 .. CacheTTL]
  BY CacheTTLAssumption DEF TypeOK, Stored
<1>2. ASSUME NEW j \in Keys, NEW t \in Times, Backed(j, t)
      PROVE  Backed(j, t)'
  <2>1. CASE j # k
    <3>1. redis'[j] = redis[j] /\ grace'[j] = grace[j]
      BY <2>1 DEF TypeOK, Stored
    <3>. QED
      BY <1>2, <3>1 DEF Backed
  <2>2. CASE j = k
    <3>1. grace'[k] = IF redis[k] = None THEN grace[k] ELSE CacheTTL
      BY DEF TypeOK, Stored
    <3>2. redis[k] \in Times /\ grace[k] \in 0 .. CacheTTL
      BY DEF TypeOK
    <3>. QED
      BY <1>2, <2>2, <3>1, <3>2, CacheTTLAssumption DEF Backed, Times
  <2>. QED
    BY <2>1, <2>2
<1>. QED
  BY <1>1, <1>2

\* A handler that starts or ends an operation other than a lookup's last steps
\* keeps the types of doing and what is said of the handlers.
LEMMA HandlerStep ==
    ASSUME IInv, NEW h \in Handlers, NEW op \in Operations \ {"cache"},
           NEW keys \in SUBSET Keys, NEW ttl \in Times,
           op \in {"look", "ask"} => \E s \in Keys : keys = {s, Global},
           doing' = [doing EXCEPT ![h] = [op |-> op, keys |-> keys, ttl |-> ttl]]
    PROVE  /\ doing' \in [Handlers -> [op : Operations, keys : SUBSET Keys, ttl : Times]]
           /\ LookupKeys'
           /\ \A g \in Handlers : doing'[g].op = "cache" => doing'[g] = doing[g]
BY DEF IInv, TypeOK, LookupKeys

(***************************************************************************)
(* One lemma per operation.                                                *)
(***************************************************************************)
LEMMA LookupStep ==
    ASSUME IInv, NEW h \in Handlers, NEW s \in Keys, Lookup(h, s)
    PROVE  IInv'
<1>1. \/ doing' = [doing EXCEPT ![h] = [op |-> "look", keys |-> {s, Global}, ttl |-> 0]]
      \/ doing' = [doing EXCEPT ![h] = [op |-> "unknown", keys |-> {}, ttl |-> 0]]
  BY DEF Lookup, Becomes
<1>2. {s, Global} \in SUBSET Keys /\ {} \in SUBSET Keys /\ 0 \in Times
      /\ "look" \in Operations \ {"cache"} /\ "unknown" \in Operations \ {"cache"}
  BY DEF Keys, Times, Operations, Results
<1>3. faults' \in Nat /\ UNCHANGED <<useRedis, local, redis, own, grace>>
  BY DEF IInv, TypeOK, Lookup, RedisAnswers, RedisFails
<1>4. /\ doing' \in [Handlers -> [op : Operations, keys : SUBSET Keys, ttl : Times]]
      /\ LookupKeys'
      /\ \A g \in Handlers : doing'[g].op = "cache" => doing'[g] = doing[g]
  BY <1>1, <1>2, HandlerStep
<1>. QED
  BY <1>3, <1>4 DEF IInv, TypeOK, CachedBacked, AnswersBacked, Backed

\* A step of a lookup other than CacheBan changes nothing but the handler; a
\* new answer is backed by what Redis holds.
LEMMA LookingStep ==
    ASSUME IInv, NEW h \in Handlers, LookLocal(h) \/ AskRedis(h)
    PROVE  IInv'
<1>1. doing[h].op \in {"look", "ask"}
  BY DEF LookLocal, AskRedis
<1>2. UNCHANGED <<useRedis, local, redis, own, grace>> /\ faults' \in Nat
  BY DEF IInv, TypeOK, LookLocal, AskRedis, RedisAnswers, RedisFails
<1>3. CASE NotThere(h)
  BY <1>1, <1>2, <1>3, NotThereStep
  DEF IInv, TypeOK, CachedBacked, AnswersBacked, Backed
<1>4. CASE \E op \in {"banned", "unknown"} : Becomes(h, op, {}, None)
  BY <1>2, <1>4
  DEF Becomes, IInv, TypeOK, CachedBacked, AnswersBacked, LookupKeys, Backed,
      Operations, Results, Times
<1>5. CASE Becomes(h, "ask", doing[h].keys, None)
  BY <1>1, <1>2, <1>5
  DEF Becomes, IInv, TypeOK, CachedBacked, AnswersBacked, LookupKeys, Backed,
      Operations, Results, Times
<1>6. ASSUME redis[LookedUp(h)] # None,
             NEW t \in CachedFor(redis[LookedUp(h)]),
             Becomes(h, "cache", {LookedUp(h)}, t)
      PROVE  IInv'
  <2>. DEFINE k == LookedUp(h)
  <2>1. k \in Keys
    BY <1>1, LookedUpKey
  <2>2. redis[k] \in Times
    BY <2>1 DEF IInv, TypeOK
  <2>3. t \in 1 .. CacheTTL /\ (redis[k] \in {Forever, 1} \/ t <= redis[k])
    BY <1>6, <2>2, CachedForBounds
  <2>4. doing' = [doing EXCEPT ![h] = [op |-> "cache", keys |-> {k}, ttl |-> t]]
    BY <1>6 DEF Becomes
  <2>. HIDE DEF k
  <2>5. t \in Times
    BY <2>3, CacheTTLAssumption DEF Times
  <2>. QED
    BY <1>2, <2>1, <2>3, <2>4, <2>5
    DEF IInv, TypeOK, CachedBacked, AnswersBacked, LookupKeys, Backed, Operations
<1>. QED
  BY <1>3, <1>4, <1>5, <1>6 DEF LookLocal, AskRedis

\* Every key and time from the types of the variables.
LEMMA CacheBanStep ==
    ASSUME IInv, NEW h \in Handlers, CacheBan(h)
    PROVE  IInv'
<1>1. PICK k \in doing[h].keys :
          /\ local' = [local EXCEPT ![h[1]][k] = doing[h].ttl]
          /\ own' = [own EXCEPT ![h[1]][k] = FALSE]
  BY DEF CacheBan
<1>2. k \in Keys /\ doing[h].ttl \in Times /\ h[1] \in Instances
  BY DEF IInv, TypeOK, Handlers
<1>3. Backed(k, doing[h].ttl)
  BY DEF CacheBan, IInv, AnswersBacked
<1>4. /\ UNCHANGED <<useRedis, redis, faults, grace>>
      /\ doing' = [doing EXCEPT ![h] = [op |-> "banned", keys |-> {}, ttl |-> 0]]
  BY DEF CacheBan, Becomes
<1>5. TypeOK'
  BY <1>1, <1>2, <1>4 DEF IInv, TypeOK, Operations, Results, Times
<1>6. CachedBacked'
  BY <1>1, <1>2, <1>3, <1>4 DEF IInv, TypeOK, CachedBacked, Backed
<1>7. AnswersBacked' /\ LookupKeys'
  BY <1>4 DEF IInv, TypeOK, AnswersBacked, LookupKeys, Backed
<1>. QED
  BY <1>5, <1>6, <1>7 DEF IInv

\* The instance's own ban: the entry is its own, and its call to Redis is to follow.
LEMMA AddBanStep ==
    ASSUME IInv, NEW h \in Handlers, NEW k \in Keys, NEW ttl \in Times, AddBan(h, k, ttl)
    PROVE  IInv'
<1>1. /\ local' = [local EXCEPT ![h[1]][k] = ttl]
      /\ own' = [own EXCEPT ![h[1]][k] = TRUE]
      /\ UNCHANGED <<useRedis, redis, faults, grace>>
  BY DEF AddBan
<1>2. \/ doing' = [doing EXCEPT ![h] = [op |-> "set", keys |-> {k}, ttl |-> ttl]]
      \/ UNCHANGED doing
  BY DEF AddBan, Becomes
<1>3. h[1] \in Instances
  BY DEF Handlers
<1>4. /\ doing' \in [Handlers -> [op : Operations, keys : SUBSET Keys, ttl : Times]]
      /\ LookupKeys'
      /\ \A g \in Handlers : doing'[g].op = "cache" => doing'[g] = doing[g]
  <2>1. CASE UNCHANGED doing
    BY <2>1 DEF IInv, TypeOK, LookupKeys
  <2>2. CASE doing' = [doing EXCEPT ![h] = [op |-> "set", keys |-> {k}, ttl |-> ttl]]
    <3>1. "set" \in Operations \ {"cache"} /\ {k} \in SUBSET Keys /\ 0 \in Times
      BY DEF Operations, Times
    <3>. QED
      BY <2>2, <3>1, HandlerStep
  <2>. QED
    BY <1>2, <2>1, <2>2
<1>5. TypeOK'
  BY <1>1, <1>3, <1>4 DEF IInv, TypeOK
<1>6. CachedBacked'
  BY <1>1, <1>3 DEF IInv, TypeOK, CachedBacked, Backed
<1>7. AnswersBacked' /\ LookupKeys'
  BY <1>1, <1>4 DEF IInv, AnswersBacked, Backed
<1>. QED
  BY <1>5, <1>6, <1>7 DEF IInv

\* The instance's own unban takes entries away only, with those of its services for the global key.
LEMMA RemoveBanStep ==
    ASSUME IInv, NEW h \in Handlers, NEW k \in Keys, RemoveBan(h, k)
    PROVE  IInv'
<1>. DEFINE gone == IF k = Global THEN {Global} \cup ServiceBans(h[1]) ELSE {k}
<1>1. gone \in SUBSET Keys
  BY DEF ServiceBans, Keys
<1>2. /\ local' = [local EXCEPT ![h[1]] = [j \in Keys |-> IF j \in gone THEN 0 ELSE @[j]]]
      /\ own' = [own EXCEPT ![h[1]] = [j \in Keys |-> IF j \in gone THEN FALSE ELSE @[j]]]
      /\ UNCHANGED <<useRedis, redis, faults, grace>>
  BY DEF RemoveBan
<1>3. \/ doing' = [doing EXCEPT ![h] = [op |-> "delete", keys |-> gone, ttl |-> 0]]
      \/ UNCHANGED doing
  BY DEF RemoveBan, Becomes
<1>4. h[1] \in Instances
  BY DEF Handlers
<1>. HIDE DEF gone
<1>5. /\ doing' \in [Handlers -> [op : Operations, keys : SUBSET Keys, ttl : Times]]
      /\ LookupKeys'
      /\ \A g \in Handlers : doing'[g].op = "cache" => doing'[g] = doing[g]
  <2>1. CASE UNCHANGED doing
    BY <2>1 DEF IInv, TypeOK, LookupKeys
  <2>2. CASE doing' = [doing EXCEPT ![h] = [op |-> "delete", keys |-> gone, ttl |-> 0]]
    <3>1. "delete" \in Operations \ {"cache"} /\ gone \in SUBSET Keys /\ 0 \in Times
      BY <1>1 DEF Operations, Times
    <3>. QED
      BY <2>2, <3>1, HandlerStep
  <2>. QED
    BY <1>3, <2>1, <2>2
<1>6. local' \in [Instances -> [Keys -> Times]] /\ own' \in [Instances -> [Keys -> BOOLEAN]]
  <2>1. local' \in [Instances -> [Keys -> Times]]
    BY <1>2, <1>4 DEF IInv, TypeOK, Times
  <2>2. own' \in [Instances -> [Keys -> BOOLEAN]]
    BY <1>2, <1>4 DEF IInv, TypeOK
  <2>. QED
    BY <2>1, <2>2
<1>7. TypeOK'
  BY <1>2, <1>5, <1>6 DEF IInv, TypeOK
<1>8. CachedBacked'
  BY <1>2, <1>4 DEF IInv, TypeOK, CachedBacked, Backed
<1>9. AnswersBacked' /\ LookupKeys'
  BY <1>2, <1>5 DEF IInv, AnswersBacked, Backed
<1>. QED
  BY <1>7, <1>8, <1>9 DEF IInv

\* What the steps that end at Redis have in common: the handlers' answers stay
\* what they were, Redis may take one key.
LEMMA RedisStep ==
    ASSUME IInv,
           doing' \in [Handlers -> [op : Operations, keys : SUBSET Keys, ttl : Times]],
           LookupKeys',
           \A g \in Handlers : doing'[g].op = "cache" => doing'[g] = doing[g],
           faults' \in Nat, UNCHANGED <<useRedis, local, own>>,
           \/ \E k \in Keys, ttl \in Times : Stored(k, ttl)
           \/ UNCHANGED <<redis, grace>>
    PROVE  IInv'
<1>1. /\ redis' \in [Keys -> Times] /\ grace' \in [Keys -> 0 .. CacheTTL]
      /\ \A j \in Keys, t \in Times : Backed(j, t) => Backed(j, t)'
  BY StoreBacks DEF IInv, TypeOK, Backed
<1>2. TypeOK'
  BY <1>1 DEF IInv, TypeOK
<1>3. CachedBacked'
  <2>. SUFFICES ASSUME NEW i \in Instances, NEW k \in Keys, ~own'[i][k]
                PROVE  Backed(k, local[i][k])'
    BY DEF CachedBacked
  <2>1. local[i][k] \in Times /\ Backed(k, local[i][k])
    BY DEF IInv, TypeOK, CachedBacked
  <2>2. local'[i][k] = local[i][k]
    OBVIOUS
  <2>. QED
    BY <1>1, <2>1, <2>2 DEF Backed
<1>4. AnswersBacked'
  <2>. SUFFICES ASSUME NEW g \in Handlers, doing'[g].op = "cache", NEW k \in doing'[g].keys
                PROVE  Backed(k, doing[g].ttl)'
    BY DEF AnswersBacked
  <2>1. doing'[g] = doing[g]
    OBVIOUS
  <2>2. k \in Keys /\ doing[g].ttl \in Times /\ Backed(k, doing[g].ttl)
    BY <2>1 DEF IInv, TypeOK, AnswersBacked
  <2>. QED
    BY <1>1, <2>1, <2>2 DEF Backed
<1>. QED
  BY <1>2, <1>3, <1>4 DEF IInv

\* A handler that ends is at no lookup and holds no answer.
LEMMA EndsIdle ==
    ASSUME IInv, NEW h \in Handlers, doing' = [doing EXCEPT ![h] = Idle]
    PROVE  /\ doing' \in [Handlers -> [op : Operations, keys : SUBSET Keys, ttl : Times]]
           /\ LookupKeys'
           /\ \A g \in Handlers : doing'[g].op = "cache" => doing'[g] = doing[g]
<1>1. "idle" \in Operations \ {"cache"} /\ {} \in SUBSET Keys /\ 0 \in Times
  BY DEF Operations, Times
<1>. QED
  BY <1>1, HandlerStep DEF Idle

\* The ban reaches Redis, or its call fails, executed or not: what it replaces there is
\* remembered by grace.
LEMMA SetRedisStep ==
    ASSUME IInv, NEW h \in Handlers, SetRedis(h)
    PROVE  IInv'
<1>1. faults' \in Nat /\ UNCHANGED <<useRedis, local, own>>
  BY DEF SetRedis, Called, RedisAnswers, RedisFails, IInv, TypeOK
<1>2. doing[h].keys \in SUBSET Keys /\ doing[h].ttl \in Times
  BY DEF IInv, TypeOK
<1>3. \/ \E k \in Keys, ttl \in Times : Stored(k, ttl)
      \/ UNCHANGED <<redis, grace>>
  BY <1>2 DEF SetRedis, Called
<1>4. doing' = [doing EXCEPT ![h] = Idle]
  BY DEF SetRedis
<1>. QED
  BY <1>1, <1>3, <1>4, EndsIdle, RedisStep

\* So is what an unban takes out of Redis.
LEMMA DeleteRedisStep ==
    ASSUME IInv, NEW h \in Handlers, DeleteRedis(h)
    PROVE  IInv'
<1>0. /\ RedisAnswers \/ RedisFails
      /\ UNCHANGED <<useRedis, local, own>>
  BY DEF DeleteRedis, Called
<1>1. faults' \in Nat /\ UNCHANGED <<useRedis, local, own>>
  BY <1>0 DEF RedisAnswers, RedisFails, IInv, TypeOK
<1>2. doing[h].keys \in SUBSET Keys /\ 0 \in Times
  BY DEF IInv, TypeOK, Times
<1>3. \/ \E k \in Keys, ttl \in Times : Stored(k, ttl)
      \/ UNCHANGED <<redis, grace>>
  BY <1>2 DEF DeleteRedis, Called
<1>4. \/ doing' = [doing EXCEPT ![h] = Idle]
      \/ \E k \in Keys : Becomes(h, "delete", doing[h].keys \ {k}, 0)
  BY <1>2 DEF DeleteRedis
<1>5. /\ doing' \in [Handlers -> [op : Operations, keys : SUBSET Keys, ttl : Times]]
      /\ LookupKeys'
      /\ \A g \in Handlers : doing'[g].op = "cache" => doing'[g] = doing[g]
  <2>1. CASE doing' = [doing EXCEPT ![h] = Idle]
    BY <2>1, EndsIdle
  <2>2. ASSUME NEW k \in Keys, Becomes(h, "delete", doing[h].keys \ {k}, 0)
        PROVE  /\ doing' \in [Handlers -> [op : Operations, keys : SUBSET Keys, ttl : Times]]
               /\ LookupKeys'
               /\ \A g \in Handlers : doing'[g].op = "cache" => doing'[g] = doing[g]
    <3>1. "delete" \in Operations \ {"cache"} /\ doing[h].keys \ {k} \in SUBSET Keys
      BY <1>2 DEF Operations
    <3>. QED
      BY <1>2, <2>2, <3>1, HandlerStep DEF Becomes
  <2>. QED
    BY <1>4, <2>1, <2>2
<1>. QED
  BY <1>1, <1>3, <1>5, RedisStep

\* Calls of a handler that are answered without a change to bans, and the script that bans.
LEMMA AnswerStep ==
    ASSUME IInv, NEW h \in Handlers,
           Taken(h) \/ \E k \in Keys, ttl \in Times : Scripted(h, k, ttl)
    PROVE  IInv'
<1>1. faults' \in Nat /\ UNCHANGED <<useRedis, local, own>>
  BY DEF Taken, Scripted, AnyCall, RedisAnswers, RedisFails, IInv, TypeOK
<1>2. doing' = [doing EXCEPT ![h] = Idle]
  BY DEF Taken, Scripted, Answered
<1>3. \/ \E k \in Keys, ttl \in Times : Stored(k, ttl)
      \/ UNCHANGED <<redis, grace>>
  BY DEF Taken, Scripted
<1>. QED
  BY <1>1, <1>2, <1>3, EndsIdle, RedisStep

\* Calls that are not about bans, and stuttering.
LEMMA OtherStep ==
    ASSUME IInv, OtherCall \/ UNCHANGED bansVars
    PROVE  IInv'
<1>1. faults' \in Nat /\ UNCHANGED <<useRedis, local, redis, doing, own, grace>>
  BY DEF OtherCall, AnyCall, RedisAnswers, RedisFails, bansVars, IInv, TypeOK
<1>. QED
  BY <1>1 DEF IInv, TypeOK, CachedBacked, AnswersBacked, LookupKeys, Backed

\* A copy and what backs it get older together.
LEMMA AgeStep ==
    ASSUME IInv, Age
    PROVE  IInv'
<1>1. /\ \A i \in Instances, k \in Keys : local'[i][k] = Older(local[i][k])
      /\ \A k \in Keys : /\ redis'[k] = Older(redis[k])
                          /\ grace'[k] = IF redis[k] = 1 THEN CacheTTL - 1 ELSE Older(grace[k])
      /\ UNCHANGED <<useRedis, doing, faults, own>>
      /\ \A h \in Handlers : doing[h].op = "idle"
  BY DEF Age
<1>2. \A t \in Times : Older(t) \in Times
  BY DEF Older, Times
<1>3. TypeOK'
  <2>1. local' \in [Instances -> [Keys -> Times]]
    BY <1>2 DEF Age, IInv, TypeOK
  <2>2. redis' \in [Keys -> Times]
    BY <1>2 DEF Age, IInv, TypeOK
  <2>3. CacheTTL - 1 \in 0 .. CacheTTL /\ \A t \in 0 .. CacheTTL : Older(t) \in 0 .. CacheTTL
    BY CacheTTLAssumption DEF Older
  <2>4. grace' \in [Keys -> 0 .. CacheTTL]
    BY <2>3 DEF Age, IInv, TypeOK
  <2>. QED
    BY <1>1, <2>1, <2>2, <2>4 DEF IInv, TypeOK
<1>4. CachedBacked'
  <2>. SUFFICES ASSUME NEW i \in Instances, NEW k \in Keys, ~own[i][k]
                PROVE  Backed(k, local[i][k])'
    BY <1>1 DEF CachedBacked
  <2>1. Backed(k, local[i][k])
    BY DEF IInv, CachedBacked
  <2>2. local[i][k] \in Times /\ redis[k] \in Times /\ grace[k] \in 0 .. CacheTTL
    BY DEF IInv, TypeOK
  <2>. QED
    BY <1>1, <2>1, <2>2, CacheTTLAssumption DEF Backed, Older, Times
<1>5. AnswersBacked' /\ LookupKeys'
  BY <1>1 DEF AnswersBacked, LookupKeys
<1>. QED
  BY <1>3, <1>4, <1>5 DEF IInv

\* Every step keeps the invariant.
LEMMA NextInv == IInv /\ [Next]_bansVars => IInv'
<1>. SUFFICES ASSUME IInv, [Next]_bansVars PROVE IInv'
  OBVIOUS
<1>1. ASSUME NEW h \in Handlers, NEW s \in Keys, Lookup(h, s) PROVE IInv'
  BY <1>1, LookupStep
<1>2. ASSUME NEW h \in Handlers, LookLocal(h) \/ AskRedis(h) PROVE IInv'
  BY <1>2, LookingStep
<1>3. ASSUME NEW h \in Handlers, CacheBan(h) PROVE IInv'
  BY <1>3, CacheBanStep
<1>4. ASSUME NEW h \in Handlers, NEW k \in Keys, NEW ttl \in Times, AddBan(h, k, ttl) PROVE IInv'
  BY <1>4, AddBanStep
<1>5. ASSUME NEW h \in Handlers, SetRedis(h) PROVE IInv'
  BY <1>5, SetRedisStep
<1>6. ASSUME NEW h \in Handlers, NEW k \in Keys, RemoveBan(h, k) PROVE IInv'
  BY <1>6, RemoveBanStep
<1>7. ASSUME NEW h \in Handlers, DeleteRedis(h) PROVE IInv'
  BY <1>7, DeleteRedisStep
<1>8. ASSUME NEW h \in Handlers,
             Taken(h) \/ \E k \in Keys, ttl \in Times : Scripted(h, k, ttl)
      PROVE  IInv'
  BY <1>8, AnswerStep
<1>9. CASE OtherCall \/ UNCHANGED bansVars
  BY <1>9, OtherStep
<1>10. CASE Age
  BY <1>10, AgeStep
<1>. QED
  BY <1>1, <1>2, <1>3, <1>4, <1>5, <1>6, <1>7, <1>8, <1>9, <1>10 DEF Next

\* Types: the dictionary, Redis and the handlers hold what utils.lua puts there.
THEOREM BansTyped == Spec => []TypeOK
<1>1. IInv => TypeOK
  BY DEF IInv
<1>. QED
  BY <1>1, InitInv, NextInv, PTL DEF Spec

\* "Cache locally with a short TTL so unbans propagate within
\* BAN_LOCAL_CACHE_TTL seconds" (utils.lua:964): for every number of instances,
\* services and calls, whatever Redis fails to answer, a ban an instance holds
\* is its own, or one Redis has or had less than CacheTTL ago.
THEOREM Propagates == Spec => []UnbansPropagate
<1>1. IInv => UnbansPropagate
  BY CacheTTLAssumption DEF IInv, TypeOK, CachedBacked, Backed, UnbansPropagate, Times
<1>. QED
  BY <1>1, InitInv, NextInv, PTL DEF Spec

(***************************************************************************)
(* The loops of BadBehavior.                                               *)
(***************************************************************************)
CInv == CountTypeOK /\ LoopsInBounds

\* Every state has one request, one timer and one API handler per instance.
LEMMA HandlersOf ==
    ASSUME NEW i \in Instances
    PROVE  Request(i) \in Handlers /\ Timer(i) \in Handlers /\ Api(i) \in Handlers
BY DEF Request, Timer, Api, Handlers

\* A counter of the service or of all services is one of the keys.
LEMMA KeysOf ==
    ASSUME NEW s \in Keys
    PROVE  KeyOf(s) \in Keys
BY DEF KeyOf, Keys

(***************************************************************************)
(* Every step of the plugin is a step of Bans or leaves it alone.          *)
(***************************************************************************)
LEMMA RequestIsBans ==
    ASSUME CInv, NEW i \in Instances, Access(i) \/ Log(i)
    PROVE  [Next]_bansVars
<1>1. CASE Access(i)
  <2>1. \E s \in Services : Lookup(Request(i), s)
    BY <1>1 DEF Access
  <2>. QED
    BY <2>1, HandlersOf DEF Next, Keys
<1>2. CASE Log(i)
  <2>1. Taken(Request(i))
    BY <1>2 DEF Log, Taken, AnyCall, RedisAnswers
  <2>. QED
    BY <2>1, HandlersOf DEF Next
<1>. QED
  BY <1>1, <1>2

\* The loops that count do nothing to bans but take answers.
LEMMA CountingIsBans ==
    ASSUME CInv, NEW i \in Instances,
           TimerDecr(i) \/ TimerIncr(i) \/ TimerSkip(i) \/ TimerCount(i) \/ TimerCountFull(i)
    PROVE  [Next]_bansVars
<1>1. CASE TimerDecr(i)
  <2>1. OtherCall
    BY <1>1 DEF TimerDecr, Decrease, OtherCall, AnyCall, RedisAnswers, NoMemory, RedisFails
  <2>. QED
    BY <2>1 DEF Next
<1>2. CASE TimerIncr(i)
  <2>1. Head(incr[i]) \in Keys
    BY <1>2 DEF TimerIncr, CInv, CountTypeOK, LoopsInBounds
  <2>. QED
    BY <1>2, <2>1, HandlersOf DEF TimerIncr, Next
<1>3. CASE TimerSkip(i)
  <2>1. Taken(Timer(i))
    BY <1>3 DEF TimerSkip, Taken, AnyCall, RedisAnswers
  <2>. QED
    BY <2>1, HandlersOf DEF Next
<1>4. CASE TimerCount(i)
  <2>. DEFINE k == KeyOf(timer[i].of)
  <2>1. k \in Keys /\ BanTime \in Times
    BY KeysOf, CountingAssumption DEF CInv, CountTypeOK
  <2>2. PICK n : Increase(i, k, n)
    BY <1>4 DEF TimerCount
  <2>3. Answered(Timer(i)) /\ UNCHANGED <<useRedis, local, own>>
    BY <1>4 DEF TimerCount
  <2>4. AnyCall /\ (Stored(k, BanTime) \/ UNCHANGED <<redis, grace>>)
    BY <2>2 DEF Increase, Script, AnyCall, RedisAnswers
  <2>. HIDE DEF k
  <2>5. Taken(Timer(i)) \/ Scripted(Timer(i), k, BanTime)
    BY <2>3, <2>4 DEF Taken, Scripted
  <2>. QED
    BY <2>1, <2>5, HandlersOf DEF Next
<1>5. CASE TimerCountFull(i)
  <2>. DEFINE k == KeyOf(timer[i].of)
  <2>1. k \in Keys /\ BanTime \in Times
    BY KeysOf, CountingAssumption DEF CInv, CountTypeOK
  <2>2. /\ Answered(Timer(i)) /\ AnyCall /\ UNCHANGED <<useRedis, local, own>>
        /\ Stored(k, BanTime) \/ UNCHANGED <<redis, grace>>
    BY <1>5 DEF TimerCountFull, Script, AnyCall, NoMemory, RedisFails
  <2>. HIDE DEF k
  <2>3. Taken(Timer(i)) \/ Scripted(Timer(i), k, BanTime)
    BY <2>2 DEF Taken, Scripted
  <2>. QED
    BY <2>1, <2>3, HandlersOf DEF Next
<1>. QED
  BY <1>1, <1>2, <1>3, <1>4, <1>5

\* The timer and the API ban and unban by the operations of Bans.
LEMMA BanningIsBans ==
    ASSUME CInv, NEW i \in Instances,
           (\E k \in Keys : TimerBan(i, k)) \/ Order(i)
    PROVE  [Next]_bansVars
<1>1. ASSUME NEW k \in Keys, TimerBan(i, k)
      PROVE  [Next]_bansVars
  <2>1. RemoveBan(Timer(i), k) \/ AddBan(Timer(i), k, BanTime) \/ UNCHANGED bansVars
    BY <1>1 DEF TimerBan
  <2>. QED
    BY <2>1, HandlersOf, CountingAssumption DEF Next
<1>2. CASE Order(i)
  <2>1. PICK k \in Keys :
            (\E ttl \in OrderTimes : AddBan(Api(i), k, ttl)) \/ RemoveBan(Api(i), k)
    BY <1>2 DEF Order
  <2>2. OrderTimes \subseteq Times
    BY CountingAssumption
  <2>. QED
    BY <2>1, <2>2, HandlersOf DEF Next
<1>. QED
  BY <1>1, <1>2

\* So every step is one of Bans or leaves its variables alone.
LEMMA StepIsBans == CInv /\ [CountNext]_vars => [Next]_bansVars
<1>. SUFFICES ASSUME CInv, [CountNext]_vars PROVE [Next]_bansVars
  OBVIOUS
<1>1. ASSUME NEW i \in Instances, Access(i) \/ Log(i) \/ Order(i) PROVE [Next]_bansVars
  BY <1>1, RequestIsBans, BanningIsBans
<1>2. ASSUME NEW i \in Instances, TimerStep(i) PROVE [Next]_bansVars
  <2>1. CASE TimerStart(i) \/ TimerEnd(i)
    BY <2>1 DEF TimerStart, TimerEnd
  <2>. QED
    BY <1>2, <2>1, CountingIsBans, BanningIsBans DEF TimerStep
<1>3. ASSUME NEW h \in Handlers, CallStep(h) PROVE [Next]_bansVars
  BY <1>3 DEF CallStep, Next
<1>4. CASE Tick
  BY <1>4 DEF Tick, Next
<1>5. CASE UNCHANGED vars
  BY <1>5 DEF vars
<1>. QED
  BY <1>1, <1>2, <1>3, <1>4, <1>5 DEF CountNext

(***************************************************************************)
(* The types of the counting state, and the loops: inductive together with *)
(* the invariant of Bans.                                                  *)
(***************************************************************************)
TimerRecords == [at : Phases, left : Nat, of : Keys, seen : [Keys -> [n : Nat, of : Keys]]]
DueRecords == [key : Keys, left : -1 .. CountTime]

\* The part of CountTypeOK and LoopsInBounds that a step has to keep.
Counting ==
    /\ incr \in [Instances -> Seq(Keys)]
    /\ decr \in [Instances -> Seq(DueRecords)]
    /\ count \in [Instances -> [Keys -> Counters]]
    /\ shared \in [Keys -> Counters]
    /\ timer \in [Instances -> TimerRecords]
    /\ serving \in [Instances -> Keys]
    /\ requests \in [Instances -> Nat]
    /\ orders \in Nat
    /\ LoopsInBounds

\* The invariant of the counting state, without the repetitions.
LEMMA CInvParts == CInv <=> TypeOK /\ Counting
BY DEF CInv, CountTypeOK, Counting, TimerRecords, DueRecords

\* Counting up, down and expiring give counters; what is queued is a record.
LEMMA CounterTypes ==
    /\ Zero \in Counters
    /\ \A n \in Nat : Counted(n) \in Counters
    /\ \A c \in Counters : Down(c) \in Counters /\ Expired(c) \in Counters /\ c.n + 1 \in Nat
    /\ \A k \in Keys : DueIn(k) \in DueRecords
BY CountingAssumption DEF Zero, Counters, Counted, Down, Expired, DueIn, DueRecords

\* The timer at rest.
LEMMA StoppedType ==
    /\ Stopped \in TimerRecords /\ Stopped.at = "due"
    /\ [Stopped EXCEPT !.at = "ran"] \in TimerRecords
    /\ [Stopped EXCEPT !.at = "ran"].at = "ran"
BY DEF Stopped, TimerRecords, Phases, Keys

\* Both invariants hold at the start.
LEMMA CountInitInv == CountInit => IInv /\ CInv
<1>. SUFFICES ASSUME CountInit PROVE IInv /\ CInv
  OBVIOUS
<1>1. IInv
  BY InitInv DEF CountInit
<1>2. Counting
  BY CounterTypes, StoppedType DEF CountInit, Counting, LoopsInBounds, Keys
<1>. QED
  BY <1>1, <1>2, CInvParts DEF IInv

\* Where a loop of the timer of i goes when left entries remain in the list it
\* is at.
LEMMA LoopBounds ==
    ASSUME Counting, NEW i \in Instances, NEW at \in {"decr", "incr"}, NEW left \in Nat
    PROVE  /\ Loop(i, at, left).at \in Phases /\ Loop(i, at, left).left \in Nat
           /\ Loop(i, at, left).at \in {at, "incr", "bans"}
           /\ at = "decr" /\ Loop(i, at, left).at = "incr" =>
                 Loop(i, at, left).left \in 1 .. Len(incr[i])
           /\ Loop(i, at, left).at = at => Loop(i, at, left).left = left /\ left > 0
<1>1. Len(incr[i]) \in Nat /\ (incr[i] # <<>> => Len(incr[i]) > 0)
  BY DEF Counting
<1>. QED
  BY <1>1 DEF Loop, Phases

\* A step that moves one timer and one list.
LEMMA TimerMoves ==
    ASSUME Counting, NEW i \in Instances, NEW r \in TimerRecords,
           timer' = [timer EXCEPT ![i] = r],
           incr' \in [Instances -> Seq(Keys)], decr' \in [Instances -> Seq(DueRecords)],
           \A j \in Instances \ {i} : incr'[j] = incr[j] /\ decr'[j] = decr[j],
           r.at = "decr" => r.left \in 1 .. Len(decr'[i]),
           r.at = "incr" => r.left \in 1 .. Len(incr'[i]),
           r.at = "look" => r.left \in 1 .. Len(incr'[i]) + 1
    PROVE  timer' \in [Instances -> TimerRecords] /\ LoopsInBounds'
<1>1. timer'[i] = r /\ \A j \in Instances \ {i} : timer'[j] = timer[j]
  BY DEF Counting
<1>. QED
  BY <1>1 DEF Counting, LoopsInBounds

\* A request pushes to the lists, which only makes the loops shorter than them.
LEMMA RequestCounting ==
    ASSUME Counting, NEW i \in Instances, Access(i) \/ Log(i)
    PROVE  Counting'
<1>1. CASE Access(i)
  <2>1. PICK s \in Services : serving' = [serving EXCEPT ![i] = s]
    BY <1>1 DEF Access
  <2>2. /\ requests' = [requests EXCEPT ![i] = @ + 1]
        /\ UNCHANGED <<incr, decr, count, shared, timer, orders>>
    BY <1>1 DEF Access, countVars
  <2>3. serving' \in [Instances -> Keys] /\ requests' \in [Instances -> Nat]
    BY <2>1, <2>2 DEF Counting, Keys
  <2>. QED
    BY <2>2, <2>3 DEF Counting, LoopsInBounds
<1>2. CASE Log(i)
  <2>1. incr' \in [Instances -> Seq(Keys)] /\ \A j \in Instances : Len(incr'[j]) >= Len(incr[j])
    <3>1. CASE UNCHANGED incr
      BY <3>1 DEF Counting
    <3>2. CASE incr' = [incr EXCEPT ![i] = Append(@, serving[i])]
      <4>1. incr[i] \in Seq(Keys) /\ serving[i] \in Keys
        BY DEF Counting
      <4>2. /\ Append(incr[i], serving[i]) \in Seq(Keys)
            /\ Len(Append(incr[i], serving[i])) = Len(incr[i]) + 1
        BY <4>1
      <4>3. \A j \in Instances : Len(incr[j]) \in Nat
        BY DEF Counting
      <4>. QED
        BY <3>2, <4>2, <4>3 DEF Counting
    <3>. QED
      BY <1>2, <3>1, <3>2 DEF Log
  <2>2. /\ UNCHANGED <<decr, count, shared, timer, requests, orders>>
        /\ serving' \in [Instances -> Keys]
    BY <1>2 DEF Log, Counting, Keys
  <2>3. \A j \in Instances : Len(incr'[j]) \in Nat /\ Len(incr[j]) \in Nat
    BY <2>1 DEF Counting
  <2>4. LoopsInBounds'
    BY <2>1, <2>2, <2>3 DEF LoopsInBounds, Counting
  <2>. QED
    BY <2>1, <2>2, <2>4 DEF Counting
<1>. QED
  BY <1>1, <1>2

\* The timer reads how long the list of decreases is, and pops no more than that.
LEMMA StartCounting ==
    ASSUME Counting, NEW i \in Instances, TimerStart(i)
    PROVE  Counting'
<1>. DEFINE step == Loop(i, "decr", Len(decr[i]))
            r == [timer[i] EXCEPT !.at = step.at, !.left = step.left]
<1>1. UNCHANGED <<incr, decr, count, shared, serving, requests, orders>>
      /\ timer' = [timer EXCEPT ![i] = r]
  BY DEF TimerStart, Moves, Counting, TimerRecords
<1>2. Len(decr[i]) \in Nat
  BY DEF Counting
<1>3. /\ step.at \in Phases /\ step.left \in Nat /\ step.at # "look"
      /\ step.at = "decr" => step.left \in 1 .. Len(decr[i])
      /\ step.at = "incr" => step.left \in 1 .. Len(incr[i])
  BY <1>2, LoopBounds
<1>. HIDE DEF step
<1>4. r \in TimerRecords /\ r.at = step.at /\ r.left = step.left
  BY <1>3 DEF Counting, TimerRecords
<1>. HIDE DEF r
<1>5. timer' \in [Instances -> TimerRecords] /\ LoopsInBounds'
  BY <1>1, <1>3, <1>4, TimerMoves DEF Counting
<1>. QED
  BY <1>1, <1>5 DEF Counting

\* Storing one local counter.
LEMMA CountStored ==
    ASSUME Counting, NEW i \in Instances, NEW k \in Keys, NEW c \in Counters,
           count' = [count EXCEPT ![i][k] = c]
    PROVE  count' \in [Instances -> [Keys -> Counters]]
<1>1. count \in [Instances -> [Keys -> Counters]]
  BY DEF Counting
<1>. DEFINE row == [count[i] EXCEPT ![k] = c]
<1>2. row \in [Keys -> Counters]
  BY <1>1
<1>3. count' = [count EXCEPT ![i] = row]
  BY <1>1
<1>. HIDE DEF row
<1>. QED
  BY <1>1, <1>2, <1>3

\* A decrease leaves counters, in the dictionary and in Redis.
LEMMA DecreaseTypes ==
    ASSUME Counting, NEW i \in Instances, NEW k \in Keys, Decrease(i, k)
    PROVE  count' \in [Instances -> [Keys -> Counters]] /\ shared' \in [Keys -> Counters]
<1>1. count[i][k] \in Counters /\ shared[k] \in Counters
  BY DEF Counting
<1>2. Down(count[i][k]) \in Counters /\ Down(shared[k]) \in Counters
  BY <1>1, CounterTypes
<1>3. \/ count' = [count EXCEPT ![i][k] = Down(count[i][k])]
      \/ count' = [count EXCEPT ![i][k] = Down(shared[k])]
      \/ UNCHANGED count
  BY DEF Decrease, Counting
<1>4. shared' = shared \/ shared' = [shared EXCEPT ![k] = Down(shared[k])]
  BY DEF Decrease, Counting
<1>5. count' \in [Instances -> [Keys -> Counters]]
  BY <1>2, <1>3, CountStored DEF Counting
<1>6. shared' \in [Keys -> Counters]
  BY <1>2, <1>4 DEF Counting
<1>. QED
  BY <1>5, <1>6

\* A round of the first loop pops one and may put it back: the list has one left for each round.
LEMMA DecrCounting ==
    ASSUME Counting, NEW i \in Instances, TimerDecr(i)
    PROVE  Counting'
<1>. DEFINE head == Head(decr[i])
            step == Loop(i, "decr", timer[i].left - 1)
            r == [timer[i] EXCEPT !.at = step.at, !.left = step.left]
<1>1. /\ timer[i].at = "decr" /\ timer[i].left \in 1 .. Len(decr[i])
      /\ decr[i] \in Seq(DueRecords) /\ Len(decr[i]) \in Nat
  BY DEF TimerDecr, Counting, LoopsInBounds
<1>2. /\ head \in DueRecords
      /\ Tail(decr[i]) \in Seq(DueRecords) /\ Len(Tail(decr[i])) = Len(decr[i]) - 1
  BY <1>1
<1>3. /\ Append(Tail(decr[i]), head) \in Seq(DueRecords)
      /\ Len(Append(Tail(decr[i]), head)) = Len(decr[i])
  BY <1>1, <1>2
<1>4. UNCHANGED <<incr, serving, requests, orders>> /\ timer' = [timer EXCEPT ![i] = r]
  BY DEF TimerDecr, Moves, Counting, TimerRecords
<1>5. /\ decr' \in [Instances -> Seq(DueRecords)]
      /\ \A j \in Instances \ {i} : decr'[j] = decr[j]
      /\ Len(decr'[i]) \in {Len(decr[i]) - 1, Len(decr[i])}
      /\ count' \in [Instances -> [Keys -> Counters]] /\ shared' \in [Keys -> Counters]
  <2>0. CASE decr' = [decr EXCEPT ![i] = Tail(@)] /\ UNCHANGED <<count, shared>>
    BY <1>2, <2>0 DEF Counting
  <2>1. CASE decr' = [decr EXCEPT ![i] = Tail(@)] /\ Decrease(i, head.key)
    <3>1. head.key \in Keys
      BY <1>2 DEF DueRecords
    <3>2. count' \in [Instances -> [Keys -> Counters]] /\ shared' \in [Keys -> Counters]
      BY <2>1, <3>1, DecreaseTypes
    <3>. HIDE DEF head
    <3>. QED
      BY <1>2, <2>1, <3>2 DEF Counting
  <2>2. CASE decr' = [decr EXCEPT ![i] = Append(Tail(@), head)] /\ UNCHANGED <<count, shared>>
    <3>1. decr' = [decr EXCEPT ![i] = Append(Tail(decr[i]), head)]
      BY <2>2 DEF Counting
    <3>. HIDE DEF head
    <3>. QED
      BY <1>3, <2>2, <3>1 DEF Counting
  <2>. QED
    BY <2>0, <2>1, <2>2 DEF TimerDecr
<1>6. /\ step.at \in Phases /\ step.left \in Nat /\ step.at # "look"
      /\ step.at = "decr" => step.left \in 1 .. Len(decr'[i])
      /\ step.at = "incr" => step.left \in 1 .. Len(incr[i])
  <2>1. timer[i].left - 1 \in Nat
    BY <1>1
  <2>2. /\ step.at \in Phases /\ step.left \in Nat
        /\ step.at \in {"decr", "incr", "bans"}
        /\ step.at = "incr" => step.left \in 1 .. Len(incr[i])
        /\ step.at = "decr" => step.left = timer[i].left - 1 /\ timer[i].left - 1 > 0
    BY <2>1, LoopBounds
  <2>. HIDE DEF step
  <2>. QED
    BY <1>1, <1>5, <2>2
<1>. HIDE DEF step
<1>7. r \in TimerRecords /\ r.at = step.at /\ r.left = step.left
  BY <1>6 DEF Counting, TimerRecords
<1>. HIDE DEF r
<1>8. timer' \in [Instances -> TimerRecords] /\ LoopsInBounds'
  BY <1>4, <1>5, <1>6, <1>7, TimerMoves DEF Counting
<1>. QED
  BY <1>4, <1>5, <1>8 DEF Counting

\* A round of the second loop pops a request,
LEMMA IncrCounting ==
    ASSUME Counting, NEW i \in Instances, TimerIncr(i)
    PROVE  Counting'
<1>. DEFINE r == [timer[i] EXCEPT !.at = "look", !.of = Head(incr[i])]
<1>1. /\ timer[i].at = "incr" /\ timer[i].left \in 1 .. Len(incr[i])
      /\ incr[i] \in Seq(Keys) /\ Len(incr[i]) \in Nat
  BY DEF TimerIncr, Counting, LoopsInBounds
<1>2. /\ Head(incr[i]) \in Keys /\ Tail(incr[i]) \in Seq(Keys)
      /\ Len(Tail(incr[i])) = Len(incr[i]) - 1
  BY <1>1
<1>3. /\ incr' = [incr EXCEPT ![i] = Tail(incr[i])]
      /\ timer' = [timer EXCEPT ![i] = r]
      /\ UNCHANGED <<decr, count, shared, serving, requests, orders>>
  BY DEF TimerIncr, Counting, TimerRecords
<1>4. /\ incr' \in [Instances -> Seq(Keys)]
      /\ \A j \in Instances \ {i} : incr'[j] = incr[j]
      /\ incr'[i] = Tail(incr[i])
  BY <1>2, <1>3 DEF Counting
<1>5. r \in TimerRecords /\ r.at = "look" /\ r.left = timer[i].left
  BY <1>2 DEF Counting, TimerRecords, Phases
<1>. HIDE DEF r
<1>6. r.left \in 1 .. Len(incr'[i]) + 1
  BY <1>1, <1>2, <1>4, <1>5
<1>7. timer' \in [Instances -> TimerRecords] /\ LoopsInBounds'
  BY <1>3, <1>4, <1>5, <1>6, TimerMoves DEF Counting
<1>. QED
  BY <1>3, <1>4, <1>7 DEF Counting

\* ...drops it if its address is banned already,
LEMMA SkipCounting ==
    ASSUME Counting, NEW i \in Instances, TimerSkip(i)
    PROVE  Counting'
<1>. DEFINE step == Loop(i, "incr", timer[i].left - 1)
            r == [timer[i] EXCEPT !.at = step.at, !.left = step.left]
<1>1. timer[i].left \in 1 .. Len(incr[i]) + 1 /\ Len(incr[i]) \in Nat
  BY DEF TimerSkip, Counting, LoopsInBounds
<1>2. /\ UNCHANGED <<incr, decr, count, shared, serving, requests, orders>>
      /\ timer' = [timer EXCEPT ![i] = r]
  BY DEF TimerSkip, Moves, Counting, TimerRecords
<1>3. /\ step.at \in Phases /\ step.left \in Nat /\ step.at \in {"incr", "bans"}
      /\ step.at = "incr" => step.left = timer[i].left - 1 /\ timer[i].left - 1 > 0
  BY <1>1, LoopBounds
<1>. HIDE DEF step
<1>4. r \in TimerRecords /\ r.at = step.at /\ r.left = step.left
  BY <1>3 DEF Counting, TimerRecords
<1>5. step.at = "incr" => step.left \in 1 .. Len(incr[i])
  BY <1>1, <1>3
<1>. HIDE DEF r
<1>6. timer' \in [Instances -> TimerRecords] /\ LoopsInBounds'
  BY <1>2, <1>3, <1>4, <1>5, TimerMoves DEF Counting
<1>. QED
  BY <1>2, <1>6 DEF Counting

\* ...or counts it and queues its decrease.
LEMMA CountCounting ==
    ASSUME Counting, NEW i \in Instances, TimerCount(i)
    PROVE  Counting'
<1>. DEFINE s == timer[i].of
            k == KeyOf(s)
            step == Loop(i, "incr", timer[i].left - 1)
<1>1. s \in Keys /\ k \in Keys
  BY KeysOf DEF Counting, TimerRecords
<1>2. /\ timer[i] \in TimerRecords
      /\ timer[i].left \in 1 .. Len(incr[i]) + 1 /\ Len(incr[i]) \in Nat
  BY DEF TimerCount, Counting, LoopsInBounds
<1>3. count[i][k] \in Counters /\ shared[k] \in Counters
  BY <1>1 DEF Counting
<1>4. PICK n \in {count[i][k].n + 1, shared[k].n + 1} :
          /\ Increase(i, k, n)
          /\ count' = [count EXCEPT ![i][k] = Counted(n)]
          /\ decr' = [decr EXCEPT ![i] = Append(@, DueIn(k))]
          /\ timer' = [timer EXCEPT ![i].at = step.at, ![i].left = @ - 1,
                                    ![i].seen[k] = [n |-> n, of |-> s]]
  BY DEF TimerCount
<1>5. n \in Nat /\ shared[k].n + 1 \in Nat
  BY <1>3, <1>4, CounterTypes
<1>6. UNCHANGED <<incr, serving, requests, orders>>
  BY DEF TimerCount
<1>7. shared' = shared \/ shared' = [shared EXCEPT ![k] = Counted(n)]
                       \/ shared' = [shared EXCEPT ![k] = Counted(shared[k].n + 1)]
  BY <1>4 DEF Increase, Script
<1>8. /\ step.at \in Phases /\ step.at \in {"incr", "bans"}
      /\ step.at = "incr" => timer[i].left - 1 > 0
  BY <1>2, LoopBounds
<1>. DEFINE r == [timer[i] EXCEPT !.at = step.at, !.left = timer[i].left - 1,
                                  !.seen = [timer[i].seen EXCEPT ![k] = [n |-> n, of |-> s]]]
<1>9. timer' = [timer EXCEPT ![i] = r]
  BY <1>4 DEF Counting, TimerRecords
<1>. HIDE DEF k, s, step
<1>10. r \in TimerRecords /\ r.at = step.at /\ r.left = timer[i].left - 1
  <2>1. [timer[i].seen EXCEPT ![k] = [n |-> n, of |-> s]] \in [Keys -> [n : Nat, of : Keys]]
    BY <1>1, <1>2, <1>5 DEF TimerRecords
  <2>2. timer[i].left - 1 \in Nat
    BY <1>2
  <2>. QED
    BY <1>2, <1>8, <2>1, <2>2 DEF TimerRecords
<1>. HIDE DEF r
<1>11. Counted(n) \in Counters /\ Counted(shared[k].n + 1) \in Counters /\ DueIn(k) \in DueRecords
  BY <1>1, <1>5, CounterTypes
<1>12. count' \in [Instances -> [Keys -> Counters]]
  BY <1>1, <1>4, <1>11, CountStored
<1>13. shared' \in [Keys -> Counters]
  BY <1>7, <1>11 DEF Counting
<1>14. decr' \in [Instances -> Seq(DueRecords)] /\ \A j \in Instances \ {i} : decr'[j] = decr[j]
  <2>1. decr[i] \in Seq(DueRecords)
    BY DEF Counting
  <2>2. Append(decr[i], DueIn(k)) \in Seq(DueRecords)
    BY <1>11, <2>1
  <2>. QED
    BY <1>4, <2>2 DEF Counting
<1>15. r.at = "incr" => r.left \in 1 .. Len(incr[i])
  BY <1>2, <1>8, <1>10
<1>16. timer' \in [Instances -> TimerRecords] /\ LoopsInBounds'
  BY <1>6, <1>8, <1>9, <1>10, <1>14, <1>15, TimerMoves DEF Counting
<1>. QED
  BY <1>6, <1>12, <1>13, <1>14, <1>16 DEF Counting

\* With a full dictionary a request is popped, counted or not, and leaves no decrease.
LEMMA FullCounting ==
    ASSUME Counting, NEW i \in Instances, TimerCountFull(i)
    PROVE  Counting'
<1>. DEFINE s == timer[i].of
            k == KeyOf(s)
            n == IF useRedis THEN shared[k].n + 1 ELSE count[i][k].n + 1
            step == Loop(i, "incr", timer[i].left - 1)
<1>1. s \in Keys /\ k \in Keys
  BY KeysOf DEF Counting, TimerRecords
<1>2. /\ timer[i] \in TimerRecords
      /\ timer[i].left \in 1 .. Len(incr[i]) + 1 /\ Len(incr[i]) \in Nat
  BY DEF TimerCountFull, Counting, LoopsInBounds
<1>3. count[i][k] \in Counters /\ shared[k] \in Counters
  BY <1>1 DEF Counting
<1>4. n \in Nat
  BY <1>3, CounterTypes
<1>5. UNCHANGED <<incr, decr, serving, requests, orders>>
  BY DEF TimerCountFull
<1>6. shared' = shared \/ shared' = [shared EXCEPT ![k] = Counted(n)]
  BY DEF TimerCountFull, Script
<1>7. \/ UNCHANGED count /\ Moves(i, "incr", timer[i].left - 1)
      \/ /\ count' = [count EXCEPT ![i][k] = Counted(n)]
         /\ timer' = [timer EXCEPT ![i].at = step.at, ![i].left = @ - 1,
                                   ![i].seen[k] = [n |-> n, of |-> s]]
  BY DEF TimerCountFull
<1>8. /\ step.at \in Phases /\ step.left \in Nat /\ step.at \in {"incr", "bans"}
      /\ step.at = "incr" => step.left = timer[i].left - 1 /\ timer[i].left - 1 > 0
  BY <1>2, LoopBounds
<1>9. PICK r \in TimerRecords :
          /\ timer' = [timer EXCEPT ![i] = r]
          /\ r.at = step.at
          /\ r.at = "incr" => r.left = timer[i].left - 1
  <2>1. CASE Moves(i, "incr", timer[i].left - 1)
    <3>. DEFINE r == [timer[i] EXCEPT !.at = step.at, !.left = step.left]
    <3>1. timer' = [timer EXCEPT ![i] = r]
      BY <1>2, <2>1 DEF Moves, Counting, TimerRecords
    <3>. HIDE DEF step
    <3>2. r \in TimerRecords /\ r.at = step.at /\ r.left = step.left
      BY <1>2, <1>8 DEF TimerRecords
    <3>. HIDE DEF r
    <3>. QED
      BY <1>8, <3>1, <3>2
  <2>2. CASE timer' = [timer EXCEPT ![i].at = step.at, ![i].left = @ - 1,
                                    ![i].seen[k] = [n |-> n, of |-> s]]
    <3>. DEFINE r == [timer[i] EXCEPT !.at = step.at, !.left = timer[i].left - 1,
                                      !.seen = [timer[i].seen EXCEPT ![k] = [n |-> n, of |-> s]]]
    <3>1. timer' = [timer EXCEPT ![i] = r]
      BY <2>2 DEF Counting, TimerRecords
    <3>. HIDE DEF k, s, n, step
    <3>2. [timer[i].seen EXCEPT ![k] = [n |-> n, of |-> s]] \in [Keys -> [n : Nat, of : Keys]]
      BY <1>1, <1>2, <1>4 DEF TimerRecords
    <3>3. timer[i].left - 1 \in Nat
      BY <1>2
    <3>4. r \in TimerRecords /\ r.at = step.at /\ r.left = timer[i].left - 1
      BY <1>2, <1>8, <3>2, <3>3 DEF TimerRecords
    <3>. HIDE DEF r
    <3>. QED
      BY <3>1, <3>4
  <2>. QED
    BY <1>7, <2>1, <2>2
<1>. HIDE DEF k, s, n, step
<1>10. Counted(n) \in Counters
  BY <1>4, CounterTypes
<1>11. count' \in [Instances -> [Keys -> Counters]]
  <2>1. CASE UNCHANGED count
    BY <2>1 DEF Counting
  <2>2. CASE count' = [count EXCEPT ![i][k] = Counted(n)]
    BY <1>1, <1>10, <2>2, CountStored
  <2>. QED
    BY <1>7, <2>1, <2>2
<1>12. shared' \in [Keys -> Counters]
  BY <1>6, <1>10 DEF Counting
<1>13. r.at = "incr" => r.left \in 1 .. Len(incr[i])
  BY <1>2, <1>8, <1>9
<1>14. timer' \in [Instances -> TimerRecords] /\ LoopsInBounds'
  BY <1>5, <1>8, <1>9, <1>13, TimerMoves DEF Counting
<1>. QED
  BY <1>5, <1>11, <1>12, <1>14 DEF Counting

\* Bans, the end of the timer and orders of the API touch no list.
LEMMA BanCounting ==
    ASSUME Counting, NEW i \in Instances,
           (\E k \in Keys : TimerBan(i, k)) \/ TimerEnd(i) \/ Order(i)
    PROVE  Counting'
<1>1. ASSUME NEW k \in Keys, TimerBan(i, k)
      PROVE  Counting'
  <2>. DEFINE c == [timer[i].seen[k] EXCEPT !.n = 0]
              r == [timer[i] EXCEPT !.seen = [timer[i].seen EXCEPT ![k] = c]]
  <2>1. timer[i] \in TimerRecords /\ timer[i].at = "bans"
    BY <1>1 DEF TimerBan, Counting
  <2>2. UNCHANGED <<incr, decr, count, shared, serving, requests, orders>>
    BY <1>1 DEF TimerBan
  <2>3. timer' = [timer EXCEPT ![i] = r]
    BY <1>1 DEF TimerBan, Counting, TimerRecords
  <2>4. c \in [n : Nat, of : Keys]
    BY <2>1 DEF TimerRecords
  <2>. HIDE DEF c
  <2>5. r \in TimerRecords /\ r.at = "bans"
    BY <2>1, <2>4 DEF TimerRecords
  <2>. HIDE DEF r
  <2>6. timer' \in [Instances -> TimerRecords] /\ LoopsInBounds'
    BY <2>2, <2>3, <2>5, TimerMoves DEF Counting
  <2>. QED
    BY <2>2, <2>6 DEF Counting
<1>2. CASE TimerEnd(i)
  <2>1. /\ timer' = [timer EXCEPT ![i] = [Stopped EXCEPT !.at = "ran"]]
        /\ UNCHANGED <<incr, decr, count, shared, serving, requests, orders>>
    BY <1>2 DEF TimerEnd
  <2>2. timer' \in [Instances -> TimerRecords] /\ LoopsInBounds'
    BY <2>1, StoppedType, TimerMoves DEF Counting
  <2>. QED
    BY <2>1, <2>2 DEF Counting
<1>3. CASE Order(i)
  BY <1>3 DEF Order, countVars, Counting, LoopsInBounds
<1>. QED
  BY <1>1, <1>2, <1>3

\* Time passes in every queued decrease and in every counter.
LEMMA TickCounting ==
    ASSUME Counting, Tick
    PROVE  Counting'
<1>1. UNCHANGED <<incr, serving, requests, orders>>
  BY DEF Tick
<1>2. count' \in [Instances -> [Keys -> Counters]]
  <2>1. \A i \in Instances, k \in Keys : Expired(count[i][k]) \in Counters
    BY CounterTypes DEF Counting
  <2>. QED
    BY <2>1 DEF Tick
<1>3. shared' \in [Keys -> Counters]
  <2>1. \A k \in Keys : Expired(shared[k]) \in Counters
    BY CounterTypes DEF Counting
  <2>. QED
    BY <2>1 DEF Tick
<1>4. decr' \in [Instances -> Seq(DueRecords)]
  <2>. DEFINE aged(d) == [d EXCEPT !.left = IF @ < 0 THEN @ ELSE @ - 1]
              list(i) == [j \in DOMAIN decr[i] |-> aged(decr[i][j])]
  <2>1. \A d \in DueRecords : aged(d) \in DueRecords
    BY CountingAssumption DEF DueRecords
  <2>2. ASSUME NEW i \in Instances PROVE list(i) \in Seq(DueRecords)
    <3>1. /\ decr[i] \in Seq(DueRecords) /\ Len(decr[i]) \in Nat
          /\ DOMAIN decr[i] = 1 .. Len(decr[i])
          /\ \A j \in DOMAIN decr[i] : decr[i][j] \in DueRecords
      BY DEF Counting
    <3>2. list(i) \in [1 .. Len(decr[i]) -> DueRecords]
      BY <2>1, <3>1
    <3>. HIDE DEF list
    <3>. QED
      BY <3>1, <3>2
  <2>3. decr' = [i \in Instances |-> list(i)]
    BY DEF Tick
  <2>. HIDE DEF list
  <2>. QED
    BY <2>2, <2>3
<1>5. timer' \in [Instances -> TimerRecords] /\ \A i \in Instances : timer'[i].at = "due"
  BY StoppedType DEF Tick
<1>6. LoopsInBounds'
  BY <1>5 DEF LoopsInBounds
<1>. QED
  BY <1>1, <1>2, <1>3, <1>4, <1>5, <1>6 DEF Counting

\* Every step keeps both invariants.
LEMMA CountNextInv == IInv /\ CInv /\ [CountNext]_vars => IInv' /\ CInv'
<1>. SUFFICES ASSUME IInv, CInv, [CountNext]_vars PROVE IInv' /\ CInv'
  OBVIOUS
<1>1. IInv'
  BY StepIsBans, NextInv
<1>2. Counting
  BY CInvParts
<1>3. ASSUME NEW i \in Instances, Access(i) \/ Log(i) \/ Order(i) PROVE Counting'
  BY <1>2, <1>3, RequestCounting, BanCounting
<1>4. ASSUME NEW i \in Instances, TimerStep(i) PROVE Counting'
  BY <1>2, <1>4, StartCounting, DecrCounting, IncrCounting, SkipCounting, CountCounting,
     FullCounting, BanCounting DEF TimerStep
<1>5. ASSUME (\E h \in Handlers : CallStep(h)) \/ UNCHANGED vars PROVE Counting'
  BY <1>2, <1>5 DEF CallStep, countVars, vars, Counting, LoopsInBounds
<1>6. ASSUME Tick PROVE Counting'
  BY <1>2, <1>6, TickCounting
<1>7. Counting'
  BY <1>3, <1>4, <1>5, <1>6 DEF CountNext
<1>8. TypeOK'
  BY <1>1 DEF IInv
<1>9. CInv' <=> TypeOK' /\ Counting'
  BY DEF CInv, CountTypeOK, Counting, TimerRecords, DueRecords
<1>. QED
  BY <1>1, <1>7, <1>8, <1>9

\* The plugin on top of the bans: the types, and that the timer never pops from
\* an empty list (badbehavior.lua:155 and 190) while the workers push to it.
THEOREM CountingSafe == CountSpec => [](CountTypeOK /\ LoopsInBounds)
<1>1. CInv => CountTypeOK /\ LoopsInBounds
  BY DEF CInv
<1>. QED
  BY <1>1, CountInitInv, CountNextInv, PTL DEF CountSpec

\* Types of the counting state: no list, counter or timer ever holds anything
\* else, whatever the workers push while the timer pops.
THEOREM CountTyped == CountSpec => []CountTypeOK
BY CountingSafe, PTL

\* Whatever requests, the timers and the API do, they use bans as Bans says.
THEOREM UsesBans == CountSpec => Spec
<1>1. CountInit => Init
  BY DEF CountInit
<1>. QED
  BY <1>1, CountInitInv, CountNextInv, StepIsBans, PTL DEF CountSpec, Spec

\* So unbans propagate there too.
THEOREM CountedPropagates == CountSpec => []UnbansPropagate
BY UsesBans, Propagates, PTL

(***************************************************************************)
(* How many elements of a list are in a set, when a list grows at its end  *)
(* and shrinks at its head.                                                *)
(***************************************************************************)
At(s, T) == {j \in DOMAIN s : s[j] \in T}
One(e, T) == IF e \in T THEN 1 ELSE 0

\* The positions are finitely many.
LEMMA AtFinite ==
    ASSUME NEW S, NEW s \in Seq(S), NEW T
    PROVE  IsFiniteSet(At(s, T)) /\ Cardinality(At(s, T)) \in Nat
<1>1. Len(s) \in Nat /\ At(s, T) \in SUBSET (1 .. Len(s))
  BY DEF At
<1>2. IsFiniteSet(1 .. Len(s))
  BY <1>1, FS_Interval
<1>. QED
  BY <1>1, <1>2, FS_Subset, FS_CardinalityType

\* A new last element is one more, when it is in the set.
LEMMA AtAppend ==
    ASSUME NEW S, NEW s \in Seq(S), NEW e \in S, NEW T
    PROVE  Cardinality(At(Append(s, e), T)) = Cardinality(At(s, T)) + One(e, T)
<1>. DEFINE t == Append(s, e)
<1>1. /\ t \in Seq(S) /\ Len(s) \in Nat /\ Len(t) = Len(s) + 1
      /\ DOMAIN s = 1 .. Len(s) /\ DOMAIN t = 1 .. Len(t)
      /\ \A j \in 1 .. Len(s) : t[j] = s[j]
      /\ t[Len(s) + 1] = e
  OBVIOUS
<1>. HIDE DEF t
<1>2. IsFiniteSet(At(s, T)) /\ Cardinality(At(s, T)) \in Nat
  BY AtFinite
<1>3. Len(s) + 1 \notin At(s, T)
  BY <1>1 DEF At
<1>4. CASE e \in T
  <2>1. At(t, T) = At(s, T) \cup {Len(s) + 1}
    BY <1>1, <1>4 DEF At
  <2>. QED
    BY <1>2, <1>3, <1>4, <2>1, FS_AddElement DEF One, t
<1>5. CASE e \notin T
  <2>1. At(t, T) = At(s, T)
    BY <1>1, <1>5 DEF At
  <2>. QED
    BY <1>2, <1>5, <2>1 DEF One, t
<1>. QED
  BY <1>4, <1>5

\* Without its head there is one less, when the head was in the set.
LEMMA AtTail ==
    ASSUME NEW S, NEW s \in Seq(S), s # <<>>, NEW T
    PROVE  Cardinality(At(Tail(s), T)) = Cardinality(At(s, T)) - One(Head(s), T)
<1>. DEFINE t == Tail(s)
            rest == At(s, T) \ {1}
            f == [j \in rest |-> j - 1]
<1>1. /\ t \in Seq(S) /\ Len(s) \in Nat \ {0} /\ Len(t) = Len(s) - 1
      /\ DOMAIN s = 1 .. Len(s) /\ DOMAIN t = 1 .. Len(t)
      /\ \A j \in 1 .. Len(t) : t[j] = s[j + 1]
      /\ Head(s) = s[1]
  OBVIOUS
<1>. HIDE DEF t
<1>2. IsFiniteSet(At(s, T)) /\ Cardinality(At(s, T)) \in Nat
  BY AtFinite
<1>3. f \in Bijection(rest, At(t, T))
  <2>1. \A j \in rest : j \in 1 .. Len(s) /\ j # 1 /\ s[j] \in T
    BY <1>1 DEF At
  <2>2. \A j \in rest : f[j] = j - 1 /\ f[j] \in At(t, T)
    <3>1. SUFFICES ASSUME NEW j \in rest PROVE j - 1 \in At(t, T)
      OBVIOUS
    <3>2. j \in 1 .. Len(s) /\ j # 1 /\ s[j] \in T
      BY <2>1
    <3>3. j - 1 \in 1 .. Len(t) /\ t[j - 1] = s[j]
      BY <1>1, <3>2
    <3>. QED
      BY ONLY <3>2, <3>3, <1>1 DEF At
  <2>3. \A j \in At(t, T) : j + 1 \in rest /\ f[j + 1] = j
    BY <1>1 DEF At
  <2>4. \A j \in At(t, T) : \E l \in rest : f[l] = j
    BY <2>3
  <2>5. \A j, l \in rest : f[j] = f[l] => j = l
    BY <2>1, <2>2
  <2>6. f \in [rest -> At(t, T)]
    BY <2>2
  <2>. HIDE DEF f, rest
  <2>. QED
    BY <2>4, <2>5, <2>6, Fun_IsBij
<1>4. IsFiniteSet(rest)
      /\ Cardinality(rest) = IF 1 \in At(s, T) THEN Cardinality(At(s, T)) - 1
                                                ELSE Cardinality(At(s, T))
  BY <1>2, FS_RemoveElement
<1>5. 1 \in At(s, T) <=> Head(s) \in T
  BY <1>1 DEF At
<1>. HIDE DEF rest, f
<1>6. Cardinality(At(t, T)) = Cardinality(rest)
  BY <1>3, <1>4, FS_Bijection DEF ExistsBijection
<1>. QED
  BY <1>2, <1>4, <1>5, <1>6 DEF One, t

\* The same for the lists of all instances together.
Places(d, T) == {p \in Instances \X Nat : p[2] \in DOMAIN d[p[1]] /\ d[p[1]][p[2]] \in T}

\* One of the lists grows.
LEMMA PlacesAppend ==
    ASSUME NEW d, d \in [Instances -> Seq(DueRecords)], NEW T, IsFiniteSet(Places(d, T)),
           NEW i \in Instances, NEW e \in DueRecords, NEW g, g = [d EXCEPT ![i] = Append(@, e)]
    PROVE  /\ IsFiniteSet(Places(g, T))
           /\ Cardinality(Places(g, T)) = Cardinality(Places(d, T)) + One(e, T)
<1>. DEFINE l == Len(d[i]) + 1
<1>1. d[i] \in Seq(DueRecords)
  OBVIOUS
<1>2. /\ Len(d[i]) \in Nat /\ DOMAIN d[i] = 1 .. Len(d[i])
      /\ DOMAIN g[i] = 1 .. l /\ g[i][l] = e
      /\ \A j \in 1 .. Len(d[i]) : g[i][j] = d[i][j]
  BY <1>1
<1>3. \A h \in Instances \ {i} : g[h] = d[h]
  OBVIOUS
<1>4. l \in Nat /\ l \notin DOMAIN d[i] /\ DOMAIN g[i] = DOMAIN d[i] \cup {l}
  BY <1>2
<1>. HIDE DEF l
<1>5. <<i, l>> \notin Places(d, T) /\ Cardinality(Places(d, T)) \in Nat
  BY <1>4, FS_CardinalityType DEF Places
<1>6. CASE e \in T
  <2>1. Places(g, T) = Places(d, T) \cup {<<i, l>>}
    <3>1. ASSUME NEW p \in Instances \X Nat
          PROVE  p \in Places(g, T) <=> p \in Places(d, T) \cup {<<i, l>>}
      <4>1. CASE p[1] = i /\ p[2] = l
        BY <1>2, <1>4, <1>6, <4>1 DEF Places
      <4>2. CASE p[1] = i /\ p[2] # l
        BY <1>2, <1>4, <4>2 DEF Places
      <4>3. CASE p[1] # i
        BY <1>3, <4>3 DEF Places
      <4>. QED
        BY <4>1, <4>2, <4>3
    <3>2. <<i, l>> \in Instances \X Nat
      BY <1>4
    <3>. QED
      BY <3>1, <3>2 DEF Places
  <2>2. /\ IsFiniteSet(Places(d, T) \cup {<<i, l>>})
        /\ Cardinality(Places(d, T) \cup {<<i, l>>}) = Cardinality(Places(d, T)) + 1
    BY <1>5, FS_AddElement
  <2>. QED
    BY <1>6, <2>1, <2>2 DEF One
<1>7. CASE e \notin T
  <2>1. Places(g, T) = Places(d, T)
    <3>1. ASSUME NEW p \in Instances \X Nat
          PROVE  p \in Places(g, T) <=> p \in Places(d, T)
      <4>1. CASE p[1] = i /\ p[2] = l
        BY <1>2, <1>4, <1>7, <4>1 DEF Places
      <4>2. CASE p[1] = i /\ p[2] # l
        BY <1>2, <1>4, <4>2 DEF Places
      <4>3. CASE p[1] # i
        BY <1>3, <4>3 DEF Places
      <4>. QED
        BY <4>1, <4>2, <4>3
    <3>. QED
      BY <3>1 DEF Places
  <2>. QED
    BY <1>5, <1>7, <2>1 DEF One
<1>. QED
  BY <1>6, <1>7

\* One of the lists loses its head.
LEMMA PlacesTail ==
    ASSUME NEW d, d \in [Instances -> Seq(DueRecords)], NEW T, IsFiniteSet(Places(d, T)),
           NEW i \in Instances, d[i] # <<>>, NEW g, g = [d EXCEPT ![i] = Tail(@)]
    PROVE  /\ IsFiniteSet(Places(g, T))
           /\ Cardinality(Places(g, T)) = Cardinality(Places(d, T)) - One(Head(d[i]), T)
<1>. DEFINE rest == Places(d, T) \ {<<i, 1>>}
            f == [p \in rest |-> IF p[1] = i THEN <<i, p[2] - 1>> ELSE p]
<1>1. d[i] \in Seq(DueRecords)
  OBVIOUS
<1>2. /\ Len(d[i]) \in Nat \ {0} /\ DOMAIN d[i] = 1 .. Len(d[i])
      /\ DOMAIN g[i] = 1 .. Len(d[i]) - 1
      /\ \A j \in 1 .. Len(d[i]) - 1 : g[i][j] = d[i][j + 1]
      /\ Head(d[i]) = d[i][1]
  BY <1>1
<1>3. \A h \in Instances \ {i} : g[h] = d[h]
  OBVIOUS
<1>4. \A p \in rest : p[1] = i => p[2] \in 2 .. Len(d[i]) /\ d[i][p[2]] \in T
  BY <1>2 DEF Places
<1>5. \A p \in rest : f[p] \in Places(g, T)
  <2>. SUFFICES ASSUME NEW p \in rest PROVE f[p] \in Places(g, T)
    OBVIOUS
  <2>1. CASE p[1] = i
    <3>. DEFINE m == p[2] - 1
    <3>1. f[p] = <<i, m>>
      BY <2>1
    <3>2. m \in 1 .. Len(d[i]) - 1 /\ m + 1 = p[2]
      BY <1>2, <1>4, <2>1
    <3>3. d[i][p[2]] \in T
      BY <1>4, <2>1
    <3>. HIDE DEF m, f
    <3>4. <<i, m>> \in Instances \X Nat /\ m \in DOMAIN g[i] /\ g[i][m] \in T
      BY <1>2, <3>2, <3>3
    <3>. QED
      BY <3>1, <3>4 DEF Places
  <2>2. CASE p[1] # i
    BY <1>3, <2>2 DEF Places
  <2>. QED
    BY <2>1, <2>2
<1>6. ASSUME NEW p, NEW q, p \in rest, q \in rest, f[p] = f[q]
      PROVE  p = q
  <2>1. p \in Instances \X Nat /\ q \in Instances \X Nat
    BY <1>6 DEF Places
  <2>2. p = <<p[1], p[2]>> /\ q = <<q[1], q[2]>> /\ p[2] \in Nat /\ q[2] \in Nat
    BY <2>1
  <2>3. f[p] = (IF p[1] = i THEN <<i, p[2] - 1>> ELSE p)
        /\ f[q] = (IF q[1] = i THEN <<i, q[2] - 1>> ELSE q)
    BY <1>6
  <2>. HIDE DEF f, rest
  <2>4. CASE p[1] = i /\ q[1] = i
    <3>1. <<i, p[2] - 1>> = <<i, q[2] - 1>>
      BY <1>6, <2>3, <2>4
    <3>2. p[2] = q[2]
      BY <2>2, <3>1
    <3>. QED
      BY <2>2, <2>4, <3>2
  <2>5. CASE ~(p[1] = i /\ q[1] = i)
    <3>1. f[p][1] = p[1] /\ f[q][1] = q[1]
      BY <2>3
    <3>. QED
      BY <1>6, <2>3, <2>5, <3>1
  <2>. QED
    BY <2>4, <2>5
<1>7. ASSUME NEW p \in Places(g, T)
      PROVE  \E q \in rest : f[q] = p
  <2>1. /\ p \in Instances \X Nat /\ p = <<p[1], p[2]>>
        /\ p[2] \in DOMAIN g[p[1]] /\ g[p[1]][p[2]] \in T
    BY DEF Places
  <2>2. CASE p[1] = i
    <3>1. /\ p[2] + 1 \in 2 .. Len(d[i]) /\ d[i][p[2] + 1] \in T /\ p[2] + 1 # 1
          /\ (p[2] + 1) - 1 = p[2]
      BY <1>2, <2>1, <2>2
    <3>2. <<i, p[2] + 1>> \in rest
      BY <1>2, <3>1 DEF Places
    <3>3. f[<<i, p[2] + 1>>] = p
      BY <2>1, <2>2, <3>1, <3>2
    <3>. QED
      BY <3>2, <3>3
  <2>3. CASE p[1] # i
    <3>1. p \in rest
      BY <1>3, <2>1, <2>3 DEF Places
    <3>2. f[p] = p
      BY <2>3, <3>1
    <3>. QED
      BY <3>1, <3>2
  <2>. QED
    BY <2>2, <2>3
<1>8. f = [p \in rest |-> f[p]]
  OBVIOUS
<1>9. IsFiniteSet(rest) /\ Cardinality(Places(d, T)) \in Nat
      /\ Cardinality(rest) = IF <<i, 1>> \in Places(d, T) THEN Cardinality(Places(d, T)) - 1
                                                             ELSE Cardinality(Places(d, T))
  BY FS_RemoveElement, FS_CardinalityType
<1>10. <<i, 1>> \in Places(d, T) <=> Head(d[i]) \in T
  BY <1>2 DEF Places
<1>. HIDE DEF rest, f
<1>11. f \in Bijection(rest, Places(g, T))
  <2>1. f \in [rest -> Places(g, T)]
    BY <1>5, <1>8
  <2>. QED
    BY <1>6, <1>7, <2>1, Fun_IsBij
<1>12. IsFiniteSet(Places(g, T)) /\ Cardinality(Places(g, T)) = Cardinality(rest)
  BY <1>9, <1>11, FS_Bijection DEF ExistsBijection
<1>. QED
  BY <1>9, <1>10, <1>12 DEF One

(***************************************************************************)
(* The counters against the waiting decreases.                             *)
(***************************************************************************)
Of(k) == {d \in DueRecords : d.key = k}
Number(i, k) == Cardinality(At(decr[i], Of(k)))
Waiting(k) == Places(decr, Of(k))
Total(k) == Cardinality(Waiting(k))

\* What has been counted in a run is what the last loop looks at.
SeenLater ==
    \A i \in Instances : timer[i].at \in {"due", "decr", "ran"} =>
        \A k \in Keys : timer[i].seen[k].n = 0

\* The first loop leaves no decrease that is due behind.
FreshBehind ==
    \A i \in Instances : timer[i].at \in {"decr", "incr", "look", "bans"} =>
        \A j \in DOMAIN decr[i] : decr[i][j].left < 0 => timer[i].at = "decr" /\ j <= timer[i].left

\* The inductive invariant of the counters.
CountsCovered ==
    ~useRedis /\ faults = 0 =>
        \A i \in Instances, k \in Keys : count[i][k].n <= Number(i, k)
SeenCovered ==
    ~useRedis /\ faults = 0 =>
        \A i \in Instances, k \in Keys : timer[i].seen[k].n <= Number(i, k)
SharedCovered ==
    \A k \in Keys : IsFiniteSet(Waiting(k)) /\ (useRedis /\ faults = 0 => shared[k].n <= Total(k))
Covered == CountsCovered /\ SeenCovered /\ SharedCovered /\ SeenLater /\ FreshBehind

\* The numbers of the properties, and their types.
LEMMA Numbers ==
    ASSUME Counting
    PROVE  /\ \A i \in Instances, k \in Keys : Number(i, k) \in Nat /\ Pending(i, k) = Number(i, k)
           /\ \A k \in Keys :
                 /\ IsFiniteSet(Waiting(k)) => Total(k) \in Nat
                 /\ UNION {{<<i, j>> : j \in {d \in DOMAIN decr[i] : decr[i][d].key = k}}
                              : i \in Instances} = Waiting(k)
<1>1. ASSUME NEW i \in Instances, NEW k \in Keys
      PROVE  Number(i, k) \in Nat /\ Pending(i, k) = Number(i, k)
  <2>1. decr[i] \in Seq(DueRecords)
    BY DEF Counting
  <2>2. {j \in DOMAIN decr[i] : decr[i][j].key = k} = At(decr[i], Of(k))
    BY <2>1 DEF At, Of
  <2>. QED
    BY <2>1, <2>2, AtFinite DEF Number, Pending
<1>2. ASSUME NEW k \in Keys
      PROVE  UNION {{<<i, j>> : j \in {d \in DOMAIN decr[i] : decr[i][d].key = k}}
                              : i \in Instances} = Waiting(k)
  <2>1. \A i \in Instances : decr[i] \in Seq(DueRecords)
    BY DEF Counting
  <2>2. \A i \in Instances : \A j \in DOMAIN decr[i] : j \in Nat /\ decr[i][j] \in DueRecords
    BY <2>1
  <2>. QED
    BY <2>2 DEF Waiting, Places, Of
<1>3. ASSUME NEW k \in Keys, IsFiniteSet(Waiting(k)) PROVE Total(k) \in Nat
  BY <1>3, FS_CardinalityType DEF Total
<1>. QED
  BY <1>1, <1>2, <1>3

\* A counted request leaves one decrease more.
LEMMA ListGrows ==
    ASSUME Counting, Covered, NEW i \in Instances, NEW e \in DueRecords,
           decr' = [decr EXCEPT ![i] = Append(@, e)]
    PROVE  /\ \A h \in Instances, k \in Keys :
                 Number(h, k)' = Number(h, k) + IF h = i /\ k = e.key THEN 1 ELSE 0
           /\ \A k \in Keys : IsFiniteSet(Waiting(k)')
                              /\ Total(k)' = Total(k) + IF k = e.key THEN 1 ELSE 0
<1>1. decr \in [Instances -> Seq(DueRecords)]
  BY DEF Counting
<1>2. \A k \in Keys : One(e, Of(k)) = IF k = e.key THEN 1 ELSE 0
  BY DEF One, Of
<1>3. ASSUME NEW h \in Instances, NEW k \in Keys
      PROVE  Number(h, k)' = Number(h, k) + IF h = i /\ k = e.key THEN 1 ELSE 0
  <2>1. CASE h = i
    <3>1. decr[i] \in Seq(DueRecords) /\ decr'[h] = Append(decr[i], e)
      BY <1>1, <2>1
    <3>2. Cardinality(At(Append(decr[i], e), Of(k))) =
              Cardinality(At(decr[i], Of(k))) + One(e, Of(k))
      BY <3>1, AtAppend
    <3>. QED
      BY <1>2, <2>1, <3>1, <3>2 DEF Number
  <2>2. CASE h # i
    <3>1. decr'[h] = decr[h] /\ Number(h, k) \in Nat
      BY <1>1, <2>2, Numbers
    <3>. QED
      BY <2>2, <3>1 DEF Number
  <2>. QED
    BY <2>1, <2>2
<1>4. ASSUME NEW k \in Keys
      PROVE  IsFiniteSet(Waiting(k)') /\ Total(k)' = Total(k) + IF k = e.key THEN 1 ELSE 0
  <2>1. IsFiniteSet(Places(decr, Of(k)))
    BY DEF Covered, SharedCovered, Waiting
  <2>2. /\ IsFiniteSet(Places(decr', Of(k)))
        /\ Cardinality(Places(decr', Of(k))) =
              Cardinality(Places(decr, Of(k))) + One(e, Of(k))
    BY <1>1, <2>1, PlacesAppend
  <2>. QED
    BY <1>2, <2>2 DEF Waiting, Total
<1>. QED
  BY <1>3, <1>4

\* A decrease that is taken off the list is one less.
LEMMA ListShrinks ==
    ASSUME Counting, Covered, NEW i \in Instances, decr[i] # <<>>,
           decr' = [decr EXCEPT ![i] = Tail(@)]
    PROVE  /\ \A h \in Instances, k \in Keys :
                 Number(h, k)' = Number(h, k) - IF h = i /\ k = Head(decr[i]).key THEN 1 ELSE 0
           /\ \A k \in Keys : IsFiniteSet(Waiting(k)')
                              /\ Total(k)' = Total(k) - IF k = Head(decr[i]).key THEN 1 ELSE 0
<1>. DEFINE e == Head(decr[i])
<1>1. decr \in [Instances -> Seq(DueRecords)] /\ decr[i] \in Seq(DueRecords)
  BY DEF Counting
<1>2. e \in DueRecords
  BY <1>1
<1>. HIDE DEF e
<1>3. \A k \in Keys : One(e, Of(k)) = IF k = e.key THEN 1 ELSE 0
  BY <1>2 DEF One, Of
<1>4. ASSUME NEW h \in Instances, NEW k \in Keys
      PROVE  Number(h, k)' = Number(h, k) - IF h = i /\ k = e.key THEN 1 ELSE 0
  <2>1. CASE h = i
    <3>1. decr'[h] = Tail(decr[i])
      BY <1>1, <2>1
    <3>2. Cardinality(At(Tail(decr[i]), Of(k))) = Cardinality(At(decr[i], Of(k))) - One(e, Of(k))
      BY <1>1, AtTail DEF e
    <3>. QED
      BY <1>3, <2>1, <3>1, <3>2 DEF Number
  <2>2. CASE h # i
    <3>1. decr'[h] = decr[h] /\ Number(h, k) \in Nat
      BY <1>1, <2>2, Numbers
    <3>. QED
      BY <2>2, <3>1 DEF Number
  <2>. QED
    BY <2>1, <2>2
<1>5. ASSUME NEW k \in Keys
      PROVE  IsFiniteSet(Waiting(k)') /\ Total(k)' = Total(k) - IF k = e.key THEN 1 ELSE 0
  <2>1. IsFiniteSet(Places(decr, Of(k)))
    BY DEF Covered, SharedCovered, Waiting
  <2>2. /\ IsFiniteSet(Places(decr', Of(k)))
        /\ Cardinality(Places(decr', Of(k))) =
              Cardinality(Places(decr, Of(k))) - One(e, Of(k))
    BY <1>1, <2>1, PlacesTail DEF e
  <2>. QED
    BY <1>3, <2>2 DEF Waiting, Total
<1>. QED
  BY <1>4, <1>5 DEF e

\* A decrease that is put back at the end changes no number.
LEMMA ListTurns ==
    ASSUME Counting, Covered, NEW i \in Instances, decr[i] # <<>>,
           decr' = [decr EXCEPT ![i] = Append(Tail(@), Head(decr[i]))]
    PROVE  /\ \A h \in Instances, k \in Keys : Number(h, k)' = Number(h, k)
           /\ \A k \in Keys : IsFiniteSet(Waiting(k)') /\ Total(k)' = Total(k)
<1>. DEFINE e == Head(decr[i])
<1>. PICK less : less = [decr EXCEPT ![i] = Tail(@)]
  OBVIOUS
<1>1. decr \in [Instances -> Seq(DueRecords)] /\ decr[i] \in Seq(DueRecords)
  BY DEF Counting
<1>2. e \in DueRecords /\ Tail(decr[i]) \in Seq(DueRecords)
  BY <1>1
<1>3. less \in [Instances -> Seq(DueRecords)] /\ less[i] = Tail(decr[i])
  BY <1>1, <1>2
<1>4. decr' = [less EXCEPT ![i] = Append(@, e)]
  BY <1>1, <1>3
<1>5. ASSUME NEW h \in Instances, NEW k \in Keys
      PROVE  Number(h, k)' = Number(h, k)
  <2>1. CASE h = i
    <3>1. decr'[h] = Append(Tail(decr[i]), e)
      BY <1>1, <2>1
    <3>. HIDE DEF e
    <3>2. Cardinality(At(Tail(decr[i]), Of(k))) = Cardinality(At(decr[i], Of(k))) - One(e, Of(k))
      BY <1>1, AtTail DEF e
    <3>3. Cardinality(At(decr'[h], Of(k))) = Cardinality(At(Tail(decr[i]), Of(k))) + One(e, Of(k))
      BY <1>2, <3>1, AtAppend
    <3>4. Number(h, k) \in Nat
      BY Numbers
    <3>. QED
      BY <2>1, <3>2, <3>3, <3>4 DEF Number, One
  <2>2. CASE h # i
    <3>1. decr'[h] = decr[h]
      BY <1>1, <2>2
    <3>. QED
      BY <3>1 DEF Number
  <2>. QED
    BY <2>1, <2>2
<1>6. ASSUME NEW k \in Keys
      PROVE  IsFiniteSet(Waiting(k)') /\ Total(k)' = Total(k)
  <2>1. IsFiniteSet(Places(decr, Of(k))) /\ Total(k) \in Nat
    BY Numbers DEF Covered, SharedCovered, Waiting
  <2>2. /\ IsFiniteSet(Places(less, Of(k)))
        /\ Cardinality(Places(less, Of(k))) =
              Cardinality(Places(decr, Of(k))) - One(e, Of(k))
    BY <1>1, <2>1, PlacesTail
  <2>. HIDE DEF e
  <2>. e \in DueRecords /\ less \in [Instances -> Seq(DueRecords)]
    BY <1>2, <1>3
  <2>3. /\ IsFiniteSet(Places(decr', Of(k)))
        /\ Cardinality(Places(decr', Of(k))) =
              Cardinality(Places(less, Of(k))) + One(e, Of(k))
    BY <1>4, <2>2, PlacesAppend
  <2>. QED
    BY <2>1, <2>2, <2>3 DEF Waiting, Total, One
<1>. QED
  BY <1>5, <1>6

\* Nor does it change one that the waiting decreases get older.
LEMMA ListsAge ==
    ASSUME Counting, Tick
    PROVE  \A k \in Keys : /\ Waiting(k)' = Waiting(k)
                            /\ \A i \in Instances : Number(i, k)' = Number(i, k)
<1>1. decr \in [Instances -> Seq(DueRecords)] /\ decr' \in [Instances -> Seq(DueRecords)]
  BY TickCounting DEF Counting
<1>2. ASSUME NEW i \in Instances
      PROVE  /\ DOMAIN decr'[i] = DOMAIN decr[i]
             /\ \A j \in DOMAIN decr[i] : decr'[i][j].key = decr[i][j].key
                                          /\ decr'[i][j] \in DueRecords /\ decr[i][j] \in DueRecords
  <2>1. /\ DOMAIN decr'[i] = DOMAIN decr[i]
        /\ \A j \in DOMAIN decr[i] :
              decr'[i][j] = [decr[i][j] EXCEPT !.left = IF @ < 0 THEN @ ELSE @ - 1]
    BY DEF Tick
  <2>2. \A j \in DOMAIN decr[i] : decr[i][j] \in DueRecords /\ decr'[i][j] \in DueRecords
    BY <1>1, <2>1
  <2>. QED
    BY <2>1, <2>2 DEF DueRecords
<1>3. ASSUME NEW k \in Keys, NEW i \in Instances PROVE Number(i, k)' = Number(i, k)
  <2>1. At(decr'[i], Of(k)) = At(decr[i], Of(k))
    BY <1>2 DEF At, Of
  <2>. QED
    BY <2>1 DEF Number
<1>4. ASSUME NEW k \in Keys PROVE Waiting(k)' = Waiting(k)
  BY <1>2 DEF Waiting, Places, Of
<1>. QED
  BY <1>3, <1>4

\* Failures are only added, and whether it is used is settled.
LEMMA FaultsGrow ==
    ASSUME TypeOK, [Next]_bansVars
    PROVE  UNCHANGED useRedis /\ (faults' = 0 => faults = 0)
<1>1. faults \in Nat
  BY DEF TypeOK
<1>2. CASE UNCHANGED bansVars
  BY <1>2 DEF bansVars
<1>3. CASE Next
  <2>1. UNCHANGED useRedis /\ (RedisAnswers \/ RedisFails)
    BY <1>3 DEF Next, Lookup, LookLocal, AskRedis, CacheBan, AddBan, SetRedis, RemoveBan,
                Called, DeleteRedis, Taken, Scripted, OtherCall, Age, AnyCall, RedisAnswers,
                Answered
  <2>. QED
    BY <1>1, <2>1 DEF RedisAnswers, RedisFails
<1>. QED
  BY <1>2, <1>3

\* Steps of the requests, the API and the calls.
LEMMA OtherCovered ==
    ASSUME Counting, Covered, UNCHANGED <<useRedis, decr, count, shared, timer>>,
           faults' = 0 => faults = 0
    PROVE  Covered'
BY DEF Covered, CountsCovered, SeenCovered, SharedCovered, SeenLater, FreshBehind, Number,
       Waiting, Total

\* Steps of the timer that leave the lists and the counters.
LEMMA MoveCovered ==
    ASSUME Counting, Covered, NEW i \in Instances, NEW r \in TimerRecords,
           UNCHANGED <<useRedis, decr, count, shared>>,
           faults' = 0 => faults = 0,
           timer' = [timer EXCEPT ![i] = r],
           \A k \in Keys : r.seen[k].n \in {0, timer[i].seen[k].n},
           r.at \in {"due", "decr", "ran"} => \A k \in Keys : r.seen[k].n = 0,
           r.at \in {"decr", "incr", "look", "bans"} =>
               \A j \in DOMAIN decr[i] : decr[i][j].left < 0 => r.at = "decr" /\ j <= r.left
    PROVE  Covered'
<1>1. timer'[i] = r /\ \A h \in Instances \ {i} : timer'[h] = timer[h]
  BY DEF Counting
<1>2. CountsCovered' /\ SharedCovered'
  BY DEF Covered, CountsCovered, SharedCovered, Number, Waiting, Total
<1>3. SeenCovered'
  <2>. SUFFICES ASSUME ~useRedis, faults' = 0, NEW h \in Instances, NEW k \in Keys
                PROVE  timer'[h].seen[k].n <= Number(h, k)'
    BY DEF SeenCovered
  <2>1. Number(h, k)' = Number(h, k) /\ Number(h, k) \in Nat
    BY Numbers DEF Number
  <2>2. timer[h].seen[k].n <= Number(h, k)
    BY DEF Covered, SeenCovered
  <2>3. timer'[h].seen[k].n \in {0, timer[h].seen[k].n}
    BY <1>1
  <2>. QED
    BY <2>1, <2>2, <2>3
<1>4. SeenLater'
  BY <1>1 DEF Covered, SeenLater
<1>5. FreshBehind'
  BY <1>1 DEF Covered, FreshBehind
<1>. QED
  BY <1>2, <1>3, <1>4, <1>5 DEF Covered

\* Starting the timer: nothing is popped yet.
LEMMA StartCovered ==
    ASSUME Counting, Covered, NEW i \in Instances, TimerStart(i)
    PROVE  Covered'
<1>. DEFINE step == Loop(i, "decr", Len(decr[i]))
            r == [timer[i] EXCEPT !.at = step.at, !.left = step.left]
<1>1. /\ UNCHANGED <<useRedis, faults, decr, count, shared>> /\ timer[i].at = "due"
      /\ timer' = [timer EXCEPT ![i] = r] /\ timer[i] \in TimerRecords
  BY DEF TimerStart, Moves, Counting, TimerRecords, bansVars
<1>2. Len(decr[i]) \in Nat /\ DOMAIN decr[i] = 1 .. Len(decr[i])
  BY DEF Counting
<1>3. /\ step.at \in Phases /\ step.left \in Nat /\ step.at \in {"decr", "incr", "bans"}
      /\ step.at = "decr" => step.left = Len(decr[i])
      /\ step.at # "decr" => Len(decr[i]) = 0
  BY <1>2, LoopBounds DEF Loop
<1>. HIDE DEF step
<1>4. r \in TimerRecords /\ r.at = step.at /\ r.left = step.left /\ r.seen = timer[i].seen
  BY <1>1, <1>3 DEF TimerRecords
<1>5. \A k \in Keys : timer[i].seen[k].n = 0
  BY <1>1 DEF Covered, SeenLater
<1>. HIDE DEF r
<1>6. \A j \in DOMAIN decr[i] : decr[i][j].left < 0 => r.at = "decr" /\ j <= r.left
  BY <1>2, <1>3, <1>4
<1>. QED
  BY <1>1, <1>4, <1>5, <1>6, MoveCovered

\* A request that is popped and not counted changes no counter.
LEMMA PopCovered ==
    ASSUME Counting, Covered, NEW i \in Instances, TimerIncr(i) \/ TimerSkip(i),
           UNCHANGED useRedis, faults' = 0 => faults = 0
    PROVE  Covered'
<1>1. timer[i] \in TimerRecords /\ timer[i].at \in {"incr", "look"}
      /\ UNCHANGED <<decr, count, shared>>
  BY DEF TimerIncr, TimerSkip, Counting
<1>2. \A j \in DOMAIN decr[i] : ~(decr[i][j].left < 0)
  BY <1>1 DEF Covered, FreshBehind
<1>3. PICK r \in TimerRecords :
          /\ timer' = [timer EXCEPT ![i] = r]
          /\ r.at \in {"incr", "look", "bans"}
          /\ r.seen = timer[i].seen
  <2>1. CASE TimerIncr(i)
    <3>. DEFINE r == [timer[i] EXCEPT !.at = "look", !.of = Head(incr[i])]
    <3>1. Head(incr[i]) \in Keys
      <4>1. incr[i] \in Seq(Keys) /\ timer[i].left \in 1 .. Len(incr[i])
        BY <2>1 DEF TimerIncr, Counting, LoopsInBounds
      <4>. QED
        BY <4>1
    <3>2. timer' = [timer EXCEPT ![i] = r]
      BY <1>1, <2>1 DEF TimerIncr, Counting, TimerRecords
    <3>3. r \in TimerRecords /\ r.at = "look" /\ r.seen = timer[i].seen
      BY <1>1, <3>1 DEF TimerRecords, Phases
    <3>. QED
      BY <3>2, <3>3
  <2>2. CASE TimerSkip(i)
    <3>. DEFINE step == Loop(i, "incr", timer[i].left - 1)
                r == [timer[i] EXCEPT !.at = step.at, !.left = step.left]
    <3>1. timer[i].left - 1 \in Nat
      BY <2>2 DEF TimerSkip, Counting, LoopsInBounds
    <3>2. step.at \in Phases /\ step.at \in {"incr", "bans"} /\ step.left \in Nat
      BY <3>1, LoopBounds
    <3>3. timer' = [timer EXCEPT ![i] = r]
      BY <1>1, <2>2 DEF TimerSkip, Moves, Counting, TimerRecords
    <3>. HIDE DEF step
    <3>4. r \in TimerRecords /\ r.at = step.at /\ r.seen = timer[i].seen
      BY <1>1, <3>2 DEF TimerRecords
    <3>. QED
      BY <3>2, <3>3, <3>4
  <2>. QED
    BY <2>1, <2>2
<1>. QED
  BY <1>1, <1>2, <1>3, MoveCovered

\* Banning what was seen changes no counter.
LEMMA BanCovered ==
    ASSUME Counting, Covered, NEW i \in Instances,
           (\E k \in Keys : TimerBan(i, k)) \/ TimerEnd(i),
           UNCHANGED useRedis, faults' = 0 => faults = 0
    PROVE  Covered'
<1>1. timer[i] \in TimerRecords /\ timer[i].at = "bans" /\ UNCHANGED <<decr, count, shared>>
  BY DEF TimerBan, TimerEnd, Counting
<1>2. \A j \in DOMAIN decr[i] : ~(decr[i][j].left < 0)
  BY <1>1 DEF Covered, FreshBehind
<1>3. ASSUME NEW k \in Keys, TimerBan(i, k)
      PROVE  Covered'
  <2>. DEFINE c == [timer[i].seen[k] EXCEPT !.n = 0]
              r == [timer[i] EXCEPT !.seen = [timer[i].seen EXCEPT ![k] = c]]
  <2>1. timer' = [timer EXCEPT ![i] = r]
    BY <1>1, <1>3 DEF TimerBan, Counting, TimerRecords
  <2>2. c \in [n : Nat, of : Keys] /\ c.n = 0
    BY <1>1 DEF TimerRecords
  <2>. HIDE DEF c
  <2>3. /\ r \in TimerRecords /\ r.at = "bans"
        /\ \A j \in Keys : r.seen[j] = IF j = k THEN c ELSE timer[i].seen[j]
    BY <1>1, <2>2 DEF TimerRecords
  <2>. HIDE DEF r
  <2>. QED
    BY <1>1, <1>2, <2>1, <2>2, <2>3, MoveCovered
<1>4. CASE TimerEnd(i)
  <2>. DEFINE r == [Stopped EXCEPT !.at = "ran"]
  <2>1. r \in TimerRecords /\ r.at = "ran" /\ \A k \in Keys : r.seen[k].n = 0
    BY StoppedType DEF Stopped
  <2>2. timer' = [timer EXCEPT ![i] = r]
    BY <1>4 DEF TimerEnd
  <2>. HIDE DEF r
  <2>. QED
    BY <1>1, <2>1, <2>2, MoveCovered
<1>. QED
  BY <1>3, <1>4

\* Taking a number down.
LEMMA DownBounds ==
    ASSUME NEW c \in Counters
    PROVE  Down(c).n \in Nat /\ Down(c).n <= c.n /\ (c.n = 0 \/ Down(c).n = c.n - 1)
BY DEF Counters, Down, Zero, Counted

\* A decrease that is due is taken from the list and from the counter at once; one that is not
\* goes back.
LEMMA DecrCovered ==
    ASSUME Counting, Covered, NEW i \in Instances, TimerDecr(i), faults \in Nat
    PROVE  Covered'
<1>. DEFINE head == Head(decr[i])
            step == Loop(i, "decr", timer[i].left - 1)
            r == [timer[i] EXCEPT !.at = step.at, !.left = step.left]
<1>1. /\ timer[i].at = "decr" /\ timer[i].left \in 1 .. Len(decr[i])
      /\ decr[i] \in Seq(DueRecords) /\ Len(decr[i]) \in Nat /\ timer[i] \in TimerRecords
      /\ timer' = [timer EXCEPT ![i] = r] /\ UNCHANGED useRedis
  <2>1. /\ timer[i].at = "decr" /\ timer[i].left \in 1 .. Len(decr[i])
        /\ decr[i] \in Seq(DueRecords) /\ timer[i] \in TimerRecords /\ UNCHANGED useRedis
    BY DEF TimerDecr, Counting, LoopsInBounds
  <2>2. timer' = [timer EXCEPT ![i] = r]
    BY DEF TimerDecr, Moves, Counting, TimerRecords
  <2>. QED
    BY <2>1, <2>2
<1>2. head \in DueRecords /\ decr[i] # <<>> /\ head.key \in Keys
  <2>1. decr[i] # <<>> /\ head \in DueRecords
    BY <1>1
  <2>. QED
    BY <2>1 DEF DueRecords
<1>3. /\ step.at \in Phases /\ step.left \in Nat /\ step.at \in {"decr", "incr", "bans"}
      /\ step.at = "decr" => step.left = timer[i].left - 1
      /\ step.at # "decr" => timer[i].left = 1
  <2>1. timer[i].left - 1 \in Nat
    BY <1>1
  <2>. QED
    BY <1>1, <2>1, LoopBounds DEF Loop
<1>. HIDE DEF step
<1>4. /\ timer'[i].at = step.at /\ timer'[i].left = step.left /\ timer'[i].seen = timer[i].seen
      /\ \A h \in Instances \ {i} : timer'[h] = timer[h]
  BY <1>1, <1>3 DEF Counting, TimerRecords
<1>. HIDE DEF head, r
<1>5. \/ decr' = [decr EXCEPT ![i] = Tail(@)] /\ head.left < 0 /\ Decrease(i, head.key)
      \/ /\ decr' = [decr EXCEPT ![i] = Append(Tail(@), head)]
         /\ head.left >= 0 /\ UNCHANGED <<count, shared, faults>>
      \/ /\ decr' = [decr EXCEPT ![i] = Tail(@)]
         /\ UNCHANGED <<count, shared>> /\ faults' # 0
  BY DEF TimerDecr, NoMemory, head
<1>11. faults' = 0 => faults = 0
  BY <1>5 DEF Decrease, RedisAnswers, RedisFails, NoMemory
<1>6. SeenLater'
  BY <1>1, <1>4 DEF Covered, SeenLater
<1>7. FreshBehind'
  <2>. SUFFICES ASSUME NEW h \in Instances, timer'[h].at \in {"decr", "incr", "look", "bans"},
                       NEW j \in DOMAIN decr'[h], decr'[h][j].left < 0
                PROVE  timer'[h].at = "decr" /\ j <= timer'[h].left
    BY DEF FreshBehind
  <2>1. decr \in [Instances -> Seq(DueRecords)]
    BY DEF Counting
  <2>2. CASE h # i
    <3>1. decr'[h] = decr[h] /\ timer'[h] = timer[h]
      BY <1>4, <1>5, <2>1, <2>2
    <3>. QED
      BY <3>1 DEF Covered, FreshBehind
  <2>3. CASE h = i
    <3>1. decr'[i] = Tail(decr[i]) \/ (decr'[i] = Append(Tail(decr[i]), head) /\ head.left >= 0)
      BY <1>5, <2>1
    <3>2. /\ Tail(decr[i]) \in Seq(DueRecords) /\ Len(Tail(decr[i])) = Len(decr[i]) - 1
          /\ \A l \in 1 .. Len(decr[i]) - 1 : Tail(decr[i])[l] = decr[i][l + 1]
      BY <1>1, <1>2
    <3>3. /\ j \in 1 .. Len(decr[i]) - 1 /\ decr'[i][j] = decr[i][j + 1]
      <4>1. CASE decr'[i] = Tail(decr[i])
        BY <1>1, <2>3, <3>2, <4>1
      <4>2. CASE decr'[i] = Append(Tail(decr[i]), head) /\ head.left >= 0
        <5>1. /\ DOMAIN decr'[i] = 1 .. Len(decr[i])
              /\ decr'[i][Len(decr[i])] = head
              /\ \A l \in 1 .. Len(decr[i]) - 1 : decr'[i][l] = Tail(decr[i])[l]
          BY <1>1, <1>2, <3>2, <4>2
        <5>2. head.left \in Int
          BY <1>2, CountingAssumption DEF DueRecords
        <5>3. ~(head.left < 0)
          BY <4>2, <5>2
        <5>. QED
          BY <1>1, <2>3, <3>2, <5>1, <5>3
      <4>. QED
        BY <3>1, <4>1, <4>2
    <3>4. j + 1 \in DOMAIN decr[i] /\ decr[i][j + 1].left < 0
      BY <1>1, <2>3, <3>3
    <3>5. j + 1 <= timer[i].left
      BY <1>1, <3>4 DEF Covered, FreshBehind
    <3>. QED
      BY <1>1, <1>3, <1>4, <2>3, <3>3, <3>5
  <2>. QED
    BY <2>2, <2>3
<1>8. CASE decr' = [decr EXCEPT ![i] = Append(Tail(@), head)] /\ UNCHANGED <<count, shared, faults>>
  <2>1. /\ \A h \in Instances, k \in Keys : Number(h, k)' = Number(h, k)
        /\ \A k \in Keys : IsFiniteSet(Waiting(k)') /\ Total(k)' = Total(k)
    BY <1>2, <1>8, ListTurns DEF head
  <2>2. CountsCovered'
    BY <1>1, <1>8, <2>1 DEF Covered, CountsCovered
  <2>3. SharedCovered'
    BY <1>1, <1>8, <2>1 DEF Covered, SharedCovered
  <2>4. SeenCovered'
    <3>1. \A h \in Instances : timer'[h].seen = timer[h].seen
      BY <1>4
    <3>. QED
      BY <1>1, <1>11, <2>1, <3>1 DEF Covered, SeenCovered
  <2>. QED
    BY <1>6, <1>7, <2>2, <2>3, <2>4 DEF Covered
<1>9. CASE decr' = [decr EXCEPT ![i] = Tail(@)] /\ Decrease(i, head.key)
  <2>1. /\ \A h \in Instances, k \in Keys :
                 Number(h, k)' = Number(h, k) - IF h = i /\ k = head.key THEN 1 ELSE 0
        /\ \A k \in Keys : IsFiniteSet(Waiting(k)')
                              /\ Total(k)' = Total(k) - IF k = head.key THEN 1 ELSE 0
    BY <1>2, <1>9, ListShrinks DEF head
  <2>2. Counting'
    BY DecrCounting
  <2>3. /\ \A h \in Instances, k \in Keys : Number(h, k) \in Nat /\ Number(h, k)' \in Nat
        /\ \A k \in Keys : Total(k) \in Nat /\ Total(k)' \in Nat
    <3>1. ASSUME NEW h \in Instances, NEW k \in Keys
          PROVE  Number(h, k) \in Nat /\ Number(h, k)' \in Nat
      <4>1. decr[h] \in Seq(DueRecords) /\ decr'[h] \in Seq(DueRecords)
        BY <2>2 DEF Counting
      <4>. QED
        BY <4>1, AtFinite DEF Number
    <3>2. \A k \in Keys : Total(k) \in Nat
      BY Numbers DEF Covered, SharedCovered
    <3>3. \A k \in Keys : Total(k)' \in Nat
      BY <2>1, FS_CardinalityType DEF Total
    <3>. QED
      BY <3>1, <3>2, <3>3
  <2>4. CountsCovered'
    <3>. SUFFICES ASSUME ~useRedis, faults' = 0, NEW h \in Instances, NEW k \in Keys
                  PROVE  count'[h][k].n <= Number(h, k)'
      BY <1>1 DEF CountsCovered
    <3>1. count[h][k] \in Counters /\ count[h][k].n \in Nat /\ count[h][k].n <= Number(h, k)
      BY <1>11 DEF Covered, CountsCovered, Counting, Counters
    <3>2. count' = [count EXCEPT ![i][head.key] = Down(@)]
      BY <1>9 DEF Decrease, NoMemory
    <3>3. CASE h = i /\ k = head.key
      <4>1. count'[h][k] = Down(count[h][k])
        BY <3>2, <3>3 DEF Counting
      <4>. QED
        BY <2>1, <2>3, <3>1, <3>3, <4>1, DownBounds
    <3>4. CASE ~(h = i /\ k = head.key)
      <4>1. count'[h][k] = count[h][k]
        BY <1>2, <3>2, <3>4 DEF Counting
      <4>. QED
        BY <2>1, <2>3, <3>1, <3>4, <4>1
    <3>. QED
      BY <3>3, <3>4
  <2>5. SharedCovered'
    <3>. SUFFICES ASSUME useRedis, faults' = 0, NEW k \in Keys
                  PROVE  shared'[k].n <= Total(k)'
      BY <1>1, <2>1 DEF SharedCovered
    <3>1. faults = 0 /\ shared' = [shared EXCEPT ![head.key] = Down(@)]
      BY <1>9 DEF Decrease, RedisAnswers, RedisFails, NoMemory
    <3>2. shared[k] \in Counters /\ shared[k].n \in Nat /\ shared[k].n <= Total(k)
      BY <3>1 DEF Covered, SharedCovered, Counting, Counters
    <3>3. CASE k = head.key
      <4>1. shared'[k] = Down(shared[k])
        BY <3>1, <3>3 DEF Counting
      <4>. QED
        BY <2>1, <2>3, <3>2, <3>3, <4>1, DownBounds
    <3>4. CASE k # head.key
      <4>1. shared'[k] = shared[k]
        BY <3>1, <3>4 DEF Counting
      <4>. QED
        BY <2>1, <2>3, <3>2, <3>4, <4>1
    <3>. QED
      BY <3>3, <3>4
  <2>6. SeenCovered'
    <3>. SUFFICES ASSUME ~useRedis, faults' = 0, NEW h \in Instances, NEW k \in Keys
                  PROVE  timer'[h].seen[k].n <= Number(h, k)'
      BY <1>1 DEF SeenCovered
    <3>1. CASE h = i
      <4>1. timer'[h].seen[k].n = 0
        BY <1>1, <1>4, <3>1 DEF Covered, SeenLater
      <4>. QED
        BY <2>3, <4>1
    <3>2. CASE h # i
      BY <1>4, <1>11, <2>1, <2>3, <3>2 DEF Covered, SeenCovered
    <3>. QED
      BY <3>1, <3>2
  <2>. QED
    BY <1>6, <1>7, <2>4, <2>5, <2>6 DEF Covered
<1>10. CASE decr' = [decr EXCEPT ![i] = Tail(@)] /\ faults' # 0
  <2>1. \A k \in Keys : IsFiniteSet(Waiting(k)')
    BY <1>2, <1>10, ListShrinks
  <2>. QED
    BY <1>6, <1>7, <1>10, <2>1 DEF Covered, CountsCovered, SeenCovered, SharedCovered
<1>. QED
  BY <1>5, <1>8, <1>9, <1>10

\* Counting adds one to the counter and one to the list.
LEMMA CountCovered ==
    ASSUME Counting, Covered, NEW i \in Instances, TimerCount(i), faults \in Nat
    PROVE  Covered'
<1>. DEFINE s == timer[i].of
            k == KeyOf(s)
            e == DueIn(k)
            step == Loop(i, "incr", timer[i].left - 1)
<1>1. s \in Keys /\ k \in Keys /\ timer[i] \in TimerRecords /\ UNCHANGED useRedis
  BY KeysOf DEF TimerCount, Counting, TimerRecords
<1>2. PICK n \in {count[i][k].n + 1, shared[k].n + 1} :
          /\ Increase(i, k, n)
          /\ count' = [count EXCEPT ![i][k] = Counted(n)]
          /\ decr' = [decr EXCEPT ![i] = Append(@, e)]
          /\ timer' = [timer EXCEPT ![i].at = step.at, ![i].left = @ - 1,
                                    ![i].seen[k] = [n |-> n, of |-> s]]
  BY DEF TimerCount
<1>3. count[i][k] \in Counters /\ shared[k] \in Counters /\ n \in Nat
      /\ count[i][k].n \in Nat /\ shared[k].n \in Nat
  <2>1. count[i][k] \in Counters /\ shared[k] \in Counters
    BY <1>1 DEF Counting
  <2>. QED
    BY <2>1 DEF Counters
<1>4. e \in DueRecords /\ e.key = k /\ ~(e.left < 0)
  BY <1>1, CounterTypes, CountingAssumption DEF DueIn
<1>5. timer[i].at = "look" /\ step.at \in {"incr", "bans"}
  <2>1. timer[i].at = "look" /\ timer[i].left - 1 \in Nat
    BY DEF TimerCount, Counting, LoopsInBounds
  <2>. QED
    BY <2>1, LoopBounds
<1>. HIDE DEF e, k, s, step
<1>6. /\ timer'[i].at = step.at
      /\ \A j \in Keys : timer'[i].seen[j].n = IF j = k THEN n ELSE timer[i].seen[j].n
      /\ \A h \in Instances \ {i} : timer'[h] = timer[h]
  BY <1>1, <1>2 DEF Counting, TimerRecords
<1>7. /\ \A h \in Instances, j \in Keys :
             Number(h, j)' = Number(h, j) + IF h = i /\ j = k THEN 1 ELSE 0
      /\ \A j \in Keys : IsFiniteSet(Waiting(j)')
                         /\ Total(j)' = Total(j) + IF j = k THEN 1 ELSE 0
  <2>1. decr' = [decr EXCEPT ![i] = Append(@, e)]
    BY <1>2
  <2>2. /\ \A h \in Instances, j \in Keys :
               Number(h, j)' = Number(h, j) + IF h = i /\ j = e.key THEN 1 ELSE 0
        /\ \A j \in Keys : IsFiniteSet(Waiting(j)')
                           /\ Total(j)' = Total(j) + IF j = e.key THEN 1 ELSE 0
    BY <1>4, <2>1, ListGrows
  <2>. QED
    BY <1>4, <2>2
<1>8. /\ \A h \in Instances, j \in Keys : Number(h, j) \in Nat
      /\ \A j \in Keys : Total(j) \in Nat
  BY Numbers DEF Covered, SharedCovered
<1>9. ~useRedis => n = count[i][k].n + 1
  BY <1>2 DEF Increase
<1>15. faults' = 0 => faults = 0
  BY <1>2 DEF Increase, RedisAnswers, RedisFails
<1>10. SeenLater'
  BY <1>5, <1>6 DEF Covered, SeenLater
<1>11. FreshBehind'
  <2>. SUFFICES ASSUME NEW h \in Instances, timer'[h].at \in {"decr", "incr", "look", "bans"},
                       NEW j \in DOMAIN decr'[h], decr'[h][j].left < 0
                PROVE  timer'[h].at = "decr" /\ j <= timer'[h].left
    BY DEF FreshBehind
  <2>1. decr \in [Instances -> Seq(DueRecords)] /\ decr[i] \in Seq(DueRecords)
    BY DEF Counting
  <2>2. CASE h # i
    <3>1. decr'[h] = decr[h] /\ timer'[h] = timer[h]
      BY <1>2, <1>6, <2>1, <2>2
    <3>. QED
      BY <3>1 DEF Covered, FreshBehind
  <2>3. CASE h = i
    <3>1. decr'[i] = Append(decr[i], e)
      BY <1>2, <2>1
    <3>2. /\ DOMAIN decr'[i] = DOMAIN decr[i] \cup {Len(decr[i]) + 1}
          /\ decr'[i][Len(decr[i]) + 1] = e
          /\ \A l \in DOMAIN decr[i] : decr'[i][l] = decr[i][l]
      BY <1>4, <2>1, <3>1
    <3>3. j \in DOMAIN decr[i] /\ decr[i][j].left < 0
      BY <1>4, <2>3, <3>2
    <3>. QED
      BY <1>5, <3>3 DEF Covered, FreshBehind
  <2>. QED
    BY <2>2, <2>3
<1>12. CountsCovered'
  <2>. SUFFICES ASSUME ~useRedis, faults' = 0, NEW h \in Instances, NEW j \in Keys
                PROVE  count'[h][j].n <= Number(h, j)'
    BY <1>1 DEF CountsCovered
  <2>1. count[h][j].n \in Nat /\ count[h][j].n <= Number(h, j)
    BY <1>15 DEF Covered, CountsCovered, Counting, Counters
  <2>2. CASE h = i /\ j = k
    <3>1. count'[h][j] = Counted(n)
      BY <1>1, <1>2, <2>2 DEF Counting
    <3>2. count'[h][j].n = n
      BY <3>1 DEF Counted
    <3>. QED
      BY <1>7, <1>8, <1>9, <2>1, <2>2, <3>2
  <2>3. CASE ~(h = i /\ j = k)
    <3>1. count'[h][j] = count[h][j]
      BY <1>1, <1>2, <2>3 DEF Counting
    <3>. QED
      BY <1>7, <1>8, <2>1, <2>3, <3>1
  <2>. QED
    BY <2>2, <2>3
<1>13. SeenCovered'
  <2>. SUFFICES ASSUME ~useRedis, faults' = 0, NEW h \in Instances, NEW j \in Keys
                PROVE  timer'[h].seen[j].n <= Number(h, j)'
    BY <1>1 DEF SeenCovered
  <2>1. /\ timer[h].seen[j].n \in Nat /\ timer[h].seen[j].n <= Number(h, j)
        /\ count[i][k].n <= Number(i, k)
    BY <1>1, <1>15 DEF Covered, CountsCovered, SeenCovered, Counting, TimerRecords
  <2>2. CASE h = i /\ j = k
    BY <1>3, <1>6, <1>7, <1>8, <1>9, <2>1, <2>2
  <2>3. CASE ~(h = i /\ j = k)
    <3>1. timer'[h].seen[j].n = timer[h].seen[j].n
      BY <1>6, <2>3
    <3>. QED
      BY <1>7, <1>8, <2>1, <2>3, <3>1
  <2>. QED
    BY <2>2, <2>3
<1>14. SharedCovered'
  <2>. SUFFICES ASSUME useRedis, faults' = 0, NEW j \in Keys
                PROVE  shared'[j].n <= Total(j)'
    BY <1>1, <1>7 DEF SharedCovered
  <2>1. faults = 0 /\ n = shared[k].n + 1 /\ shared' = [shared EXCEPT ![k] = Counted(n)]
    BY <1>2 DEF Increase, Script, RedisAnswers, RedisFails
  <2>2. shared[j].n \in Nat /\ shared[j].n <= Total(j)
    BY <2>1 DEF Covered, SharedCovered, Counting, Counters
  <2>3. shared'[j].n = IF j = k THEN n ELSE shared[j].n
    BY <1>1, <2>1 DEF Counting, Counted
  <2>. QED
    BY <1>3, <1>7, <1>8, <2>1, <2>2, <2>3
<1>. QED
  BY <1>10, <1>11, <1>12, <1>13, <1>14 DEF Covered

\* With a full dictionary nothing is claimed any more but of the lists.
LEMMA FullCovered ==
    ASSUME Counting, Covered, NEW i \in Instances, TimerCountFull(i), faults \in Nat
    PROVE  Covered'
<1>1. /\ faults' # 0 /\ UNCHANGED decr /\ timer[i].at = "look"
      /\ timer[i] \in TimerRecords /\ timer[i].left - 1 \in Nat
  BY DEF TimerCountFull, NoMemory, Counting, LoopsInBounds
<1>2. /\ timer'[i].at \in {"incr", "bans"}
      /\ \A h \in Instances \ {i} : timer'[h] = timer[h]
  <2>1. Loop(i, "incr", timer[i].left - 1).at \in {"incr", "bans"}
    BY <1>1, LoopBounds
  <2>. QED
    BY <1>1, <2>1 DEF TimerCountFull, Moves, Counting, TimerRecords
<1>3. CountsCovered' /\ SeenCovered' /\ SharedCovered'
  BY <1>1 DEF Covered, CountsCovered, SeenCovered, SharedCovered, Waiting
<1>4. SeenLater'
  BY <1>2 DEF Covered, SeenLater
<1>5. FreshBehind'
  BY <1>1, <1>2 DEF Covered, FreshBehind
<1>. QED
  BY <1>3, <1>4, <1>5 DEF Covered

\* Time passes: a counter expires or stays, and so does what is waiting.
LEMMA TickCovered ==
    ASSUME Counting, Covered, Tick
    PROVE  Covered'
<1>1. /\ \A k \in Keys : Waiting(k)' = Waiting(k) /\ Total(k)' = Total(k)
      /\ \A i \in Instances, k \in Keys : Number(i, k)' = Number(i, k) /\ Number(i, k) \in Nat
  BY ListsAge, Numbers DEF Total
<1>2. UNCHANGED <<useRedis, faults>>
  BY DEF Tick, Age
<1>3. \A c \in Counters : Expired(c).n \in {0, c.n} /\ c.n \in Nat
  BY DEF Expired, Zero, Counters
<1>4. CountsCovered'
  <2>. SUFFICES ASSUME ~useRedis, faults' = 0, NEW i \in Instances, NEW k \in Keys
                PROVE  count'[i][k].n <= Number(i, k)'
    BY <1>2 DEF CountsCovered
  <2>1. count'[i][k].n \in {0, count[i][k].n}
    BY <1>3 DEF Tick, Counting
  <2>. QED
    BY <1>1, <1>2, <2>1 DEF Covered, CountsCovered
<1>5. SharedCovered'
  <2>. SUFFICES ASSUME NEW k \in Keys
                PROVE  /\ IsFiniteSet(Waiting(k)')
                       /\ useRedis' /\ faults' = 0 => shared'[k].n <= Total(k)'
    BY DEF SharedCovered
  <2>1. IsFiniteSet(Waiting(k)) /\ Total(k) \in Nat
    BY Numbers DEF Covered, SharedCovered
  <2>2. shared'[k].n \in {0, shared[k].n}
    BY <1>3 DEF Tick, Counting
  <2>. QED
    BY <1>1, <1>2, <2>1, <2>2 DEF Covered, SharedCovered
<1>6. \A i \in Instances : timer'[i].at = "due" /\ \A k \in Keys : timer'[i].seen[k].n = 0
  BY DEF Tick, Stopped
<1>7. SeenCovered' /\ SeenLater' /\ FreshBehind'
  BY <1>1, <1>2, <1>6 DEF SeenCovered, SeenLater, FreshBehind
<1>. QED
  BY <1>4, <1>5, <1>7 DEF Covered

\* No counter and no decrease at the start.
LEMMA InitCovered ==
    ASSUME CountInit
    PROVE  Covered
<1>1. \A i \in Instances, k \in Keys :
          /\ count[i][k].n = 0 /\ timer[i].seen[k].n = 0 /\ shared[k].n = 0
          /\ timer[i].at = "due"
  BY DEF CountInit, Zero, Stopped
<1>2. \A i \in Instances, k \in Keys : Number(i, k) \in Nat
  BY CountInitInv, CInvParts, Numbers
<1>3. ASSUME NEW k \in Keys
      PROVE  IsFiniteSet(Waiting(k)) /\ Total(k) = 0
  <2>1. \A i \in Instances : decr[i] = <<>> /\ DOMAIN decr[i] = {}
    BY DEF CountInit
  <2>2. Waiting(k) = {}
    BY <2>1 DEF Waiting, Places
  <2>. QED
    BY <2>2, FS_EmptySet DEF Total
<1>4. SharedCovered
  BY <1>1, <1>3 DEF SharedCovered, CountInit, Zero
<1>5. SeenLater
  BY <1>1 DEF SeenLater
<1>6. FreshBehind
  BY DEF CountInit, FreshBehind
<1>. QED
  BY <1>1, <1>2, <1>4, <1>5, <1>6 DEF Covered, CountsCovered, SeenCovered

\* Every step keeps the counters covered.
LEMMA NextCovered ==
    ASSUME IInv, CInv, Covered, [CountNext]_vars
    PROVE  Covered'
<1>1. TypeOK /\ Counting /\ faults \in Nat
  BY CInvParts DEF IInv, TypeOK
<1>2. UNCHANGED useRedis /\ (faults' = 0 => faults = 0)
  BY <1>1, StepIsBans, FaultsGrow
<1>3. ASSUME NEW i \in Instances, Access(i) \/ Log(i) \/ Order(i)
      PROVE  Covered'
  BY <1>1, <1>2, <1>3, OtherCovered DEF Access, Log, Order, countVars
<1>4. ASSUME NEW i \in Instances, TimerStep(i)
      PROVE  Covered'
  BY <1>1, <1>2, <1>4, StartCovered, DecrCovered, PopCovered, CountCovered, FullCovered, BanCovered
  DEF TimerStep
<1>5. ASSUME (\E h \in Handlers : CallStep(h)) \/ UNCHANGED vars
      PROVE  Covered'
  BY <1>1, <1>2, <1>5, OtherCovered DEF CallStep, countVars, vars
<1>6. ASSUME Tick PROVE Covered'
  BY <1>1, <1>6, TickCovered
<1>. QED
  BY <1>3, <1>4, <1>5, <1>6 DEF CountNext

\* The counters, the lists and what the last loop has seen, in every state.
LEMMA CoveredHolds == CountSpec => [](CInv /\ Covered)
<1>1. CountInit => IInv /\ CInv /\ Covered
  BY CountInitInv, InitCovered
<1>2. IInv /\ CInv /\ Covered /\ [CountNext]_vars => IInv' /\ CInv' /\ Covered'
  BY CountNextInv, NextCovered
<1>. QED
  BY <1>1, <1>2, PTL DEF CountSpec

\* A counter never runs ahead of the requests still to be taken back: for every
\* number of instances, services and requests, whatever the timers, the expiry of
\* the counters and the time that passes do in between (badbehavior.lua:155).
THEOREM NeverOvercounts == CountSpec => []NoOvercount
<1>1. CInv /\ Covered => NoOvercount
  <2>. SUFFICES ASSUME CInv, Covered PROVE NoOvercount
    OBVIOUS
  <2>1. Counting
    BY CInvParts
  <2>. QED
    BY <2>1, Numbers DEF Covered, CountsCovered, SharedCovered, NoOvercount, Total
<1>. QED
  BY <1>1, CoveredHolds, PTL

\* No ban without the requests to justify it: what the timer compares with the
\* threshold (badbehavior.lua:278) is covered by requests of the last CountTime,
\* since the first loop has taken back everything older.
THEOREM BansAreJustified == CountSpec => []BansJustified
<1>1. CInv /\ Covered => BansJustified
  <2>. SUFFICES ASSUME CInv, Covered, ~useRedis, faults = 0, NEW i \in Instances, NEW k \in Keys,
                       timer[i].at = "bans"
                PROVE  timer[i].seen[k].n <=
                           Cardinality({j \in DOMAIN decr[i] :
                                           decr[i][j].key = k /\ decr[i][j].left >= 0})
    BY DEF BansJustified
  <2>1. Counting
    BY CInvParts
  <2>2. timer[i].seen[k].n <= Pending(i, k)
    BY <2>1, Numbers DEF Covered, SeenCovered
  <2>3. \A j \in DOMAIN decr[i] : decr[i][j].left >= 0
    <3>1. \A j \in DOMAIN decr[i] : ~(decr[i][j].left < 0)
      BY DEF Covered, FreshBehind
    <3>2. \A j \in DOMAIN decr[i] : decr[i][j] \in DueRecords
      BY <2>1 DEF Counting
    <3>. QED
      BY <3>1, <3>2, CountingAssumption DEF DueRecords
  <2>4. {j \in DOMAIN decr[i] : decr[i][j].key = k /\ decr[i][j].left >= 0}
           = {j \in DOMAIN decr[i] : decr[i][j].key = k}
    BY <2>3
  <2>. QED
    BY <2>2, <2>4 DEF Pending
<1>. QED
  BY <1>1, CoveredHolds, PTL
=============================================================================
