-------------------------------- MODULE Limit --------------------------------
(***************************************************************************)
(* Request limiting (common/core/limit/limit.lua, access phase).  A        *)
(* service may have a rate for all its requests, counted in windows of the *)
(* clock; then every client has one per URI, kept as a list of the seconds *)
(* of its last requests.  Both are in Redis, or in the dictionary that the *)
(* workers of an instance share when Redis is not used or fails.  A list   *)
(* is the set of its entries, which the code never compares by their       *)
(* order: a request has at most one of each store.                         *)
(*                                                                         *)
(* One client and one URI of one service; both rates are per Delay         *)
(* seconds.  The clock is finer than the seconds the code sees.  A script  *)
(* of Redis is atomic; a worker yields only when it calls Redis; between   *)
(* the reading and the writing of the dictionary other workers may run.    *)
(* Time passes between requests only: a request takes none that the clock  *)
(* shows.  What the dictionary drops for want of room is left out.         *)
(***************************************************************************)
EXTENDS Naturals, FiniteSets

CONSTANTS
    Requests,     \* requests of the client
    Workers,      \* worker processes
    RateMax,      \* rate_max of the URI
    GlobalMax,    \* rate_max of the service
    Delay,        \* seconds of "s", "m", "h" or "d"
    Fine,         \* ticks of the clock per second
    MaxClock,     \* bound on the clock
    MaxMishaps    \* bound: calls to Redis and to the dictionary that fail

ASSUME LimitAssumption ==
    /\ IsFiniteSet(Requests)
    /\ RateMax \in Nat /\ GlobalMax \in Nat /\ MaxClock \in Nat /\ MaxMishaps \in Nat
    /\ Delay \in Nat \ {0} /\ Fine \in Nat \ {0}

VARIABLES
    useRedis, useGlobal,   \* settings USE_REDIS, USE_LIMIT_REQ_GLOBAL
    worker,     \* the worker of every request
    clock,
    stored,     \* stored[s]: the list of the client in store s, and when it expires
    counted,    \* counted[s][w]: the requests counted in window w
    step,       \* where a request is
    got,        \* the list it has read or was answered
    tally,      \* the count it has read, and one more
    answer,     \* how it was decided, and when
    mishaps

limitVars ==
    <<useRedis, useGlobal, worker, clock, stored, counted, step, got, tally, answer, mishaps>>

Stores == {"redis", "dict"}
Clocks == 0 .. MaxClock
Second(t) == t \div Fine
Seconds == {Second(t) : t \in Clocks}
Window(t) == Second(t) \div Delay
Now == Second(clock)
Never == MaxClock + Fine * Delay + 1     \* the expiry of what does not expire
Entries == [by : Requests, of : Stores, at : Seconds]
Missing == [list |-> {}, until |-> 0]

Steps == {"free", "global", "globalLocal", "globalSet", "url", "urlLocal", "urlSet", "copy"}
Verdicts == {"passed", "limited", "globally", "failed"}

LimitTypeOK ==
    /\ useRedis \in BOOLEAN /\ useGlobal \in BOOLEAN
    /\ worker \in [Requests -> Workers]
    /\ clock \in Clocks
    /\ stored \in [Stores -> [list : SUBSET Entries, until : 0 .. Never]]
    /\ \A s \in Stores : Cardinality(stored[s].list) <= RateMax + 1
    /\ counted \in [Stores -> [{Window(t) : t \in Clocks} -> 0 .. Cardinality(Requests)]]
    /\ step \in [Requests -> Steps]
    /\ got \in [Requests -> SUBSET Entries]
    /\ \A r \in Requests : Cardinality(got[r]) <= RateMax + 1
    /\ tally \in [Requests -> 0 .. Cardinality(Requests)]
    /\ answer \in [Requests -> [is : Verdicts \cup {"none"}, by : Stores, at : Clocks,
                                global : Stores \cup {"none"}]]
    /\ mishaps \in 0 .. MaxMishaps
-----------------------------------------------------------------------------
(* limit_req_timestamps, and the same code in the script *)

\* mutants: a request is kept for less than the delay, and for longer
KeptLess(list) == {e \in list : Now < e.at + Delay}
KeptLonger(list) == {e \in list : Now <= e.at + Delay + 1}
Kept(list) == {e \in list : Now <= e.at + Delay}

\* mutant: the client that is limited already is written down again and again
NewTimestampsAlways(list, r, s) == Kept(list) \cup {[by |-> r, of |-> s, at |-> Now]}
\* a client that is over the limit is not written down
NewTimestamps(list, r, s) ==
    IF Cardinality(Kept(list)) <= RateMax
    THEN Kept(list) \cup {[by |-> r, of |-> s, at |-> Now]} ELSE Kept(list)

\* what a store has of the client
Listed(s) == IF clock <= stored[s].until THEN stored[s].list ELSE {}

\* written if anything was dropped or added
Updates(r, s, list) ==
    stored' = IF NewTimestamps(list, r, s) = list THEN stored
              ELSE [stored EXCEPT ![s] = [list |-> NewTimestamps(list, r, s),
                                          until |-> clock + Fine * Delay]]
-----------------------------------------------------------------------------
\* A worker that reads and then writes the dictionary does not yield.
Runs(r) ==
    \A q \in Requests : q # r /\ worker[q] = worker[r] => step[q] \notin {"globalSet", "urlSet"}

StepsTo(r, next) == step' = [step EXCEPT ![r] = next]
Got(r, x) == got' = [got EXCEPT ![r] = x]
Mishap == mishaps < MaxMishaps /\ mishaps' = mishaps + 1
Settings == UNCHANGED <<useRedis, useGlobal, worker, clock>>

Decides(r, verdict, store) ==
    /\ StepsTo(r, "free") /\ Got(r, {}) /\ tally' = [tally EXCEPT ![r] = 0]
    /\ answer' = [answer EXCEPT ![r].is = verdict, ![r].by = store, ![r].at = clock]

\* ret(false, err): the request is not limited.
CallFails(r) == Mishap /\ Decides(r, "failed", "dict") /\ UNCHANGED <<stored, counted>>

Request(r) ==
    /\ step[r] = "free" /\ answer[r].is = "none" /\ Runs(r)
    /\ StepsTo(r, IF useGlobal THEN "global" ELSE "url")
    /\ Settings /\ UNCHANGED <<stored, counted, got, tally, answer, mishaps>>
-----------------------------------------------------------------------------
(* limit_req_global: the count of this window *)

Counts(s, n) == counted' = [counted EXCEPT ![s][Window(clock)] = n]

\* mutant: one too many
GlobalDecidesLate(r, n, s) ==
    /\ \/ n > GlobalMax + 1 /\ Decides(r, "globally", s)
       \/ /\ n <= GlobalMax + 1 /\ StepsTo(r, "url")
          /\ answer' = [answer EXCEPT ![r].global = s] /\ UNCHANGED <<got, tally>>
    /\ Settings /\ UNCHANGED <<stored, mishaps>>
GlobalDecides(r, n, s) ==
    /\ \/ n > GlobalMax /\ Decides(r, "globally", s)
       \/ /\ n <= GlobalMax /\ StepsTo(r, "url")
          /\ answer' = [answer EXCEPT ![r].global = s] /\ UNCHANGED <<got, tally>>
    /\ Settings /\ UNCHANGED <<stored, mishaps>>

GlobalRedis(r) ==
    /\ step[r] = "global" /\ useRedis /\ Runs(r)
    /\ LET n == counted["redis"][Window(clock)] + 1
       IN Counts("redis", n) /\ GlobalDecides(r, n, "redis")

\* The call fails, before or after the script has run; the dictionary is used.
GlobalRedisFails(r) ==
    /\ step[r] = "global" /\ useRedis /\ Runs(r)
    /\ Mishap
    /\ StepsTo(r, "globalLocal")
    /\ UNCHANGED counted \/ Counts("redis", counted["redis"][Window(clock)] + 1)
    /\ Settings /\ UNCHANGED <<stored, got, tally, answer>>

GlobalRead(r) ==
    /\ step[r] = "globalLocal" \/ (step[r] = "global" /\ ~useRedis)
    /\ Runs(r)
    /\ Settings
    /\ \/ /\ StepsTo(r, "globalSet")
          /\ tally' = [tally EXCEPT ![r] = counted["dict"][Window(clock)] + 1]
          /\ UNCHANGED <<stored, counted, got, answer, mishaps>>
       \/ CallFails(r)

GlobalSet(r) ==
    /\ step[r] = "globalSet"
    /\ \/ Counts("dict", tally[r]) /\ GlobalDecides(r, tally[r], "dict")
       \/ Settings /\ CallFails(r)
-----------------------------------------------------------------------------
(* limit_req: the list of the client *)

Verdict(list) == IF Cardinality(list) > RateMax THEN "limited" ELSE "passed"

UrlRedis(r) ==
    /\ step[r] = "url" /\ useRedis /\ Runs(r)
    /\ Updates(r, "redis", Listed("redis"))
    /\ StepsTo(r, "copy") /\ Got(r, NewTimestamps(Listed("redis"), r, "redis"))
    /\ Settings /\ UNCHANGED <<counted, tally, answer, mishaps>>

UrlRedisFails(r) ==
    /\ step[r] = "url" /\ useRedis /\ Runs(r)
    /\ Mishap
    /\ StepsTo(r, "urlLocal")
    /\ UNCHANGED stored \/ Updates(r, "redis", Listed("redis"))
    /\ Settings /\ UNCHANGED <<counted, got, tally, answer>>

\* The answer of Redis is copied to the dictionary.  The time it is to be kept
\* for, "delay", is not a variable of this function: the copy does not expire.
Copy(r) ==
    /\ step[r] = "copy" /\ Runs(r)
    /\ Settings
    /\ \/ /\ stored' = [stored EXCEPT !["dict"] = [list |-> got[r], until |-> Never]]
          /\ Decides(r, Verdict(got[r]), "redis")
          /\ UNCHANGED <<counted, mishaps>>
       \/ CallFails(r)

UrlRead(r) ==
    /\ step[r] = "urlLocal" \/ (step[r] = "url" /\ ~useRedis)
    /\ Runs(r)
    /\ Settings
    /\ \/ /\ StepsTo(r, "urlSet") /\ Got(r, Listed("dict"))
          /\ UNCHANGED <<stored, counted, tally, answer, mishaps>>
       \/ CallFails(r)

UrlSet(r) ==
    /\ step[r] = "urlSet"
    /\ Settings
    /\ \/ /\ Updates(r, "dict", got[r])
          /\ Decides(r, Verdict(NewTimestamps(got[r], r, "dict")), "dict")
          /\ UNCHANGED <<counted, mishaps>>
       \/ CallFails(r)
-----------------------------------------------------------------------------
Tick ==
    /\ \A r \in Requests : step[r] = "free"
    /\ clock < MaxClock
    /\ clock' = clock + 1
    /\ UNCHANGED <<useRedis, useGlobal, worker, stored, counted, step, got, tally, answer, mishaps>>

LimitInit ==
    /\ useRedis \in BOOLEAN /\ useGlobal \in BOOLEAN
    /\ worker \in [Requests -> Workers]
    /\ clock = 0
    /\ stored = [s \in Stores |-> Missing]
    /\ counted = [s \in Stores |-> [w \in {Window(t) : t \in Clocks} |-> 0]]
    /\ step = [r \in Requests |-> "free"]
    /\ got = [r \in Requests |-> {}]
    /\ tally = [r \in Requests |-> 0]
    /\ answer = [r \in Requests |-> [is |-> "none", by |-> "dict", at |-> 0, global |-> "none"]]
    /\ mishaps = 0

Handles(r) ==
    \/ Request(r)
    \/ GlobalRedis(r) \/ GlobalRedisFails(r) \/ GlobalRead(r) \/ GlobalSet(r)
    \/ UrlRedis(r) \/ UrlRedisFails(r) \/ Copy(r) \/ UrlRead(r) \/ UrlSet(r)
LimitNext == Tick \/ \E r \in Requests : Handles(r)
LimitSpec == LimitInit /\ [][LimitNext]_limitVars
-----------------------------------------------------------------------------
(* Properties *)

\* The store s decides alone and atomically: Redis always does, whatever calls
\* to it fail; the dictionary if there is one worker and no Redis, whose lists
\* would be copied over it.
Exact(s) ==
    \/ s = "redis"
    \/ ~useRedis /\ \A q, r \in Requests : worker[q] = worker[r]

\* "5r/m means that 5 requests per minute are allowed from each IP address"
\* (docs/features.md): an exact store lets at most RateMax requests pass in any
\* period shorter than Delay, wherever it begins, although the code sees whole
\* seconds only and lists expire.  (With two workers it lets more pass.)
RateHeld ==
    \A s \in Stores, t \in Clocks : Exact(s) =>
        Cardinality({r \in Requests : /\ answer[r].is = "passed" /\ answer[r].by = s
                                      /\ answer[r].at \in t .. (t + Fine * Delay - 1)}) <= RateMax

\* A request is limited only if more than RateMax were made within the last
\* Delay + 1 seconds, itself included: nobody is limited for what is long past
\* or was never asked, though lists are copied between the stores, some of them
\* for ever, and writes of two workers cross.  A request whose call to Redis
\* failed and that is tried again locally may be in a list twice.
Limits(r) == step[r] # "free" /\ answer'[r].is = "limited" /\ step'[r] = "free"
LimitedForCause ==
    \A r \in Requests : Limits(r) =>
        Cardinality({q \in Requests :
            \/ step[q] \notin {"free", "global", "globalLocal", "globalSet"}
            \/ /\ answer[q].is \in {"passed", "limited", "failed"}
               /\ Now <= Second(answer[q].at) + Delay})
        + mishaps > RateMax
LimitedFairly == [][LimitedForCause]_limitVars

\* "fixed window allows ~2x rate right at a window boundary" (limit.lua:430): an
\* exact store lets at most GlobalMax pass in a window, so at most twice as many
\* in any period shorter than Delay.
GlobalHeld ==
    \A s \in Stores, t \in Clocks : Exact(s) =>
        LET through(P) == Cardinality({r \in Requests : /\ answer[r].global = s
                                                        /\ answer[r].is # "none"
                                                        /\ answer[r].at \in P})
        IN  /\ through({u \in Clocks : Window(u) = Window(t)}) <= GlobalMax
            /\ through(t .. (t + Fine * Delay - 1)) <= 2 * GlobalMax
=============================================================================
