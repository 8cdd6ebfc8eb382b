---------------------------- MODULE Limit_proofs ----------------------------
(***************************************************************************)
(* Proofs about Limit, for any number of requests and workers, any rates,  *)
(* delays and bounds of the clock: types, the rate of the service, the     *)
(* rate of a URI, and that nobody is limited without a cause.              *)
(***************************************************************************)
EXTENDS Limit, FiniteSetTheorems, TLAPS

\* what the constants are
USE LimitAssumption

(***************************************************************************)
(* The clock.                                                              *)
(***************************************************************************)
LEMMA Division ==
    ASSUME NEW a \in Nat, NEW b \in Nat \ {0}
    PROVE  /\ a \div b \in Nat
           /\ b * (a \div b) <= a
           /\ a < b * (a \div b) + b
OBVIOUS

\* whole periods passed make as many quotients
LEMMA DivisionMonotone ==
    ASSUME NEW a \in Nat, NEW c \in Nat, NEW b \in Nat \ {0}, NEW n \in Nat, c < a + b * n
    PROVE  c \div b <= (a \div b) + n
<1> DEFINE p == a \div b
           q == c \div b
<1>1. p \in Nat /\ q \in Nat /\ b * q <= c /\ a < b * p + b
  BY Division
<1> HIDE DEF p, q
<1>2. b * q < b * p + b + b * n
  BY <1>1
<1>3. b * p + b + b * n = b * (p + n + 1)
  BY <1>1
<1>4. b * q < b * (p + n + 1)
  BY <1>2, <1>3
<1>5. ASSUME q >= p + n + 1 PROVE FALSE
  <2>1. PICK k \in Nat : q = p + n + 1 + k
    <3>1. q - (p + n + 1) \in Nat
      BY <1>1, <1>5
    <3> QED BY <1>1, <3>1
  <2>2. b * q = b * (p + n + 1) + b * k
    BY <1>1, <2>1
  <2>3. b * k >= 0
    BY <2>1
  <2> QED BY <1>1, <1>4, <2>2, <2>3
<1>6. q <= p + n
  BY <1>1, <1>5
<1> QED BY <1>6 DEF p, q

\* The clock shows seconds, and windows of them.
LEMMA Clock ==
    ASSUME NEW t \in Clocks
    PROVE  t \in Nat /\ Second(t) \in Nat /\ Second(t) \in Seconds /\ Window(t) \in Nat
BY Division DEF Clocks, Second, Seconds, Window

Windows == {Window(t) : t \in Clocks}

(***************************************************************************)
(* Lists of a client.                                                      *)
(***************************************************************************)
Entry(r, s, t) == [by |-> r, of |-> s, at |-> t]
Fits(list) == list \in SUBSET Entries /\ IsFiniteSet(list) /\ Cardinality(list) <= RateMax + 1

\* the requests that have not counted in store s yet
Yet(s) ==
    {r \in Requests :
        \/ step[r] = "free" /\ answer[r].is = "none"
        \/ step[r] = "global"
        \/ s = "dict" /\ step[r] \in {"globalLocal", "globalSet"}}

\* A count is that of the others at most.
Counting ==
    /\ \A s \in Stores, w \in Windows :
          counted[s][w] + Cardinality(Yet(s)) <= Cardinality(Requests)
    /\ \A r \in Requests : step[r] = "globalSet" =>
          tally[r] + Cardinality(Yet("dict")) <= Cardinality(Requests) + 1

Finite == (\A s \in Stores : IsFiniteSet(stored[s].list)) /\ \A r \in Requests : IsFiniteSet(got[r])

\* a request under way is not decided
Undecided ==
    \A r \in Requests :
        /\ step[r] # "free" => answer[r].is = "none"
        /\ answer[r].at <= clock

TypeInv == LimitTypeOK /\ Finite /\ Counting /\ Undecided

\* A list made anew has RateMax + 1 entries at most: a client over the limit is not written down.
LEMMA NewFits ==
    ASSUME clock \in Clocks, NEW list, Fits(list),
           NEW r \in Requests, NEW s \in Stores
    PROVE  Fits(NewTimestamps(list, r, s))
<1>1. Kept(list) \in SUBSET list
  BY DEF Kept
<1>2. IsFiniteSet(Kept(list)) /\ Cardinality(Kept(list)) <= Cardinality(list)
      /\ Cardinality(Kept(list)) \in Nat /\ Cardinality(list) \in Nat
  BY <1>1, FS_Subset, FS_CardinalityType DEF Fits
<1>3. Entry(r, s, Now) \in Entries
  BY Clock DEF Entry, Entries, Now
<1>4. Fits(Kept(list))
  BY <1>1, <1>2 DEF Fits
<1>5. CASE Cardinality(Kept(list)) <= RateMax
  <2> DEFINE new == Kept(list) \cup {Entry(r, s, Now)}
  <2>1. IsFiniteSet(new) /\ Cardinality(new) <= Cardinality(Kept(list)) + 1
        /\ Cardinality(new) \in Nat
    <3>1. IsFiniteSet(new) /\ Cardinality(new) = IF Entry(r, s, Now) \in Kept(list)
                                                 THEN Cardinality(Kept(list))
                                                 ELSE Cardinality(Kept(list)) + 1
      BY <1>2, FS_AddElement
    <3> HIDE DEF new
    <3> QED BY <1>2, <3>1
  <2>2. new \in SUBSET Entries
    BY <1>3, <1>4 DEF Fits
  <2>3. Fits(new)
    <3> HIDE DEF new
    <3> QED BY <1>2, <1>5, <2>1, <2>2 DEF Fits
  <2> QED BY <1>5, <2>3 DEF NewTimestamps, Entry
<1>6. CASE ~(Cardinality(Kept(list)) <= RateMax)
  BY <1>4, <1>6 DEF NewTimestamps
<1> QED BY <1>5, <1>6

\* What a store has of the client is a list,
LEMMA ListedFits ==
    ASSUME TypeInv, NEW s \in Stores
    PROVE  Fits(Listed(s))
<1>1. Fits({})
  BY FS_EmptySet DEF Fits
<1>2. Fits(stored[s].list)
  BY DEF TypeInv, LimitTypeOK, Finite, Fits
<1> QED BY <1>1, <1>2 DEF Listed

\* What a store is written with is a list.
LEMMA UpdatesFit ==
    ASSUME TypeInv, NEW r \in Requests, NEW s \in Stores, NEW list, Fits(list),
           Updates(r, s, list)
    PROVE  /\ stored' \in [Stores -> [list : SUBSET Entries, until : 0 .. Never]]
           /\ \A x \in Stores : Fits(stored'[x].list)
<1>1. clock \in Clocks /\ stored \in [Stores -> [list : SUBSET Entries, until : 0 .. Never]]
  BY DEF TypeInv, LimitTypeOK
<1>2. Fits(NewTimestamps(list, r, s))
  BY <1>1, NewFits
<1>3. clock + Fine * Delay \in 0 .. Never
  BY <1>1 DEF Clocks, Never
<1>4. \A x \in Stores : Fits(stored[x].list)
  BY DEF TypeInv, LimitTypeOK, Finite, Fits
<1>5. CASE stored' = stored
  BY <1>1, <1>4, <1>5
<1>6. CASE stored' = [stored EXCEPT ![s] = [list |-> NewTimestamps(list, r, s),
                                            until |-> clock + Fine * Delay]]
  <2> DEFINE new == NewTimestamps(list, r, s)
             end == clock + Fine * Delay
  <2>1. new \in SUBSET Entries /\ end \in 0 .. Never /\ Fits(new)
    BY <1>2, <1>3 DEF Fits
  <2>2. stored' = [stored EXCEPT ![s] = [list |-> new, until |-> end]]
    BY <1>6
  <2> HIDE DEF new, end
  <2>3. stored' \in [Stores -> [list : SUBSET Entries, until : 0 .. Never]]
    BY <1>1, <2>1, <2>2
  <2>4. \A x \in Stores : Fits(stored'[x].list)
    BY <1>1, <1>4, <2>1, <2>2
  <2> QED BY <2>3, <2>4
<1> QED BY <1>5, <1>6 DEF Updates

(***************************************************************************)
(* The steps of a request, without their EXCEPTs.                          *)
(***************************************************************************)
AnswerType == [is : Verdicts \cup {"none"}, by : Stores, at : Clocks, global : Stores \cup {"none"}]

\* A request goes on,
LEMMA GoesTo ==
    ASSUME LimitTypeOK, NEW r \in Requests, NEW x \in Steps, StepsTo(r, x)
    PROVE  /\ step' \in [Requests -> Steps] /\ step'[r] = x
           /\ \A q \in Requests \ {r} : step'[q] = step[q]
BY DEF LimitTypeOK, StepsTo

\* ...gets a list,
LEMMA GotIs ==
    ASSUME LimitTypeOK, NEW r \in Requests, NEW x \in SUBSET Entries, Got(r, x)
    PROVE  /\ got' \in [Requests -> SUBSET Entries] /\ got'[r] = x
           /\ \A q \in Requests \ {r} : got'[q] = got[q]
BY DEF LimitTypeOK, Got

\* ...and is decided.
LEMMA DecidesOn ==
    ASSUME LimitTypeOK, NEW r \in Requests, NEW v \in Verdicts, NEW s \in Stores, Decides(r, v, s)
    PROVE  /\ step' \in [Requests -> Steps] /\ got' \in [Requests -> SUBSET Entries]
           /\ answer' \in [Requests -> AnswerType]
           /\ step'[r] = "free" /\ got'[r] = {} /\ tally' = [tally EXCEPT ![r] = 0]
           /\ answer'[r].is = v /\ answer'[r].by = s /\ answer'[r].at = clock
           /\ answer'[r].global = answer[r].global
           /\ \A q \in Requests \ {r} : /\ step'[q] = step[q] /\ got'[q] = got[q]
                                        /\ answer'[q] = answer[q]
<1>1. "free" \in Steps /\ {} \in SUBSET Entries /\ clock \in Clocks /\ v \in Verdicts \cup {"none"}
  BY DEF Steps, LimitTypeOK
<1>2. StepsTo(r, "free") /\ Got(r, {}) /\ tally' = [tally EXCEPT ![r] = 0]
      /\ answer' = [answer EXCEPT ![r].is = v, ![r].by = s, ![r].at = clock]
  BY DEF Decides
<1>3. answer \in [Requests -> AnswerType]
  BY DEF LimitTypeOK, AnswerType
<1>4. /\ answer' \in [Requests -> AnswerType]
      /\ answer'[r].is = v /\ answer'[r].by = s /\ answer'[r].at = clock
      /\ answer'[r].global = answer[r].global
      /\ \A q \in Requests \ {r} : answer'[q] = answer[q]
  BY <1>1, <1>2, <1>3 DEF AnswerType
<1> QED BY <1>1, <1>2, <1>4, GoesTo, GotIs

\* the verdict of the service lets a request through
LEMMA LetThrough ==
    ASSUME LimitTypeOK, NEW r \in Requests, NEW s \in Stores,
           answer' = [answer EXCEPT ![r].global = s]
    PROVE  /\ answer' \in [Requests -> AnswerType]
           /\ answer'[r].is = answer[r].is /\ answer'[r].by = answer[r].by
           /\ answer'[r].at = answer[r].at /\ answer'[r].global = s
           /\ \A q \in Requests \ {r} : answer'[q] = answer[q]
BY DEF LimitTypeOK, AnswerType

\* what a step of a request leaves alone: the settings, the clock and the other requests
Others(r) ==
    /\ UNCHANGED <<useRedis, useGlobal, worker, clock>>
    /\ \A q \in Requests \ {r} : /\ step'[q] = step[q] /\ got'[q] = got[q]
                                 /\ tally'[q] = tally[q] /\ answer'[q] = answer[q]
\* and what it leaves behind
Shape(r) ==
    /\ Others(r)
    /\ step' \in [Requests -> Steps] /\ got' \in [Requests -> SUBSET Entries]
    /\ answer' \in [Requests -> AnswerType] /\ mishaps' \in 0 .. MaxMishaps
    /\ step'[r] # "free" => answer'[r].is = "none" /\ answer'[r].at = answer[r].at
    /\ step'[r] = "free" =>
          /\ answer'[r].is \in Verdicts /\ answer'[r].at = clock /\ got'[r] = {}
          /\ answer'[r].global = answer[r].global
    /\ step[r] # "free" \/ answer[r].is = "none"

\* Mishaps are bounded.
LEMMA MishapTyped ==
    ASSUME LimitTypeOK, Mishap \/ UNCHANGED mishaps
    PROVE  mishaps' \in 0 .. MaxMishaps
BY DEF LimitTypeOK, Mishap

\* Deciding is such a step,
LEMMA DecidesShape ==
    ASSUME LimitTypeOK, NEW r \in Requests, NEW v \in Verdicts, NEW s \in Stores,
           Decides(r, v, s), Mishap \/ UNCHANGED mishaps, Settings, step[r] # "free"
    PROVE  Shape(r)
<1>1. tally' = [tally EXCEPT ![r] = 0] /\ tally \in [Requests -> 0 .. Cardinality(Requests)]
  BY DecidesOn DEF LimitTypeOK
<1>2. \A q \in Requests \ {r} : tally'[q] = tally[q]
  BY <1>1
<1> QED BY <1>2, DecidesOn, MishapTyped DEF Shape, Others, Settings

\* ...failing too,
LEMMA FailsShape ==
    ASSUME LimitTypeOK, NEW r \in Requests, CallFails(r), Settings, step[r] # "free"
    PROVE  Shape(r)
<1>1. "failed" \in Verdicts /\ "dict" \in Stores /\ Mishap /\ Decides(r, "failed", "dict")
  BY DEF CallFails, Verdicts, Stores
<1> QED BY <1>1, DecidesShape

\* a step that goes on
LEMMA GoesShape ==
    ASSUME LimitTypeOK, Undecided, NEW r \in Requests,
           NEW x \in Steps \ {"free"}, StepsTo(r, x),
           UNCHANGED got \/ \E y \in SUBSET Entries : Got(r, y),
           UNCHANGED tally \/ \E n : tally' = [tally EXCEPT ![r] = n],
           UNCHANGED answer \/ \E s \in Stores : answer' = [answer EXCEPT ![r].global = s],
           Mishap \/ UNCHANGED mishaps, Settings, step[r] # "free" \/ answer[r].is = "none"
    PROVE  Shape(r)
<1>1. /\ step' \in [Requests -> Steps] /\ step'[r] = x
      /\ \A q \in Requests \ {r} : step'[q] = step[q]
  BY GoesTo
<1>2. got' \in [Requests -> SUBSET Entries] /\ \A q \in Requests \ {r} : got'[q] = got[q]
  <2>1. CASE UNCHANGED got
    BY <2>1 DEF LimitTypeOK
  <2> QED BY <2>1, GotIs
<1>3. \A q \in Requests \ {r} : tally'[q] = tally[q]
  BY DEF LimitTypeOK
<1>4. /\ answer' \in [Requests -> AnswerType] /\ answer'[r].is = answer[r].is
      /\ answer'[r].at = answer[r].at /\ \A q \in Requests \ {r} : answer'[q] = answer[q]
  <2>1. CASE UNCHANGED answer
    BY <2>1 DEF LimitTypeOK, AnswerType
  <2> QED BY <2>1, LetThrough
<1>5. answer[r].is = "none"
  BY DEF Undecided
<1> QED BY <1>1, <1>2, <1>3, <1>4, <1>5, MishapTyped DEF Shape, Others, Settings

\* ...and the verdict of the service.
LEMMA GlobalDecidesShape ==
    ASSUME LimitTypeOK, Undecided, NEW r \in Requests, NEW n, NEW s \in Stores,
           GlobalDecides(r, n, s), step[r] # "free"
    PROVE  Shape(r)
<1>1. Settings /\ UNCHANGED mishaps
  BY DEF GlobalDecides
<1>2. CASE Decides(r, "globally", s)
  <2>1. "globally" \in Verdicts
    BY DEF Verdicts
  <2> QED BY <1>1, <1>2, <2>1, DecidesShape
<1>3. CASE /\ StepsTo(r, "url") /\ answer' = [answer EXCEPT ![r].global = s]
           /\ UNCHANGED <<got, tally>>
  <2>1. "url" \in Steps \ {"free"}
    BY DEF Steps
  <2> QED BY <1>1, <1>3, <2>1, GoesShape
<1> QED BY <1>2, <1>3 DEF GlobalDecides

\* Every step of a request has this shape.
LEMMA HandlesShape ==
    ASSUME TypeInv, NEW r \in Requests, Handles(r)
    PROVE  Shape(r)
<1>0. /\ LimitTypeOK /\ Undecided
      /\ {"global", "globalLocal", "globalSet", "url", "urlLocal", "urlSet", "copy"} =
            Steps \ {"free"}
      /\ Verdicts = {"passed", "limited", "globally", "failed"} /\ Stores = {"redis", "dict"}
  BY DEF TypeInv, Steps, Verdicts, Stores
<1>1. CASE Request(r)
  <2>1. PICK x \in Steps \ {"free"} : StepsTo(r, x)
    BY <1>0, <1>1 DEF Request
  <2> QED BY <1>0, <1>1, <2>1, GoesShape DEF Request
<1>2. CASE GlobalRedis(r)
  <2>1. step[r] # "free" /\ "redis" \in Stores
        /\ GlobalDecides(r, counted["redis"][Window(clock)] + 1, "redis")
    BY <1>0, <1>2 DEF GlobalRedis
  <2> QED BY <1>0, <2>1, GlobalDecidesShape
<1>3. CASE GlobalRedisFails(r)
  <2>1. "globalLocal" \in Steps \ {"free"} /\ StepsTo(r, "globalLocal") /\ step[r] # "free"
        /\ UNCHANGED <<got, tally, answer>> /\ Mishap /\ Settings
    BY <1>0, <1>3 DEF GlobalRedisFails
  <2> QED BY <1>0, <2>1, GoesShape
<1>4. CASE GlobalRead(r)
  <2>1. Settings /\ step[r] # "free"
    BY <1>4 DEF GlobalRead
  <2>2. CASE CallFails(r)
    BY <1>0, <2>1, <2>2, FailsShape
  <2>3. CASE ~CallFails(r)
    <3>1. /\ "globalSet" \in Steps \ {"free"} /\ StepsTo(r, "globalSet")
          /\ UNCHANGED <<got, answer, mishaps>>
          /\ \E n : tally' = [tally EXCEPT ![r] = n]
      BY <1>0, <1>4, <2>3 DEF GlobalRead
    <3> QED BY <1>0, <2>1, <3>1, GoesShape
  <2> QED BY <2>2, <2>3
<1>5. CASE GlobalSet(r)
  <2>1. step[r] # "free" /\ "dict" \in Stores
    BY <1>0, <1>5 DEF GlobalSet
  <2>2. CASE Settings /\ CallFails(r)
    BY <1>0, <2>1, <2>2, FailsShape
  <2>3. CASE GlobalDecides(r, tally[r], "dict")
    BY <1>0, <2>1, <2>3, GlobalDecidesShape
  <2> QED BY <1>5, <2>2, <2>3 DEF GlobalSet
<1>6. CASE UrlRedis(r)
  <2>1. "copy" \in Steps \ {"free"} /\ StepsTo(r, "copy") /\ step[r] # "free"
        /\ UNCHANGED <<tally, answer, mishaps>> /\ Settings
        /\ Got(r, NewTimestamps(Listed("redis"), r, "redis"))
    BY <1>0, <1>6 DEF UrlRedis
  <2>2. "redis" \in Stores /\ clock \in Clocks
    BY <1>0 DEF LimitTypeOK
  <2>3. NewTimestamps(Listed("redis"), r, "redis") \in SUBSET Entries
    BY <2>2, ListedFits, NewFits DEF Fits
  <2> QED BY <1>0, <2>1, <2>3, GoesShape
<1>7. CASE UrlRedisFails(r)
  <2>1. "urlLocal" \in Steps \ {"free"} /\ StepsTo(r, "urlLocal") /\ step[r] # "free"
        /\ UNCHANGED <<got, tally, answer>> /\ Mishap /\ Settings
    BY <1>0, <1>7 DEF UrlRedisFails
  <2> QED BY <1>0, <2>1, GoesShape
<1>8. CASE Copy(r)
  <2>1. Settings /\ step[r] # "free"
    BY <1>8 DEF Copy
  <2>2. CASE CallFails(r)
    BY <1>0, <2>1, <2>2, FailsShape
  <2>3. CASE ~CallFails(r)
    <3>1. Verdict(got[r]) \in Verdicts /\ "redis" \in Stores
      BY <1>0 DEF Verdict
    <3>2. Decides(r, Verdict(got[r]), "redis") /\ UNCHANGED mishaps
      BY <1>8, <2>3 DEF Copy
    <3> QED BY <1>0, <2>1, <3>1, <3>2, DecidesShape
  <2> QED BY <2>2, <2>3
<1>9. CASE UrlRead(r)
  <2>1. Settings /\ step[r] # "free"
    BY <1>9 DEF UrlRead
  <2>2. CASE CallFails(r)
    BY <1>0, <2>1, <2>2, FailsShape
  <2>3. CASE ~CallFails(r)
    <3>1. /\ "urlSet" \in Steps \ {"free"} /\ StepsTo(r, "urlSet")
          /\ UNCHANGED <<tally, answer, mishaps>>
          /\ Got(r, Listed("dict"))
      BY <1>0, <1>9, <2>3 DEF UrlRead
    <3>2. Listed("dict") \in SUBSET Entries
      BY <1>0, ListedFits DEF Fits
    <3> QED BY <1>0, <2>1, <3>1, <3>2, GoesShape
  <2> QED BY <2>2, <2>3
<1>10. CASE UrlSet(r)
  <2>1. Settings /\ step[r] # "free"
    BY <1>10 DEF UrlSet
  <2>2. CASE CallFails(r)
    BY <1>0, <2>1, <2>2, FailsShape
  <2>3. CASE ~CallFails(r)
    <3> DEFINE v == Verdict(NewTimestamps(got[r], r, "dict"))
    <3>1. v \in Verdicts /\ "dict" \in Stores
      BY <1>0 DEF Verdict
    <3>2. Decides(r, v, "dict") /\ UNCHANGED mishaps
      BY <1>10, <2>3 DEF UrlSet
    <3> HIDE DEF v
    <3> QED BY <1>0, <2>1, <3>1, <3>2, DecidesShape
  <2> QED BY <2>2, <2>3
<1> QED
  BY <1>1, <1>2, <1>3, <1>4, <1>5, <1>6, <1>7, <1>8, <1>9, <1>10 DEF Handles

(***************************************************************************)
(* Types.                                                                  *)
(***************************************************************************)
LEMMA Typed ==
    ASSUME LimitTypeOK
    PROVE  /\ clock \in Clocks /\ clock \in Nat /\ Window(clock) \in Windows
           /\ Stores = {"redis", "dict"} /\ Cardinality(Requests) \in Nat
           /\ stored \in [Stores -> [list : SUBSET Entries, until : 0 .. Never]]
           /\ counted \in [Stores -> [Windows -> 0 .. Cardinality(Requests)]]
           /\ tally \in [Requests -> 0 .. Cardinality(Requests)]
BY Clock, FS_CardinalityType DEF LimitTypeOK, Windows, Stores

\* every list is one after a step
LEMMA ListsFit ==
    ASSUME TypeInv, NEW r \in Requests, Handles(r)
    PROVE  /\ stored' \in [Stores -> [list : SUBSET Entries, until : 0 .. Never]]
           /\ \A s \in Stores : Fits(stored'[s].list)
           /\ \A q \in Requests : Fits(got'[q])
<1>0. /\ LimitTypeOK /\ Stores = {"redis", "dict"} /\ clock \in Clocks
      /\ stored \in [Stores -> [list : SUBSET Entries, until : 0 .. Never]]
  BY Typed DEF TypeInv
<1>1. /\ \A s \in Stores : Fits(stored[s].list)
      /\ \A q \in Requests : Fits(got[q])
      /\ Fits({})
  BY FS_EmptySet DEF TypeInv, LimitTypeOK, Finite, Fits
<1>2. Fits(Listed("redis")) /\ Fits(Listed("dict"))
  BY <1>0, ListedFits
<1>3. Fits(NewTimestamps(Listed("redis"), r, "redis"))
  BY <1>0, <1>2, NewFits
<1>4. \A q \in Requests : Fits(got'[q])
  <2>1. Shape(r)
    BY HandlesShape
  <2>2. UNCHANGED got \/ \E y : Fits(y) /\ Got(r, y)
    BY <1>1, <1>2, <1>3
       DEF Handles, Request, GlobalRedis, GlobalRedisFails, GlobalRead, GlobalSet, UrlRedis,
           UrlRedisFails, Copy, UrlRead, UrlSet, GlobalDecides, Decides, CallFails
  <2>3. UNCHANGED got \/ Fits(got'[r])
    <3>1. ASSUME NEW y, Fits(y), Got(r, y) PROVE Fits(got'[r])
      <4>1. y \in SUBSET Entries
        BY <3>1 DEF Fits
      <4>2. got'[r] = y
        BY <1>0, <3>1, <4>1, GotIs
      <4> QED BY <3>1, <4>2
    <3> QED BY <2>2, <3>1
  <2> QED BY <1>1, <2>1, <2>3 DEF Shape, Others
<1>5. \/ stored' = stored
      \/ Updates(r, "redis", Listed("redis"))
      \/ stored' = [stored EXCEPT !["dict"] = [list |-> got[r], until |-> Never]]
      \/ Updates(r, "dict", got[r])
  BY DEF Handles, Request, GlobalRedis, GlobalRedisFails, GlobalRead, GlobalSet, UrlRedis,
         UrlRedisFails, Copy, UrlRead, UrlSet, GlobalDecides, Decides, CallFails
<1>6. CASE stored' = stored
  BY <1>0, <1>1, <1>4, <1>6
<1>7. CASE Updates(r, "redis", Listed("redis"))
  <2>1. "redis" \in Stores
    BY <1>0
  <2> QED BY <1>2, <1>4, <1>7, <2>1, UpdatesFit
<1>8. CASE stored' = [stored EXCEPT !["dict"] = [list |-> got[r], until |-> Never]]
  <2>1. Never \in 0 .. Never
    BY DEF Never
  <2>2. got[r] \in SUBSET Entries
    BY <1>1 DEF Fits
  <2>3. \A s \in Stores : stored'[s].list = IF s = "dict" THEN got[r] ELSE stored[s].list
    BY <1>0, <1>8
  <2> QED BY <1>0, <1>1, <1>4, <1>8, <2>1, <2>2, <2>3
<1>9. CASE Updates(r, "dict", got[r])
  <2>1. "dict" \in Stores
    BY <1>0
  <2> QED BY <1>1, <1>4, <1>9, <2>1, UpdatesFit
<1> QED BY <1>5, <1>6, <1>7, <1>8, <1>9

\* those who have not counted become fewer
LEMMA YetFewer ==
    ASSUME TypeInv, NEW s \in Stores, Yet(s)' \subseteq Yet(s)
    PROVE  /\ Cardinality(Yet(s)) \in Nat /\ Cardinality(Yet(s)') \in Nat
           /\ Cardinality(Yet(s)') <= Cardinality(Yet(s))
           /\ \A r \in Yet(s) \ Yet(s)' : Cardinality(Yet(s)') + 1 <= Cardinality(Yet(s))
<1>1. IsFiniteSet(Yet(s)) /\ Cardinality(Yet(s)) \in Nat
  <2>1. Yet(s) \in SUBSET Requests
    BY DEF Yet
  <2> QED BY <2>1, FS_Subset, FS_CardinalityType
<1>2. /\ IsFiniteSet(Yet(s)') /\ Cardinality(Yet(s)') \in Nat
      /\ Cardinality(Yet(s)') <= Cardinality(Yet(s))
      /\ Cardinality(Yet(s)') = Cardinality(Yet(s)) => Yet(s)' = Yet(s)
  <2>1. Yet(s)' \in SUBSET Yet(s)
    OBVIOUS
  <2> QED BY <1>1, <2>1, FS_Subset, FS_CardinalityType
<1> QED BY <1>1, <1>2

\* where a step takes a request
LEMMA Transitions ==
    ASSUME TypeInv, NEW r \in Requests, Handles(r)
    PROVE  \/ step[r] = "free" /\ step'[r] \in {"global", "url"}
           \/ step[r] = "global" /\ step'[r] \in {"free", "url", "globalLocal", "globalSet"}
           \/ step[r] = "globalLocal" /\ step'[r] \in {"globalSet", "free"}
           \/ step[r] = "globalSet" /\ step'[r] \in {"free", "url"}
           \/ step[r] = "url" /\ step'[r] \in {"copy", "urlLocal", "urlSet", "free"}
           \/ step[r] = "urlLocal" /\ step'[r] \in {"urlSet", "free"}
           \/ step[r] = "urlSet" /\ step'[r] = "free"
           \/ step[r] = "copy" /\ step'[r] = "free"
<1>1. \A x : StepsTo(r, x) => step'[r] = x
  BY DEF TypeInv, LimitTypeOK, StepsTo
<1> QED
  BY <1>1
     DEF Handles, Request, GlobalRedis, GlobalRedisFails, GlobalRead, GlobalSet, UrlRedis,
         UrlRedisFails, Copy, UrlRead, UrlSet, GlobalDecides, Decides, CallFails

\* A step of a request lets nobody else count.
LEMMA YetShrinks ==
    ASSUME TypeInv, NEW r \in Requests, Handles(r), NEW s \in Stores
    PROVE  Yet(s)' \subseteq Yet(s)
<1>1. Shape(r)
  BY HandlesShape
<1>2. ASSUME NEW q \in Requests, q # r, q \in Yet(s)' PROVE q \in Yet(s)
  BY <1>1, <1>2 DEF Shape, Others, Yet
<1>3. ASSUME r \in Yet(s)' PROVE r \in Yet(s)
  <2>1. step'[r] # "free"
    BY <1>1, <1>3 DEF Shape, Yet, Verdicts
  <2>2. step'[r] \in {"global", "globalLocal", "globalSet"}
        /\ (s = "dict" \/ step'[r] = "global")
    BY <1>3, <2>1 DEF Yet
  <2>3. step[r] = "free" \/ (s = "dict" /\ step[r] \in {"global", "globalLocal"})
    BY <2>2, Transitions
  <2> QED BY <1>1, <2>3 DEF Shape, Yet
<1> QED BY <1>2, <1>3 DEF Yet

\* A store that counts one more request has it off the list of those to come.
LEMMA CountsOne ==
    ASSUME TypeInv, NEW r \in Requests, Handles(r),
           NEW s \in Stores, NEW n \in Nat, Counts(s, n),
           r \in Yet(s), r \notin Yet(s)',
           n + Cardinality(Yet(s)) <= Cardinality(Requests) + 1
    PROVE  /\ counted' \in [Stores -> [Windows -> 0 .. Cardinality(Requests)]]
           /\ \A x \in Stores, w \in Windows :
                 counted'[x][w] + Cardinality(Yet(x)') <= Cardinality(Requests)
<1> DEFINE N == Cardinality(Requests)
<1>1. /\ N \in Nat /\ Window(clock) \in Windows
      /\ counted \in [Stores -> [Windows -> 0 .. N]]
  BY Typed DEF TypeInv
<1>2. \A x \in Stores : /\ Cardinality(Yet(x)) \in Nat /\ Cardinality(Yet(x)') \in Nat
                        /\ Cardinality(Yet(x)') <= Cardinality(Yet(x))
                        /\ \A q \in Yet(x) \ Yet(x)' :
                              Cardinality(Yet(x)') + 1 <= Cardinality(Yet(x))
  BY YetShrinks, YetFewer
<1>3. \A x \in Stores, w \in Windows : counted[x][w] + Cardinality(Yet(x)) <= N
  BY DEF TypeInv, Counting
<1>4. n + Cardinality(Yet(s)') <= N
  <2>1. Cardinality(Yet(s)') + 1 <= Cardinality(Yet(s))
    BY <1>2
  <2> QED BY <1>1, <1>2, <2>1
<1>5. n \in 0 .. N
  BY <1>1, <1>2, <1>4
<1>6. /\ counted' \in [Stores -> [Windows -> 0 .. N]]
      /\ \A x \in Stores, w \in Windows :
            counted'[x][w] = IF x = s /\ w = Window(clock) THEN n ELSE counted[x][w]
  <2> HIDE DEF N
  <2> QED BY <1>1, <1>5 DEF Counts
<1>7. ASSUME NEW x \in Stores, NEW w \in Windows
      PROVE  counted'[x][w] + Cardinality(Yet(x)') <= N
  <2>1. CASE x = s /\ w = Window(clock)
    BY <1>4, <1>6, <2>1
  <2>2. CASE ~(x = s /\ w = Window(clock))
    <3>1. counted'[x][w] = counted[x][w] /\ counted[x][w] \in Nat
      BY <1>1, <1>6, <2>2
    <3>2. counted[x][w] + Cardinality(Yet(x)) <= N
      BY <1>3
    <3> HIDE DEF N
    <3> QED BY <1>1, <1>2, <3>1, <3>2
  <2> QED BY <2>1, <2>2
<1> QED BY <1>6, <1>7

\* Counts stay below the number of requests, also when two workers count the same one.
LEMMA CountingStep ==
    ASSUME TypeInv, NEW r \in Requests, Handles(r)
    PROVE  /\ counted' \in [Stores -> [Windows -> 0 .. Cardinality(Requests)]]
           /\ tally' \in [Requests -> 0 .. Cardinality(Requests)]
           /\ Counting'
<1> DEFINE N == Cardinality(Requests)
<1>1. /\ N \in Nat /\ Window(clock) \in Windows /\ "redis" \in Stores /\ "dict" \in Stores
      /\ counted \in [Stores -> [Windows -> 0 .. N]] /\ tally \in [Requests -> 0 .. N]
  BY Typed DEF TypeInv
<1>2. \A x \in Stores : /\ Cardinality(Yet(x)) \in Nat /\ Cardinality(Yet(x)') \in Nat
                        /\ Cardinality(Yet(x)') <= Cardinality(Yet(x))
  BY YetShrinks, YetFewer
<1>3. /\ \A x \in Stores, w \in Windows : counted[x][w] + Cardinality(Yet(x)) <= N
      /\ \A q \in Requests : step[q] = "globalSet" => tally[q] + Cardinality(Yet("dict")) <= N + 1
  BY DEF TypeInv, Counting
<1>4. Shape(r)
  BY HandlesShape
<1>5. \A x : StepsTo(r, x) => step'[r] = x
  BY DEF TypeInv, LimitTypeOK, StepsTo
<1>6. step'[r] = "free" => r \notin Yet("redis")' /\ r \notin Yet("dict")'
  BY <1>4 DEF Shape, Yet, Verdicts
<1>7. /\ counted' \in [Stores -> [Windows -> 0 .. N]]
      /\ \A x \in Stores, w \in Windows : counted'[x][w] + Cardinality(Yet(x)') <= N
  <2>1. CASE UNCHANGED counted
    <3>1. ASSUME NEW x \in Stores, NEW w \in Windows
          PROVE  counted'[x][w] + Cardinality(Yet(x)') <= N
      <4>1. counted'[x][w] = counted[x][w] /\ counted[x][w] \in Nat
        BY <1>1, <2>1
      <4>2. counted[x][w] + Cardinality(Yet(x)) <= N
        BY <1>3
      <4> HIDE DEF N
      <4> QED BY <1>1, <1>2, <4>1, <4>2
    <3> QED BY <1>1, <2>1, <3>1
  <2>2. CASE step[r] = "global" /\ Counts("redis", counted["redis"][Window(clock)] + 1)
             /\ step'[r] \in {"free", "url", "globalLocal"}
    <3>1. r \in Yet("redis") /\ r \notin Yet("redis")'
      BY <1>6, <2>2 DEF Yet
    <3>2. counted["redis"][Window(clock)] \in Nat
          /\ counted["redis"][Window(clock)] + Cardinality(Yet("redis")) <= N
      BY <1>1, <1>3
    <3>3. counted["redis"][Window(clock)] + 1 \in Nat
          /\ counted["redis"][Window(clock)] + 1 + Cardinality(Yet("redis")) <= N + 1
      <4> HIDE DEF N
      <4> QED BY <1>1, <1>2, <3>2
    <3> QED BY <1>1, <2>2, <3>1, <3>3, CountsOne
  <2>3. CASE step[r] = "globalSet" /\ Counts("dict", tally[r]) /\ step'[r] \in {"free", "url"}
    <3>1. r \in Yet("dict") /\ r \notin Yet("dict")'
      BY <1>6, <2>3 DEF Yet
    <3>2. tally[r] \in Nat /\ tally[r] + Cardinality(Yet("dict")) <= N + 1
      BY <1>1, <1>3, <2>3
    <3> QED BY <1>1, <2>3, <3>1, <3>2, CountsOne
  <2>4. \/ UNCHANGED counted
        \/ step[r] = "global" /\ Counts("redis", counted["redis"][Window(clock)] + 1)
           /\ step'[r] \in {"free", "url", "globalLocal"}
        \/ step[r] = "globalSet" /\ Counts("dict", tally[r]) /\ step'[r] \in {"free", "url"}
    BY <1>5 DEF Handles, Request, GlobalRedis, GlobalRedisFails, GlobalRead, GlobalSet, UrlRedis,
         UrlRedisFails, Copy, UrlRead, UrlSet, GlobalDecides, Decides, CallFails
  <2> QED BY <2>1, <2>2, <2>3, <2>4
<1>8. /\ tally' \in [Requests -> 0 .. N]
      /\ step'[r] = "globalSet" => tally'[r] + Cardinality(Yet("dict")') <= N + 1
  <2>1. CASE UNCHANGED tally /\ step'[r] # "globalSet"
    BY <1>1, <2>1
  <2>2. CASE tally' = [tally EXCEPT ![r] = 0] /\ step'[r] # "globalSet"
    BY <1>1, <2>2
  <2>3. CASE /\ tally' = [tally EXCEPT ![r] = counted["dict"][Window(clock)] + 1]
             /\ step[r] \in {"global", "globalLocal"}
    <3> DEFINE c == counted["dict"][Window(clock)]
    <3>1. c \in Nat /\ c + Cardinality(Yet("dict")) <= N /\ r \in Yet("dict")
      BY <1>1, <1>3, <2>3 DEF Yet
    <3>2. Cardinality(Yet("dict")) >= 1
      <4>1. IsFiniteSet(Yet("dict"))
        <5>1. Yet("dict") \in SUBSET Requests
          BY DEF Yet
        <5> QED BY <5>1, FS_Subset
      <4>2. Cardinality(Yet("dict")) # 0
        BY <3>1, <4>1, FS_EmptySet
      <4> QED BY <1>1, <1>2, <4>2
    <3>3. c + 1 \in 0 .. N /\ c + 1 + Cardinality(Yet("dict")') <= N + 1
      <4> HIDE DEF N, c
      <4> QED BY <1>1, <1>2, <3>1, <3>2
    <3>4. tally' = [tally EXCEPT ![r] = c + 1]
      BY <2>3
    <3> HIDE DEF N, c
    <3> QED BY <1>1, <3>3, <3>4
  <2>4. \/ UNCHANGED tally /\ step'[r] # "globalSet"
        \/ tally' = [tally EXCEPT ![r] = 0] /\ step'[r] # "globalSet"
        \/ /\ tally' = [tally EXCEPT ![r] = counted["dict"][Window(clock)] + 1]
           /\ step[r] \in {"global", "globalLocal"}
    BY <1>5 DEF Handles, Request, GlobalRedis, GlobalRedisFails, GlobalRead, GlobalSet, UrlRedis,
         UrlRedisFails, Copy, UrlRead, UrlSet, GlobalDecides, Decides, CallFails
  <2> QED BY <2>1, <2>2, <2>3, <2>4
<1>9. ASSUME NEW q \in Requests, step'[q] = "globalSet"
      PROVE  tally'[q] + Cardinality(Yet("dict")') <= N + 1
  <2>1. CASE q = r
    BY <1>8, <1>9, <2>1
  <2>2. CASE q # r
    <3>1. step[q] = "globalSet" /\ tally'[q] = tally[q] /\ tally[q] \in Nat
      BY <1>1, <1>4, <1>9, <2>2 DEF Shape, Others
    <3>2. tally[q] + Cardinality(Yet("dict")) <= N + 1
      BY <1>3, <3>1
    <3> HIDE DEF N
    <3> QED BY <1>1, <1>2, <3>1, <3>2
  <2> QED BY <2>1, <2>2
<1> QED BY <1>7, <1>8, <1>9 DEF Counting

\* Nothing is stored or counted at the start.
LEMMA TypeInit == LimitInit => TypeInv
<1> SUFFICES ASSUME LimitInit PROVE TypeInv
  OBVIOUS
<1>1. /\ Cardinality(Requests) \in Nat /\ IsFiniteSet({}) /\ Cardinality({}) = 0
      /\ 0 \in Clocks /\ 0 \in 0 .. Never /\ RateMax + 1 >= 0 /\ 0 \in 0 .. MaxMishaps
      /\ 0 \in 0 .. Cardinality(Requests) /\ Stores = {"redis", "dict"}
  BY FS_EmptySet, FS_CardinalityType DEF Clocks, Never, Stores
<1>2. /\ stored = [s \in Stores |-> [list |-> {}, until |-> 0]]
      /\ counted = [s \in Stores |-> [w \in Windows |-> 0]]
      /\ step = [r \in Requests |-> "free"]
      /\ got = [r \in Requests |-> {}] /\ tally = [r \in Requests |-> 0]
      /\ answer = [r \in Requests |-> [is |-> "none", by |-> "dict", at |-> 0, global |-> "none"]]
      /\ mishaps = 0 /\ clock = 0
      /\ useRedis \in BOOLEAN /\ useGlobal \in BOOLEAN /\ worker \in [Requests -> Workers]
  BY DEF LimitInit, Missing, Windows
<1>3. LimitTypeOK
  <2>1. /\ stored \in [Stores -> [list : SUBSET Entries, until : 0 .. Never]]
        /\ \A s \in Stores : Cardinality(stored[s].list) <= RateMax + 1
    BY <1>1, <1>2
  <2>2. counted \in [Stores -> [Windows -> 0 .. Cardinality(Requests)]]
    BY <1>1, <1>2
  <2>3. /\ got \in [Requests -> SUBSET Entries]
        /\ \A r \in Requests : Cardinality(got[r]) <= RateMax + 1
    BY <1>1, <1>2
  <2>4. /\ step \in [Requests -> Steps] /\ tally \in [Requests -> 0 .. Cardinality(Requests)]
        /\ mishaps \in 0 .. MaxMishaps /\ clock \in Clocks
    BY <1>1, <1>2 DEF Steps
  <2>5. answer \in [Requests -> AnswerType]
    BY <1>1, <1>2 DEF AnswerType
  <2> QED BY <1>2, <2>1, <2>2, <2>3, <2>4, <2>5 DEF LimitTypeOK, AnswerType, Windows
<1>4. Finite
  BY <1>1, <1>2 DEF Finite
<1>5. Counting
  <2>1. \A s \in Stores :
            Cardinality(Yet(s)) \in Nat /\ Cardinality(Yet(s)) <= Cardinality(Requests)
    <3>1. \A s : Yet(s) \in SUBSET Requests
      BY DEF Yet
    <3> QED BY <3>1, FS_Subset, FS_CardinalityType
  <2>2. \A s \in Stores, w \in Windows : counted[s][w] = 0
    BY <1>2
  <2>3. \A r \in Requests : step[r] # "globalSet"
    BY <1>2
  <2> QED BY <2>1, <2>2, <2>3 DEF Counting
<1>6. Undecided
  BY <1>2 DEF Undecided
<1> QED BY <1>3, <1>4, <1>5, <1>6 DEF TypeInv

\* Time passes while no request is under way.
LEMMA TickShape ==
    ASSUME TypeInv, Tick
    PROVE  /\ clock' \in Clocks /\ clock \in Clocks /\ clock' = clock + 1
           /\ \A r \in Requests : step[r] = "free" /\ answer[r].at <= clock
           /\ UNCHANGED <<useRedis, useGlobal, worker, stored, counted, step, got, tally, answer,
                          mishaps>>
BY DEF Tick, TypeInv, LimitTypeOK, Undecided, Clocks

\* Time passes while no request is under way.
LEMMA TypeTick ==
    ASSUME TypeInv, Tick
    PROVE  TypeInv'
<1>1. /\ clock' \in Clocks /\ clock' = clock + 1 /\ clock \in Nat
      /\ UNCHANGED <<useRedis, useGlobal, worker, stored, counted, step, got, tally, answer,
                     mishaps>>
  BY TickShape, Clock
<1>2. LimitTypeOK'
  BY <1>1 DEF TypeInv, LimitTypeOK
<1>3. Finite'
  BY <1>1 DEF TypeInv, Finite
<1>4. Counting'
  <2>1. \A s : Yet(s)' = Yet(s)
    BY <1>1 DEF Yet
  <2> QED BY <1>1, <2>1 DEF TypeInv, Counting
<1>5. Undecided'
  <2>1. \A r \in Requests : answer[r].at \in Nat /\ answer[r].at <= clock
    BY Clock DEF TypeInv, LimitTypeOK, Undecided
  <2> QED BY <1>1, <2>1 DEF TypeInv, Undecided
<1> QED BY <1>2, <1>3, <1>4, <1>5 DEF TypeInv

\* Every step of a request keeps the types,
LEMMA TypeHandles ==
    ASSUME TypeInv, NEW r \in Requests, Handles(r)
    PROVE  TypeInv'
<1>1. Shape(r)
  BY HandlesShape
<1>2. /\ stored' \in [Stores -> [list : SUBSET Entries, until : 0 .. Never]]
      /\ \A s \in Stores : Fits(stored'[s].list)
      /\ \A q \in Requests : Fits(got'[q])
  BY ListsFit
<1>3. /\ counted' \in [Stores -> [Windows -> 0 .. Cardinality(Requests)]]
      /\ tally' \in [Requests -> 0 .. Cardinality(Requests)]
      /\ Counting'
  BY CountingStep
<1>4. LimitTypeOK'
  <2>1. /\ useRedis' \in BOOLEAN /\ useGlobal' \in BOOLEAN
        /\ worker' \in [Requests -> Workers] /\ clock' \in Clocks
    BY <1>1 DEF Shape, Others, TypeInv, LimitTypeOK
  <2>2. /\ \A s \in Stores : Cardinality(stored'[s].list) <= RateMax + 1
        /\ \A q \in Requests : Cardinality(got'[q]) <= RateMax + 1
    BY <1>2 DEF Fits
  <2>3. /\ step' \in [Requests -> Steps] /\ got' \in [Requests -> SUBSET Entries]
        /\ answer' \in [Requests -> AnswerType] /\ mishaps' \in 0 .. MaxMishaps
    BY <1>1 DEF Shape
  <2> QED BY <1>2, <1>3, <2>1, <2>2, <2>3 DEF LimitTypeOK, AnswerType, Windows
<1>5. Finite'
  BY <1>2 DEF Finite, Fits
<1>6. Undecided'
  <2>1. clock' = clock /\ clock \in Nat /\ \A q \in Requests : answer[q].at <= clock
    BY <1>1, Clock DEF Shape, Others, TypeInv, Undecided, LimitTypeOK
  <2> QED BY <1>1, <2>1 DEF Shape, Others, TypeInv, Undecided
<1> QED BY <1>3, <1>4, <1>5, <1>6 DEF TypeInv

\* ...so does every step,
LEMMA TypeNext == TypeInv /\ [LimitNext]_limitVars => TypeInv'
<1> SUFFICES ASSUME TypeInv, [LimitNext]_limitVars PROVE TypeInv'
  OBVIOUS
<1>1. CASE UNCHANGED limitVars
  <2>1. \A s : Yet(s)' = Yet(s)
    BY <1>1 DEF limitVars, Yet
  <2>2. LimitTypeOK'
    BY <1>1 DEF limitVars, TypeInv, LimitTypeOK
  <2>3. Finite' /\ Counting' /\ Undecided'
    BY <1>1, <2>1 DEF limitVars, TypeInv, Finite, Counting, Undecided
  <2> QED BY <2>2, <2>3 DEF TypeInv
<1> QED BY <1>1, TypeTick, TypeHandles DEF LimitNext

\* ...and they hold in every state.
LEMMA TypeHolds == LimitSpec => []TypeInv
<1>1. LimitInit => TypeInv
  BY TypeInit
<1>2. TypeInv /\ [LimitNext]_limitVars => TypeInv'
  BY TypeNext
<1> QED BY <1>1, <1>2, PTL DEF LimitSpec

\* The types of Limit, however many requests, failures and ticks there are.
THEOREM LimitTyped == LimitSpec => []LimitTypeOK
<1>1. TypeInv => LimitTypeOK
  BY DEF TypeInv
<1>2. LimitSpec => []TypeInv
  BY TypeHolds
<1> QED BY <1>1, <1>2, PTL

(***************************************************************************)
(* A store that is exact.                                                  *)
(***************************************************************************)
\* when a request was answered, or would be
At(r) == IF step[r] = "free" THEN answer[r].at ELSE clock

\* Without Redis one worker reads and writes the dictionary undisturbed.
Serial ==
    Exact("dict") =>
        /\ \A r \in Requests : step[r] \notin {"globalLocal", "urlLocal", "copy"}
        /\ \A q, r \in Requests : step[q] \in {"globalSet", "urlSet"} =>
              q = r \/ step[r] \notin {"globalSet", "urlSet"}
        /\ \A r \in Requests : step[r] = "globalSet" =>
              tally[r] = counted["dict"][Window(clock)] + 1
        /\ \A r \in Requests : step[r] = "urlSet" => got[r] = Listed("dict")

\* a request not begun was let through by nobody
NotBegun ==
    \A r \in Requests : step[r] = "free" /\ answer[r].is = "none" => answer[r].global = "none"

\* While one is between the two, nobody else goes on.
LEMMA Blocked ==
    ASSUME Serial, Exact("dict"), NEW r \in Requests, Handles(r),
           NEW q \in Requests, step[q] \in {"globalSet", "urlSet"}
    PROVE  q = r
<1> SUFFICES ASSUME q # r PROVE FALSE
  OBVIOUS
<1>1. step[r] \notin {"globalSet", "urlSet"}
  BY DEF Serial
<1>2. Runs(r)
  BY <1>1
     DEF Handles, Request, GlobalRedis, GlobalRedisFails, GlobalRead, GlobalSet, UrlRedis,
         UrlRedisFails, Copy, UrlRead, UrlSet
<1>3. worker[q] = worker[r]
  BY DEF Exact
<1> QED BY <1>2, <1>3 DEF Runs

\* Settings and workers stay, so a store that is exact stays exact.
LEMMA ExactStays ==
    ASSUME UNCHANGED <<useRedis, worker>>, NEW s
    PROVE  Exact(s)' <=> Exact(s)
BY DEF Exact

\* A request takes no time that the clock shows.
LEMMA AtStays ==
    ASSUME TypeInv, NEW r \in Requests, Handles(r)
    PROVE  /\ \A q \in Requests \ {r} : At(q)' = At(q)
           /\ At(r)' = clock
           /\ step[r] # "free" => At(r) = clock
BY HandlesShape DEF Shape, Others, At

\* Reading and writing the dictionary stay undisturbed,
LEMMA SerialStep ==
    ASSUME TypeInv, Serial, NEW r \in Requests, Handles(r)
    PROVE  Serial'
<1> SUFFICES ASSUME Exact("dict")' PROVE Serial'
  BY DEF Serial
<1>1. Shape(r)
  BY HandlesShape
<1>2. Exact("dict") /\ ~useRedis /\ clock' = clock
  BY <1>1, ExactStays DEF Shape, Others, Exact
<1>3. \A q \in Requests : step[q] \in {"globalSet", "urlSet"} => q = r
  BY <1>2, Blocked
<1>4. /\ step[r] \notin {"globalLocal", "urlLocal", "copy"}
      /\ \A q \in Requests \ {r} : /\ step'[q] = step[q]
                                   /\ step[q] \notin {"globalLocal", "urlLocal", "copy"}
  BY <1>1, <1>2 DEF Serial, Shape, Others
<1>5. /\ \A x : StepsTo(r, x) => step'[r] = x
      /\ \A x : Got(r, x) => got'[r] = x
      /\ \A n : tally' = [tally EXCEPT ![r] = n] => tally'[r] = n
  BY DEF TypeInv, LimitTypeOK, StepsTo, Got
<1>6. /\ step'[r] \notin {"globalLocal", "urlLocal", "copy"}
      /\ step'[r] = "globalSet" => /\ tally'[r] = counted["dict"][Window(clock)] + 1
                                   /\ UNCHANGED counted
      /\ step'[r] = "urlSet" => got'[r] = Listed("dict") /\ UNCHANGED stored
  BY <1>2, <1>4, <1>5
     DEF Handles, Request, GlobalRedis, GlobalRedisFails, GlobalRead, GlobalSet, UrlRedis,
         UrlRedisFails, Copy, UrlRead, UrlSet, GlobalDecides, Decides, CallFails
<1>7. step'[r] = "urlSet" => got'[r] = Listed("dict")'
  BY <1>2, <1>6 DEF Listed
<1> QED BY <1>2, <1>3, <1>4, <1>6, <1>7 DEF Serial

\* ...and a request that has not begun stays unknown.
LEMMA NotBegunStep ==
    ASSUME TypeInv, NotBegun, NEW r \in Requests, Handles(r)
    PROVE  NotBegun'
BY HandlesShape DEF NotBegun, Shape, Others, Verdicts

(***************************************************************************)
(* The rate of the service.                                                *)
(***************************************************************************)
Through(s, w) == {r \in Requests : answer[r].global = s /\ Window(At(r)) = w}

\* Whoever was let through has been counted.
AllCounted ==
    \A s \in Stores, w \in Windows : Exact(s) =>
        /\ Cardinality(Through(s, w)) <= counted[s][w]
        /\ Cardinality(Through(s, w)) <= GlobalMax

GlobalInv == TypeInv /\ Serial /\ NotBegun /\ AllCounted
\* what a step of a request counts, and for whom
LEMMA GlobalEffects ==
    ASSUME GlobalInv, NEW r \in Requests, Handles(r)
    PROVE  LET Adds(s, n) == Exact(s) => n = counted[s][Window(clock)] + 1
           IN  \/ \E s \in Stores, n \in Nat :
                     /\ answer'[r].global = s /\ step[r] # "free" /\ Counts(s, n)
                     /\ Adds(s, n) /\ n <= GlobalMax
               \/ /\ answer'[r].global = answer[r].global
                  /\ \/ UNCHANGED counted
                     \/ \E s \in Stores, n \in Nat : Counts(s, n) /\ Adds(s, n)
<1> DEFINE Adds(s, n) == Exact(s) => n = counted[s][Window(clock)] + 1
<1>0. /\ LimitTypeOK /\ Stores = {"redis", "dict"} /\ clock \in Nat
      /\ counted["redis"][Window(clock)] + 1 \in Nat /\ tally[r] \in Nat
  <2>1. /\ counted \in [Stores -> [Windows -> 0 .. Cardinality(Requests)]]
        /\ tally \in [Requests -> 0 .. Cardinality(Requests)] /\ Cardinality(Requests) \in Nat
        /\ Stores = {"redis", "dict"} /\ Window(clock) \in Windows /\ clock \in Nat
    BY Typed DEF GlobalInv, TypeInv
  <2> QED BY <2>1 DEF GlobalInv, TypeInv
<1>1. \A s : Decides(r, "globally", s) \/ Decides(r, "failed", s) \/ Decides(r, "passed", s)
             \/ Decides(r, "limited", s) =>
                answer'[r].global = answer[r].global
  BY <1>0 DEF Decides, LimitTypeOK
<1>2. \A s : answer' = [answer EXCEPT ![r].global = s] => answer'[r].global = s
  BY <1>0 DEF LimitTypeOK
<1>3. ASSUME NEW s \in Stores, NEW n \in Nat, GlobalDecides(r, n, s), Counts(s, n), Adds(s, n),
             step[r] # "free"
      PROVE  \/ answer'[r].global = s /\ n <= GlobalMax
             \/ answer'[r].global = answer[r].global
  BY <1>1, <1>2, <1>3 DEF GlobalDecides
<1>4. CASE GlobalRedis(r)
  <2> DEFINE n == counted["redis"][Window(clock)] + 1
  <2>1. /\ "redis" \in Stores /\ n \in Nat /\ GlobalDecides(r, n, "redis") /\ Counts("redis", n)
        /\ Adds("redis", n) /\ step[r] # "free"
    BY <1>0, <1>4 DEF GlobalRedis
  <2> HIDE DEF n
  <2> QED BY <1>3, <2>1
<1>5. CASE GlobalRedisFails(r)
  <2>1. "redis" \in Stores /\ counted["redis"][Window(clock)] + 1 \in Nat /\ answer' = answer
        /\ (UNCHANGED counted \/ Counts("redis", counted["redis"][Window(clock)] + 1))
    BY <1>0, <1>5 DEF GlobalRedisFails
  <2> QED BY <2>1
<1>6. CASE GlobalSet(r)
  <2>1. CASE CallFails(r)
    BY <1>1, <2>1 DEF CallFails
  <2>2. CASE ~CallFails(r)
    <3>1. /\ "dict" \in Stores /\ tally[r] \in Nat /\ GlobalDecides(r, tally[r], "dict")
          /\ Counts("dict", tally[r]) /\ step[r] = "globalSet"
      BY <1>0, <1>6, <2>2 DEF GlobalSet
    <3>2. Adds("dict", tally[r])
      BY <3>1 DEF GlobalInv, Serial
    <3> HIDE DEF Adds
    <3> QED BY <1>3, <3>1, <3>2 DEF Adds
  <2> QED BY <2>1, <2>2
<1>7. CASE Request(r) \/ GlobalRead(r) \/ UrlRedis(r) \/ UrlRedisFails(r) \/ Copy(r) \/ UrlRead(r)
           \/ UrlSet(r)
  <2>1. UNCHANGED counted
    BY <1>7 DEF Request, GlobalRead, UrlRedis, UrlRedisFails, Copy, UrlRead, UrlSet, CallFails
  <2>2. answer'[r].global = answer[r].global
    BY <1>1, <1>7
       DEF Request, GlobalRead, UrlRedis, UrlRedisFails, Copy, UrlRead, UrlSet, CallFails, Verdict
  <2> QED BY <2>1, <2>2
<1> QED BY <1>4, <1>5, <1>6, <1>7 DEF Handles

\* Those let through are some of the requests.
LEMMA ThroughFinite ==
    ASSUME NEW s, NEW w
    PROVE  IsFiniteSet(Through(s, w)) /\ Cardinality(Through(s, w)) \in Nat
<1>1. Through(s, w) \in SUBSET Requests
  BY DEF Through
<1> QED BY <1>1, FS_Subset, FS_CardinalityType

\* Whoever is let through is counted in the same step, in a store that is exact.
LEMMA AllCountedStep ==
    ASSUME GlobalInv, NEW r \in Requests, Handles(r)
    PROVE  AllCounted'
<1> SUFFICES ASSUME NEW s \in Stores, NEW w \in Windows, Exact(s)'
             PROVE  /\ Cardinality(Through(s, w)') <= counted'[s][w]
                    /\ Cardinality(Through(s, w)') <= GlobalMax
  BY DEF AllCounted
<1>1. Shape(r) /\ TypeInv /\ NotBegun
  BY HandlesShape DEF GlobalInv
<1>2. Exact(s)
  BY <1>1, ExactStays DEF Shape, Others
<1>3. /\ Cardinality(Through(s, w)) <= counted[s][w] /\ Cardinality(Through(s, w)) <= GlobalMax
  BY <1>2 DEF GlobalInv, AllCounted
<1>4. /\ \A q \in Requests \ {r} : At(q)' = At(q) /\ answer'[q] = answer[q]
      /\ At(r)' = clock
      /\ step[r] # "free" => At(r) = clock
  BY <1>1, AtStays DEF Shape, Others
<1>5. /\ IsFiniteSet(Through(s, w)) /\ Cardinality(Through(s, w)) \in Nat
      /\ Cardinality(Through(s, w)') \in Nat
  <2>1. Through(s, w)' \in SUBSET Requests
    BY DEF Through
  <2> QED BY <2>1, ThroughFinite, FS_Subset, FS_CardinalityType
<1>6. /\ counted \in [Stores -> [Windows -> Nat]] /\ Window(clock) \in Windows
      /\ GlobalMax \in Nat
  <2>1. /\ counted \in [Stores -> [Windows -> 0 .. Cardinality(Requests)]]
        /\ Window(clock) \in Windows /\ Cardinality(Requests) \in Nat
    BY <1>1, Typed DEF TypeInv
  <2> QED BY <2>1
<1>7. \A x \in Stores, n \in Nat : Counts(x, n) =>
          counted'[s][w] = IF x = s /\ w = Window(clock) THEN n ELSE counted[s][w]
  BY <1>6 DEF Counts
<1>8. ASSUME Through(s, w)' \subseteq Through(s, w)
      PROVE  Cardinality(Through(s, w)') <= Cardinality(Through(s, w))
  <2>1. Through(s, w)' \in SUBSET Through(s, w)
    BY <1>8
  <2> QED BY <1>5, <2>1, FS_Subset
<1>9. CASE \E x \in Stores, n \in Nat :
              /\ answer'[r].global = x /\ step[r] # "free" /\ Counts(x, n)
              /\ Exact(x) => n = counted[x][Window(clock)] + 1
              /\ n <= GlobalMax
  <2>1. PICK x \in Stores, n \in Nat :
              /\ answer'[r].global = x /\ step[r] # "free" /\ Counts(x, n)
              /\ Exact(x) => n = counted[x][Window(clock)] + 1
              /\ n <= GlobalMax
    BY <1>9
  <2>2. CASE x = s /\ w = Window(clock)
    <3>1. Through(s, w)' \in SUBSET (Through(s, w) \cup {r})
      BY <1>4 DEF Through
    <3>2. /\ IsFiniteSet(Through(s, w) \cup {r})
          /\ Cardinality(Through(s, w) \cup {r}) <= Cardinality(Through(s, w)) + 1
          /\ Cardinality(Through(s, w) \cup {r}) \in Nat
      <4>1. /\ IsFiniteSet(Through(s, w) \cup {r})
            /\ Cardinality(Through(s, w) \cup {r}) =
                  IF r \in Through(s, w) THEN Cardinality(Through(s, w))
                                         ELSE Cardinality(Through(s, w)) + 1
        BY <1>5, FS_AddElement
      <4> QED BY <1>5, <4>1
    <3>3. Cardinality(Through(s, w)') <= Cardinality(Through(s, w) \cup {r})
      BY <3>1, <3>2, FS_Subset
    <3>4. n = counted[s][w] + 1 /\ counted'[s][w] = n /\ counted[s][w] \in Nat
      BY <1>2, <1>6, <1>7, <2>1, <2>2
    <3>5. n <= GlobalMax
      BY <2>1
    <3> QED BY <1>3, <1>5, <1>6, <3>2, <3>3, <3>4, <3>5
  <2>3. CASE ~(x = s /\ w = Window(clock))
    <3>1. Through(s, w)' \subseteq Through(s, w)
      BY <1>4, <2>1, <2>3 DEF Through
    <3>2. counted'[s][w] = counted[s][w] /\ counted[s][w] \in Nat
      BY <1>6, <1>7, <2>1, <2>3
    <3> QED BY <1>3, <1>5, <1>6, <1>8, <3>1, <3>2
  <2> QED BY <2>2, <2>3
<1>10. CASE /\ answer'[r].global = answer[r].global
            /\ \/ UNCHANGED counted
               \/ \E x \in Stores, n \in Nat :
                     Counts(x, n) /\ (Exact(x) => n = counted[x][Window(clock)] + 1)
  <2>1. Through(s, w)' \subseteq Through(s, w)
    <3>1. answer[r].global = s => step[r] # "free"
      BY <1>1 DEF NotBegun, Shape, Stores
    <3> QED BY <1>4, <1>10, <3>1 DEF Through
  <2>2. counted'[s][w] >= counted[s][w] /\ counted[s][w] \in Nat /\ counted'[s][w] \in Nat
    <3>1. CASE UNCHANGED counted
      BY <1>6, <3>1
    <3>2. CASE \E x \in Stores, n \in Nat :
                  Counts(x, n) /\ (Exact(x) => n = counted[x][Window(clock)] + 1)
      <4>1. PICK x \in Stores, n \in Nat :
                  Counts(x, n) /\ (Exact(x) => n = counted[x][Window(clock)] + 1)
        BY <3>2
      <4>2. counted'[s][w] = IF x = s /\ w = Window(clock) THEN n ELSE counted[s][w]
        BY <1>7, <4>1
      <4>3. x = s => n = counted[s][Window(clock)] + 1
        BY <1>2, <4>1
      <4> QED BY <1>6, <4>2, <4>3
    <3> QED BY <1>10, <3>1, <3>2
  <2> QED BY <1>3, <1>5, <1>6, <1>8, <2>1, <2>2
<1> QED BY <1>9, <1>10, GlobalEffects

\* The stores are exact from the start, and stay so while time passes.
LEMMA SerialRest ==
    /\ LimitInit => Serial /\ NotBegun
    /\ TypeInv /\ Serial /\ NotBegun /\ Tick => Serial' /\ NotBegun'
    /\ Serial /\ NotBegun /\ UNCHANGED limitVars => Serial' /\ NotBegun'
<1>1. LimitInit => Serial /\ NotBegun
  BY DEF LimitInit, Serial, NotBegun
<1>2. ASSUME TypeInv, Serial, NotBegun, Tick PROVE Serial' /\ NotBegun'
  <2>1. /\ \A r \in Requests : step'[r] = "free"
        /\ step' = step /\ answer' = answer
    BY <1>2, TickShape
  <2> QED BY <1>2, <2>1 DEF Serial, NotBegun
<1>3. ASSUME Serial, NotBegun, UNCHANGED limitVars PROVE Serial' /\ NotBegun'
  <2>1. UNCHANGED <<useRedis, worker, clock, stored, counted, step, got, tally, answer>>
    BY <1>3 DEF limitVars
  <2>2. (Exact("dict")' <=> Exact("dict")) /\ Listed("dict")' = Listed("dict")
    BY <2>1 DEF Exact, Listed
  <2> QED BY <1>3, <2>1, <2>2 DEF Serial, NotBegun
<1> QED BY <1>1, <1>2, <1>3

\* Nobody was let through at the start.
LEMMA GlobalInit == LimitInit => GlobalInv
<1> SUFFICES ASSUME LimitInit PROVE GlobalInv
  OBVIOUS
<1>1. \A s \in Stores : \A w : Through(s, w) = {}
  BY DEF LimitInit, Through, Stores
<1>2. \A s \in Stores, w \in Windows : counted[s][w] = 0
  BY DEF LimitInit, Windows
<1>3. AllCounted
  BY <1>1, <1>2, FS_EmptySet DEF AllCounted
<1> QED BY <1>3, TypeInit, SerialRest DEF GlobalInv

\* Every step keeps those let through counted.
LEMMA GlobalNext == GlobalInv /\ [LimitNext]_limitVars => GlobalInv'
<1> SUFFICES ASSUME GlobalInv, [LimitNext]_limitVars PROVE GlobalInv'
  OBVIOUS
<1>0. TypeInv /\ Serial /\ NotBegun /\ AllCounted /\ TypeInv'
  BY TypeNext DEF GlobalInv
<1>1. CASE Tick
  <2>1. /\ \A r \in Requests : At(r)' = At(r)
        /\ UNCHANGED <<useRedis, worker, counted, answer>>
    BY <1>0, <1>1, TickShape DEF At
  <2>2. \A s, w : Through(s, w)' = Through(s, w)
    BY <2>1 DEF Through
  <2>3. AllCounted'
    BY <1>0, <2>1, <2>2, ExactStays DEF AllCounted
  <2> QED BY <1>0, <1>1, <2>3, SerialRest DEF GlobalInv
<1>2. CASE \E r \in Requests : Handles(r)
  BY <1>0, <1>2, SerialStep, NotBegunStep, AllCountedStep DEF GlobalInv
<1>3. CASE UNCHANGED limitVars
  <2>1. UNCHANGED <<useRedis, worker, counted, answer>> /\ \A r : At(r)' = At(r)
    BY <1>3 DEF limitVars, At
  <2>2. \A s, w : Through(s, w)' = Through(s, w)
    BY <2>1 DEF Through
  <2>3. AllCounted'
    BY <1>0, <2>1, <2>2, ExactStays DEF AllCounted
  <2> QED BY <1>0, <1>3, <2>3, SerialRest DEF GlobalInv
<1> QED BY <1>1, <1>2, <1>3 DEF LimitNext

\* They are in every state.
LEMMA GlobalHolds == LimitSpec => []GlobalInv
<1>1. LimitInit => GlobalInv
  BY GlobalInit
<1>2. GlobalInv /\ [LimitNext]_limitVars => GlobalInv'
  BY GlobalNext
<1> QED BY <1>1, <1>2, PTL DEF LimitSpec

\* A period shorter than the delay is within two windows.
LEMMA TwoWindows ==
    ASSUME NEW t \in Clocks, NEW u \in Clocks, u \in t .. (t + Fine * Delay - 1)
    PROVE  Window(u) \in {Window(t), Window(t) + 1}
<1>1. /\ t \in Nat /\ u \in Nat /\ t <= u /\ u < t + Fine * Delay
      /\ Delay \in Nat \ {0} /\ Fine \in Nat \ {0} /\ Fine * Delay \in Nat
  BY Clock
<1>2. Second(t) \in Nat /\ Second(u) \in Nat /\ Window(t) \in Nat /\ Window(u) \in Nat
  BY Clock
<1>3. Window(t) <= Window(u)
  <2>1. t < u + Fine * 1
    BY <1>1
  <2>2. Second(t) <= Second(u) + 1
    BY <1>1, <2>1, DivisionMonotone DEF Second
  <2>3. Second(t) <= Second(u)
    <3>1. /\ Fine * Second(t) <= t /\ u < Fine * Second(u) + Fine
      BY <1>1, Division DEF Second
    <3>2. Fine * Second(t) < Fine * Second(u) + Fine
      BY <1>1, <1>2, <3>1
    <3>3. CASE Second(t) = Second(u) + 1
      <4>1. Fine * Second(t) = Fine * Second(u) + Fine
        BY <1>1, <1>2, <3>3
      <4> QED BY <1>1, <1>2, <3>2, <4>1
    <3> QED BY <1>2, <2>2, <3>3
  <2>4. Second(t) < Second(u) + Delay * 1
    BY <1>1, <1>2, <2>3
  <2>5. Window(t) <= Window(u) + 1
    BY <1>1, <1>2, <2>4, DivisionMonotone DEF Window
  <2>6. CASE Window(t) = Window(u) + 1
    <3>1. Delay * Window(t) <= Second(t) /\ Second(u) < Delay * Window(u) + Delay
      BY <1>1, <1>2, Division DEF Window
    <3>2. Delay * Window(t) = Delay * Window(u) + Delay
      BY <1>1, <1>2, <2>6
    <3> QED BY <1>1, <1>2, <2>3, <3>1, <3>2
  <2> QED BY <1>2, <2>5, <2>6
<1>4. Window(u) <= Window(t) + 1
  <2>1. Second(t) < Delay * Window(t) + Delay
    BY <1>1, <1>2, Division DEF Window
  <2>2. t < Fine * Second(t) + Fine
    BY <1>1, Division DEF Second
  <2>3. Fine * Second(u) <= u
    BY <1>1, Division DEF Second
  <2>4. Second(t) + 1 <= Delay * Window(t) + Delay
    BY <1>1, <1>2, <2>1
  <2>5. Fine * (Second(t) + 1) <= Fine * (Delay * Window(t) + Delay)
    BY <1>1, <1>2, <2>4
  <2>6. Fine * Second(u) < Fine * (Delay * Window(t) + Delay) + Fine * Delay
    BY <1>1, <1>2, <2>2, <2>3, <2>5
  <2>7. Second(u) < Delay * Window(t) + Delay + Delay
    <3> DEFINE k == Delay * Window(t) + Delay + Delay
    <3>1. k \in Nat /\ Fine * Second(u) < Fine * k
      BY <1>1, <1>2, <2>6
    <3> HIDE DEF k
    <3>2. ASSUME Second(u) >= k PROVE FALSE
      <4>1. Fine * Second(u) >= Fine * k
        BY <1>1, <1>2, <3>1, <3>2
      <4> QED BY <1>1, <1>2, <3>1, <4>1
    <3>3. Second(u) < k
      BY <1>2, <3>1, <3>2
    <3> QED BY <3>3 DEF k
  <2>8. Delay * Window(u) <= Second(u)
    BY <1>1, <1>2, Division DEF Window
  <2>9. Delay * Window(u) < Delay * (Window(t) + 2)
    BY <1>1, <1>2, <2>7, <2>8
  <2>10. CASE Window(u) >= Window(t) + 2
    <3>1. Delay * Window(u) >= Delay * (Window(t) + 2)
      BY <1>1, <1>2, <2>10
    <3> QED BY <1>1, <1>2, <2>9, <3>1
  <2> QED BY <1>2, <2>10
<1> QED BY <1>2, <1>3, <1>4

\* "fixed window allows ~2x rate right at a window boundary" (limit.lua:430): for any number of
\* requests, any rate and delay, a store that is exact (Redis, whatever calls to it fail, or the
\* dictionary of a single worker) lets GlobalMax pass in a window and twice as many in a period
\* of the same length.
THEOREM GlobalRate == LimitSpec => []GlobalHeld
<1>1. ASSUME GlobalInv PROVE GlobalHeld
  <2> DEFINE P(s, T) == {r \in Requests : /\ answer[r].global = s /\ answer[r].is # "none"
                                          /\ answer[r].at \in T}
  <2> SUFFICES ASSUME NEW s \in Stores, NEW t \in Clocks, Exact(s)
               PROVE  /\ Cardinality(P(s, {u \in Clocks : Window(u) = Window(t)})) <= GlobalMax
                      /\ Cardinality(P(s, t .. (t + Fine * Delay - 1))) <= 2 * GlobalMax
    BY DEF GlobalHeld
  <2>1. \A r \in Requests : answer[r].is # "none" => At(r) = answer[r].at /\ answer[r].at \in Clocks
    BY <1>1 DEF GlobalInv, TypeInv, LimitTypeOK, Undecided, At
  <2>2. ASSUME NEW w \in Windows PROVE Cardinality(Through(s, w)) <= GlobalMax
    BY <1>1, <2>2 DEF GlobalInv, AllCounted
  <2>3. \A w : IsFiniteSet(Through(s, w)) /\ Cardinality(Through(s, w)) \in Nat
    BY ThroughFinite
  <2>4. Window(t) \in Windows /\ GlobalMax \in Nat
    BY DEF Windows
  <2>5. Cardinality(P(s, {u \in Clocks : Window(u) = Window(t)})) <= GlobalMax
    <3>1. P(s, {u \in Clocks : Window(u) = Window(t)}) \in SUBSET Through(s, Window(t))
      BY <2>1 DEF Through
    <3>2. IsFiniteSet(P(s, {u \in Clocks : Window(u) = Window(t)}))
      BY <2>3, <3>1, FS_Subset
    <3> HIDE DEF P
    <3>3. /\ Cardinality(P(s, {u \in Clocks : Window(u) = Window(t)})) <=
                Cardinality(Through(s, Window(t)))
          /\ Cardinality(P(s, {u \in Clocks : Window(u) = Window(t)})) \in Nat
      BY <2>3, <3>1, <3>2, FS_Subset, FS_CardinalityType
    <3> QED BY <2>2, <2>3, <2>4, <3>3
  <2>6. Cardinality(P(s, t .. (t + Fine * Delay - 1))) <= 2 * GlobalMax
    <3> DEFINE next == {r \in Through(s, Window(t) + 1) : TRUE}
    <3>1. IsFiniteSet(next) /\ Cardinality(next) \in Nat /\ Cardinality(next) <= GlobalMax
      <4>1. CASE Window(t) + 1 \in Windows
        BY <2>2, <2>3, <4>1
      <4>2. CASE Window(t) + 1 \notin Windows
        <5>1. \A r \in Requests : At(r) \in Clocks
          BY <1>1 DEF GlobalInv, TypeInv, LimitTypeOK, At
        <5>2. next = {}
          BY <4>2, <5>1 DEF Through, Windows
        <5> QED BY <2>4, <5>2, FS_EmptySet
      <4> QED BY <4>1, <4>2
    <3> DEFINE both == Through(s, Window(t)) \cup next
    <3>2. P(s, t .. (t + Fine * Delay - 1)) \in SUBSET both
      <4>1. ASSUME NEW r \in P(s, t .. (t + Fine * Delay - 1)) PROVE r \in both
        <5>1. /\ r \in Requests /\ answer[r].global = s /\ answer[r].at \in Clocks
              /\ At(r) = answer[r].at /\ answer[r].at \in t .. (t + Fine * Delay - 1)
          BY <2>1
        <5>2. Window(answer[r].at) \in {Window(t), Window(t) + 1}
          BY <5>1, TwoWindows
        <5> QED BY <5>1, <5>2 DEF Through
      <4> QED BY <4>1
    <3> HIDE DEF next
    <3>3. /\ IsFiniteSet(both) /\ Cardinality(both) \in Nat
          /\ Cardinality(both) <= Cardinality(Through(s, Window(t))) + Cardinality(next)
      <4> DEFINE here == Through(s, Window(t))
      <4>1. IsFiniteSet(here) /\ Cardinality(here) \in Nat
        BY <2>3
      <4> HIDE DEF here
      <4>2. /\ IsFiniteSet(here \cup next)
            /\ Cardinality(here \cup next) =
                  Cardinality(here) + Cardinality(next) - Cardinality(here \cap next)
        BY <3>1, <4>1, FS_Union
      <4>3. Cardinality(here \cap next) \in Nat
        <5>1. here \cap next \in SUBSET here
          OBVIOUS
        <5> QED BY <4>1, <5>1, FS_Subset, FS_CardinalityType
      <4>4. Cardinality(here \cup next) \in Nat
        BY <4>2, FS_CardinalityType
      <4> QED BY <3>1, <4>1, <4>2, <4>3, <4>4 DEF here
    <3> HIDE DEF both, P
    <3>4. /\ Cardinality(P(s, t .. (t + Fine * Delay - 1))) <= Cardinality(both)
          /\ Cardinality(P(s, t .. (t + Fine * Delay - 1))) \in Nat
      BY <3>2, <3>3, FS_Subset, FS_CardinalityType
    <3>5. Cardinality(Through(s, Window(t))) <= GlobalMax
      BY <2>2, <2>4
    <3> QED BY <2>3, <2>4, <3>1, <3>3, <3>4, <3>5
  <2> QED BY <2>5, <2>6
<1>2. LimitSpec => []GlobalInv
  BY GlobalHolds
<1> QED BY <1>1, <1>2, PTL

(***************************************************************************)
(* The entries of the lists.                                               *)
(***************************************************************************)
\* Whoever is in a list has been written down: now, if its request is under way, or when it was
\* answered.  It writes itself into the dictionary last.
Owned(e) ==
    \/ step[e.by] = "copy" /\ e.at = Now
    \/ step[e.by] \in {"urlLocal", "urlSet"} /\ e.of = "redis" /\ e.at = Now
    \/ /\ step[e.by] = "free" /\ answer[e.by].is \in {"passed", "limited", "failed"}
       /\ e.at = Second(answer[e.by].at)

InLists(e) == (\E s \in Stores : e \in stored[s].list) \/ \E r \in Requests : e \in got[r]

Owners == \A e \in Entries : InLists(e) => Owned(e)

\* the entry a step may add
Added(r, e) ==
    \/ e = Entry(r, "redis", Now) /\ step[r] = "url" /\ step'[r] \in {"copy", "urlLocal"}
    \/ /\ e = Entry(r, "dict", Now) /\ step[r] = "urlSet" /\ step'[r] = "free"
       /\ answer'[r].is \in {"passed", "limited"}

\* Lists are made from lists and the entry of the request.
LEMMA MadeFrom ==
    ASSUME NEW list, NEW r, NEW s
    PROVE  /\ \A e \in Listed(s) : e \in stored[s].list
           /\ \A e \in NewTimestamps(list, r, s) : e \in list \/ e = Entry(r, s, Now)
BY DEF Listed, NewTimestamps, Kept, Entry

\* What is written to a store was there, was read, or is the entry of the request.
LEMMA UpdatesMake ==
    ASSUME LimitTypeOK, NEW r, NEW s \in Stores, NEW list, Updates(r, s, list)
    PROVE  \A x \in Stores : \A e \in stored'[x].list :
              e \in stored[x].list \/ e \in list \/ e = Entry(r, s, Now)
<1>1. CASE stored' = stored
  BY <1>1
<1>2. CASE stored' = [stored EXCEPT ![s] = [list |-> NewTimestamps(list, r, s),
                                            until |-> clock + Fine * Delay]]
  <2>1. \A x \in Stores : stored'[x].list = IF x = s THEN NewTimestamps(list, r, s)
                                                     ELSE stored[x].list
    BY <1>2, Typed
  <2> QED BY <2>1, MadeFrom
<1> QED BY <1>1, <1>2 DEF Updates

\* A step of a request adds its own entry at most, to all the lists together.
LEMMA ListsGrow ==
    ASSUME TypeInv, NEW r \in Requests, Handles(r), NEW e \in Entries
    PROVE  InLists(e)' => InLists(e) \/ Added(r, e)
<1>0. /\ LimitTypeOK /\ "redis" \in Stores /\ "dict" \in Stores
  BY DEF TypeInv, Stores
<1>1. Shape(r)
  BY HandlesShape
<1>2. /\ \A x : StepsTo(r, x) => step'[r] = x
      /\ \A x : Got(r, x) => got'[r] = x /\ \A q \in Requests \ {r} : got'[q] = got[q]
  BY <1>0 DEF LimitTypeOK, StepsTo, Got
<1>3. CASE UrlRedis(r)
  <2>1. /\ Updates(r, "redis", Listed("redis")) /\ step[r] = "url" /\ step'[r] = "copy"
        /\ got'[r] = NewTimestamps(Listed("redis"), r, "redis")
        /\ \A q \in Requests \ {r} : got'[q] = got[q]
    BY <1>2, <1>3 DEF UrlRedis
  <2>2. \A x \in Stores : \A y \in stored'[x].list :
            y \in stored[x].list \/ y \in Listed("redis") \/ y = Entry(r, "redis", Now)
    BY <1>0, <2>1, UpdatesMake
  <2> QED BY <1>0, <2>1, <2>2, MadeFrom DEF InLists, Added
<1>4. CASE UrlRedisFails(r)
  <2>1. /\ UNCHANGED stored \/ Updates(r, "redis", Listed("redis"))
        /\ step[r] = "url" /\ step'[r] = "urlLocal" /\ got' = got
    BY <1>2, <1>4 DEF UrlRedisFails
  <2>2. \A x \in Stores : \A y \in stored'[x].list :
            y \in stored[x].list \/ y \in Listed("redis") \/ y = Entry(r, "redis", Now)
    BY <1>0, <2>1, UpdatesMake
  <2> QED BY <1>0, <2>1, <2>2, MadeFrom DEF InLists, Added
<1>5. CASE UrlSet(r)
  <2>1. CASE CallFails(r)
    <3>1. UNCHANGED stored /\ Got(r, {})
      BY <2>1 DEF CallFails, Decides
    <3> QED BY <1>2, <3>1 DEF InLists
  <2>2. CASE ~CallFails(r)
    <3> DEFINE v == Verdict(NewTimestamps(got[r], r, "dict"))
    <3>1. /\ Updates(r, "dict", got[r]) /\ step[r] = "urlSet" /\ Decides(r, v, "dict")
      BY <1>5, <2>2 DEF UrlSet
    <3>2. v \in {"passed", "limited"}
      BY DEF Verdict
    <3> HIDE DEF v
    <3>3. /\ step'[r] = "free" /\ answer'[r].is = v /\ got'[r] = {}
          /\ \A q \in Requests \ {r} : got'[q] = got[q]
      BY <1>0, <3>1, <3>2, DecidesOn DEF Verdicts
    <3>4. \A x \in Stores : \A y \in stored'[x].list :
              y \in stored[x].list \/ y \in got[r] \/ y = Entry(r, "dict", Now)
      BY <1>0, <3>1, UpdatesMake
    <3> QED BY <3>1, <3>2, <3>3, <3>4 DEF InLists, Added
  <2> QED BY <2>1, <2>2
<1>6. CASE Copy(r)
  <2>1. /\ got'[r] = {} /\ \A q \in Requests \ {r} : got'[q] = got[q]
        /\ \/ UNCHANGED stored
           \/ stored' = [stored EXCEPT !["dict"] = [list |-> got[r], until |-> Never]]
    BY <1>2, <1>6 DEF Copy, CallFails, Decides
  <2>2. \A x \in Stores : \A y \in stored'[x].list : y \in stored[x].list \/ y \in got[r]
    BY <1>0, <2>1, Typed
  <2> QED BY <2>1, <2>2 DEF InLists
<1>7. CASE UrlRead(r)
  <2>1. /\ UNCHANGED stored /\ \A q \in Requests \ {r} : got'[q] = got[q]
        /\ got'[r] = {} \/ got'[r] = Listed("dict")
    BY <1>2, <1>7 DEF UrlRead, CallFails, Decides
  <2>2. \A y \in Listed("dict") : y \in stored["dict"].list
    BY DEF Listed
  <2> QED BY <1>0, <2>1, <2>2 DEF InLists
<1>8. CASE Request(r) \/ GlobalRedis(r) \/ GlobalRedisFails(r) \/ GlobalRead(r) \/ GlobalSet(r)
  <2>1. /\ UNCHANGED stored /\ \A q \in Requests \ {r} : got'[q] = got[q]
        /\ got'[r] = {} \/ got'[r] = got[r]
    BY <1>2, <1>8 DEF Request, GlobalRedis, GlobalRedisFails, GlobalRead, GlobalSet, GlobalDecides,
                      Decides, CallFails
  <2> QED BY <2>1 DEF InLists
<1> QED BY <1>3, <1>4, <1>5, <1>6, <1>7, <1>8 DEF Handles

\* So everybody in a list stays one who was written down.
LEMMA OwnersStep ==
    ASSUME TypeInv, Owners, NEW r \in Requests, Handles(r)
    PROVE  Owners'
<1>0. Shape(r) /\ clock' = clock /\ Now' = Now
  BY HandlesShape DEF Shape, Others, Now
<1>1. \A e \in Entries : e.by \in Requests
  BY DEF Entries
<1>2. step[r] \in {"copy", "urlLocal", "urlSet"} /\ step'[r] = "free" =>
          answer'[r].is \in {"passed", "limited", "failed"}
  <2>1. \A v \in Verdicts, s \in Stores : Decides(r, v, s) => answer'[r].is = v
    BY DecidesOn DEF TypeInv
  <2>2. \A list : Verdict(list) \in {"passed", "limited"}
    BY DEF Verdict
  <2>3. /\ "redis" \in Stores /\ "dict" \in Stores
        /\ {"passed", "limited", "failed"} \subseteq Verdicts
        /\ \A x : StepsTo(r, x) => step'[r] = x
    BY DEF TypeInv, LimitTypeOK, Stores, Verdicts, StepsTo
  <2> QED BY <2>1, <2>2, <2>3
          DEF Handles, Request, GlobalRedis, GlobalRedisFails, GlobalRead, GlobalSet, UrlRedis,
              UrlRedisFails, Copy, UrlRead, UrlSet, CallFails
<1>3. ASSUME NEW e \in Entries, Owned(e) PROVE Owned(e)'
  <2>1. CASE e.by # r
    BY <1>0, <1>1, <1>3, <2>1 DEF Shape, Others, Owned
  <2>2. CASE e.by = r
    <3>1. step[r] \in {"copy", "urlLocal", "urlSet"}
      BY <1>0, <1>3, <2>2 DEF Owned, Shape
    <3>2. e.at = Now /\ (step[r] # "copy" => e.of = "redis")
      BY <1>3, <2>2, <3>1 DEF Owned
    <3>3. CASE step'[r] = "free"
      BY <1>0, <1>2, <2>2, <3>1, <3>2, <3>3 DEF Owned, Shape, Now
    <3>4. CASE step'[r] # "free"
      <4>1. step'[r] = "urlSet" /\ step[r] # "copy"
        BY <3>1, <3>4, Transitions
      <4> QED BY <1>0, <2>2, <3>2, <4>1 DEF Owned
    <3> QED BY <3>3, <3>4
  <2> QED BY <2>1, <2>2
<1>4. ASSUME NEW e \in Entries, Added(r, e) PROVE Owned(e)'
  <2>1. CASE e = Entry(r, "redis", Now) /\ step'[r] \in {"copy", "urlLocal"}
    BY <1>0, <2>1 DEF Entry, Owned
  <2>2. CASE e = Entry(r, "dict", Now) /\ step'[r] = "free"
             /\ answer'[r].is \in {"passed", "limited"}
    BY <1>0, <2>2 DEF Entry, Owned, Shape, Now
  <2> QED BY <1>4, <2>1, <2>2 DEF Added
<1> QED BY <1>3, <1>4, ListsGrow DEF Owners

\* Entries are owned from the start, and while time passes.
LEMMA OwnersRest ==
    /\ LimitInit => Owners
    /\ TypeInv /\ Owners /\ Tick => Owners'
    /\ Owners /\ UNCHANGED limitVars => Owners'
<1>1. LimitInit => Owners
  <2> SUFFICES ASSUME LimitInit PROVE \A e : ~InLists(e)
    BY DEF Owners
  <2> QED BY DEF LimitInit, InLists, Missing
<1>2. ASSUME TypeInv, Owners, Tick PROVE Owners'
  <2>1. UNCHANGED <<stored, step, got, answer>> /\ \A r \in Requests : step[r] = "free"
    BY <1>2 DEF Tick
  <2>2. \A e \in Entries : e.by \in Requests /\ (InLists(e)' <=> InLists(e))
    BY <2>1 DEF Entries, InLists
  <2> QED BY <1>2, <2>1, <2>2 DEF Owners, Owned
<1>3. ASSUME Owners, UNCHANGED limitVars PROVE Owners'
  BY <1>3 DEF limitVars, Owners, Owned, InLists, Now
<1> QED BY <1>1, <1>2, <1>3

(***************************************************************************)
(* The rate of the URI.                                                    *)
(***************************************************************************)
\* the requests that store s has let pass, or is about to
Passing(s) ==
    {r \in Requests :
        \/ step[r] = "free" /\ answer[r].is = "passed" /\ answer[r].by = s
        \/ s = "redis" /\ step[r] = "copy" /\ Cardinality(got[r]) <= RateMax}
Within(s, t) == {r \in Passing(s) : At(r) \in t .. (t + Fine * Delay - 1)}

\* An exact store knows those of the last Delay seconds, and does not forget them sooner.
Remembered ==
    \A s \in Stores : Exact(s) =>
        \A r \in Passing(s) : clock < At(r) + Fine * Delay =>
            /\ Entry(r, s, Second(At(r))) \in stored[s].list
            /\ At(r) + Fine * Delay <= stored[s].until

Bounded == \A s \in Stores, t \in Clocks : Exact(s) => Cardinality(Within(s, t)) <= RateMax

RateInv == TypeInv /\ Serial /\ NotBegun /\ Owners /\ Remembered /\ Bounded

\* what a step of a request does to an exact store: nothing, or it writes itself into the list
LEMMA RateEffects ==
    ASSUME TypeInv, Serial, NEW r \in Requests, Handles(r),
           NEW s \in Stores, Exact(s)
    PROVE  \/ stored'[s] = stored[s] /\ Passing(s)' \subseteq Passing(s)
           \/ /\ Updates(r, s, Listed(s))
              /\ <<s, step[r]>> \in {<<"redis", "url">>, <<"dict", "urlSet">>}
              /\ Passing(s)' \subseteq Passing(s) \cup {r}
              /\ r \in Passing(s)' => Cardinality(NewTimestamps(Listed(s), r, s)) <= RateMax
<1>0. /\ LimitTypeOK /\ Stores = {"redis", "dict"} /\ (s = "dict" => ~useRedis)
      /\ "limited" \in Verdicts /\ "passed" \in Verdicts
  BY DEF TypeInv, Stores, Verdicts, Exact
<1>1. Passing(s)' \subseteq Passing(s) \cup {r}
  BY HandlesShape DEF Shape, Others, Passing
<1>2. /\ \A x : StepsTo(r, x) => step'[r] = x
      /\ \A x : Got(r, x) => got'[r] = x
  BY <1>0 DEF LimitTypeOK, StepsTo, Got
<1>3. \A v, x : Decides(r, v, x) =>
          step'[r] = "free" /\ answer'[r].is = v /\ answer'[r].by = x
  BY <1>0 DEF LimitTypeOK, Decides, StepsTo
<1>4. CallFails(r) => r \notin Passing(s)' /\ stored' = stored
  BY <1>3 DEF CallFails, Passing
<1>5. CASE UrlRedis(r)
  <2>1. /\ s = "redis" /\ step[r] = "url" /\ step'[r] = "copy"
        /\ got'[r] = NewTimestamps(Listed("redis"), r, "redis")
        /\ Updates(r, "redis", Listed("redis"))
    BY <1>0, <1>2, <1>5 DEF UrlRedis
  <2>2. r \in Passing(s)' => Cardinality(NewTimestamps(Listed(s), r, s)) <= RateMax
    BY <2>1 DEF Passing
  <2> QED BY <1>1, <2>1, <2>2
<1>6. CASE UrlRedisFails(r)
  <2>1. /\ s = "redis" /\ step[r] = "url" /\ step'[r] = "urlLocal"
        /\ UNCHANGED stored \/ Updates(r, "redis", Listed("redis"))
    BY <1>0, <1>2, <1>6 DEF UrlRedisFails
  <2>2. r \notin Passing(s)'
    BY <2>1 DEF Passing
  <2> QED BY <1>1, <2>1, <2>2
<1>7. CASE Copy(r)
  <2>1. s = "redis" /\ step[r] = "copy"
    BY <1>0, <1>7 DEF Copy, Serial
  <2>2. CASE CallFails(r)
    BY <1>1, <1>4, <2>2
  <2>3. CASE ~CallFails(r)
    <3>1. /\ stored' = [stored EXCEPT !["dict"] = [list |-> got[r], until |-> Never]]
          /\ Decides(r, Verdict(got[r]), "redis")
      BY <1>7, <2>3 DEF Copy
    <3>2. stored'[s] = stored[s]
      BY <1>0, <2>1, <3>1, Typed
    <3>3. answer'[r].is = Verdict(got[r]) /\ step'[r] = "free"
      BY <1>3, <3>1
    <3>4. r \in Passing(s)' => ~(Cardinality(got[r]) > RateMax)
      BY <3>3 DEF Passing, Verdict
    <3>5. Cardinality(got[r]) \in Nat /\ RateMax \in Nat
      BY FS_CardinalityType DEF TypeInv, Finite
    <3>6. r \in Passing(s)' => r \in Passing(s)
      BY <2>1, <3>4, <3>5 DEF Passing
    <3> QED BY <1>1, <3>2, <3>6
  <2> QED BY <2>2, <2>3
<1>8. CASE UrlSet(r)
  <2>1. CASE CallFails(r)
    BY <1>1, <1>4, <2>1
  <2>2. CASE ~CallFails(r)
    <3> DEFINE v == Verdict(NewTimestamps(got[r], r, "dict"))
    <3>1. step[r] = "urlSet" /\ Updates(r, "dict", got[r]) /\ Decides(r, v, "dict")
      BY <1>8, <2>2 DEF UrlSet
    <3>2. step'[r] = "free" /\ answer'[r].is = v /\ answer'[r].by = "dict"
      BY <1>3, <3>1
    <3>3. CASE s = "redis"
      <4>1. r \notin Passing(s)'
        BY <3>2, <3>3 DEF Passing
      <4>2. stored'[s] = stored[s]
        BY <1>0, <3>1, <3>3, Typed DEF Updates
      <4> QED BY <1>1, <4>1, <4>2
    <3>4. CASE s = "dict"
      <4>1. got[r] = Listed("dict")
        BY <3>1, <3>4 DEF Serial
      <4>2. r \in Passing(s)' => ~(Cardinality(NewTimestamps(Listed(s), r, s)) > RateMax)
        BY <3>2, <3>4, <4>1 DEF Passing, Verdict
      <4>3. /\ Cardinality(NewTimestamps(Listed(s), r, s)) \in Nat /\ RateMax \in Nat
        BY <1>0, ListedFits, NewFits, FS_CardinalityType DEF LimitTypeOK, Fits
      <4> QED BY <1>1, <3>1, <3>4, <4>1, <4>2, <4>3
    <3> QED BY <1>0, <3>3, <3>4
  <2> QED BY <2>1, <2>2
<1>9. CASE Request(r) \/ GlobalRedis(r) \/ GlobalRedisFails(r) \/ GlobalRead(r) \/ GlobalSet(r)
           \/ UrlRead(r)
  <2>1. stored' = stored
    BY <1>9 DEF Request, GlobalRedis, GlobalRedisFails, GlobalRead, GlobalSet, GlobalDecides,
                UrlRead, CallFails
  <2>2. \/ step'[r] \in {"global", "globalLocal", "globalSet", "url", "urlSet"}
        \/ step'[r] = "free" /\ answer'[r].is \in {"globally", "failed"}
    BY <1>2, <1>3, <1>9
       DEF Request, GlobalRedis, GlobalRedisFails, GlobalRead, GlobalSet, GlobalDecides, UrlRead,
           CallFails
  <2>3. r \notin Passing(s)'
    BY <2>2 DEF Passing
  <2> QED BY <1>1, <2>1, <2>3
<1> QED BY <1>5, <1>6, <1>7, <1>8, <1>9 DEF Handles

\* Whoever passed within the delay is kept when the list is made anew.
LEMMA StillKept ==
    ASSUME TypeInv, Remembered, NEW s \in Stores, Exact(s),
           NEW q \in Passing(s), clock < At(q) + Fine * Delay
    PROVE  /\ Listed(s) = stored[s].list
           /\ Entry(q, s, Second(At(q))) \in Kept(Listed(s))
<1>1. At(q) \in Clocks /\ clock \in Clocks /\ At(q) \in Nat /\ clock \in Nat
  <2>1. At(q) \in Clocks /\ clock \in Clocks
    BY DEF TypeInv, LimitTypeOK, At, Passing
  <2> QED BY <2>1, Clock
<1>2. Entry(q, s, Second(At(q))) \in stored[s].list /\ At(q) + Fine * Delay <= stored[s].until
  BY DEF Remembered
<1>3. Now <= Second(At(q)) + Delay
  BY <1>1, DivisionMonotone DEF Now, Second
<1>4. stored[s].until \in Nat /\ Fine * Delay \in Nat
  BY DEF TypeInv, LimitTypeOK, Never
<1>5. clock <= stored[s].until
  BY <1>1, <1>2, <1>4
<1> QED BY <1>2, <1>3, <1>5 DEF Listed, Kept, Entry

\* A request that an exact store lets pass is not in its list before, so the list is written.
LEMMA Fresh ==
    ASSUME TypeInv, Owners, NEW r \in Requests, NEW s \in Stores,
           <<s, step[r]>> \in {<<"redis", "url">>, <<"dict", "urlSet">>}
    PROVE  Entry(r, s, Now) \notin Listed(s)
<1>1. Entry(r, s, Now) \in Entries
  BY Clock DEF Entry, Entries, Now, TypeInv, LimitTypeOK
<1>2. ~Owned(Entry(r, s, Now))
  BY DEF Owned, Entry
<1>3. ~InLists(Entry(r, s, Now))
  BY <1>1, <1>2 DEF Owners
<1> QED BY <1>3 DEF InLists, Listed

\* A step keeps what is to be remembered; a request that passes leaves a list within the rate.
LEMMA RememberedStep ==
    ASSUME TypeInv, Serial, Owners, Remembered, NEW r \in Requests, Handles(r)
    PROVE  /\ Remembered'
           /\ \A s \in Stores : Exact(s) /\ r \in Passing(s)' \ Passing(s) =>
                  Fits(stored'[s].list) /\ Cardinality(stored'[s].list) <= RateMax
<1>1. /\ clock' = clock /\ Now' = Now /\ clock \in Nat /\ Fine * Delay \in Nat
      /\ \A q \in Requests : At(q) \in Nat
  <2>1. /\ clock' = clock /\ clock \in Clocks /\ \A q \in Requests : At(q) \in Clocks
    BY HandlesShape DEF TypeInv, LimitTypeOK, Shape, Others, At
  <2> QED BY <2>1, Clock DEF Now
<1>2. ASSUME NEW s \in Stores, Exact(s)
      PROVE  /\ \A q \in Passing(s)' : clock < At(q)' + Fine * Delay =>
                    /\ Entry(q, s, Second(At(q)')) \in stored'[s].list
                    /\ At(q)' + Fine * Delay <= stored'[s].until
             /\ r \in Passing(s)' \ Passing(s) =>
                    Fits(stored'[s].list) /\ Cardinality(stored'[s].list) <= RateMax
  <2>1. \A q \in Passing(s) : q \in Requests
    BY DEF Passing
  <2>2. \A q \in Passing(s) : At(q)' = At(q)
    <3>1. r \in Passing(s) => step[r] # "free"
      BY HandlesShape DEF Shape, Passing
    <3> QED BY <2>1, <3>1, AtStays
  <2>3. CASE stored'[s] = stored[s] /\ Passing(s)' \subseteq Passing(s)
    BY <1>2, <2>2, <2>3 DEF Remembered
  <2>4. CASE /\ Updates(r, s, Listed(s))
             /\ <<s, step[r]>> \in {<<"redis", "url">>, <<"dict", "urlSet">>}
             /\ Passing(s)' \subseteq Passing(s) \cup {r}
             /\ r \in Passing(s)' => Cardinality(NewTimestamps(Listed(s), r, s)) <= RateMax
    <3> DEFINE new == NewTimestamps(Listed(s), r, s)
               end == clock + Fine * Delay
    <3>1. /\ Kept(Listed(s)) \subseteq new /\ Fits(new)
          /\ r \in Passing(s)' => Entry(r, s, Now) \in new
      <4>1. Fits(new) /\ Fits(Listed(s))
        BY ListedFits, NewFits DEF TypeInv, LimitTypeOK
      <4>2. Cardinality(new) \in Nat /\ RateMax \in Nat
        BY <4>1, FS_CardinalityType DEF Fits
      <4> QED BY <2>4, <4>1, <4>2 DEF NewTimestamps, Entry
    <3>2. \/ stored' = stored /\ new = Listed(s)
          \/ stored'[s] = [list |-> new, until |-> end] /\ new # Listed(s)
      <4>1. s \in DOMAIN stored
        BY DEF TypeInv, LimitTypeOK
      <4> QED BY <2>4, <4>1 DEF Updates
    <3>3. r \in Passing(s)' => /\ stored'[s] = [list |-> new, until |-> end]
                               /\ Cardinality(new) <= RateMax
      BY <2>4, <3>1, <3>2, Fresh
    <3> HIDE DEF new, end
    <3>4. ASSUME NEW q \in Passing(s)', clock < At(q)' + Fine * Delay
          PROVE  /\ Entry(q, s, Second(At(q)')) \in stored'[s].list
                 /\ At(q)' + Fine * Delay <= stored'[s].until
      <4>1. CASE q \in Passing(s)
        <5>1. At(q)' = At(q) /\ clock < At(q) + Fine * Delay /\ q \in Requests
          BY <2>1, <2>2, <3>4, <4>1
        <5>2. /\ Listed(s) = stored[s].list
              /\ Entry(q, s, Second(At(q))) \in Kept(Listed(s))
          BY <1>2, <4>1, <5>1, StillKept
        <5>3. At(q) + Fine * Delay <= stored[s].until
          BY <1>2, <4>1, <5>1 DEF Remembered
        <5>4. At(q) <= clock
          BY <1>1, <5>1 DEF At, TypeInv, Undecided
        <5>5. At(q) + Fine * Delay <= clock + Fine * Delay
          BY <1>1, <5>1, <5>4
        <5> QED BY <3>1, <3>2, <5>1, <5>2, <5>3, <5>5 DEF end
      <4>2. CASE q \notin Passing(s)
        <5>1. q = r /\ At(q)' = clock
          BY <2>4, <3>4, <4>2, AtStays
        <5>2. stored'[s] = [list |-> new, until |-> end] /\ Entry(r, s, Now) \in new
          BY <3>1, <3>3, <3>4, <5>1
        <5> QED BY <1>1, <5>1, <5>2 DEF end, Now
      <4> QED BY <4>1, <4>2
    <3>5. r \in Passing(s)' => Fits(stored'[s].list) /\ Cardinality(stored'[s].list) <= RateMax
      BY <3>1, <3>3
    <3> QED BY <3>4, <3>5
  <2> QED BY <1>2, <2>3, <2>4, RateEffects
<1>3. \A s \in Stores : Exact(s)' <=> Exact(s)
  BY HandlesShape, ExactStays DEF Shape, Others
<1>4. Remembered'
  BY <1>1, <1>2, <1>3 DEF Remembered, Entry, Second
<1> QED BY <1>2, <1>4

\* Requests with an entry each in a list are no more than the list.
LEMMA AsManyEntries ==
    ASSUME NEW list, IsFiniteSet(list), NEW S, \A q \in S : \E e \in list : e.by = q
    PROVE  IsFiniteSet(S) /\ Cardinality(S) <= Cardinality(list) /\ Cardinality(S) \in Nat
<1> DEFINE f == [q \in S |-> CHOOSE e \in list : e.by = q]
<1>1. \A q \in S : f[q] \in list /\ f[q].by = q
  OBVIOUS
<1>2. f \in Injection(S, list)
  <2>1. f \in [S -> list]
    BY <1>1
  <2> QED BY <1>1, <2>1 DEF Injection, IsInjective
<1> QED BY <1>2, FS_Injection, FS_CardinalityType

\* When a request passes, all who passed within the delay are in that list.
LEMMA BoundedStep ==
    ASSUME RateInv, NEW r \in Requests, Handles(r)
    PROVE  Bounded'
<1>1. TypeInv /\ Serial /\ Owners /\ Remembered /\ Bounded
  BY DEF RateInv
<1>2. /\ clock' = clock /\ clock \in Nat /\ RateMax \in Nat /\ IsFiniteSet(Requests)
      /\ \A s \in Stores : Exact(s)' <=> Exact(s)
  <2>1. clock' = clock /\ clock \in Clocks /\ UNCHANGED <<useRedis, worker>>
    BY <1>1, HandlesShape DEF TypeInv, LimitTypeOK, Shape, Others
  <2> QED BY <2>1, Clock, ExactStays
<1>3. ASSUME NEW s \in Stores, NEW t \in Clocks, Exact(s)
      PROVE  Cardinality(Within(s, t)') <= RateMax
  <2>1. CASE r \in Within(s, t)' /\ r \notin Passing(s)
    <3>1. /\ Remembered' /\ r \in Passing(s)' /\ At(r)' = clock /\ t \in Nat /\ Fine * Delay \in Nat
          /\ At(r)' \in t .. (t + Fine * Delay - 1)
      BY <1>1, <2>1, AtStays, RememberedStep, Clock DEF Within
    <3>2. IsFiniteSet(stored'[s].list) /\ Cardinality(stored'[s].list) <= RateMax
          /\ Cardinality(stored'[s].list) \in Nat
      BY <1>1, <1>3, <2>1, <3>1, RememberedStep, FS_CardinalityType DEF Fits
    <3>3. ASSUME NEW q \in Within(s, t)' PROVE \E e \in stored'[s].list : e.by = q
      <4>1. q \in Passing(s)' /\ At(q)' \in t .. (t + Fine * Delay - 1)
        BY <3>3 DEF Within
      <4>2. clock < At(q)' + Fine * Delay
        BY <1>2, <3>1, <4>1
      <4>3. Entry(q, s, Second(At(q)')) \in stored'[s].list
        BY <1>2, <1>3, <3>1, <4>1, <4>2 DEF Remembered, Second
      <4> QED BY <4>3 DEF Entry
    <3>4. Cardinality(Within(s, t)') <= Cardinality(stored'[s].list)
          /\ Cardinality(Within(s, t)') \in Nat
      <4> DEFINE W == Within(s, t)'
                 L == stored'[s].list
      <4>1. \A q \in W : \E e \in L : e.by = q
        BY <3>3
      <4>2. IsFiniteSet(L)
        BY <3>2
      <4> HIDE DEF W, L
      <4>3. Cardinality(W) <= Cardinality(L) /\ Cardinality(W) \in Nat
        BY <4>1, <4>2, AsManyEntries
      <4> QED BY <4>3 DEF W, L
    <3> QED BY <1>2, <3>2, <3>4
  <2>2. CASE ~(r \in Within(s, t)' /\ r \notin Passing(s))
    <3>1. Within(s, t)' \in SUBSET Within(s, t)
      <4>1. Passing(s)' \subseteq Passing(s) \cup {r}
        BY <1>1, <1>3, RateEffects
      <4>2. r \in Passing(s) => step[r] # "free"
        BY <1>1, HandlesShape DEF Shape, Passing
      <4>3. \A q \in Passing(s) : At(q)' = At(q) /\ q \in Requests
        BY <1>1, <4>2, AtStays DEF Passing
      <4> QED BY <2>2, <4>1, <4>3 DEF Within
    <3>2. IsFiniteSet(Within(s, t))
      BY <1>2, FS_Subset DEF Within, Passing
    <3>3. Cardinality(Within(s, t)) <= RateMax
      BY <1>1, <1>3 DEF Bounded
    <3>4. /\ Cardinality(Within(s, t)') <= Cardinality(Within(s, t))
          /\ Cardinality(Within(s, t)) \in Nat /\ Cardinality(Within(s, t)') \in Nat
      BY <3>1, <3>2, FS_Subset, FS_CardinalityType
    <3> QED BY <1>2, <3>3, <3>4
  <2> QED BY <2>1, <2>2
<1> QED BY <1>2, <1>3 DEF Bounded

\* Nobody has passed at the start.
LEMMA RateInit == LimitInit => RateInv
<1> SUFFICES ASSUME LimitInit PROVE RateInv
  OBVIOUS
<1>1. \A s \in Stores : Passing(s) = {}
  BY DEF LimitInit, Passing
<1>2. Remembered
  BY <1>1 DEF Remembered
<1>3. \A s \in Stores, t \in Clocks : Within(s, t) = {}
  BY <1>1 DEF Within
<1>4. Bounded
  BY <1>3, FS_EmptySet DEF Bounded
<1> QED BY <1>2, <1>4, TypeInit, SerialRest, OwnersRest DEF RateInv

\* Every step keeps those who passed remembered and bounded.
LEMMA RateNext == RateInv /\ [LimitNext]_limitVars => RateInv'
<1> SUFFICES ASSUME RateInv, [LimitNext]_limitVars PROVE RateInv'
  OBVIOUS
<1>0. /\ TypeInv /\ Serial /\ NotBegun /\ Owners /\ Remembered /\ Bounded /\ TypeInv'
  BY TypeNext DEF RateInv
<1>1. ASSUME NEW r \in Requests, Handles(r) PROVE RateInv'
  BY <1>0, <1>1, SerialStep, NotBegunStep, OwnersStep, RememberedStep, BoundedStep DEF RateInv
<1>2. ASSUME UNCHANGED <<useRedis, worker, stored, step, got, answer>>,
             clock' \in Nat, clock <= clock',
             \A r \in Requests : At(r)' = At(r)
      PROVE  Remembered' /\ Bounded'
  <2>1. \A s \in Stores : (Exact(s)' <=> Exact(s)) /\ Passing(s)' = Passing(s)
    BY <1>2, ExactStays DEF Passing
  <2>2. \A s \in Stores : \A r \in Passing(s) : r \in Requests
    BY DEF Passing
  <2>3. \A s \in Stores, t \in Clocks : Within(s, t)' = Within(s, t)
    BY <1>2, <2>1, <2>2 DEF Within
  <2>4. clock \in Nat /\ Fine * Delay \in Nat /\ \A r \in Requests : At(r) \in Nat
    <3>1. clock \in Clocks /\ \A r \in Requests : At(r) \in Clocks
      BY <1>0 DEF TypeInv, LimitTypeOK, At
    <3> QED BY <3>1, Clock
  <2>5. \A r \in Requests : clock' < At(r)' + Fine * Delay => clock < At(r) + Fine * Delay
    BY <1>2, <2>4
  <2>6. Remembered'
    BY <1>0, <1>2, <2>1, <2>2, <2>5 DEF Remembered, Second
  <2> QED BY <1>0, <2>1, <2>3, <2>6 DEF Bounded
<1>3. CASE Tick
  <2>1. /\ UNCHANGED <<useRedis, worker, stored, step, got, answer>>
        /\ \A r \in Requests : At(r)' = At(r)
    BY <1>0, <1>3 DEF Tick, At
  <2>2. clock' \in Nat /\ clock <= clock'
    <3>1. clock \in Nat /\ clock' = clock + 1
      BY <1>0, <1>3, Clock DEF Tick, TypeInv, LimitTypeOK
    <3> QED BY <3>1
  <2> QED BY <1>0, <1>2, <1>3, <2>1, <2>2, SerialRest, OwnersRest DEF RateInv
<1>4. CASE UNCHANGED limitVars
  <2>1. /\ UNCHANGED <<useRedis, worker, stored, step, got, answer>> /\ clock' = clock
        /\ \A r \in Requests : At(r)' = At(r)
    BY <1>4 DEF limitVars, At
  <2>2. clock' \in Nat /\ clock <= clock'
    <3>1. clock \in Nat
      BY <1>0, Clock DEF TypeInv, LimitTypeOK
    <3> QED BY <2>1, <3>1
  <2> QED BY <1>0, <1>2, <1>4, <2>1, <2>2, SerialRest, OwnersRest DEF RateInv
<1> QED BY <1>1, <1>3, <1>4 DEF LimitNext

\* They are in every state.
LEMMA RateHolds == LimitSpec => []RateInv
<1>1. LimitInit => RateInv
  BY RateInit
<1>2. RateInv /\ [LimitNext]_limitVars => RateInv'
  BY RateNext
<1> QED BY <1>1, <1>2, PTL DEF LimitSpec

\* "5r/m means that 5 requests per minute are allowed from each IP address" (docs/features.md):
\* for any number of requests, any rate and delay, a store that is exact lets at most RateMax
\* requests of a client pass in any period shorter than the delay, wherever it begins, although
\* the code sees whole seconds, drops entries and lets lists expire.
THEOREM RateKept == LimitSpec => []RateHeld
<1>1. ASSUME RateInv PROVE RateHeld
  <2> DEFINE P(s, t) == {r \in Requests : /\ answer[r].is = "passed" /\ answer[r].by = s
                                          /\ answer[r].at \in t .. (t + Fine * Delay - 1)}
  <2> SUFFICES ASSUME NEW s \in Stores, NEW t \in Clocks, Exact(s)
               PROVE  Cardinality(P(s, t)) <= RateMax
    BY DEF RateHeld
  <2>1. P(s, t) \in SUBSET Within(s, t)
    <3>1. \A r \in Requests : answer[r].is = "passed" => step[r] = "free"
      BY <1>1 DEF RateInv, TypeInv, Undecided
    <3> QED BY <3>1 DEF Within, Passing, At
  <2>2. IsFiniteSet(Within(s, t))
    BY FS_Subset DEF Within, Passing
  <2>3. Cardinality(Within(s, t)) <= RateMax /\ RateMax \in Nat
    BY <1>1 DEF RateInv, Bounded
  <2> HIDE DEF P
  <2>4. Cardinality(P(s, t)) <= Cardinality(Within(s, t)) /\ Cardinality(P(s, t)) \in Nat
        /\ Cardinality(Within(s, t)) \in Nat
    BY <2>1, <2>2, FS_Subset, FS_CardinalityType
  <2> QED BY <2>3, <2>4
<1>2. LimitSpec => []RateInv
  BY RateHolds
<1> QED BY <1>1, <1>2, PTL

(***************************************************************************)
(* Who is limited.                                                         *)
(***************************************************************************)
\* the requests that are tried, or were, in the dictionary after Redis failed
Again ==
    {r \in Requests : \/ step[r] \in {"urlLocal", "urlSet"}
                      \/ \E e \in Entries : InLists(e) /\ e.by = r /\ e.of = "dict"}

\* Only they can be in a list twice, and each cost a mishap.
Sources ==
    /\ useRedis => Cardinality(Again) <= mishaps
    /\ ~useRedis => \A e \in Entries : InLists(e) => e.of = "dict"

\* What Redis has answered is of the last seconds.
Recent == \A r \in Requests : step[r] = "copy" => \A e \in got[r] : Now <= e.at + Delay

FairInv == TypeInv /\ Owners /\ Sources /\ Recent

\* how a request comes to be tried again
LEMMA GoesAgain ==
    ASSUME TypeInv, NEW r \in Requests, Handles(r)
    PROVE  /\ mishaps \in Nat /\ mishaps' \in Nat /\ mishaps <= mishaps'
           /\ step'[r] = "urlLocal" => mishaps' = mishaps + 1
           /\ step'[r] = "urlSet" => step[r] = "urlLocal" \/ ~useRedis
           /\ step'[r] \in {"copy", "urlLocal"} => useRedis
<1>0. LimitTypeOK /\ mishaps \in Nat /\ \A x : StepsTo(r, x) => step'[r] = x
  <2>1. mishaps \in 0 .. MaxMishaps /\ MaxMishaps \in Nat /\ step \in [Requests -> Steps]
    BY DEF TypeInv, LimitTypeOK
  <2> QED BY <2>1 DEF TypeInv, StepsTo
<1>1. /\ Mishap \/ UNCHANGED mishaps
      /\ step'[r] = "urlLocal" => Mishap
      /\ step'[r] = "urlSet" => step[r] = "urlLocal" \/ ~useRedis
      /\ step'[r] \in {"copy", "urlLocal"} => useRedis
  BY <1>0 DEF Handles, Request, GlobalRedis, GlobalRedisFails, GlobalRead, GlobalSet, UrlRedis,
              UrlRedisFails, Copy, UrlRead, UrlSet, GlobalDecides, Decides, CallFails
<1>2. Mishap => mishaps' = mishaps + 1
  BY DEF Mishap
<1> QED BY <1>0, <1>1, <1>2

\* Only a failed call to Redis makes a request try again.
LEMMA SourcesStep ==
    ASSUME TypeInv, Sources, NEW r \in Requests, Handles(r)
    PROVE  Sources'
<1>0. /\ useRedis' = useRedis /\ IsFiniteSet(Requests)
      /\ \A q \in Requests \ {r} : step'[q] = step[q]
  BY HandlesShape DEF Shape, Others
<1>1. CASE ~useRedis
  <2>1. ASSUME NEW e \in Entries, InLists(e)' PROVE e.of = "dict"
    <3>1. ~(e = Entry(r, "redis", Now) /\ step'[r] \in {"copy", "urlLocal"})
      BY <1>1, GoesAgain
    <3> QED BY <1>1, <2>1, <3>1, ListsGrow DEF Sources, Added, Entry
  <2> QED BY <1>0, <1>1, <2>1 DEF Sources
<1>2. CASE useRedis
  <2>1. ASSUME NEW q \in Again', q \notin Again PROVE q = r /\ step'[r] = "urlLocal"
    <3>1. q \in Requests /\ step[q] \notin {"urlLocal", "urlSet"}
      BY <2>1 DEF Again
    <3>2. CASE step'[q] \in {"urlLocal", "urlSet"}
      BY <1>0, <1>2, <3>1, <3>2, GoesAgain
    <3>3. CASE \E e \in Entries : InLists(e)' /\ e.by = q /\ e.of = "dict"
      <4>1. PICK e \in Entries : InLists(e)' /\ e.by = q /\ e.of = "dict"
        BY <3>3
      <4>2. Added(r, e)
        BY <2>1, <3>1, <4>1, ListsGrow DEF Again
      <4>3. e = Entry(r, "dict", Now) /\ step[r] = "urlSet"
        BY <4>1, <4>2 DEF Added, Entry
      <4> QED BY <3>1, <4>1, <4>3 DEF Entry
    <3> QED BY <2>1, <3>2, <3>3 DEF Again
  <2>2. IsFiniteSet(Again) /\ Cardinality(Again) \in Nat
    BY <1>0, FS_Subset, FS_CardinalityType DEF Again
  <2>3. /\ IsFiniteSet(Again \cup {r}) /\ Cardinality(Again \cup {r}) \in Nat
        /\ Cardinality(Again \cup {r}) <= Cardinality(Again) + 1
    <3>1. IsFiniteSet(Again \cup {r})
          /\ Cardinality(Again \cup {r}) = IF r \in Again THEN Cardinality(Again)
                                                          ELSE Cardinality(Again) + 1
      BY <2>2, FS_AddElement
    <3> QED BY <2>2, <3>1
  <2>4. Cardinality(Again) <= mishaps
    BY <1>2 DEF Sources
  <2>5. CASE step'[r] = "urlLocal"
    <3>1. Again' \in SUBSET (Again \cup {r})
      BY <2>1
    <3>2. Cardinality(Again') <= Cardinality(Again \cup {r}) /\ Cardinality(Again') \in Nat
      BY <2>3, <3>1, FS_Subset, FS_CardinalityType
    <3>3. mishaps' = mishaps + 1 /\ mishaps \in Nat
      BY <2>5, GoesAgain
    <3>4. Cardinality(Again') <= mishaps'
      BY <2>2, <2>3, <2>4, <3>2, <3>3
    <3> QED BY <1>0, <1>2, <3>4 DEF Sources
  <2>6. CASE step'[r] # "urlLocal"
    <3>1. Again' \in SUBSET Again
      BY <2>1, <2>6
    <3>2. Cardinality(Again') <= Cardinality(Again) /\ Cardinality(Again') \in Nat
      BY <2>2, <3>1, FS_Subset, FS_CardinalityType
    <3>3. mishaps <= mishaps' /\ mishaps \in Nat /\ mishaps' \in Nat
      BY GoesAgain
    <3>4. Cardinality(Again') <= mishaps'
      BY <2>2, <2>4, <3>2, <3>3
    <3> QED BY <1>0, <1>2, <3>4 DEF Sources
  <2> QED BY <2>5, <2>6
<1> QED BY <1>1, <1>2

\* A list made anew has nothing older than the delay.
LEMMA RecentStep ==
    ASSUME TypeInv, Recent, NEW r \in Requests, Handles(r)
    PROVE  Recent'
<1>0. /\ clock' = clock /\ Now' = Now /\ Now \in Nat /\ Delay \in Nat
      /\ \A q \in Requests \ {r} : step'[q] = step[q] /\ got'[q] = got[q]
  <2>1. clock \in Clocks
    BY DEF TypeInv, LimitTypeOK
  <2> QED BY <2>1, HandlesShape, Clock DEF Shape, Others, Now
<1>1. ASSUME step'[r] = "copy" PROVE \A e \in got'[r] : Now <= e.at + Delay
  <2>1. /\ \A x : StepsTo(r, x) => step'[r] = x
        /\ \A x : Got(r, x) => got'[r] = x
    BY DEF TypeInv, LimitTypeOK, StepsTo, Got
  <2>2. got'[r] = NewTimestamps(Listed("redis"), r, "redis")
    BY <1>1, <2>1
       DEF Handles, Request, GlobalRedis, GlobalRedisFails, GlobalRead, GlobalSet, UrlRedis,
           UrlRedisFails, Copy, UrlRead, UrlSet, GlobalDecides, Decides, CallFails
  <2>3. \A e \in Kept(Listed("redis")) : Now <= e.at + Delay
    BY DEF Kept
  <2>4. \A e \in NewTimestamps(Listed("redis"), r, "redis") :
            e \in Kept(Listed("redis")) \/ e.at = Now
    BY DEF NewTimestamps
  <2>5. Now <= Now + Delay
    BY <1>0
  <2> QED BY <2>2, <2>3, <2>4, <2>5
<1> QED BY <1>0, <1>1 DEF Recent

\* a list in which every request is once at most, all of them in S
LEMMA OnceEach ==
    ASSUME NEW list, NEW S, IsFiniteSet(S), \A e \in list : e.by \in S,
           \A e, d \in list : e.by = d.by => e = d
    PROVE  IsFiniteSet(list) /\ Cardinality(list) <= Cardinality(S) /\ Cardinality(list) \in Nat
<1> DEFINE f == [e \in list |-> e.by]
<1>1. f \in Injection(list, S)
  BY DEF Injection, IsInjective
<1> QED BY <1>1, FS_Injection, FS_CardinalityType

\* the requests made within the last Delay + 1 seconds
Made ==
    {q \in Requests :
        \/ step[q] \notin {"free", "global", "globalLocal", "globalSet"}
        \/ answer[q].is \in {"passed", "limited", "failed"} /\ Now <= Second(answer[q].at) + Delay}

\* A list that holds recent entries of the others, and of this request at most one that it did
\* not have before, is no longer than the requests made and the mishaps.
LEMMA ListBounded ==
    ASSUME FairInv, NEW r \in Requests, step[r] \in {"copy", "urlSet"},
           NEW list \in SUBSET Entries,
           \A e \in list : Now <= e.at + Delay,
           \A e \in list : InLists(e) \/ (e = Entry(r, "dict", Now) /\ step[r] = "urlSet")
    PROVE  Cardinality(list) \in Nat /\ Cardinality(list) <= Cardinality(Made) + mishaps
<1> DEFINE L(s) == {e \in list : e.of = s}
<1>0. /\ IsFiniteSet(Requests) /\ mishaps \in Nat /\ Owners /\ Sources
      /\ list = L("redis") \cup L("dict") /\ \A e \in list : e.by \in Requests
  <2>1. mishaps \in Nat
    BY DEF FairInv, TypeInv, LimitTypeOK
  <2> QED BY <2>1 DEF FairInv, Entries, Stores
<1>1. /\ IsFiniteSet(Made) /\ Cardinality(Made) \in Nat
      /\ IsFiniteSet(Again) /\ Cardinality(Again) \in Nat
  BY <1>0, FS_Subset, FS_CardinalityType DEF Made, Again
<1>2. \A e \in list : e.by \in Made
  BY <1>0 DEF Owners, Owned, Made, Entry
<1>3. \A e, d \in list : e.by = d.by /\ e.of = d.of => e = d
  <2>1. \A e \in list : InLists(e) => Owned(e)
    BY <1>0 DEF Owners
  <2>2. ASSUME NEW e \in list, NEW d \in list, e.by = d.by, e.of = d.of PROVE e.at = d.at
    BY <2>1, <2>2 DEF Owned, Entry
  <2>3. \A e, d \in Entries : e.by = d.by /\ e.of = d.of /\ e.at = d.at => e = d
    BY DEF Entries
  <2> QED BY <2>2, <2>3
<1>4. \A s \in {"redis", "dict"} :
          /\ IsFiniteSet(L(s)) /\ Cardinality(L(s)) \in Nat
          /\ Cardinality(L(s)) <= Cardinality(Made)
  <2> SUFFICES ASSUME NEW s \in {"redis", "dict"}
               PROVE  /\ IsFiniteSet(L(s)) /\ Cardinality(L(s)) \in Nat
                      /\ Cardinality(L(s)) <= Cardinality(Made)
    OBVIOUS
  <2>1. /\ \A e \in L(s) : e.by \in Made
        /\ \A e, d \in L(s) : e.by = d.by => e = d
    BY <1>2, <1>3
  <2> HIDE DEF L
  <2> QED BY <1>1, <2>1, OnceEach
<1>5. CASE useRedis
  <2>1. /\ \A e \in L("dict") : e.by \in Again
        /\ \A e, d \in L("dict") : e.by = d.by => e = d
    BY <1>0, <1>3 DEF Again, Entry
  <2>2. Cardinality(L("dict")) <= Cardinality(Again)
    <3> HIDE DEF L
    <3> QED BY <1>1, <2>1, OnceEach
  <2>3. Cardinality(Again) <= mishaps
    BY <1>0, <1>5 DEF Sources
  <2> HIDE DEF L
  <2>4. /\ Cardinality(list) = Cardinality(L("redis")) + Cardinality(L("dict"))
                               - Cardinality(L("redis") \cap L("dict"))
        /\ Cardinality(L("redis") \cap L("dict")) \in Nat
    <3>1. L("redis") \cap L("dict") \in SUBSET L("dict")
      OBVIOUS
    <3>2. IsFiniteSet(L("redis") \cap L("dict"))
      BY <1>4, <3>1, FS_Subset
    <3> QED BY <1>0, <1>4, <3>2, FS_Union, FS_CardinalityType
  <2>5. /\ Cardinality(L("redis")) \in Nat /\ Cardinality(L("dict")) \in Nat
        /\ Cardinality(L("redis")) <= Cardinality(Made)
    BY <1>4
  <2> DEFINE x == Cardinality(L("redis"))
             y == Cardinality(L("dict"))
             z == Cardinality(L("redis") \cap L("dict"))
             m == Cardinality(Made)
             n == Cardinality(Again)
  <2>6. /\ x \in Nat /\ y \in Nat /\ z \in Nat /\ m \in Nat /\ n \in Nat /\ mishaps \in Nat
        /\ x <= m /\ y <= n /\ n <= mishaps /\ Cardinality(list) = x + y - z
    BY <1>0, <1>1, <2>2, <2>3, <2>4, <2>5
  <2> HIDE DEF x, y, z, m, n
  <2>7. Cardinality(list) <= m + mishaps
    BY <2>6
  <2>8. IsFiniteSet(list)
    BY <1>0, <1>4, FS_Union
  <2> QED BY <2>7, <2>8, FS_CardinalityType DEF m
<1>6. CASE ~useRedis
  <2>1. L("redis") = {}
    BY <1>0, <1>6 DEF Sources, Entry
  <2>2. list = L("dict")
    BY <1>0, <2>1
  <2> HIDE DEF L
  <2>3. Cardinality(L("dict")) \in Nat /\ Cardinality(L("dict")) <= Cardinality(Made)
    BY <1>4
  <2>4. Cardinality(list) \in Nat /\ Cardinality(list) <= Cardinality(Made)
    BY <2>2, <2>3
  <2>5. mishaps \in Nat /\ Cardinality(Made) \in Nat
    BY <1>0, <1>1
  <2> QED BY <2>4, <2>5
<1> QED BY <1>5, <1>6

\* what the verdict is about
LEMMA LimitedList ==
    ASSUME FairInv, NEW r \in Requests, Handles(r), Limits(r)
    PROVE  \E list \in SUBSET Entries :
              /\ step[r] \in {"copy", "urlSet"}
              /\ Cardinality(list) > RateMax
              /\ \A e \in list : Now <= e.at + Delay
              /\ \A e \in list : InLists(e) \/ (e = Entry(r, "dict", Now) /\ step[r] = "urlSet")
<1>0. LimitTypeOK /\ Now \in Nat /\ Delay \in Nat
  <2>1. clock \in Clocks
    BY DEF FairInv, TypeInv, LimitTypeOK
  <2> QED BY <2>1, Clock DEF FairInv, TypeInv, Now
<1>1. /\ \A x : StepsTo(r, x) => step'[r] = x
      /\ \A v \in Verdicts, x \in Stores : Decides(r, v, x) => answer'[r].is = v
      /\ {"globally", "failed"} \subseteq Verdicts /\ Stores = {"redis", "dict"}
      /\ \A list : Verdict(list) \in Verdicts
  <2>1. \A x : StepsTo(r, x) => step'[r] = x
    BY <1>0 DEF LimitTypeOK, StepsTo
  <2>2. \A v \in Verdicts, x \in Stores : Decides(r, v, x) => answer'[r].is = v
    BY <1>0, DecidesOn
  <2> QED BY <2>1, <2>2 DEF Verdicts, Stores, Verdict
<1>2. answer'[r].is = "limited" /\ step'[r] = "free" /\ step[r] # "free"
  BY DEF Limits
<1>3. CASE Copy(r)
  <2>1. Decides(r, Verdict(got[r]), "redis") /\ step[r] = "copy"
    BY <1>1, <1>2, <1>3 DEF Copy, CallFails
  <2>2. Verdict(got[r]) = "limited"
    BY <1>1, <1>2, <2>1
  <2>3. Cardinality(got[r]) > RateMax
    BY <2>2 DEF Verdict
  <2>4. got[r] \in SUBSET Entries /\ \A e \in got[r] : InLists(e) /\ Now <= e.at + Delay
    BY <1>0, <2>1 DEF LimitTypeOK, InLists, FairInv, Recent
  <2> QED BY <2>1, <2>3, <2>4
<1>4. CASE UrlSet(r)
  <2> DEFINE new == NewTimestamps(got[r], r, "dict")
  <2>1. Decides(r, Verdict(new), "dict") /\ step[r] = "urlSet"
    BY <1>1, <1>2, <1>4 DEF UrlSet, CallFails
  <2>2. Verdict(new) = "limited"
    BY <1>1, <1>2, <2>1
  <2>3. Cardinality(new) > RateMax
    BY <2>2 DEF Verdict
  <2>4. new \in SUBSET Entries
    BY <1>0, NewFits DEF LimitTypeOK, Fits, FairInv, TypeInv, Finite, Stores
  <2>5. /\ Kept(got[r]) \subseteq got[r] /\ \A e \in Kept(got[r]) : Now <= e.at + Delay
        /\ \A e \in new : e \in Kept(got[r]) \/ e = Entry(r, "dict", Now)
    BY DEF Kept, NewTimestamps, Entry
  <2>6. Entry(r, "dict", Now).at = Now /\ Now <= Now + Delay
    BY <1>0 DEF Entry
  <2> HIDE DEF new
  <2>7. \A e \in new : Now <= e.at + Delay
    BY <2>5, <2>6
  <2>8. \A e \in new : InLists(e) \/ e = Entry(r, "dict", Now)
    BY <2>5 DEF InLists
  <2> QED BY <2>1, <2>3, <2>4, <2>7, <2>8
<1>5. CASE Request(r) \/ GlobalRedis(r) \/ GlobalRedisFails(r) \/ GlobalRead(r) \/ GlobalSet(r)
           \/ UrlRedis(r) \/ UrlRedisFails(r) \/ UrlRead(r)
  BY <1>1, <1>2, <1>5
     DEF Request, GlobalRedis, GlobalRedisFails, GlobalRead, GlobalSet, GlobalDecides, UrlRedis,
         UrlRedisFails, UrlRead, CallFails
<1> QED BY <1>3, <1>4, <1>5 DEF Handles

\* There are no lists at the start.
LEMMA FairInit == LimitInit => FairInv
<1> SUFFICES ASSUME LimitInit PROVE FairInv
  OBVIOUS
<1>1. \A e : ~InLists(e)
  BY DEF LimitInit, InLists, Missing
<1>2. Again = {} /\ mishaps = 0
  BY <1>1 DEF LimitInit, Again
<1>3. Sources
  BY <1>1, <1>2, FS_EmptySet DEF Sources
<1>4. Recent
  BY DEF LimitInit, Recent
<1> QED BY <1>3, <1>4, TypeInit, OwnersRest DEF FairInv

\* Every step keeps the lists accounted for.
LEMMA FairNext == FairInv /\ [LimitNext]_limitVars => FairInv'
<1> SUFFICES ASSUME FairInv, [LimitNext]_limitVars PROVE FairInv'
  OBVIOUS
<1>0. TypeInv /\ Owners /\ Sources /\ Recent /\ TypeInv'
  BY TypeNext DEF FairInv
<1>1. ASSUME NEW r \in Requests, Handles(r) PROVE FairInv'
  BY <1>0, <1>1, OwnersStep, SourcesStep, RecentStep DEF FairInv
<1>2. ASSUME UNCHANGED <<useRedis, stored, step, got, mishaps>> PROVE Sources'
  <2>1. \A e : InLists(e)' <=> InLists(e)
    BY <1>2 DEF InLists
  <2>2. Again' = Again
    BY <1>2, <2>1 DEF Again
  <2> QED BY <1>0, <1>2, <2>1, <2>2 DEF Sources
<1>3. CASE Tick
  <2>1. UNCHANGED <<useRedis, stored, step, got, mishaps>> /\ \A r \in Requests : step'[r] = "free"
    BY <1>3 DEF Tick
  <2>2. Recent'
    BY <2>1 DEF Recent
  <2> QED BY <1>0, <1>2, <1>3, <2>1, <2>2, OwnersRest DEF FairInv
<1>4. CASE UNCHANGED limitVars
  <2>1. UNCHANGED <<useRedis, stored, step, got, mishaps, clock>>
    BY <1>4 DEF limitVars
  <2>2. Recent'
    BY <1>0, <2>1 DEF Recent, Now
  <2> QED BY <1>0, <1>2, <1>4, <2>1, <2>2, OwnersRest DEF FairInv
<1> QED BY <1>1, <1>3, <1>4 DEF LimitNext

\* They are in every state.
LEMMA FairHolds == LimitSpec => []FairInv
<1>1. LimitInit => FairInv
  BY FairInit
<1>2. FairInv /\ [LimitNext]_limitVars => FairInv'
  BY FairNext
<1> QED BY <1>1, <1>2, PTL DEF LimitSpec

\* A request is limited only if more than RateMax were made within the last Delay + 1 seconds, a
\* request that was tried again after a call to Redis failed counting twice: for any number of
\* workers, whose reads and writes of the dictionary cross, with or without Redis, whose lists
\* are copied to the dictionary for ever, and however many calls fail.
THEOREM NobodyWronged == LimitSpec => LimitedFairly
<1>1. ASSUME FairInv, [LimitNext]_limitVars PROVE [LimitedForCause]_limitVars
  <2>0. RateMax \in Nat /\ Cardinality(Made) + mishaps \in Nat
    <3>1. IsFiniteSet(Made)
      BY FS_Subset DEF Made
    <3>2. mishaps \in Nat
      BY <1>1 DEF FairInv, TypeInv, LimitTypeOK
    <3> QED BY <3>1, <3>2, FS_CardinalityType
  <2>1. ASSUME NEW r \in Requests, Limits(r), NEW q \in Requests, Handles(q)
        PROVE  Cardinality(Made) + mishaps > RateMax
    <3>1. q = r
      BY <1>1, <2>1, HandlesShape DEF FairInv, Shape, Others, Limits
    <3>2. PICK list \in SUBSET Entries :
              /\ step[r] \in {"copy", "urlSet"}
              /\ Cardinality(list) > RateMax
              /\ \A e \in list : Now <= e.at + Delay
              /\ \A e \in list : InLists(e) \/ (e = Entry(r, "dict", Now) /\ step[r] = "urlSet")
      BY <1>1, <2>1, <3>1, LimitedList
    <3>3. Cardinality(list) \in Nat /\ Cardinality(list) <= Cardinality(Made) + mishaps
      BY <1>1, <3>2, ListBounded
    <3> QED BY <2>0, <3>2, <3>3
  <2>2. ASSUME UNCHANGED step, NEW r \in Requests PROVE ~Limits(r)
    BY <2>2 DEF Limits
  <2>3. UNCHANGED limitVars \/ Tick => UNCHANGED step
    BY DEF limitVars, Tick
  <2> QED BY <1>1, <2>1, <2>2, <2>3 DEF LimitNext, LimitedForCause, Made
<1>2. LimitSpec => []FairInv
  BY FairHolds
<1> QED BY <1>1, <1>2, PTL DEF LimitSpec, LimitedFairly
=============================================================================
