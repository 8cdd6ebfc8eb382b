-------------------------- MODULE Deployment_proofs --------------------------
(***************************************************************************)
(* Proofs about Deployment: nginx never runs a file that it refuses,       *)
(* whatever the senders, the backup, the failover, the health check and    *)
(* the faults of the instances do; types; instances that are up stay in    *)
(* the list while none goes down or restarts; and if also only             *)
(* configurations are refused, the snapshot of a failover works and a      *)
(* failover restores what it says.                                         *)
(***************************************************************************)
EXTENDS Deployment, SequenceTheorems, WellFoundedInduction, TLAPS

\* A nonempty set of natural numbers has a least element: what Min returns.
LEMMA LeastNatural ==
    ASSUME NEW T \in SUBSET Nat, T # {}
    PROVE  \E x \in T : \A y \in T : x <= y
<1> DEFINE R == {p \in Nat \X Nat : p[1] < p[2]}
<1>1. IsWellFoundedOn(R, Nat)
  BY NatLessThanWellFounded DEF OpToRel
<1> HIDE DEF R
<1>2. PICK x \in T : \A y \in T : <<y, x>> \notin R
  BY <1>1, WFMin
<1>3. ASSUME NEW y \in T PROVE x <= y
  <2>1. x \in Nat /\ y \in Nat /\ <<y, x>> \in Nat \X Nat
    OBVIOUS
  <2>2. ~(y < x)
    BY <1>2, <2>1 DEF R
  <2>3. QED
    BY <2>1, <2>2
<1>4. QED
  BY <1>3

\* The first position of an element that a sequence has.
LEMMA FirstPosition ==
    ASSUME NEW s, Len(s) \in Nat, NEW e, NEW k \in 1..Len(s), s[k] = e
    PROVE  LET I == {j \in 1..Len(s) : s[j] = e} IN
               I # {} /\ Min(I) \in 1..Len(s) /\ s[Min(I)] = e
<1> DEFINE I == {j \in 1..Len(s) : s[j] = e}
<1>1. I \in SUBSET Nat /\ I # {}
  OBVIOUS
<1>2. Min(I) \in I
  <2> HIDE DEF I
  <2>1. \E x \in I : \A y \in I : x <= y
    BY <1>1, LeastNatural
  <2>2. QED
    BY <2>1 DEF Min
<1>3. QED
  BY <1>1, <1>2

\* IndexOf returns the position of an instance in SCHEDULER.apis, and 0 when it is not listed.
LEMMA IndexOfType ==
    ASSUME apis \in Seq(Instances), NEW i
    PROVE  /\ IndexOf(i) \in 0..Len(apis)
           /\ IndexOf(i) # 0 => apis[IndexOf(i)] = i
           /\ IndexOf(i) = 0 => i \notin Range(apis)
<1> DEFINE I == {j \in 1..Len(apis) : apis[j] = i}
<1>1. IndexOf(i) = IF I # {} THEN Min(I) ELSE 0
  BY DEF IndexOf, SelectInSeq
<1>2. Len(apis) \in Nat /\ DOMAIN apis = 1..Len(apis)
  OBVIOUS
<1>3. CASE I # {}
  <2>1. PICK k \in 1..Len(apis) : apis[k] = i
    BY <1>3
  <2>2. QED
    BY <1>1, <1>2, <1>3, <2>1, FirstPosition
<1>4. CASE I = {}
  BY <1>1, <1>2, <1>4 DEF Range
<1>5. QED
  BY <1>3, <1>4

\* RemoveAt keeps every other element, in its order.
LEMMA RemoveAtType ==
    ASSUME NEW S, NEW s \in Seq(S), NEW n \in 1..Len(s)
    PROVE  /\ RemoveAt(s, n) \in Seq(S)
           /\ Len(RemoveAt(s, n)) = Len(s) - 1
           /\ \A i \in 1..(Len(s) - 1) : i < n => RemoveAt(s, n)[i] = s[i]
           /\ \A i \in 1..(Len(s) - 1) : n <= i => RemoveAt(s, n)[i] = s[i + 1]
<1> DEFINE s1 == SubSeq(s, 1, n - 1)
           s2 == SubSeq(s, n + 1, Len(s))
<1>1. /\ s1 \in Seq(S) /\ Len(s1) = n - 1
      /\ \A i \in 1..(n - 1) : s1[i] = s[i]
  OBVIOUS
<1>2. /\ s2 \in Seq(S) /\ Len(s2) = Len(s) - n
      /\ \A i \in 1..(Len(s) - n) : s2[i] = s[n + i]
  OBVIOUS
<1>3. Len(s) \in Nat /\ n \in Nat
  OBVIOUS
<1> HIDE DEF s1, s2
<1> DEFINE t == s1 \o s2
<1>4. /\ t \in Seq(S)
      /\ Len(t) = Len(s1) + Len(s2)
      /\ \A i \in 1..(Len(s1) + Len(s2)) : t[i] = IF i <= Len(s1) THEN s1[i] ELSE s2[i - Len(s1)]
  BY <1>1, <1>2, ConcatProperties
<1>5. RemoveAt(s, n) = t
  BY DEF RemoveAt, s1, s2
<1> HIDE DEF t
<1>6. Len(s1) + Len(s2) = Len(s) - 1
  BY <1>1, <1>2, <1>3
<1>7. \A i \in 1..(Len(s) - 1) : t[i] = IF i <= n - 1 THEN s1[i] ELSE s2[i - (n - 1)]
  <2>1. Len(s1) = n - 1
    BY <1>1
  <2>2. QED
    BY <1>4, <1>6, <2>1
<1>8. ASSUME NEW i \in 1..(Len(s) - 1), i < n PROVE t[i] = s[i]
  <2>1. i \in 1..(n - 1) /\ i <= n - 1
    BY <1>3, <1>8
  <2>2. QED
    BY <1>1, <1>7, <2>1
<1>9. ASSUME NEW i \in 1..(Len(s) - 1), n <= i PROVE t[i] = s[i + 1]
  <2>1. i - (n - 1) \in 1..(Len(s) - n) /\ n + (i - (n - 1)) = i + 1 /\ ~(i <= n - 1)
    BY <1>3, <1>9
  <2>2. t[i] = s2[i - (n - 1)]
    BY <1>7, <2>1
  <2>3. QED
    BY <1>2, <2>1, <2>2
<1>10. QED
  BY <1>4, <1>5, <1>6, <1>8, <1>9

\* Listing and unlisting an instance give a list of instances (healthcheck_job and the main
\* loop, SCHEDULER.apis).
LEMMA ListTypes ==
    ASSUME NEW s \in Seq(Instances), NEW i \in Instances
    PROVE  Listed(s, i) \in Seq(Instances) /\ Unlisted(s, i) \in Seq(Instances)
<1>1. Listed(s, i) \in Seq(Instances)
  BY DEF Listed
<1>2. CASE Contains(s, i)
  <2> DEFINE I == {k \in 1..Len(s) : s[k] = i}
  <2>1. PICK k \in 1..Len(s) : s[k] = i
    BY <1>2 DEF Contains
  <2>2. I # {} /\ Min(I) \in 1..Len(s)
    BY <2>1, FirstPosition
  <2>3. Unlisted(s, i) = RemoveAt(s, Min(I))
    BY <1>2, <2>1 DEF Unlisted, RemoveFirst, Contains, SelectInSeq
  <2>4. QED
    BY <1>1, <2>2, <2>3, RemoveAtType
<1>3. CASE ~Contains(s, i)
  BY <1>1, <1>3 DEF Unlisted
<1>4. QED
  BY <1>2, <1>3
-----------------------------------------------------------------------------
\* No version is newer than the change of the current pass, so that a refused change is
\* never one that is already on a disk or in the snapshot.
VersionsOK ==
    /\ pass \in Nat
    /\ disk \in [Kinds -> 0..pass]
    /\ snap \in [Kinds -> 0..pass]
    /\ files \in [Instances -> [Kinds -> 0..pass]]
    /\ running \in [Instances -> [Kinds -> 0..pass]]
\* A file that was never sent (version 0) is part of the loading configuration.
LoadingWorks == \A k \in Kinds : <<k, 0>> \notin bad
VersionsInv == VersionsOK /\ LoadingWorks

\* A reload keeps the invariant.
LEMMA LoadsKeep ==
    ASSUME VersionsInv, NEW S, Loads(S), UNCHANGED <<pass, disk, snap, files, bad>>
    PROVE  VersionsInv'
<1>1. running' \in [Instances -> [Kinds -> 0..pass]]
  BY DEF VersionsInv, VersionsOK, Loads
<1>2. QED
  BY <1>1 DEF VersionsInv, VersionsOK, LoadingWorks

\* A step that neither sends, loads, generates nor backs up keeps it.
LEMMA QuietKeep ==
    ASSUME VersionsInv, UNCHANGED <<pass, disk, snap, files, running, bad>>
    PROVE  VersionsInv'
BY DEF VersionsInv, VersionsOK, LoadingWorks

\* The first state and every step keep the invariant.
LEMMA VersionsInit == Init => VersionsInv
BY DEF Init, VersionsInv, VersionsOK, LoadingWorks

\* So does every step of a pass, of the senders, of the backup and of the health check.
LEMMA VersionsStep == VersionsInv /\ [Next]_vars => VersionsInv'
<1> SUFFICES ASSUME VersionsInv, [Next]_vars PROVE VersionsInv'
  OBVIOUS
<1>1. CASE CustomSent \/ Sent \/ StoreAnswer \/ AnswersEnd \/ Decide \/ HealthStart
           \/ HealthEnd \/ HealthError
  BY <1>1, QuietKeep DEF CustomSent, Sent, StoreAnswer, AnswersEnd, Decide, HealthStart,
     HealthEnd, HealthError, instVars
<1>2. CASE Reload
  BY <1>2, LoadsKeep DEF Reload
<1>3. CASE FailoverReload
  BY <1>3, LoadsKeep, QuietKeep DEF FailoverReload
<1>4. CASE HealthReload
  BY <1>4, LoadsKeep, QuietKeep DEF HealthReload
<1>5. CASE Generate
  <2>1. disk \in [Kinds -> 0..pass] /\ pass \in 0..pass
    BY DEF VersionsInv, VersionsOK
  <2>2. PICK new : disk' = [k \in Kinds |-> IF k \in new THEN pass ELSE disk[k]]
    BY <1>5 DEF Generate
  <2>3. disk' \in [Kinds -> 0..pass]
    BY <2>1, <2>2
  <2>4. QED
    BY <1>5, <2>3 DEF Generate, VersionsInv, VersionsOK, LoadingWorks, instVars
<1>6. CASE Change
  <2>1. pass' = pass + 1 /\ pass \in Nat /\ UNCHANGED <<snap, files, running>>
    BY <1>6 DEF Change, VersionsInv, VersionsOK, instVars
  <2>2. disk' \in [Kinds -> 0..pass']
    <3>1. disk' = disk \/ disk' = [disk EXCEPT !["custom_configs"] = pass']
      BY <1>6 DEF Change
    <3>2. disk \in [Kinds -> 0..pass'] /\ pass' \in 0..pass'
      BY <2>1 DEF VersionsInv, VersionsOK
    <3>3. QED
      BY <3>1, <3>2
  <2>3. VersionsOK'
    BY <2>1, <2>2 DEF VersionsInv, VersionsOK
  <2>4. \A k \in Kinds, v \in 0..pass : <<k, v>> \in bad' => <<k, v>> \in bad
    <3>1. bad' \subseteq bad \cup {<<"confs", pass'>>, <<"custom_configs", pass'>>}
      BY <1>6 DEF Change
    <3>2. pass' \notin 0..pass
      BY <2>1
    <3>3. QED
      BY <3>1, <3>2
  <2>5. LoadingWorks'
    <3>1. 0 \in 0..pass
      BY <2>1
    <3>2. QED
      BY <2>4, <3>1 DEF VersionsInv, LoadingWorks
  <2>6. QED
    BY <2>3, <2>5 DEF VersionsInv
<1>7. CASE Backup
  <2>1. UNCHANGED <<pass, disk, files, running, bad>>
    BY <1>7 DEF Backup, BackupStart, BackupCopy, instVars
  <2>2. snap' \in [Kinds -> 0..pass]
    BY <1>7 DEF Backup, BackupStart, BackupCopy, VersionsInv, VersionsOK
  <2>3. QED
    BY <2>1, <2>2 DEF VersionsInv, VersionsOK, LoadingWorks
<1>8. CASE \E t \in Kinds : Sender(t)
  <2> PICK t \in Kinds : Sender(t)
    BY <1>8
  <2>1. CASE ThrSend(t)
    <3>1. UNCHANGED <<pass, disk, snap, running, bad>>
      BY <2>1 DEF ThrSend
    <3>2. PICK v \in 0..pass : \A i \in Instances :
              files'[i] = files[i] \/ files'[i] = [files[i] EXCEPT ![t] = v]
      <4>1. disk[t] \in 0..pass /\ snap[t] \in 0..pass
        BY DEF VersionsInv, VersionsOK
      <4>2. QED
        BY <2>1, <4>1 DEF ThrSend
    <3>3. files' = [i \in Instances |-> files'[i]]
      BY <2>1 DEF ThrSend, VersionsInv, VersionsOK
    <3>4. \A i \in Instances : files'[i] \in [Kinds -> 0..pass]
      <4>1. ASSUME NEW g \in [Kinds -> 0..pass] PROVE [g EXCEPT ![t] = v] \in [Kinds -> 0..pass]
        OBVIOUS
      <4>2. \A i \in Instances : files[i] \in [Kinds -> 0..pass]
        BY DEF VersionsInv, VersionsOK
      <4>3. ASSUME NEW i \in Instances PROVE files'[i] \in [Kinds -> 0..pass]
        <5>1. CASE files'[i] = files[i]
          BY <4>2, <5>1
        <5>2. CASE files'[i] = [files[i] EXCEPT ![t] = v]
          BY <4>1, <4>2, <5>2
        <5>3. QED
          BY <3>2, <5>1, <5>2
      <4>4. QED
        BY <4>3
    <3>5. files' \in [Instances -> [Kinds -> 0..pass]]
      BY <3>3, <3>4
    <3>6. QED
      BY <3>1, <3>5 DEF VersionsInv, VersionsOK, LoadingWorks
  <2>2. CASE ThrIndex(t) \/ ThrStatus(t) \/ ThrApply(t)
    BY <2>2, QuietKeep DEF ThrIndex, ThrStatus, ThrApply, instVars
  <2>3. QED
    BY <2>1, <2>2 DEF Sender
<1>9. CASE Environment
  <2> PICK i \in Instances : Lose(i) \/ Regain(i) \/ RestartInstance(i)
    BY <1>9 DEF Environment
  <2>1. CASE Lose(i) \/ Regain(i)
    BY <2>1, QuietKeep DEF Lose, Regain
  <2>2. CASE RestartInstance(i)
    <3>1. /\ files' = [files EXCEPT ![i] = [k \in Kinds |-> 0]]
          /\ running' = [running EXCEPT ![i] = [k \in Kinds |-> 0]]
          /\ UNCHANGED <<pass, disk, snap, bad>>
      BY <2>2 DEF RestartInstance
    <3>2. [k \in Kinds |-> 0] \in [Kinds -> 0..pass]
      BY DEF VersionsInv, VersionsOK
    <3>3. VersionsOK'
      BY <3>1, <3>2 DEF VersionsInv, VersionsOK
    <3>4. LoadingWorks'
      BY <3>1 DEF VersionsInv, VersionsOK, LoadingWorks
    <3>5. QED
      BY <3>3, <3>4 DEF VersionsInv
  <2>3. QED
    BY <2>1, <2>2
<1>10. CASE HealthProbe
  <2>1. UNCHANGED disk \/ disk' = [disk EXCEPT !["confs"] = pass]
    BY <1>10 DEF HealthProbe
  <2>2. disk' \in [Kinds -> 0..pass]
    BY <2>1 DEF VersionsInv, VersionsOK
  <2>3. QED
    BY <1>10, <2>2 DEF HealthProbe, VersionsInv, VersionsOK, LoadingWorks, instVars
<1>11. CASE UNCHANGED vars
  BY <1>11, QuietKeep DEF vars, instVars
<1>12. QED
  BY <1>1, <1>2, <1>3, <1>4, <1>5, <1>6, <1>7, <1>8, <1>9, <1>10, <1>11 DEF Next, Main
-----------------------------------------------------------------------------
(* Types *)

\* A thread of the executor is at an instance of the list, and so is the health check while it
\* waits for what it sent to a loading instance.
ThreadsOK == thr \in [Kinds -> Thread] /\ \A t \in Kinds : thr[t].at \in 1..Len(Order)
TypeInv ==
    /\ TypeOK
    /\ ThreadsOK
    /\ pc = "healthsend" => at <= Len(Order)

\* The instances are the elements of Order, which has one at least.
LEMMA OrderType ==
    /\ Order \in Seq(Instances) /\ Len(Order) \in Nat \ {0}
    /\ \A n \in 1..Len(Order) : Order[n] \in Instances
<1>1. Order \in Seq(Instances) /\ Order # <<>>
  BY DeploymentAssumption DEF Instances
<1>2. QED
  BY <1>1

\* Handing kinds of files to the executor, or none.
LEMMA SubmittedType ==
    ASSUME ThreadsOK, NEW T, NEW src \in {"disk", "snap"}, NEW only, only \subseteq Instances,
           UNCHANGED thr \/ Submitted(T, src, only)
    PROVE  ThreadsOK'
<1> DEFINE new == [pc |-> "send", at |-> 1, index |-> 0, src |-> src, only |-> only, got |-> {}]
<1>1. new \in Thread /\ new.at \in 1..Len(Order)
  BY OrderType DEF Thread
<1>2. UNCHANGED thr \/ thr' = [t \in Kinds |-> IF t \in T THEN new ELSE thr[t]]
  BY DEF Submitted
<1> HIDE DEF new
<1>3. QED
  BY <1>1, <1>2 DEF ThreadsOK

\* Threads submitted for the whole list are typed, as those for a part of it.
LEMMA SubmittedToAllType ==
    ASSUME ThreadsOK, NEW T, NEW src \in {"disk", "snap"}, UNCHANGED thr \/ Submitted(T, src, {})
    PROVE  ThreadsOK'
<1> DEFINE all == {}
<1>1. all \subseteq Instances /\ (UNCHANGED thr \/ Submitted(T, src, all))
  OBVIOUS
<1> HIDE DEF all
<1>2. QED
  BY <1>1, SubmittedType

\* A thread goes on to its next step, or to the next instance.
LEMMA ThreadSteps ==
    ASSUME ThreadsOK, NEW t \in Kinds, NEW r \in Thread, r.at \in 1..Len(Order),
           thr' = [thr EXCEPT ![t] = r]
    PROVE  ThreadsOK'
BY DEF ThreadsOK

\* POST /reload changes what runs and ends the loading configuration.
LEMMA LoadsType ==
    ASSUME TypeInv, NEW S, Loads(S)
    PROVE  running' \in [Instances -> Versions] /\ loading' \in [Instances -> BOOLEAN]
BY DEF TypeInv, TypeOK, Loads

\* The main thread's steps keep the types.
LEMMA MainType == ASSUME TypeInv, Main PROVE TypeInv'
<1> USE DEF instVars, listVars
<1>1. TypeOK /\ ThreadsOK /\ (pc = "healthsend" => at <= Len(Order))
  BY DEF TypeInv
<1>2. at \in Nat /\ (at <= Len(Order) => at \in 1..Len(Order) /\ Order[at] \in Instances)
  BY <1>1, OrderType DEF TypeOK
<1>3. CASE CustomSent \/ Sent \/ AnswersEnd \/ HealthEnd
  <2>1. CASE CustomSent
    BY <1>1, <2>1 DEF CustomSent, TypeInv, TypeOK, ThreadsOK
  <2>2. CASE Sent
    BY <1>1, <2>2 DEF Sent, TypeInv, TypeOK, ThreadsOK
  <2>3. CASE AnswersEnd
    BY <1>1, <2>3 DEF AnswersEnd, TypeInv, TypeOK, ThreadsOK
  <2>4. CASE HealthEnd
    BY <1>1, <2>4 DEF HealthEnd, TypeInv, TypeOK, ThreadsOK
  <2>5. QED
    BY <1>3, <2>1, <2>2, <2>3, <2>4
<1>4. CASE Generate
  <2>1. disk' \in Versions
    BY <1>1, <1>4 DEF Generate, Versions, Kinds, TypeOK
  <2>2. ThreadsOK'
    <3>1. UNCHANGED thr \/ \E T : Submitted(T, "disk", {})
      BY <1>4 DEF Generate
    <3>2. QED
      BY <1>1, <3>1, SubmittedToAllType
  <2>3. QED
    BY <1>1, <1>4, <2>1, <2>2 DEF Generate, TypeInv, TypeOK, ThreadsOK
<1>5. CASE Reload
  <2>1. running' \in [Instances -> Versions] /\ loading' \in [Instances -> BOOLEAN]
    BY <1>5, LoadsType DEF Reload
  <2>2. success' \in BOOLEAN /\ answer' \in [Instances -> {"none", "success", "refused"}]
    BY <1>5 DEF Reload
  <2>3. at' \in 1..(Len(Order) + 1)
    BY <1>5, OrderType DEF Reload
  <2>4. QED
    BY <1>1, <1>5, <2>1, <2>2, <2>3 DEF Reload, TypeInv, TypeOK, ThreadsOK
<1>6. CASE StoreAnswer
  <2>1. at \in 1..Len(Order) /\ Order[at] \in Instances
    BY <1>2, <1>6 DEF StoreAnswer
  <2>2. apis' \in Seq(Instances)
    <3>1. apis' = Listed(apis, Order[at]) \/ apis' = Unlisted(apis, Order[at])
      BY <1>6 DEF StoreAnswer
    <3>2. apis \in Seq(Instances)
      BY <1>1 DEF TypeOK
    <3>3. QED
      BY <2>1, <3>1, <3>2, ListTypes
  <2>3. status' \in [Instances -> Statuses] /\ success' \in BOOLEAN
    BY <1>1, <1>6, <2>1 DEF StoreAnswer, Statuses, TypeOK
  <2>4. at' \in 1..(Len(Order) + 1)
    BY <1>6, <2>1, OrderType DEF StoreAnswer
  <2>5. QED
    BY <1>1, <1>6, <2>2, <2>3, <2>4 DEF StoreAnswer, TypeInv, TypeOK, ThreadsOK
<1>7. CASE Decide
  <2>1. ThreadsOK'
    <3>1. UNCHANGED thr \/ Submitted(Kinds, "snap", {})
      BY <1>7 DEF Decide
    <3>2. QED
      BY <1>1, <3>1, SubmittedToAllType
  <2>2. QED
    BY <1>1, <1>7, <2>1 DEF Decide, TypeInv, TypeOK, ThreadsOK
<1>8. CASE FailoverReload
  <2>1. running' \in [Instances -> Versions] /\ loading' \in [Instances -> BOOLEAN]
    BY <1>1, <1>8, LoadsType DEF FailoverReload, TypeOK
  <2>2. QED
    BY <1>1, <1>8, <2>1 DEF FailoverReload, TypeInv, TypeOK, ThreadsOK
<1>9. CASE HealthStart
  BY <1>1, <1>9, OrderType DEF HealthStart, TypeInv, TypeOK, ThreadsOK
<1>10. CASE HealthProbe
  <2>1. at \in 1..Len(Order) /\ Order[at] \in Instances
    BY <1>2, <1>10 DEF HealthProbe
  <2>2. apis' \in Seq(Instances)
    <3>1. \/ UNCHANGED apis
          \/ apis' = Listed(apis, Order[at])
          \/ apis' = Unlisted(apis, Order[at])
      BY <1>10 DEF HealthProbe
    <3>2. apis \in Seq(Instances)
      BY <1>1 DEF TypeOK
    <3>3. QED
      BY <2>1, <3>1, <3>2, ListTypes
  <2>3. status' \in [Instances -> Statuses]
    BY <1>1, <1>10, <2>1 DEF HealthProbe, Statuses, TypeOK
  <2>4. ThreadsOK'
    <3>1. UNCHANGED thr \/ Submitted(Kinds, "disk", {Order[at]})
      BY <1>10 DEF HealthProbe
    <3>2. QED
      BY <1>1, <2>1, <3>1, SubmittedType
  <2>5. at' \in 1..(Len(Order) + 1) /\ (pc' = "healthsend" => at' <= Len(Order))
    BY <1>10, <2>1, OrderType DEF HealthProbe
  <2>6. pc' \in {"health", "healthsend"}
    BY <1>10 DEF HealthProbe
  <2>7. disk' \in Versions
    <3>1. UNCHANGED disk \/ disk' = [disk EXCEPT !["confs"] = pass]
      BY <1>10 DEF HealthProbe
    <3>2. QED
      BY <1>1, <3>1 DEF TypeOK, Versions
  <2>8. QED
    BY <1>1, <1>10, <2>2, <2>3, <2>4, <2>5, <2>6, <2>7
       DEF HealthProbe, TypeInv, TypeOK, ThreadsOK
<1>11. CASE HealthReload
  <2>1. at \in 1..Len(Order) /\ Order[at] \in Instances
    BY <1>1, <1>2, <1>11 DEF HealthReload
  <2>2. apis' \in Seq(Instances)
    <3>1. \/ UNCHANGED apis
          \/ apis' = Listed(apis, Order[at])
          \/ apis' = Unlisted(apis, Order[at])
      BY <1>11 DEF HealthReload
    <3>2. apis \in Seq(Instances)
      BY <1>1 DEF TypeOK
    <3>3. QED
      BY <2>1, <3>1, <3>2, ListTypes
  <2>3. status' \in [Instances -> Statuses]
    BY <1>1, <1>11, <2>1 DEF HealthReload, Statuses, TypeOK
  <2>4. running' \in [Instances -> Versions] /\ loading' \in [Instances -> BOOLEAN]
    BY <1>1, <1>11, LoadsType DEF HealthReload, TypeOK
  <2>5. at' \in 1..(Len(Order) + 1)
    BY <1>11, <2>1, OrderType DEF HealthReload
  <2>6. QED
    BY <1>1, <1>11, <2>2, <2>3, <2>4, <2>5 DEF HealthReload, TypeInv, TypeOK, ThreadsOK
<1>12. QED
  BY <1>3, <1>4, <1>5, <1>6, <1>7, <1>8, <1>9, <1>10, <1>11 DEF Main

\* So do those of a thread that sends files.
LEMMA SenderType == ASSUME TypeInv, NEW t \in Kinds, Sender(t) PROVE TypeInv'
<1> USE DEF instVars, listVars, mainVars
<1>1. TypeOK /\ ThreadsOK /\ (pc = "healthsend" => at <= Len(Order))
  BY DEF TypeInv
<1>2. thr[t] \in Thread /\ thr[t].at \in 1..Len(Order) /\ Order[thr[t].at] \in Instances
  BY <1>1, OrderType DEF ThreadsOK
<1>3. ASSUME NEW p \in {"index", "status", "apply", "raised", "idle"}
      PROVE  [thr[t] EXCEPT !.pc = p] \in Thread /\ [thr[t] EXCEPT !.pc = p].at = thr[t].at
  BY <1>2 DEF Thread
<1>4. CASE ThrSend(t)
  <2> DEFINE v == IF thr[t].src = "disk" THEN disk[t] ELSE snap[t]
             to == IF thr[t].only = {} THEN Range(apis) ELSE thr[t].only
             got == {i \in to : reach[i]}
  <2>1. v \in Nat
    BY <1>1 DEF Versions, TypeOK
  <2>2. got \subseteq Instances
    BY <1>1, <1>2 DEF Thread, Range, TypeOK
  <2>3. PICK some \in SUBSET got, all \in SUBSET got :
            \/ /\ thr' = [thr EXCEPT ![t].pc = "raised"]
               /\ UNCHANGED <<files, faults>>
            \/ /\ thr' = [thr EXCEPT ![t].pc = "index", ![t].got = some]
               /\ files' = [i \in Instances |->
                              IF i \in all THEN [files[i] EXCEPT ![t] = v] ELSE files[i]]
               /\ \E failed : faults' = [i \in Instances |->
                              IF i \in failed THEN faults[i] + 1 ELSE faults[i]]
    <3>1. CASE thr' = [thr EXCEPT ![t].pc = "raised"] /\ UNCHANGED <<files, faults>>
      BY <3>1
    <3>2. CASE ~(thr[t].src = "snap" /\ v = 0)
      <4>1. PICK failed \in Failing(got) : \E lost \in SUBSET failed :
               /\ thr' = [thr EXCEPT ![t].pc = "index", ![t].got = got \ failed]
               /\ files' = [i \in Instances |-> IF i \in got \ lost
                              THEN [files[i] EXCEPT ![t] = v] ELSE files[i]]
               /\ faults' = [i \in Instances |->
                              IF i \in failed THEN faults[i] + 1 ELSE faults[i]]
        BY <1>4, <3>2 DEF ThrSend
      <4>2. PICK lost \in SUBSET failed :
               files' = [i \in Instances |-> IF i \in got \ lost
                              THEN [files[i] EXCEPT ![t] = v] ELSE files[i]]
        BY <4>1
      <4> HIDE DEF v, to, got
      <4>3. got \ failed \in SUBSET got /\ got \ lost \in SUBSET got
        OBVIOUS
      <4>4. QED
        BY <4>1, <4>2, <4>3
    <3>3. QED
      BY <1>4, <3>1, <3>2 DEF ThrSend
  <2> HIDE DEF v, to, got
  <2>4. ThreadsOK'
    <3>1. [thr[t] EXCEPT !.pc = "index", !.got = some] \in Thread
      BY <1>2, <2>2 DEF Thread
    <3>2. [thr[t] EXCEPT !.pc = "index", !.got = some].at = thr[t].at
      BY <1>2 DEF Thread
    <3>3. \/ thr' = [thr EXCEPT ![t] = [thr[t] EXCEPT !.pc = "raised"]]
          \/ thr' = [thr EXCEPT ![t] = [thr[t] EXCEPT !.pc = "index", !.got = some]]
      BY <1>1, <2>3 DEF ThreadsOK
    <3>4. QED
      BY <1>1, <1>2, <1>3, <3>1, <3>2, <3>3, ThreadSteps
  <2>5. files' \in [Instances -> Versions]
    <3>1. ASSUME NEW g \in Versions PROVE [g EXCEPT ![t] = v] \in Versions
      BY <2>1 DEF Versions
    <3>2. files \in [Instances -> Versions]
      BY <1>1 DEF TypeOK
    <3>3. CASE UNCHANGED files
      BY <3>2, <3>3
    <3>4. CASE files' = [i \in Instances |->
                          IF i \in all THEN [files[i] EXCEPT ![t] = v] ELSE files[i]]
      <4>1. \A i \in Instances : files[i] \in Versions /\ [files[i] EXCEPT ![t] = v] \in Versions
        BY <3>1, <3>2
      <4>2. QED
        BY <3>4, <4>1
    <3>5. QED
      BY <2>3, <3>3, <3>4
  <2>6. faults' \in [Instances -> Nat]
    <3>1. faults \in [Instances -> Nat]
      BY <1>1 DEF TypeOK
    <3>2. \/ UNCHANGED faults
          \/ \E failed : faults' = [i \in Instances |->
                 IF i \in failed THEN faults[i] + 1 ELSE faults[i]]
      BY <2>3
    <3>3. QED
      BY <3>1, <3>2
  <2>7. QED
    BY <1>1, <1>4, <2>4, <2>5, <2>6 DEF ThrSend, TypeInv, TypeOK, ThreadsOK
<1>5. CASE ThrIndex(t)
  <2>1. IndexOf(Order[thr[t].at]) \in Nat
    BY <1>1, IndexOfType DEF TypeOK
  <2> DEFINE r == [thr[t] EXCEPT !.pc = "status", !.index = IndexOf(Order[thr[t].at])]
  <2>2. r \in Thread /\ r.at = thr[t].at
    BY <1>2, <2>1 DEF Thread
  <2>3. thr' = [thr EXCEPT ![t] = r]
    BY <1>1, <1>5 DEF ThrIndex, ThreadsOK
  <2>4. ThreadsOK'
    BY <1>1, <1>2, <2>2, <2>3, ThreadSteps
  <2>5. QED
    BY <1>1, <1>5, <2>4 DEF ThrIndex, TypeInv, TypeOK, ThreadsOK
<1>6. CASE ThrStatus(t)
  <2>1. thr' = [thr EXCEPT ![t] = [thr[t] EXCEPT !.pc = "apply"]]
    BY <1>1, <1>6 DEF ThrStatus, ThreadsOK
  <2>2. ThreadsOK'
    BY <1>1, <1>2, <1>3, <2>1, ThreadSteps
  <2>3. status' \in [Instances -> Statuses]
    BY <1>1, <1>2, <1>6 DEF ThrStatus, TypeOK, Statuses
  <2>4. UNCHANGED <<instVars, apis, disk, bad, snap, bpc, mainVars, pass, faults>>
    BY <1>6 DEF ThrStatus
  <2>5. TypeOK'
    BY <1>1, <2>2, <2>3, <2>4 DEF TypeOK, ThreadsOK, instVars, mainVars
  <2>6. QED
    BY <2>2, <2>4, <2>5 DEF TypeInv, mainVars
<1>7. CASE ThrApply(t)
  <2> DEFINE n == thr[t].index
             m == thr[t].at + 1
             r == [thr[t] EXCEPT !.pc = "index", !.at = m]
  <2>1. apis' \in Seq(Instances)
    <3>1. n \in Nat
      BY <1>2 DEF Thread
    <3>2. n # 0 /\ n <= Len(apis) => RemoveAt(apis, n) \in Seq(Instances)
      BY <1>1, <3>1, RemoveAtType DEF TypeOK
    <3>3. \/ UNCHANGED apis
          \/ apis' = Append(apis, Order[thr[t].at])
          \/ n # 0 /\ n <= Len(apis) /\ apis' = RemoveAt(apis, n)
      BY <1>7 DEF ThrApply
    <3>4. apis \in Seq(Instances) /\ Append(apis, Order[thr[t].at]) \in Seq(Instances)
      BY <1>1, <1>2 DEF TypeOK
    <3>5. QED
      BY <3>2, <3>3, <3>4
  <2>2. thr[t].at < Len(Order) => r \in Thread /\ r.at \in 1..Len(Order)
    <3>1. m \in Nat /\ (thr[t].at < Len(Order) => m \in 1..Len(Order))
      BY <1>2, OrderType
    <3>2. r \in Thread /\ r.at = m
      <4> HIDE DEF m
      <4> QED BY <1>2, <3>1 DEF Thread
    <3>3. QED
      BY <3>1, <3>2
  <2>3. \/ thr' = [thr EXCEPT ![t] = [thr[t] EXCEPT !.pc = "raised"]]
        \/ thr' = [thr EXCEPT ![t] = [thr[t] EXCEPT !.pc = "idle"]]
        \/ thr[t].at < Len(Order) /\ thr' = [thr EXCEPT ![t] = r]
    BY <1>1, <1>7 DEF ThrApply, Advance, ThreadsOK
  <2>4. ThreadsOK'
    BY <1>1, <1>2, <1>3, <2>2, <2>3, ThreadSteps
  <2>5. TypeOK'
    BY <1>1, <1>7, <2>1, <2>4 DEF ThrApply, TypeOK, ThreadsOK
  <2>6. UNCHANGED <<pc, at>>
    BY <1>7 DEF ThrApply
  <2>7. QED
    BY <2>4, <2>5, <2>6 DEF TypeInv
<1>8. QED
  BY <1>4, <1>5, <1>6, <1>7 DEF Sender

\* The first state and every step keep them.
LEMMA InitType == Init => TypeInv
<1> SUFFICES ASSUME Init PROVE TypeInv
  OBVIOUS
<1>1. disk \in Versions /\ files \in [Instances -> Versions] /\ running \in [Instances -> Versions]
  BY DEF Init, Versions
<1>2. ThreadsOK
  BY OrderType DEF Init, Thread, ThreadsOK
<1>3. apis \in Seq(Instances) /\ at \in 1..(Len(Order) + 1)
  BY OrderType DEF Init
<1>4. status \in [Instances -> Statuses] /\ hcSeen \in [Instances -> Statuses]
  BY DEF Init, Statuses
<1>5. QED
  BY <1>1, <1>2, <1>3, <1>4 DEF Init, TypeInv, TypeOK, ThreadsOK

\* Every step keeps the types and the bounds of the indexes.
LEMMA TypeStep == TypeInv /\ [Next]_vars => TypeInv'
<1> USE DEF instVars, listVars, mainVars
<1> SUFFICES ASSUME TypeInv, [Next]_vars PROVE TypeInv'
  OBVIOUS
<1>1. CASE Change
  <2>1. pass' \in Nat /\ UNCHANGED <<instVars, status, snap, bpc, success, reachable, failover,
                                     hcEvent, at, hcSeen, answer, faults>> /\ pc' = "custom"
    BY <1>1 DEF Change, TypeInv, TypeOK, ThreadsOK
  <2>2. apis' \in Seq(Instances)
    BY <1>1, OrderType DEF Change, TypeInv, TypeOK, ThreadsOK
  <2>3. disk' \in Versions
    BY <1>1, <2>1 DEF Change, TypeInv, TypeOK, Versions
  <2>4. ThreadsOK'
    <3>1. thr' = thr \/ \E T \in SUBSET Kinds : Submitted(T, "disk", {})
      BY <1>1 DEF Change, Kinds
    <3>2. QED
      BY <3>1, SubmittedToAllType DEF TypeInv, ThreadsOK
  <2>5. bad' \subseteq Kinds \X Nat
    BY <1>1, <2>1 DEF Change, TypeInv, TypeOK, Kinds
  <2>6. QED
    BY <2>1, <2>2, <2>3, <2>4, <2>5 DEF TypeInv, TypeOK, ThreadsOK
<1>2. CASE Main
  BY <1>2, MainType
<1>3. CASE HealthError
  BY <1>3 DEF HealthError, TypeInv, TypeOK, ThreadsOK
<1>4. CASE Backup
  <2>1. snap' \in Versions
    <3>1. snap \in Versions /\ disk \in Versions
      BY DEF TypeInv, TypeOK
    <3>2. \/ snap' = [k \in Kinds |-> 0]
          \/ snap' = snap
          \/ \E k \in Kinds : snap' = [snap EXCEPT ![k] = disk[k]]
      BY <1>4 DEF Backup, BackupStart, BackupCopy
    <3>3. QED
      BY <3>1, <3>2 DEF Versions
  <2>2. bpc' \in {"idle", "queued", "confs", "custom_configs", "cache"}
    BY <1>4 DEF Backup, BackupStart, BackupCopy, Kinds
  <2>3. UNCHANGED <<instVars, listVars, disk, bad, thr, mainVars, pass, faults>>
    BY <1>4 DEF Backup, BackupStart, BackupCopy
  <2>4. QED
    BY <2>1, <2>2, <2>3 DEF TypeInv, TypeOK, ThreadsOK
<1>5. CASE \E t \in Kinds : Sender(t)
  BY <1>5, SenderType
<1>6. CASE Environment
  <2> PICK i \in Instances : Lose(i) \/ Regain(i) \/ RestartInstance(i)
    BY <1>6 DEF Environment
  <2>1. CASE Lose(i) \/ Regain(i)
    <3>1. reach' \in [Instances -> BOOLEAN]
      BY <2>1 DEF Lose, Regain, TypeInv, TypeOK
    <3>2. faults' \in [Instances -> Nat]
      BY <2>1 DEF Lose, Regain, Fault, TypeInv, TypeOK
    <3>3. UNCHANGED <<loading, files, running, apis, status, disk, bad, snap, bpc, thr, pc,
                      answer, success, reachable, failover, hcEvent, at, hcSeen, pass>>
      BY <2>1 DEF Lose, Regain
    <3>4. QED
      BY <3>1, <3>2, <3>3 DEF TypeInv, TypeOK, ThreadsOK
  <2>2. CASE RestartInstance(i)
    <3>1. [k \in Kinds |-> 0] \in Versions
      BY DEF Versions
    <3>2. QED
      BY <2>2, <3>1 DEF RestartInstance, Fault, TypeInv, TypeOK, ThreadsOK
  <2>3. QED
    BY <2>1, <2>2
<1>7. CASE UNCHANGED vars
  BY <1>7 DEF vars, TypeInv, TypeOK, ThreadsOK
<1>8. QED
  BY <1>1, <1>2, <1>3, <1>4, <1>5, <1>6, <1>7 DEF Next

\* TypeOK for every list of instances, all faults and every interleaving: an instance is up,
\* down, loading or in failover, and an index into SCHEDULER.apis stays a position or none.
THEOREM DeploymentTyped == Spec => []TypeOK
BY InitType, TypeStep, PTL DEF Spec, TypeInv
-----------------------------------------------------------------------------
(* Instances that stay up *)

\* No instance goes down, restarts or fails an upload.
InstancesStayUp == Faults \cap {"down", "restart", "upload"} = {}

\* Then SCHEDULER.apis is the list of the database: every instance gets what is sent, has a
\* place in the list when a thread looks for it, answers the reload, and has no loading
\* configuration for the health check to find.
ListedInv ==
    /\ reach = [i \in Instances |-> TRUE] /\ loading = [i \in Instances |-> FALSE]
    /\ apis = Order
    /\ \A t \in Kinds :
          /\ thr[t].only = {}
          /\ thr[t].pc \in {"index", "status", "apply"} => thr[t].got = Instances
          /\ thr[t].pc \in {"status", "apply"} => thr[t].index \in 1..Len(Order)
    /\ pc = "answers" => \A i \in Instances : answer[i] # "none"
    /\ pc # "healthsend"

\* An instance of the database has a place in the list.
LEMMA OrderContains ==
    ASSUME NEW i \in Instances PROVE Listed(Order, i) = Order /\ Contains(Order, i)
<1>1. PICK k \in DOMAIN Order : Order[k] = i
  BY DEF Instances, Range
<1>2. DOMAIN Order = 1..Len(Order)
  BY OrderType
<1>3. QED
  BY <1>1, <1>2 DEF Listed, Contains

\* The parts of ListedInv that a step disturbs only by handing files to the executor or by
\* reloading.
LEMMA ListedKeep ==
    ASSUME TypeInv, ListedInv, UNCHANGED <<reach, apis>>,
           UNCHANGED loading \/ \E S : Loads(S),
           UNCHANGED thr \/ \E T, src : Submitted(T, src, {}),
           pc' # "healthsend",
           pc' = "answers" => \A i \in Instances : answer'[i] # "none"
    PROVE  ListedInv'
<1>1. loading' = [i \in Instances |-> FALSE]
  BY DEF ListedInv, Loads
<1>2. ASSUME NEW t \in Kinds
      PROVE  /\ thr'[t].only = {}
             /\ thr'[t].pc \in {"index", "status", "apply"} => thr'[t].got = Instances
             /\ thr'[t].pc \in {"status", "apply"} => thr'[t].index \in 1..Len(Order)
  <2>1. \/ thr'[t] = thr[t]
        \/ thr'[t].pc = "send" /\ thr'[t].only = {}
    BY DEF Submitted, TypeInv, ThreadsOK
  <2>2. QED
    BY <2>1 DEF ListedInv
<1>3. QED
  BY <1>1, <1>2 DEF ListedInv

\* While no instance goes down or restarts every step keeps those that are up in the list.
LEMMA ListedStep ==
    ASSUME InstancesStayUp, TypeInv, ListedInv, [Next]_vars
    PROVE  ListedInv'
<1> USE DEF instVars, listVars, mainVars
<1>1. apis = Order /\ Range(apis) = Instances /\ Order # <<>>
  BY DeploymentAssumption DEF ListedInv, Instances
<1>2. \A i \in Instances : reach[i] /\ ~loading[i]
  BY DEF ListedInv
<1>3. CASE CustomSent \/ Generate \/ Sent \/ Decide \/ FailoverReload \/ HealthStart \/ HealthEnd
           \/ AnswersEnd \/ HealthError
  <2>1. UNCHANGED <<reach, apis>>
    BY <1>3 DEF CustomSent, Generate, Sent, Decide, FailoverReload, HealthStart, HealthEnd,
       AnswersEnd, HealthError
  <2>2. UNCHANGED loading \/ \E S : Loads(S)
    BY <1>3 DEF CustomSent, Generate, Sent, Decide, FailoverReload, HealthStart, HealthEnd,
       AnswersEnd, HealthError
  <2>3. UNCHANGED thr \/ \E T, src : Submitted(T, src, {})
    BY <1>3 DEF CustomSent, Generate, Sent, Decide, FailoverReload, HealthStart, HealthEnd,
       AnswersEnd, HealthError
  <2>4. pc' \notin {"healthsend", "answers"}
    BY <1>3 DEF CustomSent, Generate, Sent, Decide, FailoverReload, HealthStart, HealthEnd,
       AnswersEnd, HealthError
  <2>5. QED
    BY <2>1, <2>2, <2>3, <2>4, ListedKeep
<1>4. CASE Reload
  <2>1. \A i \in Instances : answer'[i] # "none"
    BY <1>1, <1>2, <1>4 DEF Reload
  <2>2. QED
    BY <1>4, <2>1, ListedKeep DEF Reload
<1>5. CASE StoreAnswer
  <2>1. pc = "answers" /\ at \in 1..Len(Order) /\ Order[at] \in Instances
    BY <1>5, OrderType DEF StoreAnswer, TypeInv, TypeOK
  <2>2. answer[Order[at]] # "none"
    BY <2>1 DEF ListedInv
  <2>3. apis' = apis
    BY <1>1, <1>5, <2>1, <2>2, OrderContains DEF StoreAnswer
  <2>4. QED
    BY <1>5, <2>3, ListedKeep DEF StoreAnswer, ListedInv
<1>6. CASE HealthProbe
  <2>1. at \in 1..Len(Order) /\ Order[at] \in Instances
    BY <1>6, OrderType DEF HealthProbe, TypeInv, TypeOK
  <2>2. apis' = Listed(apis, Order[at]) /\ UNCHANGED <<thr, pc>> /\ pc = "health"
    BY <1>2, <1>6, <2>1 DEF HealthProbe
  <2>3. apis' = apis
    BY <1>1, <2>1, <2>2, OrderContains
  <2>4. QED
    BY <1>6, <2>2, <2>3, ListedKeep DEF HealthProbe
<1>7. CASE HealthReload
  BY <1>7 DEF HealthReload, ListedInv
<1>8. CASE Change
  <2>1. apis' = apis /\ UNCHANGED <<reach, loading>> /\ pc' = "custom"
    BY <1>1, <1>8 DEF Change
  <2>2. UNCHANGED thr \/ \E T, src : Submitted(T, src, {})
    BY <1>8 DEF Change
  <2>3. QED
    BY <2>1, <2>2, ListedKeep
<1>9. CASE Backup
  BY <1>9, ListedKeep DEF Backup, BackupStart, BackupCopy, ListedInv
<1>10. CASE \E t \in Kinds : Sender(t)
  <2> PICK t \in Kinds : Sender(t)
    BY <1>10
  <2>1. thr[t] \in Thread /\ Order[thr[t].at] \in Instances /\ thr[t].only = {}
    BY OrderType DEF TypeInv, ThreadsOK, ListedInv
  <2>2. apis' = apis /\ UNCHANGED <<reach, loading, pc, answer>>
    <3>1. CASE ThrApply(t)
      <4>1. thr[t].got = Instances /\ thr[t].index # 0
        BY <3>1 DEF ThrApply, ListedInv
      <4>2. QED
        BY <2>1, <3>1, <4>1 DEF ThrApply
    <3>2. QED
      BY <3>1 DEF Sender, ThrSend, ThrIndex, ThrStatus
  <2>3. /\ thr' = [thr EXCEPT ![t] = thr'[t]]
        /\ thr'[t].only = {}
        /\ thr'[t].pc \in {"index", "status", "apply"} => thr'[t].got = Instances
        /\ thr'[t].pc \in {"status", "apply"} => thr'[t].index \in 1..Len(Order)
    <3>1. CASE ThrSend(t)
      <4>1. {i \in Range(apis) : reach[i]} = Instances
        BY <1>1, <1>2
      <4>2. \/ thr' = [thr EXCEPT ![t].pc = "raised"]
            \/ thr' = [thr EXCEPT ![t].pc = "index", ![t].got = Instances]
        <5>1. Failing(Instances) \subseteq {{}}
          BY DEF Failing, InstancesStayUp
        <5>2. \/ thr' = [thr EXCEPT ![t].pc = "raised"]
              \/ \E failed \in Failing(Instances) :
                    thr' = [thr EXCEPT ![t].pc = "index", ![t].got = Instances \ failed]
          BY <2>1, <3>1, <4>1 DEF ThrSend
        <5>3. QED
          BY <5>1, <5>2
      <4>3. CASE thr' = [thr EXCEPT ![t].pc = "raised"]
        BY <2>1, <4>3 DEF Thread, TypeInv, ThreadsOK
      <4>4. CASE thr' = [thr EXCEPT ![t].pc = "index", ![t].got = Instances]
        BY <2>1, <4>4 DEF Thread, TypeInv, ThreadsOK
      <4>5. QED
        BY <4>2, <4>3, <4>4
    <3>2. CASE ThrIndex(t)
      <4>1. IndexOf(Order[thr[t].at]) \in 1..Len(Order)
        BY <1>1, <2>1, OrderType, IndexOfType
      <4>2. QED
        BY <2>1, <3>2, <4>1 DEF ThrIndex, Thread, TypeInv, ThreadsOK, ListedInv
    <3>3. CASE ThrStatus(t)
      BY <2>1, <3>3 DEF ThrStatus, Thread, TypeInv, ThreadsOK, ListedInv
    <3>4. CASE ThrApply(t)
      <4>1. thr[t].got = Instances
        BY <3>4 DEF ThrApply, ListedInv
      <4>2. \/ thr' = [thr EXCEPT ![t].pc = "raised"]
            \/ thr' = [thr EXCEPT ![t].pc = "idle"]
            \/ thr' = [thr EXCEPT ![t].pc = "index", ![t].at = @ + 1]
        BY <3>4 DEF ThrApply, Advance
      <4>3. thr \in [Kinds -> Thread] /\ thr[t].at \in Nat
        BY <2>1 DEF Thread, TypeInv, ThreadsOK
      <4>4. CASE thr' = [thr EXCEPT ![t].pc = "raised"]
        BY <2>1, <4>3, <4>4 DEF Thread
      <4>5. CASE thr' = [thr EXCEPT ![t].pc = "idle"]
        BY <2>1, <4>3, <4>5 DEF Thread
      <4>6. CASE thr' = [thr EXCEPT ![t].pc = "index", ![t].at = @ + 1]
        BY <2>1, <4>1, <4>3, <4>6 DEF Thread
      <4>7. QED
        BY <4>2, <4>4, <4>5, <4>6
    <3>5. QED
      BY <3>1, <3>2, <3>3, <3>4 DEF Sender
  <2>4. QED
    BY <2>2, <2>3 DEF ListedInv, TypeInv, ThreadsOK
<1>11. CASE Environment
  BY <1>2, <1>11 DEF Environment, Lose, Regain, RestartInstance, Fault, InstancesStayUp
<1>12. CASE UNCHANGED vars
  BY <1>12, ListedKeep DEF vars, ListedInv
<1>13. QED
  BY <1>3, <1>4, <1>5, <1>6, <1>7, <1>8, <1>9, <1>10, <1>11, <1>12 DEF Next, Main
-----------------------------------------------------------------------------
(* Failing over and backing up *)

\* Moreover nginx is asked and refuses generated configurations only, the generator does not fail,
\* and a change is polled once the backup before has ended.
OnlyConfsRefused ==
    InstancesStayUp /\ Tested /\ Faults \cap {"bad_custom", "gen"} = {} /\ ~SlowBackup

Good(v) == <<"confs", v>> \notin bad

\* No thread raises.  The main thread waits for the threads it started, and once it sends the
\* snapshot back, each thread leaves its part of the snapshot on every instance.
ThreadsFollow ==
    /\ \A t \in Kinds : thr[t].pc # "raised"
    /\ pc \in {"poll", "wait", "reload", "answers", "decide", "health"} =>
          \A t \in Kinds : thr[t].pc = "idle"
    /\ pc = "custom" => \A t \in {"confs", "cache"} : thr[t].pc = "idle"
    /\ pc = "sent" => thr["custom_configs"].pc = "idle"
    /\ pc # "failsend" => \A t \in Kinds : thr[t].pc # "idle" => thr[t].src = "disk"
    /\ pc = "failsend" =>
          /\ FailoverConfig
          /\ \A t \in Kinds : thr[t].src = "snap"
          /\ \A t \in Kinds, i \in Instances : thr[t].pc # "send" => files[i][t] = snap[t]
\* What is backed up, and what was, is a configuration that nginx accepts.
BackupInv ==
    /\ bad \subseteq {"confs"} \X Nat
    /\ bpc # "idle" => pc \in {"poll", "health"} /\ ~failover /\ Good(disk["confs"])
    /\ Good(snap["confs"])
\* A pass is a success only when an instance accepted the configuration of the pass.
PassInv ==
    /\ pc = "sent" /\ thr["confs"].pc # "send" =>
          \A i \in Instances : files[i]["confs"] = disk["confs"]
    /\ pc = "reload" => \A i \in Instances : files[i]["confs"] = disk["confs"]
    /\ pc = "answers" /\ (success \/ \E i \in Instances : answer[i] = "success") =>
          Good(disk["confs"])
    /\ pc = "decide" => reachable /\ (success => Good(disk["confs"]))
\* FailoverRestores, in the health check too.
RestoredInv ==
    pc \in {"poll", "health"} /\ failover /\ FailoverConfig =>
        \A i \in Instances : files[i] = snap /\ running[i] = snap
SteadyInv == ThreadsFollow /\ BackupInv /\ PassInv /\ RestoredInv
Steady == TypeInv /\ VersionsInv /\ ListedInv /\ SteadyInv

\* What ListedInv and the types say of one instance.
LEMMA SteadyFacts ==
    ASSUME Steady
    PROVE  /\ Range(apis) = Instances /\ apis # <<>> /\ Instances # {}
           /\ \A i \in Instances : reach[i] /\ ~loading[i]
           /\ snap \in Versions /\ disk \in Versions /\ files \in [Instances -> Versions]
           /\ thr \in [Kinds -> Thread]
<1>1. apis = Order /\ Order # <<>> /\ Order[1] \in Instances
  BY DeploymentAssumption, OrderType DEF Steady, ListedInv
<1>2. QED
  BY <1>1 DEF Steady, ListedInv, TypeInv, TypeOK, Instances

\* The steps of the pass.
LEMMA PassStep ==
    ASSUME OnlyConfsRefused, Steady, CustomSent \/ Generate \/ Sent \/ Reload \/ StoreAnswer \/ AnswersEnd
    PROVE  SteadyInv'
<1> USE DEF instVars, listVars, Kinds
<1>1. SteadyInv
  BY DEF Steady
<1>2. CASE CustomSent
  BY <1>1, <1>2 DEF CustomSent, Finished, SteadyInv, ThreadsFollow, BackupInv, PassInv,
     RestoredInv, Good, FailoverConfig
<1>3. CASE Generate
  <2>1. apis # <<>> /\ disk \in Versions
    BY SteadyFacts
  <2>2. /\ pc = "wait" /\ pc' = "sent" /\ bpc = "idle"
        /\ Submitted({"confs", "cache"}, "disk", {})
        /\ UNCHANGED <<reach, loading, files, running, bad, snap, bpc, failover>>
    BY <1>1, <1>3, <2>1 DEF Generate, SteadyInv, BackupInv, OnlyConfsRefused
  <2>3. ThreadsFollow'
    BY <1>1, <2>2 DEF Submitted, SteadyInv, ThreadsFollow
  <2>4. BackupInv' /\ PassInv' /\ RestoredInv'
    BY <1>1, <2>2 DEF Submitted, SteadyInv, BackupInv, PassInv, RestoredInv, Good
  <2>5. QED
    BY <2>3, <2>4 DEF SteadyInv
<1>4. CASE Sent
  <2>1. FuturesDone({"confs", "cache"}) /\ pc = "sent" /\ pc' = "reload"
    BY <1>1, <1>4 DEF Sent, FutureRaised, SteadyInv, ThreadsFollow
  <2>2. UNCHANGED <<instVars, disk, bad, snap, bpc, thr, success, failover>>
    BY <1>4 DEF Sent
  <2>3. ThreadsFollow' /\ PassInv'
    BY <1>1, <2>1, <2>2 DEF FuturesDone, SteadyInv, ThreadsFollow, PassInv
  <2>4. BackupInv' /\ RestoredInv'
    BY <1>1, <2>1, <2>2 DEF SteadyInv, BackupInv, RestoredInv, Good
  <2>5. QED
    BY <2>3, <2>4 DEF SteadyInv
<1>5. CASE Reload
  <2>1. /\ pc = "reload" /\ pc' = "answers"
        /\ UNCHANGED <<reach, files, disk, bad, snap, bpc, thr, failover>>
    BY <1>5 DEF Reload
  <2>2. ASSUME NEW i \in Instances, answer'[i] = "success" PROVE Good(disk["confs"])
    <3>1. Accepts(i) /\ files[i]["confs"] = disk["confs"]
      BY <1>1, <1>5, <2>1, <2>2 DEF Reload, Succeeds, SteadyInv, PassInv, OnlyConfsRefused
    <3>2. QED
      BY <3>1 DEF Accepts, Good
  <2>3. success' => \E i \in Instances : answer'[i] = "success"
    BY <1>5, SteadyFacts DEF Reload
  <2>4. PassInv'
    BY <2>1, <2>2, <2>3 DEF PassInv, Good
  <2>5. ThreadsFollow' /\ BackupInv' /\ RestoredInv'
    BY <1>1, <2>1 DEF SteadyInv, ThreadsFollow, BackupInv, RestoredInv, Good
  <2>6. QED
    BY <2>4, <2>5 DEF SteadyInv
<1>6. CASE StoreAnswer
  <2>1. /\ pc = "answers" /\ pc' = "answers"
        /\ UNCHANGED <<files, running, disk, bad, snap, bpc, thr, failover, answer>>
    BY <1>6 DEF StoreAnswer
  <2>2. Order[at] \in Instances
    BY <1>6, OrderType DEF StoreAnswer, Steady, TypeInv, TypeOK
  <2>3. success' => success \/ \E i \in Instances : answer[i] = "success"
    BY <1>6, <2>2 DEF StoreAnswer
  <2>4. PassInv'
    BY <1>1, <2>1, <2>3 DEF SteadyInv, PassInv, Good
  <2>5. ThreadsFollow' /\ BackupInv' /\ RestoredInv'
    BY <1>1, <2>1 DEF SteadyInv, ThreadsFollow, BackupInv, RestoredInv, Good
  <2>6. QED
    BY <2>4, <2>5 DEF SteadyInv
<1>7. CASE AnswersEnd
  <2>1. /\ pc = "answers" /\ pc' = "decide" /\ reachable' = TRUE
        /\ UNCHANGED <<files, running, disk, bad, snap, bpc, thr, failover, success>>
    BY <1>7, SteadyFacts DEF AnswersEnd
  <2>2. ThreadsFollow' /\ BackupInv' /\ PassInv' /\ RestoredInv'
    BY <1>1, <2>1 DEF SteadyInv, ThreadsFollow, BackupInv, PassInv, RestoredInv, Good
  <2>3. QED
    BY <2>2 DEF SteadyInv
<1>8. QED
  BY <1>2, <1>3, <1>4, <1>5, <1>6, <1>7

\* Failing over, or backing up.
LEMMA DecideStep == ASSUME Steady, Decide \/ FailoverReload PROVE SteadyInv'
<1> USE DEF instVars, listVars, Kinds
<1>1. SteadyInv
  BY DEF Steady
<1>2. CASE Decide
  <2>1. /\ pc = "decide" /\ reachable /\ bpc = "idle" /\ failover' = ~success
        /\ UNCHANGED <<files, running, disk, bad, snap>>
    BY <1>1, <1>2 DEF Decide, SteadyInv, PassInv, BackupInv
  <2>2. CASE pc' = "failsend"
    <3>1. FailoverConfig /\ Submitted(Kinds, "snap", {}) /\ UNCHANGED bpc
      BY <1>2, <2>2 DEF Decide
    <3>2. ThreadsFollow'
      BY <2>1, <2>2, <3>1 DEF Submitted, ThreadsFollow, FailoverConfig
    <3>3. BackupInv' /\ PassInv' /\ RestoredInv'
      BY <1>1, <2>1, <2>2, <3>1 DEF SteadyInv, BackupInv, PassInv, RestoredInv, Good
    <3>4. QED
      BY <3>2, <3>3 DEF SteadyInv
  <2>3. CASE pc' = "poll"
    <3>1. /\ UNCHANGED thr
          /\ success \/ ~FailoverConfig
          /\ bpc' # "idle" => success
      BY <1>2, <2>1, <2>3 DEF Decide
    <3>2. ThreadsFollow'
      BY <1>1, <2>1, <2>3, <3>1 DEF SteadyInv, ThreadsFollow
    <3>3. BackupInv' /\ PassInv'
      BY <1>1, <2>1, <2>3, <3>1 DEF SteadyInv, BackupInv, PassInv, Good
    <3>4. RestoredInv'
      BY <2>1, <2>3, <3>1 DEF RestoredInv, FailoverConfig
    <3>5. QED
      BY <3>2, <3>3, <3>4 DEF SteadyInv
  <2>4. QED
    BY <1>2, <2>2, <2>3 DEF Decide
<1>3. CASE FailoverReload
  <2>1. /\ FuturesDone(Kinds) /\ Loads(Range(apis)) /\ pc = "failsend" /\ pc' = "poll"
        /\ UNCHANGED <<reach, files, disk, bad, snap, bpc, thr, failover>>
    BY <1>1, <1>3 DEF FailoverReload, FutureRaised, SteadyInv, ThreadsFollow
  <2>2. ASSUME NEW i \in Instances PROVE files'[i] = snap' /\ running'[i] = snap'
    <3>1. \A k \in Kinds : files[i][k] = snap[k]
      BY <1>1, <2>1 DEF FuturesDone, SteadyInv, ThreadsFollow
    <3>2. files[i] = snap
      <4>1. files[i] = [k \in Kinds |-> files[i][k]] /\ snap = [k \in Kinds |-> snap[k]]
        BY SteadyFacts DEF Versions
      <4>2. QED
        BY <3>1, <4>1
    <3>3. Accepts(i)
      BY <1>1, <3>2 DEF Accepts, SteadyInv, BackupInv, Good
    <3>4. running'[i] = files[i]
      BY <2>1, <3>3, SteadyFacts DEF Loads
    <3>5. QED
      BY <2>1, <3>2, <3>4
  <2>3. ThreadsFollow'
    BY <1>1, <2>1 DEF FuturesDone, SteadyInv, ThreadsFollow
  <2>4. BackupInv' /\ PassInv' /\ RestoredInv'
    BY <1>1, <2>1, <2>2 DEF SteadyInv, BackupInv, PassInv, RestoredInv, Good
  <2>5. QED
    BY <2>3, <2>4 DEF SteadyInv
<1>4. QED
  BY <1>2, <1>3

\* The poll loop, its health check and the backup.
LEMMA PollStep ==
    ASSUME OnlyConfsRefused, Steady,
           \/ HealthStart \/ HealthProbe \/ HealthReload \/ HealthEnd \/ HealthError
           \/ Change \/ Backup
    PROVE  SteadyInv'
<1> USE DEF instVars, listVars, mainVars, Kinds
<1>1. SteadyInv
  BY DEF Steady
<1>2. CASE HealthStart \/ HealthEnd \/ HealthError
  <2>1. /\ pc \in {"poll", "health"} /\ pc' \in {"poll", "health"}
        /\ UNCHANGED <<files, running, disk, bad, snap, bpc, thr, failover>>
    BY <1>2 DEF HealthStart, HealthEnd, HealthError
  <2>2. QED
    BY <1>1, <2>1
           DEF SteadyInv, ThreadsFollow, BackupInv, PassInv, RestoredInv, Good, FailoverConfig
<1>3. CASE HealthProbe
  <2>1. Order[at] \in Instances
    BY <1>3, OrderType DEF HealthProbe, Steady, TypeInv, TypeOK
  <2>2. /\ pc = "health" /\ pc' = "health"
        /\ UNCHANGED <<files, running, disk, bad, snap, bpc, thr, failover>>
    BY <1>3, <2>1, SteadyFacts DEF HealthProbe
  <2>3. QED
    BY <1>1, <2>2
           DEF SteadyInv, ThreadsFollow, BackupInv, PassInv, RestoredInv, Good, FailoverConfig
<1>4. CASE HealthReload
  BY <1>4 DEF HealthReload, Steady, ListedInv
<1>5. CASE Change
  <2>1. /\ pc = "poll" /\ pc' = "custom" /\ bpc = "idle" /\ pass' = pass + 1
        /\ UNCHANGED <<files, running, snap, bpc, failover>>
    BY <1>5 DEF Change, OnlyConfsRefused
  <2>2. bad' \subseteq bad \cup {<<"confs", pass + 1>>}
    BY <1>5, <2>1 DEF Change, OnlyConfsRefused
  <2>3. pass \in Nat /\ snap["confs"] \in 0..pass
    BY DEF Steady, VersionsInv, VersionsOK
  <2>4. UNCHANGED thr \/ \E T \in SUBSET {"custom_configs"} : Submitted(T, "disk", {})
    BY <1>5 DEF Change
  <2>5. BackupInv'
    BY <1>1, <2>1, <2>2, <2>3 DEF SteadyInv, BackupInv, Good
  <2>6. ThreadsFollow'
    BY <1>1, <2>1, <2>4 DEF Submitted, SteadyInv, ThreadsFollow
  <2>7. PassInv' /\ RestoredInv'
    BY <2>1 DEF PassInv, RestoredInv
  <2>8. QED
    BY <2>5, <2>6, <2>7 DEF SteadyInv
<1>6. CASE Backup
  <2>1. /\ bpc # "idle" /\ pc \in {"poll", "health"} /\ ~failover /\ Good(disk["confs"])
        /\ UNCHANGED <<files, running, disk, bad, thr, failover, pc>>
    BY <1>1, <1>6 DEF Backup, BackupStart, BackupCopy, SteadyInv, BackupInv
  <2>2. Good(snap'["confs"])
    <3>1. Good(0)
      BY DEF Good, Steady, VersionsInv, LoadingWorks
    <3>2. snap'["confs"] \in {0, snap["confs"], disk["confs"]}
      BY <1>6, SteadyFacts DEF Backup, BackupStart, BackupCopy, Versions
    <3>3. QED
      BY <1>1, <2>1, <3>1, <3>2 DEF SteadyInv, BackupInv
  <2>3. BackupInv'
    BY <1>1, <2>1, <2>2 DEF SteadyInv, BackupInv, Good
  <2>4. ThreadsFollow' /\ PassInv' /\ RestoredInv'
    BY <1>1, <2>1 DEF SteadyInv, ThreadsFollow, PassInv, RestoredInv
  <2>5. QED
    BY <2>3, <2>4 DEF SteadyInv
<1>7. QED
  BY <1>2, <1>3, <1>4, <1>5, <1>6

\* A step of a thread that sends.
LEMMA SenderStep == ASSUME OnlyConfsRefused, Steady, NEW t \in Kinds, Sender(t) PROVE SteadyInv'
<1> USE DEF instVars, listVars, mainVars
<1>1. SteadyInv
  BY DEF Steady
<1>2. /\ thr \in [Kinds -> Thread] /\ files \in [Instances -> Versions]
      /\ {i \in Range(apis) : reach[i]} = Instances
      /\ thr[t].only = {}
  BY SteadyFacts DEF Steady, ListedInv
<1>3. UNCHANGED <<disk, bad, snap, bpc, mainVars, running>>
  BY DEF Sender, ThrSend, ThrIndex, ThrStatus, ThrApply
<1>4. thr[t].pc # "idle" /\ pc \in {"custom", "sent", "failsend"}
  <2>1. thr[t].pc # "idle"
    BY DEF Sender, ThrSend, ThrIndex, ThrStatus, ThrApply
  <2>2. QED
    BY <1>1, <2>1 DEF Steady, TypeInv, TypeOK, ListedInv, SteadyInv, ThreadsFollow
<1> DEFINE v == IF thr[t].src = "disk" THEN disk[t] ELSE snap[t]
<1>5. /\ \A u \in Kinds \ {t} : thr'[u] = thr[u]
      /\ thr'[t].src = thr[t].src /\ thr'[t].pc \notin {"send", "raised"}
      /\ IF thr[t].pc = "send"
         THEN files' = [i \in Instances |-> [files[i] EXCEPT ![t] = v]]
         ELSE files' = files
  <2>1. CASE ThrSend(t)
    <3>1. ~(thr[t].src = "snap" /\ v = 0)
      BY <1>1, <1>4 DEF SteadyInv, ThreadsFollow, FailoverConfig
    <3>2. /\ thr' = [thr EXCEPT ![t].pc = "index", ![t].got = Instances]
          /\ files' = [i \in Instances |-> [files[i] EXCEPT ![t] = v]]
      <4> DEFINE to == IF thr[t].only = {} THEN Range(apis) ELSE thr[t].only
                 got == {i \in to : reach[i]}
      <4>1. got = Instances
        BY <1>2
      <4>2. PICK failed \in Failing(got) : \E lost \in SUBSET failed :
               /\ thr' = [thr EXCEPT ![t].pc = "index", ![t].got = got \ failed]
               /\ files' = [i \in Instances |-> IF i \in got \ lost
                              THEN [files[i] EXCEPT ![t] = v] ELSE files[i]]
        BY <2>1, <3>1 DEF ThrSend
      <4> HIDE DEF v, to, got
      <4>3. PICK lost \in SUBSET failed :
               files' = [i \in Instances |-> IF i \in got \ lost
                              THEN [files[i] EXCEPT ![t] = v] ELSE files[i]]
        BY <4>2
      <4>4. failed = {} /\ got \ failed = Instances /\ \A i \in Instances : i \in got \ lost
        BY <4>1 DEF Failing, OnlyConfsRefused, InstancesStayUp
      <4>5. thr' = [thr EXCEPT ![t].pc = "index", ![t].got = Instances]
        BY <4>2, <4>4
      <4>6. QED
        BY <4>3, <4>4, <4>5
    <3>3. thr[t].pc = "send"
      BY <2>1 DEF ThrSend
    <3>4. QED
      BY <1>2, <3>2, <3>3 DEF Thread
  <2>2. CASE ThrIndex(t)
    BY <1>2, <2>2 DEF ThrIndex, Thread
  <2>3. CASE ThrStatus(t)
    BY <1>2, <2>3 DEF ThrStatus, Thread
  <2>4. CASE ThrApply(t)
    <3>1. thr[t].got = Instances /\ Order[thr[t].at] \in Instances
      BY <2>4, OrderType DEF ThrApply, Steady, ListedInv, TypeInv, ThreadsOK
    <3>2. \/ thr' = [thr EXCEPT ![t].pc = "idle"]
          \/ thr' = [thr EXCEPT ![t].pc = "index", ![t].at = @ + 1]
      BY <2>4, <3>1 DEF ThrApply, Advance
    <3>3. QED
      BY <1>2, <2>4, <3>2 DEF ThrApply, Thread
  <2>5. QED
    BY <2>1, <2>2, <2>3, <2>4 DEF Sender
<1>6. \A i \in Instances, u \in Kinds :
          files'[i][u] = IF u = t /\ thr[t].pc = "send" THEN v ELSE files[i][u]
  BY <1>2, <1>5 DEF Versions
<1>7. ThreadsFollow'
  <2>1. /\ \A u \in Kinds : thr'[u].pc # "raised"
        /\ pc = "custom" => \A u \in {"confs", "cache"} : thr'[u].pc = "idle"
        /\ pc = "sent" => thr'["custom_configs"].pc = "idle"
        /\ pc # "failsend" => \A u \in Kinds : thr'[u].pc # "idle" => thr'[u].src = "disk"
    BY <1>1, <1>4, <1>5 DEF SteadyInv, ThreadsFollow, Kinds
  <2>2. pc = "failsend" =>
           /\ FailoverConfig
           /\ \A u \in Kinds : thr'[u].src = "snap"
           /\ \A u \in Kinds, i \in Instances : thr'[u].pc # "send" => files'[i][u] = snap[u]
    BY <1>1, <1>4, <1>5, <1>6 DEF SteadyInv, ThreadsFollow
  <2>3. QED
    BY <1>3, <1>4, <2>1, <2>2 DEF ThreadsFollow, FailoverConfig
<1>8. PassInv'
  <2>1. pc = "sent" /\ thr'["confs"].pc # "send" =>
           \A i \in Instances : files'[i]["confs"] = disk["confs"]
    BY <1>1, <1>4, <1>5, <1>6 DEF SteadyInv, ThreadsFollow, PassInv, Kinds
  <2>2. QED
    BY <1>3, <1>4, <2>1 DEF PassInv
<1>9. BackupInv' /\ RestoredInv'
  BY <1>1, <1>3, <1>4 DEF SteadyInv, BackupInv, RestoredInv, Good
<1>10. QED
  BY <1>7, <1>8, <1>9 DEF SteadyInv

\* The invariant holds as long as only generated configurations are refused.
LEMMA SteadyHolds == OnlyConfsRefused => (Spec => []Steady)
<1> SUFFICES ASSUME OnlyConfsRefused PROVE Spec => []Steady
  OBVIOUS
<1>1. Init => Steady
  <2> SUFFICES ASSUME Init PROVE Steady
    OBVIOUS
  <2>1. TypeInv /\ VersionsInv /\ ListedInv
    BY InitType, VersionsInit DEF Init, ListedInv
  <2>2. SteadyInv
    BY DEF Init, SteadyInv, ThreadsFollow, BackupInv, PassInv, RestoredInv, Good
  <2>3. QED
    BY <2>1, <2>2 DEF Steady
<1>2. Steady /\ [Next]_vars => Steady'
  <2> SUFFICES ASSUME Steady, [Next]_vars PROVE Steady'
    OBVIOUS
  <2>1. TypeInv' /\ VersionsInv' /\ ListedInv'
    BY TypeStep, VersionsStep, ListedStep DEF Steady, OnlyConfsRefused
  <2>2. SteadyInv'
    <3>1. CASE Main \/ Change \/ HealthError \/ Backup \/ \E t \in Kinds : Sender(t)
      BY <3>1, PassStep, DecideStep, PollStep, SenderStep DEF Main
    <3>2. CASE Environment
      BY <3>2, SteadyFacts DEF Environment, Lose, Regain, RestartInstance, Fault, OnlyConfsRefused,
         InstancesStayUp
    <3>3. CASE UNCHANGED vars
      BY <3>3 DEF vars, instVars, listVars, mainVars, Steady, SteadyInv, ThreadsFollow, BackupInv,
         PassInv, RestoredInv, Good, FailoverConfig
    <3>4. QED
      BY <3>1, <3>2, <3>3 DEF Next
  <2>3. QED
    BY <2>1, <2>2 DEF Steady
<1>3. QED
  BY <1>1, <1>2, PTL DEF Spec

\* SnapshotWorks for every list of instances and every number of refused configurations: a
\* backup never replaces the failover configuration by one that nginx refuses
\* (backup_failover), when only generated configurations are refused.
THEOREM SnapshotStaysGood == OnlyConfsRefused => (Spec => []SnapshotWorks)
<1> SUFFICES ASSUME OnlyConfsRefused PROVE Spec => []SnapshotWorks
  OBVIOUS
<1>1. Steady => SnapshotWorks
  BY DEF Steady, SteadyInv, BackupInv, Good, SnapshotWorks, Kinds
<1>2. QED
  BY <1>1, SteadyHolds, PTL

\* FailoverRestores under the same conditions: after a pass in which every instance refused the
\* configuration, all of them hold and run the snapshot (scheduler/main.py, the failover).
THEOREM FailoverEnds == OnlyConfsRefused => (Spec => []FailoverRestores)
<1> SUFFICES ASSUME OnlyConfsRefused PROVE Spec => []FailoverRestores
  OBVIOUS
<1>1. Steady => FailoverRestores
  BY SteadyFacts DEF Steady, SteadyInv, RestoredInv, FailoverRestores
<1>2. QED
  BY <1>1, SteadyHolds, PTL
=============================================================================
