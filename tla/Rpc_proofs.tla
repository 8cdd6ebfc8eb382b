----------------------------- MODULE Rpc_proofs -----------------------------
(***************************************************************************)
(* Proofs about the library of the AV scanning helper, for every value of  *)
(* the constants: the entries that processes append to the log are whole,  *)
(* a sweep of the block list keeps what is not meant, and a parameter of   *)
(* the configuration has the value of a line of its own.                   *)
(***************************************************************************)
EXTENDS RpcLog, RpcConf, RpcBlocklist, SequenceTheorems, WellFoundedInduction, TLAPS

(* The log *)

USE LogAssumption

\* there is something to write before and within an entry
Pending == \A p \in Procs : place[p] \in {"error", "lock", "write"} => left[p] >= 1

\* the holder of the lock is the process within an entry of the log
Holding ==
    \A p \in Procs : holder = p <=> place[p] \in {"write", "unlock"} /\ fd[p] = "log"

Wrote(l, p, f, i) == l[i][1] = p /\ l[i][2] = f

\* before its entry nothing of it is in the log...
Fresh ==
    \A p \in Procs, i \in 1..Len(log) :
        /\ place[p] \in {"open", "error", "lock"} => ~Wrote(log, p, fun[p], i)
        /\ fun[p] = "print_request" => ~Wrote(log, p, "print_reply", i)

\* ...and within it nothing follows but the entry itself
Together ==
    \A p \in Procs, i \in 1..Len(log) :
        place[p] = "write" /\ fd[p] = "log" /\ Wrote(log, p, fun[p], i) =>
            \A j \in i..Len(log) : Wrote(log, p, fun[p], j)

LogInv == LogTypeOK /\ Pending /\ Holding /\ Fresh /\ Together /\ EntriesWhole

Written == Procs \X (Functions \cup {"print_error"}) \X Nat

\* one more write in the log
LEMMA LogGrows ==
    ASSUME NEW l \in Seq(Written), NEW e \in Written
    PROVE  /\ Append(l, e) \in Seq(Written)
           /\ Len(l) \in Nat /\ Len(Append(l, e)) = Len(l) + 1
           /\ \A i \in 1..Len(l) : Append(l, e)[i] = l[i]
           /\ Append(l, e)[Len(l) + 1] = e
BY AppendProperties, LenProperties

\* It holds at first.
LEMMA LogStarts == LogInit => LogInv
<1> SUFFICES ASSUME LogInit PROVE LogInv
  OBVIOUS
<1>1. LogTypeOK
  BY DEF LogInit, LogTypeOK, Places, Functions
<1>2. Len(log) = 0 /\ \A p \in Procs : place[p] = "open" /\ holder # p
  BY DEF LogInit
<1>3. Pending /\ Holding /\ Fresh /\ Together /\ EntriesWhole
  BY <1>2 DEF Pending, Holding, Fresh, Together, EntriesWhole
<1> QED BY <1>1, <1>3 DEF LogInv

\* A step that leaves the log as it is, of a process that is within no entry afterwards,
\* or enters one that is new.
LEMMA Moves ==
    ASSUME LogInv, NEW p \in Procs, UNCHANGED log,
           \A q \in Procs : q # p => place'[q] = place[q] /\ fun'[q] = fun[q] /\ fd'[q] = fd[q],
           \A i \in 1..Len(log) :
               /\ place'[p] \in {"open", "error", "lock"} => ~Wrote(log, p, fun'[p], i)
               /\ fun'[p] = "print_request" => ~Wrote(log, p, "print_reply", i),
           \A i \in 1..Len(log) :
               place'[p] = "write" /\ fd'[p] = "log" => ~Wrote(log, p, fun'[p], i)
    PROVE  Fresh' /\ Together' /\ EntriesWhole'
<1>1. Fresh'
  <2> SUFFICES ASSUME NEW q \in Procs, NEW i \in 1..Len(log)
               PROVE  /\ place'[q] \in {"open", "error", "lock"} => ~Wrote(log, q, fun'[q], i)
                      /\ fun'[q] = "print_request" => ~Wrote(log, q, "print_reply", i)
    BY DEF Fresh, Wrote
  <2> QED BY DEF LogInv, Fresh
<1>2. Together'
  <2> SUFFICES ASSUME NEW q \in Procs, NEW i \in 1..Len(log),
                      place'[q] = "write", fd'[q] = "log", Wrote(log, q, fun'[q], i)
               PROVE  \A j \in i..Len(log) : Wrote(log, q, fun'[q], j)
    BY DEF Together, Wrote
  <2>1. q # p
    OBVIOUS
  <2> QED BY <2>1 DEF LogInv, Together
<1>3. EntriesWhole'
  BY DEF LogInv, EntriesWhole
<1> QED BY <1>1, <1>2, <1>3

\* A write of an entry that is under way.
LEMMA EntryGrows ==
    ASSUME LogInv, NEW p \in Procs, place[p] = "write", fd[p] = "log",
           NEW n \in Nat, n = Len(log), Len(log') = n + 1,
           \A i \in 1..n : log'[i] = log[i],
           log'[n + 1][1] = p, log'[n + 1][2] = fun[p],
           UNCHANGED <<fun, fd>>, place'[p] \in {"write", "unlock"},
           \A q \in Procs : q # p => place'[q] = place[q]
    PROVE  Fresh' /\ Together' /\ EntriesWhole'
<1>2. /\ Len(log') = n + 1 /\ \A i \in 1..n : log'[i] = log[i]
      /\ log'[n + 1][1] = p /\ log'[n + 1][2] = fun[p]
  OBVIOUS
<1>4. \A q \in Procs : \A f : Wrote(log', q, f, n + 1) <=> q = p /\ f = fun[p]
  BY <1>2 DEF Wrote
<1>5. holder = p
  BY DEF LogInv, Holding
<1>6. \A q \in Procs : q # p => ~(place[q] = "write" /\ fd[q] = "log")
  BY <1>5 DEF LogInv, Holding
<1>10. \A i \in 1..(n + 1) : i \in 1..n \/ i = n + 1
  BY <1>2
<1>7. Fresh'
  <2> SUFFICES ASSUME NEW q \in Procs, NEW i \in 1..(n + 1)
               PROVE  /\ place'[q] \in {"open", "error", "lock"} => ~Wrote(log', q, fun[q], i)
                      /\ fun[q] = "print_request" => ~Wrote(log', q, "print_reply", i)
    BY <1>2 DEF Fresh, Wrote
  <2>1. CASE i \in 1..n
    <3>1. \A f : Wrote(log', q, f, i) <=> Wrote(log, q, f, i)
      BY <1>2, <2>1 DEF Wrote
    <3>2. /\ place[q] \in {"open", "error", "lock"} => ~Wrote(log, q, fun[q], i)
          /\ fun[q] = "print_request" => ~Wrote(log, q, "print_reply", i)
      BY <2>1 DEF LogInv, Fresh
    <3>3. place'[q] \in {"open", "error", "lock"} => place[q] \in {"open", "error", "lock"}
      OBVIOUS
    <3> QED BY <3>1, <3>2, <3>3
  <2>2. CASE i = n + 1
    BY <1>4, <2>2
  <2>3. i \in 1..n \/ i = n + 1
    BY <1>10
  <2> QED BY <2>1, <2>2, <2>3
<1>8. Together'
  <2> SUFFICES ASSUME NEW q \in Procs, NEW i \in 1..(n + 1),
                      place'[q] = "write", fd[q] = "log", Wrote(log', q, fun[q], i),
                      NEW j \in i..(n + 1)
               PROVE  Wrote(log', q, fun[q], j)
    BY <1>2 DEF Together, Wrote
  <2>1. q = p
    BY <1>6
  <2>2. CASE j \in 1..n
    <3>1. i \in 1..n /\ j \in i..n
      BY <1>2, <2>2
    <3>2. /\ Wrote(log', p, fun[p], i) <=> Wrote(log, p, fun[p], i)
          /\ Wrote(log', p, fun[p], j) <=> Wrote(log, p, fun[p], j)
      BY <1>2, <2>2, <3>1 DEF Wrote
    <3>3. Wrote(log, p, fun[p], i)
      BY <2>1, <3>2
    <3>4. Wrote(log, p, fun[p], j)
      BY <3>1, <3>3 DEF LogInv, Together
    <3> QED BY <2>1, <3>2, <3>4
  <2>3. CASE j = n + 1
    BY <1>4, <2>1, <2>3
  <2>4. j \in 1..(n + 1)
    BY <1>2
  <2>5. j \in 1..n \/ j = n + 1
    BY <1>10, <2>4
  <2> QED BY <2>2, <2>3, <2>5
<1>9. EntriesWhole'
  <2>0. Len(log') = n + 1
    BY <1>2
  <2> SUFFICES ASSUME NEW i \in 1..(n + 1), NEW k \in 1..(n + 1), i < k,
                      log'[i][1] = log'[k][1], log'[i][2] = log'[k][2],
                      log'[i][2] # "print_error", NEW j \in i..k
               PROVE  log'[j][1] = log'[i][1] /\ log'[j][2] = log'[i][2]
    BY <2>0 DEF EntriesWhole
  <2>9. i \in 1..n /\ log'[i] = log[i]
    BY <1>2
  <2>1. CASE k \in 1..n
    <3>1. j \in 1..n /\ log'[j] = log[j] /\ log'[k] = log[k]
      BY <1>2, <2>9, <2>1
    <3>2. /\ log[i][1] = log[k][1] /\ log[i][2] = log[k][2] /\ log[i][2] # "print_error"
      BY <2>9, <3>1
    <3> QED BY <2>9, <2>1, <3>1, <3>2 DEF LogInv, EntriesWhole
  <2>2. CASE k = n + 1
    <3>1. log[i][1] = p /\ log[i][2] = fun[p]
      BY <1>2, <2>9, <2>2
    <3>2. \A m \in i..n : Wrote(log, p, fun[p], m)
      BY <2>9, <3>1 DEF LogInv, Together, Wrote
    <3>3. CASE j \in i..n
      <4>1. j \in 1..n
        BY <1>2, <2>9, <3>3
      <4> QED BY <1>2, <2>9, <3>1, <3>2, <3>3, <4>1 DEF Wrote
    <3>4. CASE j = n + 1
      BY <1>2, <2>9, <3>1, <3>4
    <3> QED BY <1>2, <2>9, <2>2, <3>3, <3>4
  <2> QED BY <1>2, <2>1, <2>2
<1> QED BY <1>7, <1>8, <1>9

\* print_error writes between the entries: it waits for the lock too.
LEMMA ErrorBetween ==
    ASSUME LogInv, NEW p \in Procs, place[p] = "error", holder = "none",
           NEW n \in Nat, n = Len(log), Len(log') = n + 1,
           \A i \in 1..n : log'[i] = log[i],
           log'[n + 1][2] = "print_error",
           UNCHANGED <<fun, fd>>, place' = [place EXCEPT ![p] = "lock"]
    PROVE  Fresh' /\ Together' /\ EntriesWhole'
<1>1. \A q \in Procs : fun[q] \in Functions /\ fun[q] # "print_error"
  BY DEF LogInv, LogTypeOK, Functions
<1>2. /\ Len(log') = n + 1 /\ \A i \in 1..n : log'[i] = log[i]
      /\ log'[n + 1][2] = "print_error"
  OBVIOUS
<1>4. \A q \in Procs : \A f : Wrote(log', q, f, n + 1) => f = "print_error"
  BY <1>2 DEF Wrote
<1>5. \A q \in Procs : ~(place'[q] = "write" /\ fd[q] = "log")
  BY DEF LogInv, Holding, LogTypeOK
<1>10. \A i \in 1..(n + 1) : i \in 1..n \/ i = n + 1
  BY <1>2
<1>6. Fresh'
  <2> SUFFICES ASSUME NEW q \in Procs, NEW i \in 1..(n + 1)
               PROVE  /\ place'[q] \in {"open", "error", "lock"} => ~Wrote(log', q, fun[q], i)
                      /\ fun[q] = "print_request" => ~Wrote(log', q, "print_reply", i)
    BY <1>2 DEF Fresh, Wrote
  <2>1. CASE i \in 1..n
    <3>1. place'[q] \in {"open", "error", "lock"} => place[q] \in {"open", "error", "lock"}
      BY DEF LogInv, LogTypeOK
    <3>2. \A f : Wrote(log', q, f, i) <=> Wrote(log, q, f, i)
      BY <1>2, <2>1 DEF Wrote
    <3>3. /\ place[q] \in {"open", "error", "lock"} => ~Wrote(log, q, fun[q], i)
          /\ fun[q] = "print_request" => ~Wrote(log, q, "print_reply", i)
      BY <2>1 DEF LogInv, Fresh
    <3> QED BY <3>1, <3>2, <3>3
  <2>2. CASE i = n + 1
    BY <1>1, <1>4, <2>2
  <2>3. i \in 1..n \/ i = n + 1
    BY <1>10
  <2> QED BY <2>1, <2>2, <2>3
<1>7. Together'
  BY <1>5 DEF Together
<1>8. EntriesWhole'
  <2> SUFFICES ASSUME NEW i \in 1..(n + 1), NEW k \in 1..(n + 1), i < k,
                      log'[i][1] = log'[k][1], log'[i][2] = log'[k][2],
                      log'[i][2] # "print_error", NEW j \in i..k
               PROVE  log'[j][1] = log'[i][1] /\ log'[j][2] = log'[i][2]
    BY <1>2 DEF EntriesWhole
  <2>1. i \in 1..n /\ k \in 1..n
    <3>1. log'[n + 1][2] = "print_error"
      BY <1>2
    <3>2. i # n + 1 /\ k # n + 1
      BY <3>1
    <3> QED BY <1>2, <3>2
  <2>2. j \in 1..n /\ log'[j] = log[j] /\ log'[k] = log[k] /\ log'[i] = log[i]
    BY <1>2, <2>1
  <2>3. /\ log[i][1] = log[k][1] /\ log[i][2] = log[k][2] /\ log[i][2] # "print_error"
    BY <2>2
  <2> QED BY <2>1, <2>2, <2>3 DEF LogInv, EntriesWhole
<1> QED BY <1>6, <1>7, <1>8

\* Every step keeps it.
LEMMA LogStep == LogInv /\ [LogNext]_logVars => LogInv'
<1> SUFFICES ASSUME LogInv, [LogNext]_logVars PROVE LogInv'
  OBVIOUS
<1>0. LogTypeOK /\ Holding /\ Pending /\ log \in Seq(Written)
  BY DEF LogInv, LogTypeOK, Written
<1>1. ASSUME NEW p \in Procs, Open(p) PROVE LogInv'
  <2>1. /\ place[p] = "open" /\ place'[p] \in {"lock", "error"} /\ UNCHANGED <<log, holder, fun>>
        /\ left'[p] = Writes(fun[p]) /\ Writes(fun[p]) \in Nat /\ Writes(fun[p]) >= 1
        /\ \A q \in Procs : q # p => /\ place'[q] = place[q] /\ fd'[q] = fd[q]
                                     /\ left'[q] = left[q]
    BY <1>0, <1>1 DEF Open, LogTypeOK, Writes
  <2>2. LogTypeOK'
    BY <1>0, <1>1, <2>1 DEF Open, LogTypeOK, Places
  <2>3. Pending'
    BY <1>0, <2>1 DEF Pending
  <2>4. Holding'
    BY <1>0, <2>1 DEF Holding
  <2>5. Fresh' /\ Together' /\ EntriesWhole'
    <3>1. \A i \in 1..Len(log) : ~Wrote(log, p, fun[p], i)
                                 /\ (fun[p] = "print_request" => ~Wrote(log, p, "print_reply", i))
      BY <2>1 DEF LogInv, Fresh
    <3> QED BY <2>1, <3>1, Moves
  <2> QED BY <2>2, <2>3, <2>4, <2>5 DEF LogInv
<1>2. ASSUME NEW p \in Procs, PrintError(p) PROVE LogInv'
  <2>1. /\ place[p] = "error" /\ place' = [place EXCEPT ![p] = "lock"]
        /\ UNCHANGED <<holder, fun, fd, left>>
    BY <1>2 DEF PrintError
  <2>2. Pending'
    BY <1>0, <2>1 DEF Pending, LogTypeOK
  <2>3. Holding'
    BY <1>0, <2>1 DEF Holding, LogTypeOK
  <2>4. log' \in Seq(Written) /\ Fresh' /\ Together' /\ EntriesWhole'
    <3>1. CASE holder = "none" /\ log' = Append(log, <<p, "print_error", 1>>)
      <4> DEFINE n == Len(log)
      <4>1. <<p, "print_error", 1>> \in Written
        BY DEF Written
      <4>2. /\ log' \in Seq(Written) /\ n \in Nat /\ Len(log') = n + 1
            /\ \A i \in 1..n : log'[i] = log[i]
            /\ log'[n + 1] = <<p, "print_error", 1>>
        BY <1>0, <3>1, <4>1, LogGrows
      <4>3. log'[n + 1][2] = "print_error"
        BY <4>2
      <4>4. Fresh' /\ Together' /\ EntriesWhole'
        BY <2>1, <3>1, <4>2, <4>3, ErrorBetween
      <4> QED BY <4>2, <4>4
    <3>2. CASE UNCHANGED log
      <4>1. \A i \in 1..Len(log) : ~Wrote(log, p, fun[p], i)
                                   /\ (fun[p] = "print_request" => ~Wrote(log, p, "print_reply", i))
        BY <2>1 DEF LogInv, Fresh
      <4>2. place'[p] = "lock" /\ \A q \in Procs : q # p => place'[q] = place[q]
        BY <1>0, <2>1 DEF LogTypeOK
      <4>3. Fresh' /\ Together' /\ EntriesWhole'
        BY <2>1, <3>2, <4>1, <4>2, Moves
      <4> QED BY <1>0, <3>2, <4>3
    <3> QED BY <1>2, <3>1, <3>2 DEF PrintError
  <2>5. LogTypeOK'
    BY <1>0, <2>1, <2>4 DEF LogTypeOK, Places, Written
  <2> QED BY <2>2, <2>3, <2>4, <2>5 DEF LogInv
<1>3. ASSUME NEW p \in Procs, Lock(p) PROVE LogInv'
  <2>1. /\ place[p] = "lock" /\ place'[p] = "write" /\ UNCHANGED <<log, fun, fd, left>>
        /\ \/ fd[p] = "log" /\ holder = "none" /\ holder' = p
           \/ fd[p] = "stderr" /\ holder' = holder
        /\ \A q \in Procs : q # p => place'[q] = place[q]
    BY <1>0, <1>3 DEF Lock, LogTypeOK
  <2>2. LogTypeOK'
    BY <1>0, <1>3, <2>1 DEF Lock, LogTypeOK, Places
  <2>3. Pending'
    BY <1>0, <2>1 DEF Pending
  <2>4. Holding'
    BY <1>0, <2>1 DEF Holding
  <2>5. Fresh' /\ Together' /\ EntriesWhole'
    <3>1. \A i \in 1..Len(log) : ~Wrote(log, p, fun[p], i)
                                 /\ (fun[p] = "print_request" => ~Wrote(log, p, "print_reply", i))
      BY <2>1 DEF LogInv, Fresh
    <3> QED BY <2>1, <3>1, Moves
  <2> QED BY <2>2, <2>3, <2>4, <2>5 DEF LogInv
<1>4. ASSUME NEW p \in Procs, Write(p) PROVE LogInv'
  <2>1. /\ place[p] = "write" /\ UNCHANGED <<holder, fun, fd>>
        /\ place'[p] = IF left[p] = 1 THEN "unlock" ELSE "write"
        /\ left'[p] = left[p] - 1
        /\ \A q \in Procs : q # p => place'[q] = place[q] /\ left'[q] = left[q]
    BY <1>0, <1>4 DEF Write, LogTypeOK
  <2>2. left[p] \in Nat /\ left[p] >= 1
    BY <1>0, <2>1 DEF LogTypeOK, Pending
  <2>3. Pending'
    BY <1>0, <2>1, <2>2 DEF Pending
  <2>4. Holding'
    BY <1>0, <2>1 DEF Holding
  <2>5. log' \in Seq(Written) /\ Fresh' /\ Together' /\ EntriesWhole'
    <3>1. CASE fd[p] = "log"
      <4>1. log' = Append(log, <<p, fun[p], left[p]>>)
        BY <1>4, <3>1 DEF Write
      <4>2. place'[p] \in {"write", "unlock"} /\ \A q \in Procs : q # p => place'[q] = place[q]
        BY <2>1
      <4> DEFINE n == Len(log)
      <4>3. <<p, fun[p], left[p]>> \in Written
        BY <1>0, <2>2 DEF LogTypeOK, Written
      <4>4. /\ log' \in Seq(Written) /\ n \in Nat /\ Len(log') = n + 1
            /\ \A i \in 1..n : log'[i] = log[i]
            /\ log'[n + 1] = <<p, fun[p], left[p]>>
        BY <1>0, <4>1, <4>3, LogGrows
      <4>5. log'[n + 1][1] = p /\ log'[n + 1][2] = fun[p]
        BY <4>4
      <4>6. Fresh' /\ Together' /\ EntriesWhole'
        BY <2>1, <3>1, <4>2, <4>4, <4>5, EntryGrows
      <4> QED BY <4>4, <4>6
    <3>2. CASE fd[p] # "log"
      <4>1. log' = log
        BY <1>4, <3>2 DEF Write
      <4>2. \A i \in 1..Len(log) : fun[p] = "print_request" => ~Wrote(log, p, "print_reply", i)
        BY DEF LogInv, Fresh
      <4>3. Fresh' /\ Together' /\ EntriesWhole'
        BY <2>1, <3>2, <4>1, <4>2, Moves
      <4> QED BY <1>0, <4>1, <4>3
    <3> QED BY <3>1, <3>2
  <2>6. left' \in [Procs -> Nat]
    BY <1>0, <1>4, <2>2 DEF Write, LogTypeOK
  <2>7. LogTypeOK'
    BY <1>0, <1>4, <2>1, <2>5, <2>6 DEF Write, LogTypeOK, Places, Written
  <2> QED BY <2>3, <2>4, <2>5, <2>7 DEF LogInv
<1>5. ASSUME NEW p \in Procs, Unlock(p) PROVE LogInv'
  <2>1. /\ place[p] = "unlock" /\ UNCHANGED <<log, fd, left>>
        /\ holder' = IF fd[p] = "log" THEN "none" ELSE holder
        /\ \/ fun[p] = "print_request" /\ fun'[p] = "print_reply" /\ place'[p] = "open"
           \/ fun[p] = "print_reply" /\ fun'[p] = "print_reply" /\ place'[p] = "done"
        /\ \A q \in Procs : q # p => place'[q] = place[q] /\ fun'[q] = fun[q]
    BY <1>0, <1>5 DEF Unlock, LogTypeOK
  <2>2. LogTypeOK'
    BY <1>0, <1>5 DEF Unlock, LogTypeOK, Places, Functions
  <2>3. Pending'
    BY <1>0, <2>1 DEF Pending
  <2>4. Holding'
    BY <1>0, <2>1 DEF Holding
  <2>5. Fresh' /\ Together' /\ EntriesWhole'
    <3>1. \A i \in 1..Len(log) : fun[p] = "print_request" => ~Wrote(log, p, "print_reply", i)
      BY DEF LogInv, Fresh
    <3> QED BY <2>1, <3>1, Moves
  <2> QED BY <2>2, <2>3, <2>4, <2>5 DEF LogInv
<1>6. ASSUME NEW p \in Procs, Killed(p) PROVE LogInv'
  <2>1. /\ place'[p] = "dead" /\ UNCHANGED <<log, fun, fd, left>>
        /\ holder' = IF holder = p THEN "none" ELSE holder
        /\ \A q \in Procs : q # p => place'[q] = place[q]
    BY <1>0, <1>6 DEF Killed, LogTypeOK
  <2>2. LogTypeOK'
    BY <1>0, <1>6 DEF Killed, LogTypeOK, Places
  <2>3. Pending'
    BY <1>0, <2>1 DEF Pending
  <2>4. Holding'
    BY <1>0, <2>1 DEF Holding
  <2>5. Fresh' /\ Together' /\ EntriesWhole'
    <3>1. \A i \in 1..Len(log) : fun[p] = "print_request" => ~Wrote(log, p, "print_reply", i)
      BY DEF LogInv, Fresh
    <3> QED BY <2>1, <3>1, Moves
  <2> QED BY <2>2, <2>3, <2>4, <2>5 DEF LogInv
<1>7. CASE UNCHANGED logVars
  BY <1>7 DEF logVars, LogInv, LogTypeOK, Pending, Holding, Fresh, Together, EntriesWhole, Wrote
<1> QED BY <1>1, <1>2, <1>3, <1>4, <1>5, <1>6, <1>7 DEF LogNext, Step

\* So it always holds.
LEMMA LogHolds == LogSpec => []LogInv
<1>1. LogInit => LogInv
  BY LogStarts
<1>2. LogInv /\ [LogNext]_logVars => LogInv'
  BY LogStep
<1> QED BY <1>1, <1>2, PTL DEF LogSpec

\* The entries of the log are whole, for any number of processes and of parameters: the
\* lock of common.c excludes all who write to the log, print_error among them, and is held
\* from the first to the last write of an entry, or to the death of its process.
THEOREM LogWhole == LogSpec => []EntriesWhole
<1>1. LogInv => EntriesWhole
  BY DEF LogInv
<1>2. LogSpec => []LogInv
  BY LogHolds
<1> QED BY <1>1, <1>2, PTL
-----------------------------------------------------------------------------
(* The block list *)

HIDE LogAssumption
USE BlocklistAssumption

\* the entries left; those that the sweep has not reached have only moved up
Left(h) ==
    /\ LeftAt(h)
    /\ \A a \in 1..num : next <= a => h[a] = a + (Len(given) - num)
    /\ \A b \in 1..Len(given) : ~Hit(given[b]) => \E a \in 1..num : h[a] = b

\* what the sweep has removed and passed
Swept ==
    /\ idx # 0 <=> num < Len(given)
    /\ idx # 0 => \E b \in 1..Len(given) : Hit(given[b])
    /\ idx = 0 => \A b \in 1..Len(given) : b < next => ~Hit(given[b])

BlocklistInv ==
    /\ BlocklistTypeOK
    /\ \E h \in [1..num -> 1..Len(given)] : Left(h)
    /\ Swept

\* The list that the caller passes is a sequence.
LEMMA GivenType == BlocklistInit => given \in Seq(Entries) /\ Len(given) \in Nat
<1> SUFFICES ASSUME BlocklistInit PROVE given \in Seq(Entries)
  BY LenProperties
<1>1. PICK m \in 0..MaxIps : given \in [1..m -> Entries]
  BY DEF BlocklistInit, BoundedSeq, SeqOf
<1> QED BY <1>1

\* Before the sweep every entry is left, at its own place.
LEMMA BlocklistStarts == BlocklistInit => BlocklistInv
<1> SUFFICES ASSUME BlocklistInit PROVE BlocklistInv
  OBVIOUS
<1>1. /\ given \in Seq(Entries) /\ Len(given) \in Nat /\ ip \in Ips \cup {"NULL"}
      /\ list = given /\ num = Len(given) /\ idx = 0 /\ next = 1
  BY GivenType DEF BlocklistInit
<1>2. BlocklistTypeOK
  BY <1>1 DEF BlocklistTypeOK
<1>3. \E h \in [1..num -> 1..Len(given)] : Left(h)
  <2> DEFINE h == [a \in 1..num |-> a]
  <2>1. h \in [1..num -> 1..Len(given)] /\ \A a \in 1..num : h[a] = a
    BY <1>1
  <2> HIDE DEF h
  <2>2. LeftAt(h)
    BY <1>1, <2>1 DEF LeftAt
  <2> QED BY <1>1, <2>1, <2>2 DEF Left
<1>4. Swept
  BY <1>1 DEF Swept
<1> QED BY <1>2, <1>3, <1>4 DEF BlocklistInv

\* One more entry than the sweep has passed.
LEMMA KeepIpKeeps == BlocklistInv /\ KeepIp => BlocklistInv'
<1> SUFFICES ASSUME BlocklistInv, KeepIp PROVE BlocklistInv'
  OBVIOUS
<1>1. /\ next <= num /\ ~Hit(list[next]) /\ next' = next + 1
      /\ given' = given /\ ip' = ip /\ list' = list /\ num' = num /\ idx' = idx
  BY DEF KeepIp
<1>2. /\ given \in Seq(Entries) /\ Len(given) \in Nat /\ num \in 0..Len(given)
      /\ next \in Nat \ {0} /\ idx \in Nat
  BY LenProperties DEF BlocklistInv, BlocklistTypeOK
<1>3. BlocklistTypeOK'
  BY <1>1 DEF BlocklistInv, BlocklistTypeOK
<1>4. PICK h \in [1..num -> 1..Len(given)] : Left(h)
  BY DEF BlocklistInv
<1>5. \A e : Hit(e)' = Hit(e)
  BY <1>1 DEF Hit
<1>6. Left(h)'
  <2>1. LeftAt(h)'
    BY <1>1, <1>4 DEF Left, LeftAt
  <2> QED BY <1>1, <1>2, <1>4, <1>5, <2>1 DEF Left
<1>7. Swept'
  <2>1. ASSUME idx = 0 PROVE ~Hit(given[next])
    <3>1. num = Len(given)
      BY <1>2, <2>1 DEF BlocklistInv, Swept
    <3>2. h[next] = next /\ list[next] = given[h[next]]
      <4>1. next \in 1..num /\ next <= next
        BY <1>1, <1>2
      <4>2. h[next] = next + (Len(given) - num) /\ list[next] = given[h[next]]
        BY <1>4, <4>1 DEF Left, LeftAt
      <4> QED BY <1>2, <3>1, <4>2
    <3> QED BY <1>1, <3>2
  <2>2. \A b \in 1..Len(given) : b < next + 1 => b < next \/ b = next
    BY <1>2
  <2> QED BY <1>1, <1>2, <1>5, <2>1, <2>2 DEF BlocklistInv, Swept
<1> QED BY <1>1, <1>3, <1>4, <1>6, <1>7 DEF BlocklistInv

\* An entry that is meant: those after it move up by one.
LEMMA RemoveIpKeeps == BlocklistInv /\ RemoveIp => BlocklistInv'
<1> SUFFICES ASSUME BlocklistInv, RemoveIp PROVE BlocklistInv'
  OBVIOUS
<1>1. /\ next <= num /\ Hit(list[next]) /\ next' = next + 1 /\ idx' = next
      /\ given' = given /\ ip' = ip /\ num' = num - 1
      /\ list' = [j \in 1..Len(list) |-> IF next <= j /\ j < num THEN list[j + 1] ELSE list[j]]
  BY DEF RemoveIp, Shift
<1>2. /\ given \in Seq(Entries) /\ Len(given) \in Nat /\ num \in 0..Len(given)
      /\ next \in Nat \ {0} /\ idx \in Nat
      /\ list \in Seq(Entries) /\ Len(list) = Len(given)
  BY LenProperties DEF BlocklistInv, BlocklistTypeOK
<1>3. PICK h \in [1..num -> 1..Len(given)] : Left(h)
  BY DEF BlocklistInv
<1>4. \A e : Hit(e)' = Hit(e)
  BY <1>1 DEF Hit
<1>5. list' \in Seq(Entries) /\ Len(list') = Len(list)
  <2>1. \A j \in 1..Len(list) : list[j] \in Entries
    BY <1>2, ElementOfSeq
  <2>2. \A j \in 1..Len(list) : next <= j /\ j < num => j + 1 \in 1..Len(list)
    BY <1>2
  <2>3. list' \in [1..Len(list) -> Entries]
    BY <1>1, <2>1, <2>2
  <2>4. Len(list) \in Nat /\ list' \in Seq(Entries)
    BY <1>2, <2>3
  <2> QED BY <2>3, <2>4, LenProperties
<1>6. BlocklistTypeOK'
  BY <1>1, <1>2, <1>5 DEF BlocklistInv, BlocklistTypeOK
<1>7. PICK g \in [1..(num - 1) -> 1..Len(given)] :
          \A a \in 1..(num - 1) : g[a] = IF a < next THEN h[a] ELSE h[a + 1]
  <2> DEFINE f == [a \in 1..(num - 1) |-> IF a < next THEN h[a] ELSE h[a + 1]]
  <2>1. \A a \in 1..(num - 1) : a \in 1..num /\ a + 1 \in 1..num
    BY <1>2
  <2>2. f \in [1..(num - 1) -> 1..Len(given)]
    BY <2>1
  <2> QED BY <2>2
<1>8. LeftAt(g)'
  <2>1. \A a \in 1..(num - 1) : list'[a] = given[g[a]]
    <3> TAKE a \in 1..(num - 1)
    <3>1. list'[a] = IF a < next THEN list[a] ELSE list[a + 1]
      BY <1>1, <1>2
    <3>2. a \in 1..num /\ a + 1 \in 1..num
      BY <1>2
    <3> QED BY <1>3, <1>7, <3>1, <3>2 DEF Left, LeftAt
  <2>2. \A a, b \in 1..(num - 1) : a < b => g[a] < g[b]
    <3> SUFFICES ASSUME NEW a \in 1..(num - 1), NEW b \in 1..(num - 1), a < b
                 PROVE  g[a] < g[b]
      OBVIOUS
    <3>1. /\ a \in 1..num /\ a + 1 \in 1..num /\ b \in 1..num /\ b + 1 \in 1..num
          /\ a < b + 1 /\ a + 1 < b + 1
      BY <1>2
    <3>2. h[a] < h[b] /\ h[a] < h[b + 1] /\ h[a + 1] < h[b + 1]
      BY <1>3, <3>1 DEF Left, LeftAt
    <3>3. b < next => a < next
      BY <1>2
    <3> QED BY <1>7, <3>2, <3>3
  <2> QED BY <1>1, <1>7, <2>1, <2>2 DEF LeftAt
<1>9. \A a \in 1..(num - 1) : next + 1 <= a => g[a] = a + (Len(given) - (num - 1))
  <2> TAKE a \in 1..(num - 1)
  <2>1. a + 1 \in 1..num
    BY <1>2
  <2>2. next + 1 <= a => next <= a + 1 /\ ~(a < next)
    BY <1>2
  <2>3. next <= a + 1 => h[a + 1] = a + 1 + (Len(given) - num)
    BY <1>3, <2>1 DEF Left
  <2> QED BY <1>2, <1>7, <2>2, <2>3
<1>10. ASSUME NEW b \in 1..Len(given), ~Hit(given[b]) PROVE \E a \in 1..(num - 1) : g[a] = b
  <2>1. PICK a \in 1..num : h[a] = b
    BY <1>3, <1>10 DEF Left
  <2>2. a # next
    <3>1. list[a] = given[b]
      BY <1>3, <2>1 DEF Left, LeftAt
    <3> QED BY <1>1, <1>10, <3>1
  <2>3. CASE a < next
    <3>1. a \in 1..(num - 1)
      BY <1>1, <1>2, <2>3
    <3> QED BY <1>7, <2>1, <2>3, <3>1
  <2>4. CASE next < a
    <3>1. a - 1 \in 1..(num - 1) /\ ~(a - 1 < next) /\ (a - 1) + 1 = a
      BY <1>1, <1>2, <2>4
    <3> QED BY <1>7, <2>1, <3>1
  <2> QED BY <1>2, <2>2, <2>3, <2>4
<1>11. Left(g)'
  BY <1>1, <1>4, <1>8, <1>9, <1>10 DEF Left
<1>12. Swept'
  <2>1. h[next] \in 1..Len(given) /\ list[next] = given[h[next]]
    BY <1>1, <1>2, <1>3 DEF Left, LeftAt
  <2> QED BY <1>1, <1>2, <1>4, <2>1 DEF Swept
<1>13. (\E f \in [1..num -> 1..Len(given)] : Left(f))'
  BY <1>1, <1>7, <1>11
<1> QED BY <1>6, <1>12, <1>13 DEF BlocklistInv

\* It says that a sweep keeps what is not meant.
LEMMA BlocklistImplies == BlocklistInv => SweepKeeps
<1> SUFFICES ASSUME BlocklistInv PROVE SweepKeeps
  OBVIOUS
<1>1. /\ Len(given) \in Nat /\ num \in 0..Len(given) /\ next \in Nat /\ idx \in Nat
  BY LenProperties DEF BlocklistInv, BlocklistTypeOK
<1>2. \E h \in [1..num -> 1..Len(given)] :
          LeftAt(h) /\ \A b \in 1..Len(given) : ~Hit(given[b]) => \E a \in 1..num : h[a] = b
  BY DEF BlocklistInv, Left
<1>3. next > num /\ idx = 0 => \A b \in 1..Len(given) : ~Hit(given[b])
  <2> HAVE next > num /\ idx = 0
  <2>1. \A b \in 1..Len(given) : b < next
    BY <1>1 DEF BlocklistInv, Swept
  <2> QED BY <2>1 DEF BlocklistInv, Swept
<1> QED BY <1>2, <1>3 DEF BlocklistInv, Swept, SweepKeeps

\* For any list, a sweep of remove_ip_idx keeps every entry that is not meant, in order,
\* and removes one if one is meant.
THEOREM SweepHolds == BlocklistSpec => []SweepKeeps
<1>1. BlocklistInv /\ [BlocklistNext]_blocklistVars => BlocklistInv'
  <2>1. BlocklistInv /\ UNCHANGED blocklistVars => BlocklistInv'
    <3> SUFFICES ASSUME BlocklistInv, UNCHANGED blocklistVars PROVE BlocklistInv'
      OBVIOUS
    <3>1. /\ given' = given /\ ip' = ip /\ list' = list /\ num' = num /\ idx' = idx
          /\ next' = next
      BY DEF blocklistVars
    <3>2. \A e : Hit(e)' = Hit(e)
      BY <3>1 DEF Hit
    <3>3. BlocklistTypeOK' /\ Swept'
      BY <3>1, <3>2 DEF BlocklistInv, BlocklistTypeOK, Swept
    <3>4. PICK h \in [1..num -> 1..Len(given)] : Left(h)
      BY DEF BlocklistInv
    <3>5. Left(h)'
      BY <3>1, <3>2, <3>4 DEF Left, LeftAt
    <3> QED BY <3>1, <3>3, <3>4, <3>5 DEF BlocklistInv
  <2> QED BY <2>1, KeepIpKeeps, RemoveIpKeeps DEF BlocklistNext
<1> QED BY <1>1, BlocklistStarts, BlocklistImplies, PTL DEF BlocklistSpec
-----------------------------------------------------------------------------
(* The configuration *)

HIDE BlocklistAssumption
USE ConfAssumption

\* A nonempty set of natural numbers has a least element.
LEMMA LeastNatural ==
    ASSUME NEW T \in SUBSET Nat, T # {}
    PROVE  \E x \in T : \A y \in T : x <= y
<1> DEFINE R == {p \in Nat \X Nat : p[1] < p[2]}
<1>1. IsWellFoundedOn(R, Nat)
  BY NatLessThanWellFounded DEF OpToRel
<1> HIDE DEF R
<1>2. PICK x \in T : \A y \in T : <<y, x>> \notin R
  BY <1>1, WFMin
<1>3. ASSUME NEW y \in T PROVE x <= y
  <2>1. <<y, x>> \in Nat \X Nat /\ <<y, x>> \notin R
    BY <1>2
  <2>2. ~(y < x)
    BY <2>1 DEF R
  <2> QED BY <2>2
<1> QED BY <1>3

Parameters == ConfNames \X Values

\* find_param_idx returns the first parameter whose name contains the one it is given.
LEMMA FindParamIsFirst ==
    ASSUME NEW array \in Seq(Parameters), NEW n
    PROVE  LET k == FindParam(n, array) IN
               /\ k \in 0..Len(array)
               /\ k # 0 => /\ array[k][1] \in Part[n]
                            /\ \A j \in 1..(k - 1) : array[j][1] \notin Part[n]
               /\ k = 0 => \A j \in 1..Len(array) : array[j][1] \notin Part[n]
<1> DEFINE I == {j \in 1..Len(array) : array[j][1] \in Part[n]}
<1>1. FindParam(n, array) = IF I # {} THEN Min(I) ELSE 0
  BY DEF FindParam, SelectInSeq
<1>2. Len(array) \in Nat
  BY LenProperties
<1>3. CASE I = {}
  BY <1>1, <1>2, <1>3
<1>4. CASE I # {}
  <2>1. I \in SUBSET Nat
    OBVIOUS
  <2>2. Min(I) \in I /\ \A y \in I : Min(I) <= y
    <3> HIDE DEF I
    <3>1. \E x \in I : \A y \in I : x <= y
      BY <1>4, <2>1, LeastNatural
    <3> QED BY <3>1 DEF Min
  <2>3. \A j \in 1..(Min(I) - 1) : j \notin I /\ j \in 1..Len(array)
    <3> HIDE DEF I
    <3> SUFFICES ASSUME NEW j \in 1..(Min(I) - 1) PROVE j \notin I /\ j \in 1..Len(array)
      OBVIOUS
    <3>1. Min(I) \in 1..Len(array)
      BY <2>2 DEF I
    <3>2. j < Min(I) /\ j \in 1..Len(array)
      BY <1>2, <3>1
    <3>3. \A y \in I : ~(y < Min(I))
      BY <2>1, <2>2, <3>1
    <3> QED BY <3>2, <3>3
  <2> QED BY <1>1, <1>2, <1>4, <2>2, <2>3
<1> QED BY <1>3, <1>4

\* the parameters are the lines name=value of the file that is read, in their order
ReadAt(h) ==
    /\ h \in [1..Len(params) -> 1..Len(lines[file])]
    /\ \A j, k \in 1..Len(params) : j < k => h[j] < h[k]
    /\ \A k \in 1..Len(params) : lines[file][h[k]] # Junk /\ params[k] = lines[file][h[k]]
    /\ \A i \in 1..Len(lines[file]) : lines[file][i] # Junk => \E k \in 1..Len(params) : h[k] = i

\* which file is read, and which it is in the end
RightFile ==
    /\ file # "second" => lines["second"] = <<>>
    /\ file = "second" => \A i \in 1..Len(lines["first"]) : lines["first"][i] = Junk
    /\ reading = "done" /\ file = "first" => params # <<>>

\* the globals before and after they are assigned
Assigned ==
    \A n \in Globals :
        conf[n] = IF reading = "done" /\ FindParam(n, params) # 0
                  THEN params[FindParam(n, params)][2] ELSE Default

ConfInv ==
    /\ ConfTypeOK
    /\ \E h \in [1..Len(params) -> 1..Len(lines[file])] : ReadAt(h)
    /\ RightFile
    /\ Assigned

\* Before the file is opened nothing is read or assigned.
LEMMA ConfStarts == ConfInit => ConfInv
<1> SUFFICES ASSUME ConfInit PROVE ConfInv
  OBVIOUS
<1>1. /\ conf = [n \in Globals |-> Default] /\ file \in {"modsec", "first"} /\ file \in FileSet
      /\ lines = [f \in FileSet |-> <<>>] /\ params = <<>> /\ reading = "open"
  BY DEF ConfInit, FileSet
<1>2. lines["second"] = <<>> /\ lines[file] = <<>> /\ Len(params) = 0 /\ Len(lines[file]) = 0
  BY <1>1 DEF FileSet
<1>3. ConfTypeOK
  BY <1>1, EmptySeq DEF ConfTypeOK
<1>4. \E h \in [1..Len(params) -> 1..Len(lines[file])] : ReadAt(h)
  <2> DEFINE h == [k \in 1..Len(params) |-> k]
  <2>1. h \in [1..Len(params) -> 1..Len(lines[file])]
    BY <1>2
  <2> HIDE DEF h
  <2>2. ReadAt(h)
    BY <1>2, <2>1 DEF ReadAt
  <2> QED BY <2>1, <2>2
<1>5. RightFile
  BY <1>1, <1>2 DEF RightFile
<1>6. Assigned
  BY <1>1 DEF Assigned
<1> QED BY <1>3, <1>4, <1>5, <1>6 DEF ConfInv

\* A step that reads no line.
LEMMA ConfUnread ==
    ASSUME ConfInv, UNCHANGED <<file, lines, params>>
    PROVE  (\E h \in [1..Len(params) -> 1..Len(lines[file])] : ReadAt(h))'
<1>1. PICK h \in [1..Len(params) -> 1..Len(lines[file])] : ReadAt(h)
  BY DEF ConfInv
<1>2. ReadAt(h)'
  BY <1>1 DEF ReadAt
<1> QED BY <1>1, <1>2

\* The file opens, or the defaults stay.
LEMMA OpenConfKeeps == ConfInv /\ OpenConf => ConfInv'
<1> SUFFICES ASSUME ConfInv, OpenConf PROVE ConfInv'
  OBVIOUS
<1>1. /\ reading' \in {"read", "assign"} /\ reading = "open" /\ conf' = conf
      /\ file' = file /\ lines' = lines /\ params' = params
  BY DEF OpenConf
<1>2. ConfTypeOK' /\ RightFile'
  BY <1>1 DEF ConfInv, ConfTypeOK, RightFile
<1>3. Assigned'
  BY <1>1 DEF ConfInv, Assigned
<1> QED BY <1>1, <1>2, <1>3, ConfUnread DEF ConfInv

\* At the end of the file nothing is assigned any more.
LEMMA EndConfKeeps == ConfInv /\ EndConf => ConfInv'
<1> SUFFICES ASSUME ConfInv, EndConf PROVE ConfInv'
  OBVIOUS
<1>1. /\ reading' = "assign" /\ reading = "read" /\ conf' = conf
      /\ file' = file /\ lines' = lines /\ params' = params
  BY DEF EndConf
<1>2. ConfTypeOK' /\ RightFile'
  BY <1>1 DEF ConfInv, ConfTypeOK, RightFile
<1>3. Assigned'
  BY <1>1 DEF ConfInv, Assigned
<1> QED BY <1>1, <1>2, <1>3, ConfUnread DEF ConfInv

\* One more parameter, the one of the line that is read.
LEMMA ReadConfLineKeeps == ConfInv /\ ReadConfLine => ConfInv'
<1> SUFFICES ASSUME ConfInv, ReadConfLine PROVE ConfInv'
  OBVIOUS
<1>1. PICK l \in Lines :
          /\ lines' = [lines EXCEPT ![file] = Append(@, l)]
          /\ params' = IF l = Junk THEN params ELSE Append(params, l)
  BY DEF ReadConfLine
<1>2. reading = "read" /\ conf' = conf /\ file' = file /\ reading' = reading
  BY DEF ReadConfLine
<1>3. file \in FileSet /\ lines \in [FileSet -> Seq(Lines)] /\ params \in Seq(Parameters)
  BY DEF ConfInv, ConfTypeOK, Parameters
<1>4. /\ lines[file] \in Seq(Lines) /\ Len(lines[file]) \in Nat
      /\ lines'[file] = Append(lines[file], l)
      /\ \A f \in FileSet : f # file => lines'[f] = lines[f]
  BY <1>1, <1>3, LenProperties
<1>5. /\ lines'[file] \in Seq(Lines)
      /\ Len(lines'[file]) = Len(lines[file]) + 1
      /\ \A i \in 1..Len(lines[file]) : lines'[file][i] = lines[file][i]
      /\ lines'[file][Len(lines[file]) + 1] = l
  BY <1>4, AppendProperties
<1>6. lines' \in [FileSet -> Seq(Lines)]
  BY <1>1, <1>3, <1>4, <1>5
<1>7. Len(params) \in Nat
  BY <1>3, LenProperties
<1>8. l # Junk => /\ l \in Parameters /\ params' \in Seq(Parameters)
                  /\ Len(params') = Len(params) + 1
                  /\ \A k \in 1..Len(params) : params'[k] = params[k]
                  /\ params'[Len(params) + 1] = l
  BY <1>1, <1>3, AppendProperties DEF Lines, Parameters
<1>9. ConfTypeOK'
  BY <1>1, <1>2, <1>6, <1>8 DEF ConfInv, ConfTypeOK, Parameters
<1>10. PICK h \in [1..Len(params) -> 1..Len(lines[file])] : ReadAt(h)
  BY DEF ConfInv
<1>11. (\E g \in [1..Len(params) -> 1..Len(lines[file])] : ReadAt(g))'
  <2>1. CASE l = Junk
    <3>1. params' = params
      BY <1>1, <2>1
    <3>2. h \in [1..Len(params') -> 1..Len(lines'[file])]
      BY <1>4, <1>5, <1>10, <3>1
    <3>3. \A k \in 1..Len(params) : lines'[file][h[k]] = lines[file][h[k]]
      BY <1>5, <1>10
    <3>4. \A i \in 1..Len(lines'[file]) :
              lines'[file][i] # Junk => i \in 1..Len(lines[file]) /\ lines[file][i] # Junk
      BY <1>4, <1>5, <2>1
    <3>5. ReadAt(h)'
      BY <1>2, <1>10, <3>1, <3>2, <3>3, <3>4 DEF ReadAt
    <3> QED BY <1>2, <3>2, <3>5
  <2>2. CASE l # Junk
    <3> DEFINE last == Len(params) + 1
               f == [k \in 1..last |-> IF k = last THEN Len(lines[file]) + 1 ELSE h[k]]
    <3>1. PICK g \in [1..last -> 1..(Len(lines[file]) + 1)] :
              g[last] = Len(lines[file]) + 1 /\ \A k \in 1..Len(params) : g[k] = h[k]
      <4>1. \A k \in 1..last : k # last => k \in 1..Len(params)
        BY <1>7
      <4>2. \A k \in 1..Len(params) : k \in 1..last /\ k # last
        BY <1>7
      <4>3. \A k \in 1..Len(params) : h[k] \in 1..(Len(lines[file]) + 1)
        BY <1>4, <1>10
      <4>4. f \in [1..last -> 1..(Len(lines[file]) + 1)]
        BY <1>4, <4>1, <4>3
      <4>5. last \in 1..last
        BY <1>7
      <4> QED BY <4>2, <4>4, <4>5
    <3>2. \A k \in 1..last : k = last \/ k \in 1..Len(params)
      BY <1>7
    <3> HIDE DEF last, f
    <3>3. \A k \in 1..Len(params) : h[k] \in 1..Len(lines[file])
      BY <1>10
    <3>4. \A j, k \in 1..last : j < k => g[j] < g[k]
      <4> SUFFICES ASSUME NEW j \in 1..last, NEW k \in 1..last, j < k PROVE g[j] < g[k]
        OBVIOUS
      <4>1. j \in 1..Len(params)
        BY <1>7, <3>2 DEF last
      <4>2. g[j] = h[j] /\ h[j] \in 1..Len(lines[file])
        BY <3>1, <3>3, <4>1
      <4>3. CASE k = last
        BY <1>4, <3>1, <4>2, <4>3
      <4>4. CASE k \in 1..Len(params)
        <5>1. h[j] < h[k] /\ g[k] = h[k]
          BY <1>10, <3>1, <4>1, <4>4 DEF ReadAt
        <5> QED BY <4>2, <5>1
      <4> QED BY <3>2, <4>3, <4>4
    <3>5. \A k \in 1..last : lines'[file][g[k]] # Junk /\ params'[k] = lines'[file][g[k]]
      <4> TAKE k \in 1..last
      <4>1. CASE k = last
        BY <1>5, <1>8, <2>2, <3>1, <4>1 DEF last
      <4>2. CASE k \in 1..Len(params)
        <5>1. params[k] = lines[file][h[k]] /\ lines[file][h[k]] # Junk
          BY <1>10, <4>2 DEF ReadAt
        <5>2. lines'[file][h[k]] = lines[file][h[k]] /\ g[k] = h[k] /\ params'[k] = params[k]
          BY <1>5, <1>8, <2>2, <3>1, <3>3, <4>2
        <5> QED BY <5>1, <5>2
      <4> QED BY <3>2, <4>1, <4>2
    <3>6. ASSUME NEW i \in 1..(Len(lines[file]) + 1), lines'[file][i] # Junk
          PROVE  \E k \in 1..last : g[k] = i
      <4>1. last \in 1..last /\ \A k \in 1..Len(params) : k \in 1..last
        BY <1>7 DEF last
      <4>2. CASE i = Len(lines[file]) + 1
        BY <3>1, <4>1, <4>2
      <4>3. CASE i \in 1..Len(lines[file])
        <5>1. lines[file][i] # Junk
          BY <1>5, <3>6, <4>3
        <5>2. PICK k \in 1..Len(params) : h[k] = i
          BY <1>10, <4>3, <5>1 DEF ReadAt
        <5> QED BY <3>1, <4>1, <5>2
      <4> QED BY <1>4, <4>2, <4>3
    <3>7. Len(params') = last /\ Len(lines'[file]) = Len(lines[file]) + 1
      BY <1>5, <1>8, <2>2 DEF last
    <3>8. ReadAt(g)'
      BY <1>2, <3>1, <3>4, <3>5, <3>6, <3>7 DEF ReadAt
    <3> QED BY <1>2, <3>1, <3>7, <3>8
  <2> QED BY <2>1, <2>2
<1>12. RightFile'
  <2>1. "first" \in FileSet /\ "second" \in FileSet
    BY DEF FileSet
  <2> QED BY <1>2, <1>4, <2>1 DEF ConfInv, RightFile
<1>13. Assigned'
  BY <1>2 DEF ConfInv, Assigned
<1> QED BY <1>9, <1>11, <1>12, <1>13 DEF ConfInv

\* A setting takes the value of the first parameter whose name contains its own.
LEMMA AssignConfKeeps == ConfInv /\ AssignConf => ConfInv'
<1> SUFFICES ASSUME ConfInv, AssignConf PROVE ConfInv'
  OBVIOUS
<1>1. /\ reading = "assign" /\ lines' = lines /\ params' = params
      /\ conf' = [n \in Globals |-> LET k == FindParam(n, params) IN
                                        IF k = 0 THEN conf[n] ELSE params[k][2]]
  BY DEF AssignConf
<1>2. /\ params \in Seq(Parameters) /\ Len(params) \in Nat
      /\ \A n \in Globals : conf[n] \in Values \cup {Default}
  BY LenProperties DEF ConfInv, ConfTypeOK, Parameters
<1>3. \A n \in Globals : LET k == FindParam(n, params) IN
          k # 0 => k \in 1..Len(params) /\ params[k][2] \in Values
  <2> TAKE n \in Globals
  <2>1. FindParam(n, params) \in 0..Len(params)
    BY <1>2, FindParamIsFirst
  <2>2. \A k \in 1..Len(params) : params[k] \in Parameters
    BY <1>2, ElementOfSeq
  <2> QED BY <1>2, <2>1, <2>2 DEF Parameters
<1>4. conf' \in [Globals -> Values \cup {Default}]
  BY <1>1, <1>2, <1>3
<1>5. \A n \in Globals : conf[n] = Default
  BY <1>1 DEF ConfInv, Assigned
<1>6. CASE file = "first" /\ params = <<>> /\ file' = "second" /\ reading' = "open"
  <2>1. Len(params) = 0
    BY <1>6
  <2>2. ConfTypeOK'
    BY <1>1, <1>4, <1>6 DEF ConfInv, ConfTypeOK, FileSet
  <2>3. lines["second"] = <<>> /\ Len(lines["second"]) = 0
    BY <1>6 DEF ConfInv, RightFile
  <2>4. (\E h \in [1..Len(params) -> 1..Len(lines[file])] : ReadAt(h))'
    <3>1. PICK h : h \in [1..0 -> 1..0]
      <4> DEFINE f == [k \in 1..0 |-> k]
      <4>1. f \in [1..0 -> 1..0]
        OBVIOUS
      <4> QED BY <4>1
    <3>2. ReadAt(h)'
      BY <1>1, <1>6, <2>1, <2>3, <3>1 DEF ReadAt
    <3> QED BY <1>1, <1>6, <2>1, <2>3, <3>1, <3>2
  <2>5. \A i \in 1..Len(lines["first"]) : lines["first"][i] = Junk
    <3>1. PICK h \in [1..Len(params) -> 1..Len(lines[file])] : ReadAt(h)
      BY DEF ConfInv
    <3> QED BY <1>6, <2>1, <3>1 DEF ReadAt
  <2>6. RightFile'
    BY <1>1, <1>6, <2>5 DEF RightFile
  <2>7. Assigned'
    <3>1. ASSUME NEW n \in Globals PROVE conf'[n] = Default
      <4>1. FindParam(n, params) = 0
        <5>1. FindParam(n, params) \in 0..Len(params)
          BY <1>2, FindParamIsFirst
        <5> QED BY <2>1, <5>1
      <4> QED BY <1>1, <1>5, <4>1
    <3> QED BY <1>1, <1>6, <3>1 DEF Assigned
  <2> QED BY <2>2, <2>4, <2>6, <2>7 DEF ConfInv
<1>7. CASE (file # "first" \/ params # <<>>) /\ reading' = "done" /\ file' = file
  <2>1. ConfTypeOK'
    BY <1>1, <1>4, <1>7 DEF ConfInv, ConfTypeOK
  <2>2. RightFile'
    BY <1>1, <1>7 DEF ConfInv, RightFile
  <2>3. Assigned'
    BY <1>1, <1>5, <1>7 DEF Assigned
  <2> QED BY <1>1, <1>7, <2>1, <2>2, <2>3, ConfUnread DEF ConfInv
<1> QED BY <1>6, <1>7 DEF AssignConf

\* It says which lines the values are from.
LEMMA ConfImplies == ConfInv => ConfOwnValue
<1> SUFFICES ASSUME ConfInv, reading = "done" PROVE ConfOwnValue
  BY DEF ConfOwnValue
<1> DEFINE Named(i, n) == Counting[i] # Junk /\ Counting[i][1] = n
<1>1. PICK h \in [1..Len(params) -> 1..Len(lines[file])] : ReadAt(h)
  BY DEF ConfInv
<1>2. /\ file \in FileSet /\ params \in Seq(Parameters) /\ Len(params) \in Nat
      /\ lines[file] \in Seq(Lines) /\ Len(lines[file]) \in Nat
  BY LenProperties DEF ConfInv, ConfTypeOK, Parameters
<1>3. Counting = lines[file]
  <2>1. CASE file = "modsec"
    BY <2>1 DEF Counting
  <2>2. CASE file = "first"
    <3>1. 1 \in 1..Len(params)
      BY <1>2, <2>2, EmptySeq DEF ConfInv, RightFile
    <3>2. h[1] \in 1..Len(lines["first"]) /\ lines["first"][h[1]] # Junk
      BY <1>1, <2>2, <3>1 DEF ReadAt
    <3> QED BY <2>2, <3>2 DEF Counting
  <2>3. CASE file = "second"
    BY <2>3 DEF ConfInv, RightFile, Counting
  <2> QED BY <1>2, <2>1, <2>2, <2>3 DEF FileSet
<1>4. ASSUME NEW n \in Globals,
             \A i \in 1..Len(Counting) :
                 Counting[i] # Junk /\ Counting[i][1] \in Part[n] => Named(i, n)
      PROVE  \/ conf[n] = Default /\ \A i \in 1..Len(Counting) : ~Named(i, n)
             \/ \E i \in 1..Len(Counting) :
                    /\ Counting[i] = <<n, conf[n]>>
                    /\ \A j \in 1..(i - 1) : ~Named(j, n)
  <2> DEFINE k == FindParam(n, params)
  <2>1. /\ k \in 0..Len(params)
        /\ k # 0 => params[k][1] \in Part[n] /\ \A j \in 1..(k - 1) : params[j][1] \notin Part[n]
        /\ k = 0 => \A j \in 1..Len(params) : params[j][1] \notin Part[n]
    BY <1>2, FindParamIsFirst
  <2>2. conf[n] = IF k # 0 THEN params[k][2] ELSE Default
    BY DEF ConfInv, Assigned
  <2>3. n \in Part[n]
    OBVIOUS
  <2>4. ASSUME NEW i \in 1..Len(Counting), Named(i, n)
        PROVE  \E j \in 1..Len(params) : h[j] = i /\ params[j][1] \in Part[n]
    <3>1. PICK j \in 1..Len(params) : h[j] = i
      BY <1>1, <1>3, <2>4 DEF ReadAt
    <3>2. params[j] = Counting[i]
      BY <1>1, <1>3, <3>1 DEF ReadAt
    <3> QED BY <2>3, <2>4, <3>1, <3>2
  <2> HIDE DEF k
  <2>5. CASE k = 0
    BY <2>1, <2>2, <2>4, <2>5
  <2>6. CASE k # 0
    <3>1. k \in 1..Len(params)
      BY <1>2, <2>1, <2>6
    <3>2. /\ h[k] \in 1..Len(Counting) /\ Counting[h[k]] # Junk /\ params[k] = Counting[h[k]]
      BY <1>1, <1>3, <3>1 DEF ReadAt
    <3>3. params[k][1] = n
      BY <1>4, <2>1, <2>6, <3>2
    <3>4. Counting[h[k]] = <<n, conf[n]>>
      <4>1. params[k] \in Parameters
        BY <1>2, <3>1, ElementOfSeq
      <4> QED BY <2>2, <2>6, <3>2, <3>3, <4>1 DEF Parameters
    <3>5. ASSUME NEW j \in 1..(h[k] - 1), Named(j, n) PROVE FALSE
      <4>1. j \in 1..Len(Counting) /\ j < h[k]
        BY <1>2, <1>3, <3>2
      <4>2. PICK m \in 1..Len(params) : h[m] = j /\ params[m][1] \in Part[n]
        BY <2>4, <3>5, <4>1
      <4>3. m # k /\ ~(k < m)
        BY <1>1, <3>1, <3>2, <4>1, <4>2 DEF ReadAt
      <4>4. m \in 1..(k - 1)
        BY <1>2, <3>1, <4>3
      <4> QED BY <2>1, <2>6, <4>2, <4>4
    <3> QED BY <3>2, <3>4, <3>5
  <2> QED BY <2>5, <2>6
<1> QED BY <1>4 DEF ConfOwnValue

\* Whatever the names and the lines of the files, and wherever they end, a global whose name
\* no other name that is read contains has the value of its own line, or its default.
THEOREM ConfHolds == ConfSpec => []ConfOwnValue
<1>1. ConfInv /\ [ConfNext]_confVars => ConfInv'
  <2>1. ASSUME ConfInv, UNCHANGED confVars PROVE ConfInv'
    <3>1. /\ conf' = conf /\ file' = file /\ lines' = lines /\ params' = params
          /\ reading' = reading
      BY <2>1 DEF confVars
    <3>2. ConfTypeOK' /\ RightFile' /\ Assigned'
      BY <2>1, <3>1 DEF ConfInv, ConfTypeOK, RightFile, Assigned
    <3> QED BY <2>1, <3>1, <3>2, ConfUnread DEF ConfInv
  <2> QED BY <2>1, OpenConfKeeps, ReadConfLineKeeps, EndConfKeeps, AssignConfKeeps DEF ConfNext
<1> QED BY <1>1, ConfStarts, ConfImplies, PTL DEF ConfSpec
=============================================================================
