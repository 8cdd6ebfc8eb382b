------------------------------- MODULE RpcLog -------------------------------
(***************************************************************************)
(* The log of common.c at level DEBUG (at level NONE nothing is written,   *)
(* unless print_request_force raises the level for one call).  The         *)
(* processes that serve requests append to one file; a request takes       *)
(* several writes, between flock(LOCK_EX) and flock(LOCK_UN).              *)
(*                                                                         *)
(* A lock on the log belongs to the description that a process opened; one *)
(* on stderr, inherited by all of them, excludes nobody.                   *)
(***************************************************************************)
EXTENDS Naturals, Sequences

CONSTANTS
    Procs,          \* processes, each serving one request
    NumParams       \* parameters of a request

ASSUME LogAssumption == NumParams \in Nat /\ "none" \notin Procs

VARIABLES
    log,        \* the log: what each write appended, <<process, function, writes left>>
    holder,     \* process that holds the lock of the log, or "none"
    place,      \* where a process is
    fun,        \* function it runs
    fd,         \* what it writes to
    left        \* writes left
logVars == <<log, holder, place, fun, fd, left>>

Functions == {"print_request", "print_reply"}
Places == {"open", "error", "lock", "write", "unlock", "done", "dead"}

LogTypeOK ==
    /\ log \in Seq(Procs \X (Functions \cup {"print_error"}) \X Nat)
    /\ holder \in Procs \cup {"none"}
    /\ place \in [Procs -> Places]
    /\ fun \in [Procs -> Functions]
    /\ fd \in [Procs -> {"log", "stderr"}]
    /\ left \in [Procs -> Nat]
-----------------------------------------------------------------------------
\* the begin line, URL and command, two writes for a parameter, the end line
Writes(f) == IF f = "print_request" THEN 3 + 2 * NumParams ELSE 1

Open(p) ==
    /\ place[p] = "open"
    /\ \/ /\ fd' = [fd EXCEPT ![p] = "log"]
          /\ place' = [place EXCEPT ![p] = "lock"]
       \/ /\ fd' = [fd EXCEPT ![p] = "stderr"]
          /\ place' = [place EXCEPT ![p] = "error"]
    /\ left' = [left EXCEPT ![p] = Writes(fun[p])]
    /\ UNCHANGED <<log, holder, fun>>

\* print_error, after a failed open: it opens the log itself, locks it and writes one
\* line, or writes to stderr
PrintError(p) ==
    /\ place[p] = "error"
    /\ \/ holder = "none" /\ log' = Append(log, <<p, "print_error", 1>>)
       \/ UNCHANGED log
    /\ place' = [place EXCEPT ![p] = "lock"]
    /\ UNCHANGED <<holder, fun, fd, left>>

Lock(p) ==
    /\ place[p] = "lock"
    /\ \/ fd[p] = "log" /\ holder = "none" /\ holder' = p
       \/ fd[p] = "stderr" /\ UNCHANGED holder
    /\ place' = [place EXCEPT ![p] = "write"]
    /\ UNCHANGED <<log, fun, fd, left>>

\* mutant: the lock is taken for one line only
WriteUnlocks(p) ==
    /\ place[p] = "write"
    /\ log' = IF fd[p] = "log" THEN Append(log, <<p, fun[p], left[p]>>) ELSE log
    /\ left' = [left EXCEPT ![p] = @ - 1]
    /\ holder' = IF holder = p THEN "none" ELSE holder
    /\ place' = [place EXCEPT ![p] = IF left[p] = 1 THEN "unlock" ELSE "lock"]
    /\ UNCHANGED <<fun, fd>>

Write(p) ==
    /\ place[p] = "write"
    /\ log' = IF fd[p] = "log" THEN Append(log, <<p, fun[p], left[p]>>) ELSE log
    /\ left' = [left EXCEPT ![p] = @ - 1]
    /\ place' = [place EXCEPT ![p] = IF left[p] = 1 THEN "unlock" ELSE "write"]
    /\ UNCHANGED <<holder, fun, fd>>

\* mutant: the function returns without flock(LOCK_UN) and close
UnlockForgotten(p) ==
    /\ place[p] = "unlock"
    /\ \/ /\ fun[p] = "print_request"
          /\ fun' = [fun EXCEPT ![p] = "print_reply"]
          /\ place' = [place EXCEPT ![p] = "open"]
       \/ /\ fun[p] = "print_reply"
          /\ place' = [place EXCEPT ![p] = "done"]
          /\ UNCHANGED fun
    /\ UNCHANGED <<log, holder, fd, left>>

\* the end of a call; print_reply is the next one of a process
Unlock(p) ==
    /\ place[p] = "unlock"
    /\ holder' = IF fd[p] = "log" THEN "none" ELSE holder
    /\ \/ /\ fun[p] = "print_request"
          /\ fun' = [fun EXCEPT ![p] = "print_reply"]
          /\ place' = [place EXCEPT ![p] = "open"]
       \/ /\ fun[p] = "print_reply"
          /\ place' = [place EXCEPT ![p] = "done"]
          /\ UNCHANGED fun
    /\ UNCHANGED <<log, fd, left>>

\* the process is killed: its descriptors are closed, its lock is released
Killed(p) ==
    /\ place[p] \notin {"done", "dead"}
    /\ holder' = IF holder = p THEN "none" ELSE holder
    /\ place' = [place EXCEPT ![p] = "dead"]
    /\ UNCHANGED <<log, fun, fd, left>>

LogInit ==
    /\ log = <<>>
    /\ holder = "none"
    /\ place = [p \in Procs |-> "open"]
    /\ fun = [p \in Procs |-> "print_request"]
    /\ fd = [p \in Procs |-> "log"]
    /\ left = [p \in Procs |-> 0]

Step(p) == Open(p) \/ PrintError(p) \/ Lock(p) \/ Write(p) \/ Unlock(p)
LogNext == \E p \in Procs : Step(p) \/ Killed(p)

\* no process is suspended for ever, and flock serves those who wait
LogFairness == \A p \in Procs : SF_logVars(Step(p))
LogSpec == LogInit /\ [][LogNext]_logVars /\ LogFairness
-----------------------------------------------------------------------------
(* Properties *)

\* The writes of one entry are contiguous in the log, whoever logs at the same time,
\* fails to open it or is killed.  (On stderr they are not.)
EntriesWhole ==
    \A i, k \in 1..Len(log) :
        LET a == log[i]
            b == log[k]
        IN  i < k /\ a[1] = b[1] /\ a[2] = b[2] /\ a[2] # "print_error" =>
                \A j \in i..k : log[j][1] = a[1] /\ log[j][2] = a[2]

\* Nobody waits for the lock for ever: not for a process that was killed while it held it,
\* nor for itself, when print_error logs while an entry is being written.
Logged == \A p \in Procs : <>(place[p] \in {"done", "dead"})
=============================================================================
