---------------------------- MODULE JobScheduler ----------------------------
(***************************************************************************)
(* The job scheduler (scheduler/JobScheduler.py) and the two places of the *)
(* poll loop of scheduler/main.py that run due jobs: run_pending() of the  *)
(* schedule library, which runs them in the main thread, and               *)
(* SCHEDULER.run_pending(), which runs them in the executor and then sends *)
(* the cache and reloads the instances.                                    *)
(*                                                                         *)
(* A job that exits with 1 left new files in the cache and asks for a      *)
(* reload; 0 is success without a change, 2 an error, -1 stands for an     *)
(* exception.                                                              *)
(***************************************************************************)
EXTENDS Integers

CONSTANTS
    Jobs,      \* the jobs of the plugins
    PluginOf,  \* [Jobs -> plugins]: the jobs of a plugin run one after the other
    Async,     \* the jobs marked "async", which do not wait for each other
    Outcomes,  \* exit codes that occur, a subset of {-1, 0, 1, 2}
    Sends,     \* outcomes that occur of sending the cache and reloading
    MaxDue,    \* bound on the times that a job becomes due
    MaxOnce    \* bound on the reloads of the job scheduler

ASSUME JobSchedulerAssumption ==
    /\ Jobs # {}
    /\ DOMAIN PluginOf = Jobs
    /\ Async \subseteq Jobs
    /\ Outcomes \subseteq {-1, 0, 1, 2}
    /\ Sends \subseteq BOOLEAN
    /\ MaxDue \in Nat /\ MaxOnce \in Nat

VARIABLES
    pc,           \* main thread: "poll", "inline", "pending", "batch" or "once"
    due,          \* jobs that should run
    dues, onces,  \* how often a job was due, how often run_once was called
    jst, ret,     \* a job's thread: where it is; its exit code
    job_success, failed_jobs, job_reload,
    cache, live,  \* results of a job in the cache; those the instances have
    verdict,      \* what the last batch returned
    batch         \* the jobs of the last batch

mainVars == <<pc, due, dues, onces>>
flagVars == <<job_success, failed_jobs, job_reload>>
vars == <<mainVars, jst, ret, flagVars, cache, live, verdict, batch>>

TypeOK ==
    /\ pc \in {"poll", "inline", "pending", "batch", "once"}
    /\ due \subseteq Jobs
    /\ dues \in [Jobs -> 0..MaxDue] /\ onces \in 0..MaxOnce
    /\ jst \in [Jobs -> {"idle", "queued", "judge", "error"}]
    /\ ret \in [Jobs -> {-1, 0, 1, 2}]
    /\ job_success \in BOOLEAN
    /\ failed_jobs \subseteq Jobs
    /\ job_reload \in BOOLEAN
    /\ cache \in [Jobs -> Nat]
    /\ live \in [Jobs -> Nat]
    /\ verdict \in BOOLEAN
    /\ batch \subseteq Jobs
-----------------------------------------------------------------------------
(* __job_wrapper, in the main thread or in a thread of the executor *)

\* the inline jobs run one at a time, and so do the jobs of a plugin in run_once
MayStart(j) ==
    CASE pc = "inline" -> \A k \in Jobs : jst[k] \in {"idle", "queued"}
      [] pc = "once" -> j \in Async \/ \A k \in Jobs \ Async :
             PluginOf[k] = PluginOf[j] => jst[k] \in {"idle", "queued"}
      [] OTHER -> TRUE

\* mutant of Exec: the plugin is listed instead of the job
ExecNamesPlugin(j) ==
    /\ jst[j] = "queued" /\ MayStart(j)
    /\ \E r \in Outcomes :
          /\ ret' = [ret EXCEPT ![j] = r]
          /\ cache' = [cache EXCEPT ![j] = IF r = 1 THEN @ + 1 ELSE @]
          /\ job_reload' = (job_reload \/ r = 1)
          /\ job_success' = (job_success /\ r # -1)
          /\ failed_jobs' = IF r = -1 THEN failed_jobs \cup {PluginOf[j]} ELSE failed_jobs
    /\ jst' = [jst EXCEPT ![j] = "judge"]
    /\ UNCHANGED <<mainVars, live, verdict, batch>>

\* the module runs; an exception marks the batch and the job as failed, exit code 1 asks
\* for a reload
Exec(j) ==
    /\ jst[j] = "queued" /\ MayStart(j)
    /\ \E r \in Outcomes :
          /\ ret' = [ret EXCEPT ![j] = r]
          /\ cache' = [cache EXCEPT ![j] = IF r = 1 THEN @ + 1 ELSE @]
          /\ job_reload' = (job_reload \/ r = 1)
          /\ job_success' = (job_success /\ r # -1)
          /\ failed_jobs' = IF r = -1 THEN failed_jobs \cup {j} ELSE failed_jobs
    /\ jst' = [jst EXCEPT ![j] = "judge"]
    /\ UNCHANGED <<mainVars, live, verdict, batch>>

\* if self.__job_success and (ret < 0 or ret >= 2), read without the lock
Judge(j) ==
    /\ jst[j] = "judge"
    /\ jst' = [jst EXCEPT ![j] =
                 IF job_success /\ (ret[j] < 0 \/ ret[j] >= 2) THEN "error" ELSE "idle"]
    /\ UNCHANGED <<mainVars, ret, flagVars, cache, live, verdict, batch>>

Fail(j) ==
    /\ jst[j] = "error"
    /\ job_success' = FALSE
    /\ failed_jobs' = failed_jobs \cup {j}
    /\ jst' = [jst EXCEPT ![j] = "idle"]
    /\ UNCHANGED <<mainVars, ret, job_reload, cache, live, verdict, batch>>
-----------------------------------------------------------------------------
(* The main thread *)

AllIdle == \A j \in Jobs : jst[j] = "idle"
Queue(S) == jst' = [j \in Jobs |-> IF j \in S THEN "queued" ELSE jst[j]]

\* mutant of Reset: the flags of the previous batch survive
ResetReloadOnly ==
    /\ job_reload' = FALSE
    /\ UNCHANGED <<job_success, failed_jobs>>

\* run_once and run_pending start from clean flags
Reset ==
    /\ job_success' = TRUE
    /\ failed_jobs' = {}
    /\ job_reload' = FALSE

\* time passes: a job that is scheduled becomes due (external: schedule.Job.should_run)
Due(j) ==
    /\ pc # "once" /\ j \notin due /\ dues[j] < MaxDue /\ jst[j] = "idle"
    /\ due' = due \cup {j}
    /\ dues' = [dues EXCEPT ![j] = @ + 1]
    /\ UNCHANGED <<pc, onces, jst, ret, flagVars, cache, live, verdict, batch>>

\* schedule.run_pending(): the jobs due now, in the main thread
RunPendingInline ==
    /\ pc = "poll"
    /\ Queue(due)
    /\ due' = {}
    /\ pc' = "inline"
    /\ UNCHANGED <<dues, onces, ret, flagVars, cache, live, verdict, batch>>

InlineEnd ==
    /\ pc = "inline" /\ AllIdle
    /\ pc' = "pending"
    /\ UNCHANGED <<due, dues, onces, jst, ret, flagVars, cache, live, verdict, batch>>

\* SCHEDULER.run_pending(): return when nothing is due, else a batch in the executor
RunPending ==
    /\ pc = "pending"
    /\ \/ /\ due = {}
          /\ pc' = "poll"
          /\ UNCHANGED <<due, jst, flagVars, batch>>
       \/ /\ due # {}
          /\ Reset
          /\ Queue(due)
          /\ batch' = due
          /\ due' = {}
          /\ pc' = "batch"
    /\ UNCHANGED <<dues, onces, ret, cache, live, verdict>>

\* mutant of PendingEnd: a failed delivery is not reported
PendingEndBlind ==
    /\ pc = "batch" /\ AllIdle
    /\ \E sent \in Sends : live' = IF job_reload /\ sent THEN cache ELSE live
    /\ verdict' = job_success
    /\ job_success' = TRUE
    /\ job_reload' = FALSE
    /\ pc' = "poll"
    /\ UNCHANGED <<due, dues, onces, jst, ret, failed_jobs, cache, batch>>

\* every future is done: send the cache and reload if a job asked for it, which may fail; when
\* no instance is listed there is none that lacks it ("live" is about the listed ones)
PendingEnd ==
    /\ pc = "batch" /\ AllIdle
    /\ \E sent \in Sends :
          /\ verdict' = (job_success /\ (job_reload => sent))
          /\ live' = IF job_reload /\ sent THEN cache ELSE live
    /\ job_success' = TRUE
    /\ job_reload' = FALSE
    /\ pc' = "poll"
    /\ UNCHANGED <<due, dues, onces, jst, ret, failed_jobs, cache, batch>>

\* JobScheduler.reload, from the main loop after a change: the schedule is cleared, the
\* jobs of the changed plugins (or all) run once, then every job is scheduled again
RunOnce ==
    /\ pc = "poll" /\ onces < MaxOnce
    /\ onces' = onces + 1
    /\ Reset
    /\ \E S \in SUBSET {PluginOf[j] : j \in Jobs} :
          LET scope == {j \in Jobs : S = {} \/ PluginOf[j] \in S} IN
          /\ Queue(scope)
          /\ batch' = scope
    /\ due' = {}
    /\ pc' = "once"
    /\ UNCHANGED <<dues, ret, cache, live, verdict>>

\* run_once returns; the main loop sends the cache and reloads the instances, which may fail
OnceEnd ==
    /\ pc = "once" /\ AllIdle
    /\ verdict' = job_success
    /\ \E sent \in Sends : live' = IF sent THEN cache ELSE live
    /\ pc' = "poll"
    /\ UNCHANGED <<due, dues, onces, jst, ret, flagVars, cache, batch>>
-----------------------------------------------------------------------------
Init ==
    /\ pc = "poll"
    /\ due = {} /\ dues = [j \in Jobs |-> 0] /\ onces = 0
    /\ jst = [j \in Jobs |-> "idle"]
    /\ ret = [j \in Jobs |-> 0]
    /\ job_success = TRUE /\ failed_jobs = {} /\ job_reload = FALSE
    /\ cache = [j \in Jobs |-> 0]
    /\ live = [j \in Jobs |-> 0]
    /\ verdict = TRUE
    /\ batch = {}

JobStep(j) == Exec(j) \/ Judge(j) \/ Fail(j)
Main == RunPendingInline \/ InlineEnd \/ RunPending \/ PendingEnd \/ OnceEnd

Next == Main \/ RunOnce \/ \E j \in Jobs : JobStep(j) \/ Due(j)

\* the poll loop and the threads of the executor go on
Fairness == WF_vars(Main) /\ \A j \in Jobs : WF_vars(JobStep(j))

Spec == Init /\ [][Next]_vars /\ Fairness
-----------------------------------------------------------------------------
(* Properties *)

Failures == {j \in batch : ret[j] \notin {0, 1}}
BatchOver == pc \in {"batch", "once"} /\ AllIdle

(* When the last thread of run_once or run_pending is done, __job_success tells whether a *)
(* job of this batch failed, whatever the earlier batches and inline runs left in it, and  *)
(* __failed_jobs names at least one culprit and nobody innocent.  The threads race: each  *)
(* tests __job_success outside the lock before it lowers it.                              *)
BatchVerdict ==
    BatchOver =>
        /\ job_success <=> Failures = {}
        /\ failed_jobs \subseteq Failures
        /\ Failures # {} => failed_jobs # {}

(* SCHEDULER.run_pending() answers TRUE only when what its jobs downloaded is on the       *)
(* instances: the flag __job_reload that they raise in parallel is read after all of them. *)
BatchServed ==
    [][pc = "batch" /\ pc' = "poll" /\ verdict' =>
         \A j \in batch : ret[j] = 1 => live'[j] = cache[j]]_vars

(* "Blacklists from URLs are automatically downloaded and updated hourly to ensure your    *)
(* protection remains current" (docs/features.md): what a job put in the cache gets to the *)
(* instances.                                                                              *)
CacheReaches == \A j \in Jobs : cache[j] # live[j] ~> live[j] = cache[j]
=============================================================================
