------------------------- MODULE JobScheduler_proofs -------------------------
(***************************************************************************)
(* The types, BatchVerdict and BatchServed for any jobs and plugins.       *)
(* BatchVerdict is not inductive: while the threads run it must be known   *)
(* of each of them how far it has got, which is what BatchInv says.  A     *)
(* thread that failed lowers __job_success before it finishes, unless      *)
(* another one has done so already.                                        *)
(***************************************************************************)
EXTENDS JobScheduler, TLAPS

Failing(j) == ret[j] \notin {0, 1}
Done(j) == jst[j] = "idle"

TypeInv ==
    /\ pc \in {"poll", "inline", "pending", "batch", "once"}
    /\ due \subseteq Jobs
    /\ jst \in [Jobs -> {"idle", "queued", "judge", "error"}]
    /\ ret \in [Jobs -> {-1, 0, 1, 2}]
    /\ job_success \in BOOLEAN
    /\ failed_jobs \subseteq Jobs
    /\ batch \subseteq Jobs

Resting == pc \in {"poll", "pending"} => AllIdle

InBatch ==
    pc \in {"batch", "once"} =>
        /\ \A j \in Jobs : jst[j] # "idle" => j \in batch
        /\ job_success <=> failed_jobs = {}
        /\ \A j \in failed_jobs : j \in batch /\ Failing(j) /\ jst[j] # "queued"
        /\ \A j \in batch : Failing(j) /\ Done(j) => ~job_success
        /\ \A j \in Jobs : jst[j] = "error" => Failing(j)

BatchInv == TypeInv /\ Resting /\ InBatch

\* the scheduler starts at rest, with nothing failed (JobScheduler.__init__)
THEOREM BatchInit == Init => BatchInv
BY DEF Init, BatchInv, TypeInv, Resting, InBatch, AllIdle

\* a job's thread runs the module: only an exception (-1) touches the flags of the batch
THEOREM BatchExec ==
    ASSUME BatchInv, NEW j \in Jobs, Exec(j), JobSchedulerAssumption
    PROVE  BatchInv'
<1>1. TypeInv'
  BY DEF BatchInv, TypeInv, Exec, JobSchedulerAssumption, mainVars
<1>2. Resting'
  BY DEF BatchInv, Resting, AllIdle, Exec, mainVars
<1>3. ASSUME pc \in {"batch", "once"}
      PROVE  InBatch'
  <2>1. PICK r \in {-1, 0, 1, 2} :
          /\ ret' = [ret EXCEPT ![j] = r]
          /\ job_success' = (job_success /\ r # -1)
          /\ failed_jobs' = IF r = -1 THEN failed_jobs \cup {j} ELSE failed_jobs
    BY DEF Exec, JobSchedulerAssumption
  <2>2. /\ jst[j] = "queued" /\ jst' = [jst EXCEPT ![j] = "judge"]
        /\ batch' = batch /\ pc' = pc
    BY DEF Exec, mainVars
  <2>3. j \in batch /\ j \notin failed_jobs
    BY <1>3, <2>2 DEF BatchInv, InBatch
  <2>4. /\ ret'[j] = r /\ jst'[j] = "judge"
        /\ \A k \in Jobs \ {j} : ret'[k] = ret[k] /\ jst'[k] = jst[k]
    BY <2>1, <2>2 DEF BatchInv, TypeInv
  <2>5. (job_success <=> failed_jobs = {})'
    BY <1>3, <2>1 DEF BatchInv, TypeInv, InBatch
  <2>6. (\A k \in failed_jobs : k \in batch /\ Failing(k) /\ jst[k] # "queued")'
    BY <1>3, <2>1, <2>2, <2>3, <2>4 DEF BatchInv, TypeInv, InBatch, Failing
  <2>7. (\A k \in batch : Failing(k) /\ Done(k) => ~job_success)'
    BY <1>3, <2>1, <2>2, <2>4 DEF BatchInv, TypeInv, InBatch, Failing, Done
  <2>8. (\A k \in Jobs : /\ jst[k] # "idle" => k \in batch
                         /\ jst[k] = "error" => Failing(k))'
    BY <1>3, <2>2, <2>3, <2>4 DEF BatchInv, InBatch, Failing
  <2> QED
    BY <2>5, <2>6, <2>7, <2>8 DEF InBatch
<1>4. ASSUME pc \notin {"batch", "once"}
      PROVE  InBatch'
  BY <1>4 DEF InBatch, Exec, mainVars
<1> QED
  BY <1>1, <1>2, <1>3, <1>4 DEF BatchInv

\* a job's thread judges the exit code and, maybe, lowers the flags
THEOREM BatchJob ==
    ASSUME BatchInv, NEW j \in Jobs, Judge(j) \/ Fail(j)
    PROVE  BatchInv'
<1> USE DEF BatchInv, TypeInv, Resting, AllIdle, InBatch, Failing, Done, mainVars, flagVars
<1>1. CASE Judge(j)
  BY <1>1 DEF Judge
<1>2. CASE Fail(j)
  BY <1>2 DEF Fail
<1> QED
  BY <1>1, <1>2

\* the main thread: a batch starts with clean flags and every job of it queued
THEOREM BatchMain ==
    ASSUME BatchInv, Main \/ RunOnce
    PROVE  BatchInv'
<1> USE DEF BatchInv, TypeInv, Resting, AllIdle, InBatch, Failing, Done, Queue, flagVars
<1>1. CASE RunPendingInline
  BY <1>1 DEF RunPendingInline
<1>2. CASE InlineEnd
  BY <1>2 DEF InlineEnd
<1>3. CASE RunPending
  BY <1>3 DEF RunPending, Reset
<1>4. CASE PendingEnd
  BY <1>4 DEF PendingEnd
<1>5. CASE OnceEnd
  BY <1>5 DEF OnceEnd
<1>6. CASE RunOnce
  BY <1>6 DEF RunOnce, Reset
<1> QED
  BY <1>1, <1>2, <1>3, <1>4, <1>5, <1>6 DEF Main

\* every step of the job scheduler keeps the invariant; a job becoming due does not touch it
THEOREM BatchStep == BatchInv /\ [Next]_vars => BatchInv'
<1> SUFFICES ASSUME BatchInv, [Next]_vars
             PROVE  BatchInv'
  OBVIOUS
<1>1. CASE Main \/ RunOnce
  BY <1>1, BatchMain
<1>2. ASSUME NEW j \in Jobs, JobStep(j)
      PROVE  BatchInv'
  BY <1>2, BatchExec, BatchJob, JobSchedulerAssumption DEF JobStep
<1>3. ASSUME NEW j \in Jobs, Due(j)
      PROVE  BatchInv'
  BY <1>3 DEF Due, BatchInv, TypeInv, Resting, AllIdle, InBatch, Failing, Done, flagVars
<1>4. CASE UNCHANGED vars
  BY <1>4 DEF vars, mainVars, flagVars, BatchInv, TypeInv, Resting, AllIdle, InBatch,
              Failing, Done
<1> QED
  BY <1>1, <1>2, <1>3, <1>4 DEF Next

\* when every thread is done, what is known of each of them is the verdict on the batch
LEMMA BatchInvImplies == BatchInv => BatchVerdict
<1> SUFFICES ASSUME BatchInv, BatchOver
             PROVE  /\ job_success <=> Failures = {}
                    /\ failed_jobs \subseteq Failures
                    /\ Failures # {} => failed_jobs # {}
  BY DEF BatchVerdict
<1>1. failed_jobs \subseteq Failures
  BY DEF BatchInv, TypeInv, InBatch, BatchOver, AllIdle, Failures, Failing
<1>2. Failures # {} => ~job_success
  BY DEF BatchInv, TypeInv, InBatch, BatchOver, AllIdle, Failures, Failing, Done
<1>3. job_success <=> failed_jobs = {}
  BY DEF BatchInv, InBatch, BatchOver
<1> QED
  BY <1>1, <1>2, <1>3

(* What run_once returns, and what run_pending starts from, is right for any number of *)
(* jobs in any number of threads: __job_success is lowered exactly when a job of the   *)
(* batch failed, and failed_jobs names only jobs that did.                             *)
THEOREM BatchVerdictHolds == Spec => []BatchVerdict
<1>1. Spec => []BatchInv
  BY BatchInit, BatchStep, PTL DEF Spec
<1> QED
  BY <1>1, BatchInvImplies, PTL

(***************************************************************************)
(* The types of all the variables.                                         *)
(***************************************************************************)
LEMMA TypesInit ==
    ASSUME Init, JobSchedulerAssumption
    PROVE  TypeOK
<1>1. 0 \in 0..MaxDue /\ 0 \in 0..MaxOnce /\ 0 \in Nat /\ 0 \in {-1, 0, 1, 2}
  BY DEF JobSchedulerAssumption
<1>2. /\ dues \in [Jobs -> 0..MaxDue] /\ onces \in 0..MaxOnce
      /\ cache \in [Jobs -> Nat] /\ live \in [Jobs -> Nat]
  BY <1>1 DEF Init
<1>3. jst \in [Jobs -> {"idle", "queued", "judge", "error"}] /\ ret \in [Jobs -> {-1, 0, 1, 2}]
  BY <1>1 DEF Init
<1> QED
  BY <1>2, <1>3 DEF Init, TypeOK

\* The numbers of the model stay below their bounds.
LEMMA JobTypes ==
    ASSUME TypeOK, NEW j \in Jobs, JobStep(j) \/ Due(j), JobSchedulerAssumption
    PROVE  TypeOK'
<1>1. CASE Exec(j)
  <2>1. PICK r \in {-1, 0, 1, 2} :
          /\ ret' = [ret EXCEPT ![j] = r]
          /\ cache' = [cache EXCEPT ![j] = IF r = 1 THEN @ + 1 ELSE @]
          /\ job_reload' = (job_reload \/ r = 1)
          /\ job_success' = (job_success /\ r # -1)
          /\ failed_jobs' = IF r = -1 THEN failed_jobs \cup {j} ELSE failed_jobs
    BY <1>1 DEF Exec, JobSchedulerAssumption
  <2>2. cache' \in [Jobs -> Nat] /\ ret' \in [Jobs -> {-1, 0, 1, 2}]
    BY <2>1 DEF TypeOK
  <2>3. failed_jobs' \subseteq Jobs /\ job_reload' \in BOOLEAN /\ job_success' \in BOOLEAN
    BY <2>1 DEF TypeOK
  <2>4. jst' \in [Jobs -> {"idle", "queued", "judge", "error"}]
        /\ UNCHANGED <<mainVars, live, verdict, batch>>
    BY <1>1 DEF Exec, TypeOK
  <2> QED
    BY <2>2, <2>3, <2>4 DEF TypeOK, mainVars
<1>2. CASE Judge(j)
  BY <1>2 DEF Judge, TypeOK, mainVars, flagVars
<1>3. CASE Fail(j)
  BY <1>3 DEF Fail, TypeOK, mainVars
<1>4. CASE Due(j)
  BY <1>4 DEF Due, TypeOK, flagVars, JobSchedulerAssumption
<1> QED
  BY <1>1, <1>2, <1>3, <1>4 DEF JobStep

\* What the main thread writes.
LEMMA MainTypes ==
    ASSUME TypeOK, Main \/ RunOnce, JobSchedulerAssumption
    PROVE  TypeOK'
<1>1. CASE RunPendingInline
  BY <1>1 DEF RunPendingInline, TypeOK, Queue, flagVars
<1>2. CASE InlineEnd
  BY <1>2 DEF InlineEnd, TypeOK, flagVars
<1>3. CASE RunPending
  BY <1>3 DEF RunPending, Reset, TypeOK, Queue, flagVars
<1>4. CASE PendingEnd
  BY <1>4 DEF PendingEnd, TypeOK, JobSchedulerAssumption
<1>5. CASE OnceEnd
  BY <1>5 DEF OnceEnd, TypeOK, flagVars
<1>6. CASE RunOnce
  <2>1. onces' \in 0..MaxOnce
    BY <1>6 DEF RunOnce, TypeOK, JobSchedulerAssumption
  <2>2. batch' \subseteq Jobs /\ jst' \in [Jobs -> {"idle", "queued", "judge", "error"}]
    BY <1>6 DEF RunOnce, TypeOK, Queue
  <2> QED
    BY <1>6, <2>1, <2>2 DEF RunOnce, Reset, TypeOK
<1> QED
  BY <1>1, <1>2, <1>3, <1>4, <1>5, <1>6 DEF Main

\* Types, for any jobs, plugins and bounds.
THEOREM SchedulerTyped == Spec => []TypeOK
<1>1. Init => TypeOK
  BY TypesInit, JobSchedulerAssumption
<1>2. TypeOK /\ [Next]_vars => TypeOK'
  <2>1. CASE UNCHANGED vars
    BY <2>1 DEF vars, mainVars, flagVars, TypeOK
  <2> QED
    BY <2>1, JobTypes, MainTypes, JobSchedulerAssumption DEF Next
<1> QED
  BY <1>1, <1>2, PTL DEF Spec

(***************************************************************************)
(* BatchServed: a job of the batch that left new files behind has raised   *)
(* __job_reload, which nothing lowers before the batch is over.            *)
(***************************************************************************)
ReloadRaised ==
    pc = "batch" => \A j \in batch : jst[j] # "queued" /\ ret[j] = 1 => job_reload

ServedInv == TypeOK /\ ReloadRaised

\* A thread raises the flag together with its result, and no thread lowers it.
LEMMA JobRaises ==
    ASSUME ServedInv, NEW j \in Jobs, JobStep(j) \/ Due(j)
    PROVE  ReloadRaised'
<1>1. CASE Exec(j)
  <2>1. PICK r : ret' = [ret EXCEPT ![j] = r] /\ job_reload' = (job_reload \/ r = 1)
    BY <1>1 DEF Exec
  <2>2. jst' = [jst EXCEPT ![j] = "judge"] /\ batch' = batch /\ pc' = pc
    BY <1>1 DEF Exec, mainVars
  <2>3. \A k \in Jobs \ {j} : ret'[k] = ret[k] /\ jst'[k] = jst[k]
    BY <2>1, <2>2 DEF ServedInv, TypeOK
  <2>4. ret'[j] = r
    BY <2>1 DEF ServedInv, TypeOK
  <2>5. batch \subseteq Jobs /\ job_reload \in BOOLEAN
    BY DEF ServedInv, TypeOK
  <2> QED
    BY <2>1, <2>2, <2>3, <2>4, <2>5 DEF ServedInv, ReloadRaised
<1>2. CASE Judge(j) \/ Fail(j)
  <2>1. /\ UNCHANGED <<pc, ret, job_reload, batch>>
        /\ \A k \in Jobs : jst'[k] # "queued" => jst[k] # "queued"
    BY <1>2 DEF Judge, Fail, mainVars, flagVars, ServedInv, TypeOK
  <2>2. \A k \in Jobs : jst[k] = "queued" => jst'[k] = "queued"
    BY <1>2 DEF Judge, Fail, ServedInv, TypeOK
  <2>3. batch \subseteq Jobs
    BY DEF ServedInv, TypeOK
  <2> QED
    BY <2>1, <2>2, <2>3 DEF ServedInv, ReloadRaised
<1>3. CASE Due(j)
  BY <1>3 DEF Due, flagVars, ServedInv, ReloadRaised
<1> QED
  BY <1>1, <1>2, <1>3 DEF JobStep

\* The main thread lowers it when a batch begins, with every job queued, and when it is over.
LEMMA MainRaises ==
    ASSUME ServedInv, Main \/ RunOnce
    PROVE  ReloadRaised'
<1>1. CASE RunPending
  <2>1. batch' \subseteq Jobs
    BY <1>1 DEF RunPending, ServedInv, TypeOK
  <2>2. pc' = "batch" =>
            batch' = due /\ jst' = [j \in Jobs |-> IF j \in due THEN "queued" ELSE jst[j]]
    BY <1>1 DEF RunPending, Queue
  <2> QED
    BY <2>1, <2>2 DEF ReloadRaised
<1>2. CASE pc' # "batch"
  BY <1>2 DEF ReloadRaised
<1> QED
  BY <1>1, <1>2 DEF Main, RunPendingInline, InlineEnd, PendingEnd, OnceEnd, RunOnce

\* run_pending never answers True with a download still missing on the instances
\* (JobScheduler.py:374 to 418), however the threads of the executor interleave and whether
\* or not a delivery fails.
THEOREM BatchesServed == Spec => BatchServed
<1>1. Init => ServedInv
  BY TypesInit, JobSchedulerAssumption DEF ServedInv, Init, ReloadRaised
<1>2. ServedInv /\ [Next]_vars => ServedInv'
  <2> SUFFICES ASSUME ServedInv, [Next]_vars
               PROVE  ServedInv'
    OBVIOUS
  <2>1. TypeOK'
    <3>1. CASE UNCHANGED vars
      BY <3>1 DEF vars, mainVars, flagVars, ServedInv, TypeOK
    <3> QED
      BY <3>1, JobTypes, MainTypes, JobSchedulerAssumption DEF ServedInv, Next
  <2>2. ReloadRaised'
    <3>1. CASE UNCHANGED vars
      BY <3>1 DEF vars, mainVars, flagVars, ServedInv, ReloadRaised
    <3> QED
      BY <3>1, JobRaises, MainRaises DEF Next
  <2> QED
    BY <2>1, <2>2 DEF ServedInv
<1>3. ServedInv /\ [Next]_vars =>
          [pc = "batch" /\ pc' = "poll" /\ verdict' =>
               \A j \in batch : ret[j] = 1 => live'[j] = cache[j]]_vars
  <2> SUFFICES ASSUME ServedInv, Next, pc = "batch", pc' = "poll", verdict',
                      NEW j \in batch, ret[j] = 1
               PROVE  live'[j] = cache[j]
    OBVIOUS
  <2>1. PendingEnd
    BY DEF Next, Main, RunPendingInline, InlineEnd, RunPending, OnceEnd, RunOnce, JobStep, Exec,
           Judge, Fail, Due, mainVars
  <2>2. jst[j] = "idle" /\ j \in Jobs
    BY <2>1 DEF PendingEnd, AllIdle, ServedInv, TypeOK
  <2>3. job_reload
    BY <2>2 DEF ServedInv, ReloadRaised
  <2>4. PICK sent \in Sends : /\ verdict' = (job_success /\ (job_reload => sent))
                             /\ live' = IF job_reload /\ sent THEN cache ELSE live
    BY <2>1 DEF PendingEnd
  <2>5. sent
    BY <2>3, <2>4
  <2> QED
    BY <2>3, <2>4, <2>5
<1> QED
  BY <1>1, <1>2, <1>3, PTL DEF Spec, BatchServed
=============================================================================
