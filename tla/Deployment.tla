----------------------------- MODULE Deployment -----------------------------
(***************************************************************************)
(* The scheduler and the BunkerWeb instances (scheduler/main.py): sending  *)
(* files, reloading, failing over to the last working configuration, its   *)
(* background backup, and the periodic health check.                       *)
(*                                                                         *)
(* A change is a version number; an instance holds one version of each     *)
(* kind of file and runs the versions it last loaded.  nginx -t refuses    *)
(* files when one of their <<kind, version>> is in "bad".                  *)
(* send_file_to_bunkerweb runs in executor threads that share              *)
(* SCHEDULER.apis: it finds the index of an instance under the lock,       *)
(* stores the status of the instance, then uses the index under the lock.  *)
(***************************************************************************)
EXTENDS Naturals, SequencesExt

CONSTANTS
    Order,      \* the instances, in the order of get_instances
    Faults,     \* which of AllFaults may happen
    Tested,     \* FALSE: DISABLE_CONFIGURATION_TESTING, /reload?test=no
    SlowBackup, \* TRUE: a change may be polled while the backup is still running
    MaxPass,    \* bound on changes
    MaxFaults   \* bound on the faults of one instance

\* bad_confs, bad_custom: a generated configuration, a custom config that nginx refuses;
\* down: an instance is unreachable for a while; restart: an instance restarts with its
\* loading configuration; upload: a reachable instance answers an upload with an error, or too
\* late; gen, copy: the generator, a copy of the backup fails; db: a database error
AllFaults ==
    {"bad_confs", "bad_custom", "down", "restart", "upload", "gen", "copy", "db"}

ASSUME DeploymentAssumption ==
    /\ Order \in Seq(Range(Order)) /\ Order # <<>> /\ IsInjective(Order)
    /\ Faults \subseteq AllFaults
    /\ SlowBackup \in BOOLEAN /\ Tested \in BOOLEAN
    /\ MaxPass \in Nat /\ MaxFaults \in Nat

VARIABLES
    reach, loading,    \* instance: reachable; IS_LOADING
    files, running,    \* instance: versions on its disk; versions nginx loaded
    apis, status,      \* SCHEDULER.apis; Instances.status in the database
    disk, bad,         \* scheduler: versions on its disk; refused <<kind, version>>
    snap, bpc,         \* FAILOVER_PATH (0: missing); where backup_failover is
    thr,               \* the executor thread that sends each kind
    pc, answer, success, reachable, failover, at, hcEvent, hcSeen, \* main thread
    pass, faults       \* bound counters: changes; faults of each instance

instVars == <<reach, loading, files, running>>
listVars == <<apis, status>>
mainVars == <<pc, answer, success, reachable, failover, at, hcEvent, hcSeen>>
vars == <<instVars, listVars, disk, bad, snap, bpc, thr, mainVars, pass, faults>>

Kinds == {"confs", "cache", "custom_configs"}
Instances == Range(Order)
Statuses == {"up", "down", "failover", "loading"}
Versions == [Kinds -> Nat]
Thread == [pc : {"idle", "send", "index", "status", "apply", "raised"}, at : Nat, index : Nat,
           src : {"disk", "snap"}, only : SUBSET Instances, got : SUBSET Instances]

TypeOK ==
    /\ reach \in [Instances -> BOOLEAN]
    /\ loading \in [Instances -> BOOLEAN]
    /\ files \in [Instances -> Versions]
    /\ running \in [Instances -> Versions]
    /\ apis \in Seq(Instances)
    /\ status \in [Instances -> Statuses]
    /\ disk \in Versions
    /\ bad \subseteq Kinds \X Nat
    /\ snap \in Versions
    /\ bpc \in {"idle", "queued", "confs", "custom_configs", "cache"}
    /\ thr \in [Kinds -> Thread]
    /\ pc \in {"poll", "custom", "wait", "sent", "reload", "answers", "decide", "failsend",
               "health", "healthsend"}
    /\ answer \in [Instances -> {"none", "success", "refused"}]
    /\ success \in BOOLEAN /\ reachable \in BOOLEAN /\ failover \in BOOLEAN
    /\ hcEvent \in BOOLEAN
    /\ at \in 1..(Len(Order) + 1)
    /\ hcSeen \in [Instances -> Statuses]
    /\ pass \in Nat
    /\ faults \in [Instances -> Nat]

-----------------------------------------------------------------------------
(* Instances *)

\* the reload handler: nginx -t over all the files unless test=no, then HUP, over files that no
\* sender is changing meanwhile
Accepts(i) == \A k \in Kinds : <<k, files[i][k]>> \notin bad
Succeeds(i) == Tested => Accepts(i)
\* the master that gets HUP goes on with the configuration it has when it cannot load the
\* new one: without the test the answer is the same, and nothing is loaded
Loads(S) ==
    LET ok == {i \in S : reach[i] /\ Accepts(i)} IN
    /\ running' = [i \in Instances |-> IF i \in ok THEN files[i] ELSE running[i]]
    /\ loading' = [i \in Instances |-> loading[i] /\ ~(i \in ok /\ files[i]["confs"] # 0)]

Fault(i, kind) ==
    /\ kind \in Faults /\ faults[i] < MaxFaults
    /\ faults' = [faults EXCEPT ![i] = @ + 1]

Lose(i) ==
    /\ Fault(i, "down") /\ reach[i]
    /\ reach' = [reach EXCEPT ![i] = FALSE]
    /\ UNCHANGED <<loading, files, running, listVars, disk, bad, snap, bpc, thr,
                    mainVars, pass>>

Regain(i) ==
    /\ ~reach[i]
    /\ reach' = [reach EXCEPT ![i] = TRUE]
    /\ UNCHANGED <<loading, files, running, listVars, disk, bad, snap, bpc, thr,
                    mainVars, pass, faults>>

\* a new container: nothing sent yet, nginx runs the loading configuration
RestartInstance(i) ==
    /\ Fault(i, "restart") /\ reach[i]
    /\ loading' = [loading EXCEPT ![i] = TRUE]
    /\ files' = [files EXCEPT ![i] = [k \in Kinds |-> 0]]
    /\ running' = [running EXCEPT ![i] = [k \in Kinds |-> 0]]
    /\ UNCHANGED <<reach, listVars, disk, bad, snap, bpc, thr, mainVars, pass>>
-----------------------------------------------------------------------------
(* send_file_to_bunkerweb, in a thread of the executor *)

Finished(t) == thr[t].pc \in {"idle", "raised"}
Submitted(T, src, only) ==
    thr' = [t \in Kinds |-> IF t \in T
              THEN [pc |-> "send", at |-> 1, index |-> 0, src |-> src, only |-> only, got |-> {}]
              ELSE thr[t]]

\* send_files: to the given instance, or to all of SCHEDULER.apis; an upload that is answered
\* with an error, or too late, may have been installed; the archive of a missing directory raises
Failing(S) == {L \in SUBSET S : \A i \in L : "upload" \in Faults /\ faults[i] < MaxFaults}
ThrSend(t) ==
    /\ thr[t].pc = "send"
    /\ LET v == IF thr[t].src = "disk" THEN disk[t] ELSE snap[t]
           to == IF thr[t].only = {} THEN Range(apis) ELSE thr[t].only
           got == {i \in to : reach[i]}
       IN  \/ /\ thr[t].src = "snap" /\ v = 0
              /\ thr' = [thr EXCEPT ![t].pc = "raised"]
              /\ UNCHANGED <<files, faults>>
           \/ /\ ~(thr[t].src = "snap" /\ v = 0)
              /\ \E failed \in Failing(got) : \E lost \in SUBSET failed :
                    /\ thr' = [thr EXCEPT ![t].pc = "index", ![t].got = got \ failed]
                    /\ files' = [i \in Instances |-> IF i \in got \ lost
                                   THEN [files[i] EXCEPT ![t] = v] ELSE files[i]]
                    /\ faults' = [i \in Instances |->
                                   IF i \in failed THEN faults[i] + 1 ELSE faults[i]]
    /\ UNCHANGED <<reach, loading, running, listVars, disk, bad, snap, bpc, mainVars, pass>>

\* with SCHEDULER_LOCK: where is the next instance in SCHEDULER.apis?  (0: nowhere)
IndexOf(i) == SelectInSeq(apis, LAMBDA j : j = i)
ThrIndex(t) ==
    /\ thr[t].pc = "index"
    /\ thr' = [thr EXCEPT ![t].pc = "status", ![t].index = IndexOf(Order[thr[t].at])]
    /\ UNCHANGED <<instVars, listVars, disk, bad, snap, bpc, mainVars, pass, faults>>

\* mutant: the status of the answer is stored as it is
ThrStatusRaw(t) ==
    /\ thr[t].pc = "status"
    /\ LET i == Order[thr[t].at] IN
          status' = [status EXCEPT ![i] = IF i \in thr[t].got THEN "success" ELSE "down"]
    /\ thr' = [thr EXCEPT ![t].pc = "apply"]
    /\ UNCHANGED <<instVars, apis, disk, bad, snap, bpc, mainVars, pass, faults>>

\* db.update_instance: "down" for an instance that was not sent to, too
ThrStatus(t) ==
    /\ thr[t].pc = "status"
    /\ LET i == Order[thr[t].at] IN
          status' = [status EXCEPT ![i] = IF i \in thr[t].got THEN "up" ELSE "down"]
    /\ thr' = [thr EXCEPT ![t].pc = "apply"]
    /\ UNCHANGED <<instVars, apis, disk, bad, snap, bpc, mainVars, pass, faults>>

\* with SCHEDULER_LOCK again: append, or delete at the index found before
Advance(t) ==
    IF thr[t].at < Len(Order)
    THEN [thr EXCEPT ![t].pc = "index", ![t].at = @ + 1]
    ELSE [thr EXCEPT ![t].pc = "idle"]
ThrApply(t) ==
    /\ thr[t].pc = "apply"
    /\ LET i == Order[thr[t].at]
           n == thr[t].index
       IN  \/ /\ i \in thr[t].got
              /\ apis' = IF n = 0 THEN Append(apis, i) ELSE apis
              /\ thr' = Advance(t)
           \/ /\ i \notin thr[t].got /\ n <= Len(apis)
              /\ apis' = IF n = 0 THEN apis ELSE RemoveAt(apis, n)
              /\ thr' = Advance(t)
           \/ /\ i \notin thr[t].got /\ n > Len(apis)   \* IndexError
              /\ thr' = [thr EXCEPT ![t].pc = "raised"]
              /\ UNCHANGED apis
    /\ UNCHANGED <<instVars, status, disk, bad, snap, bpc, mainVars, pass, faults>>
-----------------------------------------------------------------------------
(* backup_failover, in a thread of the executor *)

BackingUp == bpc \in Kinds

\* BACKING_UP_FAILOVER is set, the old snapshot is removed
BackupStart ==
    /\ bpc = "queued"
    /\ snap' = [k \in Kinds |-> 0]
    /\ bpc' = "confs"
    /\ UNCHANGED <<instVars, listVars, disk, bad, thr, mainVars, pass, faults>>

\* one copytree after the other, the error of which is logged (here: when it cannot create the
\* directory); BACKING_UP_FAILOVER is cleared after the last
BackupCopy(k) ==
    /\ bpc = k
    /\ \/ snap' = [snap EXCEPT ![k] = disk[k]]
       \/ "copy" \in Faults /\ UNCHANGED snap
    /\ bpc' = CASE k = "confs" -> "custom_configs"
                [] k = "custom_configs" -> "cache"
                [] k = "cache" -> "idle"
    /\ UNCHANGED <<instVars, listVars, disk, bad, thr, mainVars, pass, faults>>
-----------------------------------------------------------------------------
(* The main thread: one pass of the loop *)

\* the poll saw changes: the instances are listed anew, then the custom configs are
\* written (whether or not a backup is running) and sent by the main thread itself;
\* cache stands for what the jobs will refresh
Change ==
    /\ pc = "poll" /\ pass < MaxPass
    /\ SlowBackup \/ bpc = "idle"
    /\ \A t \in Kinds : Finished(t)
    /\ pass' = pass + 1
    /\ \E S \in SUBSET {"instances", "custom_configs"} :
          /\ apis' = IF "instances" \in S THEN Order ELSE apis
          /\ IF "custom_configs" \in S
             THEN /\ disk' = [disk EXCEPT !["custom_configs"] = pass']
                  /\ Submitted(IF apis' = <<>> THEN {} ELSE {"custom_configs"}, "disk", {})
             ELSE UNCHANGED <<disk, thr>>
          /\ \/ UNCHANGED bad
             \/ "bad_confs" \in Faults /\ bad' = bad \cup {<<"confs", pass'>>}
             \/ /\ "bad_custom" \in Faults /\ "custom_configs" \in S
                /\ bad' = bad \cup {<<"custom_configs", pass'>>}
    /\ pc' = "custom"
    /\ UNCHANGED <<instVars, status, snap, bpc, success, reachable, failover, hcEvent, at,
                    hcSeen, answer, faults>>

CustomSent ==
    /\ pc = "custom" /\ Finished("custom_configs")
    /\ pc' = "wait"
    /\ UNCHANGED <<instVars, listVars, disk, bad, snap, bpc, thr, success, reachable, failover,
                    hcEvent, at, hcSeen, pass, answer, faults>>

\* wait for BACKING_UP_FAILOVER, run the jobs, generate the configuration and submit
\* the sending of both, or of the cache alone when the generator failed (what it has written
\* until then is not told apart from the old files); without a listed instance the reload is
\* skipped
Generate ==
    /\ pc = "wait" /\ ~BackingUp
    /\ \E new \in {{"confs", "cache"}} \cup (IF "gen" \in Faults THEN {{"cache"}} ELSE {}) :
          /\ disk' = [k \in Kinds |-> IF k \in new THEN pass ELSE disk[k]]
          /\ IF apis = <<>>
             THEN pc' = "decide" /\ UNCHANGED thr
             ELSE pc' = "sent" /\ Submitted(new, "disk", {})
    /\ success' = TRUE /\ reachable' = TRUE
    /\ UNCHANGED <<instVars, listVars, bad, snap, bpc, failover, hcEvent, at, hcSeen, pass,
                    answer, faults>>

\* future.result() of each in turn; an exception skips the reload, and only that
FuturesDone(T) == \A t \in T : thr[t].pc = "idle"
FutureRaised(t, before) == thr[t].pc = "raised" /\ FuturesDone(before)
Sent ==
    /\ pc = "sent"
    /\ \/ FuturesDone({"confs", "cache"}) /\ pc' = "reload"
       \/ (FutureRaised("confs", {}) \/ FutureRaised("cache", {"confs"})) /\ pc' = "decide"
    /\ UNCHANGED <<instVars, listVars, disk, bad, snap, bpc, thr, success, reachable, failover,
                    hcEvent, at, hcSeen, pass, answer, faults>>

\* the first entry of an instance is deleted, if there is one
Unlisted(s, i) == IF Contains(s, i) THEN RemoveFirst(s, i) ELSE s
Listed(s, i) == IF Contains(s, i) THEN s ELSE Append(s, i)

\* POST /reload to SCHEDULER.apis: what each of them answered
Reload ==
    /\ pc = "reload"
    /\ Loads(Range(apis))
    /\ answer' = [i \in Instances |->
         IF i \notin Range(apis) \/ ~reach[i] THEN "none"
         ELSE IF Succeeds(i) THEN "success" ELSE "refused"]
    /\ success' = (\A i \in Range(apis) : answer'[i] = "success")
    /\ at' = 1
    /\ pc' = "answers"
    /\ UNCHANGED <<reach, files, listVars, disk, bad, snap, bpc, thr, reachable, failover,
                    hcEvent, hcSeen, pass, faults>>

\* mutant: an instance that refused the configuration is unlisted
StoreAnswerUnlists ==
    /\ pc = "answers" /\ at <= Len(Order)
    /\ LET i == Order[at] IN
          /\ success' = (success \/ answer[i] = "success")
          /\ status' = [status EXCEPT ![i] =
               CASE answer[i] = "success" -> "up"
                 [] answer[i] = "refused" -> "failover"
                 [] answer[i] = "none" -> "down"]
          /\ apis' = IF answer[i] = "success" THEN Listed(apis, i) ELSE Unlisted(apis, i)
    /\ at' = at + 1
    /\ UNCHANGED <<instVars, disk, bad, snap, bpc, thr, pc, answer, reachable, failover, hcEvent,
                    hcSeen, pass, faults>>

\* then the status and the listing of every instance of the database: one that answered
\* stays listed, or is listed, even when it refused the configuration
StoreAnswer ==
    /\ pc = "answers" /\ at <= Len(Order)
    /\ LET i == Order[at] IN
          /\ success' = (success \/ answer[i] = "success")
          /\ status' = [status EXCEPT ![i] =
               CASE answer[i] = "success" -> "up"
                 [] answer[i] = "refused" -> "failover"
                 [] answer[i] = "none" -> "down"]
          /\ apis' = IF answer[i] # "none" THEN Listed(apis, i) ELSE Unlisted(apis, i)
    /\ at' = at + 1
    /\ UNCHANGED <<instVars, disk, bad, snap, bpc, thr, pc, answer, reachable, failover, hcEvent,
                    hcSeen, pass, faults>>
AnswersEnd ==
    /\ pc = "answers" /\ at > Len(Order)
    /\ reachable' = (apis # <<>>)
    /\ answer' = [i \in Instances |-> "none"]
    /\ pc' = "decide"
    /\ UNCHANGED <<instVars, listVars, disk, bad, snap, bpc, thr, success, failover, hcEvent, at,
                    hcSeen, pass, faults>>

\* set_metadata(failover), then: fail over when every answer was a refusal and the three
\* directories of the snapshot exist; back up when an instance reloaded, or when no reload
\* was tried (here: once the backup before has ended)
FailoverConfig == \A k \in Kinds : snap[k] # 0
\* mutants: a refused configuration is backed up; the custom configs are not sent back
DecideBacksUp ==
    /\ pc = "decide"
    /\ failover' = ~success
    /\ bpc = "idle" /\ bpc' = "queued"
    /\ pc' = "poll"
    /\ UNCHANGED <<instVars, listVars, disk, bad, snap, thr, success, reachable, hcEvent, at,
                    hcSeen, pass, answer, faults>>
DecideKeepsCustom ==
    /\ pc = "decide"
    /\ failover' = ~success
    /\ \/ /\ ~success /\ reachable /\ FailoverConfig
          /\ Submitted({"confs", "cache"}, "snap", {})
          /\ pc' = "failsend"
          /\ UNCHANGED bpc
       \/ /\ success \/ ~reachable
          /\ bpc = "idle" /\ bpc' = "queued"
          /\ pc' = "poll"
          /\ UNCHANGED thr
    /\ UNCHANGED <<instVars, listVars, disk, bad, snap, success, reachable, hcEvent, at,
                    hcSeen, pass, answer, faults>>
Decide ==
    /\ pc = "decide"
    /\ failover' = ~success
    /\ \/ /\ ~success /\ reachable /\ FailoverConfig
          /\ \A t \in Kinds : Finished(t)
          /\ Submitted(Kinds, "snap", {})
          /\ pc' = "failsend"
          /\ UNCHANGED bpc
       \/ /\ ~success /\ reachable => ~FailoverConfig
          /\ IF success /\ reachable THEN bpc = "idle" /\ bpc' = "queued" ELSE UNCHANGED bpc
          /\ pc' = "poll"
          /\ UNCHANGED thr
    /\ UNCHANGED <<instVars, listVars, disk, bad, snap, success, reachable, hcEvent, at,
                    hcSeen, pass, answer, faults>>

\* POST /reload with the failover configuration
FailoverReload ==
    /\ pc = "failsend"
    /\ \/ FuturesDone(Kinds) /\ Loads(Range(apis))
       \/ /\ \/ FutureRaised("confs", {})
             \/ FutureRaised("cache", {"confs"})
             \/ FutureRaised("custom_configs", {"confs", "cache"})
          /\ UNCHANGED <<running, loading>>
    /\ pc' = "poll"
    /\ UNCHANGED <<reach, files, listVars, disk, bad, snap, bpc, thr, success, reachable,
                    failover, hcEvent, at, hcSeen, pass, answer, faults>>
-----------------------------------------------------------------------------
(* The main thread: healthcheck_job, run in the poll loop *)

\* HEALTHCHECK_EVENT is set; when get_instances raises it is never cleared
HealthStart ==
    /\ pc = "poll" /\ ~hcEvent
    /\ hcEvent' = TRUE
    /\ at' = 1
    /\ hcSeen' = status
    /\ pc' = "health"
    /\ UNCHANGED <<instVars, listVars, disk, bad, snap, bpc, thr, success, reachable, failover,
                    pass, answer, faults>>
HealthError ==
    /\ "db" \in Faults
    /\ pc = "poll" /\ ~hcEvent
    /\ hcEvent' = TRUE
    /\ UNCHANGED <<instVars, listVars, disk, bad, snap, bpc, thr, pc, success, reachable,
                    failover, at, hcSeen, pass, answer, faults>>

\* GET /health: unreachable; loading (skipped in failover); or healthy, whatever it runs.  For
\* a loading instance the configuration is generated again, which may fail unnoticed.
HealthProbe ==
    /\ pc = "health" /\ at <= Len(Order)
    /\ LET i == Order[at] IN
          \/ /\ ~reach[i]
             /\ status' = [status EXCEPT ![i] = "down"]
             /\ apis' = Unlisted(apis, i)
             /\ at' = at + 1
             /\ UNCHANGED <<disk, thr, pc>>
          \/ /\ reach[i] /\ loading[i] /\ hcSeen[i] = "failover"
             /\ at' = at + 1
             /\ UNCHANGED <<listVars, disk, thr, pc>>
          \/ /\ reach[i] /\ loading[i] /\ hcSeen[i] # "failover"
             /\ \A t \in Kinds : Finished(t)
             /\ \/ disk' = [disk EXCEPT !["confs"] = pass]
                \/ "gen" \in Faults /\ UNCHANGED disk
             /\ Submitted(Kinds, "disk", {i})
             /\ pc' = "healthsend"
             /\ UNCHANGED <<listVars, at>>
          \/ /\ reach[i] /\ ~loading[i]
             /\ status' = [status EXCEPT ![i] = "up"]
             /\ apis' = Listed(apis, i)
             /\ at' = at + 1
             /\ UNCHANGED <<disk, thr, pc>>
    /\ UNCHANGED <<instVars, bad, snap, bpc, success, reachable, failover, hcEvent,
                    hcSeen, pass, answer, faults>>

\* the loading instance was sent everything: reload it; an exception of a sender unlists it
HealthReload ==
    /\ pc = "healthsend"
    /\ LET i == Order[at] IN
          \/ /\ FuturesDone(Kinds)
             /\ Loads({i})
             /\ IF reach[i] /\ Succeeds(i)
                THEN status' = [status EXCEPT ![i] = "up"] /\ apis' = Listed(apis, i)
                ELSE status' = [status EXCEPT ![i] = "loading"] /\ UNCHANGED apis
          \/ /\ \/ FutureRaised("custom_configs", {})
                \/ FutureRaised("confs", {"custom_configs"})
                \/ FutureRaised("cache", {"custom_configs", "confs"})
             /\ apis' = Unlisted(apis, i)
             /\ UNCHANGED <<running, loading, status>>
    /\ at' = at + 1
    /\ pc' = "health"
    /\ UNCHANGED <<reach, files, disk, bad, snap, bpc, thr, success, reachable, failover,
                    hcEvent, hcSeen, pass, answer, faults>>

\* mutant: HEALTHCHECK_EVENT stays set
HealthEndStuck ==
    /\ pc = "health" /\ at > Len(Order)
    /\ pc' = "poll"
    /\ UNCHANGED <<instVars, listVars, disk, bad, snap, bpc, thr, success, reachable, failover,
                    hcEvent, at, hcSeen, pass, answer, faults>>
HealthEnd ==
    /\ pc = "health" /\ at > Len(Order)
    /\ hcEvent' = FALSE
    /\ pc' = "poll"
    /\ UNCHANGED <<instVars, listVars, disk, bad, snap, bpc, thr, success, reachable, failover,
                    at, hcSeen, pass, answer, faults>>
-----------------------------------------------------------------------------
Init ==
    /\ reach = [i \in Instances |-> TRUE]
    /\ loading = [i \in Instances |-> FALSE]
    /\ disk = [k \in Kinds |-> 1]
    /\ files = [i \in Instances |-> disk]
    /\ running = files
    /\ apis = Order
    /\ status = [i \in Instances |-> "up"]
    /\ bad = {}
    /\ snap = disk
    /\ bpc = "idle"
    /\ thr = [t \in Kinds |-> [pc |-> "idle", at |-> 1, index |-> 0, src |-> "disk",
                                only |-> {}, got |-> {}]]
    /\ pc = "poll"
    /\ answer = [i \in Instances |-> "none"]
    /\ success = TRUE /\ reachable = TRUE /\ failover = FALSE
    /\ at = 1 /\ hcEvent = FALSE /\ hcSeen = status
    /\ pass = 1
    /\ faults = [i \in Instances |-> 0]

Sender(t) == ThrSend(t) \/ ThrIndex(t) \/ ThrStatus(t) \/ ThrApply(t)
Backup == BackupStart \/ \E k \in Kinds : BackupCopy(k)
Main ==
    \/ CustomSent \/ Generate \/ Sent \/ Reload \/ StoreAnswer \/ AnswersEnd \/ Decide
    \/ FailoverReload
    \/ HealthStart \/ HealthProbe \/ HealthReload \/ HealthEnd
Environment == \E i \in Instances : Lose(i) \/ Regain(i) \/ RestartInstance(i)

Next ==
    \/ Main \/ Change \/ HealthError \/ Backup
    \/ \E t \in Kinds : Sender(t)
    \/ Environment

\* the threads of the scheduler process do not block for good
Fairness == WF_vars(Main) /\ WF_vars(Backup) /\ \A t \in Kinds : WF_vars(Sender(t))

Spec == Init /\ [][Next]_vars /\ Fairness
-----------------------------------------------------------------------------
(* Properties *)

\* The failover configuration is a working one: outside of a backup, nginx refuses no part
\* of the snapshot.
SnapshotWorks == bpc = "idle" /\ FailoverConfig => \A k \in Kinds : <<k, snap[k]>> \notin bad

\* A failed pass ends with every listed instance holding, and running, the snapshot.
FailoverRestores ==
    pc = "poll" /\ failover /\ FailoverConfig =>
        \A i \in Range(apis) : files[i] = snap /\ running[i] = snap

\* An instance without any fault is listed, and gets the next configuration.
HealthyListed ==
    pc = "poll" => \A i \in Instances : faults[i] = 0 => i \in Range(apis)

\* An instance that stays reachable is, again and again, listed and out of its loading
\* configuration: the health check picks it up.
HealthyAgain ==
    \A i \in Instances : []<>(~reach[i] \/ (i \in Range(apis) /\ ~loading[i]))
=============================================================================
