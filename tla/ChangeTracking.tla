--------------------------- MODULE ChangeTracking ---------------------------
(***************************************************************************)
(* How a change made in the BunkerWeb database reaches the instances.      *)
(*                                                                         *)
(* Every writer (web UI, REST API, autoconf, scheduler jobs, the config    *)
(* saver) stores content in the database and raises a "changed" flag; the  *)
(* scheduler polls the flags (scheduler/main.py), re-reads what changed,   *)
(* runs jobs, generates and sends the configuration, and lowers the flags  *)
(* with Database.checked_changes.  Nothing but the flags couples them.     *)
(*                                                                         *)
(* Content is abstracted to a version number per area: the four metadata   *)
(* kinds, and the settings of each plugin (Plugins.config_changed is kept  *)
(* per plugin).  A request to rerun the jobs of a plugin also counts as a  *)
(* version of its settings.                                                *)
(***************************************************************************)
EXTENDS Naturals, FiniteSets

CONSTANTS
    Plugins,     \* plugins with settings in the database
    Waiters,     \* web UI edits: wait_applying, then flagged saves
    Autoconf,    \* the autoconf controller ({} or a singleton)
    ApiWriters,  \* REST API requests and the UI's run-job, cache and license
                 \* actions: a flagged save, no waiting
    JobWrites,   \* [Plugins -> SUBSET Meta]: what the jobs of a plugin store
    PortPlugins, \* plugins whose settings hold API_HTTP_PORT / API_SERVER_NAME
    Events,      \* which of AllEvents may happen
    Boot,        \* TRUE: start at process start, FALSE: start in the poll loop
    MaxWrites,   \* bound on saves and restarts together
    MaxRestarts  \* bound on restarts of the scheduler

Meta == {"custom_configs", "external_plugins", "pro_plugins", "instances"}
Areas == Meta \cup Plugins
Downloaded == {"external_plugins", "pro_plugins"}
Writers == Waiters \cup Autoconf

(***************************************************************************)
(* ui_timeout: wait_applying of the UI gives up after 120 s and goes on;   *)
(* save_error: save_config returns an error to autoconf; generator: the    *)
(* config generator exits with an error; hup: SIGHUP runs the config       *)
(* saver; template: a saved service uses a template, or was removed, and   *)
(* save_config flags the custom configs too; removal: the same in the      *)
(* save_config of autoconf, which asks for no flag.                        *)
(***************************************************************************)
AllEvents == {"ui_timeout", "save_error", "generator", "hup", "template", "removal"}

ASSUME ChangeTrackingAssumption ==
    /\ Plugins \cap Meta = {}
    /\ Waiters \cap Autoconf = {}
    /\ JobWrites \in [Plugins -> SUBSET Downloaded]
    /\ PortPlugins \subseteq Plugins
    /\ Events \subseteq AllEvents
    /\ Boot \in BOOLEAN
    /\ MaxWrites \in Nat
    /\ MaxRestarts \in Nat

VARIABLES
    db, flag,            \* database: content version and changed flag of an area
    seen,                \* scheduler: version last read and generated on its disk
    env,                 \* scheduler: settings last read with get_config
    ran,                 \* scheduler: version the jobs of an area last ran with
    live,                \* version the instances were last reloaded with
    need,                \* the *_NEED_GENERATION / RUN_JOBS_ONCE flags of main.py
    CHANGES,             \* the list handed to checked_changes
    changed_plugins,     \* plugins whose jobs run in this pass ({}: all)
    first,               \* FIRST_START
    ret,                 \* outcome of the last generate_configs
    pc,                  \* where the main thread is
    wst, acLeft, acFlags, \* writers: state; what autoconf still saves and flags
    torn,                \* the custom config files on the scheduler's disk are incomplete
    writes, restarts,    \* bound counters
    owed, undone, cut    \* history: version of an area when a poll saw its flag; areas
                         \* where a start of the scheduler took back such a change; a
                         \* restart came before custom configs that a pass was to write
                         \* were written

dbVars == <<db, flag>>
schedVars == <<seen, env, ran, live, need, CHANGES, changed_plugins, first, ret, pc>>
lossVars == <<torn, undone, cut>>
writerVars == <<wst, acLeft, acFlags>>
vars == <<dbVars, schedVars, writerVars, writes, restarts, owed, lossVars>>

JobAreas == Plugins \cup Downloaded
Kinds == Meta \cup {"config"}
Flags == Kinds \cup {"jobs"}
Pcs == {"start", "boot_env", "instances", "custom_configs", "external_plugins",
        "pro_plugins", "config", "boot_saver", "boot_jobs", "boot_meta", "loop",
        "jobs", "gen", "deploy", "check", "poll"}

TypeOK ==
    /\ db \in [Areas -> Nat]
    /\ flag \in [Areas -> BOOLEAN]
    /\ seen \in [Areas -> Nat]
    /\ env \in [Plugins -> Nat]
    /\ ran \in [JobAreas -> Nat]
    /\ live \in [Areas -> Nat]
    /\ need \subseteq Flags
    /\ CHANGES \subseteq Kinds
    /\ changed_plugins \subseteq Plugins
    /\ first \in BOOLEAN
    /\ ret \in BOOLEAN
    /\ pc \in Pcs
    /\ wst \in [Writers -> {"idle", "ready", "edit", "saving", "failed"}]
    /\ acLeft \subseteq Areas
    /\ acFlags \subseteq Areas
    /\ writes \in Nat
    /\ restarts \in Nat
    /\ owed \in [Areas -> Nat]
    /\ torn \in BOOLEAN
    /\ undone \subseteq Areas
    /\ cut \in BOOLEAN

-----------------------------------------------------------------------------
(* Database *)

Bump(S) == db' = [a \in Areas |-> IF a \in S THEN db[a] + 1 ELSE db[a]]
Raise(S) == flag' = [a \in Areas |-> a \in S \/ flag[a]]

\* save_config, save_custom_configs, upsert_custom_config, update_external_plugins,
\* add_instance, ... with changed=True: content and flags in one transaction
Save(S) == Bump(S) /\ Raise(S)

\* checked_changes(changes, plugins_changes, value): an empty list means every kind
CheckedAreas(changes, plugins) ==
    (IF changes = {} THEN Meta ELSE changes \cap Meta) \cup plugins
CheckedChanges(changes, plugins, value) ==
    flag' = [a \in Areas |-> IF a \in CheckedAreas(changes, plugins) THEN value ELSE flag[a]]

\* have_to_wait / wait_applying: no flag at all is raised
NoFlag == \A a \in Areas : ~flag[a]

\* what one save of the UI or of the API covers
SaveSets ==
    {{m} : m \in Meta \ {"pro_plugins"}} \cup (SUBSET Plugins \ {{}})
    \cup (IF "template" \in Events
          THEN {P \cup {"custom_configs"} : P \in SUBSET Plugins \ {{}}}
          ELSE {})

CanWrite == writes + restarts < MaxWrites
Count == writes' = writes + 1
-----------------------------------------------------------------------------
(* Writers *)

\* ui/app/routes/utils.py wait_applying, returning because no flag is raised
\* or, after 120 s, all the same
UIWaitApplying(u) ==
    /\ wst[u] = "idle" /\ CanWrite
    /\ NoFlag \/ "ui_timeout" \in Events
    /\ wst' = [wst EXCEPT ![u] = "ready"]
    /\ UNCHANGED <<dbVars, schedVars, acLeft, acFlags, writes, restarts, owed, lossVars>>

UISave(u) ==
    /\ wst[u] = "ready" /\ CanWrite
    /\ \E S \in SaveSets :
          /\ Save(S)
          /\ \/ wst' = [wst EXCEPT ![u] = "idle"]
             \/ S \cap Plugins # {} /\ wst' = [wst EXCEPT ![u] = "edit"]
    /\ Count
    /\ UNCHANGED <<schedVars, acLeft, acFlags, restarts, owed, lossVars>>

\* update_service: the custom configs of the service are saved after its settings
UISaveCustom(u) ==
    /\ wst[u] = "edit"
    /\ Save({"custom_configs"})
    /\ wst' = [wst EXCEPT ![u] = "idle"]
    /\ UNCHANGED <<schedVars, acLeft, acFlags, writes, restarts, owed, lossVars>>

\* api/app/routers: save at once
ApiSave(x) ==
    /\ CanWrite
    /\ \E S \in SaveSets : Save(S)
    /\ Count
    /\ UNCHANGED <<schedVars, writerVars, restarts, owed, lossVars>>

\* Config.apply after wait_applying (which raises on timeout): the areas that differ
AcApply(c) ==
    /\ wst[c] = "idle" /\ CanWrite /\ NoFlag
    /\ \E S \in SUBSET ({"instances", "custom_configs"} \cup Plugins) :
          /\ acLeft' = S
          /\ acFlags' = S
    /\ wst' = [wst EXCEPT ![c] = "saving"]
    /\ Count
    /\ UNCHANGED <<dbVars, schedVars, restarts, owed, lossVars>>

\* the next of update_instances, save_config, save_custom_configs, with changed=False;
\* a save_config that removes services flags the custom configs all the same
AcStage ==
    IF "instances" \in acLeft THEN {"instances"}
    ELSE IF acLeft \cap Plugins # {} THEN acLeft \cap Plugins
    ELSE acLeft
AcSave(c) ==
    /\ wst[c] = "saving" /\ acLeft # {}
    /\ Bump(AcStage)
    /\ \/ UNCHANGED flag
       \/ "removal" \in Events /\ AcStage \cap Plugins # {} /\ Raise({"custom_configs"})
    /\ acLeft' = acLeft \ AcStage
    /\ UNCHANGED <<schedVars, wst, acFlags, writes, restarts, owed, lossVars>>

\* save_config returns an error string, which becomes changed_plugins
AcSaveError(c) ==
    /\ "save_error" \in Events
    /\ wst[c] = "saving"
    /\ AcStage \cap Plugins # {}
    /\ acLeft' = acLeft \ Plugins
    /\ wst' = [wst EXCEPT ![c] = "failed"]
    /\ UNCHANGED <<dbVars, schedVars, acFlags, writes, restarts, owed, lossVars>>

\* save_custom_configs after a failed save_config
AcSaveAfterError(c) ==
    /\ wst[c] = "failed" /\ acLeft # {}
    /\ Bump(acLeft)
    /\ acLeft' = {}
    /\ UNCHANGED <<flag, schedVars, wst, acFlags, writes, restarts, owed, lossVars>>

\* the list "changes": kinds, with "config" when settings differ
AcChanges == (acFlags \cap Meta) \cup (IF acFlags \cap Plugins = {} THEN {} ELSE {"config"})

\* mutant: the flags of the plugins are forgotten
AcCheckedKindsOnly(c) ==
    /\ acLeft = {}
    /\ \/ wst[c] = "saving" /\ CheckedChanges(AcChanges, {}, TRUE)
       \/ wst[c] = "failed" /\ UNCHANGED flag
    /\ acFlags' = {}
    /\ wst' = [wst EXCEPT ![c] = "idle"]
    /\ UNCHANGED <<db, schedVars, acLeft, writes, restarts, owed, lossVars>>

\* the closing checked_changes(changes, changed_plugins, value=True); with an error
\* string for changed_plugins the query is refused and no flag is raised
AcChecked(c) ==
    /\ acLeft = {}
    /\ \/ wst[c] = "saving" /\ CheckedChanges(AcChanges, acFlags \cap Plugins, TRUE)
       \/ wst[c] = "failed" /\ UNCHANGED flag
    /\ acFlags' = {}
    /\ wst' = [wst EXCEPT ![c] = "idle"]
    /\ UNCHANGED <<db, schedVars, acLeft, writes, restarts, owed, lossVars>>
-----------------------------------------------------------------------------
(* Scheduler: process start *)

\* common/gen/save_config.py: stores the environment, then flags instances, custom
\* configs and the plugins whose settings differ.  D: the areas whose content differs.
ConfigSaver(D) == Bump(D) /\ Raise({"instances", "custom_configs"} \cup D)
SaverSets == SUBSET ({"instances", "custom_configs"} \cup Plugins)
CountIf(D) == (D = {} \/ CanWrite) /\ writes' = IF D = {} THEN writes ELSE writes + 1

\* the config saver of the first run
StartSaver ==
    /\ pc = "start"
    /\ \E D \in SaverSets : ConfigSaver(D) /\ CountIf(D)
    /\ pc' = "boot_env"
    /\ UNCHANGED <<seen, env, ran, live, need, CHANGES, changed_plugins, first, ret,
                    writerVars, restarts, owed, lossVars>>

\* mutants: the environment is not re-read; it takes in every area
ReadEnvStale == UNCHANGED env
ReadEnvAll == env' = [a \in Areas |-> db[a]]
ReadEnv == env' = [p \in Plugins |-> db[p]]

BootEnv ==
    /\ pc = "boot_env"
    /\ ReadEnv
    /\ pc' = "instances"
    /\ UNCHANGED <<dbVars, seen, ran, live, need, CHANGES, changed_plugins, first, ret,
                    writerVars, writes, restarts, owed, lossVars>>

\* the kinds are read in this order, at the start and in a pass
After == [k \in Meta |-> CASE k = "instances" -> "custom_configs"
                           [] k = "custom_configs" -> "external_plugins"
                           [] k = "external_plugins" -> "pro_plugins"
                           [] k = "pro_plugins" -> IF first THEN "boot_saver" ELSE "config"]

\* What the scheduler finds on its disk at the start, it takes for the user's.  A custom
\* config that was stored after its file was written, or a file that is missing because
\* writing them was cut off, is overwritten, or deleted, when the files are stored.
\* Plugins the database does not know (the user's, or removed or installed when the
\* scheduler died) are stored as all there are, so that the others are deleted.
OnDisk == {"custom_configs", "external_plugins"}
Overwrites(k) ==
    /\ k \in OnDisk /\ owed[k] > 0
    /\ k = "custom_configs" => torn \/ owed[k] > seen[k]

\* check_configs_changes, check_plugin_changes: the files on disk, where they differ, are
\* stored, flagged; then they are generated from the database
CheckDisk(k) ==
    /\ pc = k /\ first
    /\ \/ UNCHANGED <<dbVars, undone>>
       \/ Save({k}) /\ undone' \in {undone} \cup IF Overwrites(k) THEN {undone \cup {k}} ELSE {}
    /\ seen' = [seen EXCEPT ![k] = db'[k]]
    /\ torn' = (torn /\ k # "custom_configs")
    /\ pc' = After[k]
    /\ UNCHANGED <<env, ran, live, need, CHANGES, changed_plugins, first, ret, writerVars,
                    writes, restarts, owed, cut>>

\* the config saver if plugin files were restored, and what it leaves is read
ReadSaved == env' = [p \in Plugins |-> db'[p]]
BootSaver ==
    /\ pc = "boot_saver"
    /\ \/ (\E D \in SaverSets : ConfigSaver(D) /\ CountIf(D)) /\ ReadSaved
       \/ UNCHANGED <<dbVars, writes, env>>
    /\ pc' = "boot_jobs"
    /\ UNCHANGED <<seen, ran, live, need, CHANGES, changed_plugins, first, ret, writerVars,
                    restarts, owed, lossVars>>

\* run_once(["misc", "pro"])
BootJobs ==
    /\ pc = "boot_jobs"
    /\ \E W \in SUBSET UNION {JobWrites[p] : p \in Plugins} : Save(W) /\ CountIf(W)
    /\ ran' = [a \in JobAreas |->
                 IF a \in Plugins /\ JobWrites[a] # {} THEN env[a] ELSE ran[a]]
    /\ pc' = "boot_meta"
    /\ UNCHANGED <<seen, env, live, need, CHANGES, changed_plugins, first, ret, writerVars,
                    restarts, owed, lossVars>>

\* a second look at the flags, for what the download jobs stored; then the config saver
BootMeta ==
    /\ pc = "boot_meta"
    /\ LET fresh == {a \in Downloaded : flag[a]} IN
          /\ seen' = [a \in Areas |-> IF a \in fresh THEN db[a] ELSE seen[a]]
          /\ \/ fresh # {} /\ (\E D \in SaverSets : ConfigSaver(D) /\ CountIf(D)) /\ ReadSaved
             \/ fresh = {} /\ UNCHANGED <<dbVars, writes, env>>
    /\ pc' = "loop"
    /\ UNCHANGED <<ran, live, need, CHANGES, changed_plugins, first, ret, writerVars,
                    restarts, owed, lossVars>>
-----------------------------------------------------------------------------
(* Scheduler: one pass of the main loop *)

\* read one kind from the database, write it on disk and send it
Generate(k) ==
    /\ pc = k /\ (first => k = "instances")
    /\ seen' = IF k \in need THEN [seen EXCEPT ![k] = db[k]] ELSE seen
    /\ pc' = After[k]
    /\ UNCHANGED <<dbVars, env, ran, live, need, CHANGES, changed_plugins, first, ret,
                    writerVars, writes, restarts, owed, lossVars>>

\* env = get_config(); when the API port or server name differs the instances are
\* rewritten with their flag
ReadConfig ==
    /\ pc = "config"
    /\ ReadEnv
    /\ IF \E p \in PortPlugins : env'[p] # env[p]
       THEN Save({"instances"})
       ELSE UNCHANGED dbVars
    /\ pc' = "loop"
    /\ UNCHANGED <<seen, ran, live, need, CHANGES, changed_plugins, first, ret, writerVars,
                    writes, restarts, owed, lossVars>>

\* generate_configs reads the settings again, in a process of its own
GenerateConfigs == seen' = [a \in Areas |-> IF a \in Plugins THEN db[a] ELSE seen[a]]

\* first start with known instances: generate, send and reload before any job
LoopTop ==
    /\ pc = "loop"
    /\ \/ first /\ GenerateConfigs /\ live' = seen'
       \/ UNCHANGED <<seen, live>>
    /\ pc' = "jobs"
    /\ UNCHANGED <<dbVars, env, ran, need, CHANGES, changed_plugins, first, ret, writerVars,
                    writes, restarts, owed, lossVars>>

\* JobScheduler.reload -> run_once(changed_plugins, ignore_plugins): misc and pro, the
\* plugins whose jobs store plugins, are left out on the first start
Scope ==
    LET all == IF first THEN {p \in Plugins : JobWrites[p] = {}} ELSE Plugins
    IN  IF changed_plugins = {} THEN all ELSE all \cap changed_plugins
RunJobs ==
    /\ pc = "jobs"
    /\ \/ /\ "jobs" \in need
          /\ ran' = [a \in JobAreas |->
                 IF a \in Scope THEN env[a]
                 ELSE IF a \in Downloaded /\ changed_plugins = {} THEN seen[a]
                 ELSE ran[a]]
          /\ \E W \in SUBSET UNION {JobWrites[p] : p \in Scope} :
                Save(W) /\ CountIf(W)
       \/ "jobs" \notin need /\ UNCHANGED <<ran, dbVars, writes>>
    /\ pc' = "gen"
    /\ UNCHANGED <<seen, env, live, need, CHANGES, changed_plugins, first, ret, writerVars,
                    restarts, owed, lossVars>>

Gen ==
    /\ pc = "gen"
    /\ \/ "config" \in need /\ GenerateConfigs /\ ret' = TRUE
       \/ "generator" \in Events /\ ret' = FALSE /\ UNCHANGED seen
    /\ pc' = "deploy"
    /\ UNCHANGED <<dbVars, env, ran, live, need, CHANGES, changed_plugins, first,
                    writerVars, writes, restarts, owed, lossVars>>

\* send /confs and /cache, POST /reload
Deploy ==
    /\ pc = "deploy"
    /\ live' = seen
    /\ pc' = "check"
    /\ UNCHANGED <<dbVars, seen, env, ran, need, CHANGES, changed_plugins, first, ret,
                    writerVars, writes, restarts, owed, lossVars>>

\* mutant: the plugins are left out
CheckKindsOnly ==
    /\ pc = "check"
    /\ CheckedChanges(CHANGES, {}, FALSE)
    /\ need' = {} /\ changed_plugins' = {} /\ first' = FALSE /\ pc' = "poll"
    /\ UNCHANGED <<db, seen, env, ran, live, CHANGES, ret, writerVars, writes, restarts,
                    owed, lossVars>>
\* checked_changes(CHANGES, plugins_changes="all") and the reset of the loop's flags
Check ==
    /\ pc = "check"
    /\ CheckedChanges(CHANGES, Plugins, FALSE)
    /\ need' = {}
    /\ changed_plugins' = {}
    /\ first' = FALSE
    /\ pc' = "poll"
    /\ UNCHANGED <<db, seen, env, ran, live, CHANGES, ret, writerVars, writes, restarts,
                    owed, lossVars>>

\* mutant: the files of a changed plugin are not regenerated
NeedsNoFiles(a) ==
    CASE a = "instances" -> Kinds
      [] a = "custom_configs" -> {"custom_configs", "config"}
      [] OTHER -> {"config", "jobs"}

\* what a raised flag asks for
Needs(a) ==
    CASE a = "instances" -> Kinds
      [] a = "custom_configs" -> {"custom_configs", "config"}
      [] a \in Downloaded -> {a, "config", "jobs"}
      [] a \in Plugins -> {"config", "jobs"}

\* get_metadata, then the flags of the loop and CHANGES
Poll ==
    /\ pc = "poll" /\ ~NoFlag
    /\ need' = need \cup UNION {Needs(a) : a \in {x \in Areas : flag[x]}}
    /\ CHANGES' = need' \ {"jobs"}
    /\ LET P == {p \in Plugins : flag[p]} IN
          changed_plugins' = IF P = {} THEN changed_plugins ELSE P
    /\ owed' = [a \in Areas |-> IF flag[a] THEN db[a] ELSE owed[a]]
    /\ pc' = "instances"
    /\ UNCHANGED <<dbVars, seen, env, ran, live, first, ret, writerVars, writes, restarts,
                    lossVars>>

\* run_pending inside the poll loop: a periodic job stores plugins
PeriodicJob ==
    /\ pc = "poll" /\ CanWrite
    /\ \E W \in SUBSET UNION {JobWrites[p] : p \in Plugins} : W # {} /\ Save(W)
    /\ Count
    /\ UNCHANGED <<schedVars, writerVars, restarts, owed, lossVars>>

\* handle_reload (SIGHUP): the config saver, wherever the main thread is
HandleReload ==
    /\ "hup" \in Events /\ CanWrite /\ pc # "start"
    /\ \E D \in SaverSets : ConfigSaver(D)
    /\ Count
    /\ UNCHANGED <<schedVars, writerVars, restarts, owed, lossVars>>

\* a pass that was to write the custom configs has not: all of the old ones are there,
\* or some files have been removed and not yet written
CutOff ==
    LET writing == "custom_configs" \in need /\ pc = "custom_configs" IN
    /\ torn' \in {torn} \cup IF writing THEN {TRUE} ELSE {}
    /\ cut' = (cut \/ writing \/ ("custom_configs" \in need /\ pc = "instances"))

\* mutant: what was being read when the process died is not read again
RestartConfigOnly ==
    /\ restarts < MaxRestarts /\ CanWrite
    /\ restarts' = restarts + 1
    /\ pc' = "start"
    /\ first' = TRUE
    /\ need' = {"config", "jobs"}
    /\ CHANGES' = {}
    /\ changed_plugins' = {}
    /\ CutOff
    /\ UNCHANGED <<dbVars, seen, env, ran, live, ret, writerVars, writes, owed, undone>>

\* the process is stopped or dies, and is started again: FIRST_START,
\* CONFIG_NEED_GENERATION and RUN_JOBS_ONCE are set and CHANGES is empty
Restart ==
    /\ restarts < MaxRestarts /\ CanWrite
    /\ restarts' = restarts + 1
    /\ pc' = "start"
    /\ first' = TRUE
    /\ need' = Flags
    /\ CHANGES' = {}
    /\ changed_plugins' = {}
    /\ CutOff
    /\ UNCHANGED <<dbVars, seen, env, ran, live, ret, writerVars, writes, owed, undone>>
-----------------------------------------------------------------------------
Init ==
    /\ db = [a \in Areas |-> 0]
    /\ flag = [a \in Areas |-> FALSE]
    /\ seen = [a \in Areas |-> 0]
    /\ env = [p \in Plugins |-> 0]
    /\ ran = [a \in JobAreas |-> 0]
    /\ live = [a \in Areas |-> 0]
    /\ need = IF Boot THEN Flags ELSE {}
    /\ CHANGES = {}
    /\ changed_plugins = {}
    /\ first = Boot
    /\ ret = TRUE
    /\ pc = IF Boot THEN "start" ELSE "poll"
    /\ wst = [w \in Writers |-> "idle"]
    /\ acLeft = {}
    /\ acFlags = {}
    /\ writes = 0
    /\ restarts = 0
    /\ owed = [a \in Areas |-> 0]
    /\ torn = FALSE /\ undone = {} /\ cut = FALSE

\* the main thread of the scheduler
Scheduler ==
    \/ StartSaver \/ BootEnv \/ BootSaver \/ BootJobs \/ BootMeta
    \/ \E k \in Meta : Generate(k)
    \/ \E k \in Meta \ {"instances"} : CheckDisk(k)
    \/ ReadConfig \/ LoopTop \/ RunJobs \/ Gen \/ Deploy \/ Check \/ Poll

AutoconfStep(c) == AcSave(c) \/ AcSaveError(c) \/ AcSaveAfterError(c) \/ AcChecked(c)

Next ==
    \/ \E u \in Waiters : UIWaitApplying(u) \/ UISave(u) \/ UISaveCustom(u)
    \/ \E x \in ApiWriters : ApiSave(x)
    \/ \E c \in Autoconf : AcApply(c) \/ AutoconfStep(c)
    \/ Scheduler
    \/ PeriodicJob \/ HandleReload \/ Restart

\* the main thread never blocks for good, and a Config.apply that started ends
Fairness ==
    /\ WF_vars(Scheduler)
    /\ \A c \in Autoconf : WF_vars(AutoconfStep(c))

Spec == Init /\ [][Next]_vars /\ Fairness
-----------------------------------------------------------------------------
(* Properties *)

Quiescent == pc = "poll" /\ NoFlag /\ \A c \in Autoconf : wst[c] \in {"idle", "ready"}

\* No lost change: when the scheduler is back in its poll loop, no flag is raised and
\* autoconf is not in the middle of a Config.apply, the instances run the content that
\* the database holds.  (checked_changes lowers flags that it did not read.)
QuiescentIsLive == Quiescent => live = db

\* The same for jobs: the last run of the jobs of a plugin saw the settings, and the
\* plugin files, that are deployed (run_once is restricted to changed_plugins).
JobsFollowChanges == Quiescent => \A a \in JobAreas : ran[a] = live[a]

\* Whoever writes and whenever: a change whose flag a poll saw is deployed when the main
\* loop polls again, unless the generator failed.  A start of the scheduler takes back
\* none of the settings and instances, external plugins perhaps, and custom configs only
\* where the scheduler was stopped before it had written those it was to write.
PolledChangeDeployed ==
    /\ pc = "poll" /\ ret => \A a \in Areas : owed[a] <= live[a]
    /\ \A a \in undone : a = "external_plugins" \/ (a = "custom_configs" /\ cut)

\* The inductive form of PolledChangeDeployed.  UpTo(a): the places of the main thread
\* from which area a is still read in this pass; a failed generator leaves settings behind
\* until the next pass.  LossInv: custom configs that a poll saw and that are not on disk
\* are about to be written, or a restart kept them from it.
UpTo(a) ==
    IF a \in Plugins THEN Pcs \ {"deploy", "check", "poll"}
    ELSE {"start", "boot_env", "instances"}
         \cup (IF a # "instances" THEN {"custom_configs"} ELSE {})
         \cup (IF a \in Downloaded THEN {"external_plugins"} ELSE {})
         \cup (IF a = "pro_plugins" THEN {"pro_plugins"} ELSE {})
Owing(a) ==
    \/ owed[a] <= live[a]
    \/ owed[a] <= seen[a] /\ pc \notin {"check", "poll"}
    \/ a \in Meta /\ a \in need /\ pc \in UpTo(a)
    \/ a \in Plugins /\ (pc \in UpTo(a) \/ ~ret)
PollInv ==
    /\ \A a \in Areas : live[a] <= seen[a] /\ seen[a] <= db[a] /\ owed[a] <= db[a]
    /\ pc = "check" => live = seen
    /\ pc # "poll" => "config" \in need
    /\ \A a \in Areas : Owing(a)
LossInv ==
    /\ pc = "poll" => ~first
    /\ undone \subseteq OnDisk
    /\ "custom_configs" \in undone \/ torn => cut
    /\ owed["custom_configs"] > seen["custom_configs"] =>
          \/ cut
          \/ ~first /\ "custom_configs" \in need /\ pc \in {"instances", "custom_configs"}

\* Change tracking implements the delivery of changes: the instances only ever run content
\* that was stored, never go back to older content (a restarted scheduler with files of an
\* earlier pass included), and what a poll accepted runs when the pass ends; only a start
\* takes back accepted changes, and only those of files on the scheduler's disk.
Delivery == INSTANCE ChangeDelivery WITH
    phase <- CASE pc = "poll" -> IF ret THEN "delivered" ELSE "failed"
               [] pc # "poll" -> IF first THEN "start" ELSE "busy"
ImplementsDelivery == Delivery!Spec

\* Every raised flag is lowered again: the scheduler does not starve a kind of change,
\* and writers that wait_applying are released.
FlagsLowered == \A a \in Areas : flag[a] ~> ~flag[a]

\* Saves are finitely many here: the instances end up with what the database holds.
Converges == <>[](live = db)
=============================================================================
