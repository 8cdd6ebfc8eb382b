----------------------- MODULE ChangeTracking_proofs -----------------------
(***************************************************************************)
(* Proofs about ChangeTracking: type correctness; the guarantee that a     *)
(* polled change is deployed, whoever else writes and whenever; the        *)
(* refinement of ChangeDelivery; and that no change at all is lost where   *)
(* the autoconf controller is the only writer.                             *)
(***************************************************************************)
EXTENDS ChangeTracking, TLAPS

USE ChangeTrackingAssumption

\* What a save leaves in the two database functions, whatever it saves.
LEMMA SaveTypes ==
    ASSUME TypeOK, NEW S, Save(S)
    PROVE  db' \in [Areas -> Nat] /\ flag' \in [Areas -> BOOLEAN]
<1>1. db' \in [Areas -> Nat]
  BY DEF Save, Bump, TypeOK
<1>2. flag' \in [Areas -> BOOLEAN]
  BY DEF Save, Raise
<1>3. QED
  BY <1>1, <1>2

\* Type correctness of every variable, for all sets of plugins and writers and all events.
THEOREM TypeCorrect == Spec => []TypeOK
<1>1. Init => TypeOK
  <2> SUFFICES ASSUME Init PROVE TypeOK
    OBVIOUS
  <2>1. need \subseteq Flags /\ CHANGES \subseteq Kinds /\ pc \in Pcs
    BY DEF Init, Flags, Kinds, Pcs
  <2>2. torn \in BOOLEAN /\ undone \subseteq Areas /\ cut \in BOOLEAN
    BY DEF Init
  <2> QED BY <2>1, <2>2 DEF Init, TypeOK
<1>2. TypeOK /\ [Next]_vars => TypeOK'
  <2> SUFFICES ASSUME TypeOK, [Next]_vars PROVE TypeOK'
    OBVIOUS
  <2> USE DEF TypeOK
  <2>1. CASE \E u \in Waiters : UIWaitApplying(u) \/ UISave(u) \/ UISaveCustom(u)
    <3> PICK u \in Waiters : UIWaitApplying(u) \/ UISave(u) \/ UISaveCustom(u)
      BY <2>1
    <3>1. CASE UIWaitApplying(u)
      BY <3>1 DEF UIWaitApplying, Writers, dbVars, schedVars, lossVars
    <3>2. CASE UISave(u)
      <4>1. db' \in [Areas -> Nat] /\ flag' \in [Areas -> BOOLEAN]
        BY <3>2, SaveTypes DEF UISave
      <4>2. wst' \in [Writers -> {"idle", "ready", "edit", "saving", "failed"}]
        BY <3>2 DEF UISave, Writers
      <4>3. QED
        BY <3>2, <4>1, <4>2 DEF UISave, Count, schedVars, lossVars
    <3>3. CASE UISaveCustom(u)
      BY <3>3, SaveTypes DEF UISaveCustom, Writers, schedVars, lossVars
    <3>4. QED
      BY <3>1, <3>2, <3>3
  <2>2. CASE \E x \in ApiWriters : ApiSave(x)
    BY <2>2 DEF ApiSave, Save, Bump, Raise, Count, schedVars, writerVars, lossVars
  <2>3. CASE \E c \in Autoconf : AcApply(c)
    BY <2>3 DEF AcApply, Count, Writers, dbVars, schedVars, Areas, Meta, lossVars
  <2>4. CASE \E c \in Autoconf : AutoconfStep(c)
    <3> PICK c \in Autoconf : AutoconfStep(c)
      BY <2>4
    <3>1. CASE AcSave(c)
      <4>1. db' \in [Areas -> Nat]
        BY <3>1 DEF AcSave, Bump
      <4>2. flag' \in [Areas -> BOOLEAN]
        BY <3>1 DEF AcSave, Raise
      <4>3. QED
        BY <3>1, <4>1, <4>2 DEF AcSave, schedVars, lossVars
    <3>2. CASE AcSaveError(c)
      BY <3>2 DEF AcSaveError, Writers, dbVars, schedVars, lossVars
    <3>3. CASE AcSaveAfterError(c)
      BY <3>3 DEF AcSaveAfterError, Bump, schedVars, lossVars
    <3>4. CASE AcChecked(c)
      <4>1. flag' \in [Areas -> BOOLEAN]
        BY <3>4 DEF AcChecked, CheckedChanges
      <4>2. QED
        BY <3>4, <4>1 DEF AcChecked, Writers, schedVars, lossVars
    <3>5. QED
      BY <3>1, <3>2, <3>3, <3>4 DEF AutoconfStep
  <2>5. CASE StartSaver
    BY <2>5 DEF StartSaver, ConfigSaver, Bump, Raise, CountIf, Pcs, writerVars, lossVars
  <2>6. CASE BootEnv
    BY <2>6 DEF BootEnv, ReadEnv, Pcs, dbVars, writerVars, lossVars, Areas
  <2>7. CASE BootJobs
    BY <2>7 DEF BootJobs, Save, Bump, Raise, CountIf, Pcs, writerVars, lossVars, Areas, JobAreas
  <2>8. CASE BootMeta \/ BootSaver
    <3>1. db' \in [Areas -> Nat] /\ flag' \in [Areas -> BOOLEAN] /\ writes' \in Nat
      <4>1. CASE UNCHANGED <<dbVars, writes>>
        BY <4>1 DEF dbVars
      <4>2. CASE \E D \in SaverSets : ConfigSaver(D) /\ CountIf(D)
        BY <4>2 DEF ConfigSaver, Bump, Raise, CountIf
      <4> QED BY <2>8, <4>1, <4>2 DEF BootMeta, BootSaver
    <3>2. env' \in [Plugins -> Nat]
      BY <2>8, <3>1 DEF BootMeta, BootSaver, ReadSaved, Areas
    <3>3. seen' \in [Areas -> Nat]
      BY <2>8 DEF BootMeta, BootSaver
    <3>4. QED
      BY <2>8, <3>1, <3>2, <3>3 DEF BootMeta, BootSaver, Pcs, writerVars, lossVars
  <2>9. CASE \E k \in Meta \ {"instances"} : CheckDisk(k)
    <3> PICK k \in Meta \ {"instances"} : CheckDisk(k)
      BY <2>9
    <3>1. db' \in [Areas -> Nat] /\ flag' \in [Areas -> BOOLEAN]
      BY SaveTypes DEF CheckDisk, dbVars
    <3>2. k \in Areas /\ undone' \subseteq Areas
      BY DEF CheckDisk, Areas
    <3>3. seen' \in [Areas -> Nat] /\ torn' \in BOOLEAN
      BY <3>1, <3>2 DEF CheckDisk
    <3>4. pc' \in Pcs
      BY DEF CheckDisk, After, Meta, Pcs
    <3>5. QED
      BY <3>1, <3>2, <3>3, <3>4 DEF CheckDisk, writerVars
  <2>22. CASE \E k \in Meta : Generate(k)
    BY <2>22 DEF Generate, After, Meta, Areas, Pcs, dbVars, writerVars, lossVars
  <2>10. CASE ReadConfig
    <3>1. db' \in [Areas -> Nat] /\ flag' \in [Areas -> BOOLEAN]
      BY <2>10, SaveTypes DEF ReadConfig, dbVars
    <3>2. env' \in [Plugins -> Nat]
      BY <2>10 DEF ReadConfig, ReadEnv, Areas
    <3>3. QED
      BY <2>10, <3>1, <3>2 DEF ReadConfig, Pcs, writerVars, lossVars
  <2>11. CASE LoopTop
    BY <2>11 DEF LoopTop, GenerateConfigs, Pcs, dbVars, writerVars, lossVars
  <2>12. CASE RunJobs
    <3>1. ran' \in [JobAreas -> Nat]
      BY <2>12 DEF RunJobs, Scope, JobAreas, Areas, Downloaded, Meta
    <3>2. db' \in [Areas -> Nat] /\ flag' \in [Areas -> BOOLEAN]
      BY <2>12, SaveTypes DEF RunJobs, dbVars
    <3>3. writes' \in Nat
      BY <2>12 DEF RunJobs, CountIf
    <3>4. QED
      BY <2>12, <3>1, <3>2, <3>3 DEF RunJobs, Pcs, writerVars, lossVars
  <2>13. CASE Gen
    BY <2>13 DEF Gen, GenerateConfigs, Pcs, dbVars, writerVars, lossVars
  <2>14. CASE Deploy
    BY <2>14 DEF Deploy, Pcs, dbVars, writerVars, lossVars
  <2>15. CASE Check
    BY <2>15 DEF Check, CheckedChanges, Pcs, writerVars, lossVars
  <2>16. CASE Poll
    <3>1. \A a \in Areas : Needs(a) \subseteq Flags
      BY DEF Needs, Areas, Meta, Downloaded, Flags, Kinds
    <3>2. need' \subseteq Flags /\ CHANGES' \subseteq Kinds
      BY <2>16, <3>1 DEF Poll, Flags
    <3>3. QED
      BY <2>16, <3>2 DEF Poll, Pcs, dbVars, writerVars, lossVars
  <2>17. CASE PeriodicJob
    BY <2>17 DEF PeriodicJob, Save, Bump, Raise, Count, schedVars, writerVars, lossVars
  <2>18. CASE HandleReload
    BY <2>18 DEF HandleReload, ConfigSaver, Bump, Raise, Count, schedVars, writerVars, lossVars
  <2>19. CASE Restart
    <3>1. torn' \in BOOLEAN /\ cut' \in BOOLEAN
      BY <2>19 DEF Restart, CutOff
    <3>2. need' \subseteq Flags /\ CHANGES' \subseteq Kinds /\ pc' \in Pcs
      BY <2>19 DEF Restart, Flags, Kinds, Pcs
    <3> QED BY <2>19, <3>1, <3>2 DEF Restart, dbVars, writerVars
  <2>20. CASE UNCHANGED vars
    BY <2>20 DEF vars, dbVars, schedVars, writerVars, lossVars
  <2>21. QED
    BY <2>1, <2>2, <2>3, <2>4, <2>5, <2>6, <2>7, <2>8, <2>9, <2>10, <2>11, <2>12, <2>13,
       <2>14, <2>15, <2>16, <2>17, <2>18, <2>19, <2>20, <2>22 DEF Next, Scheduler
<1>3. QED
  BY <1>1, <1>2, PTL DEF Spec
-----------------------------------------------------------------------------
\* A step that only lets the database grow leaves what the scheduler owes as it was.
LEMMA GrowKeepsPollInv ==
    ASSUME TypeOK, TypeOK', PollInv, UNCHANGED <<schedVars, owed>>,
           \A a \in Areas : db[a] <= db'[a]
    PROVE  PollInv'
<1>1. UNCHANGED <<seen, live, need, ret, pc, owed>>
  BY DEF schedVars
<1>2. \A a \in Areas : seen'[a] <= db'[a] /\ owed'[a] <= db'[a]
  BY <1>1 DEF TypeOK, PollInv
<1>3. \A a \in Areas : Owing(a) => Owing(a)'
  BY <1>1 DEF Owing
<1>4. QED
  BY <1>1, <1>2, <1>3 DEF PollInv

\* A step inside a pass that reads more of the database: an area that was still to be
\* read, and no longer is, has been read.
ReadStep ==
    /\ UNCHANGED <<live, need, ret, owed>>
    /\ pc \notin {"check", "poll"} /\ pc' \notin {"check", "poll"}
    /\ \A a \in Areas : db[a] <= db'[a]
    /\ \A a \in Areas : seen[a] <= seen'[a]
    /\ \A a \in Areas : seen'[a] <= db'[a]
    /\ \A a \in Areas : pc \in UpTo(a) =>
          pc' \in UpTo(a) \/ owed[a] <= seen'[a] \/ a \in Meta \ need

\* Such a step keeps PollInv.
LEMMA ReadKeepsPollInv ==
    ASSUME TypeOK, TypeOK', PollInv, ReadStep
    PROVE  PollInv'
<1>1. \A a \in Areas : live'[a] <= seen'[a] /\ seen'[a] <= db'[a] /\ owed'[a] <= db'[a]
  BY DEF TypeOK, PollInv, ReadStep
<1>2. ASSUME NEW a \in Areas PROVE Owing(a)'
  <2>1. Owing(a)
    BY DEF PollInv
  <2>2. db[a] \in Nat /\ db'[a] \in Nat /\ seen[a] \in Nat /\ seen'[a] \in Nat
        /\ live[a] \in Nat /\ owed[a] \in Nat
    BY DEF TypeOK
  <2>3. a \in Meta => a \notin Plugins
    OBVIOUS
  <2>4. QED
    BY <2>1, <2>2, <2>3 DEF Owing, ReadStep
<1>3. QED
  BY <1>1, <1>2 DEF PollInv, ReadStep

\* Which places precede the reading of an area.
LEMMA UpToFacts ==
    /\ \A p \in Plugins : UpTo(p) = Pcs \ {"deploy", "check", "poll"}
    /\ \A a \in Areas : UpTo(a) \subseteq Pcs \ {"deploy", "check", "poll"}
    /\ \A a \in Areas : {"start", "boot_env", "instances"} \subseteq UpTo(a)
    /\ \A a \in Meta : UpTo(a) \subseteq {"start", "boot_env"} \cup Meta
<1>1. \A p \in Plugins : UpTo(p) = Pcs \ {"deploy", "check", "poll"}
  BY DEF UpTo
<1>2. \A a \in Areas : {"start", "boot_env", "instances"} \subseteq UpTo(a)
  BY DEF UpTo, Pcs
<1>3. \A a \in Meta : UpTo(a) \subseteq {"start", "boot_env"} \cup Meta
  BY DEF UpTo, Meta
<1>4. {"start", "boot_env"} \cup Meta \subseteq Pcs \ {"deploy", "check", "poll"}
  BY DEF Pcs, Meta
<1>5. QED
  BY <1>1, <1>2, <1>3, <1>4 DEF Areas

\* A save never lowers a version.
LEMMA BumpGrows ==
    ASSUME TypeOK, NEW S, Bump(S)
    PROVE  \A a \in Areas : db[a] <= db'[a]
BY DEF TypeOK, Bump

\* Everything that is not the main thread of the scheduler, at most grows the database.
LEMMA WritersKeepPollInv ==
    ASSUME TypeOK, TypeOK', PollInv,
           \/ \E u \in Waiters : UIWaitApplying(u) \/ UISave(u) \/ UISaveCustom(u)
           \/ \E x \in ApiWriters : ApiSave(x)
           \/ \E c \in Autoconf : AcApply(c) \/ AutoconfStep(c)
           \/ PeriodicJob
           \/ HandleReload
    PROVE  PollInv'
<1>1. UNCHANGED <<schedVars, owed>>
  BY DEF UIWaitApplying, UISave, UISaveCustom, ApiSave, AcApply, AutoconfStep, AcSave, AcSaveError,
         AcSaveAfterError, AcChecked, PeriodicJob, HandleReload
<1>2. UNCHANGED db \/ \E S : Bump(S)
  BY DEF UIWaitApplying, UISave, UISaveCustom, ApiSave, AcApply, AutoconfStep, AcSave, AcSaveError,
         AcSaveAfterError, AcChecked, PeriodicJob, HandleReload, Save, ConfigSaver, dbVars
<1>3. \A a \in Areas : db[a] <= db'[a]
  BY <1>2, BumpGrows DEF TypeOK
<1>4. QED
  BY <1>1, <1>3, GrowKeepsPollInv

\* What the scheduler owes, and when it reads it: the invariant behind the theorems below.
LEMMA PollInvHolds == Spec => []PollInv
<1>1. Init => PollInv
  BY DEF Init, PollInv, Owing, Flags, Kinds
<1>2. TypeOK /\ TypeOK' /\ PollInv /\ [Next]_vars => PollInv'
  <2> SUFFICES ASSUME TypeOK, TypeOK', PollInv, [Next]_vars PROVE PollInv'
    OBVIOUS
  <2>1. CASE \/ \E u \in Waiters : UIWaitApplying(u) \/ UISave(u) \/ UISaveCustom(u)
             \/ \E x \in ApiWriters : ApiSave(x)
             \/ \E c \in Autoconf : AcApply(c) \/ AutoconfStep(c)
             \/ PeriodicJob
             \/ HandleReload
    BY <2>1, WritersKeepPollInv
  <2>2. CASE StartSaver
    <3>1. \A a \in Areas : db[a] <= db'[a]
      BY <2>2, BumpGrows DEF StartSaver, ConfigSaver
    <3>2. QED
      <4>1. pc = "start" /\ pc' = "boot_env" /\ UNCHANGED <<seen, live, need, ret, owed>>
        BY <2>2 DEF StartSaver
      <4>2. \A a \in Areas : seen[a] <= seen'[a] /\ seen'[a] <= db'[a]
        BY <3>1, <4>1 DEF TypeOK, PollInv
      <4>3. ReadStep
        BY <3>1, <4>1, <4>2, UpToFacts DEF ReadStep
      <4>4. QED
        BY <4>3, ReadKeepsPollInv
  <2>3. CASE BootEnv
    <3>1. pc = "boot_env" /\ pc' = "instances" /\ UNCHANGED <<db, seen, live, need, ret, owed>>
      BY <2>3 DEF BootEnv, dbVars
    <3>2. \A a \in Areas : db[a] <= db'[a] /\ seen[a] <= seen'[a] /\ seen'[a] <= db'[a]
      BY <3>1 DEF TypeOK, PollInv
    <3>3. ReadStep
      BY <3>1, <3>2, UpToFacts DEF ReadStep
    <3>4. QED
      BY <3>3, ReadKeepsPollInv
  <2>4. CASE BootJobs
    <3>1. \A a \in Areas : db[a] <= db'[a]
      BY <2>4, BumpGrows DEF BootJobs, Save
    <3>2. /\ pc = "boot_jobs" /\ pc' = "boot_meta"
          /\ UNCHANGED <<seen, live, need, ret, owed>>
      BY <2>4 DEF BootJobs
    <3>3. \A a \in Areas : seen[a] <= seen'[a] /\ seen'[a] <= db'[a]
      BY <3>1, <3>2 DEF TypeOK, PollInv
    <3>4. \A a \in Areas : pc \in UpTo(a) => pc' \in UpTo(a)
      BY <3>2, UpToFacts DEF Areas, Meta, Pcs
    <3>5. ReadStep
      BY <3>1, <3>2, <3>3, <3>4 DEF ReadStep
    <3>6. QED
      BY <3>5, ReadKeepsPollInv
  <2>5. CASE BootMeta \/ BootSaver
    <3>1. /\ \/ pc = "boot_meta" /\ pc' = "loop"
             \/ pc = "boot_saver" /\ pc' = "boot_jobs"
          /\ UNCHANGED <<live, need, ret, owed>>
      BY <2>5 DEF BootMeta, BootSaver
    <3>5. \A a \in Areas : db[a] <= db'[a]
      <4>1. UNCHANGED db \/ \E S : Bump(S)
        BY <2>5 DEF BootMeta, BootSaver, ConfigSaver, dbVars
      <4> QED BY <4>1, BumpGrows DEF TypeOK
    <3>6. \A a \in Areas : seen'[a] \in {seen[a], db[a]}
      BY <2>5 DEF BootMeta, BootSaver, TypeOK
    <3>2. \A a \in Areas : db[a] <= db'[a] /\ seen[a] <= seen'[a] /\ seen'[a] <= db'[a]
      BY <3>5, <3>6 DEF TypeOK, PollInv
    <3>3. \A a \in Areas : pc \in UpTo(a) => pc' \in UpTo(a)
      BY <3>1, UpToFacts DEF Areas, Meta, Pcs
    <3>4. ReadStep
      BY <3>1, <3>2, <3>3 DEF ReadStep
    <3>7. QED
      BY <3>4, ReadKeepsPollInv
  <2>6. CASE \E k \in Meta : Generate(k) \/ (k # "instances" /\ CheckDisk(k))
    <3> PICK k \in Meta : Generate(k) \/ (k # "instances" /\ CheckDisk(k))
      BY <2>6
    <3>0. k \in Areas /\ UNCHANGED <<live, owed, need, ret>> /\ pc = k /\ pc' = After[k]
      BY DEF Generate, CheckDisk, Areas
    <3>9. \A a \in Areas : db[a] <= db'[a]
      BY BumpGrows DEF Generate, CheckDisk, Save, dbVars, TypeOK
    <3>10. \A a \in Areas : seen'[a] = seen[a] \/ seen'[a] = db'[a]
      BY DEF Generate, CheckDisk, TypeOK, dbVars
    <3>1. \A a \in Areas : seen[a] <= seen'[a] /\ seen'[a] <= db'[a]
      BY <3>9, <3>10 DEF TypeOK, PollInv
    <3>2. k \in need => owed[k] <= seen'[k]
      <4>1. k \in need => seen'[k] = db'[k]
        BY <3>0 DEF Generate, CheckDisk, TypeOK, dbVars
      <4> QED BY <3>0, <3>9, <4>1 DEF TypeOK, PollInv
    <3>3. pc' \in Pcs \ {"deploy", "check", "poll"}
      BY <3>0 DEF After, Meta, Pcs
    <3>4. ASSUME NEW a \in Areas, a # k, pc \in UpTo(a) PROVE pc' \in UpTo(a)
      <4>1. CASE a \in Plugins
        BY <3>3, <4>1, UpToFacts
      <4>2. CASE a \in Meta
        BY <3>0, <3>4, <4>2 DEF After, Meta, UpTo, Downloaded
      <4>3. QED
        BY <4>1, <4>2 DEF Areas
    <3>5. \A a \in Areas : pc \in UpTo(a) => pc' \in UpTo(a) \/ owed[a] <= seen'[a]
                                             \/ a \in Meta \ need
      BY <3>2, <3>4
    <3>6. pc \notin {"check", "poll"}
      BY <3>0 DEF Meta
    <3>7. ReadStep
      BY <3>0, <3>1, <3>3, <3>5, <3>6, <3>9 DEF ReadStep
    <3>8. QED
      BY <3>7, ReadKeepsPollInv
  <2>7. CASE ReadConfig
    <3>1. \A a \in Areas : db[a] <= db'[a]
      BY <2>7, BumpGrows DEF ReadConfig, Save, dbVars, TypeOK
    <3>2. /\ pc = "config" /\ pc' = "loop"
          /\ UNCHANGED <<seen, live, need, ret, owed>>
      BY <2>7 DEF ReadConfig
    <3>3. \A a \in Areas : seen[a] <= seen'[a] /\ seen'[a] <= db'[a]
      BY <3>1, <3>2 DEF TypeOK, PollInv
    <3>4. \A a \in Areas : pc \in UpTo(a) => pc' \in UpTo(a)
      BY <3>2, UpToFacts DEF Areas, Meta, Pcs
    <3>5. ReadStep
      BY <3>1, <3>2, <3>3, <3>4 DEF ReadStep
    <3>6. QED
      BY <3>5, ReadKeepsPollInv
  <2>8. CASE LoopTop
    <3>1. \A a \in Areas : pc \in UpTo(a) => pc' \in UpTo(a)
      BY <2>8, UpToFacts DEF LoopTop, Areas, Meta, Pcs
    <3>2. CASE UNCHANGED <<seen, live>>
      <4>1. pc = "loop" /\ pc' = "jobs" /\ UNCHANGED <<db, seen, live, need, ret, owed>>
        BY <2>8, <3>2 DEF LoopTop, dbVars
      <4>2. \A a \in Areas : db[a] <= db'[a] /\ seen[a] <= seen'[a] /\ seen'[a] <= db'[a]
        BY <4>1 DEF TypeOK, PollInv
      <4>3. ReadStep
        BY <3>1, <4>1, <4>2 DEF ReadStep
      <4>4. QED
        BY <4>3, ReadKeepsPollInv
    <3>3. CASE GenerateConfigs /\ live' = seen'
      <4>1. \A a \in Areas : seen[a] <= seen'[a] /\ seen'[a] <= db'[a]
        BY <2>8, <3>3 DEF LoopTop, GenerateConfigs, TypeOK, PollInv, dbVars
      <4>2. ASSUME NEW a \in Areas PROVE Owing(a)'
        <5>1. /\ live'[a] = seen'[a] /\ seen[a] <= seen'[a] /\ live[a] <= seen[a]
              /\ seen[a] \in Nat /\ seen'[a] \in Nat /\ live[a] \in Nat /\ owed[a] \in Nat
          BY <3>3, <4>1 DEF TypeOK, PollInv
        <5>2. Owing(a) /\ pc = "loop" /\ pc' = "jobs" /\ UNCHANGED <<need, ret, owed>>
          BY <2>8 DEF LoopTop, PollInv
        <5>3. QED
          BY <3>1, <5>1, <5>2 DEF Owing
      <4>3. QED
        BY <2>8, <3>3, <4>1, <4>2 DEF LoopTop, PollInv, TypeOK, dbVars
    <3>4. QED
      BY <2>8, <3>2, <3>3 DEF LoopTop
  <2>9. CASE RunJobs
    <3>1. \A a \in Areas : db[a] <= db'[a]
      BY <2>9, BumpGrows DEF RunJobs, Save, dbVars, TypeOK
    <3>2. /\ pc = "jobs" /\ pc' = "gen"
          /\ UNCHANGED <<seen, live, need, ret, owed>>
      BY <2>9 DEF RunJobs
    <3>3. \A a \in Areas : seen[a] <= seen'[a] /\ seen'[a] <= db'[a]
      BY <3>1, <3>2 DEF TypeOK, PollInv
    <3>4. \A a \in Areas : pc \in UpTo(a) => pc' \in UpTo(a)
      BY <3>2, UpToFacts DEF Areas, Meta, Pcs
    <3>5. ReadStep
      BY <3>1, <3>2, <3>3, <3>4 DEF ReadStep
    <3>6. QED
      BY <3>5, ReadKeepsPollInv
  <2>10. CASE Gen
    <3>1. \A a \in Areas : seen[a] <= seen'[a] /\ seen'[a] <= db'[a]
      BY <2>10 DEF Gen, GenerateConfigs, TypeOK, PollInv, dbVars
    <3>2. ASSUME NEW a \in Areas PROVE Owing(a)'
      <4>1. /\ Owing(a) /\ pc = "gen" /\ pc' = "deploy" /\ UNCHANGED <<db, live, need, owed>>
            /\ seen[a] <= seen'[a] /\ owed[a] <= db[a]
            /\ seen[a] \in Nat /\ seen'[a] \in Nat /\ live[a] \in Nat /\ owed[a] \in Nat
        BY <2>10, <3>1 DEF Gen, PollInv, TypeOK, dbVars
      <4>2. a \in Plugins => seen'[a] = db[a] \/ ~ret'
        BY <2>10 DEF Gen, GenerateConfigs, Areas
      <4>3. a \in Meta => pc \notin UpTo(a)
        BY <4>1, UpToFacts DEF Meta
      <4>4. a \in Plugins \/ a \in Meta
        BY DEF Areas
      <4>5. CASE a \in Plugins
        BY <4>1, <4>2, <4>5 DEF Owing
      <4>6. CASE a \in Meta
        BY <4>1, <4>3, <4>6 DEF Owing, Meta
      <4>7. QED
        BY <4>4, <4>5, <4>6
    <3>3. QED
      BY <2>10, <3>1, <3>2 DEF Gen, PollInv, TypeOK, dbVars
  <2>11. CASE Deploy
    <3>1. ASSUME NEW a \in Areas PROVE Owing(a)'
      <4>1. /\ Owing(a) /\ pc = "deploy" /\ live'[a] = seen[a] /\ UNCHANGED <<need, owed, ret>>
            /\ live[a] <= seen[a]
            /\ seen[a] \in Nat /\ live[a] \in Nat /\ owed[a] \in Nat
        BY <2>11 DEF Deploy, PollInv, TypeOK
      <4>2. pc \notin UpTo(a)
        BY <4>1, UpToFacts
      <4>3. QED
        BY <4>1, <4>2 DEF Owing
    <3>2. QED
      BY <2>11, <3>1 DEF Deploy, PollInv, TypeOK, dbVars
  <2>12. CASE Check
    <3>1. ASSUME NEW a \in Areas PROVE Owing(a)'
      <4>1. Owing(a) /\ pc = "check" /\ UNCHANGED <<live, owed, ret>>
        BY <2>12 DEF Check, PollInv
      <4>2. pc \notin UpTo(a)
        BY <4>1, UpToFacts
      <4>3. QED
        BY <4>1, <4>2 DEF Owing
    <3>2. QED
      BY <2>12, <3>1 DEF Check, PollInv, TypeOK
  <2>13. CASE Poll
    <3>1. \A a \in Areas : "config" \in Needs(a) /\ (a \in Meta => a \in Needs(a))
      BY DEF Needs, Areas, Meta, Downloaded, Kinds
    <3>2. "config" \in need' /\ \A a \in Meta : flag[a] => a \in need'
      BY <2>13, <3>1 DEF Poll, NoFlag, Areas
    <3>3. ASSUME NEW a \in Areas PROVE Owing(a)'
      <4>1. /\ Owing(a) /\ pc = "poll" /\ pc' = "instances" /\ UNCHANGED <<live, ret>>
            /\ owed'[a] = IF flag[a] THEN db[a] ELSE owed[a]
        BY <2>13 DEF Poll, PollInv
      <4>2. pc' \in UpTo(a) /\ pc \notin UpTo(a)
        BY <4>1, UpToFacts
      <4>3. a \in Plugins \/ a \in Meta
        BY DEF Areas
      <4>4. CASE a \in Plugins
        BY <4>2, <4>4 DEF Owing
      <4>5. CASE a \in Meta
        BY <3>2, <4>1, <4>2, <4>5 DEF Owing
      <4>6. QED
        BY <4>3, <4>4, <4>5
    <3>4. QED
      BY <2>13, <3>2, <3>3 DEF Poll, PollInv, TypeOK, dbVars
  <2>14. CASE Restart
    <3>1. ASSUME NEW a \in Areas PROVE Owing(a)'
      <4>1. pc' \in UpTo(a) /\ (a \in Meta => a \in need')
        BY <2>14, UpToFacts DEF Restart, Flags, Kinds
      <4>2. QED
        BY <4>1 DEF Owing, Areas
    <3>2. QED
      BY <2>14, <3>1 DEF Restart, PollInv, TypeOK, Flags, Kinds, dbVars
  <2>15. CASE UNCHANGED vars
    BY <2>15, GrowKeepsPollInv DEF vars, dbVars, TypeOK
  <2>16. QED
    BY <2>1, <2>2, <2>3, <2>4, <2>5, <2>6, <2>7, <2>8, <2>9, <2>10, <2>11, <2>12, <2>13,
       <2>14, <2>15 DEF Next, Scheduler
<1>3. QED
  BY <1>1, <1>2, TypeCorrect, PTL DEF Spec

\* Custom configs that a poll saw and that the scheduler has not on its disk are about to be
\* written, or a restart came before; and only then does a start take them back.
LEMMA LossInvHolds == Spec => []LossInv
<1> DEFINE cc == "custom_configs"
<1>1. Init => LossInv
  BY DEF Init, LossInv, OnDisk, Areas, Meta
<1>2. TypeOK /\ TypeOK' /\ PollInv /\ LossInv /\ [Next]_vars => LossInv'
  <2> SUFFICES ASSUME TypeOK, TypeOK', PollInv, LossInv, [Next]_vars PROVE LossInv'
    OBVIOUS
  <2>0. /\ cc \in Areas /\ cc \in Meta
        /\ seen[cc] \in Nat /\ db[cc] \in Nat /\ owed[cc] \in Nat /\ db'[cc] \in Nat
        /\ owed[cc] <= db[cc] /\ seen[cc] <= db[cc]
    BY DEF Areas, Meta, TypeOK, PollInv
  <2>1. CASE \/ \E u \in Waiters : UIWaitApplying(u) \/ UISave(u) \/ UISaveCustom(u)
             \/ \E x \in ApiWriters : ApiSave(x)
             \/ \E c \in Autoconf : AcApply(c) \/ AutoconfStep(c)
             \/ PeriodicJob
             \/ HandleReload
             \/ UNCHANGED vars
    <3>1. UNCHANGED <<schedVars, owed, lossVars>>
      BY <2>1 DEF UIWaitApplying, UISave, UISaveCustom, ApiSave, AcApply, AutoconfStep, AcSave,
             AcSaveError, AcSaveAfterError, AcChecked, PeriodicJob, HandleReload, vars
    <3> QED BY <3>1 DEF LossInv, schedVars, lossVars
  <2>2. CASE \/ StartSaver \/ BootEnv \/ BootSaver \/ BootJobs \/ BootMeta
             \/ ReadConfig \/ LoopTop \/ RunJobs \/ Gen \/ Deploy
    <3>1. /\ pc \notin {"instances", cc, "poll"} /\ pc' # "poll"
          /\ UNCHANGED <<owed, lossVars>>
      BY <2>2 DEF StartSaver, BootEnv, BootSaver, BootJobs, BootMeta, ReadConfig, LoopTop, RunJobs,
             Gen, Deploy
    <3>2. seen'[cc] = seen[cc]
      BY <2>0, <2>2 DEF StartSaver, BootEnv, BootSaver, BootJobs, BootMeta, ReadConfig, LoopTop,
             RunJobs, Gen, Deploy, GenerateConfigs, Downloaded
    <3> QED BY <3>1, <3>2 DEF LossInv, lossVars
  <2>3. CASE \E k \in Meta : Generate(k)
    <3> PICK k \in Meta : Generate(k)
      BY <2>3
    <3>1. /\ pc = k /\ pc' = After[k] /\ pc' # "poll"
          /\ UNCHANGED <<need, first, owed, lossVars>>
      BY DEF Generate, After, Meta
    <3>2. CASE k = cc
      <4>1. seen'[cc] = IF cc \in need THEN db[cc] ELSE seen[cc]
        BY <2>0, <3>2 DEF Generate, TypeOK
      <4>2. pc = cc
        BY <3>1, <3>2
      <4> QED BY <2>0, <3>1, <4>1, <4>2 DEF LossInv, lossVars
    <3>3. CASE k # cc
      <4>1. seen'[cc] = seen[cc]
        BY <2>0, <3>3 DEF Generate, TypeOK
      <4>2. pc \in {"instances", cc} => pc' = cc
        BY <3>1, <3>3 DEF After, Meta
      <4> QED BY <3>1, <4>1, <4>2 DEF LossInv, lossVars
    <3> QED BY <3>2, <3>3
  <2>4. CASE \E k \in Meta \ {"instances"} : CheckDisk(k)
    <3> PICK k \in Meta \ {"instances"} : CheckDisk(k)
      BY <2>4
    <3>1. pc = k /\ pc' # "poll" /\ UNCHANGED <<owed, cut>> /\ torn' \in {FALSE, torn}
      BY DEF CheckDisk, After, Meta
    <3>4. first
      BY DEF CheckDisk
    <3>2. undone' \subseteq OnDisk /\ (cc \in undone' => cut)
      <4>1. undone' = undone \/ (Overwrites(k) /\ undone' = undone \cup {k})
        BY DEF CheckDisk
      <4>2. CASE undone' = undone
        BY <4>2 DEF LossInv
      <4>3. CASE Overwrites(k) /\ undone' = undone \cup {k}
        <5>1. k \in OnDisk /\ (k = cc => cut)
          BY <4>3, <3>4 DEF Overwrites, LossInv
        <5> QED BY <4>3, <5>1 DEF LossInv
      <4> QED BY <4>1, <4>2, <4>3
    <3>3. owed[cc] > seen'[cc] => cut
      <4>1. CASE k = cc
        <5>1. seen'[cc] = db'[cc]
          BY <2>0, <4>1 DEF CheckDisk, TypeOK
        <5>2. db[cc] <= db'[cc]
          BY <2>0, BumpGrows DEF CheckDisk, Save, dbVars
        <5> QED BY <2>0, <5>1, <5>2
      <4>2. CASE k # cc
        <5>1. seen'[cc] = seen[cc]
          BY <2>0, <4>2 DEF CheckDisk, TypeOK
        <5> QED BY <3>4, <5>1 DEF LossInv
      <4> QED BY <4>1, <4>2
    <3>5. torn' => cut'
      BY <3>1 DEF LossInv
    <3> QED BY <3>1, <3>2, <3>3, <3>5 DEF LossInv
  <2>5. CASE Check
    <3>1. /\ pc = "check" /\ ~first' /\ UNCHANGED <<seen, owed, lossVars>>
      BY <2>5 DEF Check
    <3> QED BY <3>1 DEF LossInv, lossVars
  <2>6. CASE Poll
    <3>1. /\ pc = "poll" /\ pc' = "instances" /\ UNCHANGED <<seen, first, lossVars>>
          /\ need \subseteq need'
      BY <2>6 DEF Poll
    <3>2. owed'[cc] = owed[cc] \/ cc \in need'
      <4>1. \A a \in Meta : a \in Areas /\ a \in Needs(a)
        BY DEF Needs, Areas, Meta, Downloaded, Kinds
      <4>4. \A a \in Meta : flag[a] => a \in need'
        BY <2>6, <4>1 DEF Poll
      <4>2. flag[cc] => cc \in need'
        BY <2>0, <4>4
      <4>3. owed'[cc] = IF flag[cc] THEN db[cc] ELSE owed[cc]
        BY <2>0, <2>6 DEF Poll
      <4> QED BY <4>2, <4>3
    <3> QED BY <3>1, <3>2 DEF LossInv, lossVars
  <2>7. CASE Restart
    <3>1. pc' = "start" /\ UNCHANGED <<seen, owed, undone>> /\ CutOff
      BY <2>7 DEF Restart
    <3>2. cut => cut'
      BY <3>1 DEF CutOff
    <3>3. torn' => cut'
      BY <3>1, <3>2 DEF CutOff, LossInv
    <3>4. owed[cc] > seen[cc] => cut'
      BY <3>1 DEF CutOff, LossInv
    <3> QED BY <3>1, <3>2, <3>3, <3>4 DEF LossInv
  <2> QED BY <2>1, <2>2, <2>3, <2>4, <2>5, <2>6, <2>7 DEF Next, Scheduler
<1> QED BY <1>1, <1>2, TypeCorrect, PollInvHolds, PTL DEF Spec

\* PolledChangeDeployed for every set of plugins, every writer and every event: a change
\* that a poll saw is deployed when the main loop polls again (scheduler/main.py,
\* the pass between two polls), unless the generator failed; and what a start takes back
\* are external plugins, or custom configs that a restart kept from being written.
THEOREM PolledDeployed == Spec => []PolledChangeDeployed
<1>1. TypeOK /\ PollInv /\ LossInv => PolledChangeDeployed
  <2> SUFFICES ASSUME TypeOK, PollInv, LossInv PROVE PolledChangeDeployed
    OBVIOUS
  <2>1. pc = "poll" /\ ret => \A a \in Areas : owed[a] <= live[a]
    BY UpToFacts DEF PollInv, Owing
  <2>2. \A a \in undone : a = "external_plugins" \/ (a = "custom_configs" /\ cut)
    BY DEF LossInv, OnDisk
  <2> QED BY <2>1, <2>2 DEF PolledChangeDeployed
<1>2. QED
  BY <1>1, TypeCorrect, PollInvHolds, LossInvHolds, PTL
-----------------------------------------------------------------------------
\* Steps that let the database grow and nothing else that the abstract machine sees.
LEMMA GrowthIsWrite ==
    ASSUME TypeOK', UNCHANGED <<live, owed, undone>>, \A a \in Areas : db[a] <= db'[a],
           UNCHANGED <<pc, ret, first>> \/ (pc # "poll" /\ pc' # "poll" /\ UNCHANGED first)
    PROVE  Delivery!Write
<1>1. db' \in [Areas -> Nat]
  BY DEF TypeOK
<1>2. QED
  BY <1>1 DEF Delivery!Write, Delivery!Upto

\* Steps of a pass that send what is on the disk of the scheduler.
LEMMA SendingIsApply ==
    ASSUME TypeOK', UNCHANGED <<db, owed, undone, first>>, pc # "poll", pc' # "poll",
           \A a \in Areas : live[a] <= live'[a] /\ live'[a] <= db[a]
    PROVE  Delivery!Apply
<1>1. live' \in [Areas -> Nat]
  BY DEF TypeOK
<1>2. QED
  BY <1>1 DEF Delivery!Apply, Delivery!Upto

\* Every step is one of the abstract machine, or changes nothing that it sees.
LEMMA StepImplements ==
    ASSUME TypeOK, TypeOK', PollInv, PollInv', LossInv, [Next]_vars
    PROVE  [Delivery!Next]_(Delivery!vars)
<1>1. CASE \/ \E u \in Waiters : UIWaitApplying(u) \/ UISave(u) \/ UISaveCustom(u)
           \/ \E x \in ApiWriters : ApiSave(x)
           \/ \E c \in Autoconf : AcApply(c) \/ AutoconfStep(c)
           \/ PeriodicJob
           \/ HandleReload
  <2>1. UNCHANGED <<schedVars, owed, lossVars>>
    BY <1>1 DEF UIWaitApplying, UISave, UISaveCustom, ApiSave, AcApply, AutoconfStep, AcSave,
           AcSaveError, AcSaveAfterError, AcChecked, PeriodicJob, HandleReload
  <2>2. UNCHANGED db \/ \E S : Bump(S)
    BY <1>1 DEF UIWaitApplying, UISave, UISaveCustom, ApiSave, AcApply, AutoconfStep, AcSave,
           AcSaveError, AcSaveAfterError, AcChecked, PeriodicJob, HandleReload, Save,
           ConfigSaver, dbVars
  <2>3. \A a \in Areas : db[a] <= db'[a]
    BY <2>2, BumpGrows DEF TypeOK
  <2>4. UNCHANGED <<live, owed, pc, ret, first, undone>>
    BY <2>1 DEF schedVars, lossVars
  <2>5. QED
    BY <2>3, <2>4, GrowthIsWrite DEF Delivery!Next
<1>2. CASE StartSaver \/ BootEnv \/ BootSaver \/ BootJobs \/ BootMeta \/ ReadConfig \/ RunJobs \/ Gen
           \/ \E k \in Meta : Generate(k)
  <2>1. UNCHANGED db \/ \E S : Bump(S)
    BY <1>2 DEF StartSaver, BootEnv, BootSaver, BootJobs, BootMeta, ReadConfig, RunJobs, Gen, Generate,
           ConfigSaver, Save, dbVars
  <2>2. \A a \in Areas : db[a] <= db'[a]
    BY <2>1, BumpGrows DEF TypeOK
  <2>3. UNCHANGED <<live, owed, undone, first>> /\ pc # "poll" /\ pc' # "poll"
    BY <1>2 DEF StartSaver, BootEnv, BootSaver, BootJobs, BootMeta, ReadConfig, RunJobs, Gen, Generate,
           After, Meta, lossVars
  <2>4. QED
    BY <2>2, <2>3, GrowthIsWrite DEF Delivery!Next
<1>3. CASE LoopTop
  <2>1. UNCHANGED <<db, owed, undone, first>> /\ pc # "poll" /\ pc' # "poll"
    BY <1>3 DEF LoopTop, dbVars, lossVars
  <2>2. \A a \in Areas : live[a] <= live'[a]
    <3>1. CASE UNCHANGED live
      BY <3>1 DEF TypeOK
    <3>2. CASE GenerateConfigs /\ live' = seen'
      BY <3>2, <2>1 DEF GenerateConfigs, TypeOK, PollInv
    <3>3. QED
      BY <1>3, <3>1, <3>2 DEF LoopTop
  <2>3. \A a \in Areas : live'[a] <= db[a]
    BY <2>1 DEF TypeOK, PollInv
  <2>4. QED
    BY <2>1, <2>2, <2>3, SendingIsApply DEF Delivery!Next
<1>4. CASE Deploy
  <2>1. UNCHANGED <<db, owed, undone, first>> /\ pc # "poll" /\ pc' # "poll" /\ live' = seen
    BY <1>4 DEF Deploy, dbVars, lossVars
  <2>2. \A a \in Areas : live[a] <= live'[a] /\ live'[a] <= db[a]
    BY <2>1 DEF PollInv
  <2>3. QED
    BY <2>1, <2>2, SendingIsApply DEF Delivery!Next
<1>5. CASE Check
  <2>1. pc # "poll" /\ pc' = "poll" /\ UNCHANGED <<db, live, owed, ret, undone>>
    BY <1>5 DEF Check, lossVars
  <2>2. ret => \A a \in Areas : owed[a] <= live[a]
    <3>1. ret' => \A a \in Areas : owed'[a] <= live'[a]
      BY <2>1, UpToFacts DEF PollInv, Owing
    <3>2. QED
      BY <2>1, <3>1
  <2>3. Delivery!Complete
    BY <2>1, <2>2 DEF Delivery!Complete, Delivery!Upto
  <2>4. QED
    BY <2>3 DEF Delivery!Next
<1>6. CASE Poll
  <2>1. /\ pc = "poll" /\ pc' = "instances" /\ ~first' /\ UNCHANGED <<db, live, undone>>
        /\ \A a \in Areas : owed'[a] \in {owed[a], db[a]}
    BY <1>6 DEF Poll, LossInv, dbVars, lossVars
  <2>2. Delivery!Accept
    BY <2>1 DEF Delivery!Accept
  <2>3. QED
    BY <2>2 DEF Delivery!Next
<1>7. CASE Restart
  <2>1. pc' = "start" /\ first' /\ UNCHANGED <<db, live, owed, undone>>
    BY <1>7 DEF Restart, dbVars
  <2>2. Delivery!Interrupt
    BY <2>1 DEF Delivery!Interrupt
  <2>3. QED
    BY <2>2 DEF Delivery!Next
<1>8. CASE UNCHANGED vars
  BY <1>8 DEF vars, dbVars, schedVars, lossVars, Delivery!vars
<1>10. CASE \E k \in Meta \ {"instances"} : CheckDisk(k)
  <2> PICK k \in Meta \ {"instances"} : CheckDisk(k)
    BY <1>10
  <2>1. pc = k /\ pc # "poll" /\ pc' # "poll" /\ first /\ UNCHANGED <<live, owed, first>>
    BY DEF CheckDisk, After, Meta
  <2>2. CASE UNCHANGED undone
    <3>1. \A a \in Areas : db[a] <= db'[a]
      BY BumpGrows DEF CheckDisk, Save, dbVars, TypeOK
    <3> QED BY <2>1, <2>2, <3>1, GrowthIsWrite DEF Delivery!Next
  <2>3. CASE Save({k}) /\ Overwrites(k) /\ undone' = undone \cup {k}
    <3>1. k \in OnDisk /\ k \in Areas /\ owed[k] > 0
      BY <2>3 DEF Overwrites, Areas
    <3>2. db' = [db EXCEPT ![k] = @ + 1]
      BY <2>3, <3>1 DEF Save, Bump, TypeOK
    <3>3. Delivery!TakeBack
      BY <2>1, <2>3, <3>1, <3>2 DEF Delivery!TakeBack
    <3> QED BY <3>3 DEF Delivery!Next
  <2> QED BY <2>2, <2>3 DEF CheckDisk
<1>9. QED
  BY <1>1, <1>2, <1>3, <1>4, <1>5, <1>6, <1>7, <1>8, <1>10 DEF Next, Scheduler

\* Change tracking, with its flags, polls, restarts and every writer, implements the
\* abstract delivery of changes.
THEOREM Implements == Spec => ImplementsDelivery
<1>1. Init => Delivery!Init
  BY DEF Init, Delivery!Init
<1>2. TypeOK /\ TypeOK' /\ PollInv /\ PollInv' /\ LossInv /\ [Next]_vars
        => [Delivery!Next]_(Delivery!vars)
  BY StepImplements
<1>3. QED
  BY <1>1, <1>2, TypeCorrect, PollInvHolds, LossInvHolds, PTL
     DEF Spec, ImplementsDelivery, Delivery!Spec
-----------------------------------------------------------------------------
(***************************************************************************)
(* What the flags do achieve.  PolledChangeDeployed says nothing of a      *)
(* change whose flag is lowered unread, and with most writers that happens *)
(* (checked_changes lowers flags by kind, whatever was raised since the    *)
(* poll).  With the autoconf controller as the only writer it does not:    *)
(* its wait_applying finds no flag, hence no pass, and the flags of its    *)
(* save are raised last, so that no pass begins within the save.  Every    *)
(* condition below is needed: without any one of them TLC finds the        *)
(* invariants violated.                                                    *)
(***************************************************************************)
\* The conditions of the two theorems below: the controller is the only one that writes.
OnlyAutoconf ==
    /\ Waiters = {} /\ ApiWriters = {}
    /\ \A c, d \in Autoconf : c = d
    /\ \A p \in Plugins : JobWrites[p] = {}
    /\ PortPlugins = {}
    /\ Events \cap {"save_error", "generator", "hup", "removal"} = {}
    /\ ~Boot /\ MaxRestarts = 0

\* A save finds no flag and no pass, so that none can begin before its flags are raised...
Apart ==
    /\ ~first
    /\ pc \in {"instances", "custom_configs", "external_plugins", "pro_plugins", "config",
               "loop", "jobs", "gen", "deploy", "check", "poll"}
    /\ \A c \in Autoconf : wst[c] \in {"idle", "saving"}
    /\ (\E c \in Autoconf : wst[c] = "saving") => pc = "poll" /\ NoFlag
    /\ (\A c \in Autoconf : wst[c] = "idle") => acFlags = {} /\ acLeft = {}
    /\ acLeft \subseteq acFlags /\ acFlags \subseteq {"instances", "custom_configs"} \cup Plugins
    /\ pc # "poll" => ~NoFlag

\* ...between passes everything that is not flagged, or still to be, is deployed...
Settled ==
    pc = "poll" =>
        /\ seen = live /\ need = {} /\ changed_plugins = {}
        /\ \A a \in JobAreas : ran[a] = live[a]
        /\ \A a \in Areas : ~flag[a] /\ a \notin acFlags \ acLeft => db[a] = live[a]

\* ...a pass was asked for everything that is flagged...
Asked ==
    pc # "poll" =>
        /\ "config" \in need
        /\ \A a \in Areas : flag[a] => Needs(a) \subseteq need
        /\ changed_plugins = {p \in Plugins : flag[p]}

\* ...and reads it and runs its jobs; what is not flagged is as it was.
Caught ==
    /\ \A a \in Downloaded : live[a] = db[a] /\ seen[a] = db[a] /\ ran[a] = db[a]
    /\ pc # "poll" =>
         /\ \A a \in Meta : (flag[a] /\ pc \in UpTo(a)) \/ seen[a] = db[a]
         /\ \A p \in Plugins :
               /\ (flag[p] /\ pc \notin {"deploy", "check"}) \/ seen[p] = db[p]
               /\ (flag[p] /\ pc \notin {"gen", "deploy", "check"}) \/ ran[p] = db[p]
               /\ pc \in {"loop", "jobs"} => env[p] = db[p]
         /\ pc = "check" => live = seen

AloneInv == Apart /\ Settled /\ Asked /\ Caught

\* It holds at first.
LEMMA AloneInit == OnlyAutoconf /\ Init => AloneInv
<1> SUFFICES ASSUME OnlyAutoconf, Init PROVE AloneInv
  OBVIOUS
<1>1. pc = "poll" /\ ~first /\ need = {} /\ changed_plugins = {} /\ acLeft = {} /\ acFlags = {}
  BY DEF Init, OnlyAutoconf
<1>2. \A c \in Autoconf : wst[c] = "idle"
  BY DEF Init, Writers
<1>3. Apart
  BY <1>1, <1>2 DEF Apart
<1>4. seen = live /\ \A a \in Areas : db[a] = live[a] /\ seen[a] = db[a]
  BY DEF Init
<1>5. \A a \in JobAreas : a \in Areas /\ ran[a] = live[a]
  BY DEF Init, JobAreas, Areas, Downloaded, Meta
<1>6. Settled /\ Asked
  BY <1>1, <1>4, <1>5 DEF Settled, Asked
<1>7. Caught
  BY <1>1, <1>4, <1>5 DEF Caught, JobAreas
<1> QED BY <1>3, <1>6, <1>7 DEF AloneInv

\* Within a pass nothing but the pass moves.
LEMMA PassStep ==
    ASSUME AloneInv, pc # "poll",
           pc' \in {"custom_configs", "external_plugins", "pro_plugins", "config",
                    "loop", "jobs", "gen", "deploy", "check"},
           UNCHANGED <<dbVars, writerVars, need, changed_plugins, first>>
    PROVE  Apart' /\ Settled' /\ Asked'
<1>1. pc' # "poll"
  OBVIOUS
<1>2. UNCHANGED <<db, flag, wst, acLeft, acFlags>>
  BY DEF dbVars, writerVars
<1>3. \A c \in Autoconf : wst[c] # "saving"
  BY DEF AloneInv, Apart
<1>4. Apart'
  BY <1>1, <1>2, <1>3 DEF AloneInv, Apart, NoFlag
<1>5. Settled'
  BY <1>1 DEF Settled
<1>6. Asked'
  BY <1>2 DEF AloneInv, Asked, Needs
<1> QED BY <1>4, <1>5, <1>6

\* The jobs of this installation store nothing.
LEMMA NothingStored ==
    ASSUME OnlyAutoconf, NEW S \in SUBSET Plugins, NEW W \in SUBSET UNION {JobWrites[p] : p \in S}
    PROVE  W = {}
BY DEF OnlyAutoconf

\* How the sets of areas lie.
LEMMA DownloadedIs ==
    /\ Downloaded \subseteq Meta /\ Downloaded \subseteq JobAreas /\ Plugins \subseteq JobAreas
    /\ JobAreas \subseteq Areas /\ Areas = Meta \cup Plugins
    /\ \A a \in Downloaded : a \notin {"instances", "custom_configs"} \cup Plugins
BY DEF Downloaded, Meta, JobAreas, Areas

\* Which steps are left.
LEMMA AloneNext ==
    ASSUME OnlyAutoconf, TypeOK, AloneInv, [Next]_vars
    PROVE  \/ \E c \in Autoconf : AcApply(c) \/ AcSave(c) \/ AcChecked(c)
           \/ \E k \in Meta : Generate(k)
           \/ ReadConfig \/ LoopTop \/ RunJobs \/ Gen \/ Deploy \/ Check \/ Poll
           \/ UNCHANGED vars
<1>1. ~ \E u \in Waiters : UIWaitApplying(u) \/ UISave(u) \/ UISaveCustom(u)
  BY DEF OnlyAutoconf
<1>2. ~ \E x \in ApiWriters : ApiSave(x)
  BY DEF OnlyAutoconf
<1>3. ~ \E c \in Autoconf : AcSaveError(c) \/ AcSaveAfterError(c)
  BY DEF OnlyAutoconf, AcSaveError, AcSaveAfterError, AloneInv, Apart
<1>4. /\ ~ (StartSaver \/ BootEnv \/ BootSaver \/ BootJobs \/ BootMeta)
      /\ ~ \E k \in Meta \ {"instances"} : CheckDisk(k)
  BY DEF AloneInv, Apart, StartSaver, BootEnv, BootSaver, BootJobs, BootMeta, CheckDisk
<1>5. ~ PeriodicJob
  <2>1. SUFFICES ASSUME NEW W \in SUBSET UNION {JobWrites[p] : p \in Plugins} PROVE W = {}
    BY DEF PeriodicJob
  <2> QED BY NothingStored
<1>6. ~ HandleReload
  BY DEF HandleReload, OnlyAutoconf
<1>7. ~ Restart
  BY DEF Restart, OnlyAutoconf, TypeOK
<1> QED BY <1>1, <1>2, <1>3, <1>4, <1>5, <1>6, <1>7 DEF Next, Scheduler, AutoconfStep

\* Config.apply: no flag, hence no pass; flags are raised when everything is saved.
LEMMA AutoconfAlone ==
    ASSUME OnlyAutoconf, TypeOK, AloneInv, NEW c \in Autoconf,
           AcApply(c) \/ AcSave(c) \/ AcChecked(c)
    PROVE  AloneInv'
<1>0. /\ c \in Writers /\ \A d \in Autoconf : d = c
      /\ wst[c] \in {"idle", "saving"}
  BY DEF Writers, OnlyAutoconf, AloneInv, Apart
<1>1. pc = "poll" /\ pc' = "poll" /\ UNCHANGED schedVars
  BY <1>0 DEF AcApply, AcSave, AcChecked, AloneInv, Apart, schedVars
<1>2. UNCHANGED <<seen, ran, live, need, changed_plugins, first>>
  BY <1>1 DEF schedVars
<1>3. Asked'
  BY <1>1 DEF Asked
<1>4. CASE AcApply(c)
  <2>1. /\ UNCHANGED <<db, flag>> /\ NoFlag /\ wst[c] = "idle"
        /\ acLeft' = acFlags' /\ acFlags' \subseteq {"instances", "custom_configs"} \cup Plugins
        /\ wst' = [wst EXCEPT ![c] = "saving"]
    BY <1>4 DEF AcApply, dbVars
  <2>2. acFlags = {} /\ wst'[c] = "saving"
    BY <1>0, <2>1 DEF AloneInv, Apart, TypeOK
  <2>3. Apart'
    BY <1>0, <1>1, <1>2, <2>1, <2>2 DEF AloneInv, Apart, NoFlag
  <2>4. Settled'
    BY <1>1, <1>2, <2>1, <2>2 DEF AloneInv, Settled
  <2>5. Caught'
    BY <1>1, <1>2, <2>1 DEF AloneInv, Caught
  <2> QED BY <1>3, <2>3, <2>4, <2>5 DEF AloneInv
<1>5. CASE AcSave(c)
  <2>1. /\ wst[c] = "saving" /\ UNCHANGED <<wst, acFlags>> /\ acLeft' = acLeft \ AcStage
        /\ Bump(AcStage)
    BY <1>5 DEF AcSave
  <2>2. UNCHANGED flag
    BY <1>5 DEF AcSave, OnlyAutoconf
  <2>3. AcStage \subseteq acLeft
    BY DEF AcStage
  <2>4. \A a \in Areas : a \notin AcStage => db'[a] = db[a]
    BY <2>1 DEF Bump
  <2>5. Apart'
    BY <1>0, <1>1, <1>2, <2>1, <2>2 DEF AloneInv, Apart, NoFlag
  <2>6. Settled'
    <3>1. ASSUME NEW a \in Areas, ~flag'[a], a \notin acFlags' \ acLeft' PROVE db'[a] = live'[a]
      <4>1. a \notin AcStage /\ a \notin acFlags \ acLeft
        BY <2>1, <2>3, <3>1 DEF AloneInv, Apart
      <4> QED BY <1>1, <1>2, <2>2, <2>4, <3>1, <4>1 DEF AloneInv, Settled
    <3> QED BY <1>1, <1>2, <3>1 DEF AloneInv, Settled
  <2>7. Caught'
    <3>1. \A a \in Downloaded : a \in Areas /\ a \notin AcStage
      BY <2>3, DownloadedIs DEF AloneInv, Apart
    <3> QED BY <1>1, <1>2, <2>4, <3>1 DEF AloneInv, Caught
  <2> QED BY <1>3, <2>5, <2>6, <2>7 DEF AloneInv
<1>6. CASE AcChecked(c)
  <2>1. wst[c] = "saving" /\ acLeft = {} /\ acLeft' = {} /\ acFlags' = {} /\ UNCHANGED db
        /\ wst' = [wst EXCEPT ![c] = "idle"]
        /\ CheckedChanges(AcChanges, acFlags \cap Plugins, TRUE)
    BY <1>0, <1>6 DEF AcChecked
  <2>2. \A a \in acFlags : a \in Areas => flag'[a]
    <3>1. acFlags \subseteq CheckedAreas(AcChanges, acFlags \cap Plugins)
      BY DEF AloneInv, Apart, CheckedAreas, AcChanges, Meta
    <3> QED BY <2>1, <3>1 DEF CheckedChanges
  <2>3. NoFlag
    BY <2>1 DEF AloneInv, Apart
  <2>4. wst'[c] = "idle"
    BY <1>0, <2>1 DEF TypeOK
  <2>5. Apart'
    BY <1>0, <1>1, <1>2, <2>1, <2>4 DEF AloneInv, Apart
  <2>6. Settled'
    <3>1. ASSUME NEW a \in Areas, ~flag'[a] PROVE db'[a] = live'[a]
      <4>1. a \notin acFlags /\ ~flag[a]
        BY <2>2, <2>3, <3>1 DEF NoFlag
      <4> QED BY <1>1, <1>2, <2>1, <4>1 DEF AloneInv, Settled
    <3> QED BY <1>1, <1>2, <3>1 DEF AloneInv, Settled
  <2>7. Caught'
    BY <1>1, <1>2, <2>1 DEF AloneInv, Caught
  <2> QED BY <1>3, <2>5, <2>6, <2>7 DEF AloneInv
<1> QED BY <1>4, <1>5, <1>6

\* A pass reads, in its order, what it was asked for.
LEMMA PassReads ==
    ASSUME OnlyAutoconf, TypeOK, AloneInv,
           (\E k \in Meta : Generate(k)) \/ ReadConfig \/ LoopTop \/ RunJobs \/ Gen \/ Deploy
    PROVE  AloneInv'
<1>0. ~first
  BY DEF AloneInv, Apart
<1>1. CASE \E k \in Meta : Generate(k)
  <2>1. PICK k \in Meta : Generate(k)
    BY <1>1
  <2>2. /\ pc = k /\ pc' = After[k] /\ k \in Areas
        /\ UNCHANGED <<dbVars, writerVars, env, ran, live, need, changed_plugins, first>>
        /\ seen' = IF k \in need THEN [seen EXCEPT ![k] = db[k]] ELSE seen
    BY <2>1 DEF Generate, Areas
  <2>3. After[k] \in {"custom_configs", "external_plugins", "pro_plugins", "config"}
    BY <1>0 DEF After, Meta
  <2>4. pc # "poll"
    BY <2>2 DEF Meta
  <2>5. Apart' /\ Settled' /\ Asked'
    BY <2>2, <2>3, <2>4, PassStep
  <2>6. \A a \in Areas : seen'[a] = IF a = k /\ k \in need THEN db[a] ELSE seen[a]
    BY <2>2 DEF TypeOK
  <2>7. ASSUME NEW a \in Meta PROVE (flag[a] /\ pc' \in UpTo(a)) \/ seen'[a] = db[a]
    <3>1. a \in Areas /\ ((flag[a] /\ pc \in UpTo(a)) \/ seen[a] = db[a])
      BY <2>4, DownloadedIs DEF AloneInv, Caught
    <3>2. CASE a = k
      <4>1. flag[a] => a \in need
        BY <2>4, <3>1 DEF AloneInv, Asked, Needs, Kinds, Meta, Downloaded
      <4> QED BY <2>6, <3>1, <3>2, <4>1
    <3>3. CASE a # k
      <4>1. pc \in UpTo(a) => pc' \in UpTo(a)
        BY <1>0, <2>2, <3>3 DEF After, Meta, UpTo, Downloaded
      <4> QED BY <2>6, <3>1, <3>3, <4>1
    <3> QED BY <3>2, <3>3
  <2>8. \A p \in Plugins : p \in Areas /\ p # k
    BY DEF Areas
  <2>9. UNCHANGED <<db, flag>>
    BY <2>2 DEF dbVars
  <2>10. \A a \in Downloaded : a \in Areas
    BY DownloadedIs
  <2>11. Caught'
    BY <2>2, <2>3, <2>4, <2>6, <2>7, <2>8, <2>9, <2>10 DEF AloneInv, Caught, Meta
  <2> QED BY <2>5, <2>11 DEF AloneInv
<1>2. CASE ReadConfig
  <2>1. /\ pc = "config" /\ pc' = "loop"
        /\ UNCHANGED <<dbVars, writerVars, seen, ran, live, need, changed_plugins, first>>
        /\ env' = [p \in Plugins |-> db[p]]
    BY <1>2 DEF ReadConfig, ReadEnv, OnlyAutoconf
  <2>2. Apart' /\ Settled' /\ Asked'
    BY <2>1, PassStep
  <2>3. UNCHANGED <<db, flag>>
    BY <2>1 DEF dbVars
  <2>4. \A a \in Meta : pc \notin UpTo(a)
    BY <2>1, UpToFacts DEF Meta
  <2>5. Caught'
    BY <2>1, <2>3, <2>4 DEF AloneInv, Caught
  <2> QED BY <2>2, <2>5 DEF AloneInv
<1>3. CASE LoopTop
  <2>1. /\ pc = "loop" /\ pc' = "jobs"
        /\ UNCHANGED <<dbVars, writerVars, seen, env, ran, live, need, changed_plugins, first>>
    BY <1>0, <1>3 DEF LoopTop
  <2>2. Apart' /\ Settled' /\ Asked'
    BY <2>1, PassStep
  <2>3. UNCHANGED <<db, flag>>
    BY <2>1 DEF dbVars
  <2>4. \A a \in Meta : pc \notin UpTo(a)
    BY <2>1, UpToFacts DEF Meta
  <2>5. Caught'
    BY <2>1, <2>3, <2>4 DEF AloneInv, Caught
  <2> QED BY <2>2, <2>5 DEF AloneInv
<1>4. CASE RunJobs
  <2>1. /\ pc = "jobs" /\ pc' = "gen"
        /\ UNCHANGED <<writerVars, seen, env, live, need, changed_plugins, first>>
    BY <1>4 DEF RunJobs
  <2>2. UNCHANGED <<db, flag>>
    <3>1. Scope \subseteq Plugins
      BY DEF Scope
    <3>2. UNCHANGED dbVars \/ Save({})
      BY <1>4, <3>1, NothingStored DEF RunJobs
    <3>3. Save({}) => db' = db /\ flag' = flag
      BY DEF Save, Bump, Raise, TypeOK
    <3> QED BY <3>2, <3>3 DEF dbVars
  <2>3. Apart' /\ Settled' /\ Asked'
    BY <2>1, <2>2, PassStep DEF dbVars
  <2>4. \A a \in Meta : pc \notin UpTo(a)
    BY <2>1, UpToFacts DEF Meta
  <2>5. \A p \in Plugins : ran'[p] = db[p]
    <3> SUFFICES ASSUME NEW p \in Plugins PROVE ran'[p] = db[p]
      OBVIOUS
    <3>1. env[p] = db[p] /\ (flag[p] \/ ran[p] = db[p]) /\ p \in JobAreas /\ p \in Areas
      BY <2>1, DownloadedIs DEF AloneInv, Caught
    <3>2. flag[p] => "jobs" \in need /\ p \in Scope
      BY <1>0, <2>1, <3>1 DEF AloneInv, Asked, Needs, Scope
    <3>3. CASE "jobs" \in need
      <4>1. ran'[p] = IF p \in Scope THEN env[p] ELSE ran[p]
        BY <1>4, <3>1, <3>3 DEF RunJobs, Downloaded, Meta
      <4> QED BY <3>1, <3>2, <4>1
    <3>4. CASE "jobs" \notin need
      <4>1. ran' = ran
        BY <1>4, <3>4 DEF RunJobs
      <4> QED BY <3>1, <3>2, <3>4, <4>1
    <3> QED BY <3>3, <3>4
  <2>6. \A a \in Downloaded : ran'[a] = db[a]
    <3> SUFFICES ASSUME NEW a \in Downloaded PROVE ran'[a] = db[a]
      OBVIOUS
    <3>1. a \in JobAreas /\ seen[a] = db[a] /\ ran[a] = db[a] /\ a \notin Scope
      BY DownloadedIs DEF AloneInv, Caught, Scope
    <3> QED BY <1>4, <3>1 DEF RunJobs
  <2>7. Caught'
    BY <2>1, <2>2, <2>4, <2>5, <2>6 DEF AloneInv, Caught
  <2> QED BY <2>3, <2>7 DEF AloneInv
<1>5. CASE Gen
  <2>1. /\ pc = "gen" /\ pc' = "deploy"
        /\ UNCHANGED <<dbVars, writerVars, env, ran, live, need, changed_plugins, first>>
        /\ seen' = [a \in Areas |-> IF a \in Plugins THEN db[a] ELSE seen[a]]
    BY <1>5 DEF Gen, GenerateConfigs, OnlyAutoconf
  <2>2. Apart' /\ Settled' /\ Asked'
    BY <2>1, PassStep
  <2>3. UNCHANGED <<db, flag>>
    BY <2>1 DEF dbVars
  <2>4. \A a \in Meta : pc \notin UpTo(a)
    BY <2>1, UpToFacts DEF Meta
  <2>5. /\ \A p \in Plugins : seen'[p] = db[p]
        /\ \A a \in Meta : seen'[a] = seen[a]
    BY <2>1 DEF Areas
  <2>6. \A a \in Downloaded : a \in Meta
    BY DownloadedIs
  <2>7. Caught'
    BY <2>1, <2>3, <2>4, <2>5, <2>6 DEF AloneInv, Caught
  <2> QED BY <2>2, <2>7 DEF AloneInv
<1>6. CASE Deploy
  <2>1. /\ pc = "deploy" /\ pc' = "check" /\ live' = seen
        /\ UNCHANGED <<dbVars, writerVars, seen, env, ran, need, changed_plugins, first>>
    BY <1>6 DEF Deploy
  <2>2. Apart' /\ Settled' /\ Asked'
    BY <2>1, PassStep
  <2>3. UNCHANGED <<db, flag>>
    BY <2>1 DEF dbVars
  <2>4. \A a \in Meta : pc \notin UpTo(a)
    BY <2>1, UpToFacts DEF Meta
  <2>5. Caught'
    BY <2>1, <2>3, <2>4 DEF AloneInv, Caught
  <2> QED BY <2>2, <2>5 DEF AloneInv
<1> QED BY <1>1, <1>2, <1>3, <1>4, <1>5, <1>6

\* The pass ends with everything deployed; the next begins with what the poll found.
LEMMA PassTurns ==
    ASSUME OnlyAutoconf, TypeOK, AloneInv, Check \/ Poll
    PROVE  AloneInv'
<1>1. CASE Check
  <2>1. /\ pc = "check" /\ pc' = "poll" /\ need' = {} /\ changed_plugins' = {} /\ ~first'
        /\ UNCHANGED <<db, seen, ran, live, wst, acLeft, acFlags>>
    BY <1>1 DEF Check, writerVars
  <2>2. \A a \in Meta : pc \notin UpTo(a)
    BY <2>1, UpToFacts DEF Meta
  <2>3. live = seen /\ \A a \in Areas : seen[a] = db[a]
    BY <2>1, <2>2 DEF AloneInv, Caught, Areas
  <2>4. \A a \in JobAreas : a \in Areas /\ ran[a] = db[a]
    BY <2>1, DownloadedIs DEF AloneInv, Caught, JobAreas
  <2>5. \A c \in Autoconf : wst[c] # "saving"
    BY <2>1 DEF AloneInv, Apart
  <2>6. Apart'
    BY <2>1, <2>5 DEF AloneInv, Apart
  <2>7. Settled'
    BY <2>1, <2>3, <2>4 DEF Settled
  <2>8. Asked' /\ Caught'
    BY <2>1 DEF AloneInv, Asked, Caught
  <2> QED BY <2>6, <2>7, <2>8 DEF AloneInv
<1>2. CASE Poll
  <2>1. /\ pc = "poll" /\ pc' = "instances" /\ ~NoFlag
        /\ UNCHANGED <<db, flag, wst, acLeft, acFlags, seen, ran, live, first>>
        /\ need' = need \cup UNION {Needs(a) : a \in {x \in Areas : flag[x]}}
    BY <1>2 DEF Poll, dbVars, writerVars
  <2>2. changed_plugins' = {p \in Plugins : flag[p]}
    BY <1>2, <2>1 DEF Poll, AloneInv, Settled
  <2>3. \A c \in Autoconf : wst[c] = "idle"
    BY <2>1 DEF AloneInv, Apart
  <2>4. acFlags = {}
    BY <2>3 DEF AloneInv, Apart
  <2>5. Apart'
    BY <2>1, <2>3 DEF AloneInv, Apart, NoFlag
  <2>6. Settled'
    BY <2>1 DEF Settled
  <2>7. Asked'
    <3>1. \A a \in Areas : "config" \in Needs(a)
      BY DEF Needs, Areas, Meta, Downloaded, Kinds
    <3>2. "config" \in need' /\ \A a \in Areas : flag[a] => Needs(a) \subseteq need'
      BY <2>1, <3>1 DEF NoFlag
    <3> QED BY <2>1, <2>2, <3>2 DEF Asked, Needs
  <2>8. \A a \in Areas : flag[a] \/ seen[a] = db[a]
    BY <2>1, <2>4 DEF AloneInv, Settled
  <2>9. \A p \in Plugins : flag[p] \/ ran[p] = db[p]
    BY <2>1, <2>4, DownloadedIs DEF AloneInv, Settled
  <2>10. \A a \in Meta : pc' \in UpTo(a)
    BY <2>1, UpToFacts, DownloadedIs
  <2>11. Caught'
    BY <2>1, <2>8, <2>9, <2>10, DownloadedIs DEF AloneInv, Caught
  <2> QED BY <2>5, <2>6, <2>7, <2>11 DEF AloneInv
<1> QED BY <1>1, <1>2

\* Every step keeps it.
LEMMA AloneStep == OnlyAutoconf /\ TypeOK /\ AloneInv /\ [Next]_vars => AloneInv'
<1> SUFFICES ASSUME OnlyAutoconf, TypeOK, AloneInv, [Next]_vars PROVE AloneInv'
  OBVIOUS
<1>1. CASE UNCHANGED vars
  BY <1>1 DEF vars, dbVars, schedVars, writerVars, AloneInv, Apart, Settled, Asked, Caught,
              NoFlag, Needs
<1> QED BY <1>1, AloneNext, AutoconfAlone, PassReads, PassTurns

\* Where autoconf is alone, all this holds in every state.
LEMMA AloneHolds == OnlyAutoconf => (Spec => []AloneInv)
<1> SUFFICES ASSUME OnlyAutoconf PROVE Spec => []AloneInv
  OBVIOUS
<1>1. Init => AloneInv
  BY AloneInit
<1>2. TypeOK /\ AloneInv /\ [Next]_vars => AloneInv'
  BY AloneStep
<1> QED BY <1>1, <1>2, TypeCorrect, PTL DEF Spec

\* No lost change where the autoconf controller is the only writer: when the poll loop is
\* idle and no Config.apply is under way, the instances run what the database holds.
THEOREM NoLostChange == OnlyAutoconf => (Spec => []QuiescentIsLive)
<1> SUFFICES ASSUME OnlyAutoconf PROVE Spec => []QuiescentIsLive
  OBVIOUS
<1>1. TypeOK /\ AloneInv => QuiescentIsLive
  <2> SUFFICES ASSUME TypeOK, AloneInv, Quiescent PROVE live = db
    BY DEF QuiescentIsLive
  <2>1. pc = "poll" /\ NoFlag /\ \A c \in Autoconf : wst[c] = "idle"
    BY DEF Quiescent, AloneInv, Apart
  <2>2. acFlags = {}
    BY <2>1 DEF AloneInv, Apart
  <2>3. \A a \in Areas : db[a] = live[a]
    BY <2>1, <2>2 DEF AloneInv, Settled, NoFlag
  <2> QED BY <2>3 DEF TypeOK
<1>2. Spec => []AloneInv
  BY AloneHolds
<1> QED BY <1>1, <1>2, TypeCorrect, PTL

\* And the jobs of every plugin last ran with the settings and files that are deployed.
THEOREM NoLostRun == OnlyAutoconf => (Spec => []JobsFollowChanges)
<1> SUFFICES ASSUME OnlyAutoconf PROVE Spec => []JobsFollowChanges
  OBVIOUS
<1>1. AloneInv => JobsFollowChanges
  BY DEF AloneInv, Settled, JobsFollowChanges, Quiescent
<1>2. Spec => []AloneInv
  BY AloneHolds
<1> QED BY <1>1, <1>2, PTL
=============================================================================
