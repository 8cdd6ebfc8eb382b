--------------------------- MODULE Uploads_proofs ---------------------------
(***************************************************************************)
(* Proofs about Uploads: an upload that ran alone and was answered with    *)
(* 200 has installed its archive; one that failed has lost nothing.        *)
(***************************************************************************)
EXTENDS Uploads, TLAPS

\* What has been achieved at each command of an upload that is alone.
HasReceived(u, n) == tmp.there /\ \A c \in 1 .. n : tmp.by[c] = u

\* An upload that has had no other beside it has the place for itself: its body
\* is what the temporary file holds, then its archive is what the staging
\* directory holds, and in the end what the destination holds.
Progress(u) ==
    /\ at[u] = "reading" => u \in fds /\ HasReceived(u, read[u])
    /\ at[u] \in {"clearStaging", "makeStaging", "unpack"} => HasReceived(u, Chunks)
    /\ at[u] \in {"makeStaging", "unpack"} => dirs["staging"].files = Empty
    /\ at[u] \in {"clearBackup", "makeBackup", "backup", "clear", "install"} =>
          dirs["staging"].files = ArchiveOf(u)
    /\ at[u] = "install" => Destination = Empty
    /\ at[u] \in {"drop", "tidyStaging", "tidyFile"} => Destination = ArchiveOf(u)

IInv ==
    /\ TypeOK
    /\ \A u \in Uploads : at[u] = "new" => read[u] = 0
    /\ \A u \in Uploads : alone[u] /\ Busy(u) =>
          (\A v \in Uploads : Busy(v) => v = u) /\ Progress(u)

\* The commands, one after the other.
LEMMA Order ==
    /\ Follows["clearStaging"] = "makeStaging" /\ Follows["makeStaging"] = "unpack"
    /\ Follows["unpack"] = "clearBackup" /\ Follows["clearBackup"] = "makeBackup"
    /\ Follows["makeBackup"] = "backup" /\ Follows["backup"] = "clear"
    /\ Follows["clear"] = "install" /\ Follows["install"] = "drop"
    /\ Follows["drop"] = "tidyStaging" /\ Follows["tidyStaging"] = "tidyFile"
    /\ Follows["tidyFile"] = "saved"
    /\ DOMAIN Follows = {"clearStaging", "makeStaging", "unpack", "clearBackup", "makeBackup",
                         "backup", "clear", "install", "drop", "tidyStaging", "tidyFile"}
BY DEF Follows

\* Copying and deleting files gives contents of directories.
LEMMA ContentsTyped ==
    /\ Empty \in Contents
    /\ \A u \in Uploads \cup {Original} : ArchiveOf(u) \in Contents
    /\ \A a, b \in Contents, F \in SUBSET Files :
          Copied(a, F, b) \in Contents /\ Without(a, F) \in Contents
    /\ \A u \in Uploads : Copied(ArchiveOf(u), Files, Empty) = ArchiveOf(u)
    /\ \A a \in Contents : Copied(a, Files, Empty) = a
BY DEF Empty, Contents, ArchiveOf, Copied, Without, Sources

\* The initial states satisfy the invariant.
LEMMA InitInv == Init => IInv
<1>. SUFFICES ASSUME Init PROVE IInv
  OBVIOUS
<1>1. TypeOK
  BY SourcesAssumption, ContentsTyped, Order
     DEF Init, TypeOK, NoFile, Unwritten, Directories, Dir, Gone
<1>. QED
  BY <1>1 DEF Init, IInv, Busy

\* A step of an upload that is in progress cannot disturb one that is alone.
LEMMA StepInv ==
    ASSUME IInv, TypeOK', NEW u \in Uploads, Busy(u),
           NEW a \in {"new", "reading", "restore"} \cup DOMAIN Follows \cup Ended, Goes(u, a),
           a # "new", alone' = alone, \A v \in Uploads \ {u} : read'[v] = read[v],
           alone[u] /\ Progress(u) /\ a \notin Ended => Progress(u)'
    PROVE  IInv'
<1>1. \A v \in Uploads : at'[v] = IF v = u THEN a ELSE at[v]
  BY DEF IInv, TypeOK, Goes
<1>2. \A v \in Uploads : at'[v] = "new" => read'[v] = 0
  BY <1>1 DEF IInv
<1>3. ASSUME NEW w \in Uploads, alone'[w], Busy(w)'
      PROVE  (\A v \in Uploads : Busy(v)' => v = w) /\ Progress(w)'
  <2>1. Busy(w) /\ alone[w]
    BY <1>1, <1>3 DEF Busy
  <2>2. w = u
    BY <2>1 DEF IInv
  <2>3. \A v \in Uploads : Busy(v)' => v = w
    BY <1>1, <2>1, <2>2 DEF IInv, Busy
  <2>4. Progress(w)'
    BY <1>1, <1>3, <2>1, <2>2 DEF IInv, Busy
  <2>. QED
    BY <2>3, <2>4
<1>. QED
  BY <1>2, <1>3 DEF IInv

\* Opening keeps the invariant: an upload that was alone is not any more.
LEMMA OpenInv ==
    ASSUME IInv, NEW u \in Uploads, Open(u)
    PROVE  IInv'
<1>1. TypeOK'
  BY ContentsTyped DEF IInv, Open, TypeOK, Goes, Unwritten, Directories
<1>2. \A v \in Uploads : at'[v] = IF v = u THEN "reading" ELSE at[v]
  BY DEF IInv, TypeOK, Open, Goes
<1>3. ASSUME NEW w \in Uploads, alone'[w], Busy(w)'
      PROVE  (\A v \in Uploads : Busy(v)' => v = w) /\ Progress(w)'
  <2>1. {v \in Uploads : Busy(v)} = {} /\ w = u
    <3>. DEFINE others == {v \in Uploads : Busy(v)}
    <3>1. others # {} => w \notin others \cup {u}
      BY <1>3 DEF Open, IInv, TypeOK
    <3>2. w = u \/ w \in others
      BY <1>2, <1>3 DEF Busy
    <3>. QED
      BY <3>1, <3>2
  <2>2. \A v \in Uploads : Busy(v)' => v = w
    BY <1>2, <2>1 DEF Busy
  <2>3. read'[u] = 0 /\ u \in fds' /\ tmp'.there
    BY DEF Open, IInv
  <2>4. Progress(w)'
    BY <1>2, <2>1, <2>3 DEF Progress, HasReceived
  <2>. QED
    BY <2>2, <2>4
<1>. QED
  BY <1>1, <1>2, <1>3 DEF IInv, Open

\* So do the steps that receive the body.
LEMMA ReadInv ==
    ASSUME IInv, NEW u \in Uploads, Read(u) \/ ReadError(u) \/ ReadAll(u)
    PROVE  IInv'
<1>1. CASE Read(u)
  <2>1. Chunks \in Nat /\ read[u] \in Nat /\ read[u] + 1 \in 1 .. Chunks
    <3>1. read[u] \in 0 .. Chunks /\ read[u] < Chunks /\ Chunks \in Nat
      BY <1>1, SourcesAssumption DEF IInv, TypeOK, Read, MoreToRead
    <3>. QED
      BY <3>1
  <2>2. Busy(u) /\ Goes(u, "reading")
    BY <1>1 DEF IInv, TypeOK, Read, Busy, Ended, Answers, Goes
  <2>3. TypeOK'
    <3>1. read' \in [Uploads -> 0 .. Chunks] /\ read'[u] = read[u] + 1
      BY <1>1, <2>1 DEF IInv, TypeOK, Read
    <3>2. tmp' \in [there : BOOLEAN, by : [1 .. Chunks -> Uploads \cup {Absent}]]
      BY <1>1, <2>1 DEF IInv, TypeOK, Read
    <3>. QED
      BY <1>1, <3>1, <3>2 DEF IInv, TypeOK, Read
  <2>4. ASSUME Progress(u) PROVE Progress(u)'
    <3>1. u \in fds /\ tmp.there /\ read'[u] = read[u] + 1
      BY <1>1, <2>4 DEF IInv, TypeOK, Read, Progress, HasReceived
    <3>2. tmp'.there /\ tmp'.by = [tmp.by EXCEPT ![read[u] + 1] = u]
      BY <1>1, <3>1 DEF Read, IInv, TypeOK
    <3>3. tmp.by \in [1 .. Chunks -> Uploads \cup {Absent}]
      BY DEF IInv, TypeOK
    <3>4. \A c \in 1 .. read'[u] : tmp'.by[c] = u
      BY <1>1, <2>1, <2>4, <3>1, <3>2, <3>3 DEF Progress, HasReceived, Read
    <3>. QED
      BY <1>1, <3>1, <3>2, <3>4 DEF Progress, HasReceived, Read
  <2>. QED
    BY <1>1, <2>2, <2>3, <2>4, StepInv DEF Read, IInv, TypeOK, Ended, Answers
<1>2. CASE ReadError(u)
  <2>1. TypeOK' /\ Busy(u) /\ Goes(u, "refused")
    BY <1>2 DEF IInv, TypeOK, ReadError, Fails, Faulty, Busy, Ended, Answers, Goes
  <2>. QED
    BY <1>2, <2>1, StepInv DEF ReadError, Ended, Answers
<1>3. CASE ReadAll(u)
  <2>1. TypeOK' /\ Busy(u) /\ Goes(u, "clearStaging")
    BY <1>3, Order DEF IInv, TypeOK, ReadAll, First, Busy, Ended, Answers, Goes
  <2>2. Progress(u) => Progress(u)'
    BY <1>3, <2>1 DEF IInv, TypeOK, Goes, Progress, HasReceived, ReadAll, Destination
  <2>. QED
    BY <1>3, <2>1, <2>2, Order, StepInv DEF ReadAll
<1>. QED
  BY <1>1, <1>2, <1>3

\* A directory that is replaced by a directory is one.
Dirs == [there : BOOLEAN, files : Contents]

\* A command changes one directory into another.
LEMMA BecomesTyped ==
    ASSUME TypeOK, NEW d \in Directories, NEW x \in Dirs, Becomes(d, x)
    PROVE  dirs' \in [Directories -> Dirs]
BY DEF TypeOK, Becomes, Dirs

\* What a command makes of a directory is one.
LEMMA DirTyped ==
    /\ Gone \in Dirs
    /\ \A c \in Contents : Dir(c) \in Dirs
    /\ \A x \in Dirs, t \in BOOLEAN : [x EXCEPT !.there = t] \in Dirs
    /\ \A x \in Dirs, F \in SUBSET Files : [x EXCEPT !.files = Without(@, F)] \in Dirs
BY ContentsTyped DEF Dirs, Gone, Dir

\* Every command leaves directories behind.
LEMMA CommandDirs ==
    ASSUME IInv, NEW u \in Uploads, Command(u)
    PROVE  dirs' \in [Directories -> Dirs]
<1>. USE ContentsTyped, DirTyped, BecomesTyped
<1>1. /\ TypeOK /\ dirs \in [Directories -> Dirs]
      /\ Target(u) \in Directories /\ Directories = {"staging", "backup", "destination"}
  BY DEF IInv, TypeOK, Dirs, Target, Directories
<1>2. \A d \in Directories : dirs[d] \in Dirs /\ dirs[d].files \in Contents
  <2>1. \A x \in Dirs : x.files \in Contents
    BY DEF Dirs
  <2>2. \A d \in Directories : dirs[d] \in Dirs
    BY <1>1
  <2>. QED
    BY <2>1, <2>2
<1>3. CASE Remove(u)
  <2>1. \/ Becomes(Target(u), Gone)
        \/ \E F \in SUBSET Files :
              Becomes(Target(u), [dirs[Target(u)] EXCEPT !.files = Without(@, F)])
    BY <1>3 DEF Remove
  <2>2. \A F \in SUBSET Files : [dirs[Target(u)] EXCEPT !.files = Without(@, F)] \in Dirs
    BY <1>1, <1>2
  <2>. QED
    BY <1>1, <2>1, <2>2
<1>4. CASE MakeDir(u)
  <2>1. \/ dirs' = dirs
        \/ Becomes(Target(u), [dirs[Target(u)] EXCEPT !.there = TRUE])
    BY <1>4 DEF MakeDir
  <2>. QED
    BY <1>1, <1>2, <2>1
<1>5. CASE Unpack(u)
  <2>1. Whole => Unpacked \in Contents
    <3>1. ASSUME Whole PROVE tmp.by[1] \in Uploads
      <4>1. PICK v \in Uploads : \A c \in 1 .. Chunks : tmp.by[c] = v
        BY <3>1 DEF Whole
      <4>2. 1 \in 1 .. Chunks
        BY SourcesAssumption
      <4>. QED
        BY <4>1, <4>2
    <3>. QED
      BY <3>1 DEF Unpacked
  <2>2. Files \in SUBSET Files
    OBVIOUS
  <2>3. dirs["staging"].files \in Contents
    BY <1>1, <1>2
  <2>4. Whole => \A F \in SUBSET Files : Dir(Copied(Unpacked, F, dirs["staging"].files)) \in Dirs
    BY <2>1, <2>3
  <2>5. \/ dirs' = dirs
        \/ Whole /\ \E F \in SUBSET Files :
              Becomes("staging", Dir(Copied(Unpacked, F, dirs["staging"].files)))
    BY <1>5, <2>2 DEF Unpack
  <2>. QED
    BY <1>1, <2>4, <2>5
<1>6. CASE Backup(u) \/ Install(u) \/ Restore(u)
  <2>1. \/ dirs' = dirs
        \/ \E d, e \in Directories : \E F \in SUBSET Files :
              Becomes(d, Dir(Copied(dirs[e].files, F, dirs[d].files)))
    <3>1. Files \in SUBSET Files
      OBVIOUS
    <3>. QED
      BY <1>1, <1>6, <3>1 DEF Backup, Install, Restore
  <2>. QED
    BY <1>1, <1>2, <2>1
<1>7. CASE Clear(u)
  BY <1>1, <1>2, <1>7 DEF Clear
<1>8. CASE TidyFile(u)
  BY <1>1, <1>8 DEF TidyFile
<1>. QED
  BY <1>3, <1>4, <1>5, <1>6, <1>7, <1>8 DEF Command

\* Every command goes on, to its failure or, the last one, to the answer.
LEMMA CommandGoes ==
    ASSUME IInv, NEW u \in Uploads, Command(u)
    PROVE  /\ Busy(u)
           /\ \/ Goes(u, "restore") \/ Goes(u, "failed")
              \/ at[u] \in DOMAIN Follows /\ Goes(u, Follows[at[u]])
<1>. USE Order DEF Busy, Ended, Answers, Works, Fails, OnFailure, Then
<1>1. CASE Remove(u)
  BY <1>1 DEF Remove
<1>2. CASE MakeDir(u)
  BY <1>2 DEF MakeDir
<1>3. CASE Unpack(u)
  BY <1>3 DEF Unpack
<1>4. CASE Backup(u)
  BY <1>4 DEF Backup
<1>5. CASE Clear(u)
  BY <1>5 DEF Clear
<1>6. CASE Install(u)
  BY <1>6 DEF Install
<1>7. CASE Restore(u)
  BY <1>7 DEF Restore
<1>8. CASE TidyFile(u)
  BY <1>8 DEF TidyFile
<1>. QED
  BY <1>1, <1>2, <1>3, <1>4, <1>5, <1>6, <1>7, <1>8 DEF Command

\* Only the upload that a command is of moves.
LEMMA CommandMovesOne ==
    ASSUME IInv, NEW v \in Uploads, Command(v), NEW u \in Uploads, at'[u] # at[u]
    PROVE  v = u
<1>1. PICK a : Goes(v, a)
  BY CommandGoes
<1>2. at \in [Uploads -> {"new", "reading", "restore"} \cup DOMAIN Follows \cup Ended]
  BY DEF IInv, TypeOK
<1>. QED
  BY <1>1, <1>2 DEF Goes

\* What else a command may change.
LEMMA CommandKeeps ==
    ASSUME IInv, NEW u \in Uploads, Command(u)
    PROVE  /\ UNCHANGED <<read, kills, before, alone>>
           /\ faults' \in [Uploads -> Nat]
           /\ UNCHANGED <<tmp, fds>> \/ (tmp' = NoFile /\ fds' = {})
<1>. USE DEF Works, Fails, Keeps
<1>1. ASSUME UNCHANGED faults \/ Faulty(u)
      PROVE  faults' \in [Uploads -> Nat]
  <2>1. faults \in [Uploads -> Nat]
    BY DEF IInv, TypeOK
  <2>2. faults' = faults \/ faults' = [faults EXCEPT ![u] = faults[u] + 1]
    BY <1>1 DEF Faulty
  <2>3. faults[u] + 1 \in Nat
    BY <2>1
  <2>. QED
    BY <2>1, <2>2, <2>3
<1>2. faults' = faults \/ Faulty(u)
  <2>1. CASE Remove(u) \/ MakeDir(u) \/ Unpack(u)
    BY <2>1 DEF Remove, MakeDir, Unpack
  <2>2. CASE Backup(u) \/ Clear(u) \/ Install(u)
    BY <2>2 DEF Backup, Clear, Install
  <2>3. CASE Restore(u) \/ TidyFile(u)
    BY <2>3 DEF Restore, TidyFile
  <2>. QED
    BY <2>1, <2>2, <2>3 DEF Command
<1>3. /\ UNCHANGED <<read, kills, before, alone>>
      /\ UNCHANGED <<tmp, fds>> \/ (tmp' = NoFile /\ fds' = {})
  <2>1. CASE TidyFile(u)
    BY <2>1 DEF TidyFile
  <2>2. CASE ~TidyFile(u)
    <3>1. Keeps
      BY <2>2 DEF Command, Remove, MakeDir, Unpack, Backup, Clear, Install, Restore
    <3>. QED
      BY <3>1
  <2>. QED
    BY <2>1, <2>2
<1>. QED
  BY <1>1, <1>2, <1>3

\* Every command keeps the types, whether it succeeds, fails half-way or is killed.
LEMMA CommandTyped ==
    ASSUME IInv, NEW u \in Uploads, Command(u)
    PROVE  TypeOK'
<1>1. tmp' \in [there : BOOLEAN, by : [1 .. Chunks -> Uploads \cup {Absent}]]
  <2>1. NoFile \in [there : BOOLEAN, by : [1 .. Chunks -> Uploads \cup {Absent}]]
    BY DEF NoFile, Unwritten
  <2>2. tmp \in [there : BOOLEAN, by : [1 .. Chunks -> Uploads \cup {Absent}]]
    BY DEF IInv, TypeOK
  <2>. QED
    BY <2>1, <2>2, CommandKeeps
<1>2. at' \in [Uploads -> {"new", "reading", "restore"} \cup DOMAIN Follows \cup Ended]
  <2>. DEFINE Places == {"new", "reading", "restore"} \cup DOMAIN Follows \cup Ended
  <2>1. at \in [Uploads -> Places]
    BY DEF IInv, TypeOK
  <2>2. {"restore", "failed"} \subseteq Places /\ \A a \in DOMAIN Follows : Follows[a] \in Places
    BY Order DEF Ended, Answers
  <2>3. PICK a \in Places : Goes(u, a)
    BY <2>2, CommandGoes
  <2>. QED
    BY <2>1, <2>3 DEF Goes
<1>. QED
  BY <1>1, <1>2, CommandKeeps, CommandDirs DEF IInv, TypeOK, Dirs

\* An upload that is alone makes progress with every command that works.
LEMMA CommandProgress ==
    ASSUME IInv, NEW u \in Uploads, Command(u), Progress(u), at'[u] \notin Ended
    PROVE  Progress(u)'
<1>. USE DEF Ended, Answers
<1>1. /\ at \in [Uploads -> {"new", "reading", "restore"} \cup DOMAIN Follows \cup Ended]
      /\ dirs \in [Directories -> Dirs]
      /\ Directories = {"staging", "backup", "destination"}
  BY DEF IInv, TypeOK, Dirs, Directories
<1>2. \A a : Goes(u, a) => at'[u] = a
  BY <1>1 DEF Goes
<1>3. CASE at'[u] = "restore"
  BY <1>3, Order DEF Progress
<1>4. CASE at'[u] # "restore"
  <2>1. at[u] \in DOMAIN Follows /\ at'[u] = Follows[at[u]] /\ Goes(u, Follows[at[u]])
    BY <1>1, <1>2, <1>4, CommandGoes
  <2>2. /\ at[u] = "clearStaging" => dirs'["staging"] = Gone
        /\ at[u] = "makeStaging" => dirs'["staging"].files = dirs["staging"].files
        /\ at[u] = "unpack" => dirs'["staging"].files = ArchiveOf(u)
    <3>1. CASE at[u] = "clearStaging"
      BY <1>1, <1>2, <2>1, <3>1, Order
         DEF Command, Remove, MakeDir, Unpack, Backup, Clear, Install, Restore, TidyFile,
             Target, Becomes, Fails, OnFailure
    <3>2. CASE at[u] = "makeStaging"
      <4>1. Becomes("staging", [dirs["staging"] EXCEPT !.there = TRUE])
        BY <1>2, <2>1, <3>2, Order
           DEF Command, Remove, MakeDir, Unpack, Backup, Clear, Install, Restore, TidyFile,
               Target, Fails, OnFailure
      <4>. QED
        BY <1>1, <3>2, <4>1 DEF Becomes, Dirs
    <3>3. CASE at[u] = "unpack"
      <4>1. Whole /\ Becomes("staging", Dir(Copied(Unpacked, Files, dirs["staging"].files)))
        BY <1>2, <2>1, <3>3, Order
           DEF Command, Remove, MakeDir, Unpack, Backup, Clear, Install, Restore, TidyFile,
               Fails, OnFailure
      <4>2. tmp.by[1] = u /\ dirs["staging"].files = Empty
        BY <3>3, SourcesAssumption DEF Progress, HasReceived
      <4>. QED
        BY <1>1, <3>3, <4>1, <4>2, ContentsTyped DEF Becomes, Dir, Unpacked
    <3>. QED
      BY <3>1, <3>2, <3>3
  <2>3. at[u] \in {"clearBackup", "makeBackup", "backup", "clear", "install"} =>
           dirs'["staging"] = dirs["staging"]
    <3>1. CASE at[u] \in {"clearBackup", "makeBackup", "backup"}
      BY <1>1, <2>1, <3>1
         DEF Command, Remove, MakeDir, Unpack, Backup, Clear, Install, Restore, TidyFile,
             Target, Becomes
    <3>2. CASE at[u] \in {"clear", "install"}
      BY <1>1, <2>1, <3>2
         DEF Command, Remove, MakeDir, Unpack, Backup, Clear, Install, Restore, TidyFile,
             Becomes
    <3>. QED
      BY <3>1, <3>2
  <2>4. /\ at[u] = "clear" => Destination' = Empty
        /\ at[u] = "install" => Destination' = ArchiveOf(u)
        /\ at[u] \in {"drop", "tidyStaging", "tidyFile"} => Destination' = Destination
    <3>1. CASE at[u] = "clear"
      BY <1>1, <1>2, <2>1, <3>1, Order
         DEF Command, Remove, MakeDir, Unpack, Backup, Clear, Install, Restore, TidyFile,
             Becomes, Fails, OnFailure, Dir, Destination
    <3>2. CASE at[u] = "install"
      <4>1. Becomes("destination", Dir(Copied(dirs["staging"].files, Files, Destination)))
        BY <1>2, <2>1, <3>2, Order
           DEF Command, Remove, MakeDir, Unpack, Backup, Clear, Install, Restore, TidyFile,
               Fails, OnFailure, Destination
      <4>2. dirs["staging"].files = ArchiveOf(u) /\ Destination = Empty
        BY <3>2 DEF Progress
      <4>. QED
        BY <1>1, <3>2, <4>1, <4>2, ContentsTyped DEF Becomes, Dir, Destination
    <3>3. CASE at[u] \in {"drop", "tidyStaging", "tidyFile"}
      BY <1>1, <2>1, <3>3
         DEF Command, Remove, MakeDir, Unpack, Backup, Clear, Install, Restore, TidyFile,
             Target, Becomes, Destination
    <3>. QED
      BY <3>1, <3>2, <3>3
  <2>5. at[u] # "tidyFile" => tmp' = tmp
    BY CommandKeeps DEF Command, Remove, MakeDir, Unpack, Backup, Clear, Install, Restore,
                        TidyFile, Keeps
  <2>6. at'[u] \notin {"reading", "clearStaging"}
    BY <2>1, Order
  <2>7. HasReceived(u, Chunks) /\ tmp' = tmp => HasReceived(u, Chunks)'
    BY DEF HasReceived
  <2>. QED
    BY <2>1, <2>2, <2>3, <2>4, <2>5, <2>6, <2>7, Order DEF Progress, Gone
<1>. QED
  BY <1>3, <1>4

\* So does a command keep the invariant.
LEMMA CommandInv ==
    ASSUME IInv, NEW u \in Uploads, Command(u)
    PROVE  IInv'
<1>1. PICK a \in {"restore", "failed"} \cup {Follows[b] : b \in DOMAIN Follows} : Goes(u, a)
  BY CommandGoes
<1>2. a # "new" /\ at'[u] = a
  BY <1>1, Order DEF Goes, IInv, TypeOK
<1>3. a \in {"new", "reading", "restore"} \cup DOMAIN Follows \cup Ended
  BY <1>1, Order DEF Ended, Answers
<1>. QED
  BY <1>1, <1>2, <1>3, CommandGoes, CommandKeeps, CommandTyped, CommandProgress, StepInv

\* A killed upload is not in progress any more.
LEMMA KillInv ==
    ASSUME IInv, NEW u \in Uploads, Kill(u)
    PROVE  IInv'
<1>1. TypeOK' /\ Goes(u, "killed") /\ Busy(u)
  BY DEF Kill, IInv, TypeOK, Goes, Ended, Answers
<1>. QED
  BY <1>1, StepInv DEF Kill, Ended, Answers

\* Every step keeps the invariant.
LEMMA NextInv == IInv /\ [Next]_vars => IInv'
<1>. SUFFICES ASSUME IInv, [Next]_vars PROVE IInv'
  OBVIOUS
<1>1. ASSUME NEW u \in Uploads,
             Open(u) \/ Read(u) \/ ReadError(u) \/ ReadAll(u) \/ Command(u) \/ Kill(u)
      PROVE  IInv'
  BY <1>1, OpenInv, ReadInv, CommandInv, KillInv
<1>2. CASE UNCHANGED vars
  BY <1>2 DEF vars, IInv, TypeOK, Progress, HasReceived, Busy, Destination, Goes
<1>. QED
  BY <1>1, <1>2 DEF Next

\* The invariant holds in every state.
LEMMA Invariant == Spec => []IInv
BY InitInv, NextInv, PTL DEF Spec

(***************************************************************************)
(* What an upload that fails leaves behind.                                *)
(***************************************************************************)

\* What is safe at each command of an upload that is alone and has had one failure at
\* most.  A backup that is not whole is a failure already: then nothing else fails.
Saved(u) == dirs["backup"].files = before[u] \/ faults[u] = 1

Safe(u) ==
    /\ at[u] \in {"reading", "clearStaging", "makeStaging", "unpack", "clearBackup",
                  "makeBackup", "backup", "clear"} => Destination = before[u]
    /\ at[u] \in {"clearBackup", "makeBackup", "backup", "clear", "install"} =>
          dirs["staging"].there
    /\ at[u] \in {"makeBackup", "backup"} => dirs["backup"].files = Empty
    /\ at[u] = "backup" => dirs["backup"].there
    /\ at[u] \in {"clear", "install", "drop"} => Saved(u)
    /\ at[u] = "restore" =>
          /\ faults[u] = 1
          /\ \A f \in Files :
                LET kept == dirs["backup"].files[f]
                    now == Destination[f]
                IN  /\ kept \in {before[u][f], Absent}
                    /\ \/ now \in {before[u][f], ArchiveOf(u)[f]}
                       \/ now = Absent /\ kept = before[u][f]

AllSafe == \A u \in Uploads : alone[u] /\ Busy(u) /\ faults[u] <= 1 => Safe(u)

\* A step of an upload that is in progress, again.
LEMMA StepSafe ==
    ASSUME IInv, AllSafe, NEW u \in Uploads, Busy(u), NEW a, Goes(u, a), a # "new",
           UNCHANGED <<alone, before>>, faults[u] \in Nat, faults'[u] \in Nat,
           faults'[u] >= faults[u],
           alone[u] /\ faults'[u] <= 1 /\ Progress(u) /\ Safe(u) /\ a \notin Ended => Safe(u)'
    PROVE  AllSafe'
<1> SUFFICES ASSUME NEW w \in Uploads, alone[w], Busy(w)', faults'[w] <= 1
             PROVE  Safe(w)'
  BY DEF AllSafe
<1>1. \A v \in Uploads : at'[v] = IF v = u THEN a ELSE at[v]
  BY DEF IInv, TypeOK, Goes
<1>2. (Busy(w) /\ a \notin Ended) \/ w # u
  BY <1>1 DEF Busy
<1>3. Busy(w)
  BY <1>1 DEF Busy
<1>4. w = u
  BY <1>3 DEF IInv
<1>5. Progress(u) /\ a \notin Ended /\ faults[u] <= 1
  BY <1>2, <1>3, <1>4 DEF IInv
<1>6. Safe(u)
  BY <1>3, <1>4, <1>5 DEF AllSafe
<1> QED BY <1>4, <1>5, <1>6

\* Each command is safe where the upload is.
LEMMA CommandSafe ==
    ASSUME IInv, NEW u \in Uploads, Command(u), Progress(u), Safe(u), faults'[u] <= 1,
           at'[u] \notin Ended
    PROVE  Safe(u)'
<1> DEFINE stage == dirs["staging"]
           backup == dirs["backup"]
<1>1. /\ at \in [Uploads -> {"new", "reading", "restore"} \cup DOMAIN Follows \cup Ended]
      /\ dirs \in [Directories -> Dirs] /\ faults \in [Uploads -> Nat]
      /\ Directories = {"staging", "backup", "destination"}
  BY DEF IInv, TypeOK, Dirs, Directories
<1>2. /\ \A a : Goes(u, a) => at'[u] = a
      /\ Faulty(u) => faults'[u] = faults[u] + 1
      /\ faults[u] \in Nat
  BY <1>1 DEF Goes, Faulty
<1>3. before' = before /\ before[u] \in Contents
  BY CommandKeeps DEF IInv, TypeOK
<1>4. /\ stage \in Dirs /\ backup \in Dirs /\ dirs["destination"] \in Dirs
      /\ stage.files \in Contents /\ backup.files \in Contents /\ Destination \in Contents
  BY <1>1 DEF Dirs, Destination
<1>5. \A d \in Directories : \A x : Becomes(d, x) =>
          dirs'[d] = x /\ \A e \in Directories \ {d} : dirs'[e] = dirs[e]
  BY <1>1 DEF Becomes
<1>6. "staging" \in Directories /\ "backup" \in Directories /\ "destination" \in Directories
  BY <1>1
<1>7. CASE Remove(u)
  <2>1. at[u] \in {"clearStaging", "clearBackup", "drop", "tidyStaging"}
    BY <1>7 DEF Remove
  <2>2. CASE Works(u) /\ Becomes(Target(u), Gone)
    <3>1. at'[u] = Follows[at[u]]
      BY <1>2, <2>2 DEF Works, Then
    <3>2. CASE at[u] = "clearStaging"
      <4>1. at'[u] = "makeStaging" /\ dirs'["destination"] = dirs["destination"]
        BY <1>5, <1>6, <2>2, <3>1, <3>2, Order DEF Target
      <4> QED BY <1>3, <3>2, <4>1 DEF Safe, Destination
    <3>3. CASE at[u] = "clearBackup"
      <4>1. /\ at'[u] = "makeBackup" /\ dirs'["destination"] = dirs["destination"]
            /\ dirs'["staging"] = stage /\ dirs'["backup"] = Gone
        BY <1>5, <1>6, <2>2, <3>1, <3>3, Order DEF Target
      <4> QED BY <1>3, <3>3, <4>1 DEF Safe, Destination, Gone
    <3>4. CASE at[u] = "drop"
      <4>1. at'[u] = "tidyStaging"
        BY <3>1, <3>4, Order
      <4> QED BY <4>1 DEF Safe
    <3>5. CASE at[u] = "tidyStaging"
      <4>1. at'[u] = "tidyFile"
        BY <3>1, <3>5, Order
      <4> QED BY <4>1 DEF Safe
    <3> QED BY <2>1, <3>2, <3>3, <3>4, <3>5
  <2>3. CASE /\ Fails(u, OnFailure(u))
             /\ \E F \in SUBSET Files :
                   Becomes(Target(u), [dirs[Target(u)] EXCEPT !.files = Without(@, F)])
    <3>1. at[u] = "drop" /\ at'[u] = "restore" /\ faults'[u] = faults[u] + 1
      BY <1>2, <2>1, <2>3 DEF Fails, OnFailure, Ended, Answers
    <3>2. faults[u] = 0 /\ faults'[u] = 1
      BY <1>2, <3>1
    <3>3. backup.files = before[u] /\ Destination = ArchiveOf(u)
      BY <3>1, <3>2 DEF Safe, Saved, Progress
    <3>4. PICK F \in SUBSET Files : Becomes("backup", [backup EXCEPT !.files = Without(@, F)])
      BY <2>3, <3>1 DEF Target
    <3>5. /\ dirs'["backup"].files = Without(before[u], F)
          /\ dirs'["destination"] = dirs["destination"]
      BY <1>4, <1>5, <1>6, <3>3, <3>4 DEF Dirs
    <3>6. \A f \in Files : Without(before[u], F)[f] \in {before[u][f], Absent}
      BY DEF Without
    <3> QED BY <1>3, <3>1, <3>2, <3>3, <3>5, <3>6 DEF Safe, Destination
  <2> QED BY <1>7, <2>2, <2>3 DEF Remove
<1>8. CASE MakeDir(u)
  <2>1. at[u] \in {"makeStaging", "makeBackup"}
    BY <1>8 DEF MakeDir
  <2>2. Works(u) /\ Becomes(Target(u), [dirs[Target(u)] EXCEPT !.there = TRUE])
    BY <1>2, <1>8, <2>1 DEF MakeDir, Fails, OnFailure, Ended, Answers
  <2>3. at'[u] = Follows[at[u]]
    BY <1>2, <2>2 DEF Works, Then
  <2>4. CASE at[u] = "makeStaging"
    <3>1. at'[u] = "unpack" /\ dirs'["destination"] = dirs["destination"]
      BY <1>5, <1>6, <2>2, <2>3, <2>4, Order DEF Target
    <3> QED BY <1>3, <2>4, <3>1 DEF Safe, Destination
  <2>5. CASE at[u] = "makeBackup"
    <3>1. /\ at'[u] = "backup" /\ dirs'["destination"] = dirs["destination"]
          /\ dirs'["staging"] = stage /\ dirs'["backup"] = [backup EXCEPT !.there = TRUE]
      BY <1>5, <1>6, <2>2, <2>3, <2>5, Order DEF Target
    <3>2. dirs'["backup"].there /\ dirs'["backup"].files = backup.files
      BY <1>4, <3>1 DEF Dirs
    <3> QED BY <1>3, <2>5, <3>1, <3>2 DEF Safe, Destination
  <2> QED BY <2>1, <2>4, <2>5
<1>9. CASE Unpack(u)
  <2>1. /\ at[u] = "unpack" /\ Works(u)
        /\ Becomes("staging", Dir(Copied(Unpacked, Files, stage.files)))
    BY <1>2, <1>9 DEF Unpack, Fails, OnFailure, Ended, Answers
  <2>2. at'[u] = "clearBackup"
    BY <1>2, <2>1, Order DEF Works, Then
  <2>3. dirs'["staging"].there /\ dirs'["destination"] = dirs["destination"]
    BY <1>5, <1>6, <2>1 DEF Dir
  <2> QED BY <1>3, <2>1, <2>2, <2>3 DEF Safe, Destination
<1>10. CASE Backup(u)
  <2>1. at[u] = "backup" /\ at'[u] = "clear"
    BY <1>2, <1>10, Order DEF Backup, Then
  <2>2. backup.there /\ backup.files = Empty /\ stage.there /\ Destination = before[u]
    BY <2>1 DEF Safe
  <2>3. /\ dirs'["staging"] = stage /\ dirs'["destination"] = dirs["destination"]
        /\ \/ dirs'["backup"] = Dir(Copied(Destination, Files, Empty))
           \/ faults'[u] = faults[u] + 1
    BY <1>2, <1>5, <1>6, <1>10, <2>2 DEF Backup, Destination
  <2>4. dirs'["backup"].files = before[u] \/ faults'[u] = 1
    <3>1. Copied(Destination, Files, Empty) = before[u]
      BY <1>4, <2>2, ContentsTyped
    <3> QED BY <1>2, <2>3, <3>1 DEF Dir
  <2> QED BY <1>3, <2>1, <2>2, <2>3, <2>4 DEF Safe, Saved, Destination
<1>11. CASE Clear(u)
  <2>1. at[u] = "clear" /\ Destination = before[u] /\ stage.there /\ Saved(u)
    BY <1>11 DEF Clear, Safe
  <2>2. CASE Works(u) /\ Becomes("destination", Dir(Empty))
    <3>1. at'[u] = "install" /\ faults' = faults
      BY <1>2, <2>1, <2>2, Order DEF Works, Then
    <3>2. dirs'["staging"] = stage /\ dirs'["backup"] = backup
      BY <1>5, <1>6, <2>2
    <3> QED BY <1>3, <2>1, <3>1, <3>2 DEF Safe, Saved
  <2>3. CASE /\ Fails(u, OnFailure(u))
             /\ \E F \in SUBSET Files :
                   Becomes("destination", Dir(Without(Destination, F)))
    <3>1. at'[u] = "restore" /\ faults'[u] = 1 /\ faults[u] = 0
      BY <1>2, <2>1, <2>3 DEF Fails, OnFailure
    <3>2. backup.files = before[u]
      BY <2>1, <3>1 DEF Saved
    <3>3. PICK F \in SUBSET Files : Becomes("destination", Dir(Without(Destination, F)))
      BY <2>3
    <3>4. dirs'["backup"] = backup /\ Destination' = Without(before[u], F)
      BY <1>5, <1>6, <2>1, <3>3 DEF Destination, Dir
    <3>5. \A f \in Files : Without(before[u], F)[f] \in {before[u][f], Absent}
      BY DEF Without
    <3> QED BY <1>3, <3>1, <3>2, <3>4, <3>5 DEF Safe
  <2> QED BY <1>11, <2>2, <2>3 DEF Clear, Destination
<1>12. CASE Install(u)
  <2>1. /\ at[u] = "install" /\ Destination = Empty /\ stage.there /\ Saved(u)
        /\ stage.files = ArchiveOf(u)
    BY <1>12 DEF Install, Safe, Progress
  <2>2. CASE Works(u) /\ Becomes("destination", Dir(Copied(stage.files, Files, Destination)))
    <3>1. at'[u] = "drop" /\ faults' = faults
      BY <1>2, <2>1, <2>2, Order DEF Works, Then
    <3>2. dirs'["backup"] = backup
      BY <1>5, <1>6, <2>2
    <3> QED BY <1>3, <2>1, <3>1, <3>2 DEF Safe, Saved
  <2>3. CASE /\ Fails(u, OnFailure(u))
             /\ \E F \in SUBSET Files :
                   Becomes("destination", Dir(Copied(stage.files, F, Destination)))
    <3>1. at'[u] = "restore" /\ faults'[u] = 1 /\ faults[u] = 0
      BY <1>2, <2>1, <2>3 DEF Fails, OnFailure
    <3>2. backup.files = before[u]
      BY <2>1, <3>1 DEF Saved
    <3>3. PICK F \in SUBSET Files : Becomes("destination", Dir(Copied(stage.files, F, Destination)))
      BY <2>3
    <3>4. dirs'["backup"] = backup /\ Destination' = Copied(ArchiveOf(u), F, Empty)
      BY <1>5, <1>6, <2>1, <3>3 DEF Destination, Dir
    <3>5. \A f \in Files : Copied(ArchiveOf(u), F, Empty)[f] \in {ArchiveOf(u)[f], Absent}
      BY DEF Copied, Empty
    <3> QED BY <1>3, <3>1, <3>2, <3>4, <3>5 DEF Safe
  <2> QED BY <1>12, <2>1, <2>2, <2>3 DEF Install, Destination
<1>13. CASE Restore(u)
  BY <1>2, <1>13 DEF Restore, Ended, Answers
<1>14. CASE TidyFile(u)
  BY <1>2, <1>14, Order DEF TidyFile, Works, Fails, Then, OnFailure, Ended, Answers
<1> QED
  BY <1>7, <1>8, <1>9, <1>10, <1>11, <1>12, <1>13, <1>14 DEF Command

\* Every step is.
LEMMA NextSafe == IInv /\ AllSafe /\ [Next]_vars => AllSafe'
<1> SUFFICES ASSUME IInv, AllSafe, [Next]_vars PROVE AllSafe'
  OBVIOUS
<1>1. ASSUME NEW u \in Uploads, Open(u) PROVE AllSafe'
  <2> SUFFICES ASSUME NEW w \in Uploads, alone'[w], Busy(w)', faults[w] <= 1 PROVE Safe(w)'
    BY <1>1 DEF AllSafe, Open
  <2>1. \A v \in Uploads : at'[v] = IF v = u THEN "reading" ELSE at[v]
    BY <1>1 DEF IInv, TypeOK, Open, Goes
  <2>2. w = u
    <3> DEFINE others == {v \in Uploads : Busy(v)}
    <3>1. others # {} => w \notin others \cup {u}
      BY <1>1 DEF Open, IInv, TypeOK
    <3>2. w = u \/ w \in others
      BY <2>1 DEF Busy
    <3> QED BY <3>1, <3>2
  <2>3. before'[u] = Destination /\ dirs' = dirs /\ at'[u] = "reading"
    BY <1>1, <2>1 DEF IInv, TypeOK, Open, Destination
  <2> QED BY <2>2, <2>3 DEF Safe, Destination
<1>2. ASSUME NEW u \in Uploads, Read(u) PROVE AllSafe'
  <2>1. UNCHANGED <<at, dirs, faults, before, alone>>
    BY <1>2 DEF Read
  <2> QED BY <2>1 DEF AllSafe, Safe, Saved, Busy, Destination
<1>3. ASSUME NEW u \in Uploads, ReadError(u) \/ ReadAll(u) \/ Kill(u) PROVE AllSafe'
  <2>1. PICK a \in {"refused", "clearStaging", "killed"} : Goes(u, a)
    BY <1>3 DEF ReadError, ReadAll, Kill, Fails, First
  <2>2. /\ Busy(u) /\ UNCHANGED <<alone, before, dirs>> /\ faults[u] \in Nat
        /\ faults'[u] \in Nat /\ faults'[u] >= faults[u] /\ at'[u] = a
        /\ a = "clearStaging" => at[u] = "reading" /\ faults' = faults
    BY <1>3, <2>1
       DEF ReadError, ReadAll, Kill, Fails, Faulty, First, Busy, Ended, Answers, IInv, TypeOK, Goes
  <2>3. Safe(u) /\ a \notin Ended => Safe(u)'
    BY <2>1, <2>2 DEF Safe, Destination, Ended, Answers
  <2> QED BY <2>1, <2>2, <2>3, StepSafe
<1>4. ASSUME NEW u \in Uploads, Command(u) PROVE AllSafe'
  <2>1. PICK a \in {"restore", "failed"} \cup {Follows[b] : b \in DOMAIN Follows} : Goes(u, a)
    BY <1>4, CommandGoes
  <2>2. a # "new" /\ at'[u] = a /\ Busy(u)
    <3>1. a # "new" /\ at'[u] = a
      BY <2>1, Order DEF Goes, IInv, TypeOK
    <3> QED BY <1>4, <3>1, CommandGoes
  <2>3. faults[u] \in Nat /\ faults'[u] \in Nat /\ UNCHANGED <<alone, before>>
    BY <1>4, CommandKeeps DEF IInv, TypeOK
  <2>4. faults'[u] >= faults[u]
    <3>1. faults' = faults \/ Faulty(u)
      BY <1>4 DEF Command, Remove, MakeDir, Unpack, Backup, Clear, Install, Restore, TidyFile,
                  Works, Fails
    <3> QED BY <2>3, <3>1 DEF Faulty, IInv, TypeOK
  <2>5. faults'[u] <= 1 /\ Progress(u) /\ Safe(u) /\ a \notin Ended => Safe(u)'
    BY <1>4, <2>2, CommandSafe
  <2> QED BY <2>1, <2>2, <2>3, <2>4, <2>5, StepSafe
<1>5. CASE UNCHANGED vars
  BY <1>5 DEF vars, AllSafe, Safe, Saved, Busy, Destination
<1> QED BY <1>1, <1>2, <1>3, <1>4, <1>5 DEF Next

\* And so it stays.
LEMMA InvariantSafe == Spec => [](IInv /\ AllSafe)
<1>1. Init => AllSafe
  BY DEF Init, AllSafe, Busy
<1> QED BY <1>1, Invariant, NextSafe, PTL DEF Spec

\* So is the last command of an upload that fails.
LEMMA FailingIsSafe ==
    ASSUME IInv, AllSafe, NEW u \in Uploads, Command(u), alone[u], faults'[u] <= 1,
           at[u] \notin Ended, at'[u] \in {"failed", "refused"}
    PROVE  /\ \A f \in Files : Destination'[f] \in {before[u][f], ArchiveOf(u)[f]}
           /\ at[u] \in {"reading", "clearStaging", "makeStaging", "unpack"} =>
                 Destination' = before[u]
<1>1. /\ at \in [Uploads -> {"new", "reading", "restore"} \cup DOMAIN Follows \cup Ended]
      /\ dirs \in [Directories -> Dirs] /\ faults \in [Uploads -> Nat]
      /\ Directories = {"staging", "backup", "destination"}
  BY DEF IInv, TypeOK, Dirs, Directories
<1>2. /\ \A a : Goes(u, a) => at'[u] = a
      /\ Faulty(u) => faults'[u] = faults[u] + 1
      /\ faults[u] \in Nat /\ Busy(u)
  BY <1>1, CommandGoes DEF Goes, Faulty
<1>3. faults' = faults \/ Faulty(u)
  BY DEF Command, Remove, MakeDir, Unpack, Backup, Clear, Install, Restore, TidyFile, Works, Fails
<1>4. faults[u] <= 1
  BY <1>2, <1>3
<1>5. Safe(u) /\ Progress(u)
  BY <1>2, <1>4 DEF AllSafe, IInv
<1>6. /\ at[u] \in DOMAIN Follows => Follows[at[u]] \notin {"failed", "refused"}
      /\ at[u] \notin {"clear", "install", "drop"}
  BY <1>2, Order
     DEF Command, Remove, MakeDir, Unpack, Backup, Clear, Install, Restore, TidyFile,
         Works, Fails, Then, OnFailure
<1>7. CASE at[u] = "restore"
  <2>1. faults[u] = 1 /\ ~Faulty(u)
    BY <1>2, <1>5, <1>7 DEF Safe
  <2>2. Becomes("destination", Dir(Copied(dirs["backup"].files, Files, Destination)))
    BY <1>7, <2>1
       DEF Command, Remove, MakeDir, Unpack, Backup, Clear, Install, Restore, TidyFile,
           Destination
  <2>3. Destination' = Copied(dirs["backup"].files, Files, Destination)
    BY <1>1, <2>2 DEF Becomes, Destination, Dir
  <2>4. ASSUME NEW f \in Files PROVE Destination'[f] \in {before[u][f], ArchiveOf(u)[f]}
    <3>1. Destination'[f] = IF dirs["backup"].files[f] # Absent
                            THEN dirs["backup"].files[f] ELSE Destination[f]
      BY <2>3 DEF Copied
    <3> QED BY <1>5, <1>7, <3>1 DEF Safe
  <2> QED BY <1>7, <2>4
<1>8. CASE at[u] \in {"tidyStaging", "tidyFile"}
  <2>1. Destination = ArchiveOf(u)
    BY <1>5, <1>8 DEF Progress
  <2>2. Destination' = Destination
    BY <1>1, <1>8
       DEF Command, Remove, MakeDir, Unpack, Backup, Clear, Install, Restore, TidyFile,
           Becomes, Target, Destination
  <2> QED BY <1>8, <2>1, <2>2
<1>9. CASE at[u] \in {"clearStaging", "makeStaging", "unpack", "clearBackup", "makeBackup",
                      "backup"}
  <2>1. Destination = before[u]
    BY <1>5, <1>9 DEF Safe
  <2>2. Destination' = Destination
    BY <1>1, <1>9
       DEF Command, Remove, MakeDir, Unpack, Backup, Clear, Install, Restore, TidyFile,
           Becomes, Target, Destination
  <2> QED BY <2>1, <2>2
<1> QED
  BY <1>6, <1>7, <1>8, <1>9
     DEF Command, Remove, MakeDir, Unpack, Backup, Clear, Install, Restore, TidyFile

\* Whatever uploads came before, and whatever became of them, the model's
\* variables keep their types.
THEOREM UploadsTyped == Spec => []TypeOK
BY Invariant, PTL DEF IInv

\* For any number of uploads, failures and kills: an upload that was answered
\* with 200 and ran alone has left exactly the files of its archive in the
\* destination (the commands of api.lua:308-331).
THEOREM InstalledAlone == Spec => Installed
<1>1. IInv /\ [Next]_vars => [InstallsItsArchive]_vars
  <2>. SUFFICES ASSUME IInv, Next, NEW u \in Uploads, Ends(u, {"saved"}), alone[u]
                PROVE  Destination' = ArchiveOf(u)
    BY DEF InstallsItsArchive
  <2>1. PICK v \in Uploads :
           Open(v) \/ Read(v) \/ ReadError(v) \/ ReadAll(v) \/ Command(v) \/ Kill(v)
    BY DEF Next
  <2>2. at[u] \notin Ended /\ at'[u] = "saved"
    BY DEF Ends
  <2>3. v = u /\ Command(u)
    <3>. USE Order DEF IInv, TypeOK, Ended, Answers, Goes
    <3>1. CASE Open(v) \/ Read(v)
      BY <2>2, <3>1 DEF Open, Read
    <3>2. CASE ReadError(v) \/ ReadAll(v) \/ Kill(v)
      BY <2>2, <3>2 DEF ReadError, ReadAll, Kill, Fails, First
    <3>3. CASE Command(v)
      <4>1. at'[u] # at[u]
        BY <2>2
      <4>. QED
        BY ONLY <3>3, <4>1, CommandMovesOne, IInv, v \in Uploads, u \in Uploads
    <3>. QED
      BY <2>1, <3>1, <3>2, <3>3
  <2>4. at[u] = "tidyFile"
    <3>1. \A a : Goes(u, a) => at'[u] = a
      BY DEF IInv, TypeOK, Goes
    <3>2. at[u] \in DOMAIN Follows /\ Follows[at[u]] = "saved"
      BY <2>2, <2>3, <3>1, CommandGoes
    <3>. QED
      BY <3>2, Order
  <2>5. Progress(u)
    BY <2>3, CommandGoes DEF IInv
  <2>6. dirs' = dirs
    BY <2>3, <2>4 DEF Command, Remove, MakeDir, Unpack, Backup, Clear, Install, Restore, TidyFile
  <2>. QED
    BY <2>4, <2>5, <2>6 DEF Progress, Destination
<1>. QED
  BY <1>1, Invariant, PTL DEF Spec, Installed

\* The same for an upload that fails.  "if cp fails, restore from backup" (api.lua:307): one
\* that ran alone and failed at one command has left every file as it was or as its archive has
\* it, and all of them as they were if the archive was not unpacked.
THEOREM FailsSafely == Spec => NothingLost
<1>1. IInv /\ AllSafe /\ [Next]_vars => [LosesNothing]_vars
  <2> SUFFICES ASSUME IInv, AllSafe, Next, NEW u \in Uploads, Ends(u, {"failed", "refused"}),
                      alone[u], faults'[u] <= 1
               PROVE  /\ \A f \in Files : Destination'[f] \in {before[u][f], ArchiveOf(u)[f]}
                      /\ at[u] \in {"reading", "clearStaging", "makeStaging", "unpack"} =>
                            Destination' = before[u]
    BY DEF LosesNothing
  <2>1. PICK v \in Uploads :
           Open(v) \/ Read(v) \/ ReadError(v) \/ ReadAll(v) \/ Command(v) \/ Kill(v)
    BY DEF Next
  <2>2. at[u] \notin Ended /\ at'[u] \in {"failed", "refused"}
    BY DEF Ends
  <2>3. v = u /\ (ReadError(u) \/ Command(u))
    <3>. USE Order DEF IInv, TypeOK, Ended, Answers, Goes
    <3>1. CASE Open(v) \/ Read(v)
      BY <2>2, <3>1 DEF Open, Read
    <3>2. CASE ReadAll(v) \/ Kill(v)
      BY <2>2, <3>2 DEF ReadAll, Kill, First
    <3>3. CASE ReadError(v)
      BY <2>2, <3>3 DEF ReadError, Fails
    <3>4. CASE Command(v)
      <4>1. at'[u] # at[u]
        BY <2>2
      <4>. QED
        BY ONLY <3>4, <4>1, CommandMovesOne, IInv, v \in Uploads, u \in Uploads
    <3>. QED
      BY <2>1, <3>1, <3>2, <3>3, <3>4
  <2>4. CASE ReadError(u)
    <3>1. at[u] = "reading" /\ dirs' = dirs /\ faults[u] <= 1 /\ Busy(u)
      BY <2>4 DEF ReadError, Fails, Faulty, IInv, TypeOK, Busy, Ended, Answers
    <3>2. Destination = before[u]
      BY <3>1 DEF AllSafe, Safe
    <3> QED BY <3>1, <3>2 DEF Destination
  <2>5. CASE Command(u)
    BY <2>2, <2>5, FailingIsSafe
  <2> QED BY <2>3, <2>4, <2>5
<1> QED BY <1>1, InvariantSafe, PTL DEF Spec, NothingLost
=============================================================================
