------------------------------ MODULE Uploads ------------------------------
(***************************************************************************)
(* An instance receives an archive (POST /confs, /data, /cache,            *)
(* /custom_configs, /plugins, /pro_plugins; bw/lua/bunkerweb/api.lua): the *)
(* body goes to a file in /var/tmp/bunkerweb, is unpacked into a staging   *)
(* directory, and replaces the files of the destination, of which a backup *)
(* is made first.                                                          *)
(*                                                                         *)
(* The file and both directories have one name per kind of upload.  The    *)
(* commands block one worker only and the scheduler gives up on an answer  *)
(* after 10 s, so that a second upload of the kind may begin in another    *)
(* worker before the first has ended.  A command may fail half-way, and    *)
(* the worker of an upload may be killed.                                  *)
(*                                                                         *)
(* A directory maps every file to the upload it came from.  Hidden files,  *)
(* which "rm -rf <destination>/*" leaves in place, are not kept.           *)
(***************************************************************************)
EXTENDS Naturals

CONSTANTS
    Uploads,     \* the uploads of one kind
    Original,    \* where the files come from that are there at first
    Absent,      \* no such file
    Files,       \* names of files
    Holds,       \* Holds[u]: the files of the archive of u; also Holds[Original]
    Chunks,      \* the pieces the body arrives in
    MaxFaults,   \* bound: commands that fail
    MaxKills     \* bound: uploads whose worker is killed

ASSUME SourcesAssumption ==
    /\ Original \notin Uploads /\ Absent \notin Uploads \cup {Original}
    /\ Holds \in [Uploads \cup {Original} -> SUBSET Files]
    /\ Chunks \in Nat \ {0}

VARIABLES
    at,       \* at[u]: the command upload u is at
    read,     \* read[u]: the pieces of its body that were read
    tmp,      \* the temporary file: which upload wrote each piece
    fds,      \* the uploads that have the temporary file of that name open
    dirs,     \* the staging, backup and destination directories
    faults,   \* faults[u]: the commands of u that have failed
    kills,    \* workers killed so far
    before,   \* history: the destination when u began
    alone     \* history: no other upload was in progress during u

vars == <<at, read, tmp, fds, dirs, faults, kills, before, alone>>

Sources == Uploads \cup {Original, Absent}
Contents == [Files -> Sources]
Empty == [f \in Files |-> Absent]
ArchiveOf(u) == [f \in Files |-> IF f \in Holds[u] THEN u ELSE Absent]

\* cp -R of the files F of a over b.
Copied(a, F, b) == [f \in Files |-> IF f \in F /\ a[f] # Absent THEN a[f] ELSE b[f]]
Without(a, F) == [f \in Files |-> IF f \in F THEN Absent ELSE a[f]]

Gone == [there |-> FALSE, files |-> Empty]
Dir(files) == [there |-> TRUE, files |-> files]
Directories == {"staging", "backup", "destination"}

Answers == {"saved", "failed", "refused"}
Ended == Answers \cup {"killed"}
Busy(u) == at[u] \notin Ended \cup {"new"}

\* The order of the commands; the last loop of the handler stops at the first
\* that fails.
Follows ==
    [clearStaging |-> "makeStaging", makeStaging |-> "unpack", unpack |-> "clearBackup",
     clearBackup |-> "makeBackup", makeBackup |-> "backup", backup |-> "clear",
     clear |-> "install", install |-> "drop", drop |-> "tidyStaging",
     tidyStaging |-> "tidyFile", tidyFile |-> "saved"]
FirstNoClear == "makeStaging"   \* mutant: what is staged already stays
\* mutant: the backup is made once the destination has been emptied
FollowsClearFirst ==
    [Follows EXCEPT !.unpack = "clear", !.clear = "clearBackup", !.backup = "install"]
ThenClearFirst(u) == FollowsClearFirst[at[u]]
Then(u) == Follows[at[u]]
First == "clearStaging"

Unwritten == [c \in 1 .. Chunks |-> Absent]
NoFile == [there |-> FALSE, by |-> Unwritten]

TypeOK ==
    /\ at \in [Uploads -> {"new", "reading", "restore"} \cup DOMAIN Follows \cup Ended]
    /\ read \in [Uploads -> 0 .. Chunks]
    /\ tmp \in [there : BOOLEAN, by : [1 .. Chunks -> Uploads \cup {Absent}]]
    /\ fds \in SUBSET Uploads
    /\ dirs \in [Directories -> [there : BOOLEAN, files : Contents]]
    /\ faults \in [Uploads -> Nat]
    /\ kills \in Nat
    /\ before \in [Uploads -> Contents]
    /\ alone \in [Uploads -> BOOLEAN]

Init ==
    /\ at = [u \in Uploads |-> "new"]
    /\ read = [u \in Uploads |-> 0]
    /\ tmp = NoFile /\ fds = {}
    /\ dirs = [d \in Directories |-> IF d = "destination" THEN Dir(ArchiveOf(Original)) ELSE Gone]
    /\ faults = [u \in Uploads |-> 0]
    /\ kills = 0
    /\ before = [u \in Uploads |-> Empty]
    /\ alone = [u \in Uploads |-> TRUE]

Goes(u, next) == at' = [at EXCEPT ![u] = next]
Works(u) == Goes(u, Then(u)) /\ UNCHANGED faults
Faulty(u) == faults[u] < MaxFaults /\ faults' = [faults EXCEPT ![u] = @ + 1]
Fails(u, next) == Faulty(u) /\ Goes(u, next)
Keeps == UNCHANGED <<read, tmp, fds, kills, before, alone>>
Becomes(d, dir) == dirs' = [dirs EXCEPT ![d] = dir]

(***************************************************************************)
(* The body.  The file is truncated by the upload that opens it; every     *)
(* descriptor writes at its own place.  A file that was removed meanwhile  *)
(* is written to in vain.                                                  *)
(***************************************************************************)
Open(u) ==
    LET others == {v \in Uploads : Busy(v)}
    IN /\ at[u] = "new"
       /\ Goes(u, "reading")
       /\ tmp' = [there |-> TRUE, by |-> Unwritten]
       /\ fds' = IF tmp.there THEN fds \cup {u} ELSE {u}
       /\ before' = [before EXCEPT ![u] = dirs["destination"].files]
       /\ alone' = [v \in Uploads |-> alone[v] /\ (others # {} => v \notin others \cup {u})]
       /\ UNCHANGED <<read, dirs, faults, kills>>

MoreToReadOneMore(u) == read[u] <= Chunks   \* mutant: off by one
MoreToRead(u) == read[u] < Chunks

Read(u) ==
    /\ at[u] = "reading" /\ MoreToRead(u)
    /\ read' = [read EXCEPT ![u] = @ + 1]
    /\ tmp' = IF u \in fds THEN [tmp EXCEPT !.by[read[u] + 1] = u] ELSE tmp
    /\ UNCHANGED <<at, fds, dirs, faults, kills, before, alone>>

\* form:read() reports an error, a timeout say: 400, and the file is left.
ReadError(u) ==
    /\ at[u] = "reading" /\ Fails(u, "refused")
    /\ fds' = fds \ {u}
    /\ UNCHANGED <<read, tmp, dirs, kills, before, alone>>

ReadAll(u) ==
    /\ at[u] = "reading" /\ read[u] = Chunks
    /\ Goes(u, First)
    /\ fds' = fds \ {u}
    /\ UNCHANGED <<read, tmp, dirs, faults, kills, before, alone>>

(***************************************************************************)
(* The commands, one action each.  A removal or a copy that fails has done *)
(* some of its work.                                                       *)
(***************************************************************************)
\* rm -rf of the staging and backup directories.
Target(u) == IF at[u] \in {"clearBackup", "makeBackup", "drop"} THEN "backup" ELSE "staging"

\* What comes after a command that fails: 500, or, within the last group of
\* commands, copying the backup back.
OnFailure(u) == IF at[u] \in {"clear", "install", "drop"} THEN "restore" ELSE "failed"

Remove(u) ==
    LET d == Target(u)
    IN /\ at[u] \in {"clearStaging", "clearBackup", "drop", "tidyStaging"}
       /\ \/ Works(u) /\ Becomes(d, Gone)
          \/ /\ Fails(u, OnFailure(u))
             /\ \E F \in SUBSET Files :
                   Becomes(d, [dirs[d] EXCEPT !.files = Without(@, F)])
       /\ Keeps

MakeDir(u) ==
    LET d == Target(u)
    IN /\ at[u] \in {"makeStaging", "makeBackup"}
       /\ \/ Works(u) /\ Becomes(d, [dirs[d] EXCEPT !.there = TRUE])
          \/ Fails(u, OnFailure(u)) /\ UNCHANGED dirs
       /\ Keeps

\* tar xzf: an archive written by two uploads is broken.
Whole == tmp.there /\ \E v \in Uploads : \A c \in 1 .. Chunks : tmp.by[c] = v
Unpacked == ArchiveOf(tmp.by[1])

Unpack(u) ==
    LET d == dirs["staging"]
    IN /\ at[u] = "unpack"
       /\ \/ /\ Whole /\ d.there
             /\ Works(u)
             /\ Becomes("staging", Dir(Copied(Unpacked, Files, d.files)))
          \/ /\ Whole /\ d.there
             /\ Fails(u, OnFailure(u))
             /\ \E F \in SUBSET Files : Becomes("staging", Dir(Copied(Unpacked, F, d.files)))
          \/ /\ ~(Whole /\ d.there)
             /\ Goes(u, OnFailure(u))
             /\ UNCHANGED <<dirs, faults>>
       /\ Keeps

\* "cp -R <destination>/. <backup>/ 2>/dev/null; true": whatever happens.
Backup(u) ==
    LET all == dirs["destination"].files
        d == dirs["backup"]
    IN /\ at[u] = "backup"
       /\ Goes(u, Then(u))
       /\ \/ /\ d.there /\ UNCHANGED faults
             /\ Becomes("backup", Dir(Copied(all, Files, d.files)))
          \/ /\ d.there /\ Faulty(u)
             /\ \E F \in SUBSET Files : Becomes("backup", Dir(Copied(all, F, d.files)))
          \/ ~d.there /\ UNCHANGED <<dirs, faults>>
       /\ Keeps

\* "rm -rf <destination>/*", the first of the group.
Clear(u) ==
    /\ at[u] = "clear"
    /\ \/ Works(u) /\ Becomes("destination", Dir(Empty))
       \/ /\ Fails(u, OnFailure(u))
          /\ \E F \in SUBSET Files :
                Becomes("destination", Dir(Without(dirs["destination"].files, F)))
    /\ Keeps

Install(u) ==
    LET d == dirs["staging"]
        all == dirs["destination"].files
    IN /\ at[u] = "install"
       /\ \/ /\ d.there /\ Works(u)
             /\ Becomes("destination", Dir(Copied(d.files, Files, all)))
          \/ /\ d.there /\ Fails(u, OnFailure(u))
             /\ \E F \in SUBSET Files : Becomes("destination", Dir(Copied(d.files, F, all)))
          \/ ~d.there /\ Goes(u, OnFailure(u)) /\ UNCHANGED <<dirs, faults>>
       /\ Keeps

\* "|| { cp -R <backup>/. <destination>/ 2>/dev/null; false; }"
Restore(u) ==
    LET d == dirs["backup"]
        all == dirs["destination"].files
    IN /\ at[u] = "restore"
       /\ Goes(u, "failed")
       /\ \/ /\ UNCHANGED faults
             /\ Becomes("destination", Dir(Copied(d.files, Files, all)))
          \/ /\ Faulty(u)
             /\ \E F \in SUBSET Files : Becomes("destination", Dir(Copied(d.files, F, all)))
       /\ Keeps

TidyFile(u) ==
    /\ at[u] = "tidyFile"
    /\ \/ /\ Works(u)
          /\ tmp' = NoFile /\ fds' = {}
       \/ Fails(u, OnFailure(u)) /\ UNCHANGED <<tmp, fds>>
    /\ UNCHANGED <<read, dirs, kills, before, alone>>

\* The worker of u dies; what it was doing stays half-done.
Kill(u) ==
    /\ Busy(u) /\ kills < MaxKills
    /\ kills' = kills + 1
    /\ Goes(u, "killed")
    /\ fds' = fds \ {u}
    /\ UNCHANGED <<read, tmp, dirs, faults, before, alone>>

Command(u) ==
    \/ Remove(u) \/ MakeDir(u) \/ Unpack(u) \/ Backup(u) \/ Clear(u) \/ Install(u)
    \/ Restore(u) \/ TidyFile(u)

Next ==
    \E u \in Uploads : Open(u) \/ Read(u) \/ ReadError(u) \/ ReadAll(u) \/ Command(u) \/ Kill(u)

Spec == Init /\ [][Next]_vars

-----------------------------------------------------------------------------
Destination == dirs["destination"].files

Ends(u, answers) == at[u] \notin Ended /\ at'[u] \in answers

\* An upload that was answered with 200 and ran alone has installed its archive:
\* the destination holds its files and no others, whatever earlier uploads left
\* behind in the temporary file, the staging and the backup directory when they
\* failed, were killed or got in each other's way.
InstallsItsArchive ==
    \A u \in Uploads : Ends(u, {"saved"}) /\ alone[u] => Destination' = ArchiveOf(u)
Installed == [][InstallsItsArchive]_vars

\* "if cp fails, restore from backup" (api.lua:307): after an upload that ran
\* alone and failed at one command, no file is missing or half-way: each is as it
\* was or as the archive has it; and if the archive was never unpacked nothing
\* has changed.  (Both may be mixed: new files stay when the old ones are copied
\* back, and when it is the backup that cannot be removed.)
LosesNothing ==
    \A u \in Uploads : Ends(u, {"failed", "refused"}) /\ alone[u] /\ faults'[u] <= 1 =>
        /\ \A f \in Files : Destination'[f] \in {before[u][f], ArchiveOf(u)[f]}
        /\ at[u] \in {"reading", "clearStaging", "makeStaging", "unpack"} =>
              Destination' = before[u]
NothingLost == [][LosesNothing]_vars
=============================================================================
