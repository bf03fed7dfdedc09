---------------------------- MODULE CommitStaged ----------------------------
(***************************************************************************)
(* commit_staged, the function that moves a packed output from its         *)
(* `<name>.tmp` to its destination, one system call at a time.  Every call *)
(* may fail, and the process may end between any two of them; a later      *)
(* process then commits in a directory with what was left behind.          *)
(*                                                                         *)
(* The commits come one after the other, as the worker of the one          *)
(* conversion makes them (ConversionSession proves there is one).  What a  *)
(* file holds is abstracted to the commit that brought it, and to whether  *)
(* it is whole.                                                            *)
(***************************************************************************)
EXTENDS Naturals, CommitOutcome

CONSTANTS
  Targets,    \* output paths
  Commits,    \* identities of the commits (bounds their number)
  MaxBackup,  \* bound on the index of `.<name>.romx-backup-<index>`
  Original,   \* content of the files that were there before
  NoCommit    \* no commit is under way

Slots == 1..MaxBackup
Whole == Commits \union {Original}
Content == Whole \union {Absent, Torn}

ASSUME CommitAssumption ==
  /\ MaxBackup \in Nat
  /\ Original \notin Commits
  /\ Absent \notin Whole /\ Torn \notin Whole
  /\ Absent # Torn
  /\ NoCommit \notin [id : Commits, target : Targets, replace : BOOLEAN]

VARIABLES
  file,      \* file[t]: what target t holds
  backups,   \* backups[t][i]: what its backup number i holds
  staged,    \* the `.tmp` of the commit under way is there
  pc,        \* where commit_staged stands
  current,   \* its arguments
  backup,    \* its local of that name: the index of the backup, 0 for None
  result,    \* what each commit returned
  disturbed  \* history: targets a crash or a failed restore left without output

vars == <<file, backups, staged, pc, current, backup, result, disturbed>>

Labels == {"idle", "check", "backup", "rename", "copy", "copying", "unstage", "restore", "clean"}

TypeOK ==
  /\ file \in [Targets -> Content]
  /\ backups \in [Targets -> [Slots -> Content]]
  /\ staged \in BOOLEAN
  /\ pc \in Labels
  /\ current \in [id : Commits, target : Targets, replace : BOOLEAN] \union {NoCommit}
  /\ backup \in Slots \union {0}
  /\ result \in [Commits -> {"none", "running", "ok", "error", "crashed"}]
  /\ disturbed \subseteq Targets

Init ==
  /\ file \in [Targets -> {Absent, Original}]
  /\ backups = [t \in Targets |-> [i \in Slots |-> Absent]]
  /\ staged = FALSE
  /\ pc = "idle" /\ current = NoCommit /\ backup = 0
  /\ result = [c \in Commits |-> "none"]
  /\ disturbed = {}

------------------------------------------------------------------------------

T == current.target
At(label) == pc = label
Goto(label) == pc' = label
SetFile(content) == file' = [file EXCEPT ![T] = content]
SetBackup(i, content) == backups' = [backups EXCEPT ![T] = [backups[T] EXCEPT ![i] = content]]

\* The function returns; its locals go.
Return(outcome) ==
  /\ pc' = "idle" /\ current' = NoCommit /\ backup' = 0
  /\ result' = [result EXCEPT ![current.id] = outcome]

\* A worker calls commit_staged with an output it has packed.
Call(c, t, replace) ==
  /\ At("idle") /\ result[c] = "none"
  /\ current' = [id |-> c, target |-> t, replace |-> replace]
  /\ staged' = TRUE
  /\ result' = [result EXCEPT ![c] = "running"]
  /\ Goto("check")
  /\ UNCHANGED <<file, backups, backup, disturbed>>

\* Without `replace` a target that exists is an error.
Refuses == ~current.replace /\ file[T] # Absent

Check ==
  /\ At("check")
  /\ \/ Refuses /\ Return("error")
     \/ ~Refuses /\ Goto("backup") /\ UNCHANGED <<current, backup, result>>
  /\ UNCHANGED <<file, backups, staged, disturbed>>

\* Defect: always the first backup name.
FirstFree_One(i) == i = 1

\* backup_target: the first index whose name is free.
FirstFree(i) ==
  backups[T][i] = Absent /\ \A j \in 1..(i - 1) : backups[T][j] # Absent

\* The old output is renamed to the backup, if there is one to replace.
Backup ==
  /\ At("backup")
  /\ \/ /\ ~(current.replace /\ file[T] # Absent)
        /\ Goto("rename")
        /\ UNCHANGED <<file, backups, current, backup, result>>
     \/ /\ current.replace /\ file[T] # Absent
        /\ \E i \in Slots :
             /\ FirstFree(i)
             /\ SetBackup(i, file[T])
             /\ backup' = i
        /\ SetFile(Absent)
        /\ Goto("rename")
        /\ UNCHANGED <<current, result>>
     \/ /\ current.replace /\ file[T] # Absent
        /\ Return("error")
        /\ UNCHANGED <<file, backups>>
  /\ UNCHANGED <<staged, disturbed>>

\* fs::rename(staged, target).
Rename ==
  /\ At("rename")
  /\ \/ /\ SetFile(current.id)
        /\ staged' = FALSE
        /\ Goto("clean")
     \/ /\ Goto("copy")
        /\ UNCHANGED <<file, staged>>
  /\ UNCHANGED <<backups, current, backup, result, disturbed>>

\* fs::copy opens the target, or fails to.
CopyOpen ==
  /\ At("copy")
  /\ \/ SetFile(Torn) /\ Goto("copying")
     \/ Goto("restore") /\ UNCHANGED file
  /\ UNCHANGED <<backups, staged, current, backup, result, disturbed>>

\* Defect: a copy that fails takes the staged file with it.
CopyRest_DropsStaged ==
  /\ At("copying")
  /\ \/ SetFile(current.id) /\ Goto("unstage") /\ UNCHANGED staged
     \/ Goto("restore") /\ staged' = FALSE /\ UNCHANGED file
  /\ UNCHANGED <<backups, current, backup, result, disturbed>>

\* fs::copy ends, or fails half-way and leaves what it wrote.
CopyRest ==
  /\ At("copying")
  /\ \/ SetFile(current.id) /\ Goto("unstage")
     \/ Goto("restore") /\ UNCHANGED file
  /\ UNCHANGED <<backups, staged, current, backup, result, disturbed>>

\* The staged file is removed after a copy; when that fails the function returns
\* with the output in place and the backup left where it is.
Unstage ==
  /\ At("unstage")
  /\ \/ staged' = FALSE /\ Goto("clean") /\ UNCHANGED <<current, backup, result>>
     \/ Return("error") /\ UNCHANGED staged
  /\ UNCHANGED <<file, backups, disturbed>>

\* Defect: the backup is not renamed back.
RestoresFrom_Never(i) == FALSE

\* Whether there is a backup to rename back.
RestoresFrom(i) == i # 0

\* Neither rename nor copy worked: the backup is renamed back, and whether that
\* worked is not looked at.
Restore ==
  /\ At("restore")
  /\ \/ /\ RestoresFrom(backup)
        /\ SetFile(backups[T][backup])
        /\ SetBackup(backup, Absent)
        /\ UNCHANGED disturbed
     \/ /\ RestoresFrom(backup)
        /\ disturbed' = disturbed \union {T}
        /\ UNCHANGED <<file, backups>>
     \/ /\ ~RestoresFrom(backup)
        /\ UNCHANGED <<file, backups, disturbed>>
  /\ Return("error")
  /\ UNCHANGED staged

\* The backup is removed; when that fails the output is in place all the same.
Clean ==
  /\ At("clean")
  /\ \/ /\ backup = 0
        /\ Return("ok")
        /\ UNCHANGED backups
     \/ /\ backup # 0
        /\ SetBackup(backup, Absent)
        /\ Return("ok")
     \/ /\ backup # 0
        /\ Return("error")
        /\ UNCHANGED backups
  /\ UNCHANGED <<file, staged, disturbed>>

\* The process ends in the middle of a commit.
Crash ==
  /\ ~At("idle")
  /\ disturbed' = disturbed \union {T}
  /\ Return("crashed")
  /\ UNCHANGED <<file, backups, staged>>

Step == Check \/ Backup \/ Rename \/ CopyOpen \/ CopyRest \/ Unstage \/ Restore \/ Clean

Next ==
  \/ \E c \in Commits, t \in Targets, replace \in BOOLEAN : Call(c, t, replace)
  \/ Step
  \/ Crash

Spec == Init /\ [][Next]_vars

------------------------------------------------------------------------------

\* The whole outputs that exist for a target, under its own name or a backup's.
Have == [t \in Targets |-> {x \in Whole : x = file[t] \/ \E i \in Slots : backups[t][i] = x}]

\* commit_staged keeps the promise of ReplaceOutput through every failure and crash,
\* a later commit's included: no whole output is overwritten, removed or left out of
\* sight of both names unless a whole new one took its place by a commit that may replace.
Promise == INSTANCE ReplaceOutput WITH have <- Have
KeepsPromise == Promise!Spec

\* What the target of the commit under way held before.
HeldBefore == IF pc \in {"check", "backup"} THEN file[T]
          ELSE IF backup = 0 THEN Absent ELSE backups[T][backup]

\* Every target as it was before the commit under way.
FileBefore == IF current = NoCommit THEN file ELSE [file EXCEPT ![T] = HeldBefore]

\* commit_staged is the one step that ConversionSession takes it for: whatever fails
\* inside and whenever the process ends, it leaves one of CommitOutcomes at the
\* target and of the staged file, and nothing else changes.
AsOneStep == INSTANCE OneStepCommit
               WITH file <- FileBefore, staged <- staged \/ current # NoCommit
CommitsInOneStep == AsOneStep!Spec

\* A commit that returns an error gives the target back: a target that held a whole
\* output before holds the old one or the new one when no commit is under way, unless
\* the process ended in the middle or the rename back failed too.
TargetGivenBack ==
  \A t \in Targets :
    pc = "idle" /\ Have[t] # {} /\ t \notin disturbed => file[t] \in Whole

\* The new output is not lost either: as long as commit_staged has not returned it is
\* there whole, staged or at the target.
NewOutputKept == current # NoCommit => staged \/ file[T] = current.id
=============================================================================
