-------------------------- MODULE CommitStagedProofs --------------------------
(***************************************************************************)
(* For any number of targets, commits and backups: commit_staged keeps the *)
(* types, loses neither the old output nor the new one, gives the target   *)
(* back after an error, and implements ReplaceOutput and, for its callers, *)
(* OneStepCommit.                                                          *)
(***************************************************************************)
EXTENDS CommitStaged, TLAPS

\* What each point of commit_staged knows: the target is free before the output is
\* moved there and holds it after, the staged file is there until then and gone when
\* the backup is removed, and only a commit that may replace has a backup.
PointInv ==
  /\ pc = "idle" <=> current = NoCommit
  /\ pc = "idle" => backup = 0
  /\ pc = "check" => backup = 0
  /\ pc = "backup" => backup = 0 /\ (current.replace \/ file[T] = Absent)
  /\ pc \in {"rename", "copy"} => file[T] = Absent
  /\ pc = "copying" => file[T] = Torn
  /\ pc = "restore" => file[T] \in {Absent, Torn}
  /\ pc \in {"unstage", "clean"} => file[T] = current.id
  /\ pc \in {"check", "backup", "rename", "copy", "copying", "restore"} => staged
  /\ pc = "clean" => ~staged
  /\ backup # 0 => current.replace

\* An undisturbed target that has a whole output holds one, or its commit has it in
\* the backup it will rename back.
BackInv ==
  \A t \in Targets : Have[t] # {} /\ t \notin disturbed =>
    \/ file[t] \in Whole
    \/ /\ pc \in {"rename", "copy", "copying", "restore"} /\ t = T
       /\ backup # 0 /\ backups[t][backup] \in Whole

LEMMA TypeInit == Init => TypeOK
<1> SUFFICES ASSUME Init PROVE TypeOK
  OBVIOUS
<1>1. file \in [Targets -> Content]
  BY DEF Init, Content, Whole
<1>2. backups \in [Targets -> [Slots -> Content]]
  BY DEF Init, Content
<1> QED
  BY <1>1, <1>2 DEF Init, TypeOK, Labels

\* While a commit is under way it has a target, an identity and a flag.
LEMMA CurrentType ==
  ASSUME TypeOK, PointInv, pc # "idle"
  PROVE  current \in [id : Commits, target : Targets, replace : BOOLEAN]
BY DEF TypeOK, PointInv

\* Every step keeps the types and what each point knows; TypeInit and the facts of
\* one action at a time, since an action moves to one point only.
LEMMA StepInv ==
  ASSUME TypeOK, PointInv, Step
  PROVE  TypeOK' /\ PointInv'
<1> DEFINE C == [id : Commits, target : Targets, replace : BOOLEAN]
<1>0. /\ current \in C /\ current # NoCommit /\ pc # "idle"
      /\ NoCommit \notin C
  BY CurrentType, CommitAssumption DEF Step, Check, Backup, Rename, CopyOpen, CopyRest, Unstage,
     Restore, Clean, At, PointInv
<1>1. /\ T \in Targets /\ current.id \in Commits /\ current.replace \in BOOLEAN
  BY <1>0 DEF T
<1>a. ASSUME NEW outcome \in {"ok", "error", "crashed"}, Return(outcome)
      PROVE  /\ pc' = "idle" /\ pc' \in Labels /\ current' = NoCommit /\ backup' = 0
             /\ result' \in [Commits -> {"none", "running", "ok", "error", "crashed"}]
  BY <1>a, <1>1 DEF Return, TypeOK, Labels
<1>b. ASSUME NEW content \in Content, SetFile(content)
      PROVE  file' \in [Targets -> Content] /\ file'[T] = content
  BY <1>b, <1>1 DEF SetFile, TypeOK
<1>c. ASSUME NEW i \in Slots, NEW content \in Content, SetBackup(i, content)
      PROVE  backups' \in [Targets -> [Slots -> Content]]
  BY <1>c, <1>1 DEF SetBackup, TypeOK
<1>d. {Absent, Torn, current.id} \subseteq Content /\ current.id \in Whole
  BY <1>1 DEF Content, Whole
<1>2. CASE Check
  <2>1. CASE Refuses /\ Return("error")
    BY <1>2, <1>a, <2>1 DEF Check, TypeOK, PointInv, At
  <2>2. CASE ~Refuses /\ Goto("backup") /\ UNCHANGED <<current, backup, result>>
    BY <1>0, <1>1, <1>2, <2>2 DEF Check, Refuses, Goto, At, T, TypeOK, PointInv, Labels
  <2> QED
    BY <1>2, <2>1, <2>2 DEF Check
<1>3. CASE Backup
  <2>1. CASE /\ ~(current.replace /\ file[T] # Absent)
             /\ Goto("rename")
             /\ UNCHANGED <<file, backups, current, backup, result>>
    BY <1>0, <1>1, <1>3, <2>1 DEF Backup, Goto, At, T, TypeOK, PointInv, Labels
  <2>2. ASSUME /\ current.replace
               /\ SetFile(Absent)
               /\ Goto("rename")
               /\ UNCHANGED <<current, result>>,
               NEW i \in Slots, SetBackup(i, file[T]), backup' = i
        PROVE  TypeOK' /\ PointInv'
    <3>1. file[T] \in Content
      BY <1>1 DEF TypeOK
    <3>2. file' \in [Targets -> Content] /\ file'[T] = Absent
      BY <1>b, <1>d, <2>2
    <3>3. backups' \in [Targets -> [Slots -> Content]]
      BY <1>c, <2>2, <3>1
    <3>4. TypeOK'
      BY <1>3, <2>2, <3>2, <3>3 DEF Backup, Goto, TypeOK, Labels
    <3> QED
      BY <1>0, <1>1, <1>3, <2>2, <3>2, <3>4 DEF Backup, Goto, At, T, PointInv
  <2>3. CASE Return("error") /\ UNCHANGED <<file, backups>>
    BY <1>3, <1>a, <2>3 DEF Backup, At, TypeOK, PointInv
  <2> QED
    BY <1>3, <2>1, <2>2, <2>3 DEF Backup
<1>4. CASE Rename
  <2>1. CASE SetFile(current.id) /\ staged' = FALSE /\ Goto("clean")
    BY <1>0, <1>1, <1>4, <1>b, <1>d, <2>1 DEF Rename, Goto, At, T, TypeOK, PointInv, Labels
  <2>2. CASE Goto("copy") /\ UNCHANGED <<file, staged>>
    BY <1>0, <1>1, <1>4, <2>2 DEF Rename, Goto, At, T, TypeOK, PointInv, Labels
  <2> QED
    BY <1>4, <2>1, <2>2 DEF Rename
<1>5. CASE CopyOpen
  <2>1. CASE SetFile(Torn) /\ Goto("copying")
    BY <1>0, <1>1, <1>5, <1>b, <1>d, <2>1 DEF CopyOpen, Goto, At, T, TypeOK, PointInv, Labels
  <2>2. CASE Goto("restore") /\ UNCHANGED file
    BY <1>0, <1>1, <1>5, <2>2 DEF CopyOpen, Goto, At, T, TypeOK, PointInv, Labels
  <2> QED
    BY <1>5, <2>1, <2>2 DEF CopyOpen
<1>6. CASE CopyRest
  <2>1. CASE SetFile(current.id) /\ Goto("unstage")
    BY <1>0, <1>1, <1>6, <1>b, <1>d, <2>1 DEF CopyRest, Goto, At, T, TypeOK, PointInv, Labels
  <2>2. CASE Goto("restore") /\ UNCHANGED file
    BY <1>0, <1>1, <1>6, <2>2 DEF CopyRest, Goto, At, T, TypeOK, PointInv, Labels
  <2> QED
    BY <1>6, <2>1, <2>2 DEF CopyRest
<1>7. CASE Unstage
  <2>1. CASE staged' = FALSE /\ Goto("clean") /\ UNCHANGED <<current, backup, result>>
    BY <1>0, <1>1, <1>7, <2>1 DEF Unstage, Goto, At, T, TypeOK, PointInv, Labels
  <2>2. CASE Return("error") /\ UNCHANGED staged
    BY <1>7, <1>a, <2>2 DEF Unstage, At, TypeOK, PointInv
  <2> QED
    BY <1>7, <2>1, <2>2 DEF Unstage
<1>8. CASE Restore
  <2>1. file' \in [Targets -> Content] /\ backups' \in [Targets -> [Slots -> Content]]
    <3>1. CASE /\ RestoresFrom(backup)
               /\ SetFile(backups[T][backup])
               /\ SetBackup(backup, Absent)
      <4>1. backup \in Slots
        BY <3>1 DEF RestoresFrom, TypeOK
      <4>2. backups[T][backup] \in Content
        BY <1>1, <4>1 DEF TypeOK
      <4> QED
        BY <1>b, <1>c, <1>d, <3>1, <4>1, <4>2
    <3>2. CASE UNCHANGED <<file, backups>>
      BY <3>2 DEF TypeOK
    <3> QED
      BY <1>8, <3>1, <3>2 DEF Restore
  <2>2. disturbed' \subseteq Targets
    BY <1>1, <1>8 DEF Restore, TypeOK
  <2> QED
    BY <1>8, <1>a, <2>1, <2>2 DEF Restore, At, TypeOK, PointInv
<1>9. CASE Clean
  <2>1. backups' \in [Targets -> [Slots -> Content]]
    <3>1. CASE backup # 0 /\ SetBackup(backup, Absent)
      BY <1>c, <1>d, <3>1 DEF TypeOK
    <3>2. CASE UNCHANGED backups
      BY <3>2 DEF TypeOK
    <3> QED
      BY <1>9, <3>1, <3>2 DEF Clean
  <2>2. PICK outcome \in {"ok", "error", "crashed"} : Return(outcome)
    BY <1>9 DEF Clean
  <2> QED
    BY <1>9, <1>a, <2>1, <2>2 DEF Clean, At, TypeOK, PointInv
<1> QED
  BY <1>2, <1>3, <1>4, <1>5, <1>6, <1>7, <1>8, <1>9 DEF Step

LEMMA NextInv ==
  ASSUME TypeOK, PointInv, [Next]_vars
  PROVE  TypeOK' /\ PointInv'
<1>1. ASSUME NEW c \in Commits, NEW t \in Targets, NEW replace \in BOOLEAN, Call(c, t, replace)
      PROVE  TypeOK' /\ PointInv'
  <2>1. /\ current' \in [id : Commits, target : Targets, replace : BOOLEAN]
        /\ current' # NoCommit
    BY <1>1, CommitAssumption DEF Call
  <2> QED
    BY <1>1, <2>1 DEF Call, Goto, At, TypeOK, PointInv, Labels
<1>2. CASE Crash
  <2>1. T \in Targets /\ current.id \in Commits
    BY <1>2, CurrentType DEF Crash, At, T
  <2> QED
    BY <1>2, <2>1 DEF Crash, Return, At, TypeOK, PointInv, Labels
<1>3. CASE UNCHANGED vars
  BY <1>3 DEF vars, TypeOK, PointInv, T
<1> QED
  BY <1>1, <1>2, <1>3, StepInv DEF Next

\* The theorem of the types, and of what each point knows.
THEOREM TypeCorrect == Spec => [](TypeOK /\ PointInv)
<1>1. Init => PointInv
  BY DEF Init, PointInv
<1> QED
  BY <1>1, TypeInit, NextInv, PTL DEF Spec

\* The packed output is there whole, staged or at its target, until commit_staged
\* returns, whatever fails.
THEOREM NewOutputNeverLost == Spec => []NewOutputKept
<1>1. TypeOK /\ PointInv => NewOutputKept
  BY DEF TypeOK, Labels, PointInv, NewOutputKept
<1> QED
  BY <1>1, TypeCorrect, PTL

------------------------------------------------------------------------------
(* The refinement: what a step does to the whole outputs of a target. *)

\* The whole outputs of other targets stay what they are.
Elsewhere ==
  \A t \in Targets : t # T => file'[t] = file[t] /\ backups'[t] = backups[t]

\* Have' differs from Have at the target of the commit only.
LEMMA HaveOf ==
  ASSUME NEW S \in SUBSET Whole, T \in Targets, Elsewhere,
         \A x \in Whole : x \in S <=> x = file'[T] \/ \E i \in Slots : backups'[T][i] = x
  PROVE  Have' = [Have EXCEPT ![T] = S]
<1> DEFINE H(t) == {x \in Whole : x = file'[t] \/ \E i \in Slots : backups'[t][i] = x}
<1>1. H(T) = S
  OBVIOUS
<1>2. \A t \in Targets : t # T => H(t) = Have[t]
  BY DEF Elsewhere, Have
<1>3. Have' = [t \in Targets |-> H(t)]
  BY DEF Have
<1>4. [Have EXCEPT ![T] = S] = [t \in Targets |-> IF t = T THEN S ELSE Have[t]]
  BY DEF Have
<1>5. \A t \in Targets : H(t) = IF t = T THEN S ELSE Have[t]
  BY <1>1, <1>2
<1> HIDE DEF H
<1> QED
  BY <1>3, <1>4, <1>5

LEMMA HaveSame ==
  ASSUME T \in Targets, Elsewhere,
         \A x \in Whole : x \in Have[T] <=> x = file'[T] \/ \E i \in Slots : backups'[T][i] = x
  PROVE  Have' = Have
<1>1. Have[T] \in SUBSET Whole
  BY DEF Have
<1>2. Have' = [Have EXCEPT ![T] = Have[T]]
  BY <1>1, HaveOf
<1> QED
  BY <1>2 DEF Have

\* A file that is not whole changes into another one.
LEMMA HaveNotWhole ==
  ASSUME T \in Targets, TypeOK, file[T] \notin Whole, file'[T] \notin Whole, Elsewhere,
         backups'[T] = backups[T]
  PROVE  Have' = Have
BY HaveSame DEF Have

\* The output arrives at its target, which held no whole one.
LEMMA HavePut ==
  ASSUME T \in Targets, current.id \in Commits, TypeOK, file[T] \notin Whole,
         SetFile(current.id), UNCHANGED backups
  PROVE  Have' = [Have EXCEPT ![T] = Have[T] \union {current.id}]
<1>1. Elsewhere /\ file'[T] = current.id /\ backups'[T] = backups[T]
  BY DEF Elsewhere, SetFile, TypeOK
<1>2. Have[T] \union {current.id} \in SUBSET Whole
  BY DEF Have, Whole
<1>3. \A x \in Whole : x \in Have[T] \union {current.id}
                         <=> x = file'[T] \/ \E i \in Slots : backups'[T][i] = x
  BY <1>1 DEF Have
<1> QED
  BY <1>1, <1>2, <1>3, HaveOf

\* The old output moves to a free backup name.
LEMMA HaveBackup ==
  ASSUME T \in Targets, TypeOK, NEW i \in Slots, backups[T][i] = Absent,
         SetFile(Absent), SetBackup(i, file[T])
  PROVE  Have' = Have
<1>1. Absent \notin Whole
  BY CommitAssumption
<1>2. /\ Elsewhere /\ file'[T] = Absent /\ backups'[T][i] = file[T]
      /\ \A j \in Slots \ {i} : backups'[T][j] = backups[T][j]
  BY DEF Elsewhere, SetFile, SetBackup, TypeOK
<1>3. \A x \in Whole : x \in Have[T] <=> x = file'[T] \/ \E j \in Slots : backups'[T][j] = x
  BY <1>1, <1>2 DEF Have
<1> QED
  BY <1>2, <1>3, HaveSame

\* A backup moves back to its target, which held no whole output.
LEMMA HaveRestore ==
  ASSUME T \in Targets, TypeOK, backup \in Slots, file[T] \notin Whole,
         SetFile(backups[T][backup]), SetBackup(backup, Absent)
  PROVE  Have' = Have
<1>1. Absent \notin Whole
  BY CommitAssumption
<1>2. /\ Elsewhere /\ file'[T] = backups[T][backup] /\ backups'[T][backup] = Absent
      /\ \A j \in Slots \ {backup} : backups'[T][j] = backups[T][j]
  BY DEF Elsewhere, SetFile, SetBackup, TypeOK
<1>3. \A x \in Whole : x \in Have[T] <=> x = file'[T] \/ \E j \in Slots : backups'[T][j] = x
  BY <1>1, <1>2 DEF Have
<1> QED
  BY <1>2, <1>3, HaveSame

\* Removing a backup gives up what it alone holds.
LEMMA HaveClean ==
  ASSUME T \in Targets, TypeOK, backup \in Slots, file[T] \in Whole,
         UNCHANGED file, SetBackup(backup, Absent)
  PROVE  \/ Have' = Have
         \/ \E old \in Have[T] \ {file[T]} : Have' = [Have EXCEPT ![T] = Have[T] \ {old}]
<1> DEFINE old == backups[T][backup]
<1>1. Absent \notin Whole
  BY CommitAssumption
<1>2. /\ Elsewhere /\ file'[T] = file[T] /\ backups'[T][backup] = Absent
      /\ \A j \in Slots \ {backup} : backups'[T][j] = backups[T][j]
  BY DEF Elsewhere, SetBackup, TypeOK
<1>3. CASE old \notin Whole \/ old = file[T] \/ \E j \in Slots \ {backup} : backups[T][j] = old
  <2>1. \A x \in Whole : x \in Have[T] <=> x = file'[T] \/ \E j \in Slots : backups'[T][j] = x
    BY <1>1, <1>2, <1>3 DEF Have
  <2> QED
    BY <1>2, <2>1, HaveSame
<1>4. CASE /\ old \in Whole /\ old # file[T]
           /\ ~ \E j \in Slots \ {backup} : backups[T][j] = old
  <2>1. old \in Have[T] \ {file[T]}
    BY <1>4 DEF Have
  <2>2. Have[T] \ {old} \in SUBSET Whole
    BY DEF Have
  <2>3. \A x \in Whole : x \in Have[T] \ {old}
                           <=> x = file'[T] \/ \E j \in Slots : backups'[T][j] = x
    BY <1>1, <1>2, <1>4 DEF Have
  <2>4. Have' = [Have EXCEPT ![T] = Have[T] \ {old}]
    BY <1>2, <2>2, <2>3, HaveOf
  <2> QED
    BY <2>1, <2>4
<1> QED
  BY <1>3, <1>4

\* A step of commit_staged is a step of ReplaceOutput, or leaves what it speaks of.
LEMMA StepKeepsPromise ==
  ASSUME TypeOK, PointInv, Step
  PROVE  [Promise!Next]_(Promise!vars)
<1> USE DEF Promise!vars
<1>0. /\ current \in [id : Commits, target : Targets, replace : BOOLEAN]
      /\ current # NoCommit
  BY CurrentType, CommitAssumption DEF Step, Check, Backup, Rename, CopyOpen, CopyRest, Unstage,
     Restore, Clean, At
<1>1. /\ T \in Targets /\ current.id \in Commits /\ current.id \in Whole
      /\ Absent \notin Whole /\ Torn \notin Whole
  BY <1>0, CommitAssumption DEF T, Whole
<1>a. ASSUME UNCHANGED <<file, backups>> PROVE Have' = Have
  BY <1>a DEF Have
<1>b. ASSUME Have' = Have, Return("error") PROVE Promise!Next
  BY <1>0, <1>b DEF Return, Promise!Next, Promise!Stop
<1>2. CASE Check
  BY <1>2, <1>a, <1>b DEF Check
<1>3. CASE Backup
  <2>1. ASSUME NEW i \in Slots, FirstFree(i), SetBackup(i, file[T]), SetFile(Absent)
        PROVE  Have' = Have
    BY <1>1, <2>1, HaveBackup DEF FirstFree
  <2> QED
    BY <1>3, <1>a, <1>b, <2>1 DEF Backup
<1>4. CASE Rename
  <2>1. CASE SetFile(current.id)
    <3>1. Have' = [Have EXCEPT ![T] = Have[T] \union {current.id}]
      BY <1>1, <1>4, <2>1, HavePut DEF Rename, At, PointInv
    <3> QED
      BY <1>0, <1>4, <3>1 DEF Rename, Promise!Next, Promise!Put, T
  <2>2. CASE UNCHANGED file
    BY <1>4, <1>a, <2>2 DEF Rename
  <2> QED
    BY <1>4, <2>1, <2>2 DEF Rename
<1>5. CASE CopyOpen
  <2>1. CASE SetFile(Torn)
    <3>1. Elsewhere /\ file'[T] = Torn /\ backups'[T] = backups[T]
      BY <1>1, <1>5, <2>1 DEF CopyOpen, Elsewhere, SetFile, TypeOK
    <3>2. Have' = Have
      BY <1>1, <1>5, <3>1, HaveNotWhole DEF CopyOpen, At, PointInv
    <3> QED
      BY <1>5, <3>2 DEF CopyOpen
  <2>2. CASE UNCHANGED file
    BY <1>5, <1>a, <2>2 DEF CopyOpen
  <2> QED
    BY <1>5, <2>1, <2>2 DEF CopyOpen
<1>6. CASE CopyRest
  <2>1. CASE SetFile(current.id)
    <3>1. Have' = [Have EXCEPT ![T] = Have[T] \union {current.id}]
      BY <1>1, <1>6, <2>1, HavePut DEF CopyRest, At, PointInv
    <3> QED
      BY <1>0, <1>6, <3>1 DEF CopyRest, Promise!Next, Promise!Put, T
  <2>2. CASE UNCHANGED file
    BY <1>6, <1>a, <2>2 DEF CopyRest
  <2> QED
    BY <1>6, <2>1, <2>2 DEF CopyRest
<1>7. CASE Unstage
  BY <1>7, <1>a, <1>b DEF Unstage
<1>8. CASE Restore
  <2>1. ASSUME RestoresFrom(backup), SetFile(backups[T][backup]), SetBackup(backup, Absent)
        PROVE  Have' = Have
    BY <1>1, <1>8, <2>1, HaveRestore DEF Restore, RestoresFrom, At, PointInv, TypeOK
  <2> QED
    BY <1>8, <1>a, <1>b, <2>1 DEF Restore
<1>9. CASE Clean
  <2>1. file[T] = current.id /\ current.id \in Have[T]
    BY <1>1, <1>9 DEF Clean, At, PointInv, Have
  <2>2. CASE backup = 0 /\ Return("ok") /\ UNCHANGED backups
    BY <1>0, <1>9, <1>a, <2>1, <2>2 DEF Clean, Return, T, Promise!Next, Promise!Succeed
  <2>3. CASE backup # 0 /\ SetBackup(backup, Absent) /\ Return("ok")
    <3>1. backup \in Slots /\ current.replace
      BY <2>3 DEF TypeOK, PointInv
    <3>2. \/ Have' = Have
          \/ \E old \in Have[T] \ {current.id} : Have' = [Have EXCEPT ![T] = Have[T] \ {old}]
      BY <1>1, <1>9, <2>1, <2>3, <3>1, HaveClean DEF Clean
    <3> QED
      BY <1>0, <2>1, <2>3, <3>1, <3>2
      DEF Return, T, Promise!Next, Promise!Succeed, Promise!Discard
  <2>4. CASE Return("error") /\ UNCHANGED backups
    BY <1>9, <1>a, <1>b, <2>4 DEF Clean
  <2> QED
    BY <1>9, <2>2, <2>3, <2>4 DEF Clean
<1> QED
  BY <1>2, <1>3, <1>4, <1>5, <1>6, <1>7, <1>8, <1>9 DEF Step

LEMMA NextKeepsPromise ==
  ASSUME TypeOK, PointInv, [Next]_vars
  PROVE  [Promise!Next]_(Promise!vars)
<1> USE DEF Promise!vars
<1>1. ASSUME NEW c \in Commits, NEW t \in Targets, NEW replace \in BOOLEAN, Call(c, t, replace)
      PROVE  Promise!Next
  <2>1. Have' = Have /\ current = NoCommit
    BY <1>1 DEF Call, At, PointInv, Have
  <2> QED
    BY <1>1, <2>1 DEF Call, Promise!Next, Promise!Start
<1>2. CASE Crash
  <2>1. Have' = Have /\ current # NoCommit
    BY <1>2 DEF Crash, At, PointInv, Have
  <2> QED
    BY <1>2, <2>1 DEF Crash, Return, Promise!Next, Promise!Stop
<1>3. CASE UNCHANGED vars
  BY <1>3 DEF vars, Have
<1> QED
  BY <1>1, <1>2, <1>3, StepKeepsPromise DEF Next

\* commit_staged implements ReplaceOutput: whatever fails and whenever the process ends,
\* no whole output is given up but for a whole new one, by a commit that may replace.
THEOREM KeepsThePromise == Spec => KeepsPromise
<1>1. Init => Promise!Init
  <2> SUFFICES ASSUME Init PROVE Promise!Init
    OBVIOUS
  <2>1. \A t \in Targets : Have[t] = IF file[t] = Original THEN {Original} ELSE {}
    BY CommitAssumption DEF Init, Have, Whole
  <2>2. Have \in [Targets -> {{}, {Original}}]
    BY <2>1 DEF Have
  <2> QED
    BY <2>2 DEF Init, Promise!Init
<1>2. TypeOK /\ PointInv /\ [Next]_vars => [Promise!Next]_(Promise!vars)
  BY NextKeepsPromise
<1> QED
  BY <1>1, <1>2, TypeCorrect, PTL DEF Spec, KeepsPromise, Promise!Spec

------------------------------------------------------------------------------
(* The refinement of OneStepCommit: what a commit leaves when it ends. *)

\* The target of a commit under way holds what it held before, the new output,
\* nothing or part of it; it changed only if the commit is not refused, and the
\* staged file is there until it holds the new output.
LEMMA AtTarget ==
  ASSUME TypeOK, PointInv, current # NoCommit
  PROVE  /\ file[T] \in {HeldBefore, current.id, Absent, Torn}
         /\ file[T] # HeldBefore => current.replace \/ HeldBefore = Absent
         /\ file[T] # current.id => staged
<1>1. pc \in Labels /\ pc # "idle"
  BY DEF TypeOK, PointInv
<1>2. CASE pc \in {"check", "backup"}
  BY <1>2 DEF HeldBefore, PointInv
<1>3. CASE pc \notin {"check", "backup"}
  <2>1. file[T] \in {current.id, Absent, Torn} /\ (file[T] # current.id => staged)
    BY <1>1, <1>3 DEF Labels, PointInv
  <2>2. current.replace \/ HeldBefore = Absent
    BY <1>3 DEF HeldBefore, PointInv
  <2> QED
    BY <2>1, <2>2
<1> QED
  BY <1>2, <1>3

\* A commit that ends with such a target ends with one of CommitOutcomes.
LEMMA Ending ==
  ASSUME TypeOK, current \in [id : Commits, target : Targets, replace : BOOLEAN],
         current # NoCommit, NEW how \in {"ok", "error", "crashed"}, Return(how),
         NEW left \in {HeldBefore, current.id, Absent, Torn},
         file' = [file EXCEPT ![T] = left], UNCHANGED staged,
         left # HeldBefore => current.replace \/ HeldBefore = Absent,
         how = "ok" => left = current.id /\ ~staged,
         left # current.id => staged
  PROVE  AsOneStep!Finish(how)
<1> DEFINE before == FileBefore[current.target]
           o == [left |-> left, staged |-> staged, ok |-> how = "ok"]
<1>1. before = HeldBefore
  BY DEF FileBefore, T, TypeOK
<1>2. o \in [left : {HeldBefore, current.id, Absent, Torn}, staged : BOOLEAN, ok : BOOLEAN]
  BY DEF TypeOK
<1>3. o.left # HeldBefore => ~AsOneStep!Refused
  BY <1>1 DEF AsOneStep!Refused
<1>4. o \in AsOneStep!CommitOutcomes(before, current.id, AsOneStep!Refused)
  BY <1>1, <1>2, <1>3 DEF AsOneStep!CommitOutcomes
<1>5. FileBefore' = [FileBefore EXCEPT ![current.target] = o.left]
  BY DEF FileBefore, Return, T, TypeOK
<1>6. (staged \/ current # NoCommit)' = o.staged
  BY DEF Return, TypeOK
<1>7. o.ok <=> how = "ok"
  OBVIOUS
<1> HIDE DEF o
<1> QED
  BY <1>4, <1>5, <1>6, <1>7 DEF AsOneStep!Finish, Return

\* A step that does not return leaves the target as it was before, seen from outside.
LEMMA InsideStep ==
  ASSUME TypeOK, PointInv, Step, current' = current
  PROVE  UNCHANGED <<FileBefore, staged \/ current # NoCommit, current, result>>
<1>0. /\ current \in [id : Commits, target : Targets, replace : BOOLEAN]
      /\ current # NoCommit
  BY CurrentType, CommitAssumption DEF Step, Check, Backup, Rename, CopyOpen, CopyRest, Unstage,
     Restore, Clean, At
<1>1. T \in Targets
  BY <1>0 DEF T
<1>2. ~Return("ok") /\ ~Return("error")
  BY <1>0 DEF Return
<1>3. SUFFICES /\ HeldBefore' = HeldBefore /\ result' = result
               /\ \E content : file' = [file EXCEPT ![T] = content]
  BY <1>0, <1>1 DEF FileBefore, TypeOK, T
<1>a. ASSUME UNCHANGED file PROVE \E content : file' = [file EXCEPT ![T] = content]
  BY <1>1, <1>a DEF TypeOK
<1>b. ASSUME UNCHANGED <<backups, backup>>, pc \notin {"check", "backup"},
             pc' \notin {"check", "backup"}
      PROVE  HeldBefore' = HeldBefore
  BY <1>b DEF HeldBefore, T
<1>4. CASE Check
  BY <1>2, <1>4, <1>a DEF Check, At, Goto, HeldBefore, T
<1>5. CASE Backup
  <2>1. CASE ~(current.replace /\ file[T] # Absent) /\ UNCHANGED <<file, backups, backup, result>>
    BY <1>5, <1>a, <2>1, <1>2 DEF Backup, At, Goto, HeldBefore, PointInv
  <2>2. ASSUME NEW i \in Slots, SetBackup(i, file[T]), backup' = i, SetFile(Absent),
               Goto("rename")
        PROVE  HeldBefore' = HeldBefore /\ \E content : file' = [file EXCEPT ![T] = content]
    <3>1. i # 0
      BY <2>2 DEF Slots
    <3>2. backups'[T][i] = file[T]
      BY <1>1, <2>2 DEF SetBackup, TypeOK
    <3> QED
      BY <1>5, <2>2, <3>1, <3>2 DEF Backup, At, Goto, HeldBefore, SetFile, T
  <2> QED
    BY <1>2, <1>5, <2>1, <2>2 DEF Backup
<1>6. CASE Rename \/ CopyOpen \/ CopyRest \/ Unstage
  <2>1. /\ UNCHANGED <<backups, backup, result>>
        /\ pc \notin {"check", "backup"} /\ pc' \notin {"check", "backup"}
        /\ file' = file \/ SetFile(current.id) \/ SetFile(Torn)
    BY <1>2, <1>6 DEF Rename, CopyOpen, CopyRest, Unstage, At, Goto
  <2> QED
    BY <1>a, <1>b, <2>1 DEF SetFile
<1>7. CASE Restore \/ Clean
  BY <1>2, <1>7 DEF Restore, Clean
<1> QED
  BY <1>4, <1>5, <1>6, <1>7 DEF Step

\* A step that returns ends the commit.
LEMMA LastStep ==
  ASSUME TypeOK, PointInv, Step, current' # current
  PROVE  \E how \in {"ok", "error"} : AsOneStep!Finish(how)
<1>0. /\ current \in [id : Commits, target : Targets, replace : BOOLEAN]
      /\ current # NoCommit
  BY CurrentType, CommitAssumption DEF Step, Check, Backup, Rename, CopyOpen, CopyRest, Unstage,
     Restore, Clean, At
<1>1. T \in Targets
  BY <1>0 DEF T
<1>2. /\ file[T] \in {HeldBefore, current.id, Absent, Torn}
      /\ file[T] # HeldBefore => current.replace \/ HeldBefore = Absent
      /\ file[T] # current.id => staged
  BY <1>0, AtTarget
<1>3. ASSUME Return("error"), UNCHANGED <<file, staged>> PROVE AsOneStep!Finish("error")
  <2>1. file' = [file EXCEPT ![T] = file[T]]
    BY <1>1, <1>3 DEF TypeOK
  <2> QED
    BY <1>0, <1>2, <1>3, <2>1, Ending
<1>4. CASE Check \/ Backup \/ Unstage
  BY <1>3, <1>4 DEF Check, Backup, Unstage
<1>5. CASE Rename \/ CopyOpen \/ CopyRest
  BY <1>5 DEF Rename, CopyOpen, CopyRest
<1>6. CASE Restore
  <2>1. CASE RestoresFrom(backup) /\ SetFile(backups[T][backup])
    <3>1. backups[T][backup] = HeldBefore /\ staged
      BY <1>6, <2>1 DEF Restore, RestoresFrom, At, PointInv, HeldBefore
    <3>2. Return("error") /\ UNCHANGED staged /\ file' = [file EXCEPT ![T] = HeldBefore]
      BY <1>6, <2>1, <3>1 DEF Restore, SetFile
    <3> QED
      BY <1>0, <3>1, <3>2, Ending
  <2>2. CASE UNCHANGED file
    BY <1>3, <1>6, <2>2 DEF Restore
  <2> QED
    BY <1>6, <2>1, <2>2 DEF Restore
<1>7. CASE Clean
  <2>1. file[T] = current.id /\ ~staged /\ UNCHANGED <<file, staged>>
    BY <1>7 DEF Clean, At, PointInv
  <2>2. file' = [file EXCEPT ![T] = file[T]]
    BY <1>1, <2>1 DEF TypeOK
  <2>3. ASSUME Return("ok") PROVE AsOneStep!Finish("ok")
    BY <1>0, <1>2, <2>1, <2>2, <2>3, Ending
  <2> QED
    BY <1>3, <1>7, <2>1, <2>3 DEF Clean
<1> QED
  BY <1>4, <1>5, <1>6, <1>7 DEF Step

LEMMA NextInOneStep ==
  ASSUME TypeOK, PointInv, [Next]_vars
  PROVE  [AsOneStep!Next]_(AsOneStep!vars)
<1> USE DEF AsOneStep!vars
<1>1. ASSUME NEW c \in Commits, NEW t \in Targets, NEW replace \in BOOLEAN, Call(c, t, replace)
      PROVE  AsOneStep!Next
  <2>1. current = NoCommit /\ current' # NoCommit /\ FileBefore = file
    BY <1>1, CommitAssumption DEF Call, At, PointInv, FileBefore
  <2>2. T' = t /\ HeldBefore' = file[t]
    BY <1>1 DEF Call, Goto, T, HeldBefore
  <2>3. FileBefore' = file
    BY <1>1, <2>1, <2>2 DEF FileBefore, Call, TypeOK
  <2> QED
    BY <1>1, <2>1, <2>3 DEF Call, AsOneStep!Next, AsOneStep!Begin
<1>2. CASE Step
  <2>1. CASE current' = current
    BY <1>2, <2>1, InsideStep
  <2>2. CASE current' # current
    BY <1>2, <2>2, LastStep DEF AsOneStep!Next
  <2> QED
    BY <2>1, <2>2
<1>3. CASE Crash
  <2>1. current # NoCommit /\ current \in [id : Commits, target : Targets, replace : BOOLEAN]
    BY <1>3, CurrentType DEF Crash, At, PointInv
  <2>2. T \in Targets /\ file' = [file EXCEPT ![T] = file[T]]
    BY <1>3, <2>1 DEF Crash, T, TypeOK
  <2>3. AsOneStep!Finish("crashed")
    BY <1>3, <2>1, <2>2, AtTarget, Ending DEF Crash
  <2> QED
    BY <2>3 DEF AsOneStep!Next
<1>4. CASE UNCHANGED vars
  BY <1>4 DEF vars, FileBefore, HeldBefore, T
<1> QED
  BY <1>1, <1>2, <1>3, <1>4 DEF Next

\* A call of commit_staged may be taken as one step: it leaves one of CommitOutcomes at
\* its target and of its staged file, whatever fails and whenever the process ends.
THEOREM CommitIsOneStep == Spec => CommitsInOneStep
<1>1. Init => AsOneStep!Init
  BY DEF Init, FileBefore, AsOneStep!Init
<1>2. TypeOK /\ PointInv /\ [Next]_vars => [AsOneStep!Next]_(AsOneStep!vars)
  BY NextInOneStep
<1> QED
  BY <1>1, <1>2, TypeCorrect, PTL DEF Spec, CommitsInOneStep, AsOneStep!Spec

------------------------------------------------------------------------------
(* An error gives the target back. *)

LEMMA BackStep ==
  ASSUME TypeOK, PointInv, BackInv, Step
  PROVE  BackInv'
<1>0. /\ current \in [id : Commits, target : Targets, replace : BOOLEAN]
      /\ current # NoCommit
  BY CurrentType, CommitAssumption DEF Step, Check, Backup, Rename, CopyOpen, CopyRest, Unstage,
     Restore, Clean, At
<1>1. /\ T \in Targets /\ current.id \in Whole /\ Absent \notin Whole /\ Torn \notin Whole
  BY <1>0, CommitAssumption DEF T, Whole
<1>2. Elsewhere /\ disturbed \subseteq disturbed'
  BY <1>1 DEF Step, Check, Backup, Rename, CopyOpen, CopyRest, Unstage, Restore, Clean,
     Elsewhere, SetFile, SetBackup, TypeOK
<1>3. \A t \in Targets : t # T => (Have'[t] = Have[t] /\ file'[t] = file[t])
  BY <1>2 DEF Elsewhere, Have
<1>4. ~(pc \in {"rename", "copy", "copying", "restore"}) =>
        \A t \in Targets : Have[t] # {} /\ t \notin disturbed => file[t] \in Whole
  BY DEF BackInv
<1>5. \A t \in Targets : t # T /\ Have'[t] # {} /\ t \notin disturbed' => file'[t] \in Whole
  BY <1>2, <1>3 DEF BackInv
<1>6. SUFFICES ASSUME Have'[T] # {}, T \notin disturbed'
               PROVE  \/ file'[T] \in Whole
                      \/ /\ pc' \in {"rename", "copy", "copying", "restore"} /\ T' = T
                         /\ backup' # 0 /\ backups'[T][backup'] \in Whole
  BY <1>5 DEF BackInv
<1>7. T \notin disturbed
  BY <1>2, <1>6
<1>a. ASSUME UNCHANGED <<file, backups>> PROVE Have' = Have
  BY <1>a DEF Have
<1>8. CASE Check \/ Unstage \/ Clean
  <2>1. file' = file /\ pc \notin {"rename", "copy", "copying", "restore"}
    BY <1>8 DEF Check, Unstage, Clean, At
  <2>2. Have'[T] \subseteq Have[T]
    <3>1. CASE UNCHANGED backups
      BY <1>a, <2>1, <3>1
    <3>2. CASE Clean /\ SetBackup(backup, Absent)
      BY <1>1, <2>1, <3>2 DEF SetBackup, TypeOK, Have
    <3> QED
      BY <1>8, <3>1, <3>2 DEF Check, Unstage, Clean
  <2> QED
    BY <1>1, <1>4, <1>6, <1>7, <2>1, <2>2
<1>9. CASE Backup
  <2>1. CASE UNCHANGED <<file, backups>>
    BY <1>1, <1>4, <1>6, <1>7, <1>9, <1>a, <2>1 DEF Backup, At
  <2>2. ASSUME NEW i \in Slots, FirstFree(i), SetBackup(i, file[T]), backup' = i,
               SetFile(Absent), Goto("rename"), UNCHANGED current
        PROVE  backup' # 0 /\ T' = T /\ backups'[T][backup'] \in Whole
    <3>1. Have' = Have
      BY <1>1, <2>2, HaveBackup DEF FirstFree
    <3>2. file[T] \in Whole
      BY <1>1, <1>4, <1>6, <1>7, <1>9, <3>1 DEF Backup, At
    <3>3. i # 0
      BY <2>2 DEF Slots
    <3> QED
      BY <1>1, <2>2, <3>2, <3>3 DEF SetBackup, T, TypeOK
  <2> QED
    BY <1>9, <2>1, <2>2 DEF Backup, Goto
<1>10. CASE Rename \/ CopyOpen \/ CopyRest
  <2>1. CASE SetFile(current.id)
    BY <1>1, <2>1 DEF SetFile, TypeOK
  <2>2. CASE ~SetFile(current.id)
    <3>1. /\ pc \in {"rename", "copy", "copying"} /\ pc' \in {"copy", "copying", "restore"}
          /\ UNCHANGED <<backups, backup, current>>
          /\ file' = file \/ SetFile(Torn)
      BY <1>10, <2>2 DEF Rename, CopyOpen, CopyRest, At, Goto
    <3>2. file[T] \notin Whole /\ file'[T] \notin Whole
      BY <1>1, <3>1 DEF PointInv, SetFile, TypeOK
    <3>3. Have' = Have
      BY <1>1, <1>2, <3>1, <3>2, HaveNotWhole
    <3> QED
      BY <1>1, <1>6, <1>7, <3>1, <3>2, <3>3 DEF BackInv, T
  <2> QED
    BY <2>1, <2>2
<1>11. CASE Restore
  <2>1. file[T] \notin Whole /\ pc = "restore"
    BY <1>1, <1>11 DEF Restore, At, PointInv
  <2>2. CASE RestoresFrom(backup) /\ SetFile(backups[T][backup]) /\ SetBackup(backup, Absent)
    <3>1. Have' = Have
      BY <1>1, <2>1, <2>2, HaveRestore DEF RestoresFrom, TypeOK
    <3>2. backups[T][backup] \in Whole
      BY <1>1, <1>6, <1>7, <2>1, <3>1 DEF BackInv
    <3> QED
      BY <1>1, <2>2, <3>2 DEF SetFile, TypeOK
  <2>3. CASE ~RestoresFrom(backup) /\ UNCHANGED <<file, backups>>
    BY <1>1, <1>6, <1>7, <1>a, <2>1, <2>3 DEF BackInv, RestoresFrom
  <2>4. CASE disturbed' = disturbed \union {T}
    BY <1>6, <2>4
  <2> QED
    BY <1>11, <2>2, <2>3, <2>4 DEF Restore
<1> QED
  BY <1>8, <1>9, <1>10, <1>11 DEF Step

\* A commit that returned an error gave its target back, unless it could not.
THEOREM ErrorGivesTargetBack == Spec => []TargetGivenBack
<1>1. Init => BackInv
  <2> SUFFICES ASSUME Init, NEW t \in Targets, Have[t] # {} PROVE file[t] \in Whole
    BY DEF BackInv
  <2> QED
    BY CommitAssumption DEF Init, Have, Whole
<1>2. TypeOK /\ PointInv /\ BackInv /\ [Next]_vars => BackInv'
  <2> SUFFICES ASSUME TypeOK, PointInv, BackInv, [Next]_vars PROVE BackInv'
    OBVIOUS
  <2>1. ASSUME NEW c \in Commits, NEW t \in Targets, NEW replace \in BOOLEAN, Call(c, t, replace)
        PROVE  BackInv'
    <3>1. Have' = Have /\ pc = "idle" /\ UNCHANGED <<file, disturbed>>
      BY <2>1 DEF Call, At, Have
    <3> QED
      BY <3>1 DEF BackInv
  <2>2. CASE Crash
    <3>1. Have' = Have /\ UNCHANGED file /\ disturbed' = disturbed \union {T}
      BY <2>2 DEF Crash, Have
    <3> QED
      BY <3>1 DEF BackInv
  <2>3. CASE UNCHANGED vars
    BY <2>3 DEF vars, BackInv, Have, T
  <2> QED
    BY <2>1, <2>2, <2>3, BackStep DEF Next
<1>3. BackInv => TargetGivenBack
  BY DEF BackInv, TargetGivenBack
<1> QED
  BY <1>1, <1>2, <1>3, TypeCorrect, PTL DEF Spec
=============================================================================
