---------------------------- MODULE ReplaceOutput ----------------------------
(***************************************************************************)
(* What commit_staged promises about the outputs of a directory, whatever  *)
(* system call fails and whenever the process ends: an output that exists  *)
(* whole, under its own name or set aside, is given up only in exchange    *)
(* for a whole new one, one for one, and only by a commit that may         *)
(* replace; a commit that succeeds has its output there.                   *)
(***************************************************************************)
CONSTANTS
  Targets,   \* output paths
  Commits,   \* identities of the commits, which are also the contents they bring
  Original,  \* content of the files that were there before
  NoCommit   \* no commit is under way

VARIABLES
  have,      \* have[t]: the whole outputs that exist for t, under any name
  current,   \* the commit under way
  result     \* result[c]: how commit c stands

vars == <<have, current, result>>

Commit == [id : Commits, target : Targets, replace : BOOLEAN]

Init ==
  /\ have \in [Targets -> {{}, {Original}}]
  /\ current = NoCommit
  /\ result = [c \in Commits |-> "none"]

Start(c, t, replace) ==
  /\ current = NoCommit /\ result[c] = "none"
  /\ current' = [id |-> c, target |-> t, replace |-> replace]
  /\ result' = [result EXCEPT ![c] = "running"]
  /\ UNCHANGED have

\* The new output is there, whole.
Put ==
  /\ current # NoCommit
  /\ have' = [have EXCEPT ![current.target] = @ \union {current.id}]
  /\ UNCHANGED <<current, result>>

\* An older output is given up, once the new one is there.
Discard ==
  /\ current # NoCommit /\ current.replace
  /\ current.id \in have[current.target]
  /\ \E old \in have[current.target] \ {current.id} :
       have' = [have EXCEPT ![current.target] = @ \ {old}]

\* The last step of a successful commit, which may give the old output up.
Succeed ==
  /\ current # NoCommit
  /\ current.id \in have[current.target]
  /\ Discard \/ UNCHANGED have
  /\ result' = [result EXCEPT ![current.id] = "ok"]
  /\ current' = NoCommit

\* A commit fails, or the process ends: nothing is given up.
Stop(outcome) ==
  /\ current # NoCommit
  /\ result' = [result EXCEPT ![current.id] = outcome]
  /\ current' = NoCommit
  /\ UNCHANGED have

Next ==
  \/ \E c \in Commits, t \in Targets, replace \in BOOLEAN : Start(c, t, replace)
  \/ Put \/ Succeed \/ Stop("error") \/ Stop("crashed")

Spec == Init /\ [][Next]_vars
=============================================================================
