----------------------------- MODULE OneStepCommit -----------------------------
(***************************************************************************)
(* commit_staged as its callers may take it: it begins, and ends in one    *)
(* step with an outcome of CommitOutcomes, an end of the process included. *)
(***************************************************************************)
EXTENDS CommitOutcome

CONSTANTS
  Targets,   \* output paths
  Commits,   \* identities of the commits, which are also the contents they bring
  Original,  \* content of the files that were there before
  NoCommit   \* no commit is under way

VARIABLES
  file,      \* file[t]: what target t holds
  staged,    \* the staged file of the last commit is there
  current,   \* the commit under way
  result     \* result[c]: how commit c stands

vars == <<file, staged, current, result>>

Init ==
  /\ file \in [Targets -> {Absent, Original}]
  /\ staged = FALSE
  /\ current = NoCommit
  /\ result = [c \in Commits |-> "none"]

Begin(c, t, replace) ==
  /\ current = NoCommit /\ result[c] = "none"
  /\ current' = [id |-> c, target |-> t, replace |-> replace]
  /\ staged' = TRUE
  /\ result' = [result EXCEPT ![c] = "running"]
  /\ UNCHANGED file

\* The commit under way may not replace what is there.
Refused == ~current.replace /\ file[current.target] # Absent

\* An end of the process leaves what an error may leave.
Finish(how) ==
  /\ current # NoCommit
  /\ \E o \in CommitOutcomes(file[current.target], current.id, Refused) :
       /\ o.ok <=> how = "ok"
       /\ file' = [file EXCEPT ![current.target] = o.left]
       /\ staged' = o.staged
  /\ result' = [result EXCEPT ![current.id] = how]
  /\ current' = NoCommit

Next ==
  \/ \E c \in Commits, t \in Targets, replace \in BOOLEAN : Begin(c, t, replace)
  \/ \E how \in {"ok", "error", "crashed"} : Finish(how)

Spec == Init /\ [][Next]_vars
=============================================================================
