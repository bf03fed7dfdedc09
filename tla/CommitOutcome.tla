----------------------------- MODULE CommitOutcome -----------------------------
(***************************************************************************)
(* What a call of commit_staged may leave behind, for the modules in which *)
(* the call is one step.  CommitStaged makes the same call one system call *)
(* at a time, and implements this (CommitStagedProofs).                    *)
(***************************************************************************)
CONSTANTS
  Absent,  \* content of a path with no file
  Torn     \* content of a file that was copied in part

\* `left` is what the call leaves at its target, `staged` whether the staged file is
\* still there, `ok` whether it returns Ok.  A refused call changes nothing.  Ok means
\* that the new output is in place and the staged file gone.  An error may come after
\* the new output is in place, or leave the target empty or torn when a copy failed and
\* the old output was not renamed back; the staged file is still there unless the new
\* output is in place.
CommitOutcomes(before, new, refused) ==
  {o \in [left : {before, new, Absent, Torn}, staged : BOOLEAN, ok : BOOLEAN] :
     /\ o.left # before => ~refused
     /\ o.ok => o.left = new /\ ~o.staged
     /\ o.left # new => o.staged}
=============================================================================
