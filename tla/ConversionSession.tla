-------------------------- MODULE ConversionSession --------------------------
(***************************************************************************)
(* One GUI process converting playlists and single games: the UI thread,   *)
(* its event-loop queue, the worker thread of each conversion, and the two *)
(* objects they share, the cancel flag and the prompt slot.                *)
(*                                                                         *)
(* The UI thread runs one callback at a time: a click handler, or the      *)
(* closure at the head of the queue that slint::invoke_from_event_loop     *)
(* appends to.  A worker runs the loop of import_lpl_with_output_handling  *)
(* with the GUI's callbacks: it packs an item to `<name>.tmp`, resolves    *)
(* where the output goes (asking the user when the name is taken), commits *)
(* it, and asks again when something failed.  A worker that asks stores a  *)
(* fresh Sender in the workspace's slot and polls its own Receiver and its *)
(* own cancel flag.                                                        *)
(*                                                                         *)
(* What a file holds is abstracted to who wrote it, an item to its number  *)
(* and the name of its output.                                             *)
(***************************************************************************)
EXTENDS Naturals, Sequences, CommitOutcome

CONSTANTS
  Runs,        \* identities of the conversions a process starts (bounds them)
  N,           \* number of items of the playlist
  Names,       \* output names
  Output,      \* Output[i]: the output name of item i
  SingleName,  \* the output name of the game on the single-file page
  MaxSuffix,   \* bound on the `_new_NN` suffixes of renamed_target
  Outside,     \* paths another program may create while the GUI runs
  Pages,       \* pages the user converts from: "playlist", "game" or both
  None,        \* "no conversion" (an empty Option)
  UserFile     \* content of a file no conversion of this process wrote

\* Items are numbered from 1, like the index of a PlannedLplItem.
Items == 1..N

\* A path is an output name with the number of its `_new` suffix, 0 for none.
Path == Names \X (0..MaxSuffix)
Content == {Absent, Torn, UserFile} \union (Runs \X Items)

ASSUME SessionAssumption ==
  /\ N \in Nat \ {0}
  /\ Output \in [Items -> Names]
  /\ SingleName \in Names
  /\ MaxSuffix \in Nat
  /\ Outside \subseteq Path
  /\ Pages \subseteq {"playlist", "game"}
  /\ None \notin Runs \union Path
  /\ Absent # UserFile /\ Absent # Torn
  /\ {Absent, UserFile} \intersect (Runs \X Items) = {}

ConflictAnswers == {"Skip", "SkipAll", "Rename", "RenameAll", "Replace", "ReplaceAll"}
ErrorAnswers == {"Continue", "Stop"}
Modes == {"Ask", "SkipAlways", "RenameAlways", "ReplaceAlways"}
Outcomes == {"complete", "cancelled", "failed"}

VARIABLES
  alive,            \* the process has not panicked
  running,          \* window.conversion_running
  conflictVisible,  \* window.conflict_visible
  conflictPath,     \* window.conflict_path, None before the first dialog
  errorVisible,     \* window.error_visible
  shown,            \* window.conversion_{current,total,imported,skipped}
  verdict,          \* what the status bar last said of a conversion
  singleConflict,   \* workspace.single_conflict.is_some()
  cancelFlag,       \* whose AtomicBool workspace.cancel_flag holds
  slot,             \* whose Sender workspace.prompt_sender holds
  events,           \* closures queued by invoke_from_event_loop
  pc,               \* where each worker stands
  kind,             \* what each worker converts
  cancelled,        \* each worker's cancel flag
  channel,          \* each worker's Receiver
  job,              \* each worker's locals
  collisions,       \* each worker's shared collision_skipped counter
  files,            \* the output directory
  staged,           \* workers whose `<name>.tmp` is on disk
  consent,          \* history: paths whose replacement the user asked for
  late              \* history: outputs each worker committed after its cancel

window == <<running, conflictVisible, conflictPath, errorVisible, shown, verdict>>
workspace == <<singleConflict, cancelFlag, slot>>
worker == <<pc, kind, cancelled, channel, job, collisions>>
disk == <<files, staged>>
history == <<consent, late>>
vars == <<alive, window, workspace, events, worker, disk, history>>

------------------------------------------------------------------------------
(* The types. *)

Counts == [current : Nat, total : Nat, imported : Nat, skipped : Nat]
Zero(total) == [current |-> 0, total |-> total, imported |-> 0, skipped |-> 0]

\* The locals of a worker: the planned items not yet handled, the conflict mode,
\* the destination chosen for the item at hand, the report's counters, and the
\* result of the loop once it has one.
Job == [todo : Seq(Items), mode : Modes, path : Path, replace : BOOLEAN,
        total : Nat, imported : Nat, skipped : Nat, result : Outcomes]

Event ==
  [type : {"progress"}, run : Runs, counts : Counts]
    \union [type : {"conflict"}, run : Runs, path : Path]
    \union [type : {"error"}, run : Runs]
    \union [type : {"final"}, run : Runs, outcome : Outcomes, counts : Counts]

TypeOK ==
  /\ alive \in BOOLEAN
  /\ running \in BOOLEAN
  /\ conflictVisible \in BOOLEAN
  /\ conflictPath \in Path \union {None}
  /\ errorVisible \in BOOLEAN
  /\ shown \in Counts
  /\ verdict \in Outcomes \union {"none", "skipped"}
  /\ singleConflict \in BOOLEAN
  /\ cancelFlag \in Runs \union {None}
  /\ slot \in Runs \union {None}
  /\ events \in Seq(Event)
  /\ pc \in [Runs -> {"idle", "plan", "item", "resolve", "ask", "packed",
                      "commit", "fail", "askError", "finish", "done"}]
  /\ kind \in [Runs -> {"batch", "single", "set"}]
  /\ cancelled \in [Runs -> BOOLEAN]
  /\ channel \in [Runs -> {"none", "open", "gone"} \union ConflictAnswers \union ErrorAnswers]
  /\ job \in [Runs -> Job]
  /\ collisions \in [Runs -> Nat]
  /\ files \in [Path -> Content]
  /\ staged \subseteq Runs
  /\ consent \subseteq Path
  /\ late \in [Runs -> Nat]

------------------------------------------------------------------------------
(* The prompt slot, the queue and the file system. *)

SinglePath == <<SingleName, 0>>

NoJob == [todo |-> <<>>, mode |-> "Ask", path |-> SinglePath, replace |-> FALSE,
          total |-> 0, imported |-> 0, skipped |-> 0, result |-> "complete"]

Post(e) == events' = Append(events, e)

\* Defect: a dropped Sender goes unnoticed, the poll loop treats Disconnected as Timeout.
Disconnected_Ignored(r) == channel[r]

\* Dropping a Sender wakes its Receiver with a Disconnected error.
Disconnected(r) == IF channel[r] = "open" THEN "gone" ELSE channel[r]

\* A worker opens a channel and stores its Sender, dropping the one stored before.
OpenPrompt(r) ==
  /\ slot' = r
  /\ channel' = [q \in Runs |-> IF q = r THEN "open"
                                ELSE IF q = slot THEN Disconnected(q) ELSE channel[q]]

\* A handler takes the Sender out of the slot and sends one answer, which
\* nobody reads when the Receiver is gone.
Send(answer) ==
  /\ slot' = None
  /\ channel' = [q \in Runs |-> IF q = slot /\ channel[q] = "open"
                                THEN answer ELSE channel[q]]

\* Return from the prompt loop: the Receiver is dropped.
ClosePrompt(r) == channel' = [channel EXCEPT ![r] = "none"]

\* The first of `<stem>_new`, `<stem>_new_02`, ... with no file, if the bound
\* leaves one.
Renamed(p) ==
  {q \in {p[1]} \X (1..MaxSuffix) :
     files[q] = Absent /\ \A j \in 1..(q[2] - 1) : files[<<p[1], j>>] # Absent}

------------------------------------------------------------------------------
(* The UI thread. *)

\* A conversion starts: a new cancel flag is stored in the workspace and a
\* worker spawned.
Launch(r, k, total) ==
  /\ pc[r] = "idle"
  /\ cancelFlag' = r
  /\ running' = TRUE
  /\ shown' = Zero(total)
  /\ pc' = [pc EXCEPT ![r] = "plan"]
  /\ kind' = [kind EXCEPT ![r] = k]
  /\ consent' = {}
  /\ UNCHANGED <<cancelled, channel, job, collisions, slot, events, disk, late>>

\* Defect: the buttons stay enabled during a conversion.
CanStart_Ungated == TRUE

\* The Start and Skip buttons of the preflight panel are enabled, and the
\* Convert button is there, only while conversion_running is false.
CanStart == ~running

\* start_pending_conversion.
StartBatch(r) ==
  /\ "playlist" \in Pages
  /\ CanStart
  /\ Launch(r, "batch", 0)
  /\ UNCHANGED <<alive, conflictVisible, conflictPath, errorVisible, verdict, singleConflict>>

\* convert_single, which goes through a one-item temporary LPL, and convert_pack_set
\* for a game of several files: an output that exists already is put to the user first.
ConvertSingle(r) ==
  /\ "game" \in Pages
  /\ CanStart
  /\ \/ /\ files[SinglePath] = Absent
        /\ \E k \in {"single", "set"} : Launch(r, k, 1)
        /\ UNCHANGED <<conflictVisible, conflictPath, singleConflict>>
     \/ /\ files[SinglePath] # Absent
        /\ singleConflict' = TRUE
        /\ conflictPath' = SinglePath
        /\ conflictVisible' = TRUE
        /\ UNCHANGED <<running, shown, cancelFlag, slot, events, worker, disk, history>>
  /\ UNCHANGED <<alive, errorVisible, verdict>>

\* handle_conflict_response.  A pending single conversion takes the answer,
\* whoever opened the dialog.  Rename and Replace then call
\* run_single_conversion while the RefMut of the `if let` is still borrowed:
\* its own borrow_mut panics and the process ends.
AnswerConflict(answer) ==
  /\ conflictVisible
  /\ conflictVisible' = FALSE
  /\ singleConflict' = FALSE
  /\ consent' = CASE answer = "Replace" -> consent \union ({conflictPath} \ {None})
                  [] answer = "ReplaceAll" -> Path
                  [] OTHER -> consent
  /\ \/ /\ singleConflict /\ answer \in {"Skip", "SkipAll"}
        /\ verdict' = "skipped"
        /\ UNCHANGED <<alive, slot, channel>>
     \/ /\ singleConflict /\ answer \notin {"Skip", "SkipAll"}
        /\ alive' = FALSE
        /\ UNCHANGED <<verdict, slot, channel>>
     \/ /\ ~singleConflict
        /\ Send(answer)
        /\ UNCHANGED <<alive, verdict>>
  /\ UNCHANGED <<running, conflictPath, errorVisible, shown, cancelFlag, events,
                 pc, kind, cancelled, job, collisions, disk, late>>

\* The Continue and Stop buttons of the error dialog.
AnswerError(answer) ==
  /\ errorVisible
  /\ errorVisible' = FALSE
  /\ Send(answer)
  /\ UNCHANGED <<alive, running, conflictVisible, conflictPath, shown, verdict,
                 singleConflict, cancelFlag, events, pc, kind, cancelled, job,
                 collisions, disk, history>>

\* The Cancel button, there while a conversion runs: set the flag the workspace
\* holds, if any, and answer Stop to whoever waits.
Cancel ==
  /\ running
  /\ cancelled' = [r \in Runs |-> IF r = cancelFlag THEN TRUE ELSE cancelled[r]]
  /\ Send("Stop")
  /\ UNCHANGED <<alive, window, singleConflict, cancelFlag, events, pc, kind, job,
                 collisions, disk, history>>

\* LplWorkspace::reset, when another playlist or directory is chosen: no button
\* that leads to it is disabled while a conversion runs.
Reset ==
  /\ cancelFlag' = None
  /\ singleConflict' = FALSE
  /\ slot' = None
  /\ channel' = [q \in Runs |-> IF q = slot THEN Disconnected(q) ELSE channel[q]]
  /\ UNCHANGED <<alive, window, events, pc, kind, cancelled, job, collisions, disk, history>>

------------------------------------------------------------------------------
(* The worker threads. *)

At(r, label) == pc[r] = label
Goto(r, label) == pc' = [pc EXCEPT ![r] = label]

\* The length of the playlist a worker imports: the chosen one, or the one-item
\* temporary LPL.
Total(r) == IF kind[r] = "batch" THEN N ELSE 1

\* The items a plan may hold: some of the first n, in order.
Plans(n) == {s \in UNION {[1..m -> 1..n] : m \in 0..n} :
               \A i, j \in DOMAIN s : i < j => s[i] < s[j]}

\* The item at hand, and where its output is meant to go.
Current(r) == Head(job[r].todo)
Destination(r) == <<Output[Current(r)], 0>>

\* The import loop ends with a result, which the worker then reports.
End(r, result) ==
  /\ job' = [job EXCEPT ![r].result = result]
  /\ Goto(r, "finish")

\* The item at hand is handled: count it, report progress, go to the next one.
ItemDone(r, mode, imported, skipped) ==
  /\ job' = [job EXCEPT ![r] = [job[r] EXCEPT !.todo = Tail(job[r].todo),
                                              !.mode = mode,
                                              !.imported = job[r].imported + imported,
                                              !.skipped = job[r].skipped + skipped]]
  /\ Post([type |-> "progress", run |-> r,
           counts |-> [current |-> Current(r), total |-> job[r].total,
                       imported |-> job[r].imported + imported,
                       skipped |-> job[r].skipped + skipped]])
  /\ Goto(r, "item")

\* plan_lpl_import: the playlist may be unreadable; a batch skips the items whose
\* game is missing, a single conversion fails on them.
Plan(r) ==
  /\ At(r, "plan") /\ kind[r] # "set"
  /\ \/ /\ End(r, "failed")
        /\ UNCHANGED events
     \/ \E plan \in Plans(Total(r)) :
          LET missing == Total(r) - Len(plan) IN
          /\ kind[r] = "single" => missing = 0
          /\ job' = [job EXCEPT ![r] = [job[r] EXCEPT !.todo = plan,
                                                 !.total = Total(r),
                                                 !.skipped = missing]]
          /\ Post([type |-> "progress", run |-> r,
                   counts |-> [Zero(Total(r)) EXCEPT !.skipped = missing]])
          /\ Goto(r, "item")
  /\ UNCHANGED <<kind, cancelled, channel, collisions, slot, disk, late>>

\* pack_entries_to_path_with_writer_options packs a game of several files, without
\* import loop or questions; libromx writes to `<name>.tmp` itself, so a failure after
\* that leaves it there.
PackSet(r) ==
  /\ At(r, "plan") /\ kind[r] = "set"
  /\ \E result \in {"complete", "failed"} :
       /\ job' = [job EXCEPT ![r] = [job[r] EXCEPT !.result = result]]
       /\ \/ staged' = staged \union {r}
          \/ result = "failed" /\ UNCHANGED staged
  /\ Goto(r, "packed")
  /\ UNCHANGED <<kind, cancelled, channel, collisions, slot, events, files, late>>

\* Defect: the import loop never looks at the flag.
SeesCancel_Never(r) == FALSE

\* is_cancelled at the head of the import loop.
SeesCancel(r) == cancelled[r]

\* The head of the loop reads the cancel flag once for each item.
StopBetweenItems(r) ==
  /\ At(r, "item") /\ job[r].todo # <<>>
  /\ SeesCancel(r)
  /\ End(r, "cancelled")
  /\ UNCHANGED <<kind, cancelled, channel, collisions, slot, events, disk, late>>

\* The item is packed into `<name>.tmp`, or packing fails and removes that file.
Pack(r) ==
  /\ At(r, "item") /\ job[r].todo # <<>>
  /\ ~SeesCancel(r)
  /\ \/ staged' = staged \union {r} /\ Goto(r, "resolve")
     \/ UNCHANGED staged /\ Goto(r, "fail")
  /\ UNCHANGED <<kind, cancelled, channel, job, collisions, slot, events, files, late>>

\* What becomes of a packed item whose destination is known.
CommitTo(r, mode, path, replace) ==
  /\ job' = [job EXCEPT ![r] = [job[r] EXCEPT !.mode = mode, !.path = path,
                                         !.replace = replace]]
  /\ Goto(r, "commit")
  /\ UNCHANGED <<events, staged, collisions>>

\* Defect: the staged file is left where it is.
RemoveStaged_Forgotten(r) == staged' = staged

\* fs::remove_file(staged) on the paths that give an output up.
RemoveStaged(r) == staged' = staged \ {r}

\* A packed set is committed unless the conversion was cancelled meanwhile; what a
\* failed one left behind is removed only when it was cancelled too.
SetPacked(r) ==
  /\ At(r, "packed") /\ kind[r] = "set"
  /\ \/ /\ cancelled[r]
        /\ RemoveStaged(r)
        /\ End(r, "cancelled")
     \/ /\ ~cancelled[r] /\ job[r].result = "failed"
        /\ End(r, "failed")
        /\ UNCHANGED staged
     \/ /\ ~cancelled[r] /\ job[r].result = "complete"
        /\ job' = [job EXCEPT ![r] = [job[r] EXCEPT !.path = SinglePath, !.replace = FALSE,
                                                    !.total = 1, !.imported = 1]]
        /\ Goto(r, "commit")
        /\ UNCHANGED staged
  /\ UNCHANGED <<kind, cancelled, channel, collisions, slot, events, files, late>>

\* What becomes of a packed item whose name is taken, by the user's decision: it
\* is removed and counted as a collision, committed under a free name, or
\* committed over the file there.
Settle(r, mode, decision) ==
  \/ /\ decision = "skip"
     /\ RemoveStaged(r)
     /\ collisions' = [collisions EXCEPT ![r] = @ + 1]
     /\ ItemDone(r, mode, 0, 0)
  \/ /\ decision = "rename"
     /\ \E path \in Renamed(Destination(r)) : CommitTo(r, mode, path, FALSE)
  \/ /\ decision = "replace"
     /\ CommitTo(r, mode, Destination(r), TRUE)

\* The default on_output of a single conversion keeps the staged file; it is
\* committed after the loop.
KeepOutput(r) ==
  /\ At(r, "resolve") /\ kind[r] = "single"
  /\ ItemDone(r, job[r].mode, 1, 0)
  /\ UNCHANGED <<kind, cancelled, channel, collisions, slot, disk, late>>

\* resolve_output_destination, up to the question it may ask.
Resolve(r) ==
  /\ At(r, "resolve") /\ kind[r] = "batch"
  /\ LET taken == files[Destination(r)] # Absent
         mode == job[r].mode
     IN \/ /\ ~taken
           /\ CommitTo(r, mode, Destination(r), FALSE)
           /\ UNCHANGED <<slot, channel>>
        \/ /\ taken /\ mode # "Ask"
           /\ Settle(r, mode, CASE mode = "SkipAlways" -> "skip"
                                [] mode = "RenameAlways" -> "rename"
                                [] mode = "ReplaceAlways" -> "replace")
           /\ UNCHANGED <<slot, channel>>
        \/ /\ taken /\ mode = "Ask"
           /\ OpenPrompt(r)
           /\ Post([type |-> "conflict", run |-> r, path |-> Destination(r)])
           /\ Goto(r, "ask")
           /\ UNCHANGED <<job, staged, collisions>>
  /\ UNCHANGED <<kind, cancelled, files, late>>

\* request_conflict_choice returns an answer; the `all` answers change the mode.
AskAnswered(r) ==
  /\ At(r, "ask")
  /\ \/ channel[r] = "Skip" /\ Settle(r, "Ask", "skip")
     \/ channel[r] = "SkipAll" /\ Settle(r, "SkipAlways", "skip")
     \/ channel[r] = "Rename" /\ Settle(r, "Ask", "rename")
     \/ channel[r] = "RenameAll" /\ Settle(r, "RenameAlways", "rename")
     \/ channel[r] = "Replace" /\ Settle(r, "Ask", "replace")
     \/ channel[r] = "ReplaceAll" /\ Settle(r, "ReplaceAlways", "replace")
  /\ ClosePrompt(r)
  /\ UNCHANGED <<kind, cancelled, slot, files, late>>

\* Defect: the poll loop waits for the channel only.
Abandoned_Deaf(r, answers) == channel[r] \notin answers \union {"open"}

\* A prompt ends without an answer of its own: the poll loop sees the cancel flag
\* or the dropped Sender, or receives an answer meant for another question.
Abandoned(r, answers) == cancelled[r] \/ channel[r] \notin answers \union {"open"}

\* request_conflict_choice gives up: the staged file is removed, and the error
\* Cancelled ends the loop without a question.
AskAbandoned(r) ==
  /\ At(r, "ask")
  /\ Abandoned(r, ConflictAnswers)
  /\ RemoveStaged(r)
  /\ End(r, "cancelled")
  /\ ClosePrompt(r)
  /\ UNCHANGED <<kind, cancelled, collisions, slot, events, files, late>>

\* Defect: outputs numbered from zero.
Written_ZeroBased(r) == <<r, IF kind[r] = "batch" THEN Current(r) - 1 ELSE 0>>

\* What a committed output of the worker holds.
Written(r) == <<r, IF kind[r] = "batch" THEN Current(r) ELSE 1>>

\* Defect: the destination is not looked at again before the rename.
Refused_Never(r) == FALSE

\* Without `replace`, commit_staged refuses a destination that exists by now.
Refused(r) == ~job[r].replace /\ files[job[r].path] # Absent

\* commit_staged as one step.
\* A batch then removes what is left of the staged file and goes on to the error
\* question; a set removes it and ends; a single conversion just ends.
Commit(r) ==
  /\ At(r, "commit")
  /\ \E outcome \in CommitOutcomes(files[job[r].path], Written(r), Refused(r)) :
       /\ files' = [files EXCEPT ![job[r].path] = outcome.left]
       /\ staged' = IF outcome.staged /\ kind[r] = "single" THEN staged ELSE staged \ {r}
       /\ late' = IF outcome.left = Written(r) /\ cancelled[r]
                  THEN [late EXCEPT ![r] = @ + 1] ELSE late
       /\ \/ /\ kind[r] = "batch" /\ outcome.ok
             /\ ItemDone(r, job[r].mode, 1, 0)
          \/ /\ kind[r] = "batch" /\ ~outcome.ok
             /\ Goto(r, "fail")
             /\ UNCHANGED <<job, events>>
          \/ /\ kind[r] # "batch"
             /\ End(r, IF outcome.ok THEN "complete" ELSE "failed")
             /\ UNCHANGED events
  /\ UNCHANGED <<kind, cancelled, channel, collisions, slot>>

\* request_error_choice: the item failed and the user is asked whether to go on.
AskError(r) ==
  /\ At(r, "fail")
  /\ OpenPrompt(r)
  /\ Post([type |-> "error", run |-> r])
  /\ Goto(r, "askError")
  /\ UNCHANGED <<kind, cancelled, job, collisions, disk, late>>

\* Continue: the item counts as skipped.
ErrorContinued(r) ==
  /\ At(r, "askError")
  /\ channel[r] = "Continue"
  /\ ItemDone(r, job[r].mode, 0, 1)
  /\ ClosePrompt(r)
  /\ UNCHANGED <<kind, cancelled, collisions, slot, disk, late>>

\* Stop, cancel, a dropped Sender, or any other answer: the import returns the error.
ErrorStopped(r) ==
  /\ At(r, "askError")
  /\ Abandoned(r, {"Continue"})
  /\ End(r, "failed")
  /\ ClosePrompt(r)
  /\ UNCHANGED <<kind, cancelled, collisions, slot, events, disk, late>>

\* The loop is over.  A batch has its report; a single conversion reads the cancel
\* flag and commits the one output, if there is one.
LoopDone(r) ==
  /\ At(r, "item") /\ job[r].todo = <<>>
  /\ \/ /\ kind[r] = "batch"
        /\ End(r, "complete")
     \/ /\ kind[r] = "single" /\ job[r].imported = 0
        /\ End(r, "failed")
     \/ /\ kind[r] = "single" /\ job[r].imported > 0 /\ cancelled[r]
        /\ End(r, "cancelled")
     \/ /\ kind[r] = "single" /\ job[r].imported > 0 /\ ~cancelled[r]
        /\ job' = [job EXCEPT ![r] = [job[r] EXCEPT !.path = SinglePath, !.replace = FALSE]]
        /\ Goto(r, "commit")
  /\ UNCHANGED <<kind, cancelled, channel, collisions, slot, events, disk, late>>

\* What the worker reports: a cancelled batch is reported as cancelled even when
\* the loop ended otherwise; a game that was packed has read the flag before its
\* commit, whose result then stands.
Outcome(r) ==
  IF cancelled[r] /\ (kind[r] = "batch" \/ job[r].imported = 0)
  THEN "cancelled" ELSE job[r].result

\* Defect: the outputs skipped at a collision are left out of the report.
FinalCounts_NoCollisions(r) ==
  [current |-> job[r].total, total |-> job[r].total,
   imported |-> job[r].imported, skipped |-> job[r].skipped]

\* The counters the last closure shows.
FinalCounts(r) ==
  [current |-> job[r].total, total |-> job[r].total,
   imported |-> job[r].imported, skipped |-> job[r].skipped + collisions[r]]

\* The worker queues its last closure and ends; its locals go.
Finish(r) ==
  /\ At(r, "finish")
  /\ Post([type |-> "final", run |-> r, outcome |-> Outcome(r), counts |-> FinalCounts(r)])
  /\ Goto(r, "done")
  /\ job' = [job EXCEPT ![r] = NoJob]
  /\ UNCHANGED <<kind, cancelled, channel, collisions, slot, disk, late>>

WorkerStep(r) ==
  \/ Plan(r) \/ PackSet(r) \/ SetPacked(r)
  \/ StopBetweenItems(r) \/ Pack(r) \/ KeepOutput(r) \/ Resolve(r)
  \/ AskAnswered(r) \/ AskAbandoned(r) \/ Commit(r) \/ AskError(r)
  \/ ErrorContinued(r) \/ ErrorStopped(r) \/ LoopDone(r) \/ Finish(r)

Worker(r) ==
  /\ WorkerStep(r)
  /\ UNCHANGED <<alive, window, singleConflict, cancelFlag, consent>>

------------------------------------------------------------------------------
(* The event loop runs the closure at the head of the queue. *)

\* The progress closure of a batch adds the collision counter as it is now, not
\* as it was when the closure was queued.
ShowProgress(e) ==
  /\ e.type = "progress"
  /\ shown' = IF kind[e.run] = "batch"
              THEN [e.counts EXCEPT !.skipped = @ + collisions[e.run]] ELSE e.counts
  /\ UNCHANGED <<running, conflictVisible, conflictPath, errorVisible, verdict>>

ShowConflict(e) ==
  /\ e.type = "conflict"
  /\ conflictPath' = e.path
  /\ conflictVisible' = TRUE
  /\ UNCHANGED <<running, errorVisible, shown, verdict>>

ShowError(e) ==
  /\ e.type = "error"
  /\ errorVisible' = TRUE
  /\ UNCHANGED <<running, conflictVisible, conflictPath, shown, verdict>>

\* The last closure of a conversion closes both dialogs, whoever opened them.
ShowFinal(e) ==
  /\ e.type = "final"
  /\ running' = FALSE
  /\ conflictVisible' = FALSE
  /\ errorVisible' = FALSE
  /\ verdict' = e.outcome
  /\ shown' = IF e.outcome = "complete" THEN e.counts ELSE shown
  /\ UNCHANGED conflictPath

RunEvent ==
  /\ events # <<>>
  /\ events' = Tail(events)
  /\ LET e == Head(events)
     IN ShowProgress(e) \/ ShowConflict(e) \/ ShowError(e) \/ ShowFinal(e)
  /\ UNCHANGED <<alive, workspace, worker, disk, history>>

------------------------------------------------------------------------------
(* Another program creates a file in the output directory. *)

CreateOutside(p) ==
  /\ files[p] = Absent
  /\ files' = [files EXCEPT ![p] = UserFile]
  /\ UNCHANGED <<alive, window, workspace, events, worker, staged, history>>

------------------------------------------------------------------------------

Init ==
  /\ alive = TRUE
  /\ running = FALSE
  /\ conflictVisible = FALSE /\ conflictPath = None /\ errorVisible = FALSE
  /\ shown = Zero(0)
  /\ verdict = "none"
  /\ singleConflict = FALSE /\ cancelFlag = None /\ slot = None
  /\ events = <<>>
  /\ pc = [r \in Runs |-> "idle"]
  /\ kind = [r \in Runs |-> "batch"]
  /\ cancelled = [r \in Runs |-> FALSE]
  /\ channel = [r \in Runs |-> "none"]
  /\ job = [r \in Runs |-> NoJob]
  /\ collisions = [r \in Runs |-> 0]
  /\ \E taken \in SUBSET (Names \X {0}) :
       files = [p \in Path |-> IF p \in taken THEN UserFile ELSE Absent]
  /\ staged = {}
  /\ consent = {}
  /\ late = [r \in Runs |-> 0]

\* A click on the window; nothing is clicked after a panic.
User ==
  \/ \E r \in Runs : StartBatch(r) \/ ConvertSingle(r)
  \/ \E answer \in ConflictAnswers : AnswerConflict(answer)
  \/ \E answer \in ErrorAnswers : AnswerError(answer)
  \/ Cancel
  \/ Reset

Next ==
  /\ alive
  /\ \/ User
     \/ RunEvent
     \/ \E r \in Runs : Worker(r)
     \/ \E p \in Outside : CreateOutside(p)

\* The operating system keeps running the worker threads and the event loop; the
\* user owes the program nothing.
Fairness ==
  /\ WF_vars(alive /\ RunEvent)
  /\ \A r \in Runs : WF_vars(alive /\ Worker(r))

Spec == Init /\ [][Next]_vars
FairSpec == Spec /\ Fairness

------------------------------------------------------------------------------
(* What must hold of the session. *)

\* A worker is running, or its last closure has not run yet.
InFlight(r) ==
  \/ pc[r] \notin {"idle", "done"}
  \/ \E i \in 1..Len(events) : events[i].type = "final" /\ events[i].run = r

\* The conversion_running property, which alone keeps a second conversion from
\* being started, is on exactly while a conversion is in flight, so that there is
\* at most one worker (and one owner of the prompt slot) at a time.
OneConversion ==
  /\ \A r, q \in Runs : InFlight(r) /\ InFlight(q) => r = q
  /\ running <=> \E r \in Runs : InFlight(r)

\* A worker that waits for an answer nobody has sent yet is the one whose Sender
\* is in the slot: the dialog and the Cancel button can always reach it, even
\* after the workspace was reset under it.
PromptReachable ==
  \A r \in Runs :
    pc[r] \in {"ask", "askError"} /\ channel[r] = "open" => slot = r

\* After its cancel flag is set a conversion commits at most the output it was
\* already working on.
AtMostOneLateCommit == \A r \in Runs : late[r] <= 1

\* However a batch ends, it leaves no `<name>.tmp` in the output directory.
NoStagedLeftover ==
  \A r \in staged : pc[r] = "done" => kind[r] # "batch"

\* lib.rs:391 of romx-core, on outputs packed straight to a temporary path: "Callers
\* must remove the path when a post-write operation fails."  The conversion of a game
\* of several files is such a caller.
FailedSetRemoved ==
  \A r \in staged : ~(pc[r] = "done" /\ kind[r] = "set")

\* A file in the output directory, whether the user's or an earlier output, is
\* overwritten only when the user answered Replace to a dialog showing its path,
\* or ReplaceAll, during this conversion: not after Rename, not because another
\* program created it meanwhile.
NoUnaskedOverwrite ==
  [][\A p \in Path : files[p] # Absent /\ files'[p] # files[p] => p \in consent]_vars

\* The numbers on the screen never count an item twice, although the progress
\* closure adds a collision counter that has moved on since it was queued; and
\* when a conversion is reported complete, every item is accounted for.
CountsAddUp ==
  /\ shown.imported + shown.skipped <= shown.total
  /\ verdict = "complete" /\ ~running => shown.imported + shown.skipped = shown.total

\* No click ends the process: README.md:34 promises that a game page packs its game
\* to a ROMX file, a name already taken included.
GuiSurvives == alive

\* A conversion ends once it is cancelled, whatever it was doing.
CancelEnds ==
  \A r \in Runs : cancelled[r] ~> pc[r] = "done" \/ ~alive

\* A conversion comes to its end unless it waits for an answer, and then the slot
\* leads to it: no answer, reset or dropped Sender leaves it waiting for nobody.
EndsOrAsks ==
  running ~> \/ ~running \/ ~alive
             \/ \E r \in Runs : pc[r] \in {"ask", "askError"} /\ slot = r
=============================================================================
