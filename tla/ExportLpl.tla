----------------------------- MODULE ExportLpl -----------------------------
(***************************************************************************)
(* export_lpl_with_output_handling, which unpacks ROMX files to ROMs,      *)
(* covers and saves and writes the playlist that lists the ROMs, with the  *)
(* output callback of the GUI (start_unpack_conversion) and the default    *)
(* one of the command line (export_lpl).                                   *)
(*                                                                         *)
(* An output is staged as `<name>.tmp`, its destination is settled (with   *)
(* the user, when there is a file), and it is committed.  A commit is one  *)
(* step here, as CommitOutcome has it.  What a file holds is               *)
(* abstracted to the number of the game it comes from.                     *)
(***************************************************************************)
EXTENDS Naturals, Sequences, CommitOutcome

CONSTANTS
  Exports,   \* the inputs: sequences of games [base, cover, saves]; the saves are the
             \* entries of the save objects, in the order of objects and entries
  OldPaths,       \* paths that may hold a file before
  MaxCopy,   \* bound on the number of `<stem>_new`, `<stem>_new_02`, ...
  Earlier   \* content of the files that were there before

Kinds == {"rom", "cover", "save", "playlist"}

ASSUME ExportAssumption ==
  /\ Exports \subseteq Seq([base : STRING, cover : BOOLEAN,
                          saves : Seq([object : Nat, entry : Nat])])
  /\ Earlier \notin Nat /\ Torn \notin Nat \union {Earlier}
  /\ Absent \notin Nat \union {Earlier, Torn}
  /\ MaxCopy \in Nat

VARIABLES
  games,      \* export_sources: the ROMX files in their order
  files,      \* the output directories: path -> content
  mode,       \* OutputConflictMode, or "Direct" for the default callback
  cancelled,  \* the cancel flag
  exporter,   \* where the worker stands
  game,       \* the number of the game at hand
  rom,        \* committed_rom of that game
  todo,       \* its outputs still to write
  stagedOutput, \* the `.tmp` of the output at hand is there
  items,      \* the playlist's items
  skipped,    \* the counter of that name
  exported,   \* what the export returned
  consent,    \* history: paths whose replacement the user asked for
  failed,     \* history: games given up after an error
  moved,      \* history: paths whose conflict was settled by another name
  lost        \* history: paths that a commit which failed left without their file

exportVars == <<games, files, mode, cancelled, exporter, game, rom, todo, stagedOutput, items, skipped,
          exported, consent, failed, moved, lost>>
input == <<games>>
history == <<consent, failed, moved, lost>>
tally == <<items, skipped, exported>>

N == Len(games)
Path(kind, dir, name) == [kind |-> kind, dir |-> dir, name |-> name]
Playlist == Path("playlist", <<>>, <<"playlist">>)
Everything == Path("every", <<>>, <<>>)

\* safe_filename and the format extension: a game's ROM is named after its ROMX file.
RomPath(g) == Path("rom", <<>>, <<games[g].base>>)

\* Defect: the cover is named after the ROMX file, not after the ROM that was committed.
CoverPath_OfSource(romPath) == Path("cover", <<>>, <<romPath.name[1]>>)

\* The cover has the stem of the committed ROM, the saves a directory of its name.
CoverPath(romPath) == Path("cover", <<>>, romPath.name)
SavePath(romPath, object, entry) == Path("save", romPath.name, <<"save", object, entry>>)

\* The outputs of a game, in the order they are written.
SavesOf(g) ==
  [k \in 1..Len(games[g].saves) |->
     [kind |-> "save", object |-> games[g].saves[k].object, entry |-> games[g].saves[k].entry]]
OutputsOf(g) ==
  (IF games[g].cover THEN <<[kind |-> "rom"], [kind |-> "cover"]>> ELSE <<[kind |-> "rom"]>>)
    \o SavesOf(g)

ExportAt(label) == exporter = label
ExportGoto(label) == exporter' = label
Output == Head(todo)
Destination ==
  CASE Output.kind = "rom" -> RomPath(game)
    [] Output.kind = "cover" -> CoverPath(rom)
    [] Output.kind = "save" -> SavePath(rom, Output.object, Output.entry)
    [] Output.kind = "playlist" -> Playlist

Taken(p) == p \in DOMAIN files

\* renamed_target: the first of `<stem>_new`, `<stem>_new_02`, ... that is free.
Renamed(p) ==
  {q \in {[p EXCEPT !.name = Append(p.name, k)] : k \in 1..MaxCopy} :
     /\ ~Taken(q)
     /\ \A k \in 1..(q.name[Len(q.name)] - 1) : Taken([p EXCEPT !.name = Append(p.name, k)])}

ExportInit ==
  /\ games \in Exports
  /\ \E old \in SUBSET OldPaths : files = [p \in old |-> Earlier]
  /\ mode \in {"Ask", "Direct"}
  /\ cancelled = FALSE
  /\ exporter = "game" /\ game = 0 /\ rom = Playlist /\ todo = <<>> /\ stagedOutput = FALSE
  /\ items = <<>> /\ skipped = 0 /\ exported = "none"
  /\ consent = {} /\ failed = {} /\ moved = {} /\ lost = {}

------------------------------------------------------------------------------
(* The loop over the games. *)

End(outcome) == ExportGoto("finish") /\ exported' = outcome

\* is_cancelled at the head of the loop.
SeesCancel == cancelled

\* The next game is begun, or the playlist is written once there is none left;
\* the flag is looked at for a game only.
NextGame ==
  /\ ExportAt("game")
  /\ \/ /\ game < N /\ SeesCancel
        /\ End("cancelled")
        /\ UNCHANGED <<game, todo>>
     \/ /\ game < N /\ ~SeesCancel
        /\ game' = game + 1
        /\ todo' = OutputsOf(game + 1)
        /\ ExportGoto("stage")
        /\ UNCHANGED exported
     \/ /\ game = N
        /\ todo' = <<[kind |-> "playlist"]>>
        /\ ExportGoto("stage")
        /\ UNCHANGED <<game, exported>>
  /\ UNCHANGED <<input, files, mode, cancelled, rom, stagedOutput, items, skipped, history>>

\* An output is written to its `.tmp`, atomically, or an error leaves none.  The flag
\* is looked at before the first entry of every save object.
StageOutput ==
  /\ ExportAt("stage") /\ todo # <<>>
  /\ LET seen == Output.kind = "save" /\ Output.entry = 1 /\ cancelled IN
     \/ seen /\ End("cancelled") /\ UNCHANGED stagedOutput
     \/ ~seen /\ stagedOutput' = TRUE /\ ExportGoto("output") /\ UNCHANGED exported
     \/ ~seen /\ ExportGoto("error") /\ UNCHANGED <<stagedOutput, exported>>
  /\ UNCHANGED <<input, files, mode, cancelled, game, rom, todo, items, skipped, history>>

\* Defect: the item is given the name the ROM was planned to have.
ItemPath_Planned == RomPath(game)

\* The name on_output returned for the ROM.
ItemPath == rom

\* All outputs of the game are there: it is listed.
ListGame ==
  /\ ExportAt("stage") /\ todo = <<>>
  /\ items' = Append(items, [path |-> ItemPath, game |-> game])
  /\ ExportGoto("game")
  /\ UNCHANGED <<input, files, mode, cancelled, game, rom, todo, stagedOutput, skipped, exported, history>>

\* Defect: a game given up is not counted.
CountFailed_Forgotten == skipped

\* The game that failed counts as skipped.
CountFailed == skipped + 1

\* on_error: the user continues without the game, or the export ends; an error of the
\* playlist, or of an export with the default callbacks, ends it without a question.
GiveUp ==
  /\ ExportAt("error")
  /\ \/ /\ Output.kind # "playlist" /\ mode # "Direct" /\ ~cancelled
        /\ skipped' = CountFailed
        /\ failed' = failed \union {game}
        /\ ExportGoto("game")
        /\ UNCHANGED exported
     \/ End("failed") /\ UNCHANGED <<skipped, failed>>
  /\ UNCHANGED <<input, files, mode, cancelled, game, rom, todo, stagedOutput, items, consent, moved, lost>>

------------------------------------------------------------------------------
(* on_output: where an output goes. *)

\* Defect: a cover that is skipped skips its game.
SkipsGame_Cover == Output.kind \in {"rom", "cover"}

\* Only a ROM that is skipped skips its game.
SkipsGame == Output.kind = "rom"

\* on_output returned None, or the path the output was committed to.
Skipped ==
  /\ stagedOutput' = FALSE
  /\ \/ SkipsGame /\ skipped' = skipped + 1 /\ todo' = <<>> /\ ExportGoto("game") /\ UNCHANGED exported
     \/ Output.kind = "playlist" /\ End("complete") /\ UNCHANGED <<skipped, todo>>
     \/ /\ ~SkipsGame /\ Output.kind # "playlist"
        /\ todo' = Tail(todo) /\ ExportGoto("stage") /\ UNCHANGED <<skipped, exported>>
  /\ UNCHANGED <<files, rom, lost>>

Held(p) == IF Taken(p) THEN files[p] ELSE Absent

\* The output directories once a path holds some content.
Put(target, content) ==
  [p \in (DOMAIN files \ {target}) \union (IF content = Absent THEN {} ELSE {target}) |->
     IF p = target THEN content ELSE files[p]]

Committed(target) ==
  /\ stagedOutput' = FALSE
  /\ files' = Put(target, game)
  /\ rom' = IF Output.kind = "rom" THEN target ELSE rom
  /\ \/ Output.kind = "playlist" /\ End("complete") /\ UNCHANGED todo
     \/ Output.kind # "playlist" /\ todo' = Tail(todo) /\ ExportGoto("stage") /\ UNCHANGED exported
  /\ UNCHANGED <<skipped, lost>>

\* Defect: an output that cannot be committed is left as `<name>.tmp`.
LeavesStaged_OnError == TRUE

\* The callback removes the staged file when the commit fails.
LeavesStaged == FALSE

NotCommitted(target, left) ==
  /\ stagedOutput' = LeavesStaged
  /\ files' = Put(target, left)
  /\ lost' = lost \union (DOMAIN files \ DOMAIN files')
  /\ ExportGoto("error")
  /\ UNCHANGED <<rom, todo, skipped, exported>>

\* commit_staged, to a path that is free or with `replace`: no such call is refused.
\* The default callback keeps what was written straight to its place, and cannot fail.
CommitTo(target) ==
  \E outcome \in CommitOutcomes(Held(target), game, FALSE) :
    \/ outcome.ok /\ Committed(target)
    \/ ~outcome.ok /\ mode # "Direct" /\ NotCommitted(target, outcome.left)

\* What an answer, or a mode that was answered before, makes of the destination.
Settle(choice) ==
  \/ choice = "Skip" /\ Skipped /\ UNCHANGED moved
  \/ choice = "Replace" /\ CommitTo(Destination) /\ UNCHANGED moved
  \/ /\ choice = "Rename"
     /\ \E q \in Renamed(Destination) : CommitTo(q)
     /\ moved' = moved \union {Destination}

\* Defect: the answer to one question is taken for all of them.
ModeAfter_Any(choice, all) == choice

\* An answer "for all" is kept in the conflict mode, which all outputs share.
ModeAfter(choice, all) == IF all THEN choice ELSE mode

\* resolve_output_destination, when there is no file or the mode says what to do.
Resolve ==
  /\ ExportAt("output")
  /\ \/ ~Taken(Destination) /\ CommitTo(Destination) /\ UNCHANGED moved
     \/ /\ Taken(Destination) /\ mode = "Direct"
        /\ CommitTo(Destination) /\ UNCHANGED moved
     \/ Taken(Destination) /\ Settle(mode)
     \/ /\ Taken(Destination) /\ mode = "Ask"
        /\ ExportGoto("ask")
        /\ UNCHANGED <<files, rom, todo, stagedOutput, skipped, exported, moved, lost>>
  /\ UNCHANGED <<input, mode, cancelled, game, items, consent, failed>>

\* The user answers the question.
AskAnswered ==
  /\ ExportAt("ask")
  /\ \E choice \in {"Skip", "Rename", "Replace"}, all \in BOOLEAN :
       /\ Settle(choice)
       /\ mode' = ModeAfter(choice, all)
       /\ consent' = consent \union
            (IF choice = "Replace" THEN {IF all THEN Everything ELSE Destination} ELSE {})
  /\ UNCHANGED <<input, cancelled, game, items, failed>>

\* The staged file is removed, and Cancelled is an error on_error is not asked about.
AskAbandoned ==
  /\ ExportAt("ask")
  /\ stagedOutput' = FALSE
  /\ End("cancelled")
  /\ UNCHANGED <<input, files, mode, cancelled, game, rom, todo, items, skipped, history>>

\* Defect: an open question waits for its answer alone.
PollsCancel_Never == FALSE

\* request_conflict_choice looks at the flag while it waits for the answer.
PollsCancel == cancelled

AskCancelled == PollsCancel /\ AskAbandoned

\* LplWorkspace::reset drops the Sender the question waits for.
AskDropped == ~cancelled /\ AskAbandoned

------------------------------------------------------------------------------

\* The Cancel button.
Cancel ==
  /\ ~ExportAt("done") /\ ~cancelled /\ mode # "Direct"
  /\ cancelled' = TRUE
  /\ UNCHANGED <<input, files, mode, exporter, game, rom, todo, stagedOutput, tally, history>>

\* An export whose flag is set is reported as cancelled, whatever it returned.
Outcome == IF cancelled THEN "cancelled" ELSE exported

FinishExport ==
  /\ ExportAt("finish")
  /\ exported' = Outcome
  /\ ExportGoto("done")
  /\ UNCHANGED <<input, files, mode, cancelled, game, rom, todo, stagedOutput, items, skipped, history>>

Work == NextGame \/ StageOutput \/ ListGame \/ GiveUp \/ Resolve \/ AskCancelled \/ FinishExport

ExportNext == Work \/ AskAnswered \/ AskDropped \/ Cancel

\* The worker is a thread of its own, which polls the flag while a question is open;
\* nobody has to answer a question or to press Cancel.
ExportFairness == WF_exportVars(Work /\ (ExportAt("error") => cancelled))

ExportSpec == ExportInit /\ [][ExportNext]_exportVars /\ ExportFairness

------------------------------------------------------------------------------
(* Properties. *)

Consented(p) == p \in consent \/ Everything \in consent \/ mode = "Direct"

\* A playlist item leads to its own game's ROM, whatever was renamed, skipped or
\* replaced on the way; only a replacement the user asked for, by a later game of the
\* same file name, puts another game behind it.
ItemsLeadToTheirGames ==
  \A k \in 1..Len(items) :
    \/ items[k].path \in DOMAIN files /\ files[items[k].path] = items[k].game
    \/ Consented(items[k].path)

\* RetroArch, which looks a cover up by the file name of the listed ROM, finds one for
\* every listed game that has a cover, whatever the ROM was renamed to; only a cover
\* that was itself given another name, or that a commit which failed took away, is out
\* of its sight.
CoverFoundByRomName ==
  \A k \in 1..Len(items) :
    games[items[k].game].cover =>
      Path("cover", <<>>, items[k].path.name) \in DOMAIN files \union moved \union lost

\* A ROM that a complete export wrote is in the playlist, but for the games that failed
\* after their ROM was committed (lpl.rs commits it before the cover and the saves).
RomsAreListed ==
  ExportAt("done") /\ exported = "complete" =>
    \A p \in DOMAIN files :
      p.kind = "rom" /\ files[p] \in Nat =>
        \/ files[p] \in failed
        \/ \E k \in 1..Len(items) : items[k] = [path |-> p, game |-> files[p]]

\* Every game is accounted for, in order: what a complete export lists and what it
\* counts as skipped add up to the ROMX files it was given.
GamesAccountedFor ==
  /\ exported = "complete" => Len(items) + skipped = N
  /\ \A j, k \in 1..Len(items) : j < k => items[j].game < items[k].game

\* No `.tmp` of the export outlives it, in whichever way it ended.
NothingLeftStaged == ExportAt("game") \/ ExportAt("finish") \/ ExportAt("done") => ~stagedOutput

\* A file that was there before is overwritten, or lost by a commit that fails, only if
\* the user said so for it or for all; one answer without "for all" says nothing of the
\* next output.
OldFilesKept ==
  [][\A p \in DOMAIN files : files[p] = Earlier =>
       (p \in DOMAIN files' /\ files'[p] = Earlier) \/ Consented(p)']_exportVars

\* Once cancelled the export ends, even out of an open question.
CancelEnds == cancelled ~> ExportAt("done")
=============================================================================
