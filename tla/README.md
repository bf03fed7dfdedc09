# Models and proofs of ROMX GUI

ROMX GUI packs game files into `.romx` containers, one game or a whole RetroArch
playlist (LPL) at a time, and unpacks them again. The wire format belongs to the
C library `libromx`; what this repository adds is the orchestration around it:
threads, prompts, cancellation, temporary and staged files, and the playlist loop.
That orchestration is what these modules model.

## Inventory

| Component | State | Operations | Hard behaviour | What makes it correct |
|---|---|---|---|---|
| **Conversion session** (`romx-gui/src/main.rs`, `app-window.slint`) | window properties (`conversion_running`, `conflict_visible`, `error_visible`, counters), `LplWorkspace` (`cancel_flag`, `prompt_sender`, `single_conflict`), per worker a cancel flag, a Receiver, a collision counter | start of a batch, a single game, a set; answers; cancel; `reset`; the worker's callbacks; the closures it queues | UI thread against worker threads through one slot and one queue; stale dialogs; resets under a running worker | one conversion at a time; every question can be answered; nothing overwritten unasked; cancel ends it; counters add up |
| **LPL import** (`romx-core/src/lpl.rs` 560-960) | plan, report counters | plan, pack item, `on_output`, `on_error`, progress | failure of one item among many | no item lost or counted twice |
| **LPL export** (`lpl.rs` 1168-1406, `main.rs` 3698-3866) | playlist items, staged files | ROM, cover, saves, playlist, each through `on_output` | an item that fails half-way | the playlist lists exactly what was extracted |
| **commit_staged** (`main.rs` 493-545) | target, backup, staged file | check, backup, rename or copy, clean up | crash or failure between two system calls | the old or the new output is always there whole |
| **Atomic writer** (`writer.rs`, `lib.rs` 1190-1380) | stage and temp paths, `TEMP_COUNTER` | reserve, write, add saves, validate, publish, drop | concurrent processes; failure after the write; Windows rename | an output appears whole or not at all |
| **LPL workspace** (`main.rs` 300-450, 2460-2660) | `temp-list-NN.lplx`, its edit copy, current index | choose, edit item, save, back, reset | edits against resets and conversions | a saved edit is converted, an abandoned one is not |
| **Preflight** (`main.rs` 2660-2720) | scanning and visible flags, pending conversion | start scan, cancel, start conversion, result | late scan results | the panel shows the scan of the playlist it will convert |
| **Preview pipeline** (`main.rs` 700-1000) | generation, cache | request, decode, deliver, evict | late and reordered results | the cover shown belongs to the game shown |
| **Online match** (`main.rs` 1150-1420) | match generation, running flag | start, result, choose another game | late results | a result is applied only to the game it was asked for |
| **Mutable region and saves** (`mutable.rs`, `save.rs`, `lib.rs` 260-330) | - | capacities, bundles, extraction | limits, saturation | an edit never shrinks a reservation |
| **Game form** (`main.rs` 1990-2330, 3440-3700) | path shown, `pack_set_files`, `existing_mutable_source`, metadata, cover, CRC | choose, entrypoint, type, edit an item | parts kept beside the path they belong to, late worker results | what is packed is the ROM shown and nothing of another |
| **Writer of entries** (`writer.rs` 130-420) | normalized entries, temporary inputs, stage | check, sort, write, region, saves, validate, publish | an error at any of these | all that was asked for, or what was there before |
| **Covers** (`lib.rs` 490-760) | the flags of a chunk loop | check a PNG | order of chunks | accepts exactly well-formed covers |
| **Registry** (`lib.rs` 60-420, `main.rs`, `lpl.rs`, `writer.rs`) | tables of formats and platforms | guess, name, id | four tables that must agree | a platform survives packing and loading |
| **Reader** (`reader.rs`, `mutable.rs`, `save.rs`) | buffers, offsets, cursors | reads, lists, seeks | a library that answers with sizes it should not | exact bytes or an error, never a loop |
| **Validation, identity, probe, libretro, CLI arguments, FFI** | - | one call each, header parsing, HTTP | byte layouts | not modelled, see below |

How they interact: the window's callbacks run on the UI thread and own the
workspace (`Rc<RefCell<LplWorkspace>>`). A conversion runs on a thread of its own;
it is given clones of the cancel flag and of the prompt slot
(`Arc<Mutex<Option<Sender>>>`), calls `romx-core`'s loop with callbacks, and
talks back only by closures queued with `slint::invoke_from_event_loop`. The core
loop stages each output as `<name>.tmp`; the GUI's `on_output` callback decides
where it goes and `commit_staged` moves it there.

## Modules

| Module | What it is |
|---|---|
| `ConversionSession` | the session: UI thread, event queue, worker threads, slot and flag, output directory |
| `MCConversionSession` | instances for TLC |
| `ConversionSessionProofs` | type correctness and the safety invariants, proved |
| `CommitOutcome` | what a call of `commit_staged` may leave behind, for the modules in which it is one step |
| `OneStepCommit` | abstract: `commit_staged` as that one step |
| `ReplaceOutput` | abstract: what committing an output promises about the outputs of a directory |
| `CommitStaged` | `commit_staged` and `backup_target`, system call by system call, with crashes; implements `ReplaceOutput` and `OneStepCommit` |
| `CommitStagedProofs` | the two refinements, type correctness and the invariants, proved |
| `AtomicOutput` | abstract: a call that brings an output to its destination in one step, or not at all |
| `PublishOutput` | `StagedOutput`, libromx's own publication and `write_atomic_stream`: several writers, processes and crashes; implements `AtomicOutput` within one process |
| `MCPublishOutput` | instances for TLC |
| `PublishOutputProofs` | the refinement, type correctness and the invariants, some of them for one process, proved |
| `WriteEntries` | `Writer::write_path_entries` from its arguments to its return, every step of which may fail |
| `ExportLpl` | unpacking: the export loop, its callbacks in the GUI and on the command line, the GUI's worker |
| `ExportLplProofs` | its invariants and its action property, proved |
| `PlaylistWorkspace` | the playlist page: the temporary copy, item editing, plan, selection, preflight panel |
| `MCPlaylistWorkspace` | its playlists, folders and edits for TLC |
| `GameForm` | the game page's form: choosing, editing, the CRC worker, the online match |
| `MCGameForm` | its ROMs for TLC |
| `PageProofs` | the invariants of the playlist page and of the game form, proved |
| `CoverPreview` | the preview's request counter, worker thread, cache and closures |
| `CoverPreviewProofs` | that the latest picture is shown, proved |
| `MutableCapacity` | the capacity of mutable regions, packed and edited again |
| `MutableCapacityProofs` | its two properties, proved |
| `LibromxCalls` | the loops around a libromx that may answer anything |
| `PngCover` | `validate_png_bytes`, against the grammar of a PNG |
| `RomxCoreProofs` | the invariants of `WriteEntries`, `LibromxCalls`, `PngCover` and `Registry`, proved |
| `Registry` | the tables of formats and platforms, and a platform's way through them |
| `MCComponents` | the components that share no state, in one instance |

### ConversionSession and the code

* One action is one UI callback, one closure of the event loop, or one stretch of a
  worker between two points where it can be observed. `StartBatch`, `ConvertSingle`,
  `AnswerConflict`, `AnswerError`, `Cancel` and `Reset` are the click handlers;
  `RunEvent` runs the closure at the head of the queue (`ShowProgress`,
  `ShowConflict`, `ShowError`, `ShowFinal`); the rest are worker steps.
* `slot` is the owner of the `Sender` in `workspace.prompt_sender`, `channel[r]` what
  worker `r` would receive: nothing yet (`"open"`), `Disconnected` (`"gone"`) or an answer.
  Storing a Sender drops the one stored before (`Disconnected`).
* `cancelFlag` says whose flag the workspace holds, `cancelled[r]` the flag itself:
  `reset` forgets the flag without setting it.
* `job[r]` holds the locals of the import loop; `mode` is the `OutputConflictMode` that the
  "all" answers change for the rest of the batch.
* `files` maps each output path to who wrote it, `staged` are the workers with a `<name>.tmp`
  on disk. `commit_staged` is one step (`Commit`) with one of the `CommitOutcomes`: it may refuse, fail before the
  output is in place, leave the target empty or torn (a copy failed and the old output could not be renamed back), or
  fail after (its backup could not be removed). `CommitStaged` makes the same call one system call at a time and is
  proved to implement it. What one step hides is another program at work between the test of the target and the rename.
* A worker of kind `"batch"` converts the playlist, `"single"` one game through the same
  loop with the default `on_output` and a commit afterwards, `"set"` a game of several
  files without a loop.
* After a panic on the UI thread (`alive = FALSE`) the process is over.

Abstracted: what the outputs contain (only who wrote them), the words in the status
bar, the manifest beside the outputs, the preflight panel between the choice of
a playlist and the start (`PlaylistWorkspace` has it), the content of the plan
(any sub-list of the items, in order). A cancelled single conversion leaves its `.tmp` behind as in
the code, and so does a set whose packing fails; `NoStagedLeftover` speaks of playlists, `FailedSetRemoved`
of sets.

### CommitStaged, ReplaceOutput and the code

* `Call` is the call of `commit_staged` with a `.tmp` the worker has packed; then each action is one
  system call with its outcomes: `Check` and `Backup` (main.rs 505-515, with `backup_target` as
  `FirstFree`), `Rename` (516), `CopyOpen` and `CopyRest` (517: the copy as an open that truncates
  and a rest that may fail half-way), `Unstage` (518-520), `Restore` (521-529), `Clean` (531-538).
* `file[t]` is what the output path holds, `backups[t][i]` its `.romx-backup-<i>`; a content
  is the commit that brought it, `Original`, or `Torn`.
* `Crash` ends the process between any two calls. The next `Call` meets what is on disk. Nothing in the
  program reads backups again, and nothing in the model does.
* `ReplaceOutput` knows nothing of names: `have[t]` is the set of whole outputs of a target. The mapping
  is `Have`: what is whole under the target's own name or a backup's. A commit adds
  its output (`Put`) and gives up one older output, in the step by which it succeeds
  (`Succeed`); anything else gives up nothing.
* `OneStepCommit` is the commit as its callers take it: it begins, and ends in one step with an outcome of
  `CommitOutcomes`, which `ConversionSession` and `ExportLpl` use for theirs. The mapping (`AsOneStep`) shows the target as it
  was before the call (`FileBefore`) until the call returns, with what the crash or the return leaves.

The commits come one after the other: `OneConversion` and the import loop make them so within one GUI.

### PublishOutput and the code

* A writer is one call of `Writer::write_path_entries` (`"staged"` if it has SAVE objects or a mutable
  region to copy, else `"native"`) or of `write_atomic_stream` (`"stream"`). Each action is one system call, or
  one call into libromx.
* `counter[p]` is `TEMP_COUNTER` of process `p`, 0 again after a restart. `Begin` takes up to two
  serials for the temporary inputs, `Take` and `Stream` one each.
* `Reserve` is `create_new`, `Release` the removal of the placeholder in front of libromx. From then on the path exists only
  as a string in the `StagedOutput`.
* `existed` and `excused` are history: that the destination has existed, and whose leftovers are
  explained by a crash or by a removal that failed.
* libromx is external: it publishes a container whole or not at all, refuses an existing file without
  its replace flag, and may leave a container torn when a SAVE object fails.

`AtomicOutput` knows a destination and calls that are idle, busy, done, failed or crashed. The mapping (`Promise`) forgets
stages, serials and labels: everything between `Begin` and the return is `"busy"`, and the only step that shows is the rename
(`Publish`) or, on Windows, the removal before it (`MakeRoom`).

The GUI packs to its own `.tmp` (`output_is_temporary`), so the staged way is the one of the library's
other callers.

### WriteEntries and the code

* `request` holds the arguments a caller may pass; the actions are what the function does with them, in its order:
  check the entries, sort them, write the metadata and the cover to temporary inputs, reserve a stage or use
  the caller's own path, call libromx, copy the region, add the saves one at a time, validate, publish.
* A file's content is the set of parts it has: `{}` is no file, `Old` what was there before, `Partial` a container
  libromx gave up on. Any call to the disk or to libromx may fail; `Drop` of the stage and of the
  inputs is part of the step that returns.
* `stuck` are temporary files whose own bytes could not be written: `TempInput` is built after
  `write_all` (writer.rs 96-104), so nothing owns them before.
* `Normalized` is any arrangement of the entries that is `Sorted` by the comparison of `sort_by` (`Precedes`); which of two
  entries that compare equal comes first is left open, because equal paths are refused in the next step.
* A virtual path is a pair whose order is the byte order; the collision check of case-folded paths (writer.rs 174-180) compares
  neighbours of that order only, as in the code: two paths that differ in case and have a third between
  them pass.

### ExportLpl and the code

* One action is one stretch of the export loop between two places where the user, the disk or another thread can interfere:
  `exporter` is the place. `game`, `rom`, `todo`, `items`, `skipped` are the loop's locals; `files` maps a path to the number of the
  game its content comes from, or to `Earlier`.
* An output is staged, then `on_output` decides (ask, rename, replace, skip, or cancel), then it is committed
  (`CommitTo`, with one of the `CommitOutcomes`). A commit that fails removes the staged file and is an error of the game
  (`NotCommitted`); the target holds what it held, the new output, a torn copy or nothing.
  With `mode = "Direct"` the default callback of the command line keeps what the core wrote straight over what was there: it cannot fail.
* ROM before cover before saves, and the item after them: a game that fails after its ROM has been committed
  leaves a ROM that no item lists (`failed` records those).
* `consent` is history: the paths the user agreed to replace. `lost` is history too: paths that a failed commit left
  without the file they had.

That removing a staged file which is given up may fail too is left out here and in `ConversionSession`: the callbacks ignore the result.

A game's saves are a list of objects and entries, each of which is one file of the game's own save directory
(`SavesOf`). Each item of the playlist keeps path, cover and game; label, core and database are left out.

### PlaylistWorkspace and the code

* `form` is the text of the page, `workspace` the parts of `LplWorkspace` the page uses: what the copy was prepared from, the copy,
  the index under edit and the cached plan. `Copied` is `prepare_lpl_workspace`, `Refresh` the
  `refresh_lpl_preview` of its callers; `Keeps` is the former's early return, `Base` its choice between the original and the copy (main.rs 2433-2530).
* `editor` is the game page while it shows an item; `SaveLplEdit` merges the form into the item and drops the plan;
  it refuses a form without a ROM path, as `update_lpl_edit_file` does (main.rs 4141).
* `panel` is the preflight panel with `pending_conversion`. The panel is drawn over the page and takes no clicks away from it
  (app-window.slint 1331-1417 has no TouchArea), so every action of the page is possible while it is open: folders are
  typed or chosen under it, and Convert makes another conversion pending. `panel.pending` is history: the playlist and the
  folders the form showed at that click. `reset` forgets the pending conversion and leaves the panel (`PanelAfterReset`).
* A scan is only counted (`scans`): its worker holds clones of the
  request, and its closure reports to the panel if one is visible, whichever it is.
* `saved` is history: what was saved to which item since the playlist was chosen.

### GameForm and the code

* `parts` are the fields of `LplWorkspace` and of the window that Convert packs beside the path, each labelled by the
  ROM it comes from. `ChooseRom` is the dialog, `TypeRom` the text field, `SelectEntrypoint` another file of the set,
  `BeginEdit` and `ReturnFromEdit` the visit of a playlist's item, `LoadPlaylist` the reset from the other page.
* `romx_cover_path` is one field for both pages. `SelectRow` (a row of the playlist page, main.rs 3304) and the previews
  (`RefreshPreview`, and those of `LoadPlaylist` and `ReturnFromEdit`, main.rs 3194) put the cover of another game there or
  remove the one that was there; `ChooseCover` removes it for a file of the user's own, `WriteMatch` may put the cover of an
  online match there (`OnlineCover`). `rowShown` is history: that one of the playlist page's steps came after the choice of the
  ROM. `PacksChosenRom` speaks of the cover as long as none did, and of the other parts always.
* `crcWorkers` are the threads computing a CRC32; they report by path. `requests` are the lookups under way; they
  report by generation.

### CoverPreview and the code

* `generation` is the atomic counter. The worker loads it three times: `TakeTask` before decoding, `CheckDecoded` before the cache is
  locked (`StoreDecoded`), `PostClosure` before it posts; `ClosureRuns` compares once more on the UI thread.
* `ChooseGame` is a choice on the game or playlist page or of an entrypoint, each with its own way of asking or of clearing;
  `PreviewRomx` is an entry of the unpacking page or an output; `ResetWorkspace` is `reset`, which may clear the cache between the
  worker's check and its insertion.
* `wanted` is history: what the window is to show when all is quiet. `overtaken` is history too: `show_romx_preview` blanks the preview
  of a container without a cover and leaves the counter alone (main.rs 3494), so the picture of the entry before, if it is
  still being decoded, is shown for it. Everywhere else the counter moves first. `LatestPictureShown` excepts this case.

### The sequential modules

* `LibromxCalls`: one action per call into libromx, whose answer is any size up to one more than was offered.
  `Word` is small enough for every cursor sum to wrap.
* `PngCover`: one chunk a step with the code's five flags; `WellFormed` describes the accepted files as a whole, without flags.
* `Registry`: `FormatIds` and its like are the tables, from names to ids and, as rows of sixteen, back; `PackSetFooter`, `PackSingleFooter` and `PackItemFooter` take a platform into a footer, `LoadFooter` back to the page.
  Choosing a container empties `payload_entries` (main.rs 421), so a set that is loaded is a single file from then on
  (`picked.set`): it is packed again by `PackSingleFooter`, through the planner's shorter list and its classification of a Game Boy file.
  `PlatformKept` and `FootersReadable` say what that keeps and what not.
* `MutableCapacity`: saturating additions and the alignment of lib.rs with `Limit` values of a word, and the arithmetic of
  the two pages that pack.

Seen while modelling these, and left as they are, because no doc or test speaks of them: `supported_platform` (lpl.rs) is shorter than
the registry (no Saturn, Dreamcast, Sega CD, PC Engine CD, 32X, nor the name `ps1` for its PlayStation), and the GUI offers a few names
the registry does not have (`fds`, `gamegear`, `genesis32x`, `pcecd`, `segacd`), which `FootersReadable` shows end in registered footers all the same;
`convert_lpl_edit` has no button; choosing a game without a cover in a list leaves the previous picture (`LeavePreview`);
a failure after `reset` loses the edits saved so far (`CopyLost`); the plan counts only entries that are objects and the
editor indexes the raw array; `online_match_running` stays on after a reset; the CRC worker overwrites a CRC typed
meanwhile; a new ROM keeps the chosen save directory; a scan reports into the panel that is open when it ends, for whatever conversion is pending there (`ScanEnds`);
`start_pending_conversion` takes the pending playlist before it creates the output directory, so a failure leaves a panel
that starts nothing (main.rs 2850); a set that is loaded and converted comes back as a single container of its entrypoint alone,
a set of `.chd` files of a Saturn as PlayStation's, and one of a `.gb` file that runs on a Game Boy Color only as `gbc`
(`LoadFooter`); a ROM chosen on the game page and a row with an icon selected on the playlist page afterwards are converted
to that ROM with the row's cover (`SelectRow`; main.rs 1634).

## What the runs check

| Run | Instance | Shows |
|---|---|---|
| `conversion_session` | two conversions, one item, both pages, another program creating the output, two `_new` names | `TypeOK`; `OneConversion`: `conversion_running` is on exactly while a conversion is in flight, so there is one at most; `PromptReachable`: the Sender of a waiting worker is in the slot; `NoStagedLeftover` |
| `conversion_batch` | one playlist of three items, two with the same output name, under `FairSpec` | `AtMostOneLateCommit` (what a late cancel can still commit), `CountsAddUp`, `NoUnaskedOverwrite`, and the liveness properties `CancelEnds` and `EndsOrAsks` |
| `conversion_answer` | the game page, one conversion | a counterexample of `GuiSurvives` |
| `conversion_pages` | both pages, playlist output named unlike the game's | a counterexample of `NoUnaskedOverwrite` |
| `conversion_set` | the game page, one conversion | a counterexample of `FailedSetRemoved` |
| `publish_output` | two staging writers, a streaming and a native one, one process that may crash, four serials | `StageOwned`, `NeverLost` |
| `publish_on_windows` | two staging writers and a streaming one on Windows, the same process | `PublishesAtomically`: implements `AtomicOutput`, so the destination gets a whole output in one step, is emptied by a removal, or stays; `NoOrphan` |
| `publish_windows` | one staging writer on Windows, no crash | a counterexample of `NeverLost` |
| `publish_processes` | two staging writers in two processes, no crash | a counterexample of `StageOwned` |
| `components` | ten components, one at a time | see the next table |
| `edited_cover` | the playlist page | a counterexample of `SavedCoversKept` |
| `loaded_region` | the game form | a counterexample of `LoadedRegionKept` |

`components` runs what shares no state: its first state picks a component (`part`), the others
stay in an initial state. The state spaces add up instead of multiplying, so nothing of a component is lost:

| Component | Instance | Shows |
|---|---|---|
| `ExportLpl` | two games of one name or of two, with and without covers, two saves of one object or of two, two paths that may hold files, two `_new` names; any commit may fail | `ItemsLeadToTheirGames`, `CoverFoundByRomName`: the playlist leads to the right ROM and RetroArch to the right cover after renames and skips; `RomsAreListed`, `GamesAccountedFor`: nothing dropped between the loop's counters; `NothingLeftStaged`; `OldFilesKept`: nothing of before is overwritten, or lost by a commit that fails, unasked; `CancelEnds` |
| `LibromxCalls` | data of 5, buffers of 2, words of 8 values | `ReadsExact`: a prefix of the data, all of it if `Ok`, cursors where they say; `CallsReturn`: no endless loop |
| `WriteEntries` | nine sets of files, with every metadata, override, cover and option; old output or none | `OutputComplete`: all that was asked for or the old output; `FailureLeavesNothing`; `EntriesInOrder` |
| `PngCover` | files of up to five chunks | `AcceptsExactlyPng` |
| `Registry` | every platform of the page and every extension, packed, loaded, packed again | `FootersReadable`, `PlatformKept` |
| `MutableCapacity` | words of 64 values, blocks of 4 | `ReserveHoldsSaves`, `EditNeverShrinks` |
| `PlaylistWorkspace` | two playlists (`MCSmallPlaylists`), one with an entry that is no object before two games, one empty, one folder of games and one of images; the panel open or not | `EditorBacked`: what is edited can be saved to the right item; `SavedTitlesKept`; `PlanFresh`; `ConvertsWhatWasAsked`: what is pending is the copy for which Convert was clicked, or nothing |
| `CoverPreview` | four games of every kind of cover, one broken, a cache of one, four requests | `LatestPictureShown` |
| `GameForm` | a container, a set of two and a single file, one item of a playlist with a cover of its own, three turns of the form, two lookups | `MatchOfThisGame`, `PacksChosenRom` |
| `CommitStaged` | one target, three commits, three backup names | `KeepsPromise` (implements `ReplaceOutput`), `CommitsInOneStep` (implements `OneStepCommit`), `TargetGivenBack` |

Bounds. Two conversions suffice for what one leaves to the next (a queued closure, a
Sender, a dialog): a third one would start from a state with the same kinds of remains, and
`OneConversion` is proved for any number. Three items give the loop a first, a middle and a last
item, a mode carried from one to the next, and a collision with an output of the same
batch. `MaxSuffix = 2` lets a rename find its first name taken; with both taken the
rename simply is not explored (the code would go on to `_new_03`). `Outside` names the one path
another program may create.
In `CommitStaged` targets do not touch each other, so one is enough; three commits with three backup names
let two of them leave a backup behind and the last one find its name past them; any number is proved. In
`ExportLpl` two games are the first and the next of everything the loop carries over (mode, names taken,
items), the first one's saves may be of two objects, between which the flag is looked at; a ROM and the playlist may be
there before; and `MaxCopy = 2` lets a rename find its first name taken. `MaxSize = 5` with `Chunk = 2` gives a read whole
chunks and a rest; a word of 8 values has cursors on both sides of its signed half. `MaxChunks = 5` suffices
for each flag of the PNG check to be set, closed and violated. `MaxPacks = 2` (of `Registry`) is a container loaded and
packed again, after which tables are asked the same questions; `SomeExtensions` (in `MCComponents`) are the extensions a chosen
platform is combined with, one for each way the tables answer. 64 values, blocks of 4, a reserve of 3 a save, a least capacity of 6 and bases up to
63 put sums on both sides of saturation. `MaxScans = 1` is a scan that outlives its panel. In `CoverPreview` four requests
let a worker decode the first, hold the second in its queue and be overtaken twice; a cache of one evicts at every
second picture. `MaxRounds = 3` and `MaxMatches = 2` give the form to
other games while a lookup of an earlier one is out, or let a second one follow it; that several are out at once is left to the proof. In
`publish_output` two staging writers can meet, a third kind and a fourth overwrite the destination
under them, and a restart brings the serials back to ones that are still on disk; one of
the two staging writers may replace and validates, the other does neither. `MaxAttempts = 2` stands
for the 8 retries: what it decides is only how soon a reservation fails.

Deadlock is not checked: with nothing queued, all conversions used up and every
dialog closed the program waits for its user; commits, writers, exports and reads end.

### Fairness

`FairSpec` asks that the event loop keeps running queued closures and that each
worker thread keeps being scheduled (weak fairness on `RunEvent` and on `Worker(r)`). A
worker's poll loop looks at the flag and the channel every 100 ms, so weak fairness on
its step is what the operating system gives. Nothing is asked of the user: `EndsOrAsks`
therefore ends in "or it waits, and the slot leads to it".

`ExportFairness` is the same for the unpacking worker: weak fairness of its own steps (`Work`). The user's answers
(`AskAnswered`, and `GiveUp` as long as the export is not cancelled) are not fair; that the
worker polls the cancel flag while a question is open (`AskCancelled`, and `GiveUp` afterwards) is. `CallsFairness` is that a call into libromx returns. Nothing else is
assumed fair.

### Seven disagreements

* `conversion_answer`: `handle_conflict_response` takes the pending single conversion in an
  `if let` whose `RefMut` stays borrowed in its body (edition 2021); the Rename and
  Replace answers call `run_single_conversion`, whose `borrow_mut` (main.rs 4602) panics. So the
  promised packing (README.md 34) ends the process when the name is taken and the user says
  Rename or Replace.
* `conversion_pages`: the game page asks about file *a*; the user leaves the dialog and
  chooses a playlist (`reset` clears `single_conflict`, not the dialog); the batch asks
  about *b*; Replace clicked on the dialog that still shows *a* is sent to the question about
  *b*, which is overwritten. The comment at main.rs 5108 takes it that the dialog and the question
  belong together. With one page only (`conversion_batch`) the property holds.
* `conversion_set`: `PackOptions::output_is_temporary` (lib.rs 391) says callers must remove the path
  when an operation after the write fails. The PackSet branch of `run_single_conversion` removes it
  after a cancel and after a failed commit, not after a failed pack.
* `publish_windows`: on Windows `publish` removes the destination, then renames; the rename fails; `Drop`
  removes the staged file. writer.rs 25-27 says Drop leaves an existing destination untouched.
* `publish_processes`: the name of a stage has no process id and the file that reserved it is removed at
  once, so two processes that write the same destination get the same path, which writer.rs 23 calls
  reserved for the complete write transaction. Within one process the property is proved.

* `edited_cover`: a cover saved to an item does not stay. `save_lpl_edit` writes the form's cover to the item and then
  clears the form's choices, which deletes `romx_cover_path` (main.rs 1732): for an online match that is the
  image just saved. And `prepare_lpl_workspace` prefers the image folder to the item's cover (main.rs 2511) when a folder
  is chosen afterwards. The comment at main.rs 2458 says that the copy keeps those edits. Titles do
  stay (`SavedTitlesKept`).
* `loaded_region`: choosing a playlist resets `LplWorkspace` and with it `existing_mutable_source`, while the game page still
  shows the container; Convert then reserves a region of its size and copies nothing into it. README.md 87 calls such edits lossless.

## What is proved

Every safety invariant, action property and refinement of a passing run is a theorem for all values of the constants;
the last paragraphs of this part say what stays with TLC. Each theorem has the same shape: an inductive
invariant that holds initially, that every action keeps (one step of the proof per action), and that implies the
property.

### The session

For every set of runs, number of items, names, outputs and outside paths that satisfies
`SessionAssumption` (the counts are naturals, outputs are names, and the markers `None`, `Absent`, `UserFile` are nobody's name):

* `TypeCorrect`: `Spec => []TypeOK`. `TypeOK` alone is not inductive: `Current(r)` is
  the head of a list, so `TypeInv` adds `HasItem`, that a worker in the middle of an item has
  one.
* `PromptAlwaysReachable`: `Spec => []PromptReachable`. The invariant is `SlotInv`: an open
  channel belongs to a worker that is asking, and to the owner of the slot.
* `BatchLeavesNothingStaged`: `Spec => []NoStagedLeftover`, of batches only (a set leaves its staged file, as `conversion_set` shows), from `StagedInv`, which says at which
  steps a worker of each kind may have a staged file.
* `CancelStopsCommits`: `Spec => []AtMostOneLateCommit`, from `LateInv`: before the flag is set
  nothing is late, and once something is, the worker can reach no second commit.
* `OneConversionAtATime`: `Spec => []OneConversion`, from `RunInv`, which counts each
  conversion's last closure in the queue: there is at most one, and only after the worker
  is done.
* `CountsAlwaysAddUp`: `Spec => []CountsAddUp`. The counts shown depend on closures that are still queued, which were made from
  counters of a worker that has gone on since. `JobSum` says that what a worker has handled and what it has left make
  up its total; `EventSum`, that the counts in a queued closure leave room for the shared collision
  counter of today, which is added when it runs; `QueueInv`, that nothing is queued across the start of a conversion.
* `NothingOverwrittenUnasked`: `Spec => []NoUnaskedOverwrite` if the game page is not used (`"game" \notin Pages`;
  `conversion_pages` shows that this cannot be left out). `DialogInv`: a dialog, shown or queued, is about the output of the
  worker that asks, and there is one; `ConsentInv`: what a worker replaces it was told to by an answer to that
  dialog.

### commit_staged

For every set of targets and commits and every number of backups that satisfies `CommitAssumption`:

* `CommitStagedProofs!TypeCorrect`, with `PointInv`: what is on disk at each point of `commit_staged`
  (an old output set aside is in the backup the local names, the staged file is there until it is
  moved or copied).
* `KeepsThePromise`: `Spec => KeepsPromise`. Each system call is a step of `ReplaceOutput` or a stutter; that a
  backup is renamed to a free name is what makes `Backup` a stutter, and that `Clean` comes only
  with the new output in place what makes it a `Succeed`.
* `ErrorGivesTargetBack`: `Spec => []TargetGivenBack`. The invariant adds that a target whose output was
  set aside is the one of the commit under way, or was disturbed by a crash or a failed rename back.
* `CommitIsOneStep`: `Spec => CommitsInOneStep`. A step inside the call is a stutter of `OneStepCommit` (`InsideStep`), for the target
  is shown as it was before the call; the step that returns, or the crash, is its `Finish` (`LastStep`, `NextInOneStep`), which needs from
  `PointInv` what is at the target, and whether the staged file is there, at each label a call can end at. So the
  theorems about `ConversionSession` and `ExportLpl`, which take a commit for one of the `CommitOutcomes`, are about a step that the
  code's system calls are proved to amount to. `ConversionSession` had a narrower commit before this was proved: that it may leave its
  target empty or torn was what the attempt found missing.
* `NewOutputNeverLost`: `Spec => []NewOutputKept`: until the call returns the new output is whole, staged or at the target
  (the run has it as part of `CommitsInOneStep`).

### The writers of romx-core

For every set of writers, serials and attempts that satisfies `PublishAssumption`:

* `PublishOutputProofs!TypeCorrect`, in any number of processes; `TypeInv` adds that who holds a stage has
  a serial.
* `StageHasOneOwner`: `Spec => []StageOwned` if all writers are in one process (`OneProcess`, which
  `publish_processes` shows cannot be left out). The invariant `OwnInv`: stages that are held are below the
  counter and differ; a crash ends every holder, so the counter may start again.
* `DestinationAlwaysWhole`: `Spec => []DestinationWhole` for one process, on any system (the run has it as part of `PublishesAtomically`). The invariant `MadeInv`
  says what the stage of a writer holds at each step; with one owner per stage nobody else changes it.
* `PublishesInOneStep`: `Spec => PublishesAtomically` for one process, on any system. `RoomInv` adds that who is about to remove the destination may
  replace and is on Windows; `StepKinds` sorts the steps of a writer: it begins where it may, goes on and at most makes room, succeeds by
  bringing its output, or fails and leaves the destination alone. `MadeInv` says that what it brings is all that was asked for.
* `DestinationNeverLost`: `Spec => []NeverLost` for one process where `Windows = FALSE`, which
  `publish_windows` shows cannot be left out.
* `NothingOrphaned`: `Spec => []NoOrphan` in any number of processes and on any system. `OrphanInv` adds that a writer
  whose leftovers are excused has ended: otherwise it could still move the file it is excused for.

For every set of requests that satisfies `RequestAssumption` (the fields of the arguments have their types; no bound on the
number of entries or saves):

* `OutputAlwaysComplete`: `WriteSpec => []OutputComplete`, and `FailureAlwaysLeavesNothing`: `WriteSpec =>
  []FailureLeavesNothing`. `ContentInv` says what is in the stage, or in the output written directly, before each step;
  `DoneInv` what a call that has returned leaves. A writer that stages nothing for an output that is
  not its caller's `.tmp` adds the payload alone (`DirectIsPayload`), so libromx's own publication is the only one.
* `EntriesAlwaysInOrder`: `WriteSpec => []EntriesInOrder`. `Normalized` is a sorted arrangement if one exists; that one exists
  for every list of entries (`NormalizedIsSorted`) is a proof by induction over the length. Induction theorems with an
  operator parameter are out of reach, so it goes by the least counterexample (`LeastNumber`, from the
  well-foundedness of the naturals) and `Insertion`: a sorted arrangement has a place for one entry more. Then one
  entrypoint sorts first, and neighbours whose paths are not equal when case is folded are strictly ordered.

For every size, chunk and width of an offset that satisfies `LibromxAssumption`:

* `ReadsAlwaysExact`: `CallsSpec => []ReadsExact`. The bytes collected are `1, 2, ..., offset`; `BytesConcat` and `BytesAppend`
  extend them by what the next call may bring. `CallsInv` adds that texts and cursors collect at their end only.

For chunks of files of any length:

* `CheckIsTheGrammar`: `PngSpec => []AcceptsExactlyPng`. `FlagsInv` says what each flag tells of the chunks read so
  far, `ChunksInv` that nothing in them is against the grammar yet: a chunk that is taken keeps them (`TakenChunk`), a
  chunk that is refused makes every continuation ill-formed (`RefusedChunk`).

For every number of packs (`MaxPacks` any natural):

* `FootersAlwaysReadable`: `RegistrySpec => []FootersReadable`, and `PlatformAlwaysKept`: `RegistrySpec => []PlatformKept`. `RegistryInv` says that page and
  footer keep the id of the platform that was picked, unless the pick is not a set, or no set any more since it was loaded, and the
  planner's list has no name for it; lemmas about the tables (`PlatformThereAndBack`, `FooterReadBack`) say that what
  one gives out the others read back, row by row. The tables are records for this: the provers look a field up, where they
  cannot search a list.

For every word size, block size, reserve, overhead and recommendation that satisfies `CapacityAssumption`:

* `ReserveAlwaysHoldsSaves`: `CapacitySpec => []ReserveHoldsSaves`. `CapacityInv` adds the ranges, which is all it needs: each packing
  establishes the property anew. The lemmas follow the arithmetic of lib.rs outwards: `SaturateBounds`, `AlignedBounds`,
  `NeedBounds`, and the growth margin of a quarter or one block, whichever is more.
* `EditsNeverShrink`: `CapacitySpec => EditNeverShrinks`. `GrownTo` is at least the old capacity, also where the
  aligned recommendation stops at the last block of a word.

### Unpacking

For every list of games, set of files and series of answers that satisfies `ExportAssumption`:

* `NothingOverwrittenUnasked`: `ExportSpec => OldFilesKept`. `ConsentInv` says that the mode replaces unasked only after an answer for
  all; then each way of settling an output commits to a free name, to the path the user was asked about, or to
  a path everything was agreed for. A commit that fails touches its target alone (`CommitPuts`, `CommitTouchesTarget`), which was
  free or agreed to.
* `ExportLeavesNothingStaged`: `ExportSpec => []NothingLeftStaged`, from `StagedInv`: a staged file is there only while its
  destination is looked for.
* `ItemsAlwaysLeadToTheirGames`, `CoversAlwaysFound`, `RomsAlwaysListed` and `GamesAlwaysAccountedFor`: the properties of the same
  names of `ExportLpl`. They share `ExportInv`: `LoopInv` (which outputs of a game can be left at which place of the loop: the ROM is
  the first, so nothing else is written before its name is settled) and one part per property, each of which says of the
  game at hand what the property says of the games listed (`RomInv`, `CoverInv`, `ListedInv`, `SumInv`). A commit that fails is a move of
  its own (`Fails`): a ROM that is there although its commit failed is the one at hand until its game is given up.

### The pages

For every table of pictures, cache and number of requests:

* `PreviewShowsLatest`: `PreviewSpec => []LatestPictureShown`. `RequestInv`: whatever carries the current number carries the picture that is
  wanted; `CacheInv`: only pictures that can be shown are cached, so a hit shows what a decoding would have shown.

For every set of ROMs and items, number of games and of lookups that satisfies `FormAssumption` (a ROM has a file):

* `LookupStaysWithItsGame`: `FormSpec => []MatchOfThisGame`. `LookupInv`: a lookup with the current generation was started for the game
  the form has, for each step that gives the form away moves the generation past all lookups under way.
* `ConvertPacksChosenRom`: `FormSpec => []PacksChosenRom`, from `ChosenInv`: until another path is shown, every part, the path
  and the CRC are of the ROM that was chosen last, or absent; the cover is too, or is that of a match, until the playlist page sets it.

For all playlists and folders that satisfy `WorkspaceAssumption` (they have paths, and playlists hold lists of items):

* `EditorAlwaysBacked`, `SavedTitlesAlwaysKept`, `PlanAlwaysFresh` and `AlwaysConvertsWhatWasAsked`: the properties `EditorBacked`,
  `SavedTitlesKept`, `PlanFresh` and `ConvertsWhatWasAsked`. `PageInv` joins them, for they need each other: the
  copy is prepared anew from itself only while the page still names its playlist. `SavedInv` adds that a
  saved item has a ROM path, without which preparing the copy again would give it another title; that is why the
  refusal of an empty path in `update_lpl_edit_file` matters.

### Only model-checked

* `CancelEnds` (of the session and of the export), `EndsOrAsks` and `CallsReturn`: liveness under fairness and ENABLED are beyond the
  installed provers.
* What the runs with a counterexample show.

## Plan

Done: the session and its proofs, the two writers and their proofs, unpacking, the playlist page with its
panel, the form with its lookups, the preview, the capacities, the PNG check, the wrappers and the tables, each with its proofs; the
atomic output and the commit in one step, which the writers and `commit_staged` are proved to implement.

Left, in this order:

1. `PlanLpl`: planning an import (official fields, cover directories, duplicate outputs and their numbering), lpl.rs 60-560.
2. `SaveObjects`: the classification of a save directory and the names of its objects.
3. `ConversionContract`: what a batch promises (each item ends in exactly one of imported, skipped, failed), as an
   abstract specification the session implements. `CountsAlwaysAddUp` has most of its invariant.
4. `PlaylistWorkspace` with `ConversionSession`: a conversion of the copy while the page goes on.
5. `PayloadProbe` and `LibretroLookup`: which header wins, which candidate is taken.

Proofs to come: the refinement of `ConversionContract`; type correctness of the components that have it as part of an
invariant only; what the new modules state.

## Not modelled

* `probe.rs`, `identity.rs`, `validation.rs`: header layouts read on one thread, or one call into libromx with its result
  mapped to names. What libromx's own bytes look like is decided in its sources, which are not in this repository.
* `libretro.rs`: a network client, a text parser and string matching, without state; its cache is a directory of
  files written whole.
* Planning an import, the JSON of playlists (labels, cores, databases, unknown fields), the counts of a preflight
  and the lists of converted files: data, part of which is in the plan above.
* Two GUIs over one playlist: each has a temporary directory of its own.
* `frontend.rs` (an id in a set), the command line's arguments, the locales, the window's layout, the build scripts, the generated
  FFI bindings and the vendored JPEG decoder hold no protocol of this program.
