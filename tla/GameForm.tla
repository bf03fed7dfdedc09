------------------------------ MODULE GameForm ------------------------------
(***************************************************************************)
(* The game page's form.  Its path can be chosen in a dialog, switched to  *)
(* another file of a set, typed, or taken over from the item of a playlist *)
(* that is edited; what Convert packs besides that path (the files of the  *)
(* set, the mutable region, the base metadata, the cover) is kept in       *)
(* LplWorkspace, which LplWorkspace::reset clears for the playlist page    *)
(* and whose cover the previews of that page set and remove as well.       *)
(* Two kinds of threads report to the form: one computes a ROM's CRC32,    *)
(* one asks the libretro database for a match.                             *)
(***************************************************************************)
EXTENDS Naturals, Sequences

CONSTANTS
  Roms,      \* what can be chosen: rom -> [files: Seq(path), romx, region: BOOLEAN]
  ListItems, \* paths of the playlist's items and of the rows of its folder
  MaxRounds, \* bound on the number of times the form is given to another game
  MaxMatches \* bound on online_match_generation when a lookup is started

VARIABLES
  shownRom,        \* the window's rom_path
  crc,             \* custom_crc, by the path it was computed from
  parts,           \* the parts in LplWorkspace, by the ROM they come from; the cover also
                   \* by the path of a row or an item, or from the online match
  saveFolder,      \* mutable_save_path is not empty
  listed,          \* a temporary playlist is prepared
  editing,         \* editing_lpl_file
  matchGeneration, \* online_match_generation
  matchRunning,    \* online_match_running
  requests,        \* online lookups under way
  store,           \* online_match, the result the panel shows
  matchVisible,    \* match_visible
  crcWorkers,      \* paths whose CRC32 is being computed
  round,           \* history: how often the form was given to another game
  lastChoice,      \* history: the ROM chosen in the dialog, until the form shows another path
  rowShown,        \* history: the playlist page has set the cover since that ROM was chosen
  loaded           \* history: the container whose region was found when it was chosen

formVars == <<shownRom, crc, parts, saveFolder, listed, editing, matchGeneration, matchRunning,
              requests, store, matchVisible, crcWorkers, round, lastChoice, rowShown, loaded>>
matchVars == <<matchGeneration, matchRunning, requests, store, matchVisible>>
choiceVars == <<round, lastChoice, rowShown, loaded>>

NoRom == "no rom"
OnlineCover == "online match cover"
\* choose_rom gives the form at least one file; the file of the online cover is no ROM's.
ASSUME FormAssumption ==
  /\ \A r \in DOMAIN Roms : Roms[r].files \in Seq(STRING) /\ Roms[r].files # <<>>
  /\ OnlineCover \notin DOMAIN Roms \union ListItems

NoMatch == [id |-> 0, round |-> 0]
NoParts == [region |-> NoRom, set |-> NoRom, metadata |-> NoRom, cover |-> NoRom, online |-> 0]

Files(r) == {Roms[r].files[i] : i \in 1..Len(Roms[r].files)}
Paths == UNION {Files(r) : r \in DOMAIN Roms} \union ListItems
\* The ROM a path belongs to.
Owner(path) == {r \in DOMAIN Roms : path \in Files(r)}

FormInit ==
  /\ shownRom = NoRom /\ crc = NoRom /\ parts = NoParts /\ saveFolder = FALSE
  /\ listed = FALSE /\ editing = FALSE
  /\ matchGeneration = 0 /\ matchRunning = FALSE /\ requests = {} /\ store = NoMatch
  /\ matchVisible = FALSE /\ crcWorkers = {}
  /\ round = 0 /\ lastChoice = NoRom /\ rowShown = FALSE /\ loaded = NoRom

------------------------------------------------------------------------------
(* Who has the form. *)

\* Defects: the region of the ROM before is kept; lookups under way are not outdated.
Cleared_KeepsRegion == [NoParts EXCEPT !.region = parts.region]
Outdated_Not == matchGeneration

\* clear_romx_cover and reset empty the parts and outdate the lookups under way.
Cleared == NoParts
Outdated == matchGeneration + 1

NextRound == round < MaxRounds /\ round' = round + 1
ForgetMatch == matchGeneration' = Outdated /\ store' = NoMatch /\ UNCHANGED requests
RowShown == rowShown' = (lastChoice # NoRom)

\* choose_rom of a container: metadata, cover and region are taken from it, unless it
\* cannot be read; a cover that cannot be stored ends the handler before the region.
LoadRomx(r) ==
  /\ Roms[r].romx
  /\ \/ parts' \in {Cleared, [Cleared EXCEPT !.metadata = r]} /\ loaded' = NoRom
     \/ /\ loaded' = IF Roms[r].region THEN r ELSE NoRom
        /\ parts' = [Cleared EXCEPT !.metadata = r, !.cover = r, !.region = loaded']
  /\ UNCHANGED crcWorkers

\* choose_rom of a file or a set: the first file is inspected, its CRC32 computed.
LoadPayload(r) ==
  /\ ~Roms[r].romx /\ loaded' = NoRom
  /\ LET own == [Cleared EXCEPT !.set = IF Len(Roms[r].files) > 1 THEN r ELSE @] IN
     \/ parts' = own /\ UNCHANGED crcWorkers               \* the inspection failed
     \/ /\ parts' \in {own, [own EXCEPT !.cover = r]}
        /\ crcWorkers' = crcWorkers \union {Head(Roms[r].files)}

ChooseRom(r) ==
  /\ ~editing /\ NextRound
  /\ ForgetMatch /\ matchRunning' = FALSE /\ matchVisible' = FALSE
  /\ shownRom' = Head(Roms[r].files) /\ crc' = NoRom /\ lastChoice' = r /\ rowShown' = FALSE
  /\ LoadRomx(r) \/ LoadPayload(r)
  /\ UNCHANGED <<saveFolder, listed, editing>>

\* select_payload_entrypoint: another file of the set; the fields of the form are
\* those of its profile, or keep what they had when it cannot be inspected.
SelectEntrypoint(path) ==
  /\ parts.set # NoRom /\ path \in Files(parts.set) /\ ~editing
  /\ shownRom' = path
  /\ crc' \in {NoRom, crc}
  /\ parts' \in {[parts EXCEPT !.cover = NoRom], [parts EXCEPT !.cover = parts.set]}
  /\ UNCHANGED <<saveFolder, listed, editing, matchVars, crcWorkers, choiceVars>>

\* The path is a text field.
TypeRom(path) ==
  /\ ~editing /\ path # shownRom
  /\ shownRom' = path /\ lastChoice' = NoRom /\ rowShown' = FALSE
  /\ UNCHANGED <<crc, parts, saveFolder, listed, editing, matchVars, crcWorkers, round, loaded>>

\* choose_mutable_save_directory, or its text field.
SetSaveFolder ==
  /\ saveFolder' = ~saveFolder
  /\ UNCHANGED <<shownRom, crc, parts, listed, editing, matchVars, crcWorkers, choiceVars>>

\* choose_cover: a file of the user's own; the covers of the workspace are dropped.
ChooseCover ==
  /\ parts' = [parts EXCEPT !.cover = NoRom]
  /\ UNCHANGED <<shownRom, crc, saveFolder, listed, editing, matchVars, crcWorkers, choiceVars>>

\* refresh_lpl_preview clears the cover of the workspace; if no item of the playlist's plan
\* has a cover, the one the first item's ROM carries is stored.
PreviewCovers == {NoRom} \union ListItems

\* choose_lpl, choose_lpl_directory and convert_lpl, through prepare_lpl_workspace, which
\* resets LplWorkspace and may fail; a preview may follow.  The game page shows what it
\* showed, and no item is edited any more.
LoadPlaylist ==
  /\ NextRound
  /\ ForgetMatch /\ UNCHANGED <<matchRunning, matchVisible>>
  /\ editing' = FALSE
  /\ \E cover \in PreviewCovers : parts' = [Cleared EXCEPT !.cover = cover]
  /\ listed' \in (IF parts'.cover = NoRom THEN BOOLEAN ELSE {TRUE})
  /\ RowShown
  /\ UNCHANGED <<shownRom, crc, saveFolder, crcWorkers, lastChoice, loaded>>

\* select_lpl_rom: the cover of the workspace is cleared, or that of the row's ROM.
SelectRow(path) ==
  /\ \E cover \in {NoRom, path} : parts' = [parts EXCEPT !.cover = cover]
  /\ RowShown
  /\ UNCHANGED <<shownRom, crc, saveFolder, listed, editing, matchVars, crcWorkers,
                 round, lastChoice, loaded>>

\* refresh_lpl_preview alone, when a folder is chosen while an item is edited or the
\* language is changed.
RefreshPreview ==
  /\ \E cover \in PreviewCovers :
       (cover # NoRom => listed) /\ parts' = [parts EXCEPT !.cover = cover]
  /\ RowShown
  /\ UNCHANGED <<shownRom, crc, saveFolder, listed, editing, matchVars, crcWorkers,
                 round, lastChoice, loaded>>

\* begin_lpl_edit: the form shows the item, with the parts of what it showed before and
\* the cover the item's ROM carries, if the item has none.
BeginEdit(path) ==
  /\ listed /\ ~editing /\ NextRound
  /\ editing' = TRUE /\ shownRom' = path /\ crc' \in {NoRom, path}
  /\ \E cover \in {NoRom, path} : parts' = [parts EXCEPT !.online = 0, !.cover = cover]
  /\ lastChoice' = NoRom /\ rowShown' = FALSE
  /\ ForgetMatch /\ matchVisible' = FALSE /\ UNCHANGED matchRunning
  /\ UNCHANGED <<saveFolder, listed, crcWorkers, loaded>>

\* return_from_lpl_edit: the playlist page is shown, with its preview; the form stays the
\* item's.
ReturnFromEdit ==
  /\ editing /\ NextRound
  /\ editing' = FALSE
  /\ \E cover \in PreviewCovers : parts' = [parts EXCEPT !.online = 0, !.cover = cover]
  /\ RowShown
  /\ ForgetMatch /\ matchVisible' = FALSE /\ UNCHANGED matchRunning
  /\ UNCHANGED <<shownRom, crc, saveFolder, listed, crcWorkers, lastChoice, loaded>>

------------------------------------------------------------------------------
(* The threads. *)

\* The closure of choose_rom's worker compares the path with the one shown.
CrcWanted(path) == shownRom = path

CrcComputed(path) ==
  /\ path \in crcWorkers
  /\ crcWorkers' = crcWorkers \ {path}
  /\ crc' \in (IF CrcWanted(path) THEN {path, crc} ELSE {crc})   \* the mode is not crc32
  /\ UNCHANGED <<shownRom, parts, saveFolder, listed, editing, matchVars, choiceVars>>

\* online_match, whose button is off while a lookup runs.
OnlineMatch ==
  /\ ~matchRunning /\ shownRom # NoRom /\ matchGeneration < MaxMatches
  /\ matchGeneration' = matchGeneration + 1
  /\ matchRunning' = TRUE
  /\ requests' = requests \union {[id |-> matchGeneration + 1, round |-> round]}
  /\ UNCHANGED <<store, matchVisible>>
  /\ UNCHANGED <<shownRom, crc, parts, saveFolder, listed, editing, crcWorkers, choiceVars>>

\* The closure of its worker: show_online_match, for the lookup asked for last.
MatchAnswered(request) ==
  /\ request \in requests
  /\ requests' = requests \ {request}
  /\ \/ /\ request.id = matchGeneration
        /\ matchRunning' = FALSE /\ store' = request /\ matchVisible' = TRUE
     \/ request.id # matchGeneration /\ UNCHANGED <<matchRunning, store, matchVisible>>
  /\ UNCHANGED <<shownRom, crc, parts, saveFolder, listed, editing, matchGeneration, crcWorkers,
                 choiceVars>>

\* apply_online_match: the ticked fields are written to the form and online_metadata, the
\* cover among them by store_online_cover.
WriteMatch ==
  /\ matchVisible
  /\ matchVisible' = FALSE /\ store' = NoMatch
  /\ \/ UNCHANGED parts
     \/ /\ store # NoMatch
        /\ \E cover \in {parts.cover, OnlineCover} :
             parts' = [parts EXCEPT !.online = store.round, !.cover = cover]
  /\ UNCHANGED <<shownRom, crc, saveFolder, listed, editing, matchGeneration, matchRunning,
                 requests, crcWorkers, choiceVars>>

CancelMatch ==
  /\ matchVisible
  /\ matchGeneration' = matchGeneration + 1
  /\ store' = NoMatch /\ matchRunning' = FALSE /\ matchVisible' = FALSE
  /\ UNCHANGED <<shownRom, crc, parts, saveFolder, listed, editing, requests, crcWorkers,
                 choiceVars>>

------------------------------------------------------------------------------

\* What convert_single and convert_pack_set take from the workspace when Convert is
\* clicked: a set has no region, and a save folder stands in for that of a container.
Packs == IF parts.set # NoRom \/ saveFolder THEN [parts EXCEPT !.region = NoRom] ELSE parts

FormNext ==
  \/ \E r \in DOMAIN Roms : ChooseRom(r)
  \/ \E path \in Paths : SelectEntrypoint(path) \/ TypeRom(path) \/ CrcComputed(path)
  \/ SetSaveFolder \/ ChooseCover \/ LoadPlaylist \/ RefreshPreview \/ ReturnFromEdit
  \/ \E path \in ListItems : SelectRow(path) \/ BeginEdit(path)
  \/ OnlineMatch \/ (\E request \in requests : MatchAnswered(request)) \/ WriteMatch \/ CancelMatch

FormSpec == FormInit /\ [][FormNext]_formVars

------------------------------------------------------------------------------
(* Properties. *)

\* A lookup that was started for one game is neither shown nor written for the next,
\* however late it answers and whichever page gave the form to the next; neither is the
\* cover it brought.
MatchOfThisGame ==
  /\ store # NoMatch => store.round = round
  /\ parts.online \in {0, round}
  /\ parts.cover = OnlineCover => parts.online = round

\* What Convert packs with a ROM that was chosen in the dialog is that ROM's: no file of
\* a set, region or metadata of an earlier choice, no late CRC32 of one, and no cover of
\* one either, but that of a match.  Only the playlist page can put another game's cover
\* there, and does: that of a row that is selected, or of the item its preview shows
\* (main.rs:3304, :3194), is packed with the ROM by create_single_lpl.
PacksChosenRom ==
  lastChoice # NoRom =>
    /\ {Packs.region, Packs.set, Packs.metadata} \subseteq {NoRom, lastChoice}
    /\ rowShown \/ Packs.cover \in {NoRom, lastChoice, OnlineCover}
    /\ crc = NoRom \/ lastChoice \in Owner(crc)

\* While a container that was loaded is still the one shown, Convert carries its mutable
\* region along, unless saves were chosen: README.md:87 calls metadata and cover edits
\* lossless, and main.rs:5001 says that an existing reservation is preserved.
LoadedRegionKept ==
  ~editing /\ ~saveFolder /\ loaded \in Owner(shownRom) => Packs.region = loaded
=============================================================================
