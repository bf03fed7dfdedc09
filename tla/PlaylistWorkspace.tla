-------------------------- MODULE PlaylistWorkspace --------------------------
(***************************************************************************)
(* The playlist page of the window and LplWorkspace: the playlist the user *)
(* names is copied to a temporary LPLX in which every game and cover is    *)
(* resolved against the chosen folders; a game is edited in the form of    *)
(* the game page and merged back; the copy is what is scanned and          *)
(* converted.  The preflight panel covers the page without blocking it:    *)
(* fields and buttons stay usable while a conversion is pending.           *)
(*                                                                         *)
(* A file is a pair of its folder and its name without the extension.  An  *)
(* item keeps the fields the properties tell apart: the game's path, its   *)
(* title and its cover.  The conversion itself is ConversionSession.       *)
(***************************************************************************)
EXTENDS Naturals, Sequences

CONSTANTS
  Playlists,   \* what the playlist files hold: path -> sequence of entries
  GameFolders, \* folder -> names of the games in it
  ImageFolders,\* folder -> names of the images in it
  Edits,       \* what the user may type over an item: [title, cover]
  MaxScans     \* bound on the scan workers at one time

VARIABLES
  form,      \* text of the page: playlist, folders, path of the temporary LPLX
  workspace, \* LplWorkspace: what was prepared, the copy, the item being edited
  editor,    \* the game page while an item is edited
  selection, \* lpl_selected_path, lpl_selected_item_index, folder of rom_entries
  online,    \* romx_cover_path is online-match-cover.png, and the file is there
  panel,     \* the preflight panel and the pending conversion: the playlist and folders
             \* the form showed when Convert was clicked, for the copy it was set to convert
  scans,     \* the number of scan workers
  saved      \* history: the edits saved to this playlist: index -> [title, cover]

workspaceVars == <<form, workspace, editor, selection, online, panel, scans, saved>>

NoText == ""   \* a field that is empty
NoFile == <<NoText, NoText>>
OnlineImage == <<"temp", "online">>
Junk == [game |-> NoFile, title |-> NoText, cover |-> NoFile]   \* an entry that is no object
NoPlan == <<Junk>>
NoEdits == [i \in {} |-> Junk]
NoPending == <<NoText, NoText, NoText>>

\* A playlist that was chosen has a path, and a folder that was chosen has one.
ASSUME WorkspaceAssumption ==
  /\ \A list \in DOMAIN Playlists :
       /\ list # NoText
       /\ Playlists[list] \in Seq([game : STRING \X STRING, title : STRING, cover : STRING \X STRING])
  /\ NoText \notin DOMAIN GameFolders \union DOMAIN ImageFolders

\* LplWorkspace::reset: the temporary directory goes too.
Reset == [source |-> NoText, games |-> NoText, images |-> NoText, copy |-> <<>>, index |-> 0,
          edit |-> Junk, plan |-> NoPlan]
\* Stage and pending conversion of a closed panel are set anew before they are read.
ClosedPanel == [visible |-> FALSE, stage |-> 0, scanning |-> FALSE, pending |-> NoPending]

\* Defect: what is pending outlives the copy.
PanelAfterReset_KeepsPending == panel

\* reset() forgets the pending conversion too; the panel stays on the screen without one.
PanelAfterReset == [panel EXCEPT !.pending = NoPending]
ClosedEditor == [open |-> FALSE, game |-> NoFile, title |-> NoText, cover |-> NoFile]
HasCopy == workspace.source # NoText

WorkspaceInit ==
  /\ form = [list |-> NoText, games |-> NoText, images |-> NoText, work |-> "none"]
  /\ workspace = Reset
  /\ editor = ClosedEditor
  /\ selection = [path |-> NoFile, index |-> 0, listed |-> NoText]
  /\ online = FALSE
  /\ panel = ClosedPanel /\ scans = 0
  /\ saved = NoEdits

GameExists(path) == path[1] \in DOMAIN GameFolders /\ path[2] \in GameFolders[path[1]]
ImageExists(path, onlineThere) ==
  \/ path[1] \in DOMAIN ImageFolders /\ path[2] \in ImageFolders[path[1]]
  \/ path = OnlineImage /\ onlineThere

------------------------------------------------------------------------------
(* The copy *)

\* resolve_workspace_rom: the game of that name in the chosen folder, if there is one.
ResolveWorkspaceRom(path, folder) ==
  IF folder # NoText /\ path[2] \in GameFolders[folder] THEN <<folder, path[2]>> ELSE path

\* build_workspace_cover_index and find_workspace_cover: by the game's name, then by title.
FindWorkspaceCover(folder, game, title) ==
  IF folder = NoText THEN NoFile
  ELSE IF game[2] \in ImageFolders[folder] THEN <<folder, game[2]>>
  ELSE IF title \in ImageFolders[folder] THEN <<folder, title>>
  ELSE NoFile

\* resolve_original_cover, after the temporary directory is gone.
ResolveOriginalCover(path) == IF ImageExists(path, FALSE) THEN path ELSE NoFile

\* One turn of the loop of prepare_lpl_workspace, with ensure_lplx_metadata.
PreparedItem(entry, games, images) ==
  IF entry = Junk THEN Junk
  ELSE LET game == ResolveWorkspaceRom(entry.game, games)
           title == IF entry.title = NoText THEN game[2] ELSE entry.title
           found == FindWorkspaceCover(images, game, title)
       IN [game |-> game, title |-> title,
           cover |-> IF found # NoFile THEN found ELSE ResolveOriginalCover(entry.cover)]

Prepared(list, games, images) == [i \in DOMAIN list |-> PreparedItem(list[i], games, images)]

\* plan_lpl_import without skip_missing: a missing game fails the plan.  The index
\* counts the entries that are objects.
PlanOf(list) ==
  LET objects == SelectSeq(list, LAMBDA entry : entry # Junk)
  IN IF \E i \in DOMAIN objects : ~GameExists(objects[i].game) THEN NoPlan
     ELSE [i \in DOMAIN objects |-> [index |-> i, game |-> objects[i].game,
                                     title |-> objects[i].title]]

SameFolders(f) == workspace.games = f.games /\ workspace.images = f.images

\* Defect: an item being edited does not hold the copy back.
Keeps_NotEditing(f, force) ==
  ~force /\ f.list # NoText /\ workspace.source = f.list /\ SameFolders(f)

\* prepare_lpl_workspace returns at once: an item is edited, or nothing has changed.
Keeps(f, force) ==
  /\ ~force /\ f.list # NoText
  /\ \/ workspace.index # 0
     \/ workspace.source = f.list /\ SameFolders(f)

\* Defect: the copy is always made from the original file.
Base_Original(f) == Playlists[f.list]

\* The file the copy is made from: the copy itself when the playlist is the same.
Base(f) ==
  IF workspace.source = f.list THEN workspace.copy
  ELSE Playlists[f.list]

Readable(f) == f.list # NoText /\ (workspace.source = f.list \/ f.list \in DOMAIN Playlists)

\* A copy is written: reset() first, so the temporary directory starts empty.
Copied(f) ==
  [Reset EXCEPT !.source = f.list, !.games = f.games, !.images = f.images,
                !.copy = Prepared(Base(f), f.games, f.images)]

\* The edits stay those of this playlist as long as the copy is made from itself.
EditsAfterCopy(f) == IF workspace.source = f.list THEN saved ELSE NoEdits

\* cached_lpl_plan
Planned(ws) == IF ws.source # NoText /\ ws.plan = NoPlan THEN [ws EXCEPT !.plan = PlanOf(ws.copy)] ELSE ws

\* refresh_lpl_preview: the list of the folder, the plan, and no cover of the workspace.
Refresh(f, ws) ==
  /\ form' = f
  /\ workspace' = IF f.work = "copy" THEN Planned(ws) ELSE ws
  /\ selection' = [selection EXCEPT !.listed = f.games]
  /\ online' = FALSE

------------------------------------------------------------------------------
(* The page *)

\* choose_lpl, and the refresh when the file can be read.
ChooseLpl(list) ==
  /\ editor' = [editor EXCEPT !.open = FALSE]
  /\ saved' = NoEdits
  /\ LET f == [form EXCEPT !.list = list, !.work = "none"]
     IN \/ /\ list \in DOMAIN Playlists
           /\ form' = [f EXCEPT !.work = "copy"]
           /\ workspace' = Planned([Reset EXCEPT !.source = list, !.games = f.games, !.images = f.images,
                                       !.copy = Prepared(Playlists[list], f.games, f.images)])
           /\ selection' = [path |-> NoFile, index |-> 0, listed |-> f.games]
        \/ /\ form' = f /\ workspace' = Reset
           /\ selection' = [selection EXCEPT !.path = NoFile, !.index = 0]
  /\ online' = FALSE /\ panel' = PanelAfterReset
  /\ UNCHANGED scans

\* Text typed into the fields of the page.
TypeInForm ==
  /\ \/ \E list \in DOMAIN Playlists : form' = [form EXCEPT !.list = list]
     \/ \E folder \in DOMAIN GameFolders : form' = [form EXCEPT !.games = folder]
     \/ \E folder \in DOMAIN ImageFolders : form' = [form EXCEPT !.images = folder]
  /\ UNCHANGED <<workspace, editor, selection, online, panel, scans, saved>>

\* prepare_lpl_workspace failed after reset(): the copy is gone, the window still names it.
CopyLost(f) ==
  /\ workspace' = Reset /\ online' = FALSE /\ panel' = PanelAfterReset
  /\ form' = [f EXCEPT !.work = IF f.work = "copy" THEN "gone" ELSE f.work]
  /\ saved' = NoEdits
  /\ UNCHANGED selection

\* choose_lpl_directory
ChooseFolder ==
  /\ \E f \in {form} \union {[form EXCEPT !.games = folder] : folder \in DOMAIN GameFolders}
                     \union {[form EXCEPT !.images = folder] : folder \in DOMAIN ImageFolders} :
       LET force == workspace.index = 0
       IN \/ /\ Keeps(f, force)
             /\ Refresh(f, workspace) /\ UNCHANGED <<panel, saved>>
          \/ /\ ~Keeps(f, force) /\ ~Readable(f)
             /\ form' = f /\ UNCHANGED <<workspace, selection, online, panel, saved>>
          \/ /\ ~Keeps(f, force) /\ Readable(f)
             /\ Refresh([f EXCEPT !.work = "copy"], Copied(f))
             /\ panel' = PanelAfterReset /\ saved' = EditsAfterCopy(f)
          \/ /\ ~Keeps(f, force) /\ Readable(f) /\ CopyLost(f)
  /\ UNCHANGED <<editor, scans>>

\* Defect: the plan of the copy as it was before the edit stays in the cache.
PlanAfterSave_Kept(ws) == ws.plan

\* save_lpl_edit: the plan of the copy is forgotten.
PlanAfterSave(ws) == NoPlan

\* select_lpl_rom: plan_path_index keeps the last item of each path.
SelectLplRom(path) ==
  /\ selection.listed # NoText /\ path[1] = selection.listed /\ GameExists(path)
  /\ LET ws == IF form.work = "copy" THEN Planned(workspace) ELSE workspace
         found == {i \in DOMAIN ws.plan : ws.plan[i].game = path}
     IN /\ workspace' = ws
        /\ selection' = [selection EXCEPT !.path = path,
             !.index = IF found = {} THEN 0
                       ELSE ws.plan[CHOOSE i \in found : \A j \in found : j <= i].index]
  /\ online' = FALSE
  /\ UNCHANGED <<form, editor, panel, scans, saved>>

------------------------------------------------------------------------------
(* The editor *)

\* begin_lpl_edit: the item goes to a playlist of its own and to the form.
BeginLplEdit ==
  /\ ~editor.open /\ selection.path # NoFile
  /\ form.work = "copy" /\ selection.index \in DOMAIN workspace.copy
  /\ LET item == workspace.copy[selection.index]
     IN /\ item # Junk
        /\ workspace' = [workspace EXCEPT !.index = selection.index, !.edit = item]
        /\ editor' = [open |-> TRUE, game |-> item.game, title |-> item.title,
                      cover |-> IF ImageExists(item.cover, online) THEN item.cover ELSE NoFile]
  /\ online' = FALSE
  /\ UNCHANGED <<form, selection, panel, scans, saved>>

\* The user edits title and cover in the form; choose_cover drops the covers of the workspace.
FillEditor(edit) ==
  /\ editor.open
  /\ editor' = [editor EXCEPT !.title = edit.title, !.cover = edit.cover]
  /\ online' = IF edit.cover = editor.cover THEN online ELSE FALSE
  /\ UNCHANGED <<form, workspace, selection, panel, scans, saved>>

\* store_online_cover: always the same file of the temporary directory.
StoreOnlineCover ==
  /\ editor.open
  /\ editor' = [editor EXCEPT !.cover = OnlineImage]
  /\ online' = TRUE
  /\ UNCHANGED <<form, workspace, selection, panel, scans, saved>>

\* update_lpl_edit_file: the item as the form has it.
EditedItem ==
  [game |-> editor.game, cover |-> editor.cover,
   title |-> IF editor.title = NoText THEN editor.game[2] ELSE editor.title]

\* merge_lpl_edit: the item of the copy that is replaced.
MergedAt == workspace.index

\* save_lpl_edit: both files are written, the plan is forgotten, and set_edit_cover
\* removes the cover the workspace had stored.  The second write may fail.
\* An item without a path is not saved.
SaveLplEdit ==
  /\ editor.open /\ editor.game # NoFile
  /\ workspace.index # 0 /\ HasCopy /\ workspace.edit # Junk
  /\ \/ /\ workspace' = [workspace EXCEPT !.edit = EditedItem]
        /\ UNCHANGED <<online, saved>>
     \/ /\ MergedAt \in DOMAIN workspace.copy
        /\ workspace' = [workspace EXCEPT !.edit = EditedItem, !.copy[MergedAt] = EditedItem,
                                          !.plan = PlanAfterSave(workspace)]
        /\ saved' = [i \in DOMAIN saved \union {workspace.index} |->
                       IF i = workspace.index THEN EditedItem ELSE saved[i]]
        /\ online' = FALSE
  /\ UNCHANGED <<form, editor, selection, panel, scans>>

\* return_from_lpl_edit: back to the playlist page, with its refresh.
ReturnFromLplEdit ==
  /\ editor.open /\ workspace.edit # Junk
  /\ editor' = ClosedEditor
  /\ Refresh(form, [workspace EXCEPT !.index = 0, !.edit = Junk])
  /\ UNCHANGED <<panel, scans, saved>>

------------------------------------------------------------------------------
(* The preflight panel *)

\* begin_preflight: a panel that is open starts again, with another conversion pending.
OpenPanel ==
  panel' = [visible |-> TRUE, stage |-> 0, scanning |-> panel.scanning,
            pending |-> <<form.list, form.games, form.images>>]

\* convert_lpl: the copy is made again when the form has changed, then the panel opens.
ConvertLpl ==
  /\ ~editor.open /\ form.list # NoText
  /\ \/ /\ Keeps(form, FALSE)
        /\ workspace' = Planned(workspace)
        /\ OpenPanel
        /\ UNCHANGED <<form, selection, online, saved>>
     \/ /\ ~Keeps(form, FALSE) /\ Readable(form)
        /\ workspace' = Planned(Copied(form))
        /\ form' = [form EXCEPT !.work = "copy"] /\ online' = FALSE
        /\ saved' = EditsAfterCopy(form)
        /\ OpenPanel
        /\ UNCHANGED selection
     \/ /\ ~Keeps(form, FALSE) /\ Readable(form)
        /\ CopyLost(form)
  /\ UNCHANGED <<editor, scans>>

\* scan_pending_conversion starts a worker for the pending conversion.
StartScan ==
  /\ panel.visible /\ panel.pending # NoPending /\ panel.stage = 0 /\ ~panel.scanning /\ scans < MaxScans
  /\ panel' = [panel EXCEPT !.scanning = TRUE]
  /\ scans' = scans + 1
  /\ UNCHANGED <<form, workspace, editor, selection, online, saved>>

\* The worker's closure on the event loop: preflight_lpl has a report or an error.
ScanEnds ==
  /\ scans > 0 /\ scans' = scans - 1
  /\ \/ panel' = [panel EXCEPT !.scanning = FALSE, !.stage = IF panel.visible THEN 1 ELSE @]
     \/ panel.visible /\ panel' = ClosedPanel
  /\ UNCHANGED <<form, workspace, editor, selection, online, saved>>

\* preflight_cancel_clicked, or start_pending_conversion from either stage, which takes
\* the pending conversion and leaves the panel open when there is no output directory.
ClosePanel ==
  /\ panel.visible
  /\ \/ panel' = ClosedPanel
     \/ panel.pending # NoPending /\ panel' = [panel EXCEPT !.pending = NoPending]
  /\ UNCHANGED <<form, workspace, editor, selection, online, scans, saved>>

WorkspaceNext ==
  \/ \E list \in DOMAIN Playlists \union {"unreadable"} : ChooseLpl(list)
  \/ TypeInForm \/ ChooseFolder
  \/ \E folder \in DOMAIN GameFolders : \E name \in GameFolders[folder] : SelectLplRom(<<folder, name>>)
  \/ BeginLplEdit \/ StoreOnlineCover \/ SaveLplEdit \/ ReturnFromLplEdit
  \/ \E edit \in Edits : FillEditor(edit)
  \/ ConvertLpl \/ StartScan \/ ScanEnds \/ ClosePanel

WorkspaceSpec == WorkspaceInit /\ [][WorkspaceNext]_workspaceVars

------------------------------------------------------------------------------
(* What the page must keep *)

\* While the game page shows an item of the playlist, the item can be saved: it is an
\* entry of the copy, with the game the form shows, and nothing else is being edited.
\* Folders and playlists chosen meanwhile (main.rs:2433) do not take it away.
EditorBacked ==
  IF editor.open
  THEN /\ form.work = "copy" /\ workspace.edit # Junk
       /\ workspace.index \in DOMAIN workspace.copy
       /\ workspace.copy[workspace.index].game = editor.game
  ELSE workspace.index = 0 /\ workspace.edit = Junk

\* "Once an item has been saved, reusing the current temporary LPL keeps those edits"
\* (main.rs:2458): the titles saved to the items of a playlist stay, whatever folders
\* are chosen and whatever is selected, until the playlist is chosen again.
SavedTitlesKept ==
  \A i \in DOMAIN saved : i \in DOMAIN workspace.copy /\ workspace.copy[i].title = saved[i].title

\* The same comment, of the covers: the cover saved to an item stays the item's, and its
\* image is there to be packed.
SavedCoversKept ==
  \A i \in DOMAIN saved :
    saved[i].cover # NoFile =>
      /\ i \in DOMAIN workspace.copy /\ workspace.copy[i].cover = saved[i].cover
      /\ ImageExists(saved[i].cover, online)

\* The plan in the cache, by which the page shows and selects items, is the plan of the
\* copy as it is now.
PlanFresh == workspace.plan # NoPlan => workspace.plan = PlanOf(workspace.copy)

\* A conversion that is pending is of the copy that is there, made from the playlist and
\* the folders the form showed when Convert was clicked, although the page stays usable
\* under the panel: what is chosen meanwhile and makes another copy, which removes the one
\* that was to be converted, leaves nothing pending (main.rs:374).
ConvertsWhatWasAsked ==
  panel.pending # NoPending => panel.pending = <<workspace.source, workspace.games, workspace.images>>
=============================================================================
