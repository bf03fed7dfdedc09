----------------------------- MODULE PageProofs -----------------------------
(***************************************************************************)
(* Theorems about the pages of the window: GameForm, for any ROMs and      *)
(* items and any number of games and lookups; PlaylistWorkspace, for any   *)
(* playlists, folders, edits and scans.                                    *)
(***************************************************************************)
EXTENDS GameForm, PlaylistWorkspace, TLAPS

------------------------------------------------------------------------------
(* The form and its lookups. *)

RomOrNone == DOMAIN Roms \union {NoRom}
Covers == RomOrNone \union ListItems \union {OnlineCover}
PartsType == [region : RomOrNone, set : RomOrNone, metadata : RomOrNone, cover : Covers, online : Nat]
RequestType == [id : Nat, round : Nat]

FormTypes ==
  /\ matchGeneration \in Nat /\ round \in Nat
  /\ parts \in PartsType
  /\ requests \subseteq RequestType
  /\ store \in RequestType

\* A lookup that carries the current generation was started for the game the form has:
\* whatever gives the form to another game moves the generation past all of them.
LookupInv == \A q \in requests : q.id <= matchGeneration /\ (q.id = matchGeneration => q.round = round)

FormInv == FormTypes /\ LookupInv /\ MatchOfThisGame

\* The cover of a match is not that of a ROM, a row or an item.
LEMMA OnlineCoverApart == OnlineCover \notin RomOrNone \union ListItems
BY FormAssumption DEF RomOrNone, OnlineCover, NoRom

LEMMA FormInitInv == FormInit => FormInv
<1> SUFFICES ASSUME FormInit PROVE FormInv
  OBVIOUS
<1>1. parts = NoParts /\ NoParts \in PartsType /\ NoParts.cover # OnlineCover /\ NoParts.online = 0
  BY OnlineCoverApart DEF FormInit, NoParts, PartsType, Covers, RomOrNone
<1> QED
  BY <1>1 DEF FormInit, FormInv, FormTypes, LookupInv, MatchOfThisGame, RequestType, NoMatch

\* The steps that give the form to another game outdate every lookup under way.
LEMMA NewGame ==
  ASSUME FormInv, NextRound, ForgetMatch, parts' \in PartsType, parts'.online = 0,
         parts'.cover \in RomOrNone \union ListItems
  PROVE  FormInv'
<1>1. round' = round + 1 /\ matchGeneration' = matchGeneration + 1 /\ store' = NoMatch /\ requests' = requests
  BY DEF NextRound, ForgetMatch, Outdated
<1>2. FormTypes'
  BY <1>1 DEF FormInv, FormTypes, RequestType, NoMatch
<1>3. LookupInv'
  BY <1>1 DEF FormInv, FormTypes, LookupInv, RequestType
<1>4. MatchOfThisGame'
  BY <1>1, OnlineCoverApart DEF MatchOfThisGame, NoMatch
<1> QED
  BY <1>2, <1>3, <1>4 DEF FormInv

\* The steps that leave the lookups and the round alone.
LEMMA SameLookups ==
  ASSUME FormInv, UNCHANGED <<matchGeneration, round, requests, store>>,
         parts' \in PartsType, parts'.online = parts.online,
         parts'.cover \in {parts.cover} \union RomOrNone \union ListItems
  PROVE  FormInv'
BY OnlineCoverApart DEF FormInv, FormTypes, LookupInv, MatchOfThisGame

LEMMA FormStep ==
  ASSUME FormInv, [FormNext]_formVars
  PROVE  FormInv'
<1> USE DEF PartsType, Covers, RomOrNone
<1>0. parts \in PartsType
  BY DEF FormInv, FormTypes
<1>1. ASSUME NEW r \in DOMAIN Roms, ChooseRom(r) PROVE FormInv'
  <2>1. NextRound /\ ForgetMatch
    BY <1>1 DEF ChooseRom
  <2>2. CASE LoadRomx(r)
    <3>1. PICK a \in RomOrNone, b \in RomOrNone, c \in RomOrNone :
            parts' = [region |-> a, set |-> NoRom, metadata |-> b, cover |-> c, online |-> 0]
      <4>1. CASE parts' = Cleared
        BY <4>1 DEF Cleared, NoParts
      <4>2. CASE parts' = [Cleared EXCEPT !.metadata = r]
        BY <4>2 DEF Cleared, NoParts
      <4>3. CASE /\ loaded' = IF Roms[r].region THEN r ELSE NoRom
                 /\ parts' = [Cleared EXCEPT !.metadata = r, !.cover = r, !.region = loaded']
        <5>1. loaded' \in RomOrNone
          BY <4>3
        <5> QED
          BY <4>3, <5>1 DEF Cleared, NoParts
      <4> QED
        BY <2>2, <4>1, <4>2, <4>3 DEF LoadRomx
    <3>2. parts' \in PartsType /\ parts'.online = 0 /\ parts'.cover \in RomOrNone
      BY <3>1
    <3> QED
      BY <2>1, <3>2, NewGame
  <2>3. CASE LoadPayload(r)
    <3> DEFINE own == [Cleared EXCEPT !.set = IF Len(Roms[r].files) > 1 THEN r ELSE @]
    <3>1. PICK a \in RomOrNone :
            own = [region |-> NoRom, set |-> a, metadata |-> NoRom, cover |-> NoRom, online |-> 0]
      <4>1. CASE Len(Roms[r].files) > 1
        <5>1. own = [Cleared EXCEPT !.set = r]
          BY <4>1
        <5> QED
          BY <5>1 DEF Cleared, NoParts
      <4>2. CASE ~(Len(Roms[r].files) > 1)
        <5>1. own = [Cleared EXCEPT !.set = Cleared.set]
          BY <4>2
        <5> QED
          BY <5>1 DEF Cleared, NoParts
      <4> QED
        BY <4>1, <4>2
    <3>2. parts' = own \/ parts' = [own EXCEPT !.cover = r]
      BY <2>3 DEF LoadPayload
    <3> HIDE DEF own
    <3>3. parts' \in PartsType /\ parts'.online = 0 /\ parts'.cover \in RomOrNone
      BY <3>1, <3>2
    <3> QED
      BY <2>1, <3>3, NewGame
  <2> QED
    BY <1>1, <2>2, <2>3 DEF ChooseRom
<1>2. ASSUME NEW path \in Paths, SelectEntrypoint(path) PROVE FormInv'
  <2>1. parts' \in PartsType /\ parts'.online = parts.online /\ parts'.cover \in RomOrNone
    BY <1>0, <1>2 DEF SelectEntrypoint
  <2> QED
    BY <1>2, <2>1, SameLookups DEF SelectEntrypoint, matchVars, choiceVars
<1>3. ASSUME NEW path \in Paths, TypeRom(path) \/ CrcComputed(path) PROVE FormInv'
  BY <1>0, <1>3, SameLookups DEF TypeRom, CrcComputed, matchVars, choiceVars
<1>4. CASE SetSaveFolder
  BY <1>0, <1>4, SameLookups DEF SetSaveFolder, matchVars, choiceVars
<1>5. CASE LoadPlaylist
  <2>1. PICK cover \in RomOrNone \union ListItems : parts' = [Cleared EXCEPT !.cover = cover]
    BY <1>5 DEF LoadPlaylist, PreviewCovers
  <2>2. parts' = [region |-> NoRom, set |-> NoRom, metadata |-> NoRom, cover |-> cover, online |-> 0]
    BY <2>1 DEF Cleared, NoParts
  <2> QED
    BY <1>5, <2>2, NewGame DEF LoadPlaylist
<1>6. CASE ReturnFromEdit
  <2>1. PICK cover \in RomOrNone \union ListItems : parts' = [parts EXCEPT !.online = 0, !.cover = cover]
    BY <1>6 DEF ReturnFromEdit, PreviewCovers
  <2>2. parts' \in PartsType /\ parts'.online = 0 /\ parts'.cover = cover
    BY <1>0, <2>1
  <2> QED
    BY <1>6, <2>2, NewGame DEF ReturnFromEdit
<1>7. ASSUME NEW path \in ListItems, BeginEdit(path) PROVE FormInv'
  <2>1. PICK cover \in RomOrNone \union ListItems : parts' = [parts EXCEPT !.online = 0, !.cover = cover]
    BY <1>7 DEF BeginEdit
  <2>2. parts' \in PartsType /\ parts'.online = 0 /\ parts'.cover = cover
    BY <1>0, <2>1
  <2> QED
    BY <1>7, <2>2, NewGame DEF BeginEdit
<1>8. CASE OnlineMatch
  <2>1. FormTypes'
    BY <1>8 DEF OnlineMatch, FormInv, FormTypes, RequestType, choiceVars
  <2>2. LookupInv'
    BY <1>8 DEF OnlineMatch, FormInv, FormTypes, RequestType, LookupInv, choiceVars
  <2> QED
    BY <1>8, <2>1, <2>2 DEF OnlineMatch, FormInv, MatchOfThisGame, choiceVars
<1>9. ASSUME NEW request \in requests, MatchAnswered(request) PROVE FormInv'
  <2>1. store' = store \/ (store' = request /\ request.id = matchGeneration)
    BY <1>9 DEF MatchAnswered
  <2>2. requests' \subseteq requests /\ UNCHANGED <<parts, matchGeneration, round>>
    BY <1>9 DEF MatchAnswered, choiceVars
  <2>3. request.id = matchGeneration => request.round = round
    BY DEF FormInv, LookupInv
  <2>4. FormTypes'
    BY <2>1, <2>2 DEF FormInv, FormTypes
  <2>5. LookupInv'
    BY <2>2 DEF FormInv, LookupInv
  <2>6. MatchOfThisGame'
    BY <2>1, <2>2, <2>3 DEF FormInv, MatchOfThisGame
  <2> QED
    BY <2>4, <2>5, <2>6 DEF FormInv
<1>10. CASE WriteMatch
  <2>1. store' = NoMatch /\ UNCHANGED <<requests, matchGeneration, round>>
    BY <1>10 DEF WriteMatch, choiceVars
  <2>2. /\ parts' \in PartsType
        /\ parts' = parts \/ (parts'.online = store.round /\ store # NoMatch)
    <3>1. store.round \in Nat
      BY DEF FormInv, FormTypes, RequestType
    <3>2. CASE parts' = parts
      BY <1>0, <3>2
    <3>3. CASE store # NoMatch /\ \E cover \in {parts.cover, OnlineCover} :
                 parts' = [parts EXCEPT !.online = store.round, !.cover = cover]
      <4>1. PICK cover \in Covers : parts' = [parts EXCEPT !.online = store.round, !.cover = cover]
        BY <1>0, <3>3
      <4> QED
        BY <1>0, <3>1, <3>3, <4>1
    <3> QED
      BY <1>10, <3>2, <3>3 DEF WriteMatch
  <2>3. FormTypes'
    BY <2>1, <2>2 DEF FormInv, FormTypes, RequestType, NoMatch
  <2>4. LookupInv'
    BY <2>1 DEF FormInv, LookupInv
  <2>5. MatchOfThisGame'
    BY <2>1, <2>2 DEF FormInv, MatchOfThisGame, NoMatch
  <2> QED
    BY <2>3, <2>4, <2>5 DEF FormInv
<1>11. CASE CancelMatch
  <2>1. matchGeneration' = matchGeneration + 1 /\ store' = NoMatch /\ UNCHANGED <<parts, requests, round>>
    BY <1>11 DEF CancelMatch, choiceVars
  <2>2. FormTypes'
    BY <2>1 DEF FormInv, FormTypes, RequestType, NoMatch
  <2>3. LookupInv'
    BY <2>1 DEF FormInv, FormTypes, LookupInv, RequestType
  <2>4. MatchOfThisGame'
    BY <2>1 DEF FormInv, MatchOfThisGame, NoMatch
  <2> QED
    BY <2>2, <2>3, <2>4 DEF FormInv
<1>12. CASE UNCHANGED formVars
  BY <1>0, <1>12, SameLookups DEF formVars
<1>13. CASE ChooseCover \/ RefreshPreview
  <2>1. PICK cover \in RomOrNone \union ListItems : parts' = [parts EXCEPT !.cover = cover]
    BY <1>13 DEF ChooseCover, RefreshPreview, PreviewCovers
  <2>2. parts' \in PartsType /\ parts'.online = parts.online /\ parts'.cover = cover
    BY <1>0, <2>1
  <2> QED
    BY <1>13, <2>2, SameLookups DEF ChooseCover, RefreshPreview, matchVars, choiceVars
<1>14. ASSUME NEW path \in ListItems, SelectRow(path) PROVE FormInv'
  <2>1. PICK cover \in RomOrNone \union ListItems : parts' = [parts EXCEPT !.cover = cover]
    BY <1>14 DEF SelectRow
  <2>2. parts' \in PartsType /\ parts'.online = parts.online /\ parts'.cover = cover
    BY <1>0, <2>1
  <2> QED
    BY <1>14, <2>2, SameLookups DEF SelectRow, matchVars
<1> QED
  BY <1>1, <1>2, <1>3, <1>4, <1>5, <1>6, <1>7, <1>8, <1>9, <1>10, <1>11, <1>12, <1>13, <1>14 DEF FormNext

\* A lookup that was started for one game (online_match) is neither shown nor written for
\* the next, however late it answers: for every number of games, lookups and steps.
THEOREM LookupStaysWithItsGame == FormSpec => []MatchOfThisGame
<1>1. FormInit => FormInv
  BY FormInitInv
<1>2. FormInv /\ [FormNext]_formVars => FormInv'
  BY FormStep
<1>3. FormInv => MatchOfThisGame
  BY DEF FormInv
<1> QED
  BY <1>1, <1>2, <1>3, PTL DEF FormSpec

------------------------------------------------------------------------------
(* The form and the parts of the ROM that was chosen. *)

\* Until the form shows another path, the parts and the path are the chosen ROM's, and so
\* is the path of the CRC32; the cover may be that of a match, and is any, once the
\* playlist page has set it.
ChosenInv ==
  lastChoice # NoRom =>
    /\ lastChoice \in DOMAIN Roms
    /\ {parts.region, parts.set, parts.metadata} \subseteq {NoRom, lastChoice}
    /\ rowShown \/ parts.cover \in {NoRom, lastChoice, OnlineCover}
    /\ shownRom \in Files(lastChoice)
    /\ crc = NoRom \/ crc \in Files(lastChoice)

PartsInv == parts \in PartsType /\ ChosenInv

LEMMA FirstFile ==
  ASSUME NEW r \in DOMAIN Roms
  PROVE  Head(Roms[r].files) \in Files(r)
<1> DEFINE s == Roms[r].files
<1>1. s \in Seq(STRING) /\ s # <<>>
  BY FormAssumption
<1> HIDE DEF s
<1>2. 1 \in 1..Len(s) /\ Head(s) = s[1]
  BY <1>1
<1> QED
  BY <1>2 DEF Files, s

LEMMA ChosenStep ==
  ASSUME PartsInv, parts' \in PartsType, [FormNext]_formVars
  PROVE  ChosenInv'
<1> USE DEF PartsInv
<1>1. ASSUME NEW r \in DOMAIN Roms, ChooseRom(r) PROVE ChosenInv'
  <2>1. shownRom' \in Files(r) /\ crc' = NoRom /\ lastChoice' = r
    BY <1>1, FirstFile DEF ChooseRom
  <2>2. {parts'.region, parts'.set, parts'.metadata, parts'.cover} \subseteq {NoRom, r}
    <3>1. CASE LoadRomx(r)
      <4>1. CASE parts' \in {Cleared, [Cleared EXCEPT !.metadata = r]}
        BY <4>1 DEF Cleared, NoParts
      <4>2. CASE /\ loaded' = IF Roms[r].region THEN r ELSE NoRom
                 /\ parts' = [Cleared EXCEPT !.metadata = r, !.cover = r, !.region = loaded']
        BY <4>2 DEF Cleared, NoParts
      <4> QED
        BY <3>1, <4>1, <4>2 DEF LoadRomx
    <3>2. CASE LoadPayload(r)
      <4> DEFINE own == [Cleared EXCEPT !.set = IF Len(Roms[r].files) > 1 THEN r ELSE @]
      <4>1. PICK a \in {NoRom, r} :
              own = [region |-> NoRom, set |-> a, metadata |-> NoRom, cover |-> NoRom, online |-> 0]
        <5>1. CASE Len(Roms[r].files) > 1
          <6>1. own = [Cleared EXCEPT !.set = r]
            BY <5>1
          <6> QED
            BY <6>1 DEF Cleared, NoParts
        <5>2. CASE ~(Len(Roms[r].files) > 1)
          <6>1. own = [Cleared EXCEPT !.set = Cleared.set]
            BY <5>2
          <6> QED
            BY <6>1 DEF Cleared, NoParts
        <5> QED
          BY <5>1, <5>2
      <4>2. parts' = own \/ parts' = [own EXCEPT !.cover = r]
        BY <3>2 DEF LoadPayload
      <4> HIDE DEF own
      <4> QED
        BY <4>1, <4>2
    <3> QED
      BY <1>1, <3>1, <3>2 DEF ChooseRom
  <2> QED
    BY <2>1, <2>2 DEF ChosenInv
<1>2. ASSUME NEW path \in Paths, SelectEntrypoint(path) PROVE ChosenInv'
  <2>1. /\ shownRom' = path /\ path \in Files(parts.set) /\ parts.set # NoRom
        /\ crc' \in {NoRom, crc} /\ lastChoice' = lastChoice
    BY <1>2 DEF SelectEntrypoint, choiceVars
  <2>2. /\ parts'.region = parts.region /\ parts'.set = parts.set /\ parts'.metadata = parts.metadata
        /\ parts'.cover \in {NoRom, parts.set}
    BY <1>2 DEF SelectEntrypoint, PartsType
  <2> QED
    BY <2>1, <2>2 DEF ChosenInv
<1>3. ASSUME NEW path \in Paths, TypeRom(path) PROVE ChosenInv'
  BY <1>3 DEF TypeRom, ChosenInv
<1>4. ASSUME NEW path \in Paths, CrcComputed(path) PROVE ChosenInv'
  <2>1. crc' = crc \/ (crc' = path /\ shownRom = path)
    BY <1>4 DEF CrcComputed, CrcWanted
  <2> QED
    BY <1>4, <2>1 DEF CrcComputed, ChosenInv, choiceVars
<1>5. CASE LoadPlaylist
  <2>1. parts'.region = NoRom /\ parts'.set = NoRom /\ parts'.metadata = NoRom
    BY <1>5 DEF LoadPlaylist, Cleared, NoParts
  <2> QED
    BY <1>5, <2>1 DEF LoadPlaylist, RowShown, ChosenInv
<1>6. ASSUME NEW path \in ListItems, BeginEdit(path) PROVE ChosenInv'
  BY <1>6 DEF BeginEdit, ChosenInv
<1>7. ASSUME UNCHANGED <<shownRom, crc, lastChoice>>,
             parts'.region = parts.region, parts'.set = parts.set, parts'.metadata = parts.metadata,
             rowShown' = (lastChoice # NoRom)
                \/ (rowShown' = rowShown /\ parts'.cover \in {parts.cover, NoRom, OnlineCover})
      PROVE  ChosenInv'
  BY <1>7 DEF ChosenInv
<1>8. CASE ReturnFromEdit \/ RefreshPreview
  <2>1. parts'.region = parts.region /\ parts'.set = parts.set /\ parts'.metadata = parts.metadata
    BY <1>8 DEF ReturnFromEdit, RefreshPreview, PartsType
  <2> QED
    BY <1>7, <1>8, <2>1 DEF ReturnFromEdit, RefreshPreview, RowShown
<1>9. CASE WriteMatch \/ ChooseCover
  <2>1. /\ parts'.region = parts.region /\ parts'.set = parts.set /\ parts'.metadata = parts.metadata
        /\ parts'.cover \in {parts.cover, NoRom, OnlineCover}
    BY <1>9 DEF WriteMatch, ChooseCover, PartsType
  <2> QED
    BY <1>7, <1>9, <2>1 DEF WriteMatch, ChooseCover, choiceVars
<1>10. CASE SetSaveFolder \/ OnlineMatch \/ CancelMatch \/ UNCHANGED formVars
  BY <1>7, <1>10 DEF SetSaveFolder, OnlineMatch, CancelMatch, formVars, choiceVars
<1>11. ASSUME NEW request \in requests, MatchAnswered(request) PROVE ChosenInv'
  BY <1>7, <1>11 DEF MatchAnswered, choiceVars
<1>12. ASSUME NEW path \in ListItems, SelectRow(path) PROVE ChosenInv'
  <2>1. parts'.region = parts.region /\ parts'.set = parts.set /\ parts'.metadata = parts.metadata
    BY <1>12 DEF SelectRow, PartsType
  <2> QED
    BY <1>7, <1>12, <2>1 DEF SelectRow, RowShown
<1> QED
  BY <1>1, <1>2, <1>3, <1>4, <1>5, <1>6, <1>8, <1>9, <1>10, <1>11, <1>12 DEF FormNext

\* What Convert packs with a ROM that was chosen in the dialog (choose_rom) is that ROM's,
\* or a match's, whatever was chosen, typed, edited or computed before and however late
\* the workers report: for every collection of ROMs and playlists.  Of the cover this is
\* said until a row or a preview of the playlist page has replaced it (select_lpl_rom,
\* refresh_lpl_preview); create_single_lpl packs that one.
THEOREM ConvertPacksChosenRom == FormSpec => []PacksChosenRom
<1> DEFINE Inv == FormInv /\ ChosenInv
<1>1. FormInit => Inv
  BY FormInitInv DEF FormInit, ChosenInv
<1>2. Inv /\ [FormNext]_formVars => Inv'
  <2> SUFFICES ASSUME Inv, [FormNext]_formVars PROVE Inv'
    OBVIOUS
  <2>1. FormInv'
    BY FormStep
  <2> QED
    BY <2>1, ChosenStep DEF PartsInv, FormInv, FormTypes
<1>3. Inv => PacksChosenRom
  <2> SUFFICES ASSUME parts \in PartsType, ChosenInv, lastChoice # NoRom
               PROVE  PacksChosenRom
    BY DEF FormInv, FormTypes, PacksChosenRom
  <2>1. /\ {Packs.region, Packs.set, Packs.metadata} \subseteq {NoRom, lastChoice}
        /\ rowShown \/ Packs.cover \in {NoRom, lastChoice, OnlineCover}
    BY DEF Packs, ChosenInv, PartsType
  <2>2. crc = NoRom \/ lastChoice \in Owner(crc)
    BY DEF ChosenInv, Owner
  <2> QED
    BY <2>1, <2>2 DEF PacksChosenRom
<1> QED
  BY <1>1, <1>2, <1>3, PTL DEF FormSpec

------------------------------------------------------------------------------
(* The playlist page. *)

IsForm(f) == f = [list |-> f.list, games |-> f.games, images |-> f.images, work |-> f.work]
IsEditor(e) == e = [open |-> e.open, game |-> e.game, title |-> e.title, cover |-> e.cover]
IsPanel(p) ==
  p = [visible |-> p.visible, stage |-> p.stage, scanning |-> p.scanning, pending |-> p.pending]
IsWorkspace(w) ==
  w = [source |-> w.source, games |-> w.games, images |-> w.images, copy |-> w.copy,
       index |-> w.index, edit |-> w.edit, plan |-> w.plan]

\* Two workspaces that differ in the cached plan at most, which is one of the copy.
SameCopy(w, v) ==
  /\ w.source = v.source /\ w.games = v.games /\ w.images = v.images
  /\ w.copy = v.copy /\ w.index = v.index /\ w.edit = v.edit
Fresh(w) == w.plan # NoPlan => w.plan = PlanOf(w.copy)

ShapeInv ==
  /\ IsForm(form) /\ IsEditor(editor) /\ IsPanel(panel) /\ IsWorkspace(workspace)
  /\ 0 \notin DOMAIN workspace.copy
  /\ form.work # "none" => form.list # NoText

\* An item that was saved has a path, so that a new copy of the playlist gives it the
\* title it has: the name of its game when it has no other.
SavedInv ==
  \A i \in DOMAIN saved :
    /\ i \in DOMAIN workspace.copy /\ workspace.copy[i].title = saved[i].title
    /\ workspace.copy[i].game # NoFile
    /\ workspace.copy[i].title = NoText => workspace.copy[i].game[2] = NoText

PageInv == ShapeInv /\ EditorBacked /\ PlanFresh /\ ConvertsWhatWasAsked /\ SavedInv

LEMMA PlannedCopy ==
  ASSUME NEW w, IsWorkspace(w), Fresh(w)
  PROVE  IsWorkspace(Planned(w)) /\ SameCopy(Planned(w), w) /\ Fresh(Planned(w))
<1>1. CASE w.source # NoText /\ w.plan = NoPlan
  <2> DEFINE p == PlanOf(w.copy)
  <2>1. Planned(w) = [w EXCEPT !.plan = p]
    BY <1>1 DEF Planned
  <2>2. p = PlanOf(w.copy)
    OBVIOUS
  <2> HIDE DEF p
  <2>3. Planned(w) = [source |-> w.source, games |-> w.games, images |-> w.images, copy |-> w.copy,
                      index |-> w.index, edit |-> w.edit, plan |-> p]
    BY <2>1 DEF IsWorkspace
  <2> QED
    BY <2>2, <2>3 DEF IsWorkspace, SameCopy, Fresh
<1>2. CASE ~(w.source # NoText /\ w.plan = NoPlan)
  BY <1>2 DEF Planned, SameCopy
<1> QED
  BY <1>1, <1>2

LEMMA CopiedIs ==
  ASSUME NEW f
  PROVE  Copied(f) = [source |-> f.list, games |-> f.games, images |-> f.images,
                      copy |-> Prepared(Base(f), f.games, f.images),
                      index |-> 0, edit |-> Junk, plan |-> NoPlan]
<1> DEFINE c == Prepared(Base(f), f.games, f.images)
<1> HIDE DEF c
<1>1. Copied(f) = [Reset EXCEPT !.source = f.list, !.games = f.games, !.images = f.images, !.copy = c]
  BY DEF Copied, c
<1>2. Copied(f) = [source |-> f.list, games |-> f.games, images |-> f.images, copy |-> c,
                   index |-> 0, edit |-> Junk, plan |-> NoPlan]
  BY <1>1 DEF Reset
<1> QED
  BY <1>2 DEF c

\* What a playlist holds is counted from one, and so is its copy.
LEMMA PlaylistItems ==
  ASSUME NEW list \in DOMAIN Playlists
  PROVE  list # NoText /\ 0 \notin DOMAIN Playlists[list]
<1>1. PICK S : Playlists[list] \in Seq(S)
  BY WorkspaceAssumption
<1>2. DOMAIN Playlists[list] = 1..Len(Playlists[list]) /\ Len(Playlists[list]) \in Nat
  BY <1>1
<1> QED
  BY <1>2, WorkspaceAssumption

LEMMA CopiedItems ==
  ASSUME NEW f, Readable(f), ShapeInv
  PROVE  0 \notin DOMAIN Copied(f).copy
<1>1. 0 \notin DOMAIN Base(f)
  BY PlaylistItems DEF Readable, Base, ShapeInv
<1>2. Copied(f).copy = Prepared(Base(f), f.games, f.images)
  BY CopiedIs
<1> QED
  BY <1>1, <1>2 DEF Prepared

\* A new copy of the same playlist keeps the saved titles: prepare_lpl_workspace takes
\* a title the item has, and resolves its path to a game of the same name.
LEMMA TitleKept ==
  ASSUME NEW entry, NEW games, NEW images,
         entry.game # NoFile, entry.title = NoText => entry.game[2] = NoText
  PROVE  LET item == PreparedItem(entry, games, images)
         IN item.title = entry.title /\ item.game # NoFile /\ (item.title = NoText => item.game[2] = NoText)
<1>1. entry # Junk
  BY DEF Junk
<1> DEFINE game == ResolveWorkspaceRom(entry.game, games)
<1>2. game[2] = entry.game[2] /\ game # NoFile
  <2>1. CASE games # NoText /\ entry.game[2] \in GameFolders[games]
    <3>1. game = <<games, entry.game[2]>>
      BY <2>1 DEF ResolveWorkspaceRom
    <3> QED
      BY <2>1, <3>1 DEF NoFile
  <2>2. CASE ~(games # NoText /\ entry.game[2] \in GameFolders[games])
    BY <2>2 DEF ResolveWorkspaceRom
  <2> QED
    BY <2>1, <2>2
<1> HIDE DEF game
<1>3. PICK cover : PreparedItem(entry, games, images) =
        [game |-> game, title |-> IF entry.title = NoText THEN game[2] ELSE entry.title, cover |-> cover]
  BY <1>1 DEF PreparedItem, game
<1> QED
  BY <1>2, <1>3

LEMMA CopySaved ==
  ASSUME ShapeInv, SavedInv, NEW f, Readable(f),
         saved' = EditsAfterCopy(f), workspace'.copy = Copied(f).copy
  PROVE  SavedInv'
<1>1. CASE workspace.source # f.list
  BY <1>1 DEF EditsAfterCopy, NoEdits, SavedInv
<1>2. CASE workspace.source = f.list
  <2>1. saved' = saved
    BY <1>2 DEF EditsAfterCopy
  <2>2. workspace'.copy = Prepared(workspace.copy, f.games, f.images)
    BY <1>2, CopiedIs DEF Base
  <2> SUFFICES ASSUME NEW i \in DOMAIN saved
               PROVE  /\ i \in DOMAIN workspace'.copy /\ workspace'.copy[i].title = saved[i].title
                      /\ workspace'.copy[i].game # NoFile
                      /\ workspace'.copy[i].title = NoText => workspace'.copy[i].game[2] = NoText
    BY <2>1 DEF SavedInv
  <2>3. /\ i \in DOMAIN workspace.copy /\ workspace.copy[i].title = saved[i].title
        /\ workspace.copy[i].game # NoFile
        /\ workspace.copy[i].title = NoText => workspace.copy[i].game[2] = NoText
    BY DEF SavedInv
  <2>4. i \in DOMAIN workspace'.copy
        /\ workspace'.copy[i] = PreparedItem(workspace.copy[i], f.games, f.images)
    BY <2>2, <2>3 DEF Prepared
  <2> DEFINE entry == workspace.copy[i]
  <2>5. LET item == PreparedItem(entry, f.games, f.images)
        IN item.title = entry.title /\ item.game # NoFile
           /\ (item.title = NoText => item.game[2] = NoText)
    BY <2>3, TitleKept
  <2> QED
    BY <2>3, <2>4, <2>5
<1> QED
  BY <1>1, <1>2

\* A step that leaves the copy, the texts and the item edited as they are.
LEMMA SameCopyInv ==
  ASSUME PageInv, IsForm(form'), form'.work = form.work, form'.work # "none" => form'.list # NoText,
         IsWorkspace(workspace'), SameCopy(workspace', workspace), Fresh(workspace'),
         IsEditor(editor'), editor'.open = editor.open, editor'.game = editor.game,
         IsPanel(panel'), ConvertsWhatWasAsked', saved' = saved
  PROVE  PageInv'
<1>1. ShapeInv'
  BY DEF PageInv, ShapeInv, SameCopy
<1>2. EditorBacked'
  BY DEF PageInv, EditorBacked, SameCopy
<1>3. PlanFresh'
  BY DEF Fresh, PlanFresh
<1>4. SavedInv'
  BY DEF PageInv, SavedInv, SameCopy
<1> QED
  BY <1>1, <1>2, <1>3, <1>4 DEF PageInv

\* A step that makes a copy, or loses it, while no item is edited; only the panel and the
\* saved edits differ between the callers.
LEMMA NewCopyInv ==
  ASSUME PageInv, IsForm(form'), form'.work # "none" => form'.list # NoText,
         IsWorkspace(workspace'), 0 \notin DOMAIN workspace'.copy, Fresh(workspace'),
         workspace'.index = 0, workspace'.edit = Junk, IsEditor(editor'), ~editor'.open,
         IsPanel(panel'), ConvertsWhatWasAsked', SavedInv'
  PROVE  PageInv'
<1>1. ShapeInv'
  BY DEF ShapeInv
<1>2. EditorBacked' /\ PlanFresh'
  BY DEF Fresh, EditorBacked, PlanFresh
<1> QED
  BY <1>1, <1>2 DEF PageInv

LEMMA ResetIs ==
  /\ IsWorkspace(Reset) /\ 0 \notin DOMAIN Reset.copy /\ Fresh(Reset)
  /\ Reset.index = 0 /\ Reset.edit = Junk
BY DEF IsWorkspace, Reset, Fresh

LEMMA NoSavedEdits == saved' = NoEdits => SavedInv'
BY DEF NoEdits, SavedInv

\* What is pending, or what is left of it, stays right while the copy is one of the same
\* playlist and folders; a copy that is made again leaves nothing pending.
LEMMA SamePanelInv ==
  ASSUME ConvertsWhatWasAsked, panel'.pending \in {panel.pending, NoPending},
         workspace'.source = workspace.source, workspace'.games = workspace.games,
         workspace'.images = workspace.images
  PROVE  ConvertsWhatWasAsked'
BY DEF ConvertsWhatWasAsked

LEMMA PanelResetInv ==
  ASSUME IsPanel(panel), panel' = PanelAfterReset
  PROVE  IsPanel(panel') /\ ConvertsWhatWasAsked'
<1>1. panel' = [visible |-> panel.visible, stage |-> panel.stage, scanning |-> panel.scanning,
                pending |-> NoPending]
  BY DEF PanelAfterReset, IsPanel
<1> QED
  BY <1>1 DEF IsPanel, ConvertsWhatWasAsked

LEMMA PageInit == WorkspaceInit => PageInv
<1> SUFFICES ASSUME WorkspaceInit PROVE PageInv
  OBVIOUS
<1>1. ShapeInv
  BY ResetIs DEF WorkspaceInit, ShapeInv, IsForm, IsEditor, ClosedEditor, IsPanel, ClosedPanel
<1>2. EditorBacked /\ PlanFresh /\ ConvertsWhatWasAsked
  BY ResetIs DEF WorkspaceInit, EditorBacked, ClosedEditor, PlanFresh, Fresh, ConvertsWhatWasAsked, ClosedPanel
<1>3. SavedInv
  BY DEF WorkspaceInit, SavedInv, NoEdits
<1> QED
  BY <1>1, <1>2, <1>3 DEF PageInv

LEMMA ChooseLplInv ==
  ASSUME PageInv, NEW list, ChooseLpl(list)
  PROVE  PageInv'
<1>1. IsEditor(editor') /\ ~editor'.open
  BY DEF ChooseLpl, PageInv, ShapeInv, IsEditor
<1>2. SavedInv' /\ ConvertsWhatWasAsked' /\ IsPanel(panel')
  BY NoSavedEdits, PanelResetInv DEF ChooseLpl, PageInv, ShapeInv
<1>3. PICK f : f = [form EXCEPT !.list = list, !.work = "none"]
  OBVIOUS
<1>4. f = [list |-> list, games |-> form.games, images |-> form.images, work |-> "none"]
  BY <1>3 DEF PageInv, ShapeInv, IsForm
<1>5. \/ /\ list \in DOMAIN Playlists /\ form' = [f EXCEPT !.work = "copy"]
         /\ workspace' = Planned([Reset EXCEPT !.source = list, !.games = f.games, !.images = f.images,
                                     !.copy = Prepared(Playlists[list], f.games, f.images)])
      \/ form' = f /\ workspace' = Reset
  BY <1>3 DEF ChooseLpl
<1>6. ASSUME list \in DOMAIN Playlists, form' = [f EXCEPT !.work = "copy"],
             NEW w, workspace' = Planned(w),
             w = [Reset EXCEPT !.source = list, !.games = f.games, !.images = f.images,
                               !.copy = Prepared(Playlists[list], f.games, f.images)]
      PROVE  PageInv'
  <2>1. PICK copy : copy = Prepared(Playlists[list], f.games, f.images)
    OBVIOUS
  <2>2. 0 \notin DOMAIN copy /\ list # NoText
    BY <1>6, <2>1, PlaylistItems DEF Prepared
  <2>3. w = [source |-> list, games |-> f.games, images |-> f.images, copy |-> copy,
             index |-> 0, edit |-> Junk, plan |-> NoPlan]
    <3>1. w = [Reset EXCEPT !.source = list, !.games = f.games, !.images = f.images, !.copy = copy]
      BY <1>6, <2>1, Zenon
    <3> QED
      BY <3>1 DEF Reset
  <2>4. IsWorkspace(w) /\ Fresh(w)
    BY <2>3 DEF IsWorkspace, Fresh
  <2>5. IsWorkspace(workspace') /\ SameCopy(workspace', w) /\ Fresh(workspace')
    BY <1>6, <2>4, PlannedCopy
  <2>6. IsForm(form') /\ form'.list = list
    BY <1>4, <1>6 DEF IsForm
  <2> QED
    BY <1>1, <1>2, <2>2, <2>3, <2>5, <2>6, NewCopyInv DEF SameCopy
<1>7. CASE form' = f /\ workspace' = Reset
  <2>1. IsForm(form') /\ form'.work = "none"
    BY <1>4, <1>7 DEF IsForm
  <2>2. /\ IsWorkspace(workspace') /\ 0 \notin DOMAIN workspace'.copy /\ Fresh(workspace')
        /\ workspace'.index = 0 /\ workspace'.edit = Junk
    BY <1>7, ResetIs
  <2> QED
    BY <1>1, <1>2, <2>1, <2>2, NewCopyInv
<1> QED
  BY <1>5, <1>6, <1>7

\* The copy is lost: reset() came first, and what follows failed.
LEMMA CopyLostInv ==
  ASSUME PageInv, ~editor.open, NEW f, IsForm(f), f.work # "none" => f.list # NoText, CopyLost(f),
         editor' = editor
  PROVE  PageInv'
<1>1. IsForm(form') /\ (form'.work # "none" => form'.list # NoText)
  BY DEF CopyLost, IsForm
<1>2. SavedInv' /\ ConvertsWhatWasAsked' /\ IsPanel(panel') /\ IsEditor(editor')
  BY NoSavedEdits, PanelResetInv DEF CopyLost, PageInv, ShapeInv, IsEditor
<1>3. /\ IsWorkspace(workspace') /\ 0 \notin DOMAIN workspace'.copy /\ Fresh(workspace')
      /\ workspace'.index = 0 /\ workspace'.edit = Junk
  BY ResetIs DEF CopyLost
<1> QED
  BY <1>1, <1>2, <1>3, NewCopyInv

\* What a refresh leaves: the copy it is given, with its plan.
LEMMA RefreshKeeps ==
  ASSUME NEW f, NEW w, IsWorkspace(w), Fresh(w), Refresh(f, w)
  PROVE  form' = f /\ IsWorkspace(workspace') /\ SameCopy(workspace', w) /\ Fresh(workspace')
<1>1. workspace' = Planned(w) \/ workspace' = w
  BY DEF Refresh
<1> QED
  BY <1>1, PlannedCopy DEF Refresh, SameCopy

\* A folder chosen while an item is edited leaves the copy alone; otherwise a new copy is
\* made of it, or of the playlist, if that can be read.
LEMMA ChooseFolderInv ==
  ASSUME PageInv, ChooseFolder
  PROVE  PageInv'
<1>1. PICK f \in {form} \union {[form EXCEPT !.games = folder] : folder \in DOMAIN GameFolders}
                       \union {[form EXCEPT !.images = folder] : folder \in DOMAIN ImageFolders} :
        \/ /\ Keeps(f, workspace.index = 0)
           /\ Refresh(f, workspace) /\ UNCHANGED <<panel, saved>>
        \/ /\ ~Keeps(f, workspace.index = 0) /\ ~Readable(f)
           /\ form' = f /\ UNCHANGED <<workspace, selection, online, panel, saved>>
        \/ /\ ~Keeps(f, workspace.index = 0) /\ Readable(f)
           /\ Refresh([f EXCEPT !.work = "copy"], Copied(f))
           /\ panel' = PanelAfterReset /\ saved' = EditsAfterCopy(f)
        \/ ~Keeps(f, workspace.index = 0) /\ Readable(f) /\ CopyLost(f)
  BY DEF ChooseFolder
<1>2. IsForm(f) /\ f.work = form.work /\ f.list = form.list
  BY <1>1 DEF PageInv, ShapeInv, IsForm
<1>3. editor' = editor /\ IsEditor(editor') /\ IsPanel(panel) /\ ConvertsWhatWasAsked
  BY DEF ChooseFolder, PageInv, ShapeInv
<1>4. IsWorkspace(workspace) /\ Fresh(workspace) /\ (f.work # "none" => f.list # NoText)
  BY <1>2 DEF PageInv, ShapeInv, PlanFresh, Fresh
<1>5. editor.open => Keeps(f, workspace.index = 0)
  BY <1>2 DEF PageInv, ShapeInv, EditorBacked, Keeps
<1>6. CASE Refresh(f, workspace) /\ UNCHANGED <<panel, saved>>
  <2>1. form' = f /\ IsWorkspace(workspace') /\ SameCopy(workspace', workspace) /\ Fresh(workspace')
    BY <1>4, <1>6, RefreshKeeps
  <2>2. ConvertsWhatWasAsked'
    BY <1>3, <1>6, <2>1, SamePanelInv DEF SameCopy
  <2> QED
    BY <1>2, <1>3, <1>4, <1>6, <2>1, <2>2, SameCopyInv
<1>7. CASE form' = f /\ UNCHANGED <<workspace, selection, online, panel, saved>>
  <2>1. ConvertsWhatWasAsked'
    BY <1>3, <1>7, SamePanelInv
  <2> QED
    BY <1>2, <1>3, <1>4, <1>7, <2>1, SameCopyInv DEF SameCopy
<1>8. CASE /\ ~Keeps(f, workspace.index = 0) /\ Readable(f)
           /\ Refresh([f EXCEPT !.work = "copy"], Copied(f))
           /\ panel' = PanelAfterReset /\ saved' = EditsAfterCopy(f)
  <2>1. IsWorkspace(Copied(f)) /\ Fresh(Copied(f)) /\ Copied(f).index = 0 /\ Copied(f).edit = Junk
    BY CopiedIs DEF IsWorkspace, Fresh
  <2>2. /\ form' = [f EXCEPT !.work = "copy"]
        /\ IsWorkspace(workspace') /\ SameCopy(workspace', Copied(f)) /\ Fresh(workspace')
    BY <1>8, <2>1, RefreshKeeps
  <2>3. IsForm(form') /\ form'.list = f.list /\ f.list # NoText
    BY <1>2, <1>8, <2>2 DEF IsForm, Readable
  <2>4. 0 \notin DOMAIN workspace'.copy /\ SavedInv'
    BY <1>8, <2>2, CopiedItems, CopySaved DEF SameCopy, PageInv
  <2>5. ~editor'.open
    BY <1>3, <1>5, <1>8
  <2>6. IsPanel(panel') /\ ConvertsWhatWasAsked'
    BY <1>3, <1>8, PanelResetInv
  <2> QED
    BY <1>3, <2>1, <2>2, <2>3, <2>4, <2>5, <2>6, NewCopyInv DEF SameCopy
<1>9. CASE ~Keeps(f, workspace.index = 0) /\ Readable(f) /\ CopyLost(f)
  BY <1>2, <1>3, <1>4, <1>5, <1>9, CopyLostInv
<1> QED
  BY <1>1, <1>6, <1>7, <1>8, <1>9

\* An item that is saved goes to the copy at the index it was taken from.
LEMMA SaveInv ==
  ASSUME PageInv, SaveLplEdit
  PROVE  PageInv'
<1> DEFINE i == workspace.index
<1>1. /\ form.work = "copy" /\ form.list # NoText /\ i \in DOMAIN workspace.copy
      /\ editor.game # NoFile
  BY DEF SaveLplEdit, PageInv, ShapeInv, EditorBacked
<1>2. /\ EditedItem.game = editor.game /\ EditedItem # Junk
      /\ EditedItem.title = NoText => editor.game[2] = NoText
  BY <1>1 DEF EditedItem, Junk
<1>3. /\ form' = form /\ editor' = editor /\ panel' = panel /\ editor.open
      /\ ConvertsWhatWasAsked
  BY DEF SaveLplEdit, PageInv
<1>4. PICK item : item = EditedItem
  OBVIOUS
<1>5. CASE workspace' = [workspace EXCEPT !.edit = item] /\ saved' = saved
  <2>1. workspace' = [source |-> workspace.source, games |-> workspace.games, images |-> workspace.images,
                      copy |-> workspace.copy, index |-> i, edit |-> item, plan |-> workspace.plan]
    BY <1>5 DEF PageInv, ShapeInv, IsWorkspace
  <2>2. ShapeInv'
    BY <1>3, <2>1 DEF PageInv, ShapeInv, IsWorkspace
  <2>3. EditorBacked' /\ PlanFresh'
    BY <1>1, <1>2, <1>3, <1>4, <2>1 DEF PageInv, EditorBacked, PlanFresh
  <2>4. SavedInv' /\ ConvertsWhatWasAsked'
    BY <1>3, <1>5, <2>1, SamePanelInv DEF PageInv, SavedInv
  <2> QED
    BY <1>3, <2>2, <2>3, <2>4 DEF PageInv
<1>6. CASE /\ workspace' = [workspace EXCEPT !.edit = item, !.copy[i] = item, !.plan = NoPlan]
           /\ saved' = [j \in DOMAIN saved \union {i} |-> IF j = i THEN item ELSE saved[j]]
  <2> DEFINE copy == [workspace.copy EXCEPT ![i] = item]
  <2>1. workspace' = [source |-> workspace.source, games |-> workspace.games, images |-> workspace.images,
                      copy |-> copy, index |-> i, edit |-> item, plan |-> NoPlan]
    BY <1>6 DEF PageInv, ShapeInv, IsWorkspace
  <2>2. DOMAIN copy = DOMAIN workspace.copy /\ copy[i] = item
        /\ \A j \in DOMAIN workspace.copy : j # i => copy[j] = workspace.copy[j]
    BY <1>1
  <2> HIDE DEF copy
  <2>3. ShapeInv'
    BY <1>3, <2>1, <2>2 DEF PageInv, ShapeInv, IsWorkspace
  <2>4. EditorBacked' /\ PlanFresh'
    BY <1>1, <1>2, <1>3, <1>4, <2>1, <2>2 DEF EditorBacked, PlanFresh
  <2>5. SavedInv'
    <3>1. \A j \in DOMAIN saved' :
            /\ j \in DOMAIN copy /\ copy[j].title = saved'[j].title
            /\ copy[j].game # NoFile /\ (copy[j].title = NoText => copy[j].game[2] = NoText)
      BY <1>1, <1>2, <1>4, <1>6, <2>2 DEF PageInv, SavedInv
    <3> QED
      BY <2>1, <3>1 DEF SavedInv
  <2>6. ConvertsWhatWasAsked'
    BY <1>3, <2>1, SamePanelInv
  <2> QED
    BY <1>3, <2>3, <2>4, <2>5, <2>6 DEF PageInv
<1> QED
  BY <1>4, <1>5, <1>6 DEF SaveLplEdit, MergedAt, PlanAfterSave

\* Conversion of a copy that is kept, of a new copy, or of none.
LEMMA ConvertLplInv ==
  ASSUME PageInv, ConvertLpl
  PROVE  PageInv'
<1>1. /\ ~editor.open /\ form.list # NoText /\ editor' = editor
      /\ IsForm(form) /\ IsEditor(editor') /\ IsPanel(panel) /\ workspace.index = 0
  BY DEF ConvertLpl, PageInv, ShapeInv, EditorBacked
<1>2. IsWorkspace(workspace) /\ Fresh(workspace)
  BY DEF PageInv, ShapeInv, PlanFresh, Fresh
<1>3. CASE /\ Keeps(form, FALSE) /\ workspace' = Planned(workspace)
           /\ OpenPanel /\ UNCHANGED <<form, selection, online, saved>>
  <2>1. IsWorkspace(workspace') /\ SameCopy(workspace', workspace) /\ Fresh(workspace')
    BY <1>2, <1>3, PlannedCopy
  <2>2. workspace.source = form.list /\ workspace.games = form.games /\ workspace.images = form.images
    BY <1>1, <1>3 DEF Keeps, SameFolders
  <2>3. IsPanel(panel') /\ panel'.pending = <<form.list, form.games, form.images>>
    BY <1>3 DEF OpenPanel, IsPanel
  <2>4. ConvertsWhatWasAsked'
    BY <1>3, <2>1, <2>2, <2>3 DEF ConvertsWhatWasAsked, SameCopy
  <2> QED
    BY <1>1, <1>3, <2>1, <2>3, <2>4, SameCopyInv
<1>4. CASE /\ Readable(form) /\ workspace' = Planned(Copied(form))
           /\ form' = [form EXCEPT !.work = "copy"] /\ saved' = EditsAfterCopy(form)
           /\ OpenPanel
  <2>1. /\ IsWorkspace(Copied(form)) /\ Fresh(Copied(form)) /\ Copied(form).index = 0
        /\ Copied(form).edit = Junk /\ Copied(form).source = form.list
        /\ Copied(form).games = form.games /\ Copied(form).images = form.images
    BY CopiedIs DEF IsWorkspace, Fresh
  <2>2. IsWorkspace(workspace') /\ SameCopy(workspace', Copied(form)) /\ Fresh(workspace')
    BY <1>4, <2>1, PlannedCopy
  <2>3. IsForm(form') /\ form'.list = form.list
    BY <1>1, <1>4 DEF IsForm
  <2>4. 0 \notin DOMAIN workspace'.copy /\ SavedInv'
    BY <1>4, <2>2, CopiedItems, CopySaved DEF SameCopy, PageInv
  <2>5. IsPanel(panel') /\ panel'.pending = <<form.list, form.games, form.images>>
    BY <1>4 DEF OpenPanel, IsPanel
  <2>6. ConvertsWhatWasAsked'
    BY <2>1, <2>2, <2>5 DEF ConvertsWhatWasAsked, SameCopy
  <2> QED
    BY <1>1, <2>1, <2>2, <2>3, <2>4, <2>5, <2>6, NewCopyInv DEF SameCopy
<1>5. CASE Readable(form) /\ CopyLost(form)
  BY <1>1, <1>5, CopyLostInv
<1> QED
  BY <1>3, <1>4, <1>5 DEF ConvertLpl

LEMMA PageStep ==
  ASSUME PageInv, [WorkspaceNext]_workspaceVars
  PROVE  PageInv'
<1>1. /\ IsForm(form) /\ IsEditor(editor) /\ IsPanel(panel) /\ IsWorkspace(workspace)
      /\ Fresh(workspace) /\ SameCopy(workspace, workspace) /\ (form.work # "none" => form.list # NoText)
      /\ ConvertsWhatWasAsked
  BY DEF PageInv, ShapeInv, PlanFresh, Fresh, SameCopy
<1>2. CASE TypeInForm
  <2>1. IsForm(form') /\ form'.work = form.work /\ (form'.work # "none" => form'.list # NoText)
    BY <1>1, <1>2, PlaylistItems DEF TypeInForm, IsForm
  <2>2. ConvertsWhatWasAsked'
    BY <1>1, <1>2, SamePanelInv DEF TypeInForm
  <2> QED
    BY <1>1, <1>2, <2>1, <2>2, SameCopyInv DEF TypeInForm
<1>3. ASSUME NEW path, SelectLplRom(path) PROVE PageInv'
  <2>1. workspace' = Planned(workspace) \/ workspace' = workspace
    BY <1>3 DEF SelectLplRom
  <2>2. IsWorkspace(workspace') /\ SameCopy(workspace', workspace) /\ Fresh(workspace')
    BY <1>1, <2>1, PlannedCopy
  <2>3. ConvertsWhatWasAsked'
    BY <1>1, <1>3, <2>2, SamePanelInv DEF SelectLplRom, SameCopy
  <2> QED
    BY <1>1, <1>3, <2>2, <2>3, SameCopyInv DEF SelectLplRom
<1>4. CASE BeginLplEdit
  <2> DEFINE i == selection.index
             item == workspace.copy[i]
  <2>1. /\ form.work = "copy" /\ i \in DOMAIN workspace.copy /\ item # Junk
        /\ form' = form /\ panel' = panel /\ saved' = saved
    BY <1>4 DEF BeginLplEdit
  <2>2. editor'.open /\ editor'.game = item.game /\ IsEditor(editor')
    BY <1>4 DEF BeginLplEdit, IsEditor
  <2>3. workspace' = [workspace EXCEPT !.index = i, !.edit = item]
    BY <1>4 DEF BeginLplEdit
  <2>4. /\ IsWorkspace(workspace') /\ workspace'.copy = workspace.copy /\ workspace'.index = i
        /\ workspace'.edit = item /\ workspace'.plan = workspace.plan
        /\ UNCHANGED <<workspace.source, workspace.games, workspace.images>>
    BY <1>1, <2>3 DEF IsWorkspace
  <2>5. ShapeInv'
    BY <2>1, <2>2, <2>4 DEF PageInv, ShapeInv
  <2>6. EditorBacked' /\ PlanFresh'
    BY <2>1, <2>2, <2>4 DEF PageInv, EditorBacked, PlanFresh
  <2>7. SavedInv' /\ ConvertsWhatWasAsked'
    BY <1>1, <2>1, <2>4, SamePanelInv DEF PageInv, SavedInv
  <2> QED
    BY <2>5, <2>6, <2>7 DEF PageInv
<1>5. ASSUME NEW cover, NEW title,
             editor' = [editor EXCEPT !.title = title, !.cover = cover] \/ editor' = [editor EXCEPT !.cover = cover],
             UNCHANGED <<form, workspace, panel, saved>>
      PROVE  PageInv'
  <2>1. IsEditor(editor') /\ editor'.open = editor.open /\ editor'.game = editor.game
    BY <1>1, <1>5 DEF IsEditor
  <2>2. ConvertsWhatWasAsked'
    BY <1>1, <1>5, SamePanelInv
  <2> QED
    BY <1>1, <1>5, <2>1, <2>2, SameCopyInv
<1>6. ASSUME NEW edit \in Edits, FillEditor(edit) PROVE PageInv'
  BY <1>5, <1>6 DEF FillEditor
<1>7. CASE StoreOnlineCover
  BY <1>5, <1>7 DEF StoreOnlineCover
<1>8. CASE ReturnFromLplEdit
  <2> PICK w : w = [workspace EXCEPT !.index = 0, !.edit = Junk]
    OBVIOUS
  <2>1. /\ IsWorkspace(w) /\ w.copy = workspace.copy /\ w.index = 0 /\ w.edit = Junk
        /\ w.plan = workspace.plan
        /\ w.source = workspace.source /\ w.games = workspace.games /\ w.images = workspace.images
    BY <1>1 DEF IsWorkspace
  <2>2. Fresh(w)
    BY <1>1, <2>1 DEF Fresh
  <2>3. Refresh(form, w)
    BY <1>8 DEF ReturnFromLplEdit
  <2>4. form' = form /\ IsWorkspace(workspace') /\ SameCopy(workspace', w) /\ Fresh(workspace')
    BY <2>1, <2>2, <2>3, RefreshKeeps
  <2>5. IsEditor(editor') /\ ~editor'.open
    BY <1>8 DEF ReturnFromLplEdit, ClosedEditor, IsEditor
  <2>6. /\ panel' = panel /\ ConvertsWhatWasAsked' /\ 0 \notin DOMAIN workspace'.copy
        /\ workspace'.copy = workspace.copy /\ workspace'.index = 0 /\ workspace'.edit = Junk
    BY <1>1, <1>8, <2>1, <2>4, SamePanelInv DEF ReturnFromLplEdit, SameCopy, PageInv, ShapeInv
  <2>7. SavedInv'
    BY <1>8, <2>6 DEF ReturnFromLplEdit, PageInv, SavedInv
  <2> QED
    BY <1>1, <2>4, <2>5, <2>6, <2>7, NewCopyInv
<1>9. ASSUME UNCHANGED <<form, workspace, editor, saved>>, IsPanel(panel'),
             panel'.pending \in {panel.pending, NoPending}
      PROVE  PageInv'
  <2>1. ConvertsWhatWasAsked'
    BY <1>1, <1>9, SamePanelInv
  <2> QED
    BY <1>1, <1>9, <2>1, SameCopyInv
<1>10. CASE StartScan
  <2>1. IsPanel(panel') /\ panel'.pending = panel.pending
    BY <1>1, <1>10 DEF StartScan, IsPanel
  <2> QED
    BY <1>9, <1>10, <2>1 DEF StartScan
<1>11. ASSUME panel' = ClosedPanel PROVE IsPanel(panel') /\ panel'.pending = NoPending
  BY <1>11 DEF ClosedPanel, IsPanel
<1>12. CASE ScanEnds
  <2>1. \/ \E n : panel' = [panel EXCEPT !.scanning = FALSE, !.stage = n]
        \/ panel' = ClosedPanel
    BY <1>12 DEF ScanEnds
  <2>2. CASE \E n : panel' = [panel EXCEPT !.scanning = FALSE, !.stage = n]
    <3>1. IsPanel(panel') /\ panel'.pending = panel.pending
      BY <1>1, <2>2 DEF IsPanel
    <3> QED
      BY <1>9, <1>12, <3>1 DEF ScanEnds
  <2> QED
    BY <1>9, <1>11, <1>12, <2>1, <2>2 DEF ScanEnds
<1>13. CASE ClosePanel
  <2>1. CASE panel' = [panel EXCEPT !.pending = NoPending]
    <3>1. IsPanel(panel') /\ panel'.pending = NoPending
      BY <1>1, <2>1 DEF IsPanel
    <3> QED
      BY <1>9, <1>13, <3>1 DEF ClosePanel
  <2> QED
    BY <1>9, <1>11, <1>13, <2>1 DEF ClosePanel
<1>14. CASE UNCHANGED workspaceVars
  BY <1>1, <1>9, <1>14 DEF workspaceVars
<1> QED
  BY <1>2, <1>3, <1>4, <1>6, <1>7, <1>8, <1>10, <1>12, <1>13, <1>14,
     ChooseLplInv, ChooseFolderInv, SaveInv, ConvertLplInv DEF WorkspaceNext

LEMMA PageAlways == WorkspaceSpec => []PageInv
BY PageInit, PageStep, PTL DEF WorkspaceSpec

\* While the game page shows an item of the playlist, the item can be saved (save_lpl_edit):
\* whatever playlist, folder and item was chosen before or meanwhile.
THEOREM EditorAlwaysBacked == WorkspaceSpec => []EditorBacked
<1>1. PageInv => EditorBacked
  BY DEF PageInv
<1> QED
  BY <1>1, PageAlways, PTL

\* "Once an item has been saved, reusing the current temporary LPL keeps those edits"
\* (main.rs:2458), of the titles: for any playlists, folders, edits and number of copies.
THEOREM SavedTitlesAlwaysKept == WorkspaceSpec => []SavedTitlesKept
<1>1. PageInv => SavedTitlesKept
  BY DEF PageInv, SavedInv, SavedTitlesKept
<1> QED
  BY <1>1, PageAlways, PTL

\* The cached plan (cached_lpl_plan) is never the plan of a copy that has been changed.
THEOREM PlanAlwaysFresh == WorkspaceSpec => []PlanFresh
<1>1. PageInv => PlanFresh
  BY DEF PageInv
<1> QED
  BY <1>1, PageAlways, PTL

\* A pending conversion (begin_preflight, start_pending_conversion) is of the copy that is
\* there, and of the playlist and folders the form showed when Convert was clicked: for
\* whatever is typed, chosen, edited or converted while the panel is open.
THEOREM AlwaysConvertsWhatWasAsked == WorkspaceSpec => []ConvertsWhatWasAsked
<1>1. PageInv => ConvertsWhatWasAsked
  BY DEF PageInv
<1> QED
  BY <1>1, PageAlways, PTL
=============================================================================
