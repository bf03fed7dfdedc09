---------------------------- MODULE MCComponents ----------------------------
(***************************************************************************)
(* The components that share no state are checked in one run: the first    *)
(* state picks one of them, the others stay in an initial state.           *)
(***************************************************************************)
EXTENDS ExportLpl, LibromxCalls, WriteEntries, PngCover, Registry, MutableCapacity,
        MCPlaylistWorkspace, CoverPreview, MCGameForm, CommitStaged

CONSTANTS t1, c1, c2, c3

VARIABLE part

(* ExportLpl: two games of one name or of two, covers, saves of one and two files, and
   files that are there before. *)
Save(object, entry) == [object |-> object, entry |-> entry]
MCExports ==
  { <<[base |-> "a", cover |-> TRUE, saves |-> <<>>],
      [base |-> "a", cover |-> TRUE, saves |-> <<Save(1, 1), Save(1, 2)>>]>>,
    <<[base |-> "a", cover |-> TRUE, saves |-> <<>>], [base |-> "b", cover |-> TRUE, saves |-> <<>>]>>,
    <<[base |-> "a", cover |-> FALSE, saves |-> <<Save(1, 1), Save(2, 1)>>],
      [base |-> "a", cover |-> TRUE, saves |-> <<>>]>> }
MCOld == {Path("rom", <<>>, <<"a">>), Playlist}
ExportIdle == games = (CHOOSE e \in Exports : TRUE) /\ files = <<>> /\ mode = "Ask"

(* WriteEntries: sets of files with every kind of fault in one argument at a time. *)
Entry(letterCase, letters, entrypoint) ==
  [path |-> <<letterCase, letters>>, format |-> "bin", regular |-> TRUE, entrypoint |-> entrypoint]
Plain1 == <<Entry(1, 1, TRUE)>>
Sets ==
  { <<>>, Plain1, <<Entry(1, 1, FALSE)>>,
    <<Entry(1, 2, FALSE), Entry(1, 1, TRUE)>>,
    <<Entry(1, 2, TRUE), Entry(1, 1, FALSE), Entry(2, 3, FALSE)>>,
    <<Entry(1, 1, TRUE), Entry(2, 1, FALSE)>>,
    <<Entry(1, 1, TRUE), Entry(1, 2, TRUE)>>,
    <<[Entry(1, 1, TRUE) EXCEPT !.format = "unknown"]>>,
    <<[Entry(1, 1, TRUE) EXCEPT !.regular = FALSE]>> }
PlainRequest ==
  [entries |-> Plain1, metadata |-> "none", override |-> "none", cover |-> "none", temporary |-> FALSE,
   replace |-> TRUE, region |-> FALSE, saves |-> 0, capacity |-> 1, validate |-> TRUE]
MCRequests ==
  {[PlainRequest EXCEPT !.entries = e] : e \in Sets}
  \union {[PlainRequest EXCEPT !.metadata = m, !.override = o, !.cover = c] :
            m \in {"none", "valid", "bad"}, o \in {"none", "bad"}, c \in {"none", "png", "bad"}}
  \union {[PlainRequest EXCEPT !.metadata = "valid", !.cover = "png", !.temporary = t, !.replace = r,
                               !.region = g, !.saves = s, !.capacity = c, !.validate = v] :
            t, r, g, v \in BOOLEAN, s \in {0, 2}, c \in {0, 1}}
WriteIdle == request = PlainRequest /\ output = Nothing

(* Registry: every extension that no platform is picked for, and some with every platform. *)
RegistryIdle == picked = [platform |-> "none", ext |-> "gb", cgb |-> FALSE, set |-> FALSE]
SomeExtensions == {"gb", "gba", "smc", "chd", "cue", "32x", "wbfs", "unf", "pcm"}
RegistrySmall == picked.platform # "none" => picked.ext \in SomeExtensions

(* CoverPreview: covers of every kind, one that cannot be decoded, a cache of one. *)
MCArt ==
  [ a |-> [kind |-> "file", picture |-> "p"], b |-> [kind |-> "embedded", picture |-> "q"],
    c |-> [kind |-> "none", picture |-> NoImage], d |-> [kind |-> "file", picture |-> "r"] ]

CommitIdle == file = [t \in Targets |-> Absent]

Parts == {"export", "calls", "write", "png", "registry", "capacity", "workspace", "preview", "form",
          "commit"}

ComponentsInit ==
  /\ part \in Parts
  /\ ExportInit /\ (part # "export" => ExportIdle)
  /\ WriteInit /\ (part # "write" => WriteIdle)
  /\ RegistryInit /\ (IF part = "registry" THEN RegistrySmall ELSE RegistryIdle)
  /\ Init /\ (part # "commit" => CommitIdle)
  /\ CallsInit /\ PngInit /\ CapacityInit /\ WorkspaceInit /\ PreviewInit /\ FormInit

\* The variables of every component but one.
Others(p) ==
  /\ UNCHANGED part
  /\ IF p = "export" THEN TRUE ELSE UNCHANGED exportVars
  /\ IF p = "calls" THEN TRUE ELSE UNCHANGED callVars
  /\ IF p = "write" THEN TRUE ELSE UNCHANGED writeVars
  /\ IF p = "png" THEN TRUE ELSE UNCHANGED pngVars
  /\ IF p = "registry" THEN TRUE ELSE UNCHANGED registryVars
  /\ IF p = "capacity" THEN TRUE ELSE UNCHANGED capacityVars
  /\ IF p = "workspace" THEN TRUE ELSE UNCHANGED workspaceVars
  /\ IF p = "preview" THEN TRUE ELSE UNCHANGED previewVars
  /\ IF p = "form" THEN TRUE ELSE UNCHANGED formVars
  /\ IF p = "commit" THEN TRUE ELSE UNCHANGED vars

ComponentsNext ==
  \/ part = "export" /\ ExportNext /\ Others("export")
  \/ part = "calls" /\ CallsNext /\ Others("calls")
  \/ part = "write" /\ WriteNext /\ Others("write")
  \/ part = "png" /\ PngNext /\ Others("png")
  \/ part = "registry" /\ RegistryNext /\ Others("registry")
  \/ part = "capacity" /\ CapacityNext /\ Others("capacity")
  \/ part = "workspace" /\ WorkspaceNext /\ Others("workspace")
  \/ part = "preview" /\ PreviewNext /\ Others("preview")
  \/ part = "form" /\ FormNext /\ Others("form")
  \/ part = "commit" /\ Next /\ Others("commit")

componentsVars == <<part, exportVars, callVars, writeVars, pngVars, registryVars, capacityVars,
                    workspaceVars, previewVars, formVars, vars>>

\* ExportFairness and CallsFairness of the component that was picked.
ComponentsFairness ==
  /\ WF_exportVars(part = "export" /\ Work /\ (ExportAt("error") => cancelled))
  /\ WF_callVars(part = "calls" /\ CallsStep)

ComponentsSpec == ComponentsInit /\ [][ComponentsNext]_componentsVars /\ ComponentsFairness
=============================================================================
