------------------------------ MODULE Registry ------------------------------
(***************************************************************************)
(* The registry of formats and platforms (lib.rs), the tables that guess a *)
(* platform (main.rs, lpl.rs, writer.rs), and the way a platform takes     *)
(* through them: from the pack page into a container's footer, back onto   *)
(* the page, and into the next container.  A file name is its extension, a *)
(* playlist's or database's name the marker in it.                         *)
(***************************************************************************)
EXTENDS Naturals, Sequences

CONSTANT MaxPacks  \* bound: how often a game is packed, loaded and packed again

VARIABLES
  picked,    \* what the user chose on the page: [platform, ext, cgb, set]; of a container
             \* that was loaded, its entrypoint, and it is no set (payload_entries)
  page,      \* the platform the page shows
  container, \* the footer of the container: none, or [platform, format, launch]
  packs      \* how often it was packed

registryVars == <<picked, page, container, packs>>

------------------------------------------------------------------------------
(* Tables: from names to ids a record; from ids to names one row for each value of the
   upper half of an id, in which the lower half counts.  "none" is a name that is not
   given, or that the code has not got (None, or an empty string). *)

IdOf(table, name) == IF name \in DOMAIN table THEN table[name] ELSE 0

NameAt(rows, id) ==
  LET row == rows[(id \div 16) + 1] IN IF id % 16 < Len(row) THEN row[(id % 16) + 1] ELSE "none"

FormatIds == [
  gb |-> 1, gbc |-> 2, gba |-> 3, nes |-> 4, unf |-> 5, unif |-> 6, fds |-> 7, sfc |-> 8, smc |-> 9, nds |-> 10,
  3ds |-> 11, cci |-> 12, cxi |-> 13, app |-> 14, iso |-> 16, cso |-> 17, zso |-> 18, chd |-> 19, pbp |-> 20,
  cdi |-> 21, gcm |-> 22, wbfs |-> 23, rvz |-> 24, wia |-> 25, wad |-> 26, cue |-> 32, gdi |-> 33, m3u |-> 34,
  ccd |-> 35, mds |-> 36, toc |-> 37, bin |-> 48, wav |-> 49, flac |-> 50, img |-> 51, mdf |-> 52, sbi |-> 64,
  sub |-> 65, ecm |-> 66, z64 |-> 80, n64 |-> 81, v64 |-> 82, md |-> 96, gen |-> 97, smd |-> 98, 32x |-> 99,
  sms |-> 100, gg |-> 101, pce |-> 102, elf |-> 112, prx |-> 113, msu |-> 128, pcm |-> 129, zip |-> 145 ]

\* Defect: the second disc block starts one too early.
FormatId_Shifted(ext) ==
  IF IdOf(FormatIds, ext) \in 22..26 THEN IdOf(FormatIds, ext) - 1 ELSE IdOf(FormatIds, ext)

\* format_id_for_extension.
FormatId(ext) == IdOf(FormatIds, ext)

FormatNames == <<
  <<"none", "gb", "gbc", "gba", "nes", "unf", "unif", "fds", "sfc", "smc", "nds", "3ds", "cci", "cxi", "app">>,
  <<"iso", "cso", "zso", "chd", "pbp", "cdi", "gcm", "wbfs", "rvz", "wia", "wad">>,
  <<"cue", "gdi", "m3u", "ccd", "mds", "toc">>, <<"bin", "wav", "flac", "img", "mdf">>,
  <<"sbi", "sub", "ecm">>, <<"z64", "n64", "v64">>, <<"md", "gen", "smd", "32x", "sms", "gg", "pce">>,
  <<"elf", "prx">>, <<"msu", "pcm">>, <<"none", "zip">> >>

\* format_extension.
FormatExtension(id) == NameAt(FormatNames, id)

\* SUPPORTED_FORMAT_EXTENSIONS: what the dialogs and the planner accept.
SupportedExtensions ==
  {"gb", "gbc", "gba", "nes", "unf", "unif", "fds", "sfc", "smc", "nds", "3ds", "cci", "cxi",
   "app", "iso", "cso", "zso", "chd", "pbp", "cdi", "gcm", "wbfs", "rvz", "wia", "wad", "cue",
   "gdi", "m3u", "ccd", "mds", "toc", "bin", "wav", "flac", "img", "mdf", "sbi", "sub", "ecm",
   "z64", "n64", "v64", "md", "gen", "smd", "32x", "sms", "gg", "pce", "elf", "prx", "msu", "pcm", "zip"}

PlatformIds == [
  gb |-> 1, gbc |-> 2, gba |-> 3, nes |-> 4, snes |-> 5, n64 |-> 6, nds |-> 7, 3ds |-> 8, sms |-> 16, gg |-> 17,
  genesis |-> 18, md |-> 18, mega_drive_32x |-> 19, 32x |-> 19, sega_cd |-> 20, saturn |-> 21, dreamcast |-> 22,
  pce |-> 32, pc_engine |-> 32, pc_engine_cd |-> 33, ps1 |-> 48, playstation |-> 48, ps2 |-> 49, psp |-> 50,
  gamecube |-> 64, wii |-> 65, arcade |-> 80, scummvm |-> 96, dos |-> 97, amiga |-> 98 ]

\* platform_id_for_name; zero is "not registered".
PlatformId(name) == IdOf(PlatformIds, name)

PlatformNames == <<
  <<"none", "gb", "gbc", "gba", "nes", "snes", "n64", "nds", "3ds">>,
  <<"sms", "gg", "genesis", "mega_drive_32x", "sega_cd", "saturn", "dreamcast">>,
  <<"pce", "pc_engine_cd">>, <<"playstation", "ps2", "psp">>, <<"gamecube", "wii">>,
  <<"arcade">>, <<"scummvm", "dos", "amiga">> >>

\* platform_name_from_id, one name for each id.
PlatformName(id) == NameAt(PlatformNames, id)

Descriptors == [cue |-> 2, gdi |-> 3, m3u |-> 4, ccd |-> 5, mds |-> 6, toc |-> 7]

\* launch_format_id_for_extension: 1 is a raw payload, the others are descriptors.
LaunchFormat(ext) == IF ext \in DOMAIN Descriptors THEN Descriptors[ext] ELSE 1

------------------------------------------------------------------------------
(* Guesses: sets of extensions for a platform. *)

Discs == {"iso", "cso", "zso", "chd", "cdi", "cue", "ccd", "mds", "toc", "img", "mdf", "sbi", "sub", "ecm"}
Common(ext) ==
  CASE ext \in {"gb", "gbc", "gba", "nes", "nds", "sms", "gg", "pce"} -> ext
    [] ext \in {"sfc", "smc"} -> "snes"
    [] ext \in {"3ds", "cci", "cxi", "app"} -> "3ds"
    [] ext \in {"md", "gen", "smd"} -> "genesis"
    [] ext = "prx" -> "psp"
    [] ext = "zip" -> "arcade"
    [] ext \in Discs -> "playstation"
    [] OTHER -> "?"

\* What main.rs and lpl.rs have in common.
Shared(ext, other) ==
  CASE ext \in {"unf", "unif", "fds"} -> "nes"
    [] ext \in {"z64", "n64", "v64"} -> "n64"
    [] ext = "bin" -> "genesis"
    [] ext \in {"pbp", "wav", "flac"} -> "playstation"
    [] ext = "gcm" -> "gamecube"
    [] ext \in {"wbfs", "rvz", "wia", "wad"} -> "wii"
    [] ext = "elf" -> "arcade"
    [] ext \in {"msu", "pcm"} -> "snes"
    [] Common(ext) # "?" -> Common(ext)
    [] OTHER -> other

\* platform_for_path, of the page.
PlatformForPath(ext) == Shared(ext, "gba")

\* platform_for, of the planner: Game Boy formats, the playlist's name, the format.
PlatformFor(ext, playlist) ==
  IF ext \in {"gb", "gbc"} THEN ext ELSE IF playlist # "none" THEN playlist ELSE Shared(ext, "gb")

\* infer_platform_id, of the writer, which falls back to id 1.
InferPlatformId(ext) ==
  LET name == CASE ext \in {"unf", "unif", "fds", "z64", "n64", "v64", "wav", "flac", "elf", "msu", "pcm"} -> "arcade"
                [] ext = "32x" -> "genesis"
                [] ext \in {"pbp", "prx"} -> "psp"
                [] ext \in {"gcm", "wbfs", "rvz", "wia", "wad"} -> "gamecube"
                [] ext \in {"gdi", "m3u", "bin"} -> "playstation"
                [] OTHER -> Common(ext)
  IN IF PlatformId(name) = 0 THEN 1 ELSE PlatformId(name)

\* supported_platform of lpl.rs.
LplPlatforms ==
  {"gb", "gbc", "gba", "nes", "snes", "n64", "nds", "3ds", "genesis", "sms", "gg", "pce",
   "playstation", "ps2", "psp", "gamecube", "wii", "arcade", "scummvm", "dos", "amiga"}

\* supported_platform of main.rs.
PagePlatforms ==
  LplPlatforms \union {"ps1", "fds", "gamegear", "genesis32x", "pcecd", "segacd", "mega_drive_32x",
                       "sega_cd", "pc_engine_cd", "saturn", "dreamcast"}

\* The platforms whose markers platform_from_database_name and platform_for look for.
Markers == {"gba", "gbc", "gb", "nds", "3ds", "snes", "nes", "genesis"}

\* Defect: a playlist's database counts for more than the item's own platform.
LplPlatform_DatabaseFirst(platform, database, ext, playlist) ==
  IF database # "none" THEN database
  ELSE IF platform \in LplPlatforms THEN platform ELSE PlatformFor(ext, playlist)

\* lpl_platform: the item's own, its database's, or the guess.
LplPlatform(platform, database, ext, playlist) ==
  IF platform \in LplPlatforms THEN platform
  ELSE IF database # "none" THEN database ELSE PlatformFor(ext, playlist)

\* classify_gb_payload: the CGB-only flag decides, else the extension.
ClassifyGb(ext, cgb) == IF ext \in {"gb", "gbc"} /\ cgb THEN "gbc" ELSE ext

------------------------------------------------------------------------------
(* A platform's way. *)

None == [platform |-> 0, format |-> 0, launch |-> 0]

RegistryInit ==
  /\ \E platform \in PagePlatforms \union {"none"}, ext \in SupportedExtensions, cgb, set \in BOOLEAN :
       /\ cgb => ext \in {"gb", "gbc"}
       /\ picked = [platform |-> platform, ext |-> ext, cgb |-> cgb, set |-> set]
       /\ page = platform
  /\ container = None /\ packs = 0

\* What the page hands on: its platform if it knows it, else the guess.
PagePlatform == IF page \in PagePlatforms THEN page ELSE PlatformForPath(picked.ext)

\* Writer: an id that is not given, or not registered, is inferred.
Footer(id, format) ==
  [platform |-> IF id # 0 THEN id ELSE InferPlatformId(picked.ext),
   format |-> FormatId(format), launch |-> LaunchFormat(format)]

\* convert_pack_set: several files that were chosen, whose platform is the page's.
PackSetFooter ==
  /\ picked.set /\ packs < MaxPacks /\ container = None
  /\ container' = Footer(PlatformId(PagePlatform), picked.ext)
  /\ packs' = packs + 1
  /\ UNCHANGED <<picked, page>>

\* convert_single: one file, or the entrypoint of a container that was loaded, which is
\* extracted under its own name, goes through a playlist of its own, which has no database
\* and whose name has no marker; the planner classifies what it finds there.
PackSingleFooter ==
  /\ ~picked.set /\ packs < MaxPacks /\ container = None
  /\ LET format == ClassifyGb(picked.ext, picked.cgb) IN
     container' = Footer(PlatformId(LplPlatform(PagePlatform, "none", format, "none")), format)
  /\ packs' = packs + 1
  /\ UNCHANGED <<picked, page>>

\* plan_lpl_import: an item of a playlist names its platform, or its database does.
PackItemFooter ==
  /\ ~picked.set /\ packs = 0
  /\ \E database, playlist \in Markers \union {"none"} :
       LET format == ClassifyGb(picked.ext, picked.cgb) IN
       container' = Footer(PlatformId(LplPlatform(picked.platform, database, format, playlist)), format)
  /\ packs' = 1
  /\ UNCHANGED <<picked, page>>

\* choose_rom: a container's platform is shown on the page, which packs it again.  No
\* payload entries are kept of it: whatever was packed as a set is a single file now.
LoadFooter ==
  /\ container # None /\ packs < MaxPacks
  /\ page' = IF PlatformName(container.platform) # "none" THEN PlatformName(container.platform)
             ELSE PlatformForPath("romx")
  /\ container' = None
  /\ picked' = [picked EXCEPT !.set = FALSE]
  /\ UNCHANGED packs

RegistryNext == PackSetFooter \/ PackSingleFooter \/ PackItemFooter \/ LoadFooter
RegistrySpec == RegistryInit /\ [][RegistryNext]_registryVars

------------------------------------------------------------------------------
(* Properties. *)

\* The tables of four files agree: whatever was picked or guessed, a footer's platform
\* and format are registered, its format is the one that was packed, and it is launched
\* through a descriptor exactly if it is one.  What a set's entrypoint is called is kept
\* when the set is packed; once it was loaded it is classified like any single file.
FootersReadable ==
  container # None =>
    /\ PlatformName(container.platform) # "none"
    /\ FormatExtension(container.format) = ClassifyGb(picked.ext, picked.cgb /\ ~picked.set)
    /\ container.launch # 1 <=> picked.ext \in DOMAIN Descriptors

\* The platform that was picked is the one that is stored, however often the container
\* is loaded and packed again, under any of its names.  The planner's own list is
\* shorter than the page's and the registry's: what it does not know (Saturn, Dreamcast,
\* Sega CD, PC Engine CD, 32X, and the name ps1) survives in a set of files when that is
\* packed, and in none that was loaded: a set of Saturn's becomes PlayStation's there.
PlatformKept ==
  container # None /\ PlatformId(picked.platform) # 0 =>
    \/ container.platform = PlatformId(picked.platform)
    \/ ~picked.set /\ PlatformName(PlatformId(picked.platform)) \notin LplPlatforms
    \/ ~picked.set /\ picked.platform \notin LplPlatforms
=============================================================================
