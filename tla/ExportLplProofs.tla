-------------------------- MODULE ExportLplProofs ---------------------------
(***************************************************************************)
(* Theorems about ExportLpl, for every list of games, every set of files   *)
(* that are there before and every series of answers: what the user did    *)
(* not agree to replace stays, no staged file outlives the export, the     *)
(* playlist's items lead to their games' ROMs and covers, and every game   *)
(* is listed or counted as skipped.                                        *)
(***************************************************************************)
EXTENDS ExportLpl, SequenceTheorems, TLAPS

------------------------------------------------------------------------------
(* Consent. *)

\* The mode replaces unasked only once the user said so for everything.
ConsentInv == mode = "Replace" => Everything \in consent

\* What one step may do to the files that are there, whoever wrote them.
Kept == \A p \in DOMAIN files :
          (p \in DOMAIN files' /\ files'[p] = files[p]) \/ Consented(p)'

\* A commit puts one of CommitOutcomes at its target: the game's output when it succeeds.
LEMMA CommitPuts ==
  ASSUME NEW target, CommitTo(target)
  PROVE  \E left \in {Held(target), game, Absent, Torn} :
           /\ files' = Put(target, left)
           /\ (Committed(target) /\ left = game) \/ NotCommitted(target, left)
<1>1. PICK outcome \in CommitOutcomes(Held(target), game, FALSE) :
        \/ outcome.ok /\ Committed(target)
        \/ ~outcome.ok /\ mode # "Direct" /\ NotCommitted(target, outcome.left)
  BY DEF CommitTo
<1>2. /\ outcome.left \in {Held(target), game, Absent, Torn}
      /\ outcome.ok => outcome.left = game
  BY DEF CommitOutcomes
<1> QED
  BY <1>1, <1>2 DEF Committed, NotCommitted

\* A commit touches its target alone.
LEMMA CommitTouchesTarget ==
  ASSUME NEW target, CommitTo(target), NEW p \in DOMAIN files
  PROVE  p = target \/ (p \in DOMAIN files' /\ files'[p] = files[p])
<1>1. PICK left : files' = Put(target, left)
  BY CommitPuts
<1> QED
  BY <1>1 DEF Put

LEMMA CommitKeeps ==
  ASSUME NEW target, CommitTo(target), ~Taken(target) \/ Consented(target)'
  PROVE  Kept
<1> SUFFICES ASSUME NEW p \in DOMAIN files
             PROVE  (p \in DOMAIN files' /\ files'[p] = files[p]) \/ Consented(p)'
  BY DEF Kept
<1>1. p = target \/ (p \in DOMAIN files' /\ files'[p] = files[p])
  BY CommitTouchesTarget
<1>2. CASE p = target
  BY <1>2 DEF Taken
<1> QED
  BY <1>1, <1>2

\* Where an output goes once its destination is taken, if Replace comes with consent.
LEMMA SettleKeeps ==
  ASSUME NEW choice, Settle(choice), NEW d, d = Destination, choice = "Replace" => Consented(d)'
  PROVE  Kept
<1>1. CASE choice = "Skip" /\ Skipped
  BY <1>1 DEF Skipped, Kept
<1>2. CASE choice = "Replace" /\ CommitTo(d)
  BY <1>2, CommitKeeps
<1>3. CASE \E q \in Renamed(d) : CommitTo(q)
  <2>1. PICK q \in Renamed(d) : CommitTo(q)
    BY <1>3
  <2>2. ~Taken(q)
    BY <2>1, Zenon DEF Renamed
  <2> QED
    BY <2>1, <2>2, CommitKeeps
<1>4. \/ choice = "Skip" /\ Skipped
      \/ choice = "Replace" /\ CommitTo(d)
      \/ \E q \in Renamed(d) : CommitTo(q)
  BY Zenon DEF Settle
<1> QED
  BY <1>1, <1>2, <1>3, <1>4

LEMMA ConsentStep ==
  ASSUME ConsentInv, [ExportNext]_exportVars
  PROVE  ConsentInv' /\ Kept
<1>1. CASE files' = files /\ mode' = mode /\ consent' = consent
  <2>1. ConsentInv'
    BY <1>1 DEF ConsentInv
  <2>2. Kept
    BY <1>1 DEF Kept
  <2> QED
    BY <2>1, <2>2
<1>2. CASE Resolve
  <2>1. PICK d : d = Destination
    OBVIOUS
  <2>2. mode' = mode /\ consent' = consent
    BY <1>2 DEF Resolve
  <2> SUFFICES Kept
    BY <2>2 DEF ConsentInv
  <2>3. CASE ~Taken(d) /\ CommitTo(d)
    BY <2>3, CommitKeeps
  <2>4. CASE mode = "Direct" /\ CommitTo(d)
    <3>1. Consented(d)'
      BY <2>2, <2>4 DEF Consented
    <3> QED
      BY <2>4, <3>1, CommitKeeps
  <2>5. CASE Settle(mode)
    <3>1. mode = "Replace" => Consented(d)'
      BY <2>2 DEF ConsentInv, Consented
    <3> QED
      BY <2>1, <2>5, <3>1, SettleKeeps
  <2>6. CASE files' = files
    BY <2>6 DEF Kept
  <2>7. \/ ~Taken(d) /\ CommitTo(d)
        \/ mode = "Direct" /\ CommitTo(d)
        \/ Settle(mode)
        \/ files' = files
    BY <1>2, <2>1, Zenon DEF Resolve
  <2> QED
    BY <2>3, <2>4, <2>5, <2>6, <2>7
<1>3. CASE AskAnswered
  <2>1. PICK d : d = Destination
    OBVIOUS
  <2>2. PICK choice \in {"Skip", "Rename", "Replace"}, all \in BOOLEAN :
          /\ Settle(choice)
          /\ mode' = ModeAfter(choice, all)
          /\ consent' = consent \union
               (IF choice = "Replace" THEN {IF all THEN Everything ELSE Destination} ELSE {})
    BY <1>3, Zenon DEF AskAnswered
  <2>3. choice = "Replace" => (IF all THEN Everything ELSE d) \in consent'
    BY <2>1, <2>2
  <2>4. choice = "Replace" => Consented(d)'
    BY <2>3 DEF Consented, Everything, Path
  <2>5. Kept
    BY <2>1, <2>2, <2>4, SettleKeeps
  <2>6. ConsentInv'
    <3>1. consent \subseteq consent'
      BY <2>2
    <3>2. CASE all
      BY <2>2, <2>3, <3>2 DEF ConsentInv, ModeAfter, Everything, Path
    <3>3. CASE ~all
      BY <2>2, <3>1, <3>3 DEF ConsentInv, ModeAfter, Everything, Path
    <3> QED
      BY <3>2, <3>3
  <2> QED
    BY <2>5, <2>6
<1>4. CASE NextGame \/ StageOutput \/ ListGame \/ GiveUp \/ AskCancelled \/ AskDropped \/ FinishExport
           \/ Cancel \/ UNCHANGED exportVars
  BY <1>1, <1>4, Zenon DEF exportVars, NextGame, StageOutput, ListGame, GiveUp, AskCancelled, AskDropped,
     AskAbandoned, FinishExport, Cancel, input, history, tally
<1> QED
  BY <1>2, <1>3, <1>4 DEF ExportNext, Work

\* A file that was there before an export (export_lpl_with_output_handling) is overwritten,
\* or lost by a commit that fails, only if the user said so for it or for all outputs, or
\* if the command line's default callback runs: in every step of every export.
THEOREM NothingOverwrittenUnasked == ExportSpec => OldFilesKept
<1>1. ExportInit => ConsentInv
  BY DEF ExportInit, ConsentInv
<1>2. ConsentInv /\ [ExportNext]_exportVars => ConsentInv' /\ Kept
  BY ConsentStep
<1>3. Kept => \A p \in DOMAIN files : files[p] = Earlier =>
                (p \in DOMAIN files' /\ files'[p] = Earlier) \/ Consented(p)'
  BY DEF Kept
<1> QED
  BY <1>1, <1>2, <1>3, PTL DEF ExportSpec, OldFilesKept

------------------------------------------------------------------------------
(* Staged files. *)

\* A `.tmp` is there only while its destination is looked for.
StagedInv == stagedOutput => ExportAt("output") \/ ExportAt("ask")

\* A commit leaves no staged file, whether it succeeds or not.
LEMMA CommitUnstages ==
  ASSUME NEW target, CommitTo(target)
  PROVE  stagedOutput' = FALSE
BY CommitPuts DEF Committed, NotCommitted, LeavesStaged

LEMMA SettleUnstages ==
  ASSUME NEW choice, Settle(choice)
  PROVE  stagedOutput' = FALSE
BY CommitUnstages, Zenon DEF Settle, Skipped

LEMMA StagedStep ==
  ASSUME StagedInv, [ExportNext]_exportVars
  PROVE  StagedInv'
<1>1. CASE stagedOutput' = FALSE
  BY <1>1 DEF StagedInv
<1>2. CASE exporter' \in {"output", "ask"}
  BY <1>2 DEF StagedInv, ExportAt
<1>3. CASE stagedOutput' = stagedOutput /\ exporter' = exporter
  BY <1>3 DEF StagedInv, ExportAt
<1>4. CASE stagedOutput' = stagedOutput /\ exporter \notin {"output", "ask"}
  BY <1>4 DEF StagedInv, ExportAt
<1>5. CASE Resolve
  <2>1. \/ \E target : CommitTo(target)
        \/ Settle(mode)
        \/ ExportGoto("ask")
    BY <1>5, Zenon DEF Resolve
  <2>2. stagedOutput' = FALSE \/ exporter' = "ask"
    BY <2>1, CommitUnstages, SettleUnstages DEF ExportGoto
  <2> QED
    BY <1>1, <1>2, <2>2
<1>6. CASE AskAnswered
  <2>1. stagedOutput' = FALSE
    BY <1>6, SettleUnstages, Zenon DEF AskAnswered
  <2> QED
    BY <1>1, <2>1
<1>7. CASE StageOutput
  BY <1>2, <1>4, <1>7 DEF StageOutput, ExportAt, ExportGoto, End
<1>8. CASE AskCancelled \/ AskDropped
  BY <1>1, <1>8 DEF AskCancelled, AskDropped, AskAbandoned
<1>9. CASE NextGame \/ ListGame \/ GiveUp \/ FinishExport
  <2>1. stagedOutput' = stagedOutput /\ exporter \in {"game", "stage", "error", "finish"}
    BY <1>9, Zenon DEF NextGame, ListGame, GiveUp, FinishExport, ExportAt
  <2> QED
    BY <1>4, <2>1
<1>10. CASE Cancel \/ UNCHANGED exportVars
  BY <1>3, <1>10, Zenon DEF Cancel, exportVars
<1> QED
  BY <1>5, <1>6, <1>7, <1>8, <1>9, <1>10 DEF ExportNext, Work

\* No `.tmp` of an export outlives it or is carried to the next game, in whichever way
\* its outputs were settled, failed or were cancelled.
THEOREM ExportLeavesNothingStaged == ExportSpec => []NothingLeftStaged
<1>1. ExportInit => StagedInv
  BY DEF ExportInit, StagedInv
<1>2. StagedInv /\ [ExportNext]_exportVars => StagedInv'
  BY StagedStep
<1>3. StagedInv => NothingLeftStaged
  BY DEF StagedInv, NothingLeftStaged, ExportAt
<1> QED
  BY <1>1, <1>2, <1>3, PTL DEF ExportSpec

------------------------------------------------------------------------------
(* The types. *)

Outputs == [kind : {"rom", "cover", "playlist"}]
             \union [kind : {"save"}, object : Nat, entry : Nat]
IsSequence(s) == \E S : s \in Seq(S)

ExportTypeOK ==
  /\ games \in Exports
  /\ game \in 0..N
  /\ todo \in Seq(Outputs)
  /\ IsSequence(items)
  /\ skipped \in Nat

\* A function on 1..n is a sequence of that length.
LEMMA FunctionIsSequence ==
  ASSUME NEW S, NEW n \in Nat, NEW f \in [1..n -> S]
  PROVE  f \in Seq(S) /\ Len(f) = n
BY SeqDef

LEMMA AppendIsSequence ==
  ASSUME NEW s, IsSequence(s), NEW e
  PROVE  /\ IsSequence(Append(s, e))
         /\ Len(s) \in Nat /\ Len(Append(s, e)) = Len(s) + 1
         /\ \A i \in 1..Len(s) : Append(s, e)[i] = s[i]
         /\ Append(s, e)[Len(s) + 1] = e
<1>1. PICK S : s \in Seq(S)
  BY DEF IsSequence
<1>2. s \in Seq(S \union {e})
  BY <1>1, SeqMonotonic
<1>3. /\ Append(s, e) \in Seq(S \union {e})
      /\ Len(Append(s, e)) = Len(s) + 1
      /\ \A i \in 1..Len(s) : Append(s, e)[i] = s[i]
      /\ Append(s, e)[Len(s) + 1] = e
  BY <1>2, AppendProperties
<1>4. Len(s) \in Nat
  BY <1>1, LenProperties
<1> QED
  BY <1>3, <1>4 DEF IsSequence

------------------------------------------------------------------------------
(* The loop. *)

\* A game is at hand, or the playlist is; the ROM of the game has been committed.
Busy == exporter \in {"stage", "output", "ask", "error"}
Writing(kind) == todo # <<>> /\ Output.kind = kind
PlaylistAtHand == Busy /\ Writing("playlist")
GameAtHand == Busy /\ ~Writing("playlist")
RomThere == GameAtHand /\ ~Writing("rom")

\* The outputs left to write: the ROM or the playlist is only ever the first of them;
\* a question is open only about a name that is taken, while the mode is to ask.
LoopInv ==
  /\ exporter \in {"output", "ask", "error"} => todo # <<>>
  /\ \A k \in 1..Len(todo) : todo[k].kind \in {"rom", "playlist"} => k = 1
  /\ PlaylistAtHand => game = N
  /\ GameAtHand => game \in 1..N
  /\ Busy /\ Writing("rom") => todo = OutputsOf(game)
  /\ ExportAt("ask") => Taken(Destination) /\ mode = "Ask"
  /\ exported # "none" => ~Busy /\ exporter # "game"

\* The ROM at hand is where it was committed, and so are those of the listed games.
RomInv ==
  /\ RomThere => (rom \in DOMAIN files /\ files[rom] = game) \/ Consented(rom)
  /\ ItemsLeadToTheirGames

\* The cover at hand will be where it is looked for, or was given another name or lost,
\* and so are those of the listed games.
CoverInv ==
  /\ RomThere /\ games[game].cover =>
       Writing("cover") \/ CoverPath(rom) \in DOMAIN files \union moved \union lost
  /\ CoverFoundByRomName

\* The ROMs that this export wrote: of a listed game, of one given up, or of the one at
\* hand, which may be there although its commit failed; an export that ended otherwise may
\* leave one more.
ListedInv ==
  \/ exported \in {"cancelled", "failed"}
  \/ \A p \in DOMAIN files : p.kind = "rom" /\ files[p] \in Nat =>
       \/ files[p] \in failed
       \/ \E k \in 1..Len(items) : items[k] = [path |-> p, game |-> files[p]]
       \/ RomThere /\ p = rom /\ files[p] = game
       \/ GameAtHand /\ exporter = "error" /\ files[p] = game

\* The games listed and the games skipped are those before the one at hand.
Handled == Len(items) + skipped
SumInv ==
  /\ ExportAt("game") => Handled = game
  /\ GameAtHand => Handled + 1 = game
  /\ PlaylistAtHand => Handled = N
  /\ exported = "complete" => Handled = N
  /\ \A k \in 1..Len(items) :
       /\ items[k].game \in 1..game
       /\ GameAtHand => items[k].game # game
  /\ \A j, k \in 1..Len(items) : j < k => items[j].game < items[k].game

\* The outputs of a game: its ROM, its cover if it has one, its saves.
LEMMA OutputsOfType ==
  ASSUME games \in Exports, NEW g \in 1..N
  PROVE  /\ OutputsOf(g) \in Seq(Outputs) /\ OutputsOf(g) # <<>>
         /\ OutputsOf(g)[1].kind = "rom"
         /\ \A k \in 1..Len(OutputsOf(g)) : k # 1 => OutputsOf(g)[k].kind \in {"cover", "save"}
         /\ games[g].cover => Len(OutputsOf(g)) > 1 /\ OutputsOf(g)[2].kind = "cover"
<1> DEFINE Game == [base : STRING, cover : BOOLEAN, saves : Seq([object : Nat, entry : Nat])]
           Saves == [kind : {"save"}, object : Nat, entry : Nat]
           first == IF games[g].cover THEN <<[kind |-> "rom"], [kind |-> "cover"]>>
                    ELSE <<[kind |-> "rom"]>>
           n == Len(games[g].saves)
<1>1. games[g] \in Game
  BY ExportAssumption, ElementOfSeq DEF N
<1>2. SavesOf(g) \in Seq(Saves) /\ n \in Nat /\ Len(SavesOf(g)) = n
  <2>1. games[g].saves \in Seq([object : Nat, entry : Nat]) /\ n \in Nat
    BY <1>1, LenProperties
  <2>2. \A k \in 1..n : games[g].saves[k] \in [object : Nat, entry : Nat]
    BY <2>1, ElementOfSeq
  <2>3. SavesOf(g) \in [1..n -> Saves]
    BY <2>2 DEF SavesOf
  <2> HIDE DEF n, Saves
  <2> QED
    BY <2>1, <2>3, FunctionIsSequence
<1>3. SavesOf(g) \in Seq(Outputs)
  BY <1>2, SeqMonotonic DEF Outputs
<1>4. /\ first \in Seq(Outputs)
      /\ games[g].cover => Len(first) = 2 /\ first[2].kind = "cover"
      /\ ~games[g].cover => Len(first) = 1
      /\ first[1].kind = "rom"
  <2>1. [kind |-> "rom"] \in Outputs /\ [kind |-> "cover"] \in Outputs
    BY DEF Outputs
  <2>2. CASE games[g].cover
    BY <2>1, <2>2
  <2>3. CASE ~games[g].cover
    BY <2>1, <2>3
  <2> QED
    BY <2>2, <2>3
<1>5. OutputsOf(g) = first \o SavesOf(g)
  BY DEF OutputsOf
<1> HIDE DEF first, n
<1>6. /\ OutputsOf(g) \in Seq(Outputs)
      /\ Len(OutputsOf(g)) = Len(first) + Len(SavesOf(g))
      /\ \A k \in 1..Len(first) + Len(SavesOf(g)) :
           OutputsOf(g)[k] = IF k <= Len(first) THEN first[k] ELSE SavesOf(g)[k - Len(first)]
  <2> DEFINE s == SavesOf(g)
             o == OutputsOf(g)
  <2>1. s \in Seq(Outputs) /\ first \in Seq(Outputs) /\ o = first \o s
    BY <1>3, <1>4, <1>5
  <2> HIDE DEF s, o
  <2>2. /\ o \in Seq(Outputs) /\ Len(o) = Len(first) + Len(s)
        /\ \A k \in 1..Len(first) + Len(s) : o[k] = IF k <= Len(first) THEN first[k] ELSE s[k - Len(first)]
    BY <2>1, ConcatProperties, Zenon
  <2> QED
    BY <2>2 DEF s, o
<1>7. Len(first) \in {1, 2} /\ Len(SavesOf(g)) \in Nat
  BY <1>2, <1>4
<1>8. \A k \in 1..Len(SavesOf(g)) : SavesOf(g)[k].kind = "save"
  <2>1. \A k \in 1..Len(SavesOf(g)) : SavesOf(g)[k] \in Saves
    BY <1>2, ElementOfSeq
  <2> QED
    BY <2>1
<1> DEFINE p == SavesOf(g)
           o == OutputsOf(g)
           m == Len(p)
           f == Len(first)
<1> HIDE DEF p, o, m, f
<1>9. /\ f \in {1, 2} /\ m \in Nat /\ Len(o) = f + m
      /\ \A k \in 1..f + m : o[k] = IF k <= f THEN first[k] ELSE p[k - f]
      /\ \A k \in 1..m : p[k].kind = "save"
      /\ games[g].cover => f = 2 /\ first[2].kind = "cover"
      /\ ~games[g].cover => f = 1
      /\ first[1].kind = "rom"
  BY <1>4, <1>6, <1>7, <1>8 DEF f, m, o, p
<1>10. ASSUME NEW k \in 1..Len(o), k # 1 PROVE o[k].kind \in {"cover", "save"}
  <2>1. CASE k <= f
    <3>1. k = 2 /\ games[g].cover /\ o[k] = first[k]
      BY <1>9, <1>10, <2>1
    <3> QED
      BY <1>9, <3>1
  <2>2. CASE k > f
    <3>1. k - f \in 1..m /\ o[k] = p[k - f]
      BY <1>9, <2>2
    <3> QED
      BY <1>9, <3>1
  <2> QED
    BY <1>9, <2>1, <2>2
<1>11. 1 \in 1..f + m /\ Len(o) # 0
  BY <1>9
<1>12. o[1].kind = "rom"
  BY <1>9, <1>11
<1>13. ASSUME games[g].cover PROVE Len(o) > 1 /\ o[2].kind = "cover"
  <2>1. 2 \in 1..f + m
    BY <1>9, <1>13
  <2> QED
    BY <1>9, <1>13, <2>1
<1>14. o # <<>>
  BY <1>11
<1> QED
  BY <1>6, <1>10, <1>12, <1>13, <1>14 DEF o

\* The output at hand, and those after it.
LEMMA TodoParts ==
  ASSUME ExportTypeOK, todo # <<>>
  PROVE  /\ Output \in Outputs /\ Output = todo[1] /\ Output.kind \in Kinds
         /\ Len(todo) \in Nat /\ Len(todo) >= 1
         /\ Tail(todo) \in Seq(Outputs) /\ Len(Tail(todo)) = Len(todo) - 1
         /\ \A k \in 1..Len(Tail(todo)) : Tail(todo)[k] = todo[k + 1]
<1>1. todo \in Seq(Outputs)
  BY DEF ExportTypeOK
<1>2. /\ Head(todo) \in Outputs /\ Tail(todo) \in Seq(Outputs)
      /\ Len(Tail(todo)) = Len(todo) - 1
      /\ \A k \in 1..Len(Tail(todo)) : Tail(todo)[k] = todo[k + 1]
  BY <1>1, HeadTailProperties
<1>3. Len(todo) \in Nat /\ Len(todo) >= 1
  BY <1>1, EmptySeq
<1>4. Head(todo) = todo[1]
  BY <1>1
<1>5. Output.kind \in Kinds
  BY <1>2 DEF Output, Outputs, Kinds
<1> QED
  BY <1>2, <1>3, <1>4, <1>5 DEF Output

\* An output goes to a path of its kind, whatever name it is given.
LEMMA DestinationKind ==
  ASSUME Output.kind \in Kinds
  PROVE  /\ Destination.kind = Output.kind
         /\ \A q \in Renamed(Destination) : q.kind = Output.kind /\ ~Taken(q)
<1>1. PICK dir, name : Destination = [kind |-> Output.kind, dir |-> dir, name |-> name]
  <2>1. CASE Output.kind = "rom"
    BY <2>1 DEF Destination, RomPath, Path
  <2>2. CASE Output.kind = "cover"
    BY <2>2 DEF Destination, CoverPath, Path
  <2>3. CASE Output.kind = "save"
    BY <2>3 DEF Destination, SavePath, Path
  <2>4. CASE Output.kind = "playlist"
    BY <2>4 DEF Destination, Playlist, Path
  <2> QED
    BY <2>1, <2>2, <2>3, <2>4 DEF Kinds
<1>2. ASSUME NEW q \in Renamed(Destination) PROVE q.kind = Output.kind /\ ~Taken(q)
  <2>1. PICK k : q = [Destination EXCEPT !.name = Append(Destination.name, k)]
    BY Zenon DEF Renamed
  <2>2. ~Taken(q)
    BY Zenon DEF Renamed
  <2> QED
    BY <1>1, <2>1, <2>2
<1> QED
  BY <1>1, <1>2

------------------------------------------------------------------------------
(* What a step makes of the loop, whichever handler takes it. *)

Begin ==
  /\ exporter = "game" /\ exporter' = "stage" /\ exported' = exported
  /\ game < N /\ game' = game + 1 /\ todo' = OutputsOf(game + 1)
  /\ UNCHANGED <<rom, items, skipped, failed, files>>

BeginPlaylist ==
  /\ exporter = "game" /\ exporter' = "stage" /\ exported' = exported
  /\ game = N /\ game' = game /\ todo' = <<[kind |-> "playlist"]>>
  /\ UNCHANGED <<rom, items, skipped, failed, files>>

\* The export ends before its playlist is there.
Stop ==
  /\ exporter' = "finish" /\ exported' \in {"cancelled", "failed"}
  /\ UNCHANGED <<game, rom, todo, items, skipped, failed, files>>

\* The output at hand stays: it is staged or asked about, or could not be staged.
GoOn ==
  /\ exporter \in {"stage", "output", "ask"} /\ todo # <<>>
  /\ exporter' \in {"output", "ask", "error"} /\ exported' = exported
  /\ exporter' = "ask" => Taken(Destination) /\ mode' = "Ask"
  /\ UNCHANGED <<game, rom, todo, items, skipped, failed, files>>

\* The output at hand could not be committed.
Fails ==
  /\ exporter \in {"output", "ask"} /\ todo # <<>>
  /\ exporter' = "error" /\ exported' = exported
  /\ \E target, left : /\ target.kind = Output.kind
                       /\ left \in {Held(target), game, Absent, Torn}
                       /\ files' = Put(target, left)
  /\ UNCHANGED <<game, rom, todo, items, skipped, failed>>

Lists ==
  /\ exporter = "stage" /\ todo = <<>> /\ exporter' = "game" /\ exported' = exported
  /\ items' = Append(items, [path |-> rom, game |-> game])
  /\ UNCHANGED <<game, rom, todo, skipped, failed, files>>

\* The game is given up, or its ROM is skipped and the game with it.
Drops ==
  /\ exporter \in {"output", "ask", "error"} /\ todo # <<>> /\ Output.kind # "playlist"
  /\ exporter' = "game" /\ exported' = exported
  /\ skipped' = skipped + 1
  /\ \/ failed' = failed \union {game}
     \/ Output.kind = "rom" /\ exporter # "error" /\ failed' = failed
  /\ todo' \in {todo, <<>>}
  /\ UNCHANGED <<game, rom, items, files>>

\* The output is skipped, its name being taken, and the next one is begun.
Skips ==
  /\ exporter \in {"output", "ask"} /\ todo # <<>> /\ Output.kind \notin {"rom", "playlist"}
  /\ Taken(Destination)
  /\ todo' = Tail(todo) /\ exporter' = "stage" /\ exported' = exported
  /\ UNCHANGED <<game, rom, items, skipped, failed, files>>

\* The output is committed under its name, or under another one.
Writes(target) ==
  /\ exporter \in {"output", "ask"} /\ todo # <<>> /\ Output.kind # "playlist"
  /\ target.kind = Output.kind /\ (target = Destination \/ Destination \in moved')
  /\ files' = [p \in DOMAIN files \union {target} |-> IF p = target THEN game ELSE files[p]]
  /\ rom' = IF Output.kind = "rom" THEN target ELSE rom
  /\ todo' = Tail(todo) /\ exporter' = "stage" /\ exported' = exported
  /\ UNCHANGED <<game, items, skipped, failed>>

\* The playlist is there, or is skipped.
Completes ==
  /\ exporter \in {"output", "ask"} /\ todo # <<>> /\ Output.kind = "playlist"
  /\ exporter' = "finish" /\ exported' = "complete"
  /\ \/ files' = files
     \/ \E target : /\ target.kind = "playlist"
                   /\ files' = [p \in DOMAIN files \union {target} |-> IF p = target THEN game ELSE files[p]]
  /\ UNCHANGED <<game, rom, todo, items, skipped, failed>>

Ends ==
  /\ exporter = "finish" /\ exporter' = "done" /\ exported' \in {exported, "cancelled"}
  /\ UNCHANGED <<game, rom, todo, items, skipped, failed, files>>

Still ==
  UNCHANGED <<mode, exporter, exported, game, rom, todo, items, skipped, failed, files>>

Moves ==
  \/ Begin \/ BeginPlaylist \/ Stop \/ GoOn \/ Fails \/ Lists \/ Drops \/ Skips
  \/ (\E target : Writes(target)) \/ Completes \/ Ends \/ Still

\* What every step leaves as it is.
Frame ==
  /\ games' = games /\ moved \subseteq moved'
  /\ DOMAIN files \union lost \subseteq DOMAIN files' \union lost'
  /\ Kept
  /\ \A p : Consented(p) => Consented(p)'

LEMMA NIsNat ==
  ASSUME ExportTypeOK
  PROVE  N \in Nat /\ game \in 0..N
<1>1. games \in Seq([base : STRING, cover : BOOLEAN, saves : Seq([object : Nat, entry : Nat])])
  BY ExportAssumption DEF ExportTypeOK
<1> QED
  BY <1>1, LenProperties DEF N, ExportTypeOK

\* The output at hand is a file: no game's number stands for none.
LEMMA PutWritten ==
  ASSUME ExportTypeOK, NEW target
  PROVE  Put(target, game) =
           [p \in DOMAIN files \union {target} |-> IF p = target THEN game ELSE files[p]]
<1>1. game # Absent
  BY NIsNat, ExportAssumption
<1>2. (DOMAIN files \ {target}) \union {target} = DOMAIN files \union {target}
  OBVIOUS
<1> QED
  BY <1>1, <1>2 DEF Put

LEMMA CommitMoves ==
  ASSUME ExportTypeOK,
         NEW target, CommitTo(target), exporter \in {"output", "ask"}, todo # <<>>,
         UNCHANGED <<game, items, failed>>, target.kind = Output.kind,
         target = Destination \/ Destination \in moved'
  PROVE  Moves
<1>1. CASE Committed(target)
  <2>1. files' = [p \in DOMAIN files \union {target} |-> IF p = target THEN game ELSE files[p]]
    BY <1>1, PutWritten DEF Committed
  <2>2. CASE Output.kind = "playlist"
    <3>1. Completes
      BY <1>1, <2>1, <2>2 DEF Committed, Completes, End, ExportGoto
    <3> QED
      BY <3>1 DEF Moves
  <2>3. CASE Output.kind # "playlist"
    <3>1. Writes(target)
      BY <1>1, <2>1, <2>3 DEF Committed, Writes, End, ExportGoto
    <3> QED
      BY <3>1 DEF Moves
  <2> QED
    BY <2>2, <2>3
<1>2. ASSUME NEW left \in {Held(target), game, Absent, Torn}, NotCommitted(target, left)
      PROVE  Moves
  <2>1. Fails
    BY <1>2 DEF NotCommitted, Fails, ExportGoto
  <2> QED
    BY <2>1 DEF Moves
<1> QED
  BY <1>1, <1>2, CommitPuts

LEMMA SettleMoves ==
  ASSUME NEW choice, Settle(choice), ExportTypeOK, exporter \in {"output", "ask"}, todo # <<>>,
         Taken(Destination), UNCHANGED <<game, items, failed>>
  PROVE  Moves
<1>1. Output.kind \in Kinds
  BY TodoParts
<1>2. /\ Destination.kind = Output.kind
      /\ \A q \in Renamed(Destination) : q.kind = Output.kind
  BY <1>1, DestinationKind
<1>3. CASE choice = "Skip" /\ Skipped
  <2>1. CASE Output.kind = "rom"
    <3>1. Drops
      BY <1>3, <2>1 DEF Skipped, SkipsGame, Drops, ExportGoto, End
    <3> QED
      BY <3>1 DEF Moves
  <2>2. CASE Output.kind = "playlist"
    <3>1. Completes
      BY <1>3, <2>2 DEF Skipped, SkipsGame, Completes, ExportGoto, End
    <3> QED
      BY <3>1 DEF Moves
  <2>3. CASE Output.kind \notin {"rom", "playlist"}
    <3>1. Skips
      BY <1>3, <2>3 DEF Skipped, SkipsGame, Skips, ExportGoto, End
    <3> QED
      BY <3>1 DEF Moves
  <2> QED
    BY <2>1, <2>2, <2>3
<1>4. CASE choice = "Replace" /\ CommitTo(Destination)
  BY <1>2, <1>4, CommitMoves
<1>5. CASE (\E q \in Renamed(Destination) : CommitTo(q)) /\ moved' = moved \union {Destination}
  <2>1. PICK q \in Renamed(Destination) : CommitTo(q)
    BY <1>5
  <2>2. Destination \in moved'
    BY <1>5
  <2> QED
    BY <1>2, <2>1, <2>2, CommitMoves
<1> QED
  BY <1>3, <1>4, <1>5, Zenon DEF Settle

LEMMA StepMoves ==
  ASSUME ExportTypeOK, LoopInv, [ExportNext]_exportVars
  PROVE  Moves
<1>1. CASE NextGame
  <2>1. Begin \/ BeginPlaylist \/ Stop
    BY <1>1 DEF NextGame, Begin, BeginPlaylist, Stop, ExportAt, ExportGoto, End, history
  <2> QED
    BY <2>1 DEF Moves
<1>2. CASE StageOutput
  <2>1. GoOn \/ Stop
    BY <1>2 DEF StageOutput, GoOn, Stop, ExportAt, ExportGoto, End, history
  <2> QED
    BY <2>1 DEF Moves
<1>3. CASE ListGame
  <2>1. Lists
    BY <1>3 DEF ListGame, Lists, ItemPath, ExportAt, ExportGoto, history
  <2> QED
    BY <2>1 DEF Moves
<1>4. CASE GiveUp
  <2>1. Drops \/ Stop
    BY <1>4 DEF GiveUp, Drops, Stop, CountFailed, ExportAt, ExportGoto, End, LoopInv
  <2> QED
    BY <2>1 DEF Moves
<1>5. CASE Resolve
  <2>1. exporter = "output" /\ todo # <<>> /\ mode' = mode /\ UNCHANGED <<game, items, failed>>
    BY <1>5 DEF Resolve, ExportAt, LoopInv
  <2>2. CASE CommitTo(Destination)
    <3>1. Destination.kind = Output.kind
      BY <2>1, TodoParts, DestinationKind
    <3> QED
      BY <2>1, <2>2, <3>1, CommitMoves
  <2>3. CASE Taken(Destination) /\ Settle(mode)
    BY <2>1, <2>3, SettleMoves
  <2>4. CASE /\ Taken(Destination) /\ mode = "Ask" /\ ExportGoto("ask")
             /\ UNCHANGED <<files, rom, todo, stagedOutput, skipped, exported, moved, lost>>
    <3>1. GoOn
      BY <2>1, <2>4 DEF GoOn, ExportGoto
    <3> QED
      BY <3>1 DEF Moves
  <2> QED
    BY <1>5, <2>2, <2>3, <2>4, Zenon DEF Resolve
<1>6. CASE AskAnswered
  <2>1. /\ exporter = "ask" /\ todo # <<>> /\ Taken(Destination)
        /\ UNCHANGED <<game, items, failed>>
    BY <1>6, Zenon DEF AskAnswered, ExportAt, LoopInv
  <2>2. PICK choice : Settle(choice)
    BY <1>6, Zenon DEF AskAnswered
  <2> QED
    BY <2>1, <2>2, SettleMoves
<1>7. CASE AskCancelled \/ AskDropped
  <2>1. Stop
    BY <1>7 DEF AskCancelled, AskDropped, AskAbandoned, Stop, ExportGoto, End, history
  <2> QED
    BY <2>1 DEF Moves
<1>8. CASE FinishExport
  <2>1. Ends
    BY <1>8 DEF FinishExport, Ends, Outcome, ExportAt, ExportGoto, history
  <2> QED
    BY <2>1 DEF Moves
<1>9. CASE Cancel \/ UNCHANGED exportVars
  <2>1. Still
    BY <1>9 DEF Cancel, Still, exportVars, tally, history
  <2> QED
    BY <2>1 DEF Moves
<1> QED
  BY <1>1, <1>2, <1>3, <1>4, <1>5, <1>6, <1>7, <1>8, <1>9 DEF ExportNext, Work

\* A path that had a file and has none is one that a commit left without it.
LEMMA CommitAccounts ==
  ASSUME ExportTypeOK, NEW target, CommitTo(target)
  PROVE  DOMAIN files \union lost \subseteq DOMAIN files' \union lost'
<1>1. CASE Committed(target)
  <2>1. DOMAIN files' = DOMAIN files \union {target} /\ lost' = lost
    BY <1>1, PutWritten DEF Committed
  <2> QED
    BY <2>1
<1>2. ASSUME NEW left, NotCommitted(target, left)
      PROVE  DOMAIN files \union lost \subseteq DOMAIN files' \union lost'
  BY <1>2 DEF NotCommitted
<1> QED
  BY <1>1, <1>2, CommitPuts

LEMMA StepFrame ==
  ASSUME ExportTypeOK, ConsentInv, LoopInv, [ExportNext]_exportVars
  PROVE  Frame
<1>1. games' = games
  BY Zenon DEF ExportNext, Work, NextGame, StageOutput, ListGame, GiveUp, Resolve, AskAnswered, AskCancelled,
     AskDropped, AskAbandoned, FinishExport, Cancel, exportVars, input
<1>2. moved \subseteq moved'
  <2>1. \A choice : Settle(choice) => moved' = moved \/ moved' = moved \union {Destination}
    BY Zenon DEF Settle
  <2>2. CASE Resolve
    <3>1. moved' = moved \/ Settle(mode)
      BY <2>2, Zenon DEF Resolve
    <3> QED
      BY <2>1, <3>1
  <2>3. CASE AskAnswered
    <3>1. \E choice : Settle(choice)
      BY <2>3, Zenon DEF AskAnswered
    <3> QED
      BY <2>1, <3>1
  <2>4. CASE ~Resolve /\ ~AskAnswered
    <3>1. moved' = moved
      BY <2>4, Zenon DEF ExportNext, Work, NextGame, StageOutput, ListGame, GiveUp, AskCancelled,
         AskDropped, AskAbandoned, FinishExport, Cancel, exportVars, history
    <3> QED
      BY <3>1
  <2> QED
    BY <2>2, <2>3, <2>4
<1>3. Kept
  BY ConsentStep
<1>4. consent \subseteq consent' /\ (mode = "Direct" => mode' = "Direct")
  <2>1. CASE AskAnswered
    <3>1. mode = "Ask"
      BY <2>1, Zenon DEF AskAnswered, LoopInv
    <3>2. consent \subseteq consent'
      BY <2>1 DEF AskAnswered
    <3> QED
      BY <3>1, <3>2
  <2>2. CASE ~AskAnswered
    <3>1. consent' = consent /\ mode' = mode
      BY <2>2, Zenon DEF ExportNext, Work, NextGame, StageOutput, ListGame, GiveUp, Resolve, AskCancelled,
         AskDropped, AskAbandoned, FinishExport, Cancel, exportVars, history
    <3> QED
      BY <3>1
  <2> QED
    BY <2>1, <2>2
<1>5. \A p : Consented(p) => Consented(p)'
  BY <1>4 DEF Consented, Everything, Path
<1>6. DOMAIN files \union lost \subseteq DOMAIN files' \union lost'
  <2>1. CASE UNCHANGED <<files, lost>>
    BY <2>1
  <2>2. CASE Resolve \/ AskAnswered
    <3>1. \A choice : Settle(choice) => UNCHANGED <<files, lost>> \/ \E target : CommitTo(target)
      BY Zenon DEF Settle, Skipped
    <3>2. UNCHANGED <<files, lost>> \/ (\E target : CommitTo(target)) \/ \E choice : Settle(choice)
      BY <2>2, Zenon DEF Resolve, AskAnswered
    <3> QED
      BY <2>1, <3>1, <3>2, CommitAccounts
  <2>3. CASE ~Resolve /\ ~AskAnswered
    <3>1. UNCHANGED <<files, lost>>
      BY <2>3, Zenon DEF ExportNext, Work, NextGame, StageOutput, ListGame, GiveUp, AskCancelled,
         AskDropped, AskAbandoned, FinishExport, Cancel, exportVars, history
    <3> QED
      BY <2>1, <3>1
  <2> QED
    BY <2>2, <2>3
<1> QED
  BY <1>1, <1>2, <1>3, <1>5, <1>6 DEF Frame

------------------------------------------------------------------------------
(* The loop's invariants, kept by every move. *)

LEMMA TypeMove ==
  ASSUME ExportTypeOK, Frame, Moves
  PROVE  ExportTypeOK'
<1>1. games' \in Exports /\ N' = N
  BY DEF ExportTypeOK, Frame, N
<1>2. N \in Nat /\ game \in 0..N
  <2>1. games \in Seq([base : STRING, cover : BOOLEAN, saves : Seq([object : Nat, entry : Nat])])
    BY ExportAssumption DEF ExportTypeOK
  <2> QED
    BY <2>1, LenProperties DEF N, ExportTypeOK
<1>3. CASE UNCHANGED <<game, todo, items, skipped>>
  BY <1>1, <1>3 DEF ExportTypeOK, IsSequence
<1>4. CASE Begin
  <2>1. game + 1 \in 1..N
    BY <1>2, <1>4 DEF Begin
  <2>2. OutputsOf(game + 1) \in Seq(Outputs)
    BY <2>1, OutputsOfType DEF ExportTypeOK
  <2>3. game' \in 0..N
    BY <1>2, <1>4, <2>1 DEF Begin
  <2>4. todo' \in Seq(Outputs) /\ items' = items /\ skipped' = skipped
    BY <1>4, <2>2 DEF Begin
  <2> QED
    BY <1>1, <2>3, <2>4 DEF ExportTypeOK, IsSequence
<1>5. CASE BeginPlaylist
  <2>1. [kind |-> "playlist"] \in Outputs
    BY DEF Outputs
  <2>2. todo' \in Seq(Outputs)
    BY <1>5, <2>1 DEF BeginPlaylist
  <2> QED
    BY <1>1, <1>5, <2>2 DEF ExportTypeOK, IsSequence, BeginPlaylist
<1>6. CASE Lists
  <2>1. IsSequence(items')
    BY <1>6, AppendIsSequence DEF Lists, ExportTypeOK
  <2> QED
    BY <1>1, <1>6, <2>1 DEF ExportTypeOK, Lists
<1>7. CASE Drops
  <2>1. todo' = todo \/ todo' = <<>>
    BY <1>7, Zenon DEF Drops
  <2>2. game' = game /\ items' = items /\ skipped' \in Nat
    BY <1>7 DEF ExportTypeOK, Drops
  <2>3. todo' \in Seq(Outputs)
    BY <2>1, EmptySeq DEF ExportTypeOK
  <2> QED
    BY <1>1, <2>2, <2>3 DEF ExportTypeOK, IsSequence
<1>8. CASE Skips \/ (\E target : Writes(target))
  <2>1. todo # <<>> /\ todo' = Tail(todo) /\ UNCHANGED <<game, items, skipped>>
    BY <1>8 DEF Skips, Writes
  <2>2. Tail(todo) \in Seq(Outputs)
    BY <2>1, TodoParts
  <2> QED
    BY <1>1, <2>1, <2>2 DEF ExportTypeOK, IsSequence
<1> QED
  BY <1>3, <1>4, <1>5, <1>6, <1>7, <1>8 DEF Moves, Stop, GoOn, Fails, Completes, Ends, Still

\* What is left to write after the first output.
LEMMA TailKinds ==
  ASSUME ExportTypeOK, LoopInv, todo # <<>>
  PROVE  /\ \A k \in 1..Len(Tail(todo)) : Tail(todo)[k].kind \notin {"rom", "playlist"}
         /\ Tail(todo) # <<>> => Head(Tail(todo)).kind \notin {"rom", "playlist"}
<1>1. ASSUME NEW k \in 1..Len(Tail(todo)) PROVE Tail(todo)[k].kind \notin {"rom", "playlist"}
  <2>1. /\ Tail(todo)[k] = todo[k + 1] /\ k \in Nat /\ k + 1 \in 1..Len(todo) /\ k + 1 # 1
    BY <1>1, TodoParts
  <2> QED
    BY <2>1, Zenon DEF LoopInv
<1>2. ASSUME Tail(todo) # <<>> PROVE Head(Tail(todo)) = Tail(todo)[1] /\ 1 \in 1..Len(Tail(todo))
  <2> DEFINE t == Tail(todo)
  <2>1. t \in Seq(Outputs)
    BY TodoParts
  <2> HIDE DEF t
  <2>2. t # <<>> => Head(t) = t[1] /\ 1 \in 1..Len(t)
    BY <2>1, EmptySeq
  <2> QED
    BY <1>2, <2>2 DEF t
<1> QED
  BY <1>1, <1>2

\* The cover follows the ROM.
LEMMA CoverFollows ==
  ASSUME ExportTypeOK, LoopInv, Busy, Writing("rom"), games[game].cover
  PROVE  Tail(todo) # <<>> /\ Head(Tail(todo)).kind = "cover"
<1>1. todo = OutputsOf(game) /\ game \in 1..N
  BY DEF LoopInv, Writing, PlaylistAtHand, GameAtHand
<1>2. Len(todo) > 1 /\ todo[2].kind = "cover"
  BY <1>1, OutputsOfType DEF ExportTypeOK
<1>3. /\ Tail(todo) \in Seq(Outputs) /\ Len(Tail(todo)) = Len(todo) - 1 /\ Len(todo) \in Nat
      /\ \A k \in 1..Len(Tail(todo)) : Tail(todo)[k] = todo[k + 1]
  BY TodoParts DEF Writing
<1>4. 1 \in 1..Len(Tail(todo)) /\ Tail(todo)[1] = todo[2]
  BY <1>2, <1>3
<1>5. Tail(todo) # <<>> /\ Head(Tail(todo)) = Tail(todo)[1]
  <2> DEFINE t == Tail(todo)
  <2>1. t \in Seq(Outputs) /\ 1 \in 1..Len(t)
    BY <1>3, <1>4
  <2> HIDE DEF t
  <2>2. t # <<>> /\ Head(t) = t[1]
    BY <2>1, EmptySeq
  <2> QED
    BY <2>2 DEF t
<1> QED
  BY <1>2, <1>4, <1>5

\* What is at hand after a move, told from what was at hand before.
LEMMA AtHandAfter ==
  ASSUME ExportTypeOK, LoopInv, Frame, Moves
  PROVE  /\ Begin => GameAtHand' /\ ~RomThere' /\ Writing("rom")'
         /\ BeginPlaylist => PlaylistAtHand' /\ ~Writing("rom")'
         /\ Stop \/ Lists \/ Drops \/ Completes \/ Ends => ~Busy'
         /\ GoOn \/ Fails \/ Still =>
              /\ (Busy' <=> Busy)
              /\ \A kind : Writing(kind)' <=> Writing(kind)
         /\ Skips \/ (\E target : Writes(target)) =>
              GameAtHand /\ RomThere' /\ ~Writing("rom")' /\ ~Writing("playlist")'
         /\ Lists => RomThere
         /\ Drops => GameAtHand
         /\ Completes => PlaylistAtHand
<1> USE DEF Busy, Writing
<1>1. ASSUME Begin PROVE GameAtHand' /\ ~RomThere' /\ Writing("rom")'
  <2>1. game + 1 \in 1..N
    <3>1. N \in Nat /\ game \in 0..N
      <4>1. games \in Seq([base : STRING, cover : BOOLEAN, saves : Seq([object : Nat, entry : Nat])])
        BY ExportAssumption DEF ExportTypeOK
      <4> QED
        BY <4>1, LenProperties DEF N, ExportTypeOK
    <3> QED
      BY <1>1, <3>1 DEF Begin
  <2> DEFINE o == OutputsOf(game + 1)
  <2>2. o \in Seq(Outputs) /\ o # <<>> /\ o[1].kind = "rom"
    BY <2>1, OutputsOfType DEF ExportTypeOK
  <2>3. todo' = o /\ exporter' = "stage"
    BY <1>1 DEF Begin
  <2> HIDE DEF o
  <2>4. Head(o) = o[1]
    BY <2>2
  <2> QED
    BY <2>2, <2>3, <2>4 DEF GameAtHand, RomThere, Output
<1>2. ASSUME BeginPlaylist PROVE PlaylistAtHand' /\ ~Writing("rom")'
  BY <1>2 DEF BeginPlaylist, PlaylistAtHand, Output
<1>3. Stop \/ Lists \/ Drops \/ Completes \/ Ends => ~Busy'
  BY DEF Stop, Lists, Drops, Completes, Ends
<1>4. GoOn \/ Fails \/ Still => /\ (Busy' <=> Busy)
                              /\ \A kind : Writing(kind)' <=> Writing(kind)
  <2>1. GoOn \/ Fails \/ Still => todo' = todo
    BY DEF GoOn, Fails, Still
  <2>2. todo' = todo => \A kind : Writing(kind)' <=> Writing(kind)
    BY DEF Output
  <2>3. GoOn \/ Fails => Busy /\ Busy'
    BY DEF GoOn, Fails
  <2>4. Still => (Busy' <=> Busy)
    BY DEF Still
  <2> QED
    BY ONLY <2>1, <2>2, <2>3, <2>4
<1>5. ASSUME Skips \/ (\E target : Writes(target))
      PROVE  GameAtHand /\ RomThere' /\ ~Writing("rom")' /\ ~Writing("playlist")'
  <2>1. /\ exporter \in {"output", "ask"} /\ todo # <<>> /\ Output.kind # "playlist"
        /\ todo' = Tail(todo) /\ exporter' = "stage"
    BY <1>5 DEF Skips, Writes
  <2>2. todo' # <<>> => Head(todo').kind \notin {"rom", "playlist"}
    BY <2>1, TailKinds
  <2> QED
    BY <2>1, <2>2 DEF GameAtHand, RomThere, Output
<1>6. Lists => RomThere
  BY DEF Lists, RomThere, GameAtHand
<1>7. Drops => GameAtHand
  BY DEF Drops, GameAtHand
<1>8. Completes => PlaylistAtHand
  BY DEF Completes, PlaylistAtHand
<1> QED
  BY <1>1, <1>2, <1>3, <1>4, <1>5, <1>6, <1>7, <1>8

LEMMA LoopMove ==
  ASSUME ExportTypeOK, LoopInv, Frame, Moves
  PROVE  LoopInv'
<1>1. N' = N /\ N \in Nat /\ game \in 0..N /\ games' = games
  BY NIsNat DEF Frame, N
<1>2. CASE Begin
  <2>1. game + 1 \in 1..N
    BY <1>1, <1>2 DEF Begin
  <2>2. todo' = OutputsOf(game + 1) /\ game' = game + 1 /\ exporter' = "stage" /\ exported' = exported
    BY <1>2 DEF Begin
  <2>3. \A k \in 1..Len(todo') : todo'[k].kind \in {"rom", "playlist"} => k = 1
    <3>1. \A k \in 1..Len(OutputsOf(game + 1)) :
            k # 1 => OutputsOf(game + 1)[k].kind \in {"cover", "save"}
      BY <2>1, OutputsOfType DEF ExportTypeOK
    <3> QED
      BY <2>2, <3>1
  <2>4. OutputsOf(game)' = OutputsOf(game + 1)
    BY <1>1, <2>2 DEF OutputsOf, SavesOf
  <2>5. GameAtHand' /\ Writing("rom")' /\ ~PlaylistAtHand'
    BY <1>2, AtHandAfter DEF GameAtHand, PlaylistAtHand
  <2>6. exported' = "none"
    BY <1>2 DEF Begin, LoopInv
  <2> QED
    BY <1>1, <2>1, <2>2, <2>3, <2>4, <2>5, <2>6 DEF LoopInv, ExportAt
<1>3. CASE BeginPlaylist
  <2>1. \A k \in 1..Len(todo') : todo'[k].kind \in {"rom", "playlist"} => k = 1
    BY <1>3 DEF BeginPlaylist
  <2>2. PlaylistAtHand' /\ ~Writing("rom")' /\ ~GameAtHand'
    BY <1>3, AtHandAfter DEF GameAtHand, PlaylistAtHand
  <2>3. exported' = "none" /\ game' = N' /\ exporter' = "stage"
    BY <1>1, <1>3 DEF BeginPlaylist, LoopInv
  <2> QED
    BY <2>1, <2>2, <2>3 DEF LoopInv, ExportAt
<1>4. CASE Stop \/ Lists \/ Drops \/ Completes \/ Ends
  <2>1. ~Busy' /\ ~PlaylistAtHand' /\ ~GameAtHand' /\ exporter' \notin {"output", "ask", "error"}
    BY <1>4, AtHandAfter DEF Busy, PlaylistAtHand, GameAtHand
  <2>2. todo' = todo \/ todo' = <<>>
    BY <1>4 DEF Stop, Lists, Drops, Completes, Ends
  <2>3. \A k \in 1..Len(todo') : todo'[k].kind \in {"rom", "playlist"} => k = 1
    BY <2>2 DEF LoopInv
  <2>4. exported' # "none" => exporter' # "game"
    BY <1>4 DEF Stop, Lists, Drops, Completes, Ends, LoopInv, Busy
  <2> QED
    BY <2>1, <2>3, <2>4 DEF LoopInv, ExportAt
<1>5. CASE GoOn
  <2>1. Busy /\ Busy' /\ \A kind : Writing(kind)' <=> Writing(kind)
    BY <1>5, AtHandAfter DEF GoOn, Busy
  <2>2. (PlaylistAtHand' <=> PlaylistAtHand) /\ (GameAtHand' <=> GameAtHand)
    BY <2>1 DEF PlaylistAtHand, GameAtHand
  <2>3. UNCHANGED <<game, todo, rom, files, games, exported>> /\ todo # <<>>
    BY <1>1, <1>5 DEF GoOn
  <2>4. OutputsOf(game)' = OutputsOf(game)
    BY <2>3 DEF OutputsOf, SavesOf
  <2>5. Taken(Destination)' <=> Taken(Destination)
    BY <2>3 DEF Taken, Destination, Output, RomPath, CoverPath, SavePath
  <2>6. exporter' = "ask" => Taken(Destination)' /\ mode' = "Ask"
    BY <1>5, <2>5 DEF GoOn
  <2>7. exported' = "none"
    BY <2>1, <2>3 DEF LoopInv
  <2> QED
    BY <1>1, <2>1, <2>2, <2>3, <2>4, <2>6, <2>7 DEF LoopInv, ExportAt
<1>8. CASE Fails
  <2>1. Busy /\ Busy' /\ \A kind : Writing(kind)' <=> Writing(kind)
    BY <1>8, AtHandAfter DEF Fails, Busy
  <2>2. (PlaylistAtHand' <=> PlaylistAtHand) /\ (GameAtHand' <=> GameAtHand)
    BY <2>1 DEF PlaylistAtHand, GameAtHand
  <2>3. UNCHANGED <<game, todo, games, exported>> /\ todo # <<>> /\ exporter' = "error"
    BY <1>1, <1>8 DEF Fails
  <2>4. OutputsOf(game)' = OutputsOf(game)
    BY <2>3 DEF OutputsOf, SavesOf
  <2>5. exported' = "none"
    BY <2>1, <2>3 DEF LoopInv
  <2> QED
    BY <1>1, <2>1, <2>2, <2>3, <2>4, <2>5 DEF LoopInv, ExportAt
<1>6. CASE Still
  <2>1. UNCHANGED <<mode, exporter, game, todo, rom, files, games, exported>>
    BY <1>1, <1>6 DEF Still
  <2>2. (Busy' <=> Busy) /\ \A kind : Writing(kind)' <=> Writing(kind)
    BY <1>6, AtHandAfter
  <2>3. (PlaylistAtHand' <=> PlaylistAtHand) /\ (GameAtHand' <=> GameAtHand)
    BY <2>2 DEF PlaylistAtHand, GameAtHand
  <2>4. OutputsOf(game)' = OutputsOf(game)
    BY <2>1 DEF OutputsOf, SavesOf
  <2>5. Taken(Destination)' <=> Taken(Destination)
    BY <2>1 DEF Taken, Destination, Output, RomPath, CoverPath, SavePath
  <2> QED
    BY <1>1, <2>1, <2>2, <2>3, <2>4, <2>5 DEF LoopInv, ExportAt
<1>7. CASE Skips \/ (\E target : Writes(target))
  <2>1. GameAtHand /\ RomThere' /\ ~Writing("rom")' /\ ~Writing("playlist")' /\ ~PlaylistAtHand'
    BY <1>7, AtHandAfter DEF PlaylistAtHand
  <2>2. todo # <<>> /\ todo' = Tail(todo) /\ game' = game /\ exported' = exported /\ exporter' = "stage"
    BY <1>7 DEF Skips, Writes
  <2>3. \A k \in 1..Len(todo') : todo'[k].kind \in {"rom", "playlist"} => k = 1
    BY <2>2, TailKinds
  <2>4. exported' = "none"
    BY <2>1, <2>2 DEF LoopInv, GameAtHand
  <2>5. game' \in 1..N'
    BY <1>1, <2>1, <2>2 DEF LoopInv
  <2> QED
    BY <2>1, <2>2, <2>3, <2>4, <2>5 DEF LoopInv, ExportAt
<1> QED
  BY <1>2, <1>3, <1>4, <1>5, <1>6, <1>7, <1>8 DEF Moves

\* The playlist's items after a move.
LEMMA ItemsAfter ==
  ASSUME ExportTypeOK, Moves
  PROVE  /\ ~Lists => items' = items
         /\ Lists => /\ Len(items) \in Nat /\ Len(items') = Len(items) + 1
                     /\ \A k \in 1..Len(items) : items'[k] = items[k]
                     /\ items'[Len(items) + 1] = [path |-> rom, game |-> game]
<1>1. ~Lists => items' = items
  BY DEF Moves, Begin, BeginPlaylist, Stop, GoOn, Fails, Drops, Skips, Writes, Completes, Ends, Still
<1>2. ASSUME Lists
      PROVE  /\ Len(items) \in Nat /\ Len(items') = Len(items) + 1
             /\ \A k \in 1..Len(items) : items'[k] = items[k]
             /\ items'[Len(items) + 1] = [path |-> rom, game |-> game]
  <2>1. IsSequence(items) /\ items' = Append(items, [path |-> rom, game |-> game])
    BY <1>2 DEF Lists, ExportTypeOK
  <2> QED
    BY <2>1, AppendIsSequence
<1> QED
  BY <1>1, <1>2

\* The ROM at hand is only another one after a ROM was written.
LEMMA RomAfter ==
  ASSUME ExportTypeOK, LoopInv, Frame, Moves, RomThere'
  PROVE  /\ game' = game
         /\ \/ RomThere /\ rom' = rom
            \/ Writing("rom") /\ GameAtHand /\ rom' \in DOMAIN files' /\ files'[rom'] = game'
<1>1. CASE GoOn \/ Fails \/ Still
  <2>1. game' = game /\ rom' = rom
    BY <1>1 DEF GoOn, Fails, Still
  <2>2. RomThere
    BY <1>1, AtHandAfter DEF RomThere, GameAtHand
  <2> QED
    BY <2>1, <2>2
<1>2. CASE Skips \/ (\E target : Writes(target))
  <2>1. CASE Skips
    BY <1>2, <2>1, AtHandAfter DEF Skips, RomThere, Writing
  <2>2. ASSUME NEW target, Writes(target)
        PROVE  /\ game' = game
               /\ \/ RomThere /\ rom' = rom
                  \/ Writing("rom") /\ rom' \in DOMAIN files' /\ files'[rom'] = game'
    <3>1. game' = game /\ target \in DOMAIN files' /\ files'[target] = game
      BY <2>2 DEF Writes
    <3>2. CASE Output.kind = "rom"
      BY <2>2, <3>1, <3>2 DEF Writes, Writing
    <3>3. CASE Output.kind # "rom"
      BY <1>2, <2>2, <3>1, <3>3, AtHandAfter DEF Writes, RomThere, Writing
    <3> QED
      BY <3>2, <3>3
  <2> QED
    BY <1>2, <2>1, <2>2, AtHandAfter
<1>3. CASE Begin \/ BeginPlaylist \/ Stop \/ Lists \/ Drops \/ Completes \/ Ends
  BY <1>3, AtHandAfter DEF RomThere, GameAtHand, PlaylistAtHand
<1> QED
  BY <1>1, <1>2, <1>3 DEF Moves

LEMMA RomMove ==
  ASSUME ExportTypeOK, LoopInv, Frame, Moves, RomInv
  PROVE  RomInv'
<1>1. \A p : (p \in DOMAIN files =>
                (p \in DOMAIN files' /\ files'[p] = files[p]) \/ Consented(p)')
          /\ (Consented(p) => Consented(p)')
  BY DEF Frame, Kept
<1>2. ASSUME RomThere' PROVE (rom' \in DOMAIN files' /\ files'[rom'] = game') \/ Consented(rom)'
  <2>1. CASE RomThere /\ rom' = rom /\ game' = game
    <3>1. (rom \in DOMAIN files /\ files[rom] = game) \/ Consented(rom)
      BY <2>1 DEF RomInv
    <3>2. (rom \in DOMAIN files' /\ files'[rom] = game) \/ Consented(rom)'
      <4>1. PICK q : q = rom
        OBVIOUS
      <4>2. (q \in DOMAIN files /\ files[q] = game) \/ Consented(q)
        BY <3>1, <4>1
      <4>3. (q \in DOMAIN files' /\ files'[q] = game) \/ Consented(q)'
        BY <1>1, <4>2
      <4>4. rom' = q
        BY <2>1, <4>1
      <4>5. Consented(q)' => Consented(rom)'
        BY <4>4 DEF Consented
      <4> QED
        BY <4>1, <4>3, <4>5
    <3> QED
      BY <2>1, <3>2
  <2> QED
    BY <1>2, <2>1, RomAfter
<1>3. ASSUME NEW k \in 1..Len(items'), NEW item, item = items'[k]
      PROVE  (item.path \in DOMAIN files' /\ files'[item.path] = item.game) \/ Consented(item.path)'
  <2>1. (item.path \in DOMAIN files /\ files[item.path] = item.game) \/ Consented(item.path)
    <3>1. CASE k \in 1..Len(items) /\ items'[k] = items[k]
      BY <1>3, <3>1 DEF RomInv, ItemsLeadToTheirGames
    <3>2. CASE Lists /\ item = [path |-> rom, game |-> game]
      BY <3>2, AtHandAfter DEF RomInv
    <3>3. CASE Lists
      <4>1. k \in 1..Len(items) \/ k = Len(items) + 1
        BY <1>3, <3>3, ItemsAfter
      <4> QED
        BY <1>3, <3>1, <3>2, <3>3, <4>1, ItemsAfter
    <3>4. CASE ~Lists
      BY <1>3, <3>1, <3>4, ItemsAfter
    <3> QED
      BY <3>3, <3>4
  <2> DEFINE p == item.path
  <2>2. (p \in DOMAIN files /\ files[p] = item.game) \/ Consented(p)
    BY <2>1
  <2> HIDE DEF p
  <2>3. (p \in DOMAIN files' /\ files'[p] = item.game) \/ Consented(p)'
    BY <1>1, <2>2
  <2> QED
    BY <2>3 DEF p
<1>4. ItemsLeadToTheirGames'
  <2>1. \A k \in 1..Len(items') :
          \/ items'[k].path \in DOMAIN files' /\ files'[items'[k].path] = items'[k].game
          \/ items'[k].path \in consent' \/ Everything \in consent' \/ mode' = "Direct"
    BY <1>3 DEF Consented, Everything, Path
  <2> QED
    BY <2>1 DEF ItemsLeadToTheirGames, Consented, Everything, Path
<1> QED
  BY <1>2, <1>4 DEF RomInv

LEMMA CoverMove ==
  ASSUME ExportTypeOK, LoopInv, Frame, Moves, CoverInv
  PROVE  CoverInv'
<1>1. /\ games' = games
      /\ \A p : p \in DOMAIN files \union moved \union lost
               => p \in DOMAIN files' \union moved' \union lost'
  BY DEF Frame
<1>2. ASSUME RomThere', games'[game'].cover
      PROVE  Writing("cover")' \/ CoverPath(rom)' \in DOMAIN files' \union moved' \union lost'
  <2>1. CASE GoOn \/ Fails \/ Still
    <3>1. RomThere /\ rom' = rom /\ game' = game /\ (Writing("cover")' <=> Writing("cover"))
      BY <1>2, <2>1, AtHandAfter, RomAfter DEF RomThere, GameAtHand, GoOn, Fails, Still
    <3>2. Writing("cover") \/ CoverPath(rom) \in DOMAIN files \union moved \union lost
      BY <1>1, <1>2, <3>1 DEF CoverInv
    <3>3. CoverPath(rom)' = CoverPath(rom)
      BY <3>1 DEF CoverPath
    <3> QED
      BY <1>1, <3>1, <3>2, <3>3
  <2>2. CASE Skips \/ (\E target : Writes(target))
    <3>1. GameAtHand /\ game' = game /\ todo # <<>> /\ todo' = Tail(todo)
      BY <2>2, AtHandAfter DEF Skips, Writes
    <3>2. CASE Writing("rom")
      <4>1. Tail(todo) # <<>> /\ Head(Tail(todo)).kind = "cover"
        BY <1>1, <1>2, <3>1, <3>2, CoverFollows DEF GameAtHand
      <4> QED
        BY <3>1, <4>1 DEF Writing, Output
    <3>3. CASE ~Writing("rom")
      <4>1. RomThere /\ rom' = rom
        BY <1>2, <3>1, <3>3, RomAfter
      <4>2. CoverPath(rom)' = CoverPath(rom)
        BY <4>1 DEF CoverPath
      <4>3. CASE Writing("cover")
        <5>1. Destination = CoverPath(rom)
          BY <4>3 DEF Destination, Writing
        <5>2. Destination \in DOMAIN files' \union moved' \union lost'
          <6>1. CASE Skips
            BY <1>1, <6>1 DEF Skips, Taken
          <6>2. ASSUME NEW target, Writes(target) PROVE Destination \in DOMAIN files' \union moved' \union lost'
            BY <6>2 DEF Writes
          <6> QED
            BY <2>2, <6>1, <6>2
        <5> QED
          BY <4>2, <5>1, <5>2
      <4>4. CASE ~Writing("cover")
        <5>1. CoverPath(rom) \in DOMAIN files \union moved \union lost
          BY <1>1, <1>2, <3>1, <4>1, <4>4 DEF CoverInv
        <5> QED
          BY <1>1, <4>2, <5>1
      <4> QED
        BY <4>3, <4>4
    <3> QED
      BY <3>2, <3>3
  <2>3. CASE Begin \/ BeginPlaylist \/ Stop \/ Lists \/ Drops \/ Completes \/ Ends
    BY <1>2, <2>3, AtHandAfter DEF RomThere, GameAtHand, PlaylistAtHand
  <2> QED
    BY <2>1, <2>2, <2>3 DEF Moves
<1>3. ASSUME NEW k \in 1..Len(items'), NEW item, item = items'[k], games[item.game].cover
      PROVE  Path("cover", <<>>, item.path.name) \in DOMAIN files \union moved \union lost
  <2>1. CASE k \in 1..Len(items) /\ items'[k] = items[k]
    BY <1>3, <2>1 DEF CoverInv, CoverFoundByRomName
  <2>2. CASE Lists /\ item = [path |-> rom, game |-> game]
    <3>1. RomThere /\ ~Writing("cover")
      BY <2>2, AtHandAfter DEF Lists, Writing
    <3> QED
      BY <1>3, <2>2, <3>1 DEF CoverInv, CoverPath
  <2>3. CASE Lists
    <3>1. k \in 1..Len(items) \/ k = Len(items) + 1
      BY <1>3, <2>3, ItemsAfter
    <3> QED
      BY <1>3, <2>1, <2>2, <2>3, <3>1, ItemsAfter
  <2>4. CASE ~Lists
    BY <1>3, <2>1, <2>4, ItemsAfter
  <2> QED
    BY <2>3, <2>4
<1>4. CoverFoundByRomName'
  BY <1>1, <1>3 DEF CoverFoundByRomName, Path
<1> QED
  BY <1>2, <1>4 DEF CoverInv

\* The files after a move: one was written at most, by the game at hand, or given up to a
\* commit that failed.
LEMMA FilesAfter ==
  ASSUME ExportTypeOK, LoopInv, Moves
  PROVE  \/ files' = files
         \/ \E target :
              /\ GameAtHand /\ Writes(target)
              /\ files' = [p \in DOMAIN files \union {target} |-> IF p = target THEN game ELSE files[p]]
         \/ \E target :
              /\ Completes /\ target.kind = "playlist"
              /\ files' = [p \in DOMAIN files \union {target} |-> IF p = target THEN game ELSE files[p]]
         \/ Fails /\ \E target, left : /\ target.kind = Output.kind
                                     /\ left \in {Held(target), game, Absent, Torn}
                                     /\ files' = Put(target, left)
<1>1. CASE \E target : Writes(target)
  <2>1. PICK target : Writes(target)
    BY <1>1
  <2>2. GameAtHand
    BY <2>1 DEF Writes, GameAtHand, Busy, Writing
  <2> QED
    BY <2>1, <2>2 DEF Writes
<1>2. CASE Completes
  BY <1>2, Zenon DEF Completes
<1>3. CASE Fails
  BY <1>3, Zenon DEF Fails
<1> QED
  BY <1>1, <1>2, <1>3, Zenon DEF Moves, Begin, BeginPlaylist, Stop, GoOn, Lists, Drops, Skips, Ends, Still

\* A ROM this export wrote is told for, once it is given up or listed.
Told(p, content) ==
  \/ content \in failed
  \/ \E k \in 1..Len(items) : items[k] = [path |-> p, game |-> content]

\* It may be the one at hand, committed or left by a commit that failed.
AtHand(p, content) ==
  \/ RomThere /\ p = rom /\ content = game
  \/ GameAtHand /\ exporter = "error" /\ content = game

LEMMA ListedMove ==
  ASSUME ExportTypeOK, LoopInv, Frame, Moves, ListedInv
  PROVE  ListedInv'
<1>1. CASE exported \in {"cancelled", "failed"}
  <2>1. Ends \/ Still \/ Stop
    BY <1>1 DEF Moves, Begin, BeginPlaylist, GoOn, Fails, Lists, Drops, Skips, Writes, Completes, LoopInv, Busy
  <2>2. exported' \in {"cancelled", "failed"}
    BY <1>1, <2>1 DEF Ends, Still, Stop
  <2> QED
    BY <2>2 DEF ListedInv
<1>2. CASE Stop
  BY <1>2 DEF Stop, ListedInv
<1>3. ASSUME exported \notin {"cancelled", "failed"}, ~Stop,
             NEW p \in DOMAIN files', p.kind = "rom", NEW c \in Nat, c = files'[p]
      PROVE  Told(p, c)' \/ AtHand(p, c)'
  <2>1. Told(p, c) => Told(p, c)'
    <3>1. failed \subseteq failed'
      BY DEF Moves, Begin, BeginPlaylist, Stop, GoOn, Fails, Lists, Drops, Skips, Writes, Completes, Ends,
             Still
    <3>2. \A k \in 1..Len(items) : k \in 1..Len(items') /\ items'[k] = items[k]
      BY ItemsAfter
    <3> QED
      BY <3>1, <3>2 DEF Told
  <2>2. CASE p \in DOMAIN files /\ c = files[p]
    <3>1. Told(p, c) \/ AtHand(p, c)
      BY <1>3, <2>2 DEF ListedInv, Told, AtHand
    <3>2. CASE Told(p, c)
      BY <2>1, <2>2, <3>2
    <3>3. CASE AtHand(p, c)
      <4>1. CASE Lists
        <5>1. p = rom /\ c = game
          BY <3>3, <4>1 DEF AtHand, Lists
        <5>2. /\ Len(items) + 1 \in 1..Len(items')
              /\ items'[Len(items) + 1] = [path |-> p, game |-> c]
          BY <4>1, <5>1, ItemsAfter
        <5> QED
          BY <5>2 DEF Told
      <4>2. CASE Drops
        <5>1. c = game /\ game \in failed'
          BY <3>3, <4>2 DEF AtHand, Drops, RomThere, Writing
        <5> QED
          BY <5>1 DEF Told
      <4>3. CASE GoOn \/ Fails \/ Still
        <5>1. /\ game' = game /\ rom' = rom
              /\ exporter = "error" => exporter' = "error"
              /\ (RomThere' <=> RomThere) /\ (GameAtHand' <=> GameAtHand)
          BY <4>3, AtHandAfter DEF RomThere, GameAtHand, GoOn, Fails, Still
        <5> QED
          BY <3>3, <5>1 DEF AtHand
      <4>4. CASE Skips \/ (\E target : Writes(target))
        <5>1. RomThere /\ p = rom /\ c = game
          BY <3>3, <4>4 DEF AtHand, Skips, Writes
        <5>2. RomThere' /\ rom' = rom /\ game' = game
          BY <4>4, <5>1, AtHandAfter DEF RomThere, Skips, Writes, Writing
        <5> QED
          BY <5>1, <5>2 DEF AtHand
      <4>5. CASE Begin \/ BeginPlaylist \/ Ends
        BY <3>3, <4>5 DEF AtHand, Begin, BeginPlaylist, Ends, RomThere, GameAtHand, Busy
      <4>6. CASE Completes
        BY <3>3, <4>6, AtHandAfter DEF AtHand, RomThere, GameAtHand, PlaylistAtHand
      <4> QED
        BY <1>3, <4>1, <4>2, <4>3, <4>4, <4>5, <4>6 DEF Moves
    <3> QED
      BY <3>1, <3>2, <3>3
  <2>3. CASE files' = files
    BY <1>3, <2>2, <2>3
  <2>4. ASSUME NEW target, GameAtHand, Writes(target),
               files' = [q \in DOMAIN files \union {target} |-> IF q = target THEN game ELSE files[q]]
        PROVE  Told(p, c)' \/ AtHand(p, c)'
    <3>1. CASE p = target
      <4>1. RomThere' /\ rom' = p /\ c = game'
        BY <1>3, <2>4, <3>1, AtHandAfter DEF Writes
      <4> QED
        BY <4>1 DEF AtHand
    <3>2. CASE p # target
      BY <1>3, <2>2, <2>4, <3>2
    <3> QED
      BY <3>1, <3>2
  <2>5. ASSUME NEW target, target.kind = "playlist",
               files' = [q \in DOMAIN files \union {target} |-> IF q = target THEN game ELSE files[q]]
        PROVE  Told(p, c)' \/ AtHand(p, c)'
    BY <1>3, <2>2, <2>5
  <2>6. ASSUME Fails,
               NEW target, NEW left, target.kind = Output.kind,
               left \in {Held(target), game, Absent, Torn}, files' = Put(target, left)
        PROVE  Told(p, c)' \/ AtHand(p, c)'
    <3>1. (p \in DOMAIN files /\ c = files[p]) \/ (p = target /\ c = left)
      BY <1>3, <2>6 DEF Put
    <3>2. ASSUME p = target, c = left
          PROVE  (p \in DOMAIN files /\ c = files[p]) \/ c = game
      BY <1>3, <2>6, <3>2, ExportAssumption DEF Held, Taken
    <3>3. CASE p = target /\ c = game
      <4>1. GameAtHand /\ exporter' = "error" /\ game' = game
        BY <1>3, <2>6, <3>3 DEF Fails, GameAtHand, Busy, Writing
      <4>2. GameAtHand'
        BY <2>6, <4>1, AtHandAfter DEF GameAtHand
      <4> QED
        BY <3>3, <4>1, <4>2 DEF AtHand
    <3> QED
      BY <2>2, <3>1, <3>2, <3>3
  <2> QED
    BY <2>3, <2>4, <2>5, <2>6, FilesAfter
<1>4. CASE exported \notin {"cancelled", "failed"} /\ ~Stop
  <2>1. \A p \in DOMAIN files' : p.kind = "rom" /\ files'[p] \in Nat =>
          \/ files'[p] \in failed'
          \/ \E k \in 1..Len(items') : items'[k] = [path |-> p, game |-> files'[p]]
          \/ RomThere' /\ p = rom' /\ files'[p] = game'
          \/ GameAtHand' /\ exporter' = "error" /\ files'[p] = game'
    BY <1>3, <1>4 DEF Told, AtHand
  <2> QED
    BY <2>1 DEF ListedInv
<1> QED
  BY <1>1, <1>2, <1>4

LEMMA SumMove ==
  ASSUME ExportTypeOK, LoopInv, Frame, Moves, SumInv
  PROVE  SumInv'
<1>1. N' = N /\ N \in Nat /\ game \in 0..N
  BY NIsNat DEF Frame, N
<1>2. Len(items) \in Nat /\ skipped \in Nat /\ Handled \in Nat
  BY AppendIsSequence DEF ExportTypeOK, Handled
<1>3. CASE Begin
  <2>1. game' = game + 1 /\ items' = items /\ Handled' = Handled /\ exporter' = "stage"
    BY <1>3 DEF Begin, Handled
  <2>2. GameAtHand' /\ ~PlaylistAtHand'
    BY <1>3, AtHandAfter DEF GameAtHand, PlaylistAtHand
  <2>3. Handled = game /\ exported' # "complete"
    BY <1>3 DEF Begin, SumInv, ExportAt, LoopInv
  <2>4. \A k \in 1..Len(items) : items[k].game \in 1..game' /\ items[k].game # game'
    BY <1>1, <2>1 DEF SumInv
  <2> QED
    BY <1>1, <1>2, <2>1, <2>2, <2>3, <2>4 DEF SumInv, ExportAt
<1>4. CASE BeginPlaylist
  <2>1. game' = game /\ game = N /\ items' = items /\ Handled' = Handled /\ exporter' = "stage"
    BY <1>4 DEF BeginPlaylist, Handled
  <2>2. ~GameAtHand' /\ exported' # "complete" /\ Handled = game
    BY <1>4, AtHandAfter DEF GameAtHand, PlaylistAtHand, BeginPlaylist, SumInv, ExportAt, LoopInv
  <2> QED
    BY <1>1, <2>1, <2>2 DEF SumInv, ExportAt
<1>5. CASE Lists
  <2>1. /\ RomThere /\ ~Busy' /\ exporter' = "game" /\ game' = game /\ skipped' = skipped
        /\ exported' # "complete" /\ ~GameAtHand' /\ ~PlaylistAtHand'
    BY <1>5, AtHandAfter DEF Lists, LoopInv, Busy, GameAtHand, PlaylistAtHand
  <2>2. /\ Len(items') = Len(items) + 1
        /\ \A k \in 1..Len(items) : items'[k] = items[k]
        /\ items'[Len(items) + 1] = [path |-> rom, game |-> game]
    BY <1>5, ItemsAfter
  <2>3. Len(items) + skipped + 1 = game /\ game \in 1..N
    BY <2>1 DEF SumInv, Handled, RomThere, LoopInv
  <2>4. \A k \in 1..Len(items) : items[k].game \in 1..game /\ items[k].game # game
    BY <2>1 DEF SumInv, RomThere
  <2>5. Handled' = game'
    BY <1>2, <2>1, <2>2, <2>3 DEF Handled
  <2>6. \A k \in 1..Len(items') : k \in 1..Len(items) \/ k = Len(items) + 1
    BY <1>2, <2>2
  <2>7. \A k \in 1..Len(items') : items'[k].game \in 1..game'
    BY <2>1, <2>2, <2>3, <2>4, <2>6
  <2>8. ASSUME NEW j \in 1..Len(items'), NEW k \in 1..Len(items'), j < k
        PROVE  items'[j].game < items'[k].game
    <3>1. j \in 1..Len(items) /\ items'[j] = items[j]
      BY <1>2, <2>2, <2>6, <2>8
    <3>2. CASE k \in 1..Len(items)
      BY <2>2, <2>8, <3>1, <3>2 DEF SumInv
    <3>3. CASE k = Len(items) + 1
      <4>1. items'[k].game = game /\ items[j].game \in 1..game /\ items[j].game # game
        BY <2>2, <2>4, <3>1, <3>3
      <4> QED
        BY <1>1, <3>1, <4>1
    <3> QED
      BY <2>6, <3>2, <3>3
  <2> QED
    BY <2>1, <2>5, <2>7, <2>8 DEF SumInv, ExportAt
<1>6. CASE Drops
  <2>1. /\ GameAtHand /\ ~Busy' /\ exporter' = "game" /\ game' = game /\ skipped' = skipped + 1
        /\ items' = items /\ exported' # "complete" /\ ~GameAtHand' /\ ~PlaylistAtHand'
    BY <1>6, AtHandAfter DEF Drops, LoopInv, Busy, GameAtHand, PlaylistAtHand
  <2>2. Len(items) + skipped + 1 = game
    BY <2>1 DEF SumInv, Handled
  <2>3. Handled' = game'
    BY <1>2, <2>1, <2>2 DEF Handled
  <2> QED
    BY <2>1, <2>3 DEF SumInv, ExportAt
<1>7. CASE GoOn \/ Fails \/ Still
  <2>1. /\ (GameAtHand' <=> GameAtHand) /\ (PlaylistAtHand' <=> PlaylistAtHand)
        /\ UNCHANGED <<game, items, exported>> /\ Handled' = Handled
    BY <1>7, AtHandAfter DEF GameAtHand, PlaylistAtHand, GoOn, Fails, Still, Handled
  <2>2. exporter' = "game" => exporter = "game"
    BY <1>7 DEF GoOn, Fails, Still
  <2> QED
    BY <1>1, <2>1, <2>2 DEF SumInv, ExportAt
<1>8. CASE Skips \/ (\E target : Writes(target))
  <2>1. /\ GameAtHand /\ ~PlaylistAtHand' /\ exporter' = "stage"
        /\ UNCHANGED <<game, items, exported>> /\ Handled' = Handled
    BY <1>8, AtHandAfter DEF Skips, Writes, Handled, PlaylistAtHand
  <2> QED
    BY <1>1, <2>1 DEF SumInv, ExportAt
<1>9. CASE Completes
  <2>1. /\ PlaylistAtHand /\ ~Busy' /\ ~GameAtHand' /\ ~PlaylistAtHand' /\ exporter' = "finish"
        /\ UNCHANGED <<game, items>> /\ Handled' = Handled
    BY <1>9, AtHandAfter DEF Completes, GameAtHand, PlaylistAtHand, Handled
  <2>2. Handled = N
    BY <2>1 DEF SumInv
  <2> QED
    BY <1>1, <2>1, <2>2 DEF SumInv, ExportAt
<1>10. CASE Stop \/ Ends
  <2>1. /\ ~Busy' /\ ~GameAtHand' /\ ~PlaylistAtHand' /\ exporter' # "game"
        /\ UNCHANGED <<game, items>> /\ Handled' = Handled
        /\ exported' = "complete" => exported = "complete"
    BY <1>10, AtHandAfter DEF Stop, Ends, GameAtHand, PlaylistAtHand, Handled
  <2> QED
    BY <1>1, <2>1 DEF SumInv, ExportAt
<1> QED
  BY <1>3, <1>4, <1>5, <1>6, <1>7, <1>8, <1>9, <1>10 DEF Moves

------------------------------------------------------------------------------
(* The theorems. *)

ExportInv == ConsentInv /\ ExportTypeOK /\ LoopInv /\ RomInv /\ CoverInv /\ ListedInv /\ SumInv

LEMMA ExportInitInv ==
  ASSUME ExportInit
  PROVE  ExportInv
<1>1. N \in Nat
  <2>1. games \in Seq([base : STRING, cover : BOOLEAN, saves : Seq([object : Nat, entry : Nat])])
    BY ExportAssumption DEF ExportInit
  <2> QED
    BY <2>1, LenProperties DEF N
<1>2. /\ games \in Exports /\ game = 0 /\ todo = <<>> /\ items = <<>> /\ skipped = 0
      /\ exporter = "game" /\ exported = "none" /\ mode \in {"Ask", "Direct"}
  BY DEF ExportInit
<1>3. /\ ~Busy /\ ~GameAtHand /\ ~PlaylistAtHand /\ ~RomThere
      /\ Len(items) = 0 /\ Len(todo) = 0 /\ items \in Seq({})
  BY <1>2, EmptySeq DEF Busy, GameAtHand, PlaylistAtHand, RomThere
<1>4. ConsentInv
  BY <1>2 DEF ConsentInv
<1>5. ExportTypeOK
  <2>1. todo \in Seq(Outputs)
    BY <1>2, EmptySeq
  <2>2. game \in 0..N /\ skipped \in Nat
    BY <1>1, <1>2
  <2>3. IsSequence(items)
    BY <1>3 DEF IsSequence
  <2> QED
    BY <1>2, <2>1, <2>2, <2>3 DEF ExportTypeOK
<1>6. LoopInv
  BY <1>2, <1>3 DEF LoopInv, ExportAt
<1>7. RomInv /\ CoverInv
  BY <1>3 DEF RomInv, CoverInv, ItemsLeadToTheirGames, CoverFoundByRomName
<1>8. ListedInv
  <2>1. \A p \in DOMAIN files : files[p] = Earlier
    BY DEF ExportInit
  <2> QED
    BY <2>1, ExportAssumption DEF ListedInv
<1>9. SumInv
  BY <1>2, <1>3 DEF SumInv, Handled, ExportAt
<1> QED
  BY <1>4, <1>5, <1>6, <1>7, <1>8, <1>9 DEF ExportInv

LEMMA ExportStepInv ==
  ASSUME ExportInv, [ExportNext]_exportVars
  PROVE  ExportInv'
<1>1. Moves /\ Frame
  BY StepMoves, StepFrame DEF ExportInv
<1>2. ConsentInv'
  BY ConsentStep DEF ExportInv
<1> QED
  BY <1>1, <1>2, TypeMove, LoopMove, RomMove, CoverMove, ListedMove, SumMove DEF ExportInv

LEMMA ExportAlways == ExportSpec => []ExportInv
<1>1. ExportInit => ExportInv
  BY ExportInitInv
<1>2. ExportInv /\ [ExportNext]_exportVars => ExportInv'
  BY ExportStepInv
<1> QED
  BY <1>1, <1>2, PTL DEF ExportSpec

\* A playlist item leads to its own game's ROM, whatever was renamed, skipped, replaced
\* or given up on the way (push of LplExportItem with the name on_output returned), for
\* every list of games; but for a replacement the user asked for.
THEOREM ItemsAlwaysLeadToTheirGames == ExportSpec => []ItemsLeadToTheirGames
<1>1. ExportInv => ItemsLeadToTheirGames
  BY DEF ExportInv, RomInv
<1> QED
  BY <1>1, ExportAlways, PTL

\* The cover of every listed game is found under the file name of its ROM, or was itself
\* given another name (the cover's name is made from committed_rom's stem).
THEOREM CoversAlwaysFound == ExportSpec => []CoverFoundByRomName
<1>1. ExportInv => CoverFoundByRomName
  BY DEF ExportInv, CoverInv
<1> QED
  BY <1>1, ExportAlways, PTL

\* A complete export lists every ROM it wrote, but for those of games given up after
\* their ROM was committed.
THEOREM RomsAlwaysListed == ExportSpec => []RomsAreListed
<1>1. ExportInv => RomsAreListed
  <2> SUFFICES ASSUME ListedInv, ExportAt("done"), exported = "complete",
                      NEW p \in DOMAIN files, p.kind = "rom", files[p] \in Nat
               PROVE  \/ files[p] \in failed
                      \/ \E k \in 1..Len(items) : items[k] = [path |-> p, game |-> files[p]]
    BY DEF ExportInv, RomsAreListed
  <2>1. ~GameAtHand /\ ~RomThere
    BY DEF RomThere, GameAtHand, Busy, ExportAt
  <2> QED
    BY <2>1 DEF ListedInv
<1> QED
  BY <1>1, ExportAlways, PTL

\* What a complete export lists and what it counts as skipped add up to its games, and
\* the items keep the order of the games.
THEOREM GamesAlwaysAccountedFor == ExportSpec => []GamesAccountedFor
<1>1. ExportInv => GamesAccountedFor
  BY DEF ExportInv, SumInv, Handled, GamesAccountedFor
<1> QED
  BY <1>1, ExportAlways, PTL

=============================================================================
