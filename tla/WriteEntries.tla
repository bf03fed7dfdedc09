---------------------------- MODULE WriteEntries ----------------------------
(***************************************************************************)
(* Writer::write_path_entries: what it makes of its arguments, and the     *)
(* order in which the container is written, its mutable region copied, its *)
(* saves added, the whole validated and published.  Any call to the disk   *)
(* or to libromx (external) may fail.  The steps of publishing itself are  *)
(* PublishOutput's.                                                        *)
(*                                                                         *)
(* A virtual path is a pair <<case, letters>> whose byte order is that of  *)
(* the pair (upper case sorts first).                                      *)
(***************************************************************************)
EXTENDS Naturals, Sequences, FiniteSets, Functions

CONSTANT Requests  \* the arguments the callers pass

Entries == [path : Nat \X Nat, format : STRING, regular : BOOLEAN, entrypoint : BOOLEAN]

ASSUME RequestAssumption ==
  Requests \subseteq
    [entries : Seq(Entries), metadata : {"none", "valid", "bad"}, override : {"none", "bad"},
     cover : {"none", "png", "bad"}, temporary : BOOLEAN, replace : BOOLEAN, region : BOOLEAN,
     saves : Nat, capacity : Nat, validate : BOOLEAN]

VARIABLES
  request,  \* the arguments of the call
  step,     \* what it does next
  order,    \* `normalized`, as it is passed to libromx
  inputs,   \* the TempInputs on disk
  stuck,    \* files in the temporary directory that nothing removes
  stage,    \* what the file at hand holds: a StagedOutput, or the output itself
  output,   \* what the output path holds
  report    \* what the call returned

writeVars == <<request, step, order, inputs, stuck, stage, output, report>>

Old == {<<"old", 0>>}  \* the content of an output that was there before
Nothing == {}          \* no file
Partial == {<<"torn", 0>>}
Saves == {<<"save", k>> : k \in 1..request.saves}

\* What the caller asked to be in the file.
Asked ==
  {<<"payload", 0>>} \union (IF request.region THEN {<<"region", 0>>} ELSE {}) \union Saves

\* The writer stages only what it adds to after libromx has written, and only when the
\* caller has not staged the output already.
Staged == ~request.temporary /\ (request.region \/ request.saves > 0)

WriteInit ==
  /\ request \in Requests
  /\ step = "prepare" /\ order = <<>> /\ inputs = {} /\ stuck = {}
  /\ stage = Nothing
  /\ output \in {Nothing, Old}
  /\ report = "none"

------------------------------------------------------------------------------
(* The arguments. *)

Before(p, q) == p[1] < q[1] \/ (p[1] = q[1] /\ p[2] < q[2])

\* Defect: the entries are sorted by path alone.
Precedes_PathOnly(x, y) == Before(x.path, y.path)

\* The entrypoint first, the others in the byte order of their paths.
Precedes(x, y) ==
  \/ x.entrypoint /\ ~y.entrypoint
  \/ x.entrypoint = y.entrypoint /\ Before(x.path, y.path)

Sorted(s) == \A i \in 1..(Len(s) - 1) : ~Precedes(s[i + 1], s[i])

\* All orders of the entries; which of those that compare equal is first is nobody's matter.
Orders(s) == {[i \in DOMAIN s |-> s[p[i]]] : p \in Bijection(DOMAIN s, DOMAIN s)}
Normalized == CHOOSE s \in Orders(request.entries) : Sorted(s)

\* Paths that differ in case only, of neighbours in that order.
Collides == \E i \in 1..(Len(request.entries) - 1) : Normalized[i].path[2] = Normalized[i + 1].path[2]

\* infer_platform_id, format_id and launch format have defaults; a format that is
\* neither given nor registered, and a source that is no regular file, are errors.
Acceptable ==
  /\ request.entries # <<>>
  /\ \A i \in 1..Len(request.entries) :
       request.entries[i].format # "unknown" /\ request.entries[i].regular
  /\ Cardinality({i \in 1..Len(request.entries) : request.entries[i].entrypoint}) = 1
  /\ ~Collides

\* validate_metadata_template, then crc32 and cover are filled in, and the result is
\* validated again: an override that is no CRC32 is refused, a placeholder is not.
MetadataAccepted ==
  request.metadata # "none" => request.metadata = "valid" /\ request.override # "bad"

\* Defect: a TempInput removes its file only when the call succeeds.
EndInputs_Kept(outcome) == outcome = "ok"

\* Drop of the TempInputs, in whichever way the call returns.
EndInputs(outcome) == TRUE

Finish(outcome) ==
  /\ report' = outcome /\ step' = "done"
  /\ inputs' = IF EndInputs(outcome) THEN {} ELSE inputs

\* Drop of a StagedOutput that was not published.
Drop == IF Staged THEN stage' = Nothing ELSE UNCHANGED stage

Prepare ==
  /\ step = "prepare"
  /\ \/ /\ Acceptable /\ MetadataAccepted /\ request.cover # "bad"
        /\ order' = Normalized
        /\ step' = "inputs"
        /\ UNCHANGED <<inputs, report>>
     \/ ~(Acceptable /\ MetadataAccepted /\ request.cover # "bad") /\ Finish("err") /\ UNCHANGED order
  /\ UNCHANGED <<request, stuck, stage, output>>

WantedInputs ==
  (IF request.metadata # "none" THEN {"metadata"} ELSE {})
    \union (IF request.cover # "none" THEN {"cover"} ELSE {})

\* TempInput::create: a file that is created and then not written in full is nobody's.
CreateInput ==
  /\ step = "inputs"
  /\ \/ /\ inputs = WantedInputs /\ step' = "target"
        /\ UNCHANGED <<inputs, stuck, report>>
     \/ \E i \in WantedInputs \ inputs :
          /\ i = "cover" => "metadata" \notin WantedInputs \ inputs
          /\ \/ inputs' = inputs \union {i} /\ UNCHANGED <<step, stuck, report>>
             \/ Finish("err") /\ stuck' \in {stuck, stuck \union {i}}
  /\ UNCHANGED <<request, order, stage, output>>

\* An output that exists is refused without replace_existing; StagedOutput::new may fail.
ChooseTarget ==
  /\ step = "target"
  /\ \/ (output = Nothing \/ request.replace) /\ step' = "write" /\ UNCHANGED <<inputs, report>>
     \/ Finish("err")
  /\ UNCHANGED <<request, order, stuck, stage, output>>

------------------------------------------------------------------------------
(* The container. *)

\* What a file holds that a step adds `parts` to.
Add(parts) ==
  IF Staged THEN stage' = stage \union parts /\ UNCHANGED output
  ELSE output' = (output \ Old) \union parts /\ UNCHANGED stage

\* A step of libromx fails: what it leaves in the file it writes to is not known,
\* but libromx replaces an output it does not write directly as a whole or not at all.
Fail ==
  /\ Finish("err") /\ Drop
  /\ IF Staged \/ ~request.temporary THEN UNCHANGED output
     ELSE output' \in {output, output \union Partial, (output \ Old) \union Partial}

\* romx_writer_write_path_entries.
WriteContainer ==
  /\ step = "write"
  /\ \/ Add({<<"payload", 0>>}) /\ step' = "region" /\ UNCHANGED <<inputs, report>>
     \/ Fail
  /\ UNCHANGED <<request, order, stuck>>

\* copy_mutable_region.
CopyRegion ==
  /\ step = "region"
  /\ \/ ~request.region /\ step' = "saves" /\ UNCHANGED <<inputs, report, stage, output>>
     \/ request.region /\ Add({<<"region", 0>>}) /\ step' = "saves" /\ UNCHANGED <<inputs, report>>
     \/ request.region /\ Fail
  /\ UNCHANGED <<request, order, stuck>>

\* write_save_bundles, which needs a region to write to.
WriteSaves ==
  /\ step = "saves"
  /\ \/ request.saves = 0 /\ step' = "validate" /\ UNCHANGED <<inputs, report, stage, output>>
     \/ request.saves > 0 /\ request.capacity = 0 /\ Fail
     \/ /\ request.saves > 0 /\ request.capacity > 0
        /\ \/ Add(Saves) /\ step' = "validate" /\ UNCHANGED <<inputs, report>>
           \/ Fail
  /\ UNCHANGED <<request, order, stuck>>

\* Defect: the output is published before the saves are written.
PublishReady_Early == step \in {"saves", "publish"}

\* The stage is published when all is written and validated.
PublishReady == step = "publish"

\* Reader::open and validate, of a stage only.
ValidateStage ==
  /\ step = "validate"
  /\ \/ step' = "publish" /\ UNCHANGED <<inputs, report, stage, output>>
     \/ request.validate /\ Staged /\ Fail
  /\ UNCHANGED <<request, order, stuck>>

\* StagedOutput::publish, or nothing left to do.
Publish ==
  /\ PublishReady
  /\ \/ /\ ~Staged /\ Finish("ok") /\ UNCHANGED <<stage, output>>
     \/ /\ Staged
        /\ \/ output' = stage /\ stage' = Nothing /\ Finish("ok")
           \/ Fail
  /\ UNCHANGED <<request, order, stuck>>

WriteNext ==
  \/ Prepare \/ CreateInput \/ ChooseTarget
  \/ WriteContainer \/ CopyRegion \/ WriteSaves \/ ValidateStage \/ Publish

WriteSpec == WriteInit /\ [][WriteNext]_writeVars

------------------------------------------------------------------------------
(* Properties. *)

\* An output path never shows a container that lacks part of what was asked for: it
\* holds the old output, or all of payload, region and saves. Only the caller's own
\* `.tmp` (output_is_temporary) is seen half-written, and holds all once Ok is returned.
OutputComplete ==
  /\ ~request.temporary => output \in {Nothing, Old, Asked}
  /\ report = "ok" => output = Asked

\* A call that fails leaves the output as it was, whichever step failed, but for a
\* caller's own `.tmp`; and no stage and no temporary input outlives the call, except
\* an input whose own bytes could not be written (writer.rs creates it before its owner).
FailureLeavesNothing ==
  step = "done" =>
    /\ stage = Nothing /\ inputs = {}
    /\ Cardinality(stuck) <= 1 /\ (report = "ok" => stuck = {})
    /\ report = "err" /\ ~request.temporary => output \in {Nothing, Old}

\* libromx gets the entrypoint first, whose bytes begin at payload offset zero, and then
\* the other entries in strict byte order, all registered.
EntriesInOrder ==
  order # <<>> =>
    /\ order[1].entrypoint
    /\ \A i \in 2..Len(order) : ~order[i].entrypoint /\ order[i].format # "unknown"
    /\ \A i \in 2..(Len(order) - 1) : Before(order[i].path, order[i + 1].path)
=============================================================================
