---------------------------- MODULE PublishOutput ----------------------------
(***************************************************************************)
(* How romx-core brings a finished file to its destination, system call by *)
(* system call, with several writers at work on one destination in one or  *)
(* more processes.  There are three ways:                                  *)
(*   "staged"  a ROMX with SAVE objects is written to a reserved path      *)
(*             `.<name>.stage-<serial>`, given its objects, validated, and *)
(*             moved (StagedOutput);                                       *)
(*   "native"  a ROMX without them is published by libromx itself;         *)
(*   "stream"  any other file goes through write_atomic_stream.            *)
(* Outputs a caller has packed straight to its own `.tmp` are not          *)
(* published here; ConversionSession and CommitStaged have them.           *)
(*                                                                         *)
(* What a file holds is abstracted to whose body and whose SAVE objects it *)
(* has, and whether it is whole.                                           *)
(***************************************************************************)
EXTENDS Naturals

CONSTANTS
  Writers,      \* calls of the writer (bounds their number)
  Processes,    \* process ids
  Process,      \* Process[w]: the process that makes the call
  Way,          \* Way[w]: "staged", "native" or "stream"
  Replacing,    \* the writers with replace_existing
  Validating,   \* the writers with post_write_validation
  Windows,      \* cfg(windows)
  Crashing,     \* the processes that may end at any moment, and be started again
  MaxSerial,    \* bound on the serials TEMP_COUNTER gives out
  MaxAttempts,  \* the retries of a reservation, 8 in the code
  Absent,       \* content of a path with no file
  Placeholder,  \* content of a reserved path
  Old,          \* content of a destination some other program wrote
  None          \* no stage yet

Serials == 0..MaxSerial
Romx == [body : Writers, saves : SUBSET Writers, whole : BOOLEAN]
Content == Romx \union {Absent, Placeholder, Old}

ASSUME PublishAssumption ==
  /\ Process \in [Writers -> Processes]
  /\ Way \in [Writers -> {"staged", "native", "stream"}]
  /\ Replacing \subseteq Writers
  /\ Validating \subseteq Writers
  /\ Windows \in BOOLEAN
  /\ Crashing \subseteq Processes
  /\ MaxSerial \in Nat /\ MaxAttempts \in Nat
  /\ None \notin Serials
  /\ {Absent, Placeholder, Old} \intersect Romx = {}
  /\ Absent # Placeholder /\ Absent # Old /\ Placeholder # Old

VARIABLES
  counter,    \* counter[p]: TEMP_COUNTER of process p
  pc,         \* where each writer stands
  stage,      \* stage[w]: the serial of its StagedOutput
  attempts,   \* its local of that name
  stageFile,  \* stageFile[s]: what `.<name>.stage-<s>` holds
  temp,       \* temp[w]: what the `.<name>.tmp-<pid>-<serial>` of a stream holds
  dest,       \* what the destination holds
  existed,    \* history: the destination has existed
  excused     \* history: writers that ended with their process, or whose removal failed

vars == <<counter, pc, stage, attempts, stageFile, temp, dest, existed, excused>>

\* A StagedOutput exists: its path is meant to be this writer's alone.
StageLabels == {"write", "save", "validate", "check", "remove", "rename", "drop"}
StreamLabels == {"stream", "move", "moveRemove", "moveAgain", "streamDrop"}
Ended == {"done", "failed", "crashed"}
Labels == {"idle", "take", "reserve", "release", "native"}
            \union StageLabels \union StreamLabels \union Ended

TypeOK ==
  /\ counter \in [Processes -> 0..(MaxSerial + 1)]
  /\ pc \in [Writers -> Labels]
  /\ stage \in [Writers -> Serials \union {None}]
  /\ attempts \in [Writers -> 0..MaxAttempts]
  /\ stageFile \in [Serials -> Content]
  /\ temp \in [Writers -> Content]
  /\ dest \in Content
  /\ existed \in BOOLEAN
  /\ excused \subseteq Writers

Init ==
  /\ counter = [p \in Processes |-> 0]
  /\ pc = [w \in Writers |-> "idle"]
  /\ stage = [w \in Writers |-> None]
  /\ attempts = [w \in Writers |-> 0]
  /\ stageFile = [s \in Serials |-> Absent]
  /\ temp = [w \in Writers |-> Absent]
  /\ dest \in {Absent, Old}
  /\ existed = (dest # Absent)
  /\ excused = {}

------------------------------------------------------------------------------

At(w, label) == pc[w] = label
Goto(w, label) == pc' = [pc EXCEPT ![w] = label]
SetStage(w, content) == stageFile' = [stageFile EXCEPT ![stage[w]] = content]
Excuse(w) == excused' = excused \union {w}

\* What the writer was asked to write.
Output(w) == [body |-> w, saves |-> IF Way[w] = "staged" THEN {w} ELSE {}, whole |-> TRUE]

\* Content appears at the destination.
Publish(content) == dest' = content /\ existed' = TRUE

\* An existing destination is refused without replace_existing.
Refused(w) == dest # Absent /\ w \notin Replacing

\* The call starts: its inputs are normalised, the metadata and the cover are written to
\* temporary inputs, each of which takes a serial, and the destination is looked at.
Begin(w) ==
  /\ At(w, "idle")
  /\ \/ /\ Way[w] = "stream"
        /\ UNCHANGED counter
     \/ /\ Way[w] # "stream"
        /\ \E inputs \in 0..2 :
             /\ counter[Process[w]] + inputs <= MaxSerial + 1
             /\ counter' = [counter EXCEPT ![Process[w]] = @ + inputs]
  /\ \/ Goto(w, "failed")
     \/ ~Refused(w) /\ Goto(w, CASE Way[w] = "staged" -> "take"
                                 [] Way[w] = "native" -> "native"
                                 [] Way[w] = "stream" -> "stream")
  /\ UNCHANGED <<stage, attempts, stageFile, temp, dest, existed, excused>>

------------------------------------------------------------------------------
(* StagedOutput. *)

\* Defect: the serial is read, and stored back by a later call.
Advance_Lost(p) == counter' = counter

\* TEMP_COUNTER.fetch_add.
Advance(p) == counter' = [counter EXCEPT ![p] = @ + 1]

\* A serial is taken for the stage path.
Take(w) ==
  /\ At(w, "take")
  /\ counter[Process[w]] <= MaxSerial
  /\ stage' = [stage EXCEPT ![w] = counter[Process[w]]]
  /\ Advance(Process[w])
  /\ Goto(w, "reserve")
  /\ UNCHANGED <<attempts, stageFile, temp, dest, existed, excused>>

\* create_new: a path that exists is given up for the next one, a few times.
Reserve(w) ==
  /\ At(w, "reserve")
  /\ \/ /\ stageFile[stage[w]] = Absent
        /\ SetStage(w, Placeholder)
        /\ Goto(w, "release")
        /\ UNCHANGED attempts
     \/ /\ stageFile[stage[w]] # Absent /\ attempts[w] < MaxAttempts
        /\ attempts' = [attempts EXCEPT ![w] = @ + 1]
        /\ Goto(w, "take")
        /\ UNCHANGED stageFile
     \/ /\ Goto(w, "failed")
        /\ UNCHANGED <<attempts, stageFile>>
  /\ UNCHANGED <<counter, stage, temp, dest, existed, excused>>

\* The placeholder is removed, so that libromx does not take it for an output; there is
\* no StagedOutput to drop yet when that fails.
Release(w) ==
  /\ At(w, "release")
  /\ \/ /\ stageFile[stage[w]] # Absent
        /\ SetStage(w, Absent)
        /\ Goto(w, "write")
        /\ UNCHANGED excused
     \/ /\ Goto(w, "failed")
        /\ Excuse(w)
        /\ UNCHANGED stageFile
  /\ UNCHANGED <<counter, stage, attempts, temp, dest, existed>>

\* libromx publishes the immutable container to the stage path, or leaves it alone.
Write(w) ==
  /\ At(w, "write")
  /\ \/ /\ stageFile[stage[w]] = Absent \/ w \in Replacing
        /\ SetStage(w, [body |-> w, saves |-> {}, whole |-> TRUE])
        /\ Goto(w, "save")
     \/ /\ Goto(w, "drop")
        /\ UNCHANGED stageFile
  /\ UNCHANGED <<counter, stage, attempts, temp, dest, existed, excused>>

\* Defect: an error of the SAVE objects is not looked at.
AfterFailedSave_GoesOn == "validate"

\* An error of the SAVE objects ends the call.
AfterFailedSave == "drop"

\* The mutable region is copied and the SAVE bundles are written into the container,
\* which a failure may leave as it was or torn.
Save(w) ==
  /\ At(w, "save")
  /\ \/ /\ stageFile[stage[w]] \in Romx
        /\ SetStage(w, [stageFile[stage[w]] EXCEPT !.saves = @ \union {w}])
        /\ Goto(w, "validate")
     \/ /\ \/ UNCHANGED stageFile
           \/ /\ stageFile[stage[w]] \in Romx
              /\ SetStage(w, [stageFile[stage[w]] EXCEPT !.whole = FALSE])
        /\ Goto(w, AfterFailedSave)
  /\ UNCHANGED <<counter, stage, attempts, temp, dest, existed, excused>>

\* Validation refuses a torn container.
Validate(w) ==
  /\ At(w, "validate")
  /\ \/ /\ w \in Validating => stageFile[stage[w]] \in Romx /\ stageFile[stage[w]].whole
        /\ Goto(w, "check")
     \/ w \in Validating /\ Goto(w, "drop")
  /\ UNCHANGED <<counter, stage, attempts, stageFile, temp, dest, existed, excused>>

\* Defect: the destination is removed first on every system.
RemovesFirst_Always(w) == dest # Absent /\ w \in Replacing

\* On Windows publish removes the destination before the move.
RemovesFirst(w) == Windows /\ dest # Absent /\ w \in Replacing

\* publish looks at the destination again.
Check(w) ==
  /\ At(w, "check")
  /\ \/ Refused(w) /\ Goto(w, "drop")
     \/ ~Refused(w) /\ RemovesFirst(w) /\ Goto(w, "remove")
     \/ ~Refused(w) /\ ~RemovesFirst(w) /\ Goto(w, "rename")
  /\ UNCHANGED <<counter, stage, attempts, stageFile, temp, dest, existed, excused>>

Remove(w) ==
  /\ At(w, "remove")
  /\ \/ /\ dest # Absent
        /\ dest' = Absent
        /\ Goto(w, "rename")
     \/ /\ Goto(w, "drop")
        /\ UNCHANGED dest
  /\ UNCHANGED <<counter, stage, attempts, stageFile, temp, existed, excused>>

\* The staged file is moved over the destination.
Rename(w) ==
  /\ At(w, "rename")
  /\ \/ /\ stageFile[stage[w]] # Absent
        /\ Publish(stageFile[stage[w]])
        /\ SetStage(w, Absent)
        /\ Goto(w, "done")
     \/ /\ Goto(w, "drop")
        /\ UNCHANGED <<stageFile, dest, existed>>
  /\ UNCHANGED <<counter, stage, attempts, temp, excused>>

\* Defect: Drop takes every output for committed.
Drops_Never(w) == FALSE

\* Drop removes what was not committed.
Drops(w) == TRUE

\* StagedOutput::drop on every error; whether the removal worked is not looked at.
Drop(w) ==
  /\ At(w, "drop")
  /\ \/ /\ Drops(w)
        /\ SetStage(w, Absent)
        /\ UNCHANGED excused
     \/ /\ Drops(w)
        /\ Excuse(w)
        /\ UNCHANGED stageFile
     \/ /\ ~Drops(w)
        /\ UNCHANGED <<stageFile, excused>>
  /\ Goto(w, "failed")
  /\ UNCHANGED <<counter, stage, attempts, temp, dest, existed>>

------------------------------------------------------------------------------
(* libromx alone, and write_atomic_stream. *)

\* libromx publishes the container atomically.
Native(w) ==
  /\ At(w, "native")
  /\ \/ /\ ~Refused(w)
        /\ Publish(Output(w))
        /\ Goto(w, "done")
     \/ /\ Goto(w, "failed")
        /\ UNCHANGED <<dest, existed>>
  /\ UNCHANGED <<counter, stage, attempts, stageFile, temp, excused>>

\* The temporary file is named with the process and a serial, created, written and synced;
\* a failure may leave it torn.
Stream(w) ==
  /\ At(w, "stream")
  /\ counter[Process[w]] <= MaxSerial
  /\ Advance(Process[w])
  /\ \/ /\ temp' = [temp EXCEPT ![w] = Output(w)]
        /\ Goto(w, "move")
     \/ /\ temp' \in {temp, [temp EXCEPT ![w] = [Output(w) EXCEPT !.whole = FALSE]]}
        /\ Goto(w, "streamDrop")
  /\ UNCHANGED <<stage, attempts, stageFile, dest, existed, excused>>

\* The move, and on Windows a second one after the destination was removed.
Move(w) ==
  /\ At(w, "move") \/ At(w, "moveAgain")
  /\ \/ /\ Publish(temp[w])
        /\ temp' = [temp EXCEPT ![w] = Absent]
        /\ Goto(w, "done")
     \/ /\ At(w, "move") /\ RemovesFirst(w)
        /\ Goto(w, "moveRemove")
        /\ UNCHANGED <<temp, dest, existed>>
     \/ /\ At(w, "moveAgain") \/ ~RemovesFirst(w)
        /\ Goto(w, "streamDrop")
        /\ UNCHANGED <<temp, dest, existed>>
  /\ UNCHANGED <<counter, stage, attempts, stageFile, excused>>

MoveRemove(w) ==
  /\ At(w, "moveRemove")
  /\ \/ /\ dest # Absent
        /\ dest' = Absent
        /\ Goto(w, "moveAgain")
     \/ /\ Goto(w, "streamDrop")
        /\ UNCHANGED dest
  /\ UNCHANGED <<counter, stage, attempts, stageFile, temp, existed, excused>>

StreamDrop(w) ==
  /\ At(w, "streamDrop")
  /\ \/ temp' = [temp EXCEPT ![w] = Absent] /\ UNCHANGED excused
     \/ Excuse(w) /\ UNCHANGED temp
  /\ Goto(w, "failed")
  /\ UNCHANGED <<counter, stage, attempts, stageFile, dest, existed>>

------------------------------------------------------------------------------

Step(w) ==
  \/ Begin(w) \/ Take(w) \/ Reserve(w) \/ Release(w) \/ Write(w) \/ Save(w) \/ Validate(w)
  \/ Check(w) \/ Remove(w) \/ Rename(w) \/ Drop(w) \/ Native(w)
  \/ Stream(w) \/ Move(w) \/ MoveRemove(w) \/ StreamDrop(w)

\* A process ends with all its writers and is started again: its counter is new, what is
\* on disk stays.
Crash(p) ==
  LET lost == {w \in Writers : Process[w] = p /\ pc[w] \notin Ended \union {"idle"}}
  IN /\ lost # {}
     /\ pc' = [w \in Writers |-> IF w \in lost THEN "crashed" ELSE pc[w]]
     /\ excused' = excused \union lost
     /\ counter' = [counter EXCEPT ![p] = 0]
     /\ UNCHANGED <<stage, attempts, stageFile, temp, dest, existed>>

Next ==
  \/ \E w \in Writers : Step(w)
  \/ \E p \in Crashing : Crash(p)

Spec == Init /\ [][Next]_vars

------------------------------------------------------------------------------

\* writer.rs:23 calls a StagedOutput "A destination reserved for the complete write
\* transaction": no two writers have the same one at a time, although the file that
\* reserved it is gone, a process may restart with its counter at 0 and find what the one
\* before it left.
StageOwned ==
  \A v, w \in Writers :
    pc[v] \in StageLabels /\ pc[w] \in StageLabels /\ stage[v] = stage[w] => v = w

\* Whoever reads the destination finds nothing, the file that was there, or all that one
\* writer was asked to write, with its own SAVE objects.
DestinationWhole ==
  dest \in {Absent, Old} \union {Output(w) : w \in Writers}

\* Every way of bringing a file to its destination, with the others at work on it, is one
\* step to whoever reads there: the output appears whole, with its own SAVE objects, in the
\* step by which its writer succeeds; what fails, is refused or ends with its process leaves
\* no trace, but for the destination removed on Windows to make room.  (writer.rs:23-27: "SAVE objects are then added and validated before the path is
\* moved into place.  If any post-write step fails, Drop [...] leaves an existing destination
\* untouched.")
Promise == INSTANCE AtomicOutput WITH
  Wanted <- [w \in Writers |-> Output(w)],
  call <- [w \in Writers |-> IF pc[w] \in Ended \union {"idle"} THEN pc[w] ELSE "busy"]
PublishesAtomically == Promise!Spec

\* A destination that exists is not lost when a writer fails: it is missing at most while
\* a writer is about to move its file there.  (writer.rs:26: Drop "leaves an existing
\* destination untouched".)
NeverLost ==
  existed => dest # Absent \/ \E w \in Writers : pc[w] \in {"rename", "moveAgain"}

\* Every stage or temporary file on disk belongs to a writer at work, or to one that
\* ended with its process or could not remove it.
NoOrphan ==
  /\ \A s \in Serials : stageFile[s] # Absent =>
       \E w \in Writers :
         stage[w] = s /\ (pc[w] \in StageLabels \union {"release"} \/ w \in excused)
  /\ \A w \in Writers : temp[w] # Absent =>
       pc[w] \in StreamLabels \/ w \in excused
=============================================================================
