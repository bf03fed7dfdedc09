---------------------------- MODULE AtomicOutput ----------------------------
(***************************************************************************)
(* What the writers of romx-core promise to whoever reads their            *)
(* destination, whatever call fails and whenever the process ends: a       *)
(* writer that is allowed to begin brings all it was asked to write in one *)
(* step, the one in which it succeeds; a writer that fails, or ends with   *)
(* its process, leaves the destination alone; and nothing is removed but   *)
(* on Windows, by a writer that may replace.                               *)
(***************************************************************************)
CONSTANTS
  Writers,    \* calls of the writer
  Wanted,     \* Wanted[w]: all that writer w was asked to write
  Replacing,  \* the writers that may replace what is there
  Windows,    \* a file cannot be moved over another one
  Absent,     \* content of a destination with no file
  Old         \* content some other program wrote

VARIABLES
  dest,       \* what the destination holds
  call        \* call[w]: how writer w stands

vars == <<dest, call>>

Init ==
  /\ dest \in {Absent, Old}
  /\ call = [w \in Writers |-> "idle"]

\* A writer that may not replace begins only where nothing is.
Start(w) ==
  /\ call[w] = "idle"
  /\ w \in Replacing \/ dest = Absent
  /\ call' = [call EXCEPT ![w] = "busy"]
  /\ UNCHANGED dest

Publish(w) ==
  /\ call[w] = "busy"
  /\ dest' = Wanted[w]
  /\ call' = [call EXCEPT ![w] = "done"]

MakeRoom(w) ==
  /\ Windows /\ w \in Replacing /\ call[w] = "busy"
  /\ dest' = Absent
  /\ UNCHANGED call

Fail(w) ==
  /\ call[w] \in {"idle", "busy"}
  /\ call' = [call EXCEPT ![w] = "failed"]
  /\ UNCHANGED dest

\* A process ends with all its writers.
Crash(lost) ==
  /\ \A w \in lost : call[w] = "busy"
  /\ call' = [w \in Writers |-> IF w \in lost THEN "crashed" ELSE call[w]]
  /\ UNCHANGED dest

Next ==
  \/ \E w \in Writers : Start(w) \/ Publish(w) \/ MakeRoom(w) \/ Fail(w)
  \/ \E lost \in SUBSET Writers : Crash(lost)

Spec == Init /\ [][Next]_vars
=============================================================================
