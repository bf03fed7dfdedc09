------------------------- MODULE PublishOutputProofs -------------------------
(***************************************************************************)
(* Proofs about PublishOutput, for any number of writers, serials and      *)
(* attempts, on any system: every variable keeps its type; and, when all   *)
(* the writers are in one process, which may crash and be started again at *)
(* any moment, a stage has one owner, the destination never shows a part   *)
(* of an output or a mixture of two, and each call is AtomicOutput's step. *)
(***************************************************************************)
EXTENDS PublishOutput, TLAPS

\* The writer has taken a serial and not given its stage up.
Holding(w) == pc[w] \in StageLabels \union {"reserve", "release"}

HasStage == \A w \in Writers : Holding(w) => stage[w] \in Serials

TypeInv == TypeOK /\ HasStage

LEMMA OutputIsRomx == \A w \in Writers : Output(w) \in Romx
BY DEF Output, Romx

LEMMA BareIsRomx ==
  \A w \in Writers : [body |-> w, saves |-> {}, whole |-> TRUE] \in Romx
BY DEF Romx

LEMMA RomxStays ==
  ASSUME NEW r \in Romx, NEW w \in Writers
  PROVE  /\ [r EXCEPT !.saves = @ \union {w}] \in Romx
         /\ [r EXCEPT !.whole = FALSE] \in Romx
BY DEF Romx

LEMMA RomxIsContent == Romx \subseteq Content /\ {Absent, Placeholder, Old} \subseteq Content
BY DEF Content

\* A step that keeps the stages and moves one writer on, to a label it may hold one at.
LEMMA GotoStays ==
  ASSUME TypeInv, NEW w \in Writers, NEW label \in Labels, Goto(w, label), stage' = stage,
         label \in StageLabels \union {"reserve", "release"} => Holding(w)
  PROVE  pc' \in [Writers -> Labels] /\ HasStage'
<1>1. pc' \in [Writers -> Labels] BY DEF TypeInv, TypeOK, Goto
<1> SUFFICES ASSUME NEW v \in Writers, Holding(v)' PROVE stage[v] \in Serials
  BY <1>1 DEF HasStage
<1>3. CASE v = w BY <1>3 DEF Goto, TypeInv, TypeOK, Holding, HasStage, StageLabels
<1>4. CASE v # w BY <1>4 DEF Goto, TypeInv, TypeOK, Holding, HasStage, StageLabels
<1> QED BY <1>3, <1>4

\* Writing a path keeps the type of the table of paths.
LEMMA StageStays ==
  ASSUME TypeInv, NEW w \in Writers, NEW c \in Content, SetStage(w, c)
  PROVE  stageFile' \in [Serials -> Content]
BY DEF TypeInv, TypeOK, SetStage

LEMMA StageContent ==
  ASSUME TypeInv, NEW w \in Writers, Holding(w)
  PROVE  stage[w] \in Serials /\ stageFile[stage[w]] \in Content
BY DEF TypeInv, TypeOK, HasStage

LEMMA TypeInit == ASSUME Init PROVE TypeInv
<1>1. counter \in [Processes -> 0..(MaxSerial + 1)] BY PublishAssumption DEF Init
<1>2. attempts \in [Writers -> 0..MaxAttempts] BY PublishAssumption DEF Init
<1>3. stageFile \in [Serials -> Content] /\ temp \in [Writers -> Content] /\ dest \in Content
  BY RomxIsContent DEF Init
<1>4. pc \in [Writers -> Labels] /\ stage \in [Writers -> Serials \union {None}]
  BY DEF Init, Labels
<1>5. HasStage BY DEF Init, HasStage, Holding, StageLabels
<1> QED BY <1>1, <1>2, <1>3, <1>4, <1>5 DEF TypeInv, TypeOK, Init

LEMMA TypeBegin == ASSUME TypeInv, NEW w \in Writers, Begin(w) PROVE TypeInv'
<1>1. pc' \in [Writers -> Labels] /\ HasStage'
  <2>1. PICK label \in {"failed", "take", "native", "stream"} : Goto(w, label)
    BY PublishAssumption DEF Begin
  <2>2. label \in Labels /\ label \notin StageLabels \union {"reserve", "release"}
    BY DEF Labels, StageLabels, StreamLabels, Ended
  <2> QED BY <2>1, <2>2, GotoStays DEF Begin
<1>2. counter' \in [Processes -> 0..(MaxSerial + 1)]
  BY PublishAssumption DEF Begin, TypeInv, TypeOK
<1> QED BY <1>1, <1>2 DEF Begin, TypeInv, TypeOK

LEMMA TypeTake == ASSUME TypeInv, NEW w \in Writers, Take(w) PROVE TypeInv'
<1> USE PublishAssumption
<1>0. Process[w] \in Processes OBVIOUS
<1>1. counter[Process[w]] \in Serials
  <2>1. counter[Process[w]] \in 0..(MaxSerial + 1) /\ MaxSerial \in Nat
    BY <1>0 DEF TypeInv, TypeOK
  <2>2. counter[Process[w]] <= MaxSerial BY DEF Take
  <2> QED BY <2>1, <2>2 DEF Serials
<1>2. counter' \in [Processes -> 0..(MaxSerial + 1)]
  BY <1>0, <1>1 DEF TypeInv, TypeOK, Take, Advance, Serials
<1>3. stage' \in [Writers -> Serials \union {None}] /\ pc' \in [Writers -> Labels]
  BY <1>1 DEF TypeInv, TypeOK, Take, Goto, Labels
<1>4. HasStage'
  <2> SUFFICES ASSUME NEW v \in Writers, Holding(v)' PROVE stage'[v] \in Serials
    BY DEF HasStage
  <2>1. CASE v = w BY <2>1, <1>1 DEF Take, TypeInv, TypeOK
  <2>2. CASE v # w BY <2>2 DEF Take, Goto, TypeInv, TypeOK, Holding, HasStage
  <2> QED BY <2>1, <2>2
<1> QED BY <1>2, <1>3, <1>4 DEF TypeInv, TypeOK, Take

LEMMA TypeReserve == ASSUME TypeInv, NEW w \in Writers, Reserve(w) PROVE TypeInv'
<1>1. pc' \in [Writers -> Labels] /\ HasStage'
  <2>1. PICK label \in {"release", "take", "failed"} : Goto(w, label) BY DEF Reserve
  <2>2. label \in Labels /\ Holding(w)
    BY DEF Labels, Ended, Reserve, At, Holding
  <2> QED BY <2>1, <2>2, GotoStays DEF Reserve
<1>2. stageFile' \in [Serials -> Content]
  BY StageStays, RomxIsContent DEF Reserve, TypeInv, TypeOK
<1>3. attempts' \in [Writers -> 0..MaxAttempts]
  BY PublishAssumption DEF Reserve, TypeInv, TypeOK
<1> QED BY <1>1, <1>2, <1>3 DEF Reserve, TypeInv, TypeOK

LEMMA TypeRelease == ASSUME TypeInv, NEW w \in Writers, Release(w) PROVE TypeInv'
<1>1. pc' \in [Writers -> Labels] /\ HasStage'
  <2>1. PICK label \in {"write", "failed"} : Goto(w, label) BY DEF Release
  <2>2. label \in Labels /\ Holding(w)
    BY DEF Labels, StageLabels, Ended, Release, At, Holding
  <2> QED BY <2>1, <2>2, GotoStays DEF Release
<1>2. stageFile' \in [Serials -> Content]
  BY StageStays, RomxIsContent DEF Release, TypeInv, TypeOK
<1> QED BY <1>1, <1>2 DEF Release, Excuse, TypeInv, TypeOK

LEMMA TypeWrite == ASSUME TypeInv, NEW w \in Writers, Write(w) PROVE TypeInv'
<1>1. pc' \in [Writers -> Labels] /\ HasStage'
  <2>1. PICK label \in {"save", "drop"} : Goto(w, label) BY DEF Write
  <2>2. label \in Labels /\ Holding(w) BY DEF Labels, StageLabels, Write, At, Holding
  <2> QED BY <2>1, <2>2, GotoStays DEF Write
<1>2. stageFile' \in [Serials -> Content]
  BY StageStays, BareIsRomx, RomxIsContent DEF Write, TypeInv, TypeOK
<1> QED BY <1>1, <1>2 DEF Write, TypeInv, TypeOK

LEMMA TypeSave == ASSUME TypeInv, NEW w \in Writers, Save(w) PROVE TypeInv'
<1>1. pc' \in [Writers -> Labels] /\ HasStage'
  <2>1. PICK label \in {"validate", "drop"} : Goto(w, label) BY DEF Save, AfterFailedSave
  <2>2. label \in Labels /\ Holding(w) BY DEF Labels, StageLabels, Save, At, Holding
  <2> QED BY <2>1, <2>2, GotoStays DEF Save
<1>2. stageFile' \in [Serials -> Content]
  BY StageStays, RomxStays, RomxIsContent DEF Save, TypeInv, TypeOK
<1> QED BY <1>1, <1>2 DEF Save, TypeInv, TypeOK

LEMMA TypeValidate == ASSUME TypeInv, NEW w \in Writers, Validate(w) PROVE TypeInv'
<1>1. pc' \in [Writers -> Labels] /\ HasStage'
  <2>1. PICK label \in {"check", "drop"} : Goto(w, label) BY DEF Validate
  <2>2. label \in Labels /\ Holding(w) BY DEF Labels, StageLabels, Validate, At, Holding
  <2> QED BY <2>1, <2>2, GotoStays DEF Validate
<1> QED BY <1>1 DEF Validate, TypeInv, TypeOK

LEMMA TypeCheck == ASSUME TypeInv, NEW w \in Writers, Check(w) PROVE TypeInv'
<1>1. pc' \in [Writers -> Labels] /\ HasStage'
  <2>1. PICK label \in {"drop", "remove", "rename"} : Goto(w, label) BY DEF Check
  <2>2. label \in Labels /\ Holding(w) BY DEF Labels, StageLabels, Check, At, Holding
  <2> QED BY <2>1, <2>2, GotoStays DEF Check
<1> QED BY <1>1 DEF Check, TypeInv, TypeOK

LEMMA TypeRemove == ASSUME TypeInv, NEW w \in Writers, Remove(w) PROVE TypeInv'
<1>1. pc' \in [Writers -> Labels] /\ HasStage'
  <2>1. PICK label \in {"rename", "drop"} : Goto(w, label) BY DEF Remove
  <2>2. label \in Labels /\ Holding(w) BY DEF Labels, StageLabels, Remove, At, Holding
  <2> QED BY <2>1, <2>2, GotoStays DEF Remove
<1> QED BY <1>1, RomxIsContent DEF Remove, TypeInv, TypeOK

LEMMA TypeRename == ASSUME TypeInv, NEW w \in Writers, Rename(w) PROVE TypeInv'
<1>1. pc' \in [Writers -> Labels] /\ HasStage'
  <2>1. PICK label \in {"done", "drop"} : Goto(w, label) BY DEF Rename
  <2>2. label \in Labels /\ Holding(w)
    BY DEF Labels, StageLabels, Ended, Rename, At, Holding
  <2> QED BY <2>1, <2>2, GotoStays DEF Rename
<1>2. stageFile' \in [Serials -> Content]
  BY StageStays, RomxIsContent DEF Rename, TypeInv, TypeOK
<1>3. dest' \in Content /\ existed' \in BOOLEAN
  <2>1. Holding(w) BY DEF Rename, At, Holding, StageLabels
  <2> QED BY <2>1, StageContent DEF Rename, Publish, TypeInv, TypeOK
<1> QED BY <1>1, <1>2, <1>3 DEF Rename, TypeInv, TypeOK

LEMMA TypeDrop == ASSUME TypeInv, NEW w \in Writers, Drop(w) PROVE TypeInv'
<1>1. pc' \in [Writers -> Labels] /\ HasStage'
  <2>1. "failed" \in Labels /\ Holding(w)
    BY DEF Labels, StageLabels, Ended, Drop, At, Holding
  <2> QED BY <2>1, GotoStays DEF Drop
<1>2. stageFile' \in [Serials -> Content]
  BY StageStays, RomxIsContent DEF Drop, TypeInv, TypeOK
<1> QED BY <1>1, <1>2 DEF Drop, Excuse, TypeInv, TypeOK

\* The steps of the other two ways hold no stage.
LEMMA TypeElsewhere ==
  ASSUME TypeInv, NEW w \in Writers,
         Native(w) \/ Stream(w) \/ Move(w) \/ MoveRemove(w) \/ StreamDrop(w)
  PROVE  TypeInv'
<1>1. pc' \in [Writers -> Labels] /\ HasStage'
  <2>1. PICK label \in {"done", "failed"} \union StreamLabels : Goto(w, label)
    BY DEF Native, Stream, Move, MoveRemove, StreamDrop, StreamLabels
  <2>2. label \in Labels /\ label \notin StageLabels \union {"reserve", "release"}
    BY DEF Labels, StageLabels, StreamLabels, Ended
  <2>3. stage' = stage BY DEF Native, Stream, Move, MoveRemove, StreamDrop
  <2> QED BY <2>1, <2>2, <2>3, GotoStays
<1>2. temp' \in [Writers -> Content]
  <2>1. Output(w) \in Content /\ [Output(w) EXCEPT !.whole = FALSE] \in Content
    BY OutputIsRomx, RomxStays, RomxIsContent
  <2>2. CASE Stream(w) BY <2>1, <2>2 DEF Stream, TypeInv, TypeOK
  <2>3. CASE Move(w) BY <2>3, RomxIsContent DEF Move, TypeInv, TypeOK
  <2>4. CASE StreamDrop(w) BY <2>4, RomxIsContent DEF StreamDrop, TypeInv, TypeOK
  <2>5. CASE Native(w) \/ MoveRemove(w) BY <2>5 DEF Native, MoveRemove, TypeInv, TypeOK
  <2> QED BY <2>2, <2>3, <2>4, <2>5
<1>3. dest' \in Content /\ existed' \in BOOLEAN
  <2>1. CASE Native(w)
    BY <2>1, OutputIsRomx, RomxIsContent DEF Native, Publish, TypeInv, TypeOK
  <2>2. CASE Move(w)
    <3>1. Publish(temp[w]) \/ UNCHANGED <<dest, existed>> BY <2>2 DEF Move
    <3> QED BY <3>1 DEF Publish, TypeInv, TypeOK
  <2>3. CASE MoveRemove(w) BY <2>3, RomxIsContent DEF MoveRemove, TypeInv, TypeOK
  <2>4. CASE Stream(w) \/ StreamDrop(w) BY <2>4 DEF Stream, StreamDrop, TypeInv, TypeOK
  <2> QED BY <2>1, <2>2, <2>3, <2>4
<1>4. UNCHANGED <<stage, attempts, stageFile>>
  BY DEF Native, Stream, Move, MoveRemove, StreamDrop
<1>6. counter' \in [Processes -> 0..(MaxSerial + 1)]
  <2>1. CASE Stream(w) BY <2>1, PublishAssumption DEF Stream, Advance, TypeInv, TypeOK
  <2>2. CASE ~Stream(w) BY <2>2 DEF Native, Move, MoveRemove, StreamDrop, TypeInv, TypeOK
  <2> QED BY <2>1, <2>2
<1>5. excused' \subseteq Writers
  BY DEF Native, Stream, Move, MoveRemove, StreamDrop, Excuse, TypeInv, TypeOK
<1> QED BY <1>1, <1>2, <1>3, <1>4, <1>5, <1>6 DEF TypeInv, TypeOK

LEMMA TypeCrash == ASSUME TypeInv, NEW p \in Crashing, Crash(p) PROVE TypeInv'
<1>1. counter' \in [Processes -> 0..(MaxSerial + 1)]
  BY PublishAssumption DEF Crash, TypeInv, TypeOK
<1>2. pc' \in [Writers -> Labels] BY DEF Crash, TypeInv, TypeOK, Labels, Ended
<1>3. HasStage'
  BY DEF Crash, TypeInv, TypeOK, HasStage, Holding, StageLabels
<1>4. excused' \subseteq Writers BY DEF Crash, TypeInv, TypeOK
<1> QED BY <1>1, <1>2, <1>3, <1>4 DEF Crash, TypeInv, TypeOK

LEMMA TypeNext == ASSUME TypeInv, [Next]_vars PROVE TypeInv'
<1>1. CASE UNCHANGED vars
  BY <1>1 DEF vars, TypeInv, TypeOK, HasStage, Holding
<1>2. CASE \E w \in Writers : Step(w)
  <2>1. PICK w \in Writers : Step(w) BY <1>2
  <2> QED
    BY <2>1, TypeBegin, TypeTake, TypeReserve, TypeRelease, TypeWrite, TypeSave, TypeValidate,
       TypeCheck, TypeRemove, TypeRename, TypeDrop, TypeElsewhere DEF Step
<1>3. CASE \E p \in Crashing : Crash(p) BY <1>3, TypeCrash
<1> QED BY <1>1, <1>2, <1>3 DEF Next

\* Every variable keeps its type, whatever the writers, their processes and the system.
THEOREM TypeCorrect == Spec => []TypeOK
<1>1. Init => TypeInv BY TypeInit
<1>2. TypeInv /\ [Next]_vars => TypeInv' BY TypeNext
<1>3. TypeInv => TypeOK BY DEF TypeInv
<1> QED BY <1>1, <1>2, <1>3, PTL DEF Spec

------------------------------------------------------------------------------
(* All writers in one process. *)

OneProcess == \A v, w \in Writers : Process[v] = Process[w]

\* A stage that is held was given out by the counter, to its holder alone.
OwnInv ==
  /\ \A w \in Writers : Holding(w) => stage[w] < counter[Process[w]]
  /\ \A v, w \in Writers : Holding(v) /\ Holding(w) /\ stage[v] = stage[w] => v = w

\* A step moves its own writer only.
LEMMA OthersStand ==
  ASSUME TypeInv, NEW w \in Writers, Step(w)
  PROVE  /\ \A v \in Writers : v # w => pc'[v] = pc[v] /\ stage'[v] = stage[v] /\ temp'[v] = temp[v]
         /\ counter' # counter => Begin(w) \/ Take(w) \/ Stream(w)
         /\ stage' # stage => Take(w)
<1>1. \A v \in Writers : v # w => pc'[v] = pc[v]
  <2>1. \E label : Goto(w, label)
    BY DEF Step, Begin, Take, Reserve, Release, Write, Save, Validate, Check, Remove, Rename, Drop,
       Native, Stream, Move, MoveRemove, StreamDrop
  <2> QED BY <2>1 DEF Goto, TypeInv, TypeOK
<1>2. \A v \in Writers : v # w => temp'[v] = temp[v]
  <2>1. temp' = temp \/ Stream(w) \/ Move(w) \/ StreamDrop(w)
    BY DEF Step, Begin, Take, Reserve, Release, Write, Save, Validate, Check, Remove, Rename, Drop,
       Native, MoveRemove
  <2>2. CASE Stream(w) BY <2>2 DEF Stream, TypeInv, TypeOK
  <2>3. CASE Move(w) BY <2>3 DEF Move, TypeInv, TypeOK
  <2>4. CASE StreamDrop(w) BY <2>4 DEF StreamDrop, TypeInv, TypeOK
  <2> QED BY <2>1, <2>2, <2>3, <2>4
<1>3. stage' = stage \/ Take(w)
  BY DEF Step, Begin, Reserve, Release, Write, Save, Validate, Check, Remove, Rename, Drop,
     Native, Stream, Move, MoveRemove, StreamDrop
<1>4. counter' = counter \/ Begin(w) \/ Take(w) \/ Stream(w)
  BY DEF Step, Reserve, Release, Write, Save, Validate, Check, Remove, Rename, Drop,
     Native, Move, MoveRemove, StreamDrop
<1>5. \A v \in Writers : v # w => stage'[v] = stage[v]
  BY <1>3 DEF Take, TypeInv, TypeOK
<1> QED BY <1>1, <1>2, <1>3, <1>4, <1>5

\* Only Take makes a writer hold a stage.
LEMMA HoldingIsTaken ==
  ASSUME TypeInv, NEW w \in Writers, Step(w), ~Take(w), Holding(w)'
  PROVE  Holding(w)
<1> USE DEF TypeInv, TypeOK, At, Goto, Holding, StageLabels
<1>1. CASE Begin(w)
  <2>1. PICK label \in {"failed", "take", "native", "stream"} : pc' = [pc EXCEPT ![w] = label]
    BY <1>1, PublishAssumption DEF Begin
  <2> QED BY <2>1
<1>2. CASE Reserve(w) BY <1>2 DEF Reserve
<1>3. CASE Release(w) BY <1>3 DEF Release
<1>4. CASE Write(w) \/ Save(w) \/ Validate(w) BY <1>4 DEF Write, Save, Validate
<1>5. CASE Check(w) \/ Remove(w) \/ Rename(w) \/ Drop(w) BY <1>5 DEF Check, Remove, Rename, Drop
<1>6. CASE Native(w) \/ Stream(w) BY <1>6 DEF Native, Stream
<1>7. CASE Move(w) \/ MoveRemove(w) \/ StreamDrop(w) BY <1>7 DEF Move, MoveRemove, StreamDrop
<1> QED BY <1>1, <1>2, <1>3, <1>4, <1>5, <1>6, <1>7 DEF Step

\* With its process every holder ends.
LEMMA CrashEndsHolders ==
  ASSUME TypeInv, OneProcess, NEW p \in Crashing, Crash(p), NEW v \in Writers
  PROVE  /\ ~Holding(v)'
         /\ pc'[v] = pc[v] \/ pc'[v] = "crashed"
<1>1. PICK w \in Writers : Process[w] = p BY DEF Crash
<1>2. Process[v] = p BY <1>1 DEF OneProcess
<1> QED BY <1>2 DEF Crash, Holding, StageLabels, Ended, TypeInv, TypeOK

LEMMA OwnNext ==
  ASSUME TypeInv, OneProcess, OwnInv, [Next]_vars
  PROVE  OwnInv'
<1>1. CASE UNCHANGED vars BY <1>1 DEF vars, OwnInv, Holding
<1>2. ASSUME NEW w \in Writers, Step(w) PROVE OwnInv'
  <2> USE PublishAssumption
  <2>1. CASE Take(w)
    <3>0. Process[w] \in Processes /\ \A v \in Writers : Process[v] = Process[w] BY DEF OneProcess
    <3>1. stage'[w] = counter[Process[w]] BY <2>1 DEF Take, TypeInv, TypeOK
    <3>2. counter[Process[w]] \in Nat /\ counter'[Process[w]] = counter[Process[w]] + 1
      BY <2>1, <3>0 DEF Take, Advance, TypeInv, TypeOK
    <3>3. \A v \in Writers : v # w /\ Holding(v)' =>
            Holding(v) /\ stage'[v] = stage[v] /\ stage[v] \in Nat
      BY <1>2, OthersStand DEF Holding, HasStage, TypeInv, Serials
    <3>4. \A v \in Writers : v # w /\ Holding(v)' => stage'[v] < counter[Process[w]]
      BY <3>0, <3>3 DEF OwnInv
    <3>5. \A v \in Writers : Holding(v)' => stage'[v] < counter'[Process[v]]
      BY <3>0, <3>1, <3>2, <3>3, <3>4
    <3>6. \A u, v \in Writers : Holding(u)' /\ Holding(v)' /\ stage'[u] = stage'[v] => u = v
      <4> SUFFICES ASSUME NEW u \in Writers, NEW v \in Writers,
                          Holding(u)', Holding(v)', stage'[u] = stage'[v]
                   PROVE  u = v
        OBVIOUS
      <4>1. CASE u # w /\ v # w BY <4>1, <3>3 DEF OwnInv
      <4>2. CASE u = w /\ v # w BY <4>2, <3>1, <3>2, <3>3, <3>4
      <4>3. CASE u # w /\ v = w BY <4>3, <3>1, <3>2, <3>3, <3>4
      <4> QED BY <4>1, <4>2, <4>3
    <3> QED BY <3>5, <3>6 DEF OwnInv
  <2>2. CASE ~Take(w)
    <3>1. \A v \in Writers : Holding(v)' => Holding(v)
      BY <1>2, <2>2, OthersStand, HoldingIsTaken DEF Holding
    <3>2. stage' = stage BY <1>2, <2>2, OthersStand
    <3>3. \A v \in Writers : Holding(v) => stage[v] < counter'[Process[v]]
      <4>1. CASE counter' = counter BY <4>1 DEF OwnInv
      <4>2. CASE Begin(w) \/ Stream(w)
        <5> SUFFICES ASSUME NEW v \in Writers, Holding(v) PROVE stage[v] < counter'[Process[v]]
          OBVIOUS
        <5>1. stage[v] \in Nat BY DEF TypeInv, HasStage, Serials
        <5>2. Process[v] \in Processes OBVIOUS
        <5>3. counter[Process[v]] \in Nat BY <5>2 DEF TypeInv, TypeOK
        <5>4. \E inputs \in 0..2 :
                counter'[Process[v]] \in {counter[Process[v]], counter[Process[v]] + inputs}
          BY <4>2, <5>2, <5>3 DEF Begin, Stream, Advance, TypeInv, TypeOK
        <5> QED BY <5>1, <5>3, <5>4 DEF OwnInv
      <4> QED BY <1>2, <2>2, <4>1, <4>2, OthersStand
    <3> QED BY <3>1, <3>2, <3>3 DEF OwnInv
  <2> QED BY <2>1, <2>2
<1>3. ASSUME NEW p \in Crashing, Crash(p) PROVE OwnInv'
  BY <1>3, CrashEndsHolders DEF OwnInv
<1> QED BY <1>1, <1>2, <1>3 DEF Next

LEMMA OwnInit == ASSUME Init PROVE OwnInv
BY DEF Init, OwnInv, Holding, StageLabels

\* No two writers of one process have the same stage, also when the process was started
\* again and meets stages the one before it left behind.
THEOREM StageHasOneOwner == ASSUME OneProcess PROVE Spec => []StageOwned
<1>1. Init => TypeInv /\ OwnInv BY TypeInit, OwnInit
<1>2. TypeInv /\ OwnInv /\ [Next]_vars => (TypeInv /\ OwnInv)'
  BY TypeNext, OwnNext
<1>3. TypeInv /\ OwnInv => StageOwned BY DEF OwnInv, StageOwned, Holding
<1> QED BY <1>1, <1>2, <1>3, PTL DEF Spec

------------------------------------------------------------------------------
(* What the destination shows. *)

\* What a writer at each step has made so far.
Made(w) ==
  /\ pc[w] = "take" \/ Holding(w) => Way[w] = "staged"
  /\ pc[w] = "save" => stageFile[stage[w]] = [body |-> w, saves |-> {}, whole |-> TRUE]
  /\ pc[w] \in {"validate", "check", "remove", "rename"} => stageFile[stage[w]] = Output(w)
  /\ pc[w] \in {"move", "moveRemove", "moveAgain"} => temp[w] = Output(w)

MadeInv == \A w \in Writers : Made(w)

\* A step of one writer leaves what the others have made alone.
LEMMA OthersKeep ==
  ASSUME TypeInv, OwnInv, NEW w \in Writers, Step(w), NEW v \in Writers, v # w, Made(v)
  PROVE  Made(v)'
<1>1. pc'[v] = pc[v] /\ stage'[v] = stage[v] /\ temp'[v] = temp[v] BY OthersStand
<1>2. stageFile' = stageFile \/ (Holding(w) /\ \E c : SetStage(w, c))
  BY DEF Step, Begin, Take, Reserve, Release, Write, Save, Validate, Check, Remove, Rename, Drop,
     Native, Stream, Move, MoveRemove, StreamDrop, At, Holding, StageLabels
<1>3. Holding(v) => stageFile'[stage[v]] = stageFile[stage[v]]
  BY <1>2 DEF SetStage, OwnInv, TypeInv, TypeOK, HasStage
<1>4. pc[v] \in {"save", "validate", "check", "remove", "rename"} => Holding(v)
  BY DEF Holding, StageLabels
<1>5. (Holding(v) <=> Holding(v)') BY <1>1 DEF Holding
<1> HIDE DEF Holding
<1> QED BY <1>1, <1>3, <1>4, <1>5 DEF Made, Output

\* A writer's own step brings what it has made forward.
LEMMA MakesItsOwn ==
  ASSUME TypeInv, NEW w \in Writers, Step(w), Made(w)
  PROVE  Made(w)'
<1> USE DEF At, Goto
<1>0. Holding(w) => stage[w] \in Serials /\ stageFile \in [Serials -> Content]
  BY DEF TypeInv, TypeOK, HasStage
<1>1. pc \in [Writers -> Labels] BY DEF TypeInv, TypeOK
<1>2. CASE Begin(w)
  <2>1. PICK label \in {"failed", "take", "native", "stream"} :
          pc'[w] = label /\ (label = "take" => Way[w] = "staged")
    BY <1>1, <1>2, PublishAssumption DEF Begin
  <2> QED BY <2>1 DEF Made, Holding, StageLabels
<1>3. CASE Take(w)
  <2>1. pc[w] = "take" /\ pc'[w] = "reserve" BY <1>1, <1>3 DEF Take
  <2> QED BY <2>1 DEF Made, Holding
<1>4. CASE Reserve(w)
  <2>1. pc[w] = "reserve" /\ pc'[w] \in {"release", "take", "failed"} BY <1>1, <1>4 DEF Reserve
  <2> QED BY <2>1 DEF Made, Holding
<1>5. CASE Release(w)
  <2>1. pc[w] = "release" /\ pc'[w] \in {"write", "failed"} BY <1>1, <1>5 DEF Release
  <2> QED BY <2>1 DEF Made, Holding
<1>6. CASE Write(w)
  <2>1. pc[w] = "write" /\ pc'[w] \in {"save", "drop"} /\ stage' = stage
    BY <1>1, <1>6 DEF Write
  <2>2. Holding(w) BY <2>1 DEF Holding, StageLabels
  <2>3. pc'[w] = "save" => stageFile'[stage[w]] = [body |-> w, saves |-> {}, whole |-> TRUE]
    BY <1>0, <1>1, <1>6, <2>2 DEF Write, SetStage
  <2> QED BY <2>1, <2>2, <2>3 DEF Made
<1>7. CASE Save(w)
  <2>1. pc[w] = "save" /\ pc'[w] \in {"validate", "drop"} /\ stage' = stage
    BY <1>1, <1>7 DEF Save, AfterFailedSave
  <2>2. Holding(w) BY <2>1 DEF Holding, StageLabels
  <2>3. pc'[w] = "validate" => stageFile'[stage[w]] = Output(w)
    <3>1. SUFFICES ASSUME pc'[w] = "validate" PROVE stageFile'[stage[w]] = Output(w)
      OBVIOUS
    <3>2. SetStage(w, [stageFile[stage[w]] EXCEPT !.saves = @ \union {w}])
      BY <1>1, <1>7, <3>1 DEF Save, AfterFailedSave
    <3>3. stageFile[stage[w]] = [body |-> w, saves |-> {}, whole |-> TRUE] BY <2>1 DEF Made
    <3>4. stageFile'[stage[w]] = [body |-> w, saves |-> {w}, whole |-> TRUE]
      <4> DEFINE old == stageFile[stage[w]]
      <4>1. stageFile'[stage[w]] = [old EXCEPT !.saves = @ \union {w}]
        BY <1>0, <2>2, <3>2 DEF SetStage
      <4>2. old = [body |-> w, saves |-> {}, whole |-> TRUE] BY <3>3
      <4> HIDE DEF old
      <4>3. [old EXCEPT !.saves = @ \union {w}] = [body |-> w, saves |-> {w}, whole |-> TRUE]
        <5>1. old.body = w /\ old.saves = {} /\ old.whole = TRUE /\ old \in Romx
          BY <4>2, BareIsRomx
        <5>2. [old EXCEPT !.saves = @ \union {w}]
                = [body |-> old.body, saves |-> old.saves \union {w}, whole |-> old.whole]
          BY <5>1 DEF Romx
        <5>3. {} \union {w} = {w} OBVIOUS
        <5> QED BY <5>1, <5>2, <5>3, Zenon
      <4> QED BY <4>1, <4>3
    <3>5. Way[w] = "staged" BY <2>2 DEF Made
    <3> QED BY <3>4, <3>5 DEF Output
  <2> QED BY <2>1, <2>2, <2>3 DEF Made
<1>8. CASE Validate(w)
  <2>1. pc[w] = "validate" /\ pc'[w] \in {"check", "drop"} /\ UNCHANGED <<stage, stageFile>>
    BY <1>1, <1>8 DEF Validate
  <2> QED BY <2>1 DEF Made, Holding, StageLabels, Output
<1>9. CASE Check(w)
  <2>1. /\ pc[w] = "check" /\ pc'[w] \in {"drop", "remove", "rename"}
        /\ UNCHANGED <<stage, stageFile>>
    BY <1>1, <1>9 DEF Check
  <2> QED BY <2>1 DEF Made, Holding, StageLabels, Output
<1>10. CASE Remove(w)
  <2>1. pc[w] = "remove" /\ pc'[w] \in {"rename", "drop"} /\ UNCHANGED <<stage, stageFile>>
    BY <1>1, <1>10 DEF Remove
  <2> QED BY <2>1 DEF Made, Holding, StageLabels, Output
<1>11. CASE Rename(w)
  <2>1. pc[w] = "rename" /\ pc'[w] \in {"done", "drop"} BY <1>1, <1>11 DEF Rename
  <2> QED BY <2>1 DEF Made, Holding, StageLabels
<1>12. CASE Drop(w)
  <2>1. pc[w] = "drop" /\ pc'[w] = "failed" BY <1>1, <1>12 DEF Drop
  <2> QED BY <2>1 DEF Made, Holding, StageLabels
<1>13. CASE Native(w) \/ MoveRemove(w) \/ StreamDrop(w)
  <2>1. pc'[w] \in {"done", "failed", "streamDrop"} \/ (MoveRemove(w) /\ pc'[w] = "moveAgain")
    BY <1>1, <1>13 DEF Native, MoveRemove, StreamDrop
  <2>2. MoveRemove(w) => pc[w] = "moveRemove" /\ temp' = temp BY DEF MoveRemove
  <2> QED BY <2>1, <2>2 DEF Made, Holding, StageLabels, Output
<1>14. CASE Stream(w)
  <2>1. pc'[w] \in {"move", "streamDrop"} BY <1>1, <1>14 DEF Stream
  <2>2. pc'[w] = "move" => temp'[w] = Output(w)
    BY <1>1, <1>14 DEF Stream, TypeInv, TypeOK
  <2> QED BY <2>1, <2>2 DEF Made, Holding, StageLabels, Output
<1>15. CASE Move(w)
  <2>1. /\ pc[w] \in {"move", "moveAgain"} /\ pc'[w] \in {"done", "moveRemove", "streamDrop"}
        /\ pc'[w] = "moveRemove" => temp' = temp
    BY <1>1, <1>15 DEF Move
  <2> QED BY <2>1 DEF Made, Holding, StageLabels, Output
<1> QED BY <1>2, <1>3, <1>4, <1>5, <1>6, <1>7, <1>8, <1>9, <1>10, <1>11, <1>12, <1>13, <1>14,
           <1>15 DEF Step

\* What a step puts at the destination is what its writer has made.
LEMMA PublishesWhatIsMade ==
  ASSUME NEW w \in Writers, Step(w), Made(w), dest' # dest
  PROVE  \/ dest' = Output(w) /\ existed' = TRUE
         \/ dest' = Absent /\ existed' = existed /\ pc[w] \in {"remove", "moveRemove"}
<1> USE DEF Publish
<1>1. Native(w) \/ Rename(w) \/ Move(w) \/ Remove(w) \/ MoveRemove(w)
  BY DEF Step, Begin, Take, Reserve, Release, Write, Save, Validate, Check, Drop, Stream,
     StreamDrop
<1>2. CASE Native(w) BY <1>2 DEF Native
<1>3. CASE Rename(w) BY <1>3 DEF Rename, At, Made
<1>4. CASE Move(w) BY <1>4 DEF Move, At, Made
<1>5. CASE Remove(w) BY <1>5 DEF Remove, At
<1>6. CASE MoveRemove(w) BY <1>6 DEF MoveRemove, At
<1> QED BY <1>1, <1>2, <1>3, <1>4, <1>5, <1>6

LEMMA MadeNext ==
  ASSUME TypeInv, OneProcess, OwnInv, MadeInv, DestinationWhole, [Next]_vars
  PROVE  MadeInv' /\ DestinationWhole'
<1>1. CASE UNCHANGED vars
  BY <1>1 DEF vars, MadeInv, Made, Holding, Output, DestinationWhole
<1>2. ASSUME NEW w \in Writers, Step(w) PROVE MadeInv' /\ DestinationWhole'
  <2>1. MadeInv' BY <1>2, OthersKeep, MakesItsOwn DEF MadeInv
  <2>2. dest' = dest \/ dest' = Absent \/ dest' = Output(w)
    BY <1>2, PublishesWhatIsMade DEF MadeInv
  <2> QED BY <2>1, <2>2 DEF DestinationWhole, Output
<1>3. ASSUME NEW p \in Crashing, Crash(p) PROVE MadeInv' /\ DestinationWhole'
  <2>1. \A v \in Writers : ~Holding(v)' /\ (pc'[v] = pc[v] \/ pc'[v] = "crashed")
    BY <1>3, CrashEndsHolders
  <2>2. UNCHANGED <<stage, stageFile, temp, dest>> BY <1>3 DEF Crash
  <2>3. ASSUME NEW v \in Writers PROVE Made(v)'
    <3>1. Made(v) BY DEF MadeInv
    <3> QED BY <2>1, <2>2, <3>1 DEF Made, Output, Holding, StageLabels
  <2> QED BY <2>2, <2>3 DEF MadeInv, DestinationWhole, Output
<1> QED BY <1>1, <1>2, <1>3 DEF Next

LEMMA MadeInit == ASSUME Init PROVE MadeInv /\ DestinationWhole
BY DEF Init, MadeInv, Made, Holding, StageLabels, DestinationWhole

\* With all writers in one process the destination holds nothing, what another program put
\* there, or all of one writer's output, on any system and whatever fails or crashes.
THEOREM DestinationAlwaysWhole == ASSUME OneProcess PROVE Spec => []DestinationWhole
<1> DEFINE I == TypeInv /\ OwnInv /\ MadeInv /\ DestinationWhole
<1>1. Init => I BY TypeInit, OwnInit, MadeInit
<1>2. I /\ [Next]_vars => I' BY TypeNext, OwnNext, MadeNext
<1>3. I => DestinationWhole OBVIOUS
<1> QED BY <1>1, <1>2, <1>3, PTL DEF Spec

\* Where a rename replaces a file, and all writers are in one process, a destination that
\* exists stays.
THEOREM DestinationNeverLost ==
  ASSUME OneProcess, Windows = FALSE PROVE Spec => []NeverLost
<1> DEFINE Stays == /\ existed => dest # Absent
                    /\ \A w \in Writers : pc[w] \notin {"remove", "moveRemove"}
           I == TypeInv /\ OwnInv /\ MadeInv /\ DestinationWhole /\ Stays
<1>1. Init => I
  <2>1. Init => Stays BY DEF Init
  <2> QED BY <2>1, TypeInit, OwnInit, MadeInit
<1>2. I /\ [Next]_vars => I'
  <2> SUFFICES ASSUME I, [Next]_vars PROVE Stays'
    BY TypeNext, OwnNext, MadeNext
  <2>1. CASE UNCHANGED vars BY <2>1 DEF vars
  <2>2. ASSUME NEW w \in Writers, Step(w) PROVE Stays'
    <3>1. existed' => dest' # Absent
      <4>1. CASE dest' = dest
        <5>1. existed' = existed \/ dest' # Absent
          <6>1. Output(w) # Absent BY OutputIsRomx, PublishAssumption
          <6>2. pc[w] = "rename" => stageFile[stage[w]] = Output(w) BY DEF MadeInv, Made
          <6>3. pc[w] \in {"move", "moveAgain"} => temp[w] = Output(w) BY DEF MadeInv, Made
          <6>4. CASE Native(w) BY <6>4, <6>1 DEF Native, Publish
          <6>5. CASE Rename(w) BY <6>5, <6>1, <6>2 DEF Rename, Publish, At
          <6>6. CASE Move(w) BY <6>6, <6>1, <6>3 DEF Move, Publish, At
          <6>7. CASE ~(Native(w) \/ Rename(w) \/ Move(w))
            BY <2>2, <6>7 DEF Step, Begin, Take, Reserve, Release, Write, Save, Validate, Check,
               Remove, Drop, Stream, MoveRemove, StreamDrop
          <6> QED BY <6>4, <6>5, <6>6, <6>7
        <5> QED BY <4>1, <5>1
      <4>2. CASE dest' # dest
        BY <2>2, <4>2, PublishesWhatIsMade, OutputIsRomx, PublishAssumption DEF MadeInv
      <4> QED BY <4>1, <4>2
    <3>2. pc'[w] \notin {"remove", "moveRemove"}
      <4>1. ~RemovesFirst(w) BY DEF RemovesFirst
      <4>2. pc \in [Writers -> Labels] BY DEF TypeInv, TypeOK
      <4>3. CASE Begin(w)
        <5>1. PICK label \in {"failed", "take", "native", "stream"} : Goto(w, label)
          BY <4>3, PublishAssumption DEF Begin
        <5> QED BY <4>2, <5>1 DEF Goto
      <4>4. CASE Take(w) \/ Reserve(w) \/ Release(w) \/ Write(w)
        BY <4>2, <4>4 DEF Goto, Take, Reserve, Release, Write
      <4>5. CASE Save(w) \/ Validate(w) \/ Check(w) \/ Remove(w) \/ Rename(w) \/ Drop(w)
        BY <4>1, <4>2, <4>5 DEF Goto, Save, AfterFailedSave, Validate, Check, Remove, Rename, Drop
      <4>6. CASE Native(w) \/ Stream(w) \/ Move(w) \/ MoveRemove(w) \/ StreamDrop(w)
        BY <4>1, <4>2, <4>6 DEF Goto, Native, Stream, Move, MoveRemove, StreamDrop
      <4> QED BY <2>2, <4>3, <4>4, <4>5, <4>6 DEF Step
    <3>3. \A v \in Writers : v # w => pc'[v] = pc[v] BY <2>2, OthersStand
    <3> QED BY <3>1, <3>2, <3>3
  <2>3. ASSUME NEW p \in Crashing, Crash(p) PROVE Stays'
    BY <2>3, CrashEndsHolders DEF Crash
  <2> QED BY <2>1, <2>2, <2>3 DEF Next
<1>3. I => NeverLost BY DEF NeverLost
<1> QED BY <1>1, <1>2, <1>3, PTL DEF Spec
------------------------------------------------------------------------------
(* The promise to whoever reads the destination. *)

\* How a writer stands, as AtomicOutput sees it.
Calls == [w \in Writers |-> IF pc[w] \in Ended \union {"idle"} THEN pc[w] ELSE "busy"]

\* A writer that removes what is there may do so.
RoomInv ==
  \A w \in Writers : pc[w] \in {"remove", "moveRemove"} => Windows /\ w \in Replacing

AtWork(label) == label \notin Ended \union {"idle"}

\* A writer goes to a label: it begins where it may, it succeeds by bringing its output, it
\* goes on, at most making room, or it fails and leaves the destination alone.
Goes(w, label) ==
  /\ Goto(w, label)
  /\ label \in {"remove", "moveRemove"} => Windows /\ w \in Replacing
  /\ \/ /\ pc[w] = "idle" /\ AtWork(label) /\ UNCHANGED dest
        /\ w \in Replacing \/ dest = Absent
     \/ AtWork(pc[w]) /\ label = "done" /\ dest' = Output(w)
     \/ /\ AtWork(pc[w]) /\ AtWork(label)
        /\ UNCHANGED dest \/ (Windows /\ w \in Replacing /\ dest' = Absent)
     \/ pc[w] \notin Ended /\ label = "failed" /\ UNCHANGED dest

\* These are all the steps there are.
LEMMA StepKinds ==
  ASSUME TypeInv, RoomInv, NEW w \in Writers, Step(w), Made(w)
  PROVE  \E label \in Labels : Goes(w, label)
<1> USE DEF Goes, AtWork, At, Labels, StageLabels, StreamLabels, Ended
<1>1. CASE Begin(w)
  <2>1. PICK label \in {"failed", "take", "native", "stream"} :
          Goto(w, label) /\ (label # "failed" => ~Refused(w))
    BY <1>1, PublishAssumption DEF Begin
  <2> QED BY <1>1, <2>1 DEF Begin, Refused
<1>2. CASE Take(w) BY <1>2 DEF Take
<1>3. CASE Reserve(w) BY <1>3 DEF Reserve
<1>4. CASE Release(w) BY <1>4 DEF Release
<1>5. CASE Write(w) BY <1>5 DEF Write
<1>6. CASE Save(w) BY <1>6 DEF Save, AfterFailedSave
<1>7. CASE Validate(w) BY <1>7 DEF Validate
<1>8. CASE Check(w) BY <1>8 DEF Check, RemovesFirst
<1>9. CASE Remove(w) BY <1>9 DEF Remove, RoomInv
<1>10. CASE Rename(w) BY <1>10 DEF Rename, Publish, Made
<1>11. CASE Drop(w) BY <1>11 DEF Drop
<1>12. CASE Native(w) BY <1>12 DEF Native, Publish
<1>13. CASE Stream(w) BY <1>13 DEF Stream
<1>14. CASE Move(w) BY <1>14 DEF Move, Publish, Made, RemovesFirst
<1>15. CASE MoveRemove(w) BY <1>15 DEF MoveRemove, RoomInv
<1>16. CASE StreamDrop(w) BY <1>16 DEF StreamDrop
<1> QED BY <1>1, <1>2, <1>3, <1>4, <1>5, <1>6, <1>7, <1>8, <1>9, <1>10, <1>11, <1>12, <1>13, <1>14,
           <1>15, <1>16 DEF Step

\* A step of a writer is a step of the promise, or none.
LEMMA StepKeepsPromise ==
  ASSUME TypeInv, RoomInv, NEW w \in Writers, Step(w), Made(w)
  PROVE  RoomInv' /\ [Promise!Next]_(Promise!vars)
<1>1. PICK label \in Labels : Goes(w, label)
  BY StepKinds
<1>2. pc \in [Writers -> Labels] /\ pc' = [pc EXCEPT ![w] = label]
  BY <1>1 DEF Goes, TypeInv, TypeOK, Goto
<1> DEFINE stands(l) == IF AtWork(l) THEN "busy" ELSE l
<1>3. Calls[w] = stands(pc[w]) /\ Calls' = [Calls EXCEPT ![w] = stands(label)]
  BY <1>2 DEF Calls, AtWork
<1>4. RoomInv'
  BY <1>1, <1>2 DEF Goes, RoomInv
<1>5. CASE pc[w] = "idle" /\ AtWork(label) /\ UNCHANGED dest /\ (w \in Replacing \/ dest = Absent)
  <2>1. Promise!Start(w)
    BY <1>3, <1>5 DEF Promise!Start, Calls, AtWork
  <2> QED BY <1>4, <2>1 DEF Promise!Next
<1>6. CASE AtWork(pc[w]) /\ label = "done" /\ dest' = Output(w)
  <2>1. Promise!Publish(w)
    BY <1>3, <1>6 DEF Promise!Publish, Calls, AtWork, Ended
  <2> QED BY <1>4, <2>1 DEF Promise!Next
<1>7. CASE AtWork(pc[w]) /\ AtWork(label)
  <2>1. Calls' = Calls /\ Calls[w] = "busy"
    BY <1>3, <1>7 DEF Calls, AtWork
  <2>2. CASE UNCHANGED dest
    BY <1>4, <2>1, <2>2 DEF Promise!vars, Calls
  <2>3. CASE Windows /\ w \in Replacing /\ dest' = Absent
    <3>1. Promise!MakeRoom(w)
      BY <2>1, <2>3 DEF Promise!MakeRoom, Calls
    <3> QED BY <1>4, <3>1 DEF Promise!Next
  <2> QED BY <1>1, <1>7, <2>2, <2>3 DEF Goes, AtWork, Ended
<1>8. CASE pc[w] \notin Ended /\ label = "failed" /\ UNCHANGED dest
  <2>1. Promise!Fail(w)
    BY <1>3, <1>8 DEF Promise!Fail, Calls, AtWork, Ended
  <2> QED BY <1>4, <2>1 DEF Promise!Next
<1> QED BY <1>1, <1>5, <1>6, <1>7, <1>8 DEF Goes

LEMMA NextKeepsPromise ==
  ASSUME TypeInv, RoomInv, MadeInv, [Next]_vars
  PROVE  RoomInv' /\ [Promise!Next]_(Promise!vars)
<1>1. CASE UNCHANGED vars BY <1>1 DEF vars, RoomInv, Promise!vars
<1>2. ASSUME NEW w \in Writers, Step(w) PROVE RoomInv' /\ [Promise!Next]_(Promise!vars)
  BY <1>2, StepKeepsPromise DEF MadeInv
<1>3. ASSUME NEW p \in Crashing, Crash(p) PROVE RoomInv' /\ [Promise!Next]_(Promise!vars)
  <2>0. PICK lost \in SUBSET Writers :
          lost = {w \in Writers : Process[w] = p /\ pc[w] \notin Ended \union {"idle"}}
    OBVIOUS
  <2>1. /\ pc' = [w \in Writers |-> IF w \in lost THEN "crashed" ELSE pc[w]]
        /\ dest' = dest
    BY <1>3, <2>0 DEF Crash
  <2>2. RoomInv'
    BY <2>1 DEF RoomInv
  <2>3. \A w \in lost : Calls[w] = "busy"
    BY <2>0 DEF Calls
  <2>4. Calls' = [w \in Writers |-> IF w \in lost THEN "crashed" ELSE Calls[w]]
    BY <2>1 DEF Calls, Ended
  <2>5. Promise!Crash(lost)
    BY <2>1, <2>3, <2>4 DEF Promise!Crash, Calls
  <2> QED BY <2>2, <2>5 DEF Promise!Next
<1> QED BY <1>1, <1>2, <1>3 DEF Next

\* The three ways of writer.rs implement AtomicOutput, with all writers in one process: to
\* whoever reads the destination each call is one step, or no step at all.
THEOREM PublishesInOneStep == ASSUME OneProcess PROVE Spec => PublishesAtomically
<1> DEFINE I == TypeInv /\ OwnInv /\ MadeInv /\ DestinationWhole /\ RoomInv
<1>1. Init => I /\ Promise!Init
  <2> SUFFICES ASSUME Init PROVE RoomInv /\ Promise!Init
    BY TypeInit, OwnInit, MadeInit
  <2>1. RoomInv BY DEF Init, RoomInv
  <2>2. Calls = [w \in Writers |-> "idle"] BY DEF Init, Calls
  <2> QED BY <2>1, <2>2 DEF Init, Promise!Init, Calls
<1>2. I /\ [Next]_vars => I' /\ [Promise!Next]_(Promise!vars)
  BY TypeNext, OwnNext, MadeNext, NextKeepsPromise
<1> QED BY <1>1, <1>2, PTL DEF Spec, PublishesAtomically, Promise!Spec

------------------------------------------------------------------------------
(* What is left on disk. *)

\* A stage path with a file has a writer it belongs to.
Owned(s) ==
  \E w \in Writers : stage[w] = s /\ (pc[w] \in StageLabels \union {"release"} \/ w \in excused)

\* NoOrphan is not inductive alone: a writer that is excused must have ended, or it could
\* move its stage on.
OrphanInv == NoOrphan /\ \A w \in excused : pc[w] \in Ended

\* A writer keeps the file of its stage its own until the file is gone, or it is excused.
LEMMA OwnStage ==
  ASSUME TypeInv, NEW w \in Writers, Step(w), Holding(w),
         pc[w] # "reserve" \/ stageFile' # stageFile,
         stageFile'[stage[w]] # Absent
  PROVE  /\ stage'[w] = stage[w]
         /\ pc'[w] \in StageLabels \union {"release"} \/ w \in excused'
<1> USE DEF At, Goto, StageLabels
<1>0. stage[w] \in Serials /\ pc \in [Writers -> Labels] /\ stageFile \in [Serials -> Content]
  BY DEF TypeInv, TypeOK, HasStage
<1>1. CASE Reserve(w)
  BY <1>0, <1>1 DEF Reserve
<1>2. CASE Release(w)
  BY <1>0, <1>2 DEF Release, SetStage, Excuse
<1>3. CASE Write(w) \/ Save(w) \/ Validate(w) \/ Check(w) \/ Remove(w)
  <2>1. \E label \in StageLabels : pc' = [pc EXCEPT ![w] = label]
    BY <1>3 DEF Write, Save, AfterFailedSave, Validate, Check, Remove
  <2>2. stage' = stage
    BY <1>3 DEF Write, Save, Validate, Check, Remove
  <2> QED
    BY <1>0, <2>1, <2>2
<1>4. CASE Rename(w)
  BY <1>0, <1>4 DEF Rename, SetStage
<1>5. CASE Drop(w)
  BY <1>0, <1>5 DEF Drop, Drops, SetStage, Excuse
<1>6. ~(Begin(w) \/ Take(w) \/ Native(w) \/ Stream(w) \/ Move(w) \/ MoveRemove(w) \/ StreamDrop(w))
  BY DEF Holding, Begin, Take, Native, Stream, Move, MoveRemove, StreamDrop
<1> QED
  BY <1>1, <1>2, <1>3, <1>4, <1>5, <1>6 DEF Step

\* A step gives no writer an excuse that has not ended with it, and takes none away.
LEMMA ExcusesEnd ==
  ASSUME TypeInv, NEW w \in Writers, Step(w)
  PROVE  /\ pc[w] \notin Ended
         /\ excused' = excused \/ (excused' = excused \union {w} /\ pc'[w] \in Ended)
<1>0. pc \in [Writers -> Labels]
  BY DEF TypeInv, TypeOK
<1>1. pc[w] \notin Ended
  BY DEF Ended, At, Step, Begin, Take, Reserve, Release, Write, Save, Validate, Check, Remove, Rename,
     Drop, Native, Stream, Move, MoveRemove, StreamDrop
<1>2. CASE Release(w) \/ Drop(w) \/ StreamDrop(w)
  <2>1. excused' = excused \/ (excused' = excused \union {w} /\ pc' = [pc EXCEPT ![w] = "failed"])
    BY <1>2 DEF Release, Drop, StreamDrop, Excuse, Goto
  <2> QED
    BY <1>0, <1>1, <2>1 DEF Ended
<1>3. CASE ~(Release(w) \/ Drop(w) \/ StreamDrop(w))
  BY <1>1, <1>3 DEF Step, Begin, Take, Reserve, Write, Save, Validate, Check, Remove, Rename, Native, Stream,
     Move, MoveRemove
<1> QED
  BY <1>1, <1>2, <1>3

\* A file appears at a stage path only by a step of a writer that holds it.
LEMMA StageChanges ==
  ASSUME TypeInv, NEW w \in Writers, Step(w), NEW s \in Serials, stageFile'[s] # stageFile[s]
  PROVE  Holding(w) /\ s = stage[w]
<1>1. Holding(w) /\ \E c : SetStage(w, c)
  BY DEF Step, Begin, Take, Reserve, Release, Write, Save, Validate, Check, Remove, Rename, Drop,
     Native, Stream, Move, MoveRemove, StreamDrop, At, Holding, StageLabels
<1> QED
  BY <1>1 DEF SetStage, TypeInv, TypeOK

\* The temporary file of a stream is its writer's until it is moved, removed or excused.
LEMMA OwnTemp ==
  ASSUME TypeInv, NEW w \in Writers, Step(w),
         temp[w] # Absent => pc[w] \in StreamLabels, temp'[w] # Absent
  PROVE  pc'[w] \in StreamLabels \/ w \in excused'
<1> USE DEF At, Goto, StreamLabels
<1>0. pc \in [Writers -> Labels] /\ temp \in [Writers -> Content]
  BY DEF TypeInv, TypeOK
<1>1. CASE Stream(w)
  BY <1>0, <1>1 DEF Stream
<1>2. CASE Move(w)
  BY <1>0, <1>2 DEF Move
<1>3. CASE MoveRemove(w)
  BY <1>0, <1>3 DEF MoveRemove
<1>4. CASE StreamDrop(w)
  BY <1>0, <1>4 DEF StreamDrop, Excuse
<1>5. CASE ~(Stream(w) \/ Move(w) \/ MoveRemove(w) \/ StreamDrop(w))
  BY <1>5 DEF Step, Begin, Take, Reserve, Release, Write, Save, Validate, Check, Remove, Rename, Drop,
     Native
<1> QED
  BY <1>1, <1>2, <1>3, <1>4, <1>5

LEMMA OrphanStep ==
  ASSUME TypeInv, OrphanInv, NEW w \in Writers, Step(w)
  PROVE  OrphanInv'
<1>1. excused \subseteq excused' /\ pc[w] \notin Ended
  BY ExcusesEnd
<1>2. \A v \in Writers : v # w => pc'[v] = pc[v] /\ stage'[v] = stage[v] /\ temp'[v] = temp[v]
  BY OthersStand
<1>3. w \notin excused /\ excused \subseteq Writers
  BY <1>1 DEF OrphanInv, TypeInv, TypeOK
<1>4. ASSUME NEW s \in Serials, stageFile'[s] # Absent PROVE Owned(s)'
  <2>1. CASE stageFile'[s] # stageFile[s]
    <3>1. Holding(w) /\ s = stage[w]
      BY <2>1, StageChanges
    <3>2. stage'[w] = stage[w] /\ (pc'[w] \in StageLabels \union {"release"} \/ w \in excused')
      BY <1>4, <2>1, <3>1, OwnStage
    <3> QED
      BY <3>1, <3>2 DEF Owned
  <2>2. CASE stageFile'[s] = stageFile[s]
    <3>1. PICK v \in Writers :
            stage[v] = s /\ (pc[v] \in StageLabels \union {"release"} \/ v \in excused)
      BY <1>4, <2>2 DEF OrphanInv, NoOrphan
    <3>2. CASE v # w
      BY <1>1, <1>2, <3>1, <3>2 DEF Owned
    <3>3. CASE v = w
      <4>1. Holding(w) /\ pc[w] # "reserve"
        BY <1>3, <3>1, <3>3 DEF Holding, StageLabels
      <4>2. stage'[w] = stage[w] /\ (pc'[w] \in StageLabels \union {"release"} \/ w \in excused')
        BY <1>4, <3>1, <3>3, <4>1, OwnStage
      <4> QED
        BY <3>1, <3>3, <4>2 DEF Owned
    <3> QED
      BY <3>2, <3>3
  <2> QED
    BY <2>1, <2>2
<1>5. ASSUME NEW v \in Writers, temp'[v] # Absent PROVE pc'[v] \in StreamLabels \/ v \in excused'
  <2>1. CASE v # w
    BY <1>1, <1>2, <1>5, <2>1 DEF OrphanInv, NoOrphan
  <2>2. CASE v = w
    BY <1>3, <1>5, <2>2, OwnTemp DEF OrphanInv, NoOrphan
  <2> QED
    BY <2>1, <2>2
<1>6. \A v \in excused' : pc'[v] \in Ended
  BY <1>2, <1>3, ExcusesEnd DEF OrphanInv
<1> QED
  BY <1>4, <1>5, <1>6 DEF OrphanInv, NoOrphan, Owned

LEMMA OrphanNext ==
  ASSUME TypeInv, OrphanInv, [Next]_vars
  PROVE  OrphanInv'
<1>1. CASE UNCHANGED vars
  BY <1>1 DEF vars, OrphanInv, NoOrphan
<1>2. ASSUME NEW w \in Writers, Step(w) PROVE OrphanInv'
  BY <1>2, OrphanStep
<1>3. ASSUME NEW p \in Crashing, Crash(p) PROVE OrphanInv'
  <2>1. UNCHANGED <<stage, stageFile, temp>> /\ excused \subseteq excused'
    BY <1>3 DEF Crash
  <2>2. \A v \in Writers : pc'[v] = pc[v] \/ (pc'[v] = "crashed" /\ v \in excused')
    BY <1>3 DEF Crash
  <2>3. \A v \in excused' : pc'[v] \in Ended
    BY <1>3 DEF Crash, OrphanInv, TypeInv, TypeOK, Ended
  <2>4. \A v \in Writers : (pc[v] \in StageLabels \union {"release"} \/ v \in excused) =>
          (pc'[v] \in StageLabels \union {"release"} \/ v \in excused')
    BY <2>1, <2>2
  <2>5. \A v \in Writers : (pc[v] \in StreamLabels \/ v \in excused) =>
          (pc'[v] \in StreamLabels \/ v \in excused')
    BY <2>1, <2>2
  <2> QED
    BY <2>1, <2>3, <2>4, <2>5 DEF OrphanInv, NoOrphan
<1> QED
  BY <1>1, <1>2, <1>3 DEF Next

\* No stage or temporary file outlives its writer, in any number of processes and on any
\* system, unless the process ended or the file could not be removed (Drop of StagedOutput,
\* the error paths of write_atomic_stream).
THEOREM NothingOrphaned == Spec => []NoOrphan
<1>1. Init => TypeInv /\ OrphanInv
  <2>1. Init => OrphanInv
    BY DEF Init, OrphanInv, NoOrphan
  <2> QED
    BY <2>1, TypeInit
<1>2. TypeInv /\ OrphanInv /\ [Next]_vars => (TypeInv /\ OrphanInv)'
  BY TypeNext, OrphanNext
<1>3. OrphanInv => NoOrphan
  BY DEF OrphanInv
<1> QED
  BY <1>1, <1>2, <1>3, PTL DEF Spec
=============================================================================
