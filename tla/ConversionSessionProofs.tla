----------------------- MODULE ConversionSessionProofs -----------------------
(* Safety of ConversionSession, for every number of conversions, items and  *)
(* names: the types, the prompt slot, the one conversion at a time, the     *)
(* staged files, what a cancelled conversion still commits, the counts on   *)
(* the screen and what the user agreed to replace.                          *)
EXTENDS ConversionSession, SequenceTheorems, TLAPS

------------------------------------------------------------------------------
(* Type correctness. *)

\* A plan holds items of the playlist, and no more than the worker counts.
LEMMA PlansType ==
  ASSUME NEW r \in Runs, kind[r] \in {"batch", "single", "set"}, NEW plan \in Plans(Total(r))
  PROVE  /\ plan \in Seq(Items)
         /\ Total(r) \in Nat
         /\ Total(r) - Len(plan) \in Nat
<1>1. Total(r) \in Nat /\ Total(r) <= N
  BY SessionAssumption DEF Total
<1>2. PICK m \in 0..Total(r) : plan \in [1..m -> 1..Total(r)]
  BY DEF Plans
<1>3. m \in Nat /\ m <= Total(r)
  BY <1>1, <1>2
<1>4. plan \in [1..m -> Items]
  BY <1>1, <1>2, SessionAssumption DEF Items
<1>5. plan \in Seq(Items) /\ Len(plan) = m
  BY <1>3, <1>4, SeqDef
<1> QED
  BY <1>1, <1>3, <1>5

\* Queueing an event, and taking one from the queue.
LEMMA PostType ==
  ASSUME TypeOK, NEW e \in Event, Post(e)
  PROVE  events' \in Seq(Event)
BY AppendProperties DEF Post, TypeOK

\* The free names a worker chooses from are paths, and the free and the planned
\* destination of the item at hand are too.
LEMMA DestinationType ==
  ASSUME TypeOK, NEW r \in Runs, job[r].todo # <<>>
  PROVE  /\ Current(r) \in Items
         /\ Tail(job[r].todo) \in Seq(Items)
         /\ Destination(r) \in Path
         /\ Renamed(Destination(r)) \subseteq Path
<1>1. job[r].todo \in Seq(Items)
  BY DEF TypeOK, Job
<1>2. Current(r) \in Items /\ Tail(job[r].todo) \in Seq(Items)
  BY <1>1, HeadTailProperties DEF Current
<1>3. Output[Current(r)] \in Names
  BY <1>2, SessionAssumption
<1>4. Destination(r) \in Path
  BY <1>3, SessionAssumption DEF Destination, Path
<1>5. Renamed(Destination(r)) \subseteq Path
  BY <1>3, SessionAssumption DEF Destination, Renamed, Path
<1> QED
  BY <1>2, <1>4, <1>5

\* The ways a worker's locals change.
LEMMA EndType ==
  ASSUME TypeOK, NEW r \in Runs, NEW result \in Outcomes, End(r, result)
  PROVE  /\ job' \in [Runs -> Job]
         /\ pc' = [pc EXCEPT ![r] = "finish"]
<1>0. job[r] \in Job
  BY DEF TypeOK
<1>1. [job[r] EXCEPT !.result = result] \in Job
  BY <1>0 DEF Job
<1>2. job' = [job EXCEPT ![r] = [job[r] EXCEPT !.result = result]]
  BY DEF End
<1>3. job' \in [Runs -> Job]
  BY <1>1, <1>2 DEF TypeOK
<1> QED
  BY <1>3 DEF End, Goto

LEMMA ItemDoneType ==
  ASSUME TypeOK, NEW r \in Runs, job[r].todo # <<>>, NEW mode \in Modes,
         NEW imported \in Nat, NEW skipped \in Nat,
         ItemDone(r, mode, imported, skipped)
  PROVE  /\ job' \in [Runs -> Job]
         /\ events' \in Seq(Event)
         /\ pc' = [pc EXCEPT ![r] = "item"]
<1>1. Current(r) \in Items /\ Tail(job[r].todo) \in Seq(Items)
  BY DestinationType
<1>2. job[r] \in Job
  BY DEF TypeOK
<1>3. /\ job[r].total \in Nat
      /\ job[r].imported + imported \in Nat
      /\ job[r].skipped + skipped \in Nat
  BY <1>2 DEF Job
<1>4. job' \in [Runs -> Job]
  BY <1>1, <1>2, <1>3 DEF TypeOK, ItemDone, Job
<1>5. Current(r) \in Nat
  BY <1>1, SessionAssumption DEF Items
<1>6. [current |-> Current(r), total |-> job[r].total,
       imported |-> job[r].imported + imported,
       skipped |-> job[r].skipped + skipped] \in Counts
  BY <1>3, <1>5 DEF Counts
<1>7. events' \in Seq(Event)
  BY <1>6, PostType DEF ItemDone, Event
<1> QED
  BY <1>4, <1>7 DEF ItemDone, Goto

LEMMA CommitToType ==
  ASSUME TypeOK, NEW r \in Runs, NEW mode \in Modes, NEW path \in Path,
         NEW replace \in BOOLEAN, CommitTo(r, mode, path, replace)
  PROVE  /\ job' \in [Runs -> Job]
         /\ pc' = [pc EXCEPT ![r] = "commit"]
         /\ UNCHANGED <<events, staged, collisions>>
<1>0. job[r] \in Job
  BY DEF TypeOK
<1>1. [job[r] EXCEPT !.mode = mode, !.path = path, !.replace = replace] \in Job
  BY <1>0 DEF Job
<1>2. job' \in [Runs -> Job]
  BY <1>1 DEF TypeOK, CommitTo
<1> QED
  BY <1>2 DEF CommitTo, Goto

\* What Settle changes.
Settled(r) ==
  /\ job' \in [Runs -> Job]
  /\ events' \in Seq(Event)
  /\ pc' \in {[pc EXCEPT ![r] = "item"], [pc EXCEPT ![r] = "commit"]}
  /\ staged' \subseteq Runs
  /\ collisions' \in [Runs -> Nat]

LEMMA SettleType ==
  ASSUME TypeOK, NEW r \in Runs, job[r].todo # <<>>, NEW mode \in Modes,
         NEW decision, Settle(r, mode, decision)
  PROVE  Settled(r)
<1>1. CASE RemoveStaged(r) /\ ItemDone(r, mode, 0, 0)
           /\ collisions' = [collisions EXCEPT ![r] = @ + 1]
  <2>1. /\ job' \in [Runs -> Job] /\ events' \in Seq(Event)
        /\ pc' = [pc EXCEPT ![r] = "item"]
    BY <1>1, ItemDoneType
  <2>2. staged' \subseteq Runs
    BY <1>1 DEF RemoveStaged, TypeOK
  <2>3. collisions' \in [Runs -> Nat]
    BY <1>1 DEF TypeOK
  <2> QED
    BY <2>1, <2>2, <2>3 DEF Settled
<1>2. ASSUME NEW path \in Path, NEW replace \in BOOLEAN, CommitTo(r, mode, path, replace)
      PROVE  Settled(r)
  <2>1. /\ job' \in [Runs -> Job] /\ pc' = [pc EXCEPT ![r] = "commit"]
        /\ UNCHANGED <<events, staged, collisions>>
    BY <1>2, CommitToType
  <2>2. events \in Seq(Event) /\ staged \subseteq Runs /\ collisions \in [Runs -> Nat]
    BY DEF TypeOK
  <2> QED
    BY <2>1, <2>2 DEF Settled
<1>3. Destination(r) \in Path /\ Renamed(Destination(r)) \subseteq Path
  BY DestinationType
<1> QED
  BY <1>1, <1>2, <1>3 DEF Settle

LEMMA LaunchType ==
  ASSUME TypeOK, NEW r \in Runs, NEW k \in {"batch", "single", "set"}, NEW total \in Nat,
         Launch(r, k, total)
  PROVE  /\ running' \in BOOLEAN /\ shown' \in Counts
         /\ cancelFlag' \in Runs \union {None} /\ slot' \in Runs \union {None}
         /\ events' \in Seq(Event)
         /\ pc' = [pc EXCEPT ![r] = "plan"]
         /\ kind' = [kind EXCEPT ![r] = k]
         /\ consent' \subseteq Path
         /\ UNCHANGED <<cancelled, channel, job, collisions, disk, late>>
BY DEF TypeOK, Launch, Counts, Zero

\* Opening, answering and dropping a prompt keep the slot and the channels typed.
Channels == {"none", "open", "gone"} \union ConflictAnswers \union ErrorAnswers

LEMMA OpenType ==
  ASSUME TypeOK, NEW r \in Runs, OpenPrompt(r)
  PROVE  /\ slot' \in Runs \union {None}
         /\ channel' \in [Runs -> Channels]
BY DEF TypeOK, OpenPrompt, Disconnected, Channels

LEMMA SendType ==
  ASSUME TypeOK, NEW answer \in ConflictAnswers \union ErrorAnswers, Send(answer)
  PROVE  /\ slot' \in Runs \union {None}
         /\ channel' \in [Runs -> Channels]
BY DEF TypeOK, Send, Channels

\* The types of what a worker changes. Its steps prove them variable by variable.
Labels == {"idle", "plan", "item", "resolve", "ask", "packed", "commit", "fail", "askError",
           "finish", "done"}
WorkerTypes ==
  /\ slot \in Runs \union {None} /\ events \in Seq(Event)
  /\ pc \in [Runs -> Labels] /\ kind \in [Runs -> {"batch", "single", "set"}]
  /\ cancelled \in [Runs -> BOOLEAN] /\ channel \in [Runs -> Channels]
  /\ job \in [Runs -> Job] /\ collisions \in [Runs -> Nat]
  /\ files \in [Path -> Content] /\ staged \subseteq Runs /\ late \in [Runs -> Nat]

LEMMA WorkerTypesOK == ASSUME TypeOK PROVE WorkerTypes
BY DEF TypeOK, WorkerTypes, Labels, Channels

LEMMA WorkerFrame ==
  ASSUME TypeOK, UNCHANGED <<alive, window, singleConflict, cancelFlag, consent>>, WorkerTypes'
  PROVE  TypeOK'
BY DEF TypeOK, WorkerTypes, Labels, Channels, window

LEMMA PcType ==
  ASSUME TypeOK, NEW r \in Runs, NEW label \in Labels, pc' = [pc EXCEPT ![r] = label]
  PROVE  pc' \in [Runs -> Labels]
BY DEF TypeOK, Labels

\* Every click keeps the types.
LEMMA UserType ==
  ASSUME TypeOK, User
  PROVE  TypeOK'
<1>1. ASSUME NEW r \in Runs, StartBatch(r) PROVE TypeOK'
  <2>2. Launch(r, "batch", 0)
    BY <1>1 DEF StartBatch
  <2>3. /\ running' \in BOOLEAN /\ shown' \in Counts
        /\ cancelFlag' \in Runs \union {None} /\ slot' \in Runs \union {None}
        /\ events' \in Seq(Event) /\ consent' \subseteq Path
        /\ pc' = [pc EXCEPT ![r] = "plan"] /\ kind' = [kind EXCEPT ![r] = "batch"]
        /\ UNCHANGED <<cancelled, channel, job, collisions, disk, late>>
    BY <2>2, LaunchType
  <2>4. pc' \in [Runs -> Labels] /\ kind' \in [Runs -> {"batch", "single", "set"}]
    BY <2>3, PcType DEF Labels, TypeOK
  <2>5. UNCHANGED <<alive, conflictVisible, conflictPath, errorVisible, verdict, singleConflict>>
    BY <1>1 DEF StartBatch
  <2> QED
    BY <2>3, <2>4, <2>5 DEF TypeOK, Labels, disk
<1>2. ASSUME NEW r \in Runs, ConvertSingle(r) PROVE TypeOK'
  <2>1. ASSUME NEW k \in {"single", "set"}, Launch(r, k, 1),
               UNCHANGED <<conflictVisible, conflictPath, singleConflict>>
        PROVE  TypeOK'
    <3>1. /\ running' \in BOOLEAN /\ shown' \in Counts
          /\ cancelFlag' \in Runs \union {None} /\ slot' \in Runs \union {None}
          /\ events' \in Seq(Event) /\ consent' \subseteq Path
          /\ pc' = [pc EXCEPT ![r] = "plan"] /\ kind' = [kind EXCEPT ![r] = k]
          /\ UNCHANGED <<cancelled, channel, job, collisions, disk, late>>
      BY <2>1, LaunchType
    <3>2. pc' \in [Runs -> Labels]
      BY <3>1, PcType DEF Labels
    <3>3. kind' \in [Runs -> {"batch", "single", "set"}]
      BY <3>1 DEF TypeOK
    <3>4. UNCHANGED <<alive, errorVisible, verdict>>
      BY <1>2 DEF ConvertSingle
    <3> QED
      BY <2>1, <3>1, <3>2, <3>3, <3>4 DEF TypeOK, Labels, disk
  <2>2. CASE /\ singleConflict' = TRUE /\ conflictPath' = SinglePath
             /\ conflictVisible' = TRUE
             /\ UNCHANGED <<running, shown, cancelFlag, slot, events, worker, disk, history>>
    <3>1. SinglePath \in Path
      BY SessionAssumption DEF SinglePath, Path
    <3> QED
      BY <1>2, <2>2, <3>1 DEF ConvertSingle, TypeOK, worker, disk, history
  <2> QED
    BY <1>2, <2>1, <2>2 DEF ConvertSingle
<1>3. ASSUME NEW answer \in ConflictAnswers, AnswerConflict(answer) PROVE TypeOK'
  <2>1. consent' \subseteq Path
    BY <1>3 DEF AnswerConflict, TypeOK
  <2>2. slot' \in Runs \union {None} /\ channel' \in [Runs -> Channels]
    BY <1>3, SendType DEF AnswerConflict, TypeOK, Channels
  <2>3. alive' \in BOOLEAN
    BY <1>3 DEF AnswerConflict, TypeOK
  <2>4. verdict' \in Outcomes \union {"none", "skipped"}
    BY <1>3 DEF AnswerConflict, TypeOK
  <2>5. /\ conflictVisible' = FALSE /\ singleConflict' = FALSE
        /\ UNCHANGED <<running, conflictPath, errorVisible, shown, cancelFlag, events,
                       pc, kind, cancelled, job, collisions, disk, late>>
    BY <1>3 DEF AnswerConflict
  <2> QED
    BY <2>1, <2>2, <2>3, <2>4, <2>5 DEF TypeOK, Channels, disk
<1>4. ASSUME NEW answer \in ErrorAnswers, AnswerError(answer) PROVE TypeOK'
  <2>1. slot' \in Runs \union {None} /\ channel' \in [Runs -> Channels]
    BY <1>4, SendType DEF AnswerError
  <2> QED
    BY <1>4, <2>1 DEF AnswerError, TypeOK, Channels, disk, history
<1>5. CASE Cancel
  <2>1. cancelled' \in [Runs -> BOOLEAN]
    BY <1>5 DEF Cancel, TypeOK
  <2>2. slot' \in Runs \union {None} /\ channel' \in [Runs -> Channels]
    BY <1>5, SendType DEF Cancel, ErrorAnswers
  <2> QED
    BY <1>5, <2>1, <2>2 DEF Cancel, TypeOK, Channels, window, disk, history
<1>6. CASE Reset
  <2>1. slot' \in Runs \union {None} /\ channel' \in [Runs -> Channels]
    BY <1>6 DEF Reset, TypeOK, Disconnected, Channels
  <2> QED
    BY <1>6, <2>1 DEF Reset, TypeOK, Channels, window, disk, history
<1> QED
  BY <1>1, <1>2, <1>3, <1>4, <1>5, <1>6 DEF User

\* A worker past the head of its loop has an item at hand.  (A single conversion
\* commits after the loop.)  Without it the types are not inductive: the item at
\* hand is the head of a sequence.
AtItem(r) ==
  \/ pc[r] \in {"resolve", "ask", "fail", "askError"}
  \/ pc[r] = "commit" /\ kind[r] = "batch"

HasItem == \A r \in Runs : AtItem(r) => job[r].todo # <<>>

\* Every step of a worker keeps the types of what it changes.
LEMMA WorkerType ==
  ASSUME TypeOK, HasItem, NEW r \in Runs, Worker(r)
  PROVE  TypeOK'
<1> USE DEF disk, history
<1>a. UNCHANGED <<alive, window, singleConflict, cancelFlag, consent>> /\ WorkerStep(r)
  BY DEF Worker
<1>b. SinglePath \in Path /\ job[r] \in Job /\ N \in Nat
  BY SessionAssumption DEF SinglePath, Path, TypeOK
<1>c. WorkerTypes
  BY WorkerTypesOK
<1>1. CASE Plan(r)
  <2>1. CASE End(r, "failed") /\ UNCHANGED events
    <3>1. job' \in [Runs -> Job] /\ pc' = [pc EXCEPT ![r] = "finish"]
      BY <2>1, EndType DEF Outcomes
    <3>2. pc' \in [Runs -> Labels]
      BY <3>1, PcType DEF Labels
    <3>3. UNCHANGED <<kind, cancelled, channel, collisions, slot, files, staged, late, events>>
      BY <1>1, <2>1 DEF Plan
    <3>4. WorkerTypes'
      BY <1>c, <3>1, <3>2, <3>3 DEF WorkerTypes
    <3> QED
      BY <1>a, <3>4, WorkerFrame
  <2>2. ASSUME NEW plan \in Plans(Total(r)),
               job' = [job EXCEPT ![r] = [job[r] EXCEPT !.todo = plan, !.total = Total(r),
                                                        !.skipped = Total(r) - Len(plan)]],
               Post([type |-> "progress", run |-> r,
                     counts |-> [Zero(Total(r)) EXCEPT !.skipped = Total(r) - Len(plan)]]),
               Goto(r, "item")
        PROVE  TypeOK'
    <3>1. plan \in Seq(Items) /\ Total(r) \in Nat /\ Total(r) - Len(plan) \in Nat
      BY PlansType DEF TypeOK
    <3>2. job' \in [Runs -> Job]
      BY <1>b, <2>2, <3>1 DEF TypeOK, Job
    <3>3. [Zero(Total(r)) EXCEPT !.skipped = Total(r) - Len(plan)] \in Counts
      BY <3>1 DEF Zero, Counts
    <3>4. events' \in Seq(Event)
      BY <2>2, <3>3, PostType DEF Event
    <3>5. pc' \in [Runs -> Labels]
      BY <2>2, PcType DEF Labels, Goto
    <3>6. UNCHANGED <<kind, cancelled, channel, collisions, slot, files, staged, late>>
      BY <1>1 DEF Plan
    <3>7. WorkerTypes'
      BY <1>c, <3>2, <3>4, <3>5, <3>6 DEF WorkerTypes
    <3> QED
      BY <1>a, <3>7, WorkerFrame
  <2> QED
    BY <1>1, <2>1, <2>2 DEF Plan
<1>2. CASE StopBetweenItems(r)
  <2>1. job' \in [Runs -> Job] /\ pc' = [pc EXCEPT ![r] = "finish"]
    BY <1>2, EndType DEF StopBetweenItems, Outcomes
  <2> QED
    BY <1>a, <1>2, <2>1 DEF StopBetweenItems, TypeOK, window
<1>3. CASE Pack(r)
  <2>1. PICK label \in {"resolve", "fail"} : Goto(r, label) /\ staged' \in {staged, staged \union {r}}
    BY <1>3 DEF Pack
  <2>2. pc' \in [Runs -> Labels]
    BY <2>1, PcType DEF Goto, Labels
  <2>3. staged' \subseteq Runs
    BY <2>1 DEF TypeOK
  <2>4. UNCHANGED <<kind, cancelled, channel, job, collisions, slot, events, files, late>>
    BY <1>3 DEF Pack
  <2>5. WorkerTypes'
    BY <1>c, <2>2, <2>3, <2>4 DEF WorkerTypes
  <2> QED
    BY <1>a, <2>5, WorkerFrame
<1>4. CASE KeepOutput(r)
  <2>1. job[r].todo # <<>> /\ job[r].mode \in Modes
    BY <1>b, <1>4 DEF KeepOutput, At, HasItem, AtItem, Job
  <2>2. job' \in [Runs -> Job] /\ events' \in Seq(Event) /\ pc' = [pc EXCEPT ![r] = "item"]
    BY <1>4, <2>1, ItemDoneType DEF KeepOutput
  <2> QED
    BY <1>a, <1>4, <2>2 DEF KeepOutput, TypeOK, window
<1>5. CASE Resolve(r)
  <2>1. job[r].todo # <<>> /\ job[r].mode \in Modes
    BY <1>b, <1>5 DEF Resolve, At, HasItem, AtItem, Job
  <2>2. CASE CommitTo(r, job[r].mode, Destination(r), FALSE) /\ UNCHANGED <<slot, channel>>
    <3>1. Destination(r) \in Path
      BY <2>1, DestinationType
    <3>2. /\ job' \in [Runs -> Job] /\ pc' = [pc EXCEPT ![r] = "commit"]
          /\ UNCHANGED <<events, staged, collisions>>
      BY <2>1, <2>2, <3>1, CommitToType
    <3>3. UNCHANGED <<kind, cancelled, files, late>>
      BY <1>5 DEF Resolve
    <3> QED
      BY <1>a, <2>2, <3>2, <3>3 DEF TypeOK, window
  <2>3. ASSUME NEW decision, Settle(r, job[r].mode, decision), UNCHANGED <<slot, channel>>
        PROVE  TypeOK'
    <3>1. Settled(r)
      BY <2>1, <2>3, SettleType
    <3>2. UNCHANGED <<kind, cancelled, files, late>>
      BY <1>5 DEF Resolve
    <3>3. pc' \in [Runs -> Labels]
      BY <3>1, PcType DEF Settled, Labels
    <3>4. WorkerTypes'
      BY <1>c, <2>3, <3>1, <3>2, <3>3 DEF Settled, WorkerTypes
    <3> QED
      BY <1>a, <3>4, WorkerFrame
  <2>4. CASE /\ OpenPrompt(r)
             /\ Post([type |-> "conflict", run |-> r, path |-> Destination(r)])
             /\ Goto(r, "ask")
             /\ UNCHANGED <<job, staged, collisions>>
    <3>1. slot' \in Runs \union {None} /\ channel' \in [Runs -> Channels]
      BY <2>4, OpenType
    <3>2. events' \in Seq(Event)
      BY <2>1, <2>4, PostType, DestinationType DEF Event
    <3> QED
      BY <1>a, <1>5, <2>4, <3>1, <3>2 DEF Resolve, Goto, TypeOK, window, Channels
  <2> QED
    BY <1>5, <2>2, <2>3, <2>4 DEF Resolve
<1>6. CASE AskAnswered(r)
  <2>1. job[r].todo # <<>>
    BY <1>6 DEF AskAnswered, At, HasItem, AtItem
  <2>2. PICK mode \in Modes, decision \in {"skip", "rename", "replace"} :
          Settle(r, mode, decision)
    BY <1>6 DEF AskAnswered, Modes
  <2>3. Settled(r)
    BY <2>1, <2>2, SettleType
  <2> QED
    <3>1. pc' \in [Runs -> Labels]
      BY <2>3, PcType DEF Settled, Labels
    <3>2. channel' = [channel EXCEPT ![r] = "none"] /\ UNCHANGED <<kind, cancelled, slot, files, late>>
      BY <1>6 DEF AskAnswered, ClosePrompt
    <3>3. channel' \in [Runs -> Channels]
      BY <1>c, <3>2 DEF WorkerTypes, Channels
    <3>4. WorkerTypes'
      BY <1>c, <2>3, <3>1, <3>2, <3>3 DEF Settled, WorkerTypes
    <3> QED
      BY <1>a, <3>4, WorkerFrame
<1>7. CASE AskAbandoned(r)
  <2>1. job' \in [Runs -> Job] /\ pc' = [pc EXCEPT ![r] = "finish"]
    BY <1>7, EndType DEF AskAbandoned, Outcomes
  <2> QED
    BY <1>a, <1>7, <2>1 DEF AskAbandoned, RemoveStaged, ClosePrompt, TypeOK, window
<1>8. CASE Commit(r)
  <2>1. PICK outcome \in CommitOutcomes(files[job[r].path], Written(r), Refused(r)) :
          /\ files' = [files EXCEPT ![job[r].path] = outcome.left]
          /\ staged' = IF outcome.staged /\ kind[r] = "single" THEN staged ELSE staged \ {r}
          /\ late' = IF outcome.left = Written(r) /\ cancelled[r]
                     THEN [late EXCEPT ![r] = @ + 1] ELSE late
          /\ \/ /\ kind[r] = "batch" /\ outcome.ok
                /\ ItemDone(r, job[r].mode, 1, 0)
             \/ /\ kind[r] = "batch" /\ ~outcome.ok
                /\ Goto(r, "fail")
                /\ UNCHANGED <<job, events>>
             \/ /\ kind[r] # "batch"
                /\ End(r, IF outcome.ok THEN "complete" ELSE "failed")
                /\ UNCHANGED events
    BY <1>8 DEF Commit
  <2>2. kind[r] = "batch" => job[r].todo # <<>> /\ job[r].mode \in Modes
    BY <1>b, <1>8 DEF Commit, At, HasItem, AtItem, Job
  <2>3. outcome.left \in Content
    <3>1. kind[r] = "batch" => Current(r) \in Items
      BY <2>2, DestinationType
    <3>2. Written(r) \in Content
      BY <3>1, SessionAssumption DEF Written, Content, Items
    <3>3. files[job[r].path] \in Content
      BY DEF TypeOK, Job
    <3> QED
      BY <3>2, <3>3 DEF CommitOutcomes, Content
  <2>4. files' \in [Path -> Content] /\ staged' \subseteq Runs /\ late' \in [Runs -> Nat]
    <3>1. files' \in [Path -> Content]
      BY <2>1, <2>3 DEF TypeOK
    <3>2. staged' \subseteq Runs
      BY <2>1 DEF TypeOK
    <3>3. late' \in [Runs -> Nat]
      BY <2>1 DEF TypeOK
    <3> QED
      BY <3>1, <3>2, <3>3
  <2>5. CASE kind[r] = "batch" /\ ItemDone(r, job[r].mode, 1, 0)
    <3>1. /\ job' \in [Runs -> Job] /\ events' \in Seq(Event)
          /\ pc' = [pc EXCEPT ![r] = "item"]
      BY <2>2, <2>5, ItemDoneType
    <3> QED
      BY <1>a, <1>8, <2>4, <3>1 DEF Commit, TypeOK, window
  <2>6. CASE Goto(r, "fail") /\ UNCHANGED <<job, events>>
    BY <1>a, <1>8, <2>4, <2>6 DEF Commit, Goto, TypeOK, window
  <2>7. ASSUME NEW result \in Outcomes, End(r, result), UNCHANGED events
        PROVE  TypeOK'
    <3>1. job' \in [Runs -> Job] /\ pc' = [pc EXCEPT ![r] = "finish"]
      BY <2>7, EndType
    <3> QED
      BY <1>a, <1>8, <2>4, <2>7, <3>1 DEF Commit, TypeOK, window
  <2> QED
    BY <2>1, <2>5, <2>6, <2>7 DEF Outcomes
<1>9. CASE AskError(r)
  <2>1. slot' \in Runs \union {None} /\ channel' \in [Runs -> Channels]
    BY <1>9, OpenType DEF AskError
  <2>2. events' \in Seq(Event)
    BY <1>9, PostType DEF AskError, Event
  <2> QED
    BY <1>a, <1>9, <2>1, <2>2 DEF AskError, Goto, TypeOK, window, Channels
<1>10. CASE ErrorContinued(r)
  <2>1. job[r].todo # <<>> /\ job[r].mode \in Modes
    BY <1>b, <1>10 DEF ErrorContinued, At, HasItem, AtItem, Job
  <2>2. job' \in [Runs -> Job] /\ events' \in Seq(Event) /\ pc' = [pc EXCEPT ![r] = "item"]
    BY <1>10, <2>1, ItemDoneType DEF ErrorContinued
  <2> QED
    BY <1>a, <1>10, <2>2 DEF ErrorContinued, ClosePrompt, TypeOK, window
<1>11. CASE ErrorStopped(r)
  <2>1. job' \in [Runs -> Job] /\ pc' = [pc EXCEPT ![r] = "finish"]
    BY <1>11, EndType DEF ErrorStopped, Outcomes
  <2> QED
    BY <1>a, <1>11, <2>1 DEF ErrorStopped, ClosePrompt, TypeOK, window
<1>12. CASE LoopDone(r)
  <2>1. ASSUME NEW result \in Outcomes, End(r, result) PROVE TypeOK'
    <3>1. job' \in [Runs -> Job] /\ pc' = [pc EXCEPT ![r] = "finish"]
      BY <2>1, EndType
    <3> QED
      BY <1>a, <1>12, <3>1 DEF LoopDone, TypeOK, window
  <2>2. CASE /\ job' = [job EXCEPT ![r] = [job[r] EXCEPT !.path = SinglePath, !.replace = FALSE]]
             /\ Goto(r, "commit")
    <3>1. job' \in [Runs -> Job]
      BY <1>b, <2>2 DEF Job, TypeOK
    <3> QED
      BY <1>a, <1>12, <2>2, <3>1 DEF LoopDone, Goto, TypeOK, window
  <2> QED
    BY <1>12, <2>1, <2>2 DEF LoopDone, Outcomes
<1>13. CASE Finish(r)
  <2>1. Outcome(r) \in Outcomes
    BY <1>b DEF Outcome, Outcomes, Job
  <2>2. FinalCounts(r) \in Counts
    <3>1. collisions[r] \in Nat /\ job[r].skipped \in Nat /\ job[r].imported \in Nat
          /\ job[r].total \in Nat
      BY <1>b DEF Job, TypeOK
    <3> QED
      BY <3>1 DEF FinalCounts, Counts
  <2>3. events' \in Seq(Event)
    BY <1>13, <2>1, <2>2, PostType DEF Finish, Event
  <2>4. NoJob \in Job
    BY <1>b DEF NoJob, Job, Modes, Outcomes
  <2> QED
    BY <1>a, <1>13, <2>3, <2>4 DEF Finish, Goto, TypeOK, window
<1>14. CASE PackSet(r)
  <2>1. PICK result \in {"complete", "failed"} :
          /\ job' = [job EXCEPT ![r] = [job[r] EXCEPT !.result = result]]
          /\ staged' \in {staged, staged \union {r}}
    BY <1>14 DEF PackSet
  <2>2. job' \in [Runs -> Job]
    BY <1>b, <2>1 DEF Job, Outcomes, TypeOK
  <2>3. staged' \subseteq Runs
    BY <2>1 DEF TypeOK
  <2> QED
    BY <1>a, <1>14, <2>2, <2>3 DEF PackSet, Goto, TypeOK, window
<1>15. CASE SetPacked(r)
  <2>1. CASE RemoveStaged(r) /\ End(r, "cancelled")
    <3>1. job' \in [Runs -> Job] /\ pc' = [pc EXCEPT ![r] = "finish"]
      BY <2>1, EndType DEF Outcomes
    <3> QED
      BY <1>a, <1>15, <2>1, <3>1 DEF SetPacked, RemoveStaged, TypeOK, window
  <2>2. CASE /\ job' = [job EXCEPT ![r] = [job[r] EXCEPT !.path = SinglePath, !.replace = FALSE,
                                                       !.total = 1, !.imported = 1]]
             /\ Goto(r, "commit")
             /\ UNCHANGED staged
    <3>1. job' \in [Runs -> Job]
      BY <1>b, <2>2 DEF Job, TypeOK
    <3> QED
      BY <1>a, <1>15, <2>2, <3>1 DEF SetPacked, Goto, TypeOK, window
  <2>3. CASE End(r, "failed") /\ UNCHANGED staged
    <3>1. job' \in [Runs -> Job] /\ pc' = [pc EXCEPT ![r] = "finish"]
      BY <2>3, EndType DEF Outcomes
    <3> QED
      BY <1>a, <1>15, <2>3, <3>1 DEF SetPacked, TypeOK, window
  <2> QED
    BY <1>15, <2>1, <2>2, <2>3 DEF SetPacked
<1> QED
  BY <1>a, <1>1, <1>2, <1>3, <1>4, <1>5, <1>6, <1>7, <1>8, <1>9, <1>10, <1>11, <1>12, <1>13,
     <1>14, <1>15
  DEF WorkerStep

\* The closures of the event loop keep the types.
LEMMA RunEventType ==
  ASSUME TypeOK, RunEvent
  PROVE  TypeOK'
<1> DEFINE e == Head(events)
<1>1. e \in Event /\ events' \in Seq(Event)
  BY HeadTailProperties DEF RunEvent, TypeOK
<1>2. UNCHANGED <<alive, workspace, worker, disk, history>>
  BY DEF RunEvent
<1> USE DEF workspace, worker, disk, history
<1>3. CASE ShowProgress(e)
  <2>1. e.run \in Runs /\ e.counts \in Counts
    BY <1>1, <1>3 DEF Event, ShowProgress
  <2>2. [e.counts EXCEPT !.skipped = @ + collisions[e.run]] \in Counts
    <3>1. collisions[e.run] \in Nat
      BY <2>1 DEF TypeOK
    <3>2. e.counts.skipped + collisions[e.run] \in Nat
      BY <2>1, <3>1 DEF Counts
    <3> QED
      BY <2>1, <3>2 DEF Counts
  <2>3. shown' \in Counts
    BY <1>3, <2>1, <2>2 DEF ShowProgress
  <2> QED
    BY <1>1, <1>2, <1>3, <2>3 DEF ShowProgress, TypeOK
<1>4. CASE ShowConflict(e)
  <2>1. e.path \in Path
    BY <1>1, <1>4 DEF Event, ShowConflict
  <2> QED
    BY <1>1, <1>2, <1>4, <2>1 DEF ShowConflict, TypeOK
<1>5. CASE ShowError(e)
  BY <1>1, <1>2, <1>5 DEF ShowError, TypeOK
<1>6. CASE ShowFinal(e)
  <2>1. e.outcome \in Outcomes /\ e.counts \in Counts
    BY <1>1, <1>6 DEF Event, ShowFinal
  <2> QED
    BY <1>1, <1>2, <1>6, <2>1 DEF ShowFinal, TypeOK
<1> QED
  BY <1>3, <1>4, <1>5, <1>6 DEF RunEvent

\* A step leaves the item at hand of the other workers alone, and takes a worker
\* past the head of its loop only with an item in hand.
LEMMA HasItemStep ==
  ASSUME TypeOK, HasItem, Next
  PROVE  HasItem'
<1>1. ASSUME User PROVE HasItem'
  <2>1. ASSUME NEW r \in Runs, NEW k, NEW total, Launch(r, k, total) PROVE HasItem'
    BY <2>1 DEF Launch, TypeOK, HasItem, AtItem
  <2>2. ASSUME UNCHANGED <<pc, kind, job>> PROVE HasItem'
    BY <2>2 DEF HasItem, AtItem
  <2> QED
    BY <1>1, <2>1, <2>2
    DEF User, StartBatch, ConvertSingle, AnswerConflict, AnswerError, Cancel, Reset, worker
<1>2. ASSUME UNCHANGED <<pc, kind, job>> PROVE HasItem'
  BY <1>2 DEF HasItem, AtItem
<1>3. ASSUME NEW r \in Runs, Worker(r) PROVE HasItem'
  <2>1. ASSUME NEW result, End(r, result), UNCHANGED kind PROVE HasItem'
    BY <2>1 DEF End, Goto, TypeOK, HasItem, AtItem
  <2>2. ASSUME NEW mode, NEW imported, NEW skipped, ItemDone(r, mode, imported, skipped),
               UNCHANGED kind
        PROVE  HasItem'
    BY <2>2 DEF ItemDone, Goto, TypeOK, HasItem, AtItem
  <2>3. ASSUME NEW mode, NEW path, NEW replace, CommitTo(r, mode, path, replace),
               job[r].todo # <<>>, UNCHANGED kind
        PROVE  HasItem'
    <3>1. job'[r].todo = job[r].todo
      BY <2>3 DEF CommitTo, TypeOK, Job
    <3> QED
      BY <2>3, <3>1 DEF CommitTo, Goto, TypeOK, HasItem, AtItem
  <2>4. ASSUME NEW label, Goto(r, label), UNCHANGED <<job, kind>>,
               \/ job[r].todo # <<>>
               \/ label \in {"item", "done"}
        PROVE  HasItem'
    BY <2>4 DEF Goto, TypeOK, HasItem, AtItem
  <2>5. CASE Plan(r)
    BY <2>1, <2>5 DEF Plan, Goto, TypeOK, HasItem, AtItem
  <2>6. CASE StopBetweenItems(r) \/ AskAbandoned(r) \/ ErrorStopped(r)
    BY <2>1, <2>6 DEF StopBetweenItems, AskAbandoned, ErrorStopped
  <2>7. CASE Pack(r)
    BY <2>4, <2>7 DEF Pack
  <2>8. CASE KeepOutput(r) \/ ErrorContinued(r)
    BY <2>2, <2>8 DEF KeepOutput, ErrorContinued
  <2>9. ASSUME NEW mode, NEW decision, Settle(r, mode, decision), UNCHANGED kind, AtItem(r)
        PROVE  HasItem'
    BY <2>2, <2>3, <2>9 DEF Settle, HasItem
  <2>10. CASE Resolve(r)
    BY <2>3, <2>4, <2>9, <2>10 DEF Resolve, At, AtItem, HasItem
  <2>11. CASE AskAnswered(r)
    BY <2>9, <2>11 DEF AskAnswered, At, AtItem
  <2>12. CASE Commit(r)
    BY <2>1, <2>2, <2>4, <2>12 DEF Commit, At, AtItem, HasItem
  <2>13. CASE AskError(r)
    BY <2>4, <2>13 DEF AskError, At, AtItem, HasItem
  <2>14. CASE LoopDone(r)
    BY <2>1, <2>14 DEF LoopDone, Goto, TypeOK, HasItem, AtItem
  <2>15. CASE Finish(r)
    BY <2>15 DEF Finish, Goto, TypeOK, HasItem, AtItem
  <2>16. CASE PackSet(r)
    BY <2>1, <2>16 DEF PackSet, Goto, TypeOK, HasItem, AtItem
  <2>17. CASE SetPacked(r)
    BY <2>1, <2>17 DEF SetPacked, Goto, TypeOK, HasItem, AtItem
  <2> QED
    BY <1>3, <2>5, <2>6, <2>7, <2>8, <2>10, <2>11, <2>12, <2>13, <2>14, <2>15, <2>16, <2>17
    DEF Worker, WorkerStep
<1> QED
  BY <1>1, <1>2, <1>3 DEF Next, RunEvent, CreateOutside, worker

\* The types and the item at hand together are inductive.
TypeInv == TypeOK /\ HasItem

LEMMA TypeInvInit == Init => TypeInv
<1> SUFFICES ASSUME Init PROVE TypeInv
  OBVIOUS
<1>1. NoJob \in Job
  BY SessionAssumption DEF NoJob, Job, SinglePath, Path, Modes, Outcomes
<1>2. files \in [Path -> Content]
  BY DEF Init, Content
<1>3. events \in Seq(Event)
  BY DEF Init
<1>4. shown \in Counts
  BY DEF Init, Counts, Zero
<1> QED
  BY <1>1, <1>2, <1>3, <1>4 DEF Init, TypeInv, TypeOK, HasItem, AtItem

LEMMA TypeInvStep ==
  ASSUME TypeInv, [Next]_vars
  PROVE  TypeInv'
<1>1. CASE UNCHANGED vars
  <2>1. TypeOK'
    BY <1>1 DEF TypeInv, TypeOK, vars, window, workspace, worker, disk, history
  <2>2. HasItem'
    BY <1>1 DEF TypeInv, HasItem, AtItem, vars, worker
  <2> QED
    BY <2>1, <2>2 DEF TypeInv
<1>2. CASE Next
  <2>1. HasItem'
    BY <1>2, HasItemStep DEF TypeInv
  <2>2. CASE User
    BY <2>1, <2>2, UserType DEF TypeInv
  <2>3. CASE RunEvent
    BY <2>1, <2>3, RunEventType DEF TypeInv
  <2>4. CASE \E r \in Runs : Worker(r)
    BY <2>1, <2>4, WorkerType DEF TypeInv
  <2>5. ASSUME NEW p \in Outside, CreateOutside(p) PROVE TypeOK'
    <3>1. files' \in [Path -> Content]
      BY <2>5 DEF CreateOutside, TypeInv, TypeOK, Content
    <3> QED
      BY <2>5, <3>1 DEF CreateOutside, TypeInv, TypeOK, window, workspace, worker, history
  <2> QED
    BY <1>2, <2>1, <2>2, <2>3, <2>4, <2>5 DEF Next, TypeInv
<1> QED
  BY <1>1, <1>2

\* The types hold in every state, of however many conversions and items.
THEOREM TypeCorrect == Spec => []TypeOK
<1>1. TypeInv => TypeOK
  BY DEF TypeInv
<1> QED
  BY <1>1, TypeInvInit, TypeInvStep, PTL DEF Spec

------------------------------------------------------------------------------
(* The prompt slot. *)

\* The Sender of every Receiver that still waits is the one in the slot, whatever
\* the worker is doing: this, unlike PromptReachable, is inductive.
SlotInv == \A r \in Runs : channel[r] = "open" => slot = r

LEMMA SlotStep ==
  ASSUME TypeOK, SlotInv, [Next]_vars
  PROVE  SlotInv'
<1>1. ASSUME UNCHANGED <<slot, channel>> PROVE SlotInv'
  BY <1>1 DEF SlotInv
<1>2. ASSUME NEW r \in Runs, OpenPrompt(r) PROVE SlotInv'
  BY <1>2 DEF OpenPrompt, Disconnected, SlotInv, TypeOK
<1>3. ASSUME NEW answer \in ConflictAnswers \union ErrorAnswers, Send(answer) PROVE SlotInv'
  BY <1>3 DEF Send, SlotInv, TypeOK, ConflictAnswers, ErrorAnswers
<1>4. ASSUME NEW r \in Runs, ClosePrompt(r), UNCHANGED slot PROVE SlotInv'
  BY <1>4 DEF ClosePrompt, SlotInv, TypeOK
<1>5. CASE User
  <2>1. ASSUME NEW r \in Runs, StartBatch(r) \/ ConvertSingle(r) PROVE SlotInv'
    BY <1>1, <2>1 DEF StartBatch, ConvertSingle, Launch, worker
  <2>2. ASSUME NEW answer \in ConflictAnswers, AnswerConflict(answer) PROVE SlotInv'
    BY <1>1, <1>3, <2>2 DEF AnswerConflict
  <2>3. ASSUME NEW answer \in ErrorAnswers, AnswerError(answer) PROVE SlotInv'
    BY <1>3, <2>3 DEF AnswerError
  <2>4. CASE Cancel
    BY <1>3, <2>4 DEF Cancel, ErrorAnswers
  <2>5. CASE Reset
    BY <2>5 DEF Reset, Disconnected, SlotInv, TypeOK
  <2> QED
    BY <1>5, <2>1, <2>2, <2>3, <2>4, <2>5 DEF User
<1>6. ASSUME NEW r \in Runs, Worker(r) PROVE SlotInv'
  <2>1. CASE Resolve(r)
    BY <1>1, <1>2, <2>1 DEF Resolve
  <2>2. CASE AskError(r)
    BY <1>2, <2>2 DEF AskError
  <2>3. CASE AskAnswered(r) \/ AskAbandoned(r) \/ ErrorContinued(r) \/ ErrorStopped(r)
    BY <1>4, <2>3 DEF AskAnswered, AskAbandoned, ErrorContinued, ErrorStopped
  <2>4. CASE \/ Plan(r) \/ PackSet(r) \/ SetPacked(r) \/ StopBetweenItems(r) \/ Pack(r)
             \/ KeepOutput(r) \/ Commit(r) \/ LoopDone(r) \/ Finish(r)
    BY <1>1, <2>4 DEF Plan, PackSet, SetPacked, StopBetweenItems, Pack, KeepOutput, Commit, LoopDone, Finish
  <2> QED
    BY <1>6, <2>1, <2>2, <2>3, <2>4 DEF Worker, WorkerStep
<1>7. CASE RunEvent \/ \E p \in Outside : CreateOutside(p)
  BY <1>1, <1>7 DEF RunEvent, CreateOutside, workspace, worker
<1>8. CASE UNCHANGED vars
  BY <1>1, <1>8 DEF vars, workspace, worker
<1> QED
  BY <1>5, <1>6, <1>7, <1>8 DEF Next

\* A worker that waits for an answer nobody has sent can be reached through the
\* slot by the dialog, Cancel and reset, in every interleaving.
THEOREM PromptAlwaysReachable == Spec => []PromptReachable
<1>1. Init => SlotInv
  BY DEF Init, SlotInv
<1>2. TypeOK /\ SlotInv /\ [Next]_vars => SlotInv'
  BY SlotStep
<1>3. SlotInv => PromptReachable
  BY DEF SlotInv, PromptReachable
<1> QED
  BY <1>1, <1>2, <1>3, TypeCorrect, PTL DEF Spec

------------------------------------------------------------------------------
(* Staged files, and commits after a cancel. *)

\* A staged file belongs to a worker between packing and committing, or to a single
\* conversion that kept it.
StagedInv ==
  \A r \in staged : \/ pc[r] \in {"resolve", "ask", "packed", "commit"}
                    \/ kind[r] # "batch" /\ pc[r] # "idle"

\* Once a worker committed an output after its cancel, it is on the way to its end:
\* the head of the loop, or a question it will give up, and never before a commit.
LateInv ==
  \A r \in Runs :
    \/ late[r] = 0
    \/ /\ late[r] = 1 /\ cancelled[r]
       /\ pc[r] \in {"item", "fail", "askError", "finish", "done"}

\* How a worker's step changes where it stands, whether its file is staged and
\* what it committed late.
LEMMA WorkerMoves ==
  ASSUME TypeOK, NEW r \in Runs, WorkerStep(r)
  PROVE  /\ pc[r] \notin {"idle", "done"}
         /\ \A q \in Runs \ {r} : pc'[q] = pc[q] /\ late'[q] = late[q] /\ (q \in staged' <=> q \in staged)
         /\ staged' \subseteq Runs
         /\ UNCHANGED <<kind, cancelled>>
         /\ \/ /\ pc[r] = "plan" /\ pc'[r] = "packed" /\ late' = late
            \/ /\ pc[r] = "item" /\ ~cancelled[r] /\ pc'[r] = "resolve" /\ late' = late
            \/ /\ pc[r] \in {"item", "packed"} /\ ~cancelled[r] /\ pc'[r] = "commit"
               /\ UNCHANGED <<late, staged>>
            \/ /\ pc[r] \in {"plan", "item", "fail", "askError", "finish"}
               /\ pc'[r] \in {"item", "fail", "askError", "finish", "done"}
               /\ UNCHANGED <<late, staged>>
            \/ /\ pc[r] \in {"resolve", "ask"} /\ pc'[r] \in {"ask", "commit"}
               /\ UNCHANGED <<late, staged>>
            \/ /\ pc[r] \in {"resolve", "ask", "packed"} /\ pc'[r] \in {"item", "finish"}
               /\ r \notin staged' \/ kind[r] # "batch"
               /\ late' = late
            \/ /\ pc[r] = "commit" /\ pc'[r] \in {"item", "fail", "finish"}
               /\ r \notin staged' \/ kind[r] # "batch"
               /\ late'[r] = late[r] \/ (cancelled[r] /\ late'[r] = late[r] + 1)
<1> USE DEF At, Goto, disk
<1>1. CASE Plan(r)
  BY <1>1 DEF Plan, End, TypeOK
<1>2. CASE StopBetweenItems(r)
  BY <1>2 DEF StopBetweenItems, End, TypeOK
<1>3. CASE Pack(r)
  BY <1>3 DEF Pack, SeesCancel, TypeOK
<1>4. CASE KeepOutput(r)
  BY <1>4 DEF KeepOutput, ItemDone, TypeOK
<1>5. ASSUME NEW mode, NEW decision, Settle(r, mode, decision)
      PROVE  \/ RemoveStaged(r) /\ pc' = [pc EXCEPT ![r] = "item"]
             \/ staged' = staged /\ pc' = [pc EXCEPT ![r] = "commit"]
  BY <1>5 DEF Settle, CommitTo, ItemDone
<1>6. CASE Resolve(r)
  BY <1>5, <1>6 DEF Resolve, RemoveStaged, CommitTo, TypeOK
<1>7. CASE AskAnswered(r)
  BY <1>5, <1>7 DEF AskAnswered, RemoveStaged, TypeOK
<1>8. CASE AskAbandoned(r)
  BY <1>8 DEF AskAbandoned, RemoveStaged, End, TypeOK
<1>9. CASE Commit(r)
  <2>1. /\ pc[r] = "commit" /\ UNCHANGED <<kind, cancelled>>
    BY <1>9 DEF Commit
  <2>2. \E label \in {"item", "fail", "finish"} : pc' = [pc EXCEPT ![r] = label]
    BY <1>9 DEF Commit, ItemDone, End
  <2>3. /\ staged' \in {staged, staged \ {r}}
        /\ r \notin staged' \/ kind[r] # "batch"
    BY <1>9 DEF Commit, TypeOK
  <2>4. late' = late \/ (cancelled[r] /\ late' = [late EXCEPT ![r] = late[r] + 1])
    BY <1>9 DEF Commit
  <2> QED
    BY <2>1, <2>2, <2>3, <2>4 DEF TypeOK
<1>10. CASE AskError(r)
  BY <1>10 DEF AskError, TypeOK
<1>11. CASE ErrorContinued(r)
  BY <1>11 DEF ErrorContinued, ItemDone, TypeOK
<1>12. CASE ErrorStopped(r)
  BY <1>12 DEF ErrorStopped, End, TypeOK
<1>13. CASE LoopDone(r)
  BY <1>13 DEF LoopDone, End, TypeOK
<1>14. CASE Finish(r)
  BY <1>14 DEF Finish, TypeOK
<1>15. CASE PackSet(r)
  BY <1>15 DEF PackSet, End, TypeOK
<1>16. CASE SetPacked(r)
  BY <1>16 DEF SetPacked, RemoveStaged, End, TypeOK
<1> QED
  BY <1>1, <1>2, <1>3, <1>4, <1>6, <1>7, <1>8, <1>9, <1>10, <1>11, <1>12, <1>13, <1>14,
     <1>15, <1>16
  DEF WorkerStep

\* Clicks, closures and other programs move no worker past its start.
LEMMA OthersMove ==
  ASSUME TypeOK, [Next]_vars, ~\E r \in Runs : Worker(r)
  PROVE  /\ UNCHANGED <<staged, late>>
         /\ \A r \in Runs : cancelled[r] => cancelled'[r]
         /\ \A r \in Runs : (pc'[r] = pc[r] /\ kind'[r] = kind[r])
                           \/ (pc[r] = "idle" /\ pc'[r] = "plan")
<1> USE DEF worker, workspace, window, disk, history
<1>1. ASSUME NEW r \in Runs, StartBatch(r) \/ ConvertSingle(r)
      PROVE  /\ UNCHANGED <<staged, late, cancelled>>
             /\ \A q \in Runs : (pc'[q] = pc[q] /\ kind'[q] = kind[q])
                               \/ (pc[q] = "idle" /\ pc'[q] = "plan")
  <2>1. ASSUME NEW k, NEW total, Launch(r, k, total)
        PROVE  /\ UNCHANGED <<staged, late, cancelled>>
               /\ pc[r] = "idle" /\ pc' = [pc EXCEPT ![r] = "plan"]
               /\ kind' = [kind EXCEPT ![r] = k]
    BY <2>1 DEF Launch
  <2> QED
    BY <1>1, <2>1 DEF StartBatch, ConvertSingle, TypeOK
<1>2. CASE Cancel
  <2>1. UNCHANGED <<pc, kind, staged, late>>
    BY <1>2 DEF Cancel
  <2>2. \A r \in Runs : cancelled[r] => cancelled'[r]
    BY <1>2 DEF Cancel
  <2> QED
    BY <2>1, <2>2
<1>3. CASE \/ \E answer \in ConflictAnswers : AnswerConflict(answer)
           \/ \E answer \in ErrorAnswers : AnswerError(answer)
           \/ Reset
           \/ RunEvent
           \/ \E p \in Outside : CreateOutside(p)
           \/ UNCHANGED vars
  <2>1. UNCHANGED <<pc, kind, cancelled, staged, late>>
    BY <1>3 DEF AnswerConflict, AnswerError, Reset, RunEvent, CreateOutside, vars
  <2> QED
    BY <2>1
<1> QED
  BY <1>1, <1>2, <1>3 DEF Next, User

LEMMA StagedStep ==
  ASSUME TypeOK, StagedInv, [Next]_vars
  PROVE  StagedInv'
<1>1. ASSUME NEW r \in Runs, Worker(r) PROVE StagedInv'
  <2>1. WorkerStep(r)
    BY <1>1 DEF Worker
  <2>2. ASSUME NEW q \in staged'
        PROVE  \/ pc'[q] \in {"resolve", "ask", "packed", "commit"}
               \/ kind'[q] # "batch" /\ pc'[q] # "idle"
    <3>1. q \in Runs
      BY <2>1, <2>2, WorkerMoves
    <3>2. CASE q # r
      BY <2>1, <2>2, <3>1, <3>2, WorkerMoves DEF StagedInv
    <3>3. CASE q = r
      BY <2>1, <2>2, <3>3, WorkerMoves DEF StagedInv
    <3> QED
      BY <3>2, <3>3
  <2> QED
    BY <2>2 DEF StagedInv
<1>2. CASE ~\E r \in Runs : Worker(r)
  BY <1>2, OthersMove DEF StagedInv, TypeOK
<1> QED
  BY <1>1, <1>2

\* However a batch ends, no `<name>.tmp` of its is left in the output directory.
THEOREM BatchLeavesNothingStaged == Spec => []NoStagedLeftover
<1>1. Init => StagedInv
  BY DEF Init, StagedInv
<1>2. TypeOK /\ StagedInv /\ [Next]_vars => StagedInv'
  BY StagedStep
<1>3. StagedInv => NoStagedLeftover
  BY DEF StagedInv, NoStagedLeftover
<1> QED
  BY <1>1, <1>2, <1>3, TypeCorrect, PTL DEF Spec

LEMMA LateStep ==
  ASSUME TypeOK, LateInv, [Next]_vars
  PROVE  LateInv'
<1>1. ASSUME NEW r \in Runs, Worker(r) PROVE LateInv'
  <2>1. WorkerStep(r)
    BY <1>1 DEF Worker
  <2>2. SUFFICES ASSUME NEW q \in Runs
                 PROVE  \/ late'[q] = 0
                        \/ /\ late'[q] = 1 /\ cancelled'[q]
                           /\ pc'[q] \in {"item", "fail", "askError", "finish", "done"}
    BY DEF LateInv
  <2>3. CASE q # r
    BY <2>1, <2>3, WorkerMoves DEF LateInv
  <2>4. CASE q = r
    BY <2>1, <2>4, WorkerMoves DEF LateInv
  <2> QED
    BY <2>3, <2>4
<1>2. CASE ~\E r \in Runs : Worker(r)
  BY <1>2, OthersMove DEF LateInv
<1> QED
  BY <1>1, <1>2

\* Whatever the cancel races with, at most one output is committed after it.
THEOREM CancelStopsCommits == Spec => []AtMostOneLateCommit
<1>1. Init => LateInv
  BY DEF Init, LateInv
<1>2. TypeOK /\ LateInv /\ [Next]_vars => LateInv'
  BY LateStep
<1>3. LateInv => AtMostOneLateCommit
  <2>1. ASSUME LateInv, NEW r \in Runs PROVE late[r] \in {0, 1}
    BY <2>1 DEF LateInv
  <2>2. \A n \in {0, 1} : n <= 1
    OBVIOUS
  <2> QED
    BY <2>1, <2>2 DEF AtMostOneLateCommit
<1> QED
  BY <1>1, <1>2, <1>3, TypeCorrect, PTL DEF Spec

------------------------------------------------------------------------------
(* One conversion at a time. *)

\* A worker that has started and not ended.
Live(r) == pc[r] \notin {"idle", "done"}

\* The closures that end a conversion, by their place in the queue.
Final(i) == i \in 1..Len(events) /\ events[i].type = "final"

\* There is at most one live worker; a worker's last closure is in the queue only
\* when no worker is live, and there is at most one such closure; the window shows a
\* running conversion exactly when there is one or the other.  OneConversion alone
\* does not say that a worker with its last closure queued has ended.
RunInv ==
  /\ \A r, q \in Runs : Live(r) /\ Live(q) => r = q
  /\ \A i \in 1..Len(events) : Final(i) =>
       /\ \A r \in Runs : ~Live(r)
       /\ \A j \in 1..Len(events) : Final(j) => i = j
  /\ running <=> \/ \E r \in Runs : Live(r)
                 \/ \E i \in 1..Len(events) : Final(i)

\* A step that neither starts nor ends a conversion, and queues nothing or a closure
\* that is not a last one.
Steady ==
  /\ UNCHANGED running
  /\ \A r \in Runs : Live(r)' <=> Live(r)
  /\ \/ UNCHANGED events
     \/ \E e : Post(e) /\ e.type # "final"

LEMMA SteadyStep ==
  ASSUME TypeOK, RunInv, Steady
  PROVE  RunInv'
<1>1. CASE UNCHANGED events
  BY <1>1 DEF Steady, RunInv, Final
<1>2. ASSUME NEW e, Post(e), e.type # "final" PROVE RunInv'
  <2>1. /\ Len(events') = Len(events) + 1 /\ Len(events) \in Nat
        /\ \A i \in 1..Len(events) : events'[i] = events[i]
        /\ events'[Len(events) + 1] = e
    <3>1. events \in Seq(Event \union {e})
      BY SeqMonotonic DEF TypeOK
    <3> QED
      BY <1>2, <3>1, AppendProperties, LenProperties DEF Post
  <2>2. \A i : Final(i)' <=> Final(i)
    BY <1>2, <2>1 DEF Final
  <2>3. 1..Len(events) \subseteq 1..Len(events')
    BY <2>1
  <2> QED
    BY <2>2, <2>3 DEF Steady, RunInv, Final
<1> QED
  BY <1>1, <1>2 DEF Steady

\* A worker's steps but its last are steady.
LEMMA WorkerSteady ==
  ASSUME TypeOK, NEW r \in Runs, Worker(r), ~Finish(r)
  PROVE  Steady
<1> USE DEF Live
<1>1. UNCHANGED running
  BY DEF Worker, window
<1>2. ASSUME NEW label \in {"item", "resolve", "ask", "packed", "commit", "fail", "askError", "finish"},
             pc' = [pc EXCEPT ![r] = label]
      PROVE  \A q \in Runs : Live(q)' <=> Live(q)
  <2>1. Live(r)
    BY WorkerMoves DEF Worker
  <2> QED
    BY <1>2, <2>1 DEF TypeOK
<1>3. ASSUME NEW result, End(r, result), UNCHANGED events PROVE Steady
  BY <1>1, <1>2, <1>3 DEF Steady, End, Goto
<1>4. ASSUME NEW mode, NEW imported, NEW skipped, ItemDone(r, mode, imported, skipped)
      PROVE  Steady
  BY <1>1, <1>2, <1>4 DEF Steady, ItemDone, Goto
<1>5. ASSUME NEW mode, NEW path, NEW replace, CommitTo(r, mode, path, replace) PROVE Steady
  BY <1>1, <1>2, <1>5 DEF Steady, CommitTo, Goto
<1>6. ASSUME NEW label \in {"item", "resolve", "packed", "commit", "fail"}, Goto(r, label),
             UNCHANGED events
      PROVE  Steady
  BY <1>1, <1>2, <1>6 DEF Steady, Goto
<1>7. ASSUME NEW mode, NEW decision, Settle(r, mode, decision) PROVE Steady
  BY <1>4, <1>5, <1>7 DEF Settle
<1>8. CASE Plan(r)
  <2>1. ASSUME NEW e, Post(e), e.type = "progress", Goto(r, "item") PROVE Steady
    BY <1>1, <1>2, <2>1 DEF Steady, Goto
  <2> QED
    BY <1>3, <1>8, <2>1 DEF Plan
<1>9. CASE StopBetweenItems(r) \/ AskAbandoned(r) \/ ErrorStopped(r)
  BY <1>3, <1>9 DEF StopBetweenItems, AskAbandoned, ErrorStopped
<1>10. CASE Pack(r)
  BY <1>6, <1>10 DEF Pack
<1>11. CASE KeepOutput(r) \/ ErrorContinued(r)
  BY <1>4, <1>11 DEF KeepOutput, ErrorContinued
<1>12. CASE Resolve(r)
  <2>1. CASE OpenPrompt(r) /\ Goto(r, "ask")
             /\ Post([type |-> "conflict", run |-> r, path |-> Destination(r)])
    BY <1>1, <1>2, <2>1 DEF Steady, Goto
  <2> QED
    BY <1>5, <1>7, <1>12, <2>1 DEF Resolve
<1>13. CASE AskAnswered(r)
  BY <1>7, <1>13 DEF AskAnswered
<1>14. CASE Commit(r)
  BY <1>3, <1>4, <1>6, <1>14 DEF Commit
<1>15. CASE AskError(r)
  BY <1>1, <1>2, <1>15 DEF AskError, Steady, Goto
<1>16. CASE LoopDone(r)
  BY <1>3, <1>6, <1>16 DEF LoopDone
<1>17. CASE PackSet(r) \/ SetPacked(r)
  BY <1>3, <1>6, <1>17 DEF PackSet, SetPacked
<1> QED
  BY <1>8, <1>9, <1>10, <1>11, <1>12, <1>13, <1>14, <1>15, <1>16, <1>17 DEF Worker, WorkerStep

LEMMA RunInvStep ==
  ASSUME TypeOK, RunInv, [Next]_vars
  PROVE  RunInv'
<1>1. ASSUME NEW r \in Runs, Worker(r), ~Finish(r) PROVE RunInv'
  BY <1>1, WorkerSteady, SteadyStep
<1>2. ASSUME NEW r \in Runs, Worker(r), Finish(r) PROVE RunInv'
  <2>1. PICK e : Post(e) /\ e.type = "final"
    BY <1>2 DEF Finish
  <2>2. /\ Live(r) /\ \A q \in Runs : Live(q)' <=> Live(q) /\ q # r
        /\ UNCHANGED running
    BY <1>2 DEF Worker, window, Finish, Goto, At, Live, TypeOK
  <2>3. /\ \A q \in Runs : ~Live(q)'
        /\ \A i \in 1..Len(events) : ~Final(i)
        /\ running
    BY <2>2 DEF RunInv
  <2>4. /\ Len(events') = Len(events) + 1 /\ Len(events) \in Nat
        /\ \A i \in 1..Len(events) : events'[i] = events[i]
        /\ events'[Len(events) + 1] = e
    <3>1. events \in Seq(Event \union {e})
      BY SeqMonotonic DEF TypeOK
    <3> QED
      BY <2>1, <3>1, AppendProperties, LenProperties DEF Post
  <2>5. \A i : Final(i)' <=> i = Len(events) + 1
    BY <2>1, <2>3, <2>4 DEF Final
  <2>6. Len(events) + 1 \in 1..Len(events')
    BY <2>4
  <2> QED
    BY <2>2, <2>3, <2>5, <2>6 DEF RunInv
<1>3. ASSUME NEW r \in Runs, NEW k, NEW total, CanStart, Launch(r, k, total) PROVE RunInv'
  <2>1. /\ \A q \in Runs : ~Live(q)
        /\ \A i \in 1..Len(events) : ~Final(i)
    BY <1>3 DEF CanStart, RunInv
  <2>2. /\ running' = TRUE /\ UNCHANGED events
        /\ \A q \in Runs : Live(q)' <=> q = r
    BY <1>3, <2>1 DEF Launch, Live, TypeOK
  <2> QED
    BY <2>1, <2>2 DEF RunInv, Final
<1>4. CASE \/ \E answer \in ConflictAnswers : AnswerConflict(answer)
           \/ \E answer \in ErrorAnswers : AnswerError(answer)
           \/ Cancel
           \/ Reset
           \/ \E p \in Outside : CreateOutside(p)
           \/ UNCHANGED vars
  <2>1. UNCHANGED <<running, pc, events>>
    BY <1>4 DEF AnswerConflict, AnswerError, Cancel, Reset, CreateOutside, vars, window, worker
  <2> QED
    BY <2>1 DEF RunInv, Live, Final
<1>5. ASSUME NEW r \in Runs, StartBatch(r) \/ ConvertSingle(r) PROVE RunInv'
  <2>1. CASE UNCHANGED <<running, pc, events>>
    BY <2>1 DEF RunInv, Live, Final
  <2> QED
    BY <1>3, <1>5, <2>1 DEF StartBatch, ConvertSingle, worker
<1>6. CASE RunEvent
  <2>1. /\ events # <<>> /\ Head(events) = events[1]
        /\ Len(events) \in Nat \ {0} /\ Len(events') = Len(events) - 1
        /\ \A i \in 1..Len(events') : events'[i] = events[i + 1]
        /\ UNCHANGED pc
    BY <1>6, HeadTailProperties, EmptySeq DEF RunEvent, worker, TypeOK
  <2>2. \A i : Final(i)' <=> i \in 1..Len(events') /\ Final(i + 1)
    BY <2>1 DEF Final
  <2>3. \A i \in 1..Len(events') : i + 1 \in 1..Len(events) /\ i + 1 # 1
    BY <2>1
  <2>4. \A r \in Runs : Live(r)' <=> Live(r)
    BY <2>1 DEF Live
  <2>5. CASE ShowFinal(Head(events))
    <3>1. Final(1) /\ 1 \in 1..Len(events) /\ running' = FALSE
      BY <2>1, <2>5 DEF ShowFinal, Final
    <3>2. /\ \A r \in Runs : ~Live(r)
          /\ \A i \in 1..Len(events) : Final(i) => i = 1
      BY <3>1 DEF RunInv
    <3>3. \A i \in 1..Len(events') : ~Final(i)'
      BY <2>2, <2>3, <3>2
    <3> QED
      BY <2>4, <3>1, <3>2, <3>3 DEF RunInv
  <2>6. CASE ~ShowFinal(Head(events))
    <3>1. UNCHANGED running /\ ~Final(1)
      BY <1>6, <2>1, <2>6 DEF RunEvent, ShowProgress, ShowConflict, ShowError, Final
    <3>2. \A i \in 1..Len(events) : Final(i) => i - 1 \in 1..Len(events') /\ Final(i - 1)'
      BY <2>1, <2>2, <3>1
    <3>3. \A i, j \in 1..Len(events') : Final(i)' /\ Final(j)' => i = j
      BY <2>2, <2>3 DEF RunInv
    <3>4. \A i \in 1..Len(events') : Final(i)' => \A r \in Runs : ~Live(r)
      BY <2>2, <2>3 DEF RunInv
    <3> QED
      BY <2>2, <2>3, <2>4, <3>1, <3>2, <3>3, <3>4 DEF RunInv
  <2> QED
    BY <2>5, <2>6
<1> QED
  BY <1>1, <1>2, <1>4, <1>5, <1>6 DEF Next, User

\* There is never a second conversion, and the window always knows whether there is
\* one, from the click that starts it to the closure that ends it.
THEOREM OneConversionAtATime == Spec => []OneConversion
<1>1. Init => RunInv
  BY DEF Init, RunInv, Live, Final
<1>2. TypeOK /\ RunInv /\ [Next]_vars => RunInv'
  BY RunInvStep
<1>3. TypeOK /\ RunInv => OneConversion
  <2> SUFFICES ASSUME TypeOK, RunInv PROVE OneConversion
    OBVIOUS
  <2>1. \A r \in Runs : InFlight(r) <=>
          Live(r) \/ \E i \in 1..Len(events) : Final(i) /\ events[i].run = r
    BY DEF InFlight, Live, Final
  <2>2. \A i \in 1..Len(events) : Final(i) => events[i].run \in Runs
    BY ElementOfSeq DEF TypeOK, Event, Final
  <2> QED
    BY <2>1, <2>2 DEF RunInv, OneConversion
<1> QED
  BY <1>1, <1>2, <1>3, TypeCorrect, PTL DEF Spec

------------------------------------------------------------------------------
(* The counts. *)

\* A last closure is the last of the queue; nothing is queued while no conversion
\* runs, nor before a worker has planned or packed.
QueueInv ==
  /\ \A i \in 1..Len(events) : Final(i) => i = Len(events)
  /\ ~running => events = <<>>
  /\ \A r \in Runs : pc[r] \in {"plan", "packed"} => events = <<>>

\* What a worker has handled so far, its shared collision counter included.
Handled(r) == job[r].imported + job[r].skipped + collisions[r]

\* The labels between a worker's plan and its result.
Looping == {"item", "resolve", "ask", "commit", "fail", "askError"}

\* While a worker loops, what it has handled and what it has left to do add up to
\* its total; a worker whose loop came to its end has handled everything.
JobSum ==
  \A r \in Runs :
    /\ pc[r] \in {"idle", "plan", "packed"} => job[r].todo = <<>> /\ Handled(r) = 0
    /\ pc[r] \in Looping => Handled(r) + Len(job[r].todo) = job[r].total
    /\ pc[r] = "ask" => kind[r] = "batch"
    /\ pc[r] = "commit" /\ kind[r] # "batch" => job[r].todo = <<>>
    /\ pc[r] = "finish" /\ job[r].result = "complete" => Handled(r) = job[r].total

\* The counts a progress closure shows are not ahead of its worker's, so that the
\* collision counter of today fits on top of them.
ProgressFits(c, r) ==
  /\ c.imported + c.skipped + collisions[r] <= c.total
  /\ Live(r) => /\ c.imported + c.skipped <= job[r].imported + job[r].skipped
                /\ c.total = job[r].total

\* A queued closure shows counts that fit.
Fits(e) ==
  /\ e.type = "progress" => ProgressFits(e.counts, e.run)
  /\ e.type = "final" /\ e.outcome = "complete" =>
       e.counts.imported + e.counts.skipped = e.counts.total

EventSum == \A i \in 1..Len(events) : Fits(events[i])

\* CountsAddUp is about the closures that have run; what the queue and the workers
\* hold must add up for the next one to.
CountInv == QueueInv /\ JobSum /\ EventSum /\ CountsAddUp

\* The sum of two counts is a count.
LEMMA NatSum ==
  \A a, b \in Nat : a + b \in Nat
OBVIOUS

\* What a queued closure adds to the queue.
LEMMA PostProperties ==
  ASSUME events \in Seq(Event), NEW e, Post(e)
  PROVE  /\ Len(events) \in Nat /\ Len(events') = Len(events) + 1
         /\ \A i \in 1..Len(events) : events'[i] = events[i]
         /\ events'[Len(events) + 1] = e
<1>1. events \in Seq(Event \union {e})
  BY SeqMonotonic
<1> QED
  BY <1>1, AppendProperties, LenProperties DEF Post

\* How a worker's step changes its counts and what it queues.  Most steps change
\* neither; ...
Uncounted(r) ==
  /\ UNCHANGED collisions
  /\ job'[r].todo = job[r].todo /\ job'[r].total = job[r].total
  /\ job'[r].imported = job[r].imported /\ job'[r].skipped = job[r].skipped
  /\ \/ UNCHANGED events
     \/ \E e : Post(e) /\ e.type \in {"conflict", "error"} /\ pc[r] \in Looping
  /\ \/ /\ pc[r] \in Looping
        /\ pc'[r] \in Looping \union {"finish"}
        /\ pc'[r] = "ask" => kind[r] = "batch"
        /\ pc'[r] = "commit" /\ kind[r] # "batch" => job[r].todo = <<>>
        /\ pc'[r] = "finish" /\ job'[r].result = "complete" => job[r].todo = <<>>
     \/ /\ pc[r] \in {"plan", "packed"} /\ pc'[r] \in {"packed", "finish"}
        /\ pc'[r] = "finish" => job'[r].result # "complete"
        /\ UNCHANGED events

\* ... handling an item moves it from what is left to one of the counts, ...
Counted(r) ==
  /\ pc[r] \in Looping /\ pc'[r] = "item"
  /\ job[r].todo # <<>> /\ job'[r].todo = Tail(job[r].todo)
  /\ job'[r].total = job[r].total
  /\ \/ /\ collisions'[r] = collisions[r] + 1
        /\ job'[r].imported + job'[r].skipped = job[r].imported + job[r].skipped
     \/ /\ UNCHANGED collisions
        /\ job'[r].imported + job'[r].skipped = job[r].imported + job[r].skipped + 1
  /\ \E e : /\ Post(e) /\ e.type = "progress" /\ e.run = r
            /\ e.counts.total = job'[r].total
            /\ e.counts.imported = job'[r].imported /\ e.counts.skipped = job'[r].skipped

\* ... the plan counts the items that are missing, ...
Planned(r) ==
  /\ pc[r] = "plan" /\ pc'[r] = "item"
  /\ UNCHANGED collisions
  /\ job'[r].imported = job[r].imported
  /\ Len(job'[r].todo) \in Nat
  /\ job'[r].skipped + Len(job'[r].todo) = job'[r].total
  /\ \E e : /\ Post(e) /\ e.type = "progress" /\ e.run = r
            /\ e.counts.total = job'[r].total
            /\ e.counts.imported = 0 /\ e.counts.skipped = job'[r].skipped

\* ... a packed set is one output, ...
CountedSet(r) ==
  /\ pc[r] = "packed" /\ pc'[r] = "commit"
  /\ UNCHANGED <<collisions, events>>
  /\ job'[r].todo = job[r].todo /\ job'[r].skipped = job[r].skipped
  /\ job'[r].total = 1 /\ job'[r].imported = 1

\* ... and the end reports them.
Reported(r) ==
  /\ pc[r] = "finish" /\ pc'[r] = "done"
  /\ UNCHANGED collisions
  /\ \E e : /\ Post(e) /\ e.type = "final"
            /\ e.outcome = "complete" => job[r].result = "complete"
            /\ e.counts.total = job[r].total
            /\ e.counts.imported + e.counts.skipped = Handled(r)

LEMMA WorkerCounts ==
  ASSUME TypeOK, HasItem, JobSum, NEW r \in Runs, WorkerStep(r)
  PROVE  /\ \A q \in Runs \ {r} : job'[q] = job[q] /\ collisions'[q] = collisions[q]
         /\ Uncounted(r) \/ Counted(r) \/ Planned(r) \/ CountedSet(r) \/ Reported(r)
<1> DEFINE Others == \A q \in Runs \ {r} : job'[q] = job[q] /\ collisions'[q] = collisions[q]
<1> USE DEF At, Goto, Looping
<1>1. /\ job \in [Runs -> Job] /\ job[r] \in Job /\ collisions \in [Runs -> Nat]
      /\ pc \in [Runs -> {"idle", "plan", "item", "resolve", "ask", "packed",
                          "commit", "fail", "askError", "finish", "done"}]
      /\ job[r].imported \in Nat /\ job[r].skipped \in Nat /\ collisions[r] \in Nat
  BY DEF TypeOK, Job
<1>2. ASSUME NEW result, End(r, result), UNCHANGED <<events, collisions>>,
             \/ pc[r] \in Looping /\ (result = "complete" => job[r].todo = <<>>)
             \/ pc[r] \in {"plan", "packed"} /\ result # "complete"
      PROVE  Others /\ Uncounted(r)
  BY <1>1, <1>2 DEF End, Uncounted, Job
<1>3. ASSUME NEW mode, NEW imported \in {0, 1}, NEW skipped \in {0, 1},
             ItemDone(r, mode, imported, skipped),
             pc[r] \in Looping, AtItem(r),
             \/ imported + skipped = 1 /\ UNCHANGED collisions
             \/ imported = 0 /\ skipped = 0 /\ collisions' = [collisions EXCEPT ![r] = @ + 1]
      PROVE  Others /\ Counted(r)
  <2>1. job[r].todo # <<>>
    BY <1>3 DEF HasItem
  <2>2. job' = [job EXCEPT ![r] = [job[r] EXCEPT !.todo = Tail(job[r].todo),
                                                !.mode = mode,
                                                !.imported = job[r].imported + imported,
                                                !.skipped = job[r].skipped + skipped]]
        /\ pc' = [pc EXCEPT ![r] = "item"]
    BY <1>3 DEF ItemDone
  <2>3. /\ job'[r].todo = Tail(job[r].todo) /\ job'[r].total = job[r].total
        /\ job'[r].imported = job[r].imported + imported
        /\ job'[r].skipped = job[r].skipped + skipped
    BY <1>1, <2>2 DEF Job
  <2>4. \E e : /\ Post(e) /\ e.type = "progress" /\ e.run = r
               /\ e.counts.total = job'[r].total
               /\ e.counts.imported = job'[r].imported /\ e.counts.skipped = job'[r].skipped
    BY <1>3, <2>3 DEF ItemDone
  <2>5. \/ /\ collisions'[r] = collisions[r] + 1
           /\ job'[r].imported + job'[r].skipped = job[r].imported + job[r].skipped
        \/ /\ UNCHANGED collisions
           /\ job'[r].imported + job'[r].skipped = job[r].imported + job[r].skipped + 1
    BY <1>1, <1>3, <2>3
  <2> QED
    BY <1>1, <1>3, <2>1, <2>2, <2>3, <2>4, <2>5 DEF Counted
<1>4. ASSUME NEW mode, NEW path, NEW replace, CommitTo(r, mode, path, replace),
             pc[r] \in Looping, kind[r] = "batch"
      PROVE  Others /\ Uncounted(r)
  BY <1>1, <1>4 DEF CommitTo, Uncounted, Job
<1>5. ASSUME NEW mode, NEW decision, Settle(r, mode, decision),
             pc[r] \in {"resolve", "ask"}, kind[r] = "batch"
      PROVE  Others /\ (Uncounted(r) \/ Counted(r))
  BY <1>3, <1>4, <1>5 DEF Settle, AtItem
<1>6. ASSUME NEW label \in Looping \ {"commit"}, Goto(r, label), pc[r] \in Looping,
             label = "ask" => kind[r] = "batch", UNCHANGED <<job, collisions>>,
             UNCHANGED events \/ \E e : Post(e) /\ e.type \in {"conflict", "error"}
      PROVE  Others /\ Uncounted(r)
  BY <1>1, <1>6 DEF Uncounted
<1>7. CASE Plan(r)
  <2>1. ASSUME NEW plan \in Plans(Total(r)),
               job' = [job EXCEPT ![r] = [job[r] EXCEPT !.todo = plan, !.total = Total(r),
                                                        !.skipped = Total(r) - Len(plan)]],
               Post([type |-> "progress", run |-> r,
                     counts |-> [Zero(Total(r)) EXCEPT !.skipped = Total(r) - Len(plan)]]),
               Goto(r, "item")
        PROVE  Others /\ Planned(r)
    <3>1. plan \in Seq(Items) /\ Total(r) \in Nat /\ Len(plan) \in Nat
      BY PlansType, LenProperties DEF TypeOK
    <3>2. /\ job'[r].todo = plan /\ job'[r].total = Total(r)
          /\ job'[r].skipped = Total(r) - Len(plan) /\ job'[r].imported = job[r].imported
      BY <1>1, <2>1 DEF Job
    <3>3. \E e : /\ Post(e) /\ e.type = "progress" /\ e.run = r
                 /\ e.counts.total = job'[r].total
                 /\ e.counts.imported = 0 /\ e.counts.skipped = job'[r].skipped
      BY <2>1, <3>2 DEF Zero
    <3>4. Others /\ pc[r] = "plan" /\ pc'[r] = "item" /\ UNCHANGED collisions
      BY <1>1, <1>7, <2>1 DEF Plan
    <3> QED
      BY <3>1, <3>2, <3>3, <3>4 DEF Planned
  <2> QED
    BY <1>2, <1>7, <2>1 DEF Plan
<1>8. CASE PackSet(r)
  BY <1>1, <1>8 DEF PackSet, Uncounted, Job
<1>9. CASE SetPacked(r)
  <2>1. CASE /\ job' = [job EXCEPT ![r] = [job[r] EXCEPT !.path = SinglePath, !.replace = FALSE,
                                                       !.total = 1, !.imported = 1]]
             /\ Goto(r, "commit")
    BY <1>1, <1>9, <2>1 DEF SetPacked, CountedSet, Job
  <2> QED
    BY <1>2, <1>9, <2>1 DEF SetPacked
<1>10. CASE StopBetweenItems(r) \/ AskAbandoned(r) \/ ErrorStopped(r)
  BY <1>2, <1>10 DEF StopBetweenItems, AskAbandoned, ErrorStopped
<1>11. CASE Pack(r)
  BY <1>6, <1>11 DEF Pack
<1>12. CASE KeepOutput(r)
  BY <1>3, <1>12 DEF KeepOutput, AtItem
<1>13. CASE Resolve(r)
  <2>1. pc[r] = "resolve" /\ kind[r] = "batch"
    BY <1>13 DEF Resolve
  <2>2. CASE OpenPrompt(r) /\ Goto(r, "ask") /\ UNCHANGED <<job, staged, collisions>>
             /\ Post([type |-> "conflict", run |-> r, path |-> Destination(r)])
    <3>1. \E e : Post(e) /\ e.type \in {"conflict", "error"}
      BY <2>2
    <3> QED
      BY <1>6, <2>1, <2>2, <3>1
  <2> QED
    BY <1>4, <1>5, <1>13, <2>1, <2>2 DEF Resolve
<1>14. CASE AskAnswered(r)
  <2>1. pc[r] = "ask" /\ kind[r] = "batch"
    BY <1>14 DEF AskAnswered, JobSum
  <2> QED
    BY <1>5, <1>14, <2>1 DEF AskAnswered
<1>15. CASE Commit(r)
  <2>1. /\ pc[r] = "commit" /\ UNCHANGED collisions
        /\ kind[r] # "batch" => job[r].todo = <<>>
    BY <1>15 DEF Commit, JobSum
  <2>2. CASE kind[r] = "batch"
    BY <1>3, <1>6, <1>15, <2>1, <2>2 DEF Commit, AtItem
  <2>3. CASE kind[r] # "batch"
    BY <1>2, <1>15, <2>1, <2>3 DEF Commit
  <2> QED
    BY <2>2, <2>3
<1>16. CASE AskError(r)
  <2>1. \E e : Post(e) /\ e.type \in {"conflict", "error"}
    BY <1>16 DEF AskError
  <2> QED
    BY <1>6, <1>16, <2>1 DEF AskError
<1>17. CASE ErrorContinued(r)
  BY <1>3, <1>17 DEF ErrorContinued, AtItem
<1>18. CASE LoopDone(r)
  <2>1. CASE /\ job' = [job EXCEPT ![r] = [job[r] EXCEPT !.path = SinglePath, !.replace = FALSE]]
             /\ Goto(r, "commit")
    BY <1>1, <1>18, <2>1 DEF LoopDone, Uncounted, Job
  <2> QED
    BY <1>2, <1>18, <2>1 DEF LoopDone
<1>19. CASE Finish(r)
  <2>1. Outcome(r) = "complete" => job[r].result = "complete"
    BY DEF Outcome
  <2>2. /\ FinalCounts(r).total = job[r].total
        /\ FinalCounts(r).imported + FinalCounts(r).skipped = Handled(r)
    BY <1>1 DEF FinalCounts, Handled
  <2>3. \E e : /\ Post(e) /\ e.type = "final"
               /\ e.outcome = "complete" => job[r].result = "complete"
               /\ e.counts.total = job[r].total
               /\ e.counts.imported + e.counts.skipped = Handled(r)
    BY <1>19, <2>1, <2>2 DEF Finish
  <2> QED
    BY <1>1, <1>19, <2>3 DEF Finish, Reported
<1> QED
  BY <1>7, <1>8, <1>9, <1>10, <1>11, <1>12, <1>13, <1>14, <1>15, <1>16, <1>17, <1>18, <1>19
  DEF WorkerStep

\* The only live worker is the one that moves.
LEMMA AloneLive ==
  ASSUME TypeOK, RunInv, NEW r \in Runs, WorkerStep(r)
  PROVE  /\ running
         /\ \A i \in 1..Len(events) : ~Final(i)
         /\ \A q \in Runs \ {r} : ~Live(q) /\ ~Live(q)'
<1>1. Live(r) /\ \A q \in Runs \ {r} : pc'[q] = pc[q]
  BY WorkerMoves DEF Live
<1> QED
  BY <1>1 DEF RunInv, Live

LEMMA WorkerCountInv ==
  ASSUME TypeInv, TypeInv', RunInv, CountInv, NEW r \in Runs, Worker(r)
  PROVE  CountInv'
<1>1. /\ WorkerStep(r) /\ UNCHANGED <<running, shown, verdict, kind>>
      /\ \A q \in Runs \ {r} : pc'[q] = pc[q]
  BY WorkerMoves DEF Worker, window, TypeInv
<1>2. /\ \A q \in Runs \ {r} : job'[q] = job[q] /\ collisions'[q] = collisions[q]
      /\ Uncounted(r) \/ Counted(r) \/ Planned(r) \/ CountedSet(r) \/ Reported(r)
  BY <1>1, WorkerCounts DEF TypeInv, CountInv
<1>3. /\ running
      /\ \A i \in 1..Len(events) : ~Final(i)
      /\ \A q \in Runs \ {r} : ~Live(q) /\ ~Live(q)'
  BY <1>1, AloneLive DEF TypeInv
<1>4. /\ job[r].imported \in Nat /\ job[r].skipped \in Nat /\ job[r].total \in Nat
      /\ collisions[r] \in Nat
      /\ job[r].todo \in Seq(Items) /\ Len(job[r].todo) \in Nat
  BY LenProperties DEF TypeInv, TypeOK, Job
<1>12. Handled(r) \in Nat
  <2> DEFINE imported == job[r].imported
             skips == job[r].skipped
             others == collisions[r]
  <2>1. imported \in Nat /\ skips \in Nat /\ others \in Nat
    BY <1>4, Zenon
  <2> HIDE DEF imported, skips, others
  <2>2. imported + skips + others \in Nat
    BY <2>1
  <2> QED
    BY <2>2 DEF imported, skips, others, Handled
<1>5. /\ job'[r].imported \in Nat /\ job'[r].skipped \in Nat /\ job'[r].total \in Nat
      /\ collisions'[r] \in Nat
  BY DEF TypeInv, TypeOK, Job
<1>6. ASSUME NEW e, Post(e)
      PROVE  /\ Len(events) \in Nat /\ Len(events') = Len(events) + 1
             /\ \A i \in 1..Len(events) : events'[i] = events[i]
             /\ events'[Len(events) + 1] = e
  BY <1>6, PostProperties DEF TypeInv, TypeOK
<1>7. pc[r] \in {"plan", "packed"} => events = <<>>
  BY DEF CountInv, QueueInv
<1>8. QueueInv'
  <2>1. ASSUME NEW i \in 1..Len(events'), Final(i)' PROVE i = Len(events')
    <3>1. UNCHANGED events \/ \E e : Post(e) /\ (e.type = "final" => Reported(r))
      BY <1>2 DEF Uncounted, Counted, Planned, CountedSet, Reported
    <3>2. CASE UNCHANGED events
      BY <1>3, <2>1, <3>2 DEF Final
    <3>3. ASSUME NEW e, Post(e) PROVE i = Len(events')
      <4>1. i \in 1..Len(events) \/ i = Len(events) + 1
        BY <1>6, <2>1, <3>3
      <4>2. i \in 1..Len(events) => Final(i)
        BY <1>6, <2>1, <3>3 DEF Final
      <4> QED
        BY <1>3, <1>6, <3>3, <4>1, <4>2
    <3> QED
      BY <3>1, <3>2, <3>3
  <2>2. ASSUME NEW q \in Runs, pc'[q] \in {"plan", "packed"} PROVE events' = <<>>
    <3>1. q = r
      BY <1>3, <2>2 DEF Live
    <3> QED
      BY <1>2, <1>7, <2>2, <3>1
      DEF Uncounted, Counted, Planned, CountedSet, Reported, Looping
  <2>3. running'
    BY <1>1, <1>3
  <2> QED
    BY <2>1, <2>2, <2>3 DEF QueueInv
<1>9. JobSum'
  <2>1. SUFFICES ASSUME NEW q \in Runs
        PROVE  /\ pc'[q] \in {"idle", "plan", "packed"} => job'[q].todo = <<>> /\ Handled(q)' = 0
               /\ pc'[q] \in Looping => Handled(q)' + Len(job'[q].todo) = job'[q].total
               /\ pc'[q] = "ask" => kind'[q] = "batch"
               /\ pc'[q] = "commit" /\ kind'[q] # "batch" => job'[q].todo = <<>>
               /\ pc'[q] = "finish" /\ job'[q].result = "complete" => Handled(q)' = job'[q].total
    BY DEF JobSum, Looping
  <2>2. CASE q # r
    BY <1>1, <1>2, <1>3, <2>2 DEF Live, Looping, CountInv, JobSum, Handled
  <2>3. CASE q = r
    <3>1. CASE Uncounted(r)
      <4>1. /\ Handled(r)' = Handled(r)
            /\ job'[r].todo = job[r].todo /\ job'[r].total = job[r].total /\ kind' = kind
        BY <1>1, <3>1 DEF Uncounted, Handled
      <4>2. /\ pc[r] \in {"plan", "packed"} => job[r].todo = <<>> /\ Handled(r) = 0
            /\ pc[r] \in Looping => Handled(r) + Len(job[r].todo) = job[r].total
        BY DEF CountInv, JobSum
      <4>3. CASE pc[r] \in Looping
        <5>1. /\ pc'[r] \in Looping \union {"finish"}
              /\ pc'[r] = "ask" => kind[r] = "batch"
              /\ pc'[r] = "commit" /\ kind[r] # "batch" => job[r].todo = <<>>
              /\ pc'[r] = "finish" /\ job'[r].result = "complete" => job[r].todo = <<>>
          BY <3>1, <4>3 DEF Uncounted, Looping
        <5>2. job[r].todo = <<>> => Len(job[r].todo) = 0
          OBVIOUS
        <5>4. Handled(r)' + Len(job'[r].todo) = job'[r].total
          BY <4>1, <4>2, <4>3
        <5>5. job[r].todo = <<>> => Handled(r)' = job'[r].total
          BY <1>12, <4>1, <4>2, <4>3, <5>2
        <5>6. pc'[r] \notin {"idle", "plan", "packed"}
          BY <5>1 DEF Looping
        <5> QED
          BY <2>3, <4>1, <5>1, <5>4, <5>5, <5>6
      <4>4. CASE pc[r] \notin Looping
        <5>1. /\ pc[r] \in {"plan", "packed"} /\ pc'[r] \in {"packed", "finish"}
              /\ pc'[r] = "finish" => job'[r].result # "complete"
          BY <3>1, <4>4 DEF Uncounted
        <5> QED
          BY <2>3, <4>1, <4>2, <5>1 DEF Looping
      <4> QED
        BY <4>3, <4>4
    <3>2. CASE Counted(r)
      <4>1. Len(job'[r].todo) = Len(job[r].todo) - 1
        BY <1>4, <3>2, HeadTailProperties DEF Counted
      <4>2. Handled(r) + Len(job[r].todo) = job[r].total
        BY <3>2 DEF Counted, CountInv, JobSum
      <4>3. Handled(r)' = Handled(r) + 1
        <5> DEFINE old == job[r].imported + job[r].skipped
                   new == job'[r].imported + job'[r].skipped
                   was == collisions[r]
                   is == collisions'[r]
        <5>1. (is = was + 1 /\ new = old) \/ (is = was /\ new = old + 1)
          <6>1. \/ collisions'[r] = collisions[r] + 1 /\ new = old
                \/ collisions' = collisions /\ new = old + 1
            BY <3>2, Zenon DEF Counted
          <6> QED
            BY <6>1
        <5>2. old \in Nat /\ new \in Nat /\ was \in Nat
          <6>1. /\ job[r].imported \in Nat /\ job[r].skipped \in Nat
                /\ job'[r].imported \in Nat /\ job'[r].skipped \in Nat
            BY <1>4, <1>5, Zenon
          <6>2. collisions[r] \in Nat
            BY <1>4, Zenon
          <6> QED
            BY <6>1, <6>2
        <5> HIDE DEF old, new, was, is
        <5>3. new + is = old + was + 1
          BY <5>1, <5>2
        <5> QED
          BY <5>3 DEF Handled, old, new, was, is
      <4>4. pc'[r] = "item" /\ job'[r].total = job[r].total
        BY <3>2 DEF Counted
      <4>5. Handled(r) \in Nat /\ Len(job[r].todo) \in Nat
        BY <1>4, <1>12
      <4>6. Handled(r)' + Len(job'[r].todo) = job'[r].total
        BY <4>1, <4>2, <4>3, <4>4, <4>5
      <4> QED
        BY <2>3, <4>4, <4>6 DEF Looping
    <3>3. CASE Planned(r)
      <4>1. Handled(r) = 0
        BY <3>3 DEF Planned, CountInv, JobSum
      <4>2. Handled(r)' = job'[r].skipped
        <5>1. job[r].imported = 0 /\ collisions[r] = 0
          BY <1>4, <4>1 DEF Handled
        <5> QED
          BY <1>5, <3>3, <5>1 DEF Planned, Handled
      <4> QED
        BY <2>3, <3>3, <4>2 DEF Planned
    <3>4. CASE CountedSet(r)
      <4>1. job[r].todo = <<>> /\ Handled(r) = 0
        BY <3>4 DEF CountedSet, CountInv, JobSum
      <4>2. Handled(r)' = 1
        BY <1>4, <3>4, <4>1 DEF CountedSet, Handled
      <4> QED
        BY <2>3, <3>4, <4>1, <4>2, EmptySeq DEF CountedSet
    <3>5. CASE Reported(r)
      BY <2>3, <3>5 DEF Reported, Looping
    <3> QED
      BY <1>2, <3>1, <3>2, <3>3, <3>4, <3>5
  <2> QED
    BY <2>2, <2>3
<1>10. EventSum'
  <2>1. ASSUME NEW i \in 1..Len(events), NEW e, e = events[i] PROVE Fits(e)'
    <3>1. e \in Event /\ Fits(e)
      BY <2>1, ElementOfSeq DEF TypeInv, TypeOK, CountInv, EventSum
    <3>2. pc[r] \notin {"plan", "packed"}
      BY <1>7, <2>1, EmptySeq
    <3>3. Uncounted(r) \/ Counted(r) \/ Reported(r)
      BY <1>2, <3>2 DEF Planned, CountedSet
    <3>4. CASE e.type = "progress"
      <4>1. e.run \in Runs /\ e.counts.imported \in Nat /\ e.counts.skipped \in Nat
            /\ e.counts.total \in Nat
        BY <3>1, <3>4 DEF Event, Counts
      <4>2. CASE e.run # r
        BY <1>2, <1>3, <3>1, <3>4, <4>1, <4>2 DEF Fits, ProgressFits
      <4>3. CASE e.run = r
        <5>1. Live(r) /\ ProgressFits(e.counts, r)
          BY <1>1, <3>1, <3>4, <4>3, WorkerMoves DEF Fits, Live, TypeInv
        <5>2. CASE Uncounted(r) \/ Reported(r)
          BY <3>4, <4>3, <5>1, <5>2 DEF Fits, ProgressFits, Uncounted, Reported, Live
        <5>3. CASE Counted(r)
          <6>1. Len(job[r].todo) >= 1 /\ Handled(r) + Len(job[r].todo) = job[r].total
            BY <1>4, <5>3, EmptySeq DEF Counted, CountInv, JobSum
          <6> DEFINE shownBefore == e.counts.imported + e.counts.skipped
                     before == job[r].imported + job[r].skipped
                     after == job'[r].imported + job'[r].skipped
          <6>2. before \in Nat /\ after \in Nat
            BY <1>4, <1>5, NatSum
          <6>3. shownBefore \in Nat
            BY <4>1, NatSum
          <6>4. Handled(r) = before + collisions[r]
            BY DEF Handled
          <6>5. shownBefore <= before /\ e.counts.total = job[r].total
            BY <5>1 DEF ProgressFits, Live
          <6>6. \/ collisions'[r] = collisions[r] + 1 /\ after = before
                \/ collisions'[r] = collisions[r] /\ after = before + 1
            BY <5>3 DEF Counted
          <6>7. job'[r].total = job[r].total
            BY <5>3 DEF Counted
          <6>8. collisions[r] \in Nat /\ collisions'[r] \in Nat /\ job[r].total \in Nat
                /\ Len(job[r].todo) \in Nat
            BY <1>4, <1>5
          <6> HIDE DEF shownBefore, before, after
          <6> DEFINE coll == collisions[r]
                     collAfter == collisions'[r]
                     left == Len(job[r].todo)
                     total == job[r].total
          <6>9. /\ before + coll + left = total /\ left >= 1 /\ shownBefore <= before
                /\ \/ collAfter = coll + 1 /\ after = before
                   \/ collAfter = coll /\ after = before + 1
                /\ coll \in Nat /\ collAfter \in Nat /\ total \in Nat /\ left \in Nat
            BY <6>1, <6>4, <6>5, <6>6, <6>8
          <6> HIDE DEF coll, collAfter, left, total
          <6>10. shownBefore + collAfter <= total /\ shownBefore <= after
            BY <6>2, <6>3, <6>9
          <6> QED
            BY <3>4, <4>3, <6>5, <6>7, <6>10
            DEF Fits, ProgressFits, shownBefore, after, collAfter, total
        <5> QED
          BY <3>3, <5>2, <5>3
      <4> QED
        BY <4>2, <4>3
    <3> QED
      BY <3>1, <3>4 DEF Fits
  <2>2. ASSUME NEW e, Post(e), Fits(e)' PROVE EventSum'
    <3>1. ASSUME NEW i \in 1..Len(events'), NEW f, f = events'[i] PROVE Fits(f)'
      <4>1. CASE i \in 1..Len(events)
        BY <1>6, <2>1, <2>2, <3>1, <4>1
      <4>2. CASE i = Len(events) + 1
        BY <1>6, <2>2, <3>1, <4>2
      <4> QED
        BY <1>6, <2>2, <4>1, <4>2
    <3> QED
      BY <3>1 DEF EventSum, Fits, ProgressFits, Live
  <2>3. CASE UNCHANGED events
    BY <2>1, <2>3 DEF EventSum, Fits, ProgressFits, Live
  <2>4. ASSUME NEW e, Post(e), e.type \in {"conflict", "error"} PROVE Fits(e)'
    BY <2>4 DEF Fits
  <2>5. ASSUME NEW e, Post(e), e.type = "progress", e.run = r,
               e.counts.total = job'[r].total,
               e.counts.imported + e.counts.skipped = job'[r].imported + job'[r].skipped,
               Handled(r)' <= job'[r].total
        PROVE  Fits(e)'
    BY <1>5, <2>5 DEF Fits, ProgressFits, Handled
  <2>6. CASE Uncounted(r)
    BY <2>2, <2>3, <2>4, <2>6 DEF Uncounted
  <2>7. CASE Counted(r) \/ Planned(r)
    <3>1. /\ Handled(r)' + Len(job'[r].todo) = job'[r].total /\ Len(job'[r].todo) \in Nat
          /\ Handled(r)' \in Nat
      <4>1. /\ pc'[r] \in Looping => Handled(r)' + Len(job'[r].todo) = job'[r].total
            /\ Len(job'[r].todo) \in Nat
        BY <1>9, LenProperties DEF JobSum, TypeInv, TypeOK, Job
      <4> QED
        <5>1. pc'[r] \in Looping
          BY <2>7 DEF Counted, Planned, Looping
        <5>2. Handled(r)' \in Nat
          BY <1>5 DEF Handled
        <5> QED
          BY <4>1, <5>1, <5>2
    <3>2. Handled(r)' <= job'[r].total
      BY <3>1
    <3>3. PICK e : /\ Post(e) /\ e.type = "progress" /\ e.run = r
                   /\ e.counts.total = job'[r].total
                   /\ e.counts.imported + e.counts.skipped = job'[r].imported + job'[r].skipped
      <4>1. CASE Counted(r)
        BY <4>1 DEF Counted
      <4>2. CASE Planned(r)
        <5>1. job[r].imported = 0
          BY <1>4, <4>2 DEF Planned, CountInv, JobSum, Handled
        <5> QED
          BY <4>2, <5>1 DEF Planned
      <4> QED
        BY <2>7, <4>1, <4>2
    <3> QED
      BY <2>2, <2>5, <3>2, <3>3
  <2>8. CASE CountedSet(r)
    BY <2>3, <2>8 DEF CountedSet
  <2>9. CASE Reported(r)
    <3>1. PICK e : /\ Post(e) /\ e.type = "final"
                   /\ e.outcome = "complete" => job[r].result = "complete"
                   /\ e.counts.total = job[r].total
                   /\ e.counts.imported + e.counts.skipped = Handled(r)
      BY <2>9 DEF Reported
    <3>2. job[r].result = "complete" => Handled(r) = job[r].total
      BY <2>9 DEF Reported, CountInv, JobSum
    <3> QED
      BY <2>2, <3>1, <3>2 DEF Fits
  <2> QED
    BY <1>2, <2>6, <2>7, <2>8, <2>9
<1>11. CountsAddUp'
  BY <1>1, <1>3 DEF CountInv, CountsAddUp
<1> QED
  BY <1>8, <1>9, <1>10, <1>11 DEF CountInv

\* What the user, the event loop and other programs do to the counts.
LEMMA OthersCountInv ==
  ASSUME TypeInv, RunInv, CountInv, [Next]_vars, ~\E r \in Runs : Worker(r)
  PROVE  CountInv'
<1> USE DEF worker, workspace, window, disk, history
<1>1. shown.imported \in Nat /\ shown.skipped \in Nat /\ shown.total \in Nat
  BY DEF TypeInv, TypeOK, Counts
<1>2. CASE RunEvent
  <2>1. /\ events # <<>> /\ Head(events) = events[1] /\ 1 \in 1..Len(events)
        /\ Len(events) \in Nat \ {0} /\ Len(events') = Len(events) - 1
        /\ \A i \in 1..Len(events') : events'[i] = events[i + 1]
        /\ events[1] \in Event
    BY <1>2, HeadTailProperties, EmptySeq DEF RunEvent, TypeInv, TypeOK
  <2>2. \A i \in 1..Len(events') : i + 1 \in 1..Len(events)
    BY <2>1
  <2>3. UNCHANGED <<pc, job, collisions, kind>>
    BY <1>2 DEF RunEvent
  <2>4. Fits(events[1])
    BY <2>1 DEF CountInv, EventSum
  <2>5. JobSum'
    BY <2>3 DEF CountInv, JobSum, Handled
  <2>6. EventSum'
    <3>1. ASSUME NEW i \in 1..Len(events'), NEW f, f = events'[i] PROVE Fits(f)'
      BY <2>1, <2>2, <2>3, <3>1 DEF CountInv, EventSum, Fits, ProgressFits, Live
    <3> QED
      BY <3>1 DEF EventSum, Fits, ProgressFits, Live
  <2>7. QueueInv'
    <3>1. \A i \in 1..Len(events') : Final(i)' => i = Len(events')
      BY <2>1, <2>2 DEF CountInv, QueueInv, Final
    <3>2. running' = FALSE => events' = <<>>
      <4>1. CASE events[1].type = "final"
        <5>1. Len(events) = 1
          BY <2>1, <4>1 DEF CountInv, QueueInv, Final
        <5>2. events' = <<>>
          <6>1. events' \in Seq(Event) /\ Len(events') = 0
            BY <1>2, <2>1, <5>1, HeadTailProperties DEF RunEvent, TypeInv, TypeOK
          <6> QED
            BY <6>1, EmptySeq
        <5> QED
          BY <5>2
      <4>2. CASE events[1].type # "final"
        <5>1. running' = running
          BY <1>2, <2>1, <4>2 DEF RunEvent, ShowProgress, ShowConflict, ShowError, ShowFinal
        <5> QED
          BY <2>1, <5>1 DEF CountInv, QueueInv
      <4> QED
        BY <4>1, <4>2
    <3>3. \A r \in Runs : pc'[r] \in {"plan", "packed"} => events' = <<>>
      BY <2>1, <2>3 DEF CountInv, QueueInv
    <3>4. running' \in BOOLEAN
      BY <1>2 DEF RunEvent, ShowProgress, ShowConflict, ShowError, ShowFinal, TypeInv, TypeOK
    <3> QED
      BY <3>1, <3>2, <3>3, <3>4 DEF QueueInv
  <2>8. CountsAddUp'
    <3>1. running
      BY <2>1 DEF CountInv, QueueInv
    <3>2. CASE ShowProgress(events[1])
      <4> DEFINE c == events[1].counts
                 k == collisions[events[1].run]
      <4>1. /\ events[1].run \in Runs /\ c \in Counts
            /\ c.imported + c.skipped + k <= c.total
        BY <2>1, <2>4, <3>2 DEF ShowProgress, Event, Fits, ProgressFits
      <4>2. c.imported \in Nat /\ c.skipped \in Nat /\ c.total \in Nat /\ k \in Nat
        BY <4>1 DEF Counts, TypeInv, TypeOK
      <4>3. /\ shown'.imported = c.imported /\ shown'.total = c.total
            /\ shown'.skipped = c.skipped + k \/ shown'.skipped = c.skipped
        BY <3>2, <4>1 DEF ShowProgress, Counts
      <4>4. c.imported + c.skipped <= c.total /\ c.imported + (c.skipped + k) <= c.total
        BY <4>1, <4>2
      <4>5. running' = TRUE
        BY <3>1, <3>2 DEF ShowProgress
      <4> QED
        BY <4>3, <4>4, <4>5 DEF CountsAddUp
    <3>3. CASE ShowConflict(events[1]) \/ ShowError(events[1])
      BY <3>1, <3>3 DEF ShowConflict, ShowError, CountInv, CountsAddUp
    <3>4. CASE ShowFinal(events[1])
      <4>1. CASE events[1].outcome = "complete"
        <5>1. /\ shown' = events[1].counts
              /\ events[1].counts.imported + events[1].counts.skipped = events[1].counts.total
              /\ events[1].counts.total \in Nat
          BY <2>1, <2>4, <3>4, <4>1 DEF ShowFinal, Fits, Event, Counts
        <5> QED
          BY <5>1 DEF CountsAddUp
      <4>2. CASE events[1].outcome # "complete"
        <5>1. shown' = shown /\ verdict' # "complete"
          BY <3>4, <4>2 DEF ShowFinal
        <5> QED
          BY <5>1 DEF CountInv, CountsAddUp
      <4> QED
        BY <4>1, <4>2
    <3> QED
      BY <1>2, <2>1, <3>2, <3>3, <3>4 DEF RunEvent
  <2> QED
    BY <2>5, <2>6, <2>7, <2>8 DEF CountInv
<1>3. ASSUME NEW r \in Runs, NEW k, NEW total \in Nat, CanStart, Launch(r, k, total),
             UNCHANGED verdict
      PROVE  CountInv'
  <2>1. /\ ~running /\ events = <<>> /\ events' = <<>> /\ running' = TRUE
        /\ UNCHANGED <<job, collisions>>
    BY <1>3 DEF CanStart, Launch, CountInv, QueueInv
  <2>2. Len(events') = 0
    BY <2>1, EmptySeq
  <2>3. QueueInv' /\ EventSum'
    BY <2>1, <2>2 DEF QueueInv, EventSum, Final
  <2>4. JobSum'
    <3>1. /\ pc[r] = "idle" /\ pc'[r] = "plan"
          /\ \A q \in Runs \ {r} : pc'[q] = pc[q] /\ kind'[q] = kind[q]
      BY <1>3 DEF Launch, TypeInv, TypeOK
    <3>2. ASSUME NEW q \in Runs
          PROVE  /\ pc'[q] \in {"idle", "plan", "packed"} => job'[q].todo = <<>> /\ Handled(q)' = 0
                 /\ pc'[q] \in Looping => Handled(q)' + Len(job'[q].todo) = job'[q].total
                 /\ pc'[q] = "ask" => kind'[q] = "batch"
                 /\ pc'[q] = "commit" /\ kind'[q] # "batch" => job'[q].todo = <<>>
                 /\ pc'[q] = "finish" /\ job'[q].result = "complete" => Handled(q)' = job'[q].total
      BY <2>1, <3>1 DEF CountInv, JobSum, Handled, Looping
    <3> QED
      BY <3>2 DEF JobSum, Looping
  <2>5. CountsAddUp'
    BY <1>3, <2>1 DEF Launch, Zero, CountsAddUp
  <2> QED
    BY <2>3, <2>4, <2>5 DEF CountInv
<1>4. ASSUME UNCHANGED <<running, events, pc, kind, job, collisions, shown>>,
             verdict' = verdict \/ verdict' # "complete"
      PROVE  CountInv'
  <2>1. QueueInv'
    BY <1>4 DEF CountInv, QueueInv, Final
  <2>2. JobSum'
    BY <1>4 DEF CountInv, JobSum, Handled
  <2>3. EventSum'
    BY <1>4 DEF CountInv, EventSum, Fits, ProgressFits, Live
  <2>4. CountsAddUp'
    BY <1>4 DEF CountInv, CountsAddUp
  <2> QED
    BY <2>1, <2>2, <2>3, <2>4 DEF CountInv
<1>5. CASE \/ \E answer \in ErrorAnswers : AnswerError(answer)
           \/ Cancel \/ Reset
           \/ \E p \in Outside : CreateOutside(p)
           \/ UNCHANGED vars
  BY <1>4, <1>5 DEF AnswerError, Cancel, Reset, CreateOutside, vars
<1>6. ASSUME NEW answer \in ConflictAnswers, AnswerConflict(answer) PROVE CountInv'
  BY <1>4, <1>6 DEF AnswerConflict
<1>7. ASSUME NEW r \in Runs, StartBatch(r) PROVE CountInv'
  BY <1>3, <1>7 DEF StartBatch
<1>8. ASSUME NEW r \in Runs, ConvertSingle(r) PROVE CountInv'
  BY <1>3, <1>4, <1>8 DEF ConvertSingle
<1> QED
  BY <1>2, <1>5, <1>6, <1>7, <1>8 DEF Next, User

LEMMA CountInit == Init => CountInv
<1> SUFFICES ASSUME Init PROVE CountInv
  OBVIOUS
<1>1. Len(events) = 0
  BY EmptySeq DEF Init
<1>2. QueueInv /\ EventSum
  BY <1>1 DEF Init, QueueInv, EventSum, Final
<1>3. JobSum
  <2>1. ASSUME NEW r \in Runs
        PROVE  /\ pc[r] = "idle" /\ job[r].todo = <<>>
               /\ job[r].imported = 0 /\ job[r].skipped = 0 /\ collisions[r] = 0
    BY DEF Init, NoJob
  <2>2. \A r \in Runs : Handled(r) = 0
    <3>1. 0 + 0 + 0 = 0
      OBVIOUS
    <3> QED
      BY <2>1, <3>1 DEF Handled
  <2> QED
    BY <2>1, <2>2 DEF JobSum, Looping
<1>4. CountsAddUp
  BY DEF Init, CountsAddUp, Zero
<1> QED
  BY <1>2, <1>3, <1>4 DEF CountInv

\* The counts on the screen never count an item twice, and a conversion reported
\* complete accounts for all of its items: for playlists of any length, and for both
\* pages.
THEOREM CountsAlwaysAddUp == Spec => []CountsAddUp
<1>1. Init => RunInv
  BY DEF Init, RunInv, Live, Final
<1>2. Init => CountInv
  BY CountInit
<1>3. TypeInv /\ TypeInv' /\ RunInv /\ CountInv /\ [Next]_vars => CountInv'
  BY WorkerCountInv, OthersCountInv
<1>4. TypeInv /\ RunInv /\ [Next]_vars => RunInv'
  BY RunInvStep DEF TypeInv
<1>5. CountInv => CountsAddUp
  BY DEF CountInv
<1> QED
  BY <1>1, <1>2, <1>3, <1>4, <1>5, TypeInvInit, TypeInvStep, PTL DEF Spec

------------------------------------------------------------------------------
(* What the user agreed to. *)

\* The conflict dialogs the window shows or will show.
Question(i) == events[i].type = "conflict"
NoQuestion == ~conflictVisible /\ \A i \in 1..Len(events) : ~Question(i)

\* The one dialog about a path: shown, or still queued.
Asking(p) ==
  /\ conflictVisible => conflictPath = p /\ \A i \in 1..Len(events) : ~Question(i)
  /\ \A i \in 1..Len(events) : Question(i) => events[i].path = p
  /\ \A i, j \in 1..Len(events) : Question(i) /\ Question(j) => i = j

\* From the playlist page alone, a dialog is there only while a worker asks, and it
\* is about the output of that worker.
DialogInv ==
  /\ ~singleConflict
  /\ ~running => ~conflictVisible
  /\ \A r \in Runs :
       /\ kind[r] = "batch"
       /\ Live(r) /\ pc[r] \notin {"ask", "finish"} => NoQuestion
       /\ pc[r] = "ask" /\ channel[r] = "open" => Asking(Destination(r))
       /\ pc[r] = "ask" /\ channel[r] \in ConflictAnswers => NoQuestion

\* A worker replaces a file only on a Replace that was answered to its own question,
\* or after a ReplaceAll.
ConsentInv ==
  \A r \in Runs :
    /\ ~Live(r) => job[r].mode = "Ask"
    /\ job[r].mode = "ReplaceAlways" => Path \subseteq consent
    /\ pc[r] = "commit" /\ job[r].replace => job[r].path \in consent
    /\ pc[r] = "ask" /\ channel[r] = "Replace" => Destination(r) \in consent
    /\ pc[r] = "ask" /\ channel[r] = "ReplaceAll" => Path \subseteq consent

AgreedInv == DialogInv /\ ConsentInv

\* A worker's step either asks about its own output, ...
Asks(r) ==
  /\ pc[r] = "resolve" /\ pc' = [pc EXCEPT ![r] = "ask"]
  /\ channel'[r] = "open"
  /\ UNCHANGED job
  /\ \E e : Post(e) /\ e.type = "conflict" /\ e.path = Destination(r)

\* ... or asks nothing; then it leaves a question only with an answer to it or for
\* the end, and takes its mode and its leave to replace from there.
Proceeds(r) ==
  /\ pc'[r] # "ask"
  /\ pc[r] = "ask" => channel[r] \in ConflictAnswers \/ pc'[r] = "finish"
  /\ pc[r] = "finish" => pc'[r] = "done" /\ job'[r].mode = "Ask"
  /\ pc'[r] = "done" => pc[r] = "finish"
  /\ UNCHANGED events \/ \E e : Post(e) /\ e.type # "conflict"
  /\ job'[r].mode = "ReplaceAlways" =>
       job[r].mode = "ReplaceAlways" \/ (pc[r] = "ask" /\ channel[r] = "ReplaceAll")
  /\ pc'[r] = "commit" /\ job'[r].replace =>
       /\ job'[r].path = Destination(r) /\ Destination(r) \in Path
       /\ \/ job[r].mode = "ReplaceAlways"
          \/ pc[r] = "ask" /\ channel[r] \in {"Replace", "ReplaceAll"}

LEMMA WorkerAgrees ==
  ASSUME TypeOK, HasItem, NEW r \in Runs, WorkerStep(r), kind[r] = "batch"
  PROVE  /\ \A q \in Runs \ {r} : job'[q] = job[q]
         /\ Asks(r) \/ Proceeds(r)
<1> DEFINE Others == \A q \in Runs \ {r} : job'[q] = job[q]
<1> USE DEF At, Goto
<1>1. /\ job \in [Runs -> Job] /\ job[r] \in Job
      /\ job[r].mode \in Modes
      /\ channel[r] \in {"none", "open", "gone"} \union ConflictAnswers \union ErrorAnswers
      /\ pc \in [Runs -> {"idle", "plan", "item", "resolve", "ask", "packed",
                          "commit", "fail", "askError", "finish", "done"}]
  BY DEF TypeOK, Job
<1>2. ASSUME NEW result, End(r, result), UNCHANGED events, pc[r] # "finish"
      PROVE  Others /\ Proceeds(r)
  BY <1>1, <1>2 DEF End, Proceeds, Job
<1>3. ASSUME NEW mode \in Modes, NEW imported, NEW skipped, ItemDone(r, mode, imported, skipped),
             pc[r] # "finish",
             pc[r] = "ask" => channel[r] \in ConflictAnswers,
             mode = "ReplaceAlways" =>
               job[r].mode = "ReplaceAlways" \/ (pc[r] = "ask" /\ channel[r] = "ReplaceAll")
      PROVE  Others /\ Proceeds(r)
  <2>1. job' = [job EXCEPT ![r] = [job[r] EXCEPT !.todo = Tail(job[r].todo),
                                                !.mode = mode,
                                                !.imported = job[r].imported + imported,
                                                !.skipped = job[r].skipped + skipped]]
        /\ pc' = [pc EXCEPT ![r] = "item"]
    BY <1>3 DEF ItemDone
  <2>2. Others /\ job'[r].mode = mode
    BY <1>1, <2>1 DEF Job
  <2>3. \E e : Post(e) /\ e.type # "conflict"
    BY <1>3 DEF ItemDone
  <2> QED
    BY <1>1, <1>3, <2>1, <2>2, <2>3 DEF Proceeds
<1>4. ASSUME NEW mode \in Modes, NEW path, NEW replace \in BOOLEAN,
             CommitTo(r, mode, path, replace), pc[r] # "finish",
             pc[r] = "ask" => channel[r] \in ConflictAnswers,
             mode = "ReplaceAlways" =>
               job[r].mode = "ReplaceAlways" \/ (pc[r] = "ask" /\ channel[r] = "ReplaceAll"),
             replace =>
               /\ path = Destination(r) /\ Destination(r) \in Path
               /\ \/ job[r].mode = "ReplaceAlways"
                  \/ pc[r] = "ask" /\ channel[r] \in {"Replace", "ReplaceAll"}
      PROVE  Others /\ Proceeds(r)
  <2>1. Others /\ job'[r].mode = mode /\ job'[r].path = path /\ job'[r].replace = replace
    BY <1>1, <1>4 DEF CommitTo, Job
  <2> QED
    BY <1>1, <1>4, <2>1 DEF CommitTo, Proceeds
<1>5. ASSUME NEW mode \in Modes, NEW decision, Settle(r, mode, decision),
             AtItem(r), pc[r] # "finish",
             pc[r] = "ask" => channel[r] \in ConflictAnswers,
             mode = "ReplaceAlways" =>
               job[r].mode = "ReplaceAlways" \/ (pc[r] = "ask" /\ channel[r] = "ReplaceAll"),
             decision = "replace" =>
               \/ job[r].mode = "ReplaceAlways"
               \/ pc[r] = "ask" /\ channel[r] \in {"Replace", "ReplaceAll"}
      PROVE  Others /\ Proceeds(r)
  <2>1. Destination(r) \in Path
    BY <1>5, DestinationType DEF HasItem
  <2> QED
    BY <1>3, <1>4, <1>5, <2>1 DEF Settle
<1>6. ASSUME UNCHANGED job, pc'[r] # "ask", pc[r] \notin {"ask", "finish"}, pc'[r] # "done",
             pc'[r] # "commit",
             UNCHANGED events \/ \E e : Post(e) /\ e.type # "conflict"
      PROVE  Others /\ Proceeds(r)
  BY <1>6 DEF Proceeds
<1>7. CASE Plan(r)
  <2>1. ASSUME NEW plan,
               job' = [job EXCEPT ![r] = [job[r] EXCEPT !.todo = plan, !.total = Total(r),
                                                        !.skipped = Total(r) - Len(plan)]],
               Post([type |-> "progress", run |-> r,
                     counts |-> [Zero(Total(r)) EXCEPT !.skipped = Total(r) - Len(plan)]]),
               Goto(r, "item")
        PROVE  Others /\ Proceeds(r)
    <3>1. Others /\ job'[r].mode = job[r].mode
      BY <1>1, <2>1 DEF Job
    <3>2. \E e : Post(e) /\ e.type # "conflict"
      BY <2>1
    <3> QED
      BY <1>1, <1>7, <2>1, <3>1, <3>2 DEF Plan, Proceeds
  <2> QED
    BY <1>2, <1>7, <2>1 DEF Plan
<1>8. CASE StopBetweenItems(r) \/ AskAbandoned(r) \/ ErrorStopped(r)
  BY <1>2, <1>8 DEF StopBetweenItems, AskAbandoned, ErrorStopped
<1>9. CASE Pack(r)
  BY <1>1, <1>6, <1>9 DEF Pack
<1>10. CASE Resolve(r)
  <2>1. CASE OpenPrompt(r) /\ Goto(r, "ask") /\ UNCHANGED <<job, staged, collisions>>
             /\ Post([type |-> "conflict", run |-> r, path |-> Destination(r)])
    <3>1. \E e : Post(e) /\ e.type = "conflict" /\ e.path = Destination(r)
      BY <2>1
    <3>2. channel'[r] = "open"
      BY <2>1 DEF OpenPrompt
    <3> QED
      BY <1>10, <2>1, <3>1, <3>2 DEF Resolve, Asks
  <2>2. CASE CommitTo(r, job[r].mode, Destination(r), FALSE)
    BY <1>1, <1>4, <1>10, <2>2 DEF Resolve
  <2>3. CASE job[r].mode # "Ask" /\ Settle(r, job[r].mode,
               CASE job[r].mode = "SkipAlways" -> "skip"
                 [] job[r].mode = "RenameAlways" -> "rename"
                 [] job[r].mode = "ReplaceAlways" -> "replace")
    <3>1. PICK decision : /\ Settle(r, job[r].mode, decision)
                          /\ decision = "replace" => job[r].mode = "ReplaceAlways"
      BY <1>1, <2>3 DEF Modes
    <3> QED
      BY <1>1, <1>5, <1>10, <3>1 DEF Resolve, AtItem
  <2> QED
    BY <1>10, <2>1, <2>2, <2>3 DEF Resolve
<1>11. CASE AskAnswered(r)
  <2>1. pc[r] = "ask" /\ AtItem(r)
    BY <1>11 DEF AskAnswered, AtItem
  <2>2. PICK mode \in Modes, decision \in {"skip", "rename", "replace"} :
          /\ Settle(r, mode, decision)
          /\ channel[r] \in ConflictAnswers
          /\ mode = "ReplaceAlways" => channel[r] = "ReplaceAll"
          /\ decision = "replace" => channel[r] \in {"Replace", "ReplaceAll"}
    BY <1>11 DEF AskAnswered, Modes, ConflictAnswers
  <2> QED
    BY <1>5, <2>1, <2>2
<1>12. CASE Commit(r)
  <2>1. pc[r] = "commit" /\ job[r].mode \in Modes
    BY <1>1, <1>12 DEF Commit
  <2>2. \/ ItemDone(r, job[r].mode, 1, 0)
        \/ Goto(r, "fail") /\ UNCHANGED <<job, events>>
    BY <1>12 DEF Commit
  <2> QED
    BY <1>1, <1>3, <1>6, <2>1, <2>2
<1>13. CASE AskError(r)
  <2>1. \E e : Post(e) /\ e.type # "conflict"
    BY <1>13 DEF AskError
  <2> QED
    BY <1>1, <1>6, <1>13, <2>1 DEF AskError
<1>14. CASE ErrorContinued(r)
  BY <1>1, <1>3, <1>14 DEF ErrorContinued
<1>15. CASE LoopDone(r)
  BY <1>2, <1>15 DEF LoopDone
<1>16. CASE Finish(r)
  <2>1. \E e : Post(e) /\ e.type # "conflict"
    BY <1>16 DEF Finish
  <2>2. Others /\ job'[r].mode = "Ask"
    BY <1>1, <1>16 DEF Finish, NoJob
  <2> QED
    BY <1>1, <1>16, <2>1, <2>2 DEF Finish, Proceeds
<1>17. ~KeepOutput(r) /\ ~PackSet(r) /\ ~SetPacked(r)
  BY DEF KeepOutput, PackSet, SetPacked
<1> QED
  BY <1>7, <1>8, <1>9, <1>10, <1>11, <1>12, <1>13, <1>14, <1>15, <1>16, <1>17 DEF WorkerStep

LEMMA WorkerAgreedInv ==
  ASSUME TypeInv, RunInv, AgreedInv, NEW r \in Runs, Worker(r)
  PROVE  AgreedInv'
<1>1. /\ WorkerStep(r)
      /\ UNCHANGED <<running, conflictVisible, conflictPath, singleConflict, consent, kind>>
      /\ \A q \in Runs \ {r} : pc'[q] = pc[q] /\ ~Live(q) /\ ~Live(q)'
      /\ Live(r) /\ kind[r] = "batch"
  BY WorkerMoves, AloneLive DEF Worker, window, TypeInv, Live, AgreedInv, DialogInv
<1>2. /\ \A q \in Runs \ {r} : job'[q] = job[q]
      /\ Asks(r) \/ Proceeds(r)
  BY <1>1, WorkerAgrees DEF TypeInv
<1>3. ASSUME NEW e, Post(e)
      PROVE  /\ Len(events) \in Nat /\ Len(events') = Len(events) + 1
             /\ \A i \in 1..Len(events) : events'[i] = events[i]
             /\ events'[Len(events) + 1] = e
             /\ \A i \in 1..Len(events') : i \in 1..Len(events) \/ i = Len(events) + 1
  <2>1. /\ Len(events) \in Nat /\ Len(events') = Len(events) + 1
        /\ \A i \in 1..Len(events) : events'[i] = events[i]
        /\ events'[Len(events) + 1] = e
    BY <1>3, PostProperties DEF TypeInv, TypeOK
  <2> QED
    BY <2>1
<1>4. CASE Asks(r)
  <2>1. NoQuestion
    BY <1>1, <1>4 DEF Asks, AgreedInv, DialogInv
  <2>2. PICK e : Post(e) /\ e.type = "conflict" /\ e.path = Destination(r)
    BY <1>4 DEF Asks
  <2>3. /\ \A i \in 1..Len(events') : Question(i)' => i = Len(events) + 1
        /\ events'[Len(events) + 1].path = Destination(r)
        /\ ~conflictVisible'
    BY <1>1, <1>3, <2>1, <2>2 DEF NoQuestion, Question
  <2>4. Destination(r)' = Destination(r) /\ job' = job
    BY <1>4 DEF Asks, Destination, Current
  <2>5. Asking(Destination(r))'
    BY <2>3, <2>4 DEF Asking, Question
  <2>6. pc'[r] = "ask" /\ channel'[r] = "open"
    BY <1>4 DEF Asks, TypeInv, TypeOK
  <2>7. ASSUME NEW q \in Runs
        PROVE  /\ kind'[q] = "batch"
               /\ Live(q)' /\ pc'[q] \notin {"ask", "finish"} => NoQuestion'
               /\ pc'[q] = "ask" /\ channel'[q] = "open" => Asking(Destination(q))'
               /\ pc'[q] = "ask" /\ channel'[q] \in ConflictAnswers => NoQuestion'
    BY <1>1, <2>5, <2>6 DEF AgreedInv, DialogInv, Live, ConflictAnswers
  <2>8. ConsentInv'
    BY <1>1, <2>4, <2>6 DEF AgreedInv, ConsentInv, Live
  <2> QED
    BY <1>1, <2>7, <2>8 DEF AgreedInv, DialogInv
<1>5. CASE Proceeds(r)
  <2>1. ASSUME NoQuestion PROVE NoQuestion'
    BY <1>1, <1>3, <1>5, <2>1 DEF Proceeds, NoQuestion, Question
  <2>2. ASSUME NEW q \in Runs
        PROVE  /\ kind'[q] = "batch"
               /\ Live(q)' /\ pc'[q] \notin {"ask", "finish"} => NoQuestion'
               /\ pc'[q] = "ask" /\ channel'[q] = "open" => Asking(Destination(q))'
               /\ pc'[q] = "ask" /\ channel'[q] \in ConflictAnswers => NoQuestion'
    <3>1. CASE q # r
      BY <1>1, <3>1 DEF AgreedInv, DialogInv, Live
    <3>2. CASE q = r
      <4>1. pc'[r] # "ask"
        BY <1>5 DEF Proceeds
      <4>2. Live(r)' /\ pc'[r] # "finish" => NoQuestion
        BY <1>1, <1>5 DEF Proceeds, AgreedInv, DialogInv, Live
      <4> QED
        BY <1>1, <2>1, <3>2, <4>1, <4>2 DEF AgreedInv, DialogInv
    <3> QED
      BY <3>1, <3>2
  <2>3. ConsentInv'
    <3>1. ASSUME NEW q \in Runs
          PROVE  /\ ~Live(q)' => job'[q].mode = "Ask"
                 /\ job'[q].mode = "ReplaceAlways" => Path \subseteq consent'
                 /\ pc'[q] = "commit" /\ job'[q].replace => job'[q].path \in consent'
                 /\ pc'[q] = "ask" /\ channel'[q] = "Replace" => Destination(q)' \in consent'
                 /\ pc'[q] = "ask" /\ channel'[q] = "ReplaceAll" => Path \subseteq consent'
      <4>1. CASE q # r
        BY <1>1, <1>2, <4>1 DEF AgreedInv, ConsentInv, Live
      <4>2. CASE q = r
        <5>1. pc'[r] # "idle"
          BY <1>1, WorkerMoves DEF TypeInv
        <5>2. ~Live(r)' => job'[r].mode = "Ask"
          BY <1>5, <5>1 DEF Proceeds, Live
        <5>3. job'[r].mode = "ReplaceAlways" => Path \subseteq consent
          BY <1>5 DEF AgreedInv, ConsentInv, Proceeds
        <5>4. pc'[r] = "commit" /\ job'[r].replace => job'[r].path \in consent
          BY <1>5 DEF AgreedInv, ConsentInv, Proceeds
        <5> QED
          BY <1>1, <1>5, <4>2, <5>2, <5>3, <5>4 DEF Proceeds
      <4> QED
        BY <4>1, <4>2
    <3> QED
      BY <3>1 DEF ConsentInv
  <2> QED
    BY <1>1, <2>2, <2>3 DEF AgreedInv, DialogInv
<1> QED
  BY <1>2, <1>4, <1>5

\* Clicks and closures: a dialog is answered once, by the user it was shown to.
LEMMA OthersAgreedInv ==
  ASSUME TypeInv, RunInv, SlotInv, QueueInv, AgreedInv, "game" \notin Pages,
         [Next]_vars, ~\E r \in Runs : Worker(r)
  PROVE  AgreedInv'
<1> USE DEF worker, workspace, window, disk, history
<1>1. CASE RunEvent
  <2>1. /\ events # <<>> /\ Head(events) = events[1] /\ 1 \in 1..Len(events)
        /\ Len(events) \in Nat \ {0} /\ Len(events') = Len(events) - 1
        /\ \A i \in 1..Len(events') : events'[i] = events[i + 1]
        /\ events[1] \in Event
    BY <1>1, HeadTailProperties, EmptySeq DEF RunEvent, TypeInv, TypeOK
  <2>2. /\ \A i \in 1..Len(events') : i + 1 \in 1..Len(events) /\ i + 1 # 1
        /\ \A i \in 1..Len(events') : Question(i)' <=> Question(i + 1)
        /\ \A i, j \in 1..Len(events') : i + 1 = j + 1 => i = j
    BY <2>1 DEF Question
  <2>3. /\ UNCHANGED <<pc, kind, channel, job, consent, singleConflict>>
        /\ running
        /\ \A r \in Runs : Destination(r)' = Destination(r)
    BY <1>1, <2>1 DEF RunEvent, QueueInv, Destination, Current
  <2>4. ConsentInv'
    BY <2>3 DEF AgreedInv, ConsentInv, Live
  <2>5. CASE ShowConflict(events[1])
    <3>1. Question(1) /\ ~NoQuestion
      BY <2>1, <2>5 DEF ShowConflict, Question, NoQuestion
    <3>2. conflictPath' = events[1].path /\ conflictVisible' = TRUE /\ running' = running
      BY <2>5 DEF ShowConflict
    <3>3. ASSUME NEW r \in Runs, pc[r] = "ask", channel[r] = "open"
          PROVE  Asking(Destination(r))'
      <4>1. Asking(Destination(r))
        BY <3>3 DEF AgreedInv, DialogInv
      <4>2. \A i \in 1..Len(events') : ~Question(i)'
        BY <2>1, <2>2, <3>1, <4>1 DEF Asking
      <4>3. conflictPath' = Destination(r)'
        BY <2>1, <2>3, <3>1, <3>2, <4>1 DEF Asking
      <4> QED
        BY <4>2, <4>3 DEF Asking
    <3>4. ASSUME NEW r \in Runs
          PROVE  /\ kind'[r] = "batch"
                 /\ ~(Live(r)' /\ pc'[r] \notin {"ask", "finish"})
                 /\ pc'[r] = "ask" /\ channel'[r] = "open" => Asking(Destination(r))'
                 /\ ~(pc'[r] = "ask" /\ channel'[r] \in ConflictAnswers)
      BY <2>3, <3>1, <3>3 DEF AgreedInv, DialogInv, Live
    <3> QED
      BY <2>3, <2>4, <3>2, <3>4 DEF AgreedInv, DialogInv
  <2>6. CASE ~ShowConflict(events[1])
    <3>1. /\ UNCHANGED conflictPath
          /\ \/ UNCHANGED <<running, conflictVisible>>
             \/ running' = FALSE /\ conflictVisible' = FALSE
          /\ conflictVisible' => conflictVisible
      BY <1>1, <2>1, <2>6 DEF RunEvent, ShowProgress, ShowConflict, ShowError, ShowFinal
    <3>2. ASSUME NoQuestion PROVE NoQuestion'
      BY <2>2, <3>1, <3>2 DEF NoQuestion
    <3>3. ASSUME NEW r \in Runs, Asking(Destination(r)) PROVE Asking(Destination(r))'
      <4>1. \A i \in 1..Len(events') : Question(i)' => events'[i].path = Destination(r)'
        BY <2>1, <2>2, <2>3, <3>3 DEF Asking
      <4>2. \A i, j \in 1..Len(events') : Question(i)' /\ Question(j)' => i = j
        BY <2>2, <3>3 DEF Asking
      <4>3. conflictVisible' => conflictPath' = Destination(r)' /\ \A i \in 1..Len(events') : ~Question(i)'
        BY <2>2, <2>3, <3>1, <3>3 DEF Asking
      <4> QED
        BY <4>1, <4>2, <4>3 DEF Asking
    <3>4. ASSUME NEW r \in Runs
          PROVE  /\ kind'[r] = "batch"
                 /\ Live(r)' /\ pc'[r] \notin {"ask", "finish"} => NoQuestion'
                 /\ pc'[r] = "ask" /\ channel'[r] = "open" => Asking(Destination(r))'
                 /\ pc'[r] = "ask" /\ channel'[r] \in ConflictAnswers => NoQuestion'
      BY <2>3, <3>2, <3>3 DEF AgreedInv, DialogInv, Live
    <3> QED
      BY <2>3, <2>4, <3>1, <3>4 DEF AgreedInv, DialogInv
  <2> QED
    BY <2>5, <2>6
<1>2. ASSUME NEW answer \in ConflictAnswers, AnswerConflict(answer) PROVE AgreedInv'
  <2>1. /\ conflictVisible /\ conflictVisible' = FALSE /\ singleConflict' = FALSE
        /\ Send(answer)
        /\ UNCHANGED <<running, conflictPath, events, pc, kind, job>>
    BY <1>2 DEF AnswerConflict, AgreedInv, DialogInv
  <2>2. /\ consent \subseteq consent'
        /\ answer = "ReplaceAll" => consent' = Path
        /\ answer = "Replace" /\ conflictPath \in Path => conflictPath \in consent'
    BY <1>2, SessionAssumption DEF AnswerConflict, TypeInv, TypeOK, ConflictAnswers
  <2>3. \A r \in Runs : Destination(r)' = Destination(r)
    BY <2>1 DEF Destination, Current
  <2>4. ASSUME NEW r \in Runs, pc[r] = "ask", channel[r] = "open"
        PROVE  channel'[r] = answer /\ conflictPath = Destination(r) /\ NoQuestion'
    BY <2>1, <2>4 DEF SlotInv, Send, AgreedInv, DialogInv, Asking, NoQuestion, Question
  <2>5. ASSUME NEW r \in Runs, channel[r] # "open" PROVE channel'[r] = channel[r]
    BY <2>1, <2>5 DEF Send
  <2>6. ASSUME NoQuestion PROVE NoQuestion'
    BY <2>1, <2>6 DEF NoQuestion, Question
  <2>7. ASSUME NEW r \in Runs
        PROVE  /\ kind'[r] = "batch"
               /\ Live(r)' /\ pc'[r] \notin {"ask", "finish"} => NoQuestion'
               /\ pc'[r] = "ask" /\ channel'[r] = "open" => Asking(Destination(r))'
               /\ pc'[r] = "ask" /\ channel'[r] \in ConflictAnswers => NoQuestion'
    BY <2>1, <2>4, <2>5, <2>6 DEF AgreedInv, DialogInv, Live, ConflictAnswers
  <2>8. ConsentInv'
    <3>1. ASSUME NEW r \in Runs, pc[r] = "ask", channel'[r] = "Replace"
          PROVE  Destination(r)' \in consent'
      <4>1. CASE channel[r] = "open"
        <5>1. Destination(r) \in Path
          BY <3>1, DestinationType DEF TypeInv, HasItem, AtItem
        <5> QED
          BY <2>2, <2>3, <2>4, <3>1, <4>1, <5>1
      <4>2. CASE channel[r] # "open"
        BY <2>2, <2>3, <2>5, <3>1, <4>2 DEF AgreedInv, ConsentInv
      <4> QED
        BY <4>1, <4>2
    <3>2. ASSUME NEW r \in Runs, pc[r] = "ask", channel'[r] = "ReplaceAll"
          PROVE  Path \subseteq consent'
      BY <2>2, <2>4, <2>5, <3>2 DEF AgreedInv, ConsentInv
    <3> QED
      BY <2>1, <2>2, <3>1, <3>2 DEF AgreedInv, ConsentInv, Live
  <2> QED
    BY <2>1, <2>7, <2>8 DEF AgreedInv, DialogInv
<1>3. ASSUME UNCHANGED <<running, conflictVisible, conflictPath, events, pc, kind, job, consent>>,
             singleConflict' => singleConflict,
             \A r \in Runs : channel'[r] \in {"open"} \union ConflictAnswers =>
                               channel'[r] = channel[r]
      PROVE  AgreedInv'
  <2>1. \A r \in Runs : Destination(r)' = Destination(r)
    BY <1>3 DEF Destination, Current
  <2>2. ConsentInv'
    BY <1>3, <2>1 DEF AgreedInv, ConsentInv, Live, ConflictAnswers
  <2>3. /\ NoQuestion' <=> NoQuestion
        /\ \A r \in Runs : Asking(Destination(r))' <=> Asking(Destination(r))
    BY <1>3, <2>1 DEF NoQuestion, Asking, Question
  <2>4. DialogInv'
    <3>1. ~singleConflict' /\ (~running' => ~conflictVisible')
      BY <1>3 DEF AgreedInv, DialogInv
    <3>2. ASSUME NEW r \in Runs
          PROVE  /\ kind'[r] = "batch"
                 /\ Live(r)' /\ pc'[r] \notin {"ask", "finish"} => NoQuestion'
                 /\ pc'[r] = "ask" /\ channel'[r] = "open" => Asking(Destination(r))'
                 /\ pc'[r] = "ask" /\ channel'[r] \in ConflictAnswers => NoQuestion'
      BY <1>3, <2>3 DEF AgreedInv, DialogInv, Live
    <3> QED
      BY <3>1, <3>2 DEF DialogInv
  <2> QED
    BY <2>2, <2>4 DEF AgreedInv
<1>4. ASSUME NEW answer \in ErrorAnswers, Send(answer), NEW r \in Runs,
             channel'[r] \in {"open"} \union ConflictAnswers
      PROVE  channel'[r] = channel[r]
  BY <1>4 DEF Send, ErrorAnswers, ConflictAnswers
<1>5. ASSUME NEW answer \in ErrorAnswers, AnswerError(answer) PROVE AgreedInv'
  BY <1>3, <1>4, <1>5 DEF AnswerError
<1>6. CASE Cancel
  BY <1>3, <1>4, <1>6 DEF Cancel, ErrorAnswers
<1>7. CASE Reset
  <2>1. \A r \in Runs : channel'[r] \in {"open"} \union ConflictAnswers =>
                          channel'[r] = channel[r]
    BY <1>7 DEF Reset, Disconnected, ConflictAnswers
  <2> QED
    BY <1>3, <1>7, <2>1 DEF Reset
<1>8. CASE (\E p \in Outside : CreateOutside(p)) \/ UNCHANGED vars
  <2>1. UNCHANGED <<window, workspace, events, worker, history>>
    BY <1>8 DEF CreateOutside, vars
  <2> QED
    BY <1>3, <2>1
<1>9. ASSUME NEW r \in Runs, StartBatch(r) PROVE AgreedInv'
  <2>1. /\ ~running /\ running' = TRUE /\ events = <<>> /\ UNCHANGED <<events, job, channel>>
        /\ UNCHANGED <<conflictVisible, singleConflict>>
        /\ pc' = [pc EXCEPT ![r] = "plan"] /\ kind' = [kind EXCEPT ![r] = "batch"]
        /\ pc[r] = "idle"
    BY <1>9 DEF StartBatch, CanStart, Launch, QueueInv
  <2>2. \A q \in Runs : ~Live(q) /\ job[q].mode = "Ask"
    BY <2>1 DEF RunInv, AgreedInv, ConsentInv
  <2>3. NoQuestion'
    BY <2>1, EmptySeq DEF NoQuestion, AgreedInv, DialogInv
  <2>4. \A q \in Runs : pc'[q] \in {"idle", "done", "plan"} /\ kind'[q] = "batch"
    BY <2>1, <2>2 DEF Live, AgreedInv, DialogInv, TypeInv, TypeOK
  <2> QED
    BY <2>1, <2>2, <2>3, <2>4 DEF AgreedInv, DialogInv, ConsentInv
<1>10. ASSUME NEW r \in Runs PROVE ~ConvertSingle(r)
  BY DEF ConvertSingle
<1> QED
  BY <1>1, <1>2, <1>5, <1>6, <1>7, <1>8, <1>9, <1>10 DEF Next, User

\* One step overwrites no file without consent.
LEMMA StepAsked ==
  ASSUME TypeOK, AgreedInv, [Next]_vars, NEW p \in Path, files[p] # Absent, files'[p] # files[p]
  PROVE  p \in consent
<1>1. UNCHANGED files \/ (\E q \in Outside : CreateOutside(q)) \/ \E r \in Runs : Worker(r)
  BY DEF Next, User, StartBatch, ConvertSingle, Launch, AnswerConflict, AnswerError, Cancel,
         Reset, RunEvent, vars, disk
<1>2. ASSUME NEW q \in Outside, CreateOutside(q) PROVE FALSE
  BY <1>2 DEF CreateOutside, TypeOK
<1>3. ASSUME NEW r \in Runs, Worker(r) PROVE p \in consent
  <2>1. CASE Commit(r)
    <3>1. PICK outcome \in CommitOutcomes(files[job[r].path], Written(r), Refused(r)) :
            files' = [files EXCEPT ![job[r].path] = outcome.left]
      BY <2>1 DEF Commit
    <3>2. p = job[r].path /\ outcome.left # files[p]
      BY <3>1 DEF TypeOK
    <3>3. ~Refused(r)
      BY <3>1, <3>2 DEF CommitOutcomes
    <3> QED
      BY <2>1, <3>2, <3>3 DEF Commit, At, Refused, AgreedInv, ConsentInv
  <2>2. CASE ~Commit(r)
    BY <1>3, <2>2
    DEF Worker, WorkerStep, Plan, PackSet, SetPacked, StopBetweenItems, Pack, KeepOutput, Resolve,
        AskAnswered, AskAbandoned, AskError, ErrorContinued, ErrorStopped, LoopDone, Finish, disk
  <2> QED
    BY <2>1, <2>2
<1> QED
  BY <1>1, <1>2, <1>3

\* From the playlist page, a file is overwritten only when the user answered Replace
\* to a dialog showing its path, or ReplaceAll, during this conversion: whatever the
\* clicks, resets, errors and other programs between question, answer and commit.
\* (With the game page too it is false: a dialog left by the one page takes the
\* answer of the other.)
THEOREM NothingOverwrittenUnasked ==
  ASSUME "game" \notin Pages
  PROVE  Spec => NoUnaskedOverwrite
<1> DEFINE Inv == TypeInv /\ RunInv /\ SlotInv /\ CountInv /\ AgreedInv
<1>1. Init => Inv
  <2> SUFFICES ASSUME Init PROVE Inv
    OBVIOUS
  <2>1. Len(events) = 0
    BY EmptySeq DEF Init
  <2>2. RunInv /\ SlotInv
    BY <2>1 DEF Init, RunInv, SlotInv, Live, Final
  <2>3. AgreedInv
    BY <2>1 DEF Init, AgreedInv, DialogInv, ConsentInv, NoJob, Live
  <2> QED
    BY <2>2, <2>3, TypeInvInit, CountInit
<1>2. Inv /\ [Next]_vars => Inv'
  <2> SUFFICES ASSUME Inv, [Next]_vars PROVE Inv'
    OBVIOUS
  <2>1. TypeInv' /\ RunInv' /\ SlotInv'
    BY TypeInvStep, RunInvStep, SlotStep DEF TypeInv
  <2>2. CountInv'
    BY <2>1, WorkerCountInv, OthersCountInv
  <2>3. AgreedInv'
    BY WorkerAgreedInv, OthersAgreedInv DEF CountInv
  <2> QED
    BY <2>1, <2>2, <2>3
<1>3. Inv /\ [Next]_vars =>
        [\A p \in Path : files[p] # Absent /\ files'[p] # files[p] => p \in consent]_vars
  BY StepAsked DEF TypeInv
<1> QED
  BY <1>1, <1>2, <1>3, PTL DEF Spec, NoUnaskedOverwrite

=============================================================================
