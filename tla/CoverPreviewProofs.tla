------------------------- MODULE CoverPreviewProofs -------------------------
(***************************************************************************)
(* Theorem about CoverPreview, for any pictures, any cache and any number  *)
(* of requests: the preview ends up with the picture asked for last.       *)
(***************************************************************************)
EXTENDS CoverPreview, Integers, SequenceTheorems, TLAPS

Pictures == {Art[g].picture : g \in DOMAIN Art}
TaskType == [id : Nat, picture : Pictures]
WorkerType == [stage : {"rest", "decoded", "insert", "stored"}, id : Nat, picture : Pictures \union {NoImage}]

PreviewTypes ==
  /\ generation \in Nat
  /\ queue \in Seq(TaskType) /\ closures \in Seq(TaskType)
  /\ worker \in WorkerType

\* A picture in the cache can be shown: only what was decoded gets there.
CacheInv ==
  /\ cache \in Seq(Pictures \ Broken)
  /\ worker.stage = "insert" => worker.picture \in Pictures \ Broken

\* Whatever carries the number of the latest request is that request's, and carries what
\* the window is to show, unless the preview was blanked meanwhile.
Latest(task) ==
  /\ task.id <= generation
  /\ task.id = generation /\ ~overtaken => Decoded(task.picture) = wanted
RequestInv ==
  /\ \A i \in DOMAIN queue : Latest(queue[i])
  /\ \A i \in DOMAIN closures : Latest(closures[i])
  /\ worker.stage # "rest" => Latest(worker) /\ worker.picture \in Pictures

PreviewInv == PreviewTypes /\ CacheInv /\ RequestInv /\ LatestPictureShown

------------------------------------------------------------------------------
(* The cache. *)

LEMMA WithoutInSeq ==
  ASSUME NEW S, NEW pictures \in Seq(S), NEW picture
  PROVE  Without(pictures, picture) \in Seq(S)
<1>1. CASE \E i \in DOMAIN pictures : pictures[i] = picture
  <2> DEFINE i == CHOOSE i \in DOMAIN pictures : pictures[i] = picture
  <2>1. i \in 1..Len(pictures) /\ Len(pictures) \in Nat
    BY <1>1, LenProperties
  <2>2. Without(pictures, picture) = SubSeq(pictures, 1, i - 1) \o SubSeq(pictures, i + 1, Len(pictures))
    BY <1>1 DEF Without
  <2> HIDE DEF i
  <2>3. SubSeq(pictures, 1, i - 1) \in Seq(S)
    BY <2>1, SubSeqProperties
  <2>4. SubSeq(pictures, i + 1, Len(pictures)) \in Seq(S)
    BY <2>1, SubSeqProperties
  <2> QED
    BY <2>2, <2>3, <2>4, ConcatProperties
<1>2. CASE ~ \E i \in DOMAIN pictures : pictures[i] = picture
  BY <1>2 DEF Without
<1> QED
  BY <1>1, <1>2

LEMMA CachedInSeq ==
  ASSUME NEW S, NEW pictures \in Seq(S), NEW picture \in S
  PROVE  Cached(pictures, picture) \in Seq(S)
<1> DEFINE kept == Append(Without(pictures, picture), picture)
<1>1. kept \in Seq(S) /\ kept # <<>>
  BY WithoutInSeq, AppendProperties
<1>2. Tail(kept) \in Seq(S)
  BY <1>1, HeadTailProperties
<1> QED
  BY <1>1, <1>2 DEF Cached

------------------------------------------------------------------------------
(* What is taken from a queue. *)

LEMMA TailElements ==
  ASSUME NEW S, NEW s \in Seq(S), s # <<>>
  PROVE  /\ Tail(s) \in Seq(S) /\ 1 \in DOMAIN s /\ Head(s) = s[1]
         /\ \A i \in DOMAIN Tail(s) : i + 1 \in DOMAIN s /\ Tail(s)[i] = s[i + 1]
         /\ \A i \in DOMAIN s : i = 1 \/ (i - 1 \in DOMAIN Tail(s) /\ Tail(s)[i - 1] = s[i])
OBVIOUS

------------------------------------------------------------------------------
(* The window's steps. *)

\* Once the counter has moved nothing under way carries its number.
LEMMA NothingUnderway ==
  ASSUME PreviewInv, UNCHANGED <<worker, closures, queue>>, generation' = generation + 1
  PROVE  ~Underway' /\ PreviewTypes' /\ RequestInv'
<1>1. generation \in Nat /\ queue \in Seq(TaskType) /\ closures \in Seq(TaskType) /\ worker \in WorkerType
  BY DEF PreviewInv, PreviewTypes
<1>2. \A i \in DOMAIN queue : queue[i].id \in Nat /\ queue[i].id <= generation
  <2>1. \A i \in DOMAIN queue : queue[i] \in TaskType
    BY <1>1, ElementOfSeq, LenProperties
  <2> QED
    BY <2>1 DEF PreviewInv, RequestInv, Latest, TaskType
<1>3. \A i \in DOMAIN closures : closures[i].id \in Nat /\ closures[i].id <= generation
  <2>1. \A i \in DOMAIN closures : closures[i] \in TaskType
    BY <1>1, ElementOfSeq, LenProperties
  <2> QED
    BY <2>1 DEF PreviewInv, RequestInv, Latest, TaskType
<1>4. worker.stage # "rest" => worker.id \in Nat /\ worker.id <= generation /\ worker.picture \in Pictures
  BY <1>1 DEF PreviewInv, RequestInv, Latest, WorkerType
<1>5. ~Underway'
  BY <1>1, <1>2, <1>3, <1>4 DEF Underway
<1>6. PreviewTypes'
  BY <1>1 DEF PreviewTypes
<1>7. RequestInv'
  <2>1. \A i \in DOMAIN queue : Latest(queue[i])'
    BY <1>1, <1>2 DEF Latest
  <2>2. \A i \in DOMAIN closures : Latest(closures[i])'
    BY <1>1, <1>3 DEF Latest
  <2>3. worker.stage # "rest" => Latest(worker)'
    BY <1>1, <1>4 DEF Latest
  <2> QED
    BY <1>4, <2>1, <2>2, <2>3 DEF RequestInv
<1> QED
  BY <1>5, <1>6, <1>7

\* The window asks for nothing and shows what it wants.
LEMMA CountedBlank ==
  ASSUME PreviewInv, UNCHANGED <<worker, closures, queue>>, Counted,
         cache' \in {cache, <<>>}, wanted' = shown'
  PROVE  PreviewInv'
<1>1. PreviewTypes' /\ RequestInv'
  BY NothingUnderway DEF Counted
<1>2. CacheInv'
  BY EmptySeq DEF PreviewInv, CacheInv
<1>3. LatestPictureShown'
  BY DEF LatestPictureShown
<1> QED
  BY <1>1, <1>2, <1>3 DEF PreviewInv

LEMMA CountedRequest ==
  ASSUME PreviewInv, UNCHANGED <<worker, closures>>, Counted,
         NEW picture \in Pictures, RequestPreview(picture)
  PROVE  PreviewInv'
<1>1. generation \in Nat /\ generation' = generation + 1 /\ ~overtaken' /\ wanted' = Decoded(picture)
  BY DEF PreviewInv, PreviewTypes, Counted, RequestPreview
<1>2. CASE InCache(picture)
  <2>1. shown' = picture /\ cache' = Cached(cache, picture) /\ queue' = queue
    BY <1>2 DEF RequestPreview
  <2>2. picture \in Pictures \ Broken
    <3>1. cache \in Seq(Pictures \ Broken)
      BY DEF PreviewInv, CacheInv
    <3>2. PICK i \in DOMAIN cache : cache[i] = picture
      BY <1>2 DEF InCache
    <3> QED
      BY <3>1, <3>2, ElementOfSeq, LenProperties
  <2>3. PreviewTypes' /\ RequestInv'
    BY <1>1, <2>1, NothingUnderway
  <2>4. CacheInv'
    BY <2>1, <2>2, CachedInSeq DEF PreviewInv, CacheInv
  <2>5. LatestPictureShown'
    BY <1>1, <2>1, <2>2 DEF LatestPictureShown, Decoded
  <2> QED
    BY <2>3, <2>4, <2>5 DEF PreviewInv
<1>3. CASE ~InCache(picture)
  <2>0. [id |-> generation + 1, picture |-> picture] \in TaskType
    BY <1>1 DEF TaskType
  <2>1. PICK task \in TaskType : task.id = generation + 1 /\ task.picture = picture
                                 /\ queue' = Append(queue, task) /\ cache' = cache
    BY <1>3, <2>0 DEF RequestPreview
  <2>2. task \in TaskType /\ task.id = generation' /\ task.picture = picture
    BY <1>1, <2>1
  <2>3. queue \in Seq(TaskType) /\ closures \in Seq(TaskType) /\ worker \in WorkerType
    BY DEF PreviewInv, PreviewTypes
  <2>4. /\ queue' \in Seq(TaskType)
        /\ \A i \in DOMAIN queue' : (i \in DOMAIN queue /\ queue'[i] = queue[i]) \/ queue'[i] = task
        /\ \E i \in DOMAIN queue' : queue'[i] = task
    <3>1. /\ Len(queue) \in Nat /\ DOMAIN queue = 1..Len(queue)
          /\ queue' \in Seq(TaskType) /\ Len(queue') = Len(queue) + 1
          /\ \A i \in 1..Len(queue) : queue'[i] = queue[i]
          /\ queue'[Len(queue) + 1] = task
      BY <2>1, <2>2, <2>3, AppendProperties, LenProperties
    <3>2. DOMAIN queue' = 1..(Len(queue) + 1)
      BY <3>1, LenProperties
    <3> QED
      BY <3>1, <3>2
  <2>5. PreviewTypes'
    BY <1>1, <2>3, <2>4 DEF PreviewTypes
  <2>6. CacheInv'
    BY <2>1 DEF PreviewInv, CacheInv
  <2>9. RequestInv'
    <3>0. /\ \A i \in DOMAIN queue : queue[i] \in TaskType
          /\ \A i \in DOMAIN closures : closures[i] \in TaskType
      BY <2>3, ElementOfSeq, LenProperties
    <3>1. \A i \in DOMAIN queue : queue[i].id \in Nat
      BY <3>0 DEF TaskType
    <3>2. \A i \in DOMAIN closures : closures[i].id \in Nat
      BY <3>0 DEF TaskType
    <3>3. worker.id \in Nat
      BY <2>3 DEF WorkerType
    <3>4. \A i \in DOMAIN queue' : Latest(queue[i])' 
      <4>1. ASSUME NEW i \in DOMAIN queue', i \in DOMAIN queue, queue'[i] = queue[i] PROVE Latest(queue[i])'
        <5>1. Latest(queue[i])
          BY <4>1 DEF PreviewInv, RequestInv
        <5> QED
          BY <1>1, <3>1, <4>1, <5>1 DEF Latest
      <4>2. ASSUME NEW i \in DOMAIN queue', queue'[i] = task PROVE Latest(queue[i])'
        BY <1>1, <2>2, <4>2 DEF Latest
      <4> QED
        BY <2>4, <4>1, <4>2
    <3>5. \A i \in DOMAIN closures : Latest(closures[i])'
      BY <1>1, <3>2 DEF PreviewInv, RequestInv, Latest
    <3>6. worker.stage # "rest" => Latest(worker)' /\ worker.picture \in Pictures
      BY <1>1, <3>3 DEF PreviewInv, RequestInv, Latest
    <3> QED
      BY <3>4, <3>5, <3>6 DEF RequestInv
  <2>10. Underway'
    BY <2>2, <2>4 DEF Underway
  <2> QED
    BY <2>5, <2>6, <2>9, <2>10 DEF PreviewInv, LatestPictureShown
<1> QED
  BY <1>2, <1>3

\* The preview is blanked, and the requests go on.
LEMMA UncountedBlank ==
  ASSUME PreviewInv, UNCHANGED <<worker, closures>>, BlankPreview, overtaken' = Underway, UNCHANGED generation
  PROVE  PreviewInv'
<1>1. wanted' = shown' /\ UNCHANGED <<cache, queue>>
  BY DEF BlankPreview
<1>2. PreviewTypes' /\ CacheInv' /\ LatestPictureShown'
  BY <1>1 DEF PreviewInv, PreviewTypes, CacheInv, LatestPictureShown
<1>3. RequestInv'
  BY <1>1 DEF PreviewInv, RequestInv, Latest, Underway
<1> QED
  BY <1>2, <1>3 DEF PreviewInv

\* Every step of the window: choices on the pages, resets.
LEMMA WindowStep ==
  ASSUME PreviewInv, ResetWorkspace \/ \E g \in DOMAIN Art : ChooseGame(g) \/ PreviewRomx(g)
  PROVE  PreviewInv'
<1>1. ASSUME NEW g \in DOMAIN Art, Counted, RequestPreview(Art[g].picture), UNCHANGED <<worker, closures>>
      PROVE  PreviewInv'
  BY <1>1, CountedRequest DEF Pictures
<1>2. ASSUME Counted, BlankPreview \/ LeavePreview, UNCHANGED <<worker, closures>> PROVE PreviewInv'
  BY <1>2, CountedBlank DEF BlankPreview, LeavePreview
<1>3. ASSUME NEW g \in DOMAIN Art, ChooseGame(g) PROVE PreviewInv'
  <2>1. CASE ChooseOnGamePage(g)
    BY <1>1, <1>2, <1>3, <2>1 DEF ChooseGame, ChooseOnGamePage
  <2>2. CASE ChooseEntrypoint(g)
    BY <1>1, <1>2, <1>3, <2>2 DEF ChooseGame, ChooseEntrypoint
  <2>3. CASE ChooseInPlaylist(g)
    BY <1>1, <1>2, <1>3, <2>3 DEF ChooseGame, ChooseInPlaylist
  <2> QED
    BY <1>3, <2>1, <2>2, <2>3 DEF ChooseGame
<1>4. ASSUME NEW g \in DOMAIN Art, PreviewRomx(g) PROVE PreviewInv'
  BY <1>1, <1>4, UncountedBlank DEF PreviewRomx
<1>5. CASE ResetWorkspace
  BY <1>5, CountedBlank DEF ResetWorkspace
<1> QED
  BY <1>3, <1>4, <1>5

------------------------------------------------------------------------------
(* The worker and its closures. *)

LEMMA WorkerStep ==
  ASSUME PreviewInv, ClosureRuns \/ TakeTask \/ CheckDecoded \/ StoreDecoded \/ PostClosure
  PROVE  PreviewInv'
<1>1. generation \in Nat /\ queue \in Seq(TaskType) /\ closures \in Seq(TaskType) /\ worker \in WorkerType
  BY DEF PreviewInv, PreviewTypes
<1>2. /\ \A i \in DOMAIN queue : queue[i] \in TaskType
      /\ \A i \in DOMAIN closures : closures[i] \in TaskType
  BY <1>1, ElementOfSeq, LenProperties
<1>3. CASE ClosureRuns
  <2>1. /\ closures # <<>> /\ closures' = Tail(closures)
        /\ UNCHANGED <<generation, cache, queue, worker, wanted, overtaken>>
        /\ shown' = IF IsLatest(Head(closures).id) THEN Decoded(Head(closures).picture) ELSE shown
    BY <1>3 DEF ClosureRuns
  <2>2. /\ closures' \in Seq(TaskType) /\ 1 \in DOMAIN closures /\ Head(closures) = closures[1]
        /\ \A i \in DOMAIN closures' : i + 1 \in DOMAIN closures /\ closures'[i] = closures[i + 1]
        /\ \A i \in DOMAIN closures : i = 1 \/ (i - 1 \in DOMAIN closures' /\ closures'[i - 1] = closures[i])
    BY <1>1, <2>1, TailElements
  <2>3. PreviewTypes' /\ CacheInv'
    BY <2>1, <2>2 DEF PreviewInv, PreviewTypes, CacheInv
  <2>4. RequestInv'
    BY <2>1, <2>2 DEF PreviewInv, RequestInv, Latest
  <2>5. LatestPictureShown'
    <3>1. CASE Head(closures).id = generation
      BY <2>1, <2>2, <3>1 DEF PreviewInv, RequestInv, Latest, IsLatest, LatestPictureShown
    <3>2. CASE Head(closures).id # generation
      <4>1. ASSUME NEW i \in DOMAIN closures, closures[i].id = generation PROVE Underway'
        <5>1. i - 1 \in DOMAIN closures' /\ closures'[i - 1].id = generation
          BY <2>2, <3>2, <4>1
        <5> QED
          BY <2>1, <5>1 DEF Underway
      <4>2. Underway => Underway'
        BY <2>1, <4>1 DEF Underway
      <4>3. shown' = shown
        BY <2>1, <3>2 DEF IsLatest
      <4> QED
        BY <2>1, <4>2, <4>3 DEF PreviewInv, LatestPictureShown
    <3> QED
      BY <3>1, <3>2
  <2> QED
    BY <2>3, <2>4, <2>5 DEF PreviewInv
<1>4. CASE TakeTask
  <2>1. /\ worker.stage = "rest" /\ queue # <<>> /\ queue' = Tail(queue)
        /\ UNCHANGED <<generation, shown, cache, closures, wanted, overtaken>>
    BY <1>4 DEF TakeTask
  <2>2. /\ queue' \in Seq(TaskType) /\ 1 \in DOMAIN queue /\ Head(queue) = queue[1]
        /\ \A i \in DOMAIN queue' : i + 1 \in DOMAIN queue /\ queue'[i] = queue[i + 1]
        /\ \A i \in DOMAIN queue : i = 1 \/ (i - 1 \in DOMAIN queue' /\ queue'[i - 1] = queue[i])
    BY <1>1, <2>1, TailElements
  <2>3. queue[1] \in TaskType /\ Latest(queue[1])
    BY <1>2, <2>2 DEF PreviewInv, RequestInv
  <2>4. CASE queue[1].id = generation
    <3>1. worker' = [stage |-> "decoded", id |-> queue[1].id, picture |-> queue[1].picture]
      BY <1>4, <2>2, <2>4 DEF TakeTask
    <3>2. worker' \in WorkerType /\ worker'.stage = "decoded" /\ worker'.id = generation
          /\ worker'.picture = queue[1].picture /\ worker'.picture \in Pictures
      BY <2>3, <2>4, <3>1 DEF WorkerType, TaskType
    <3>3. PreviewTypes' /\ CacheInv'
      BY <2>1, <2>2, <3>2 DEF PreviewInv, PreviewTypes, CacheInv
    <3>4. RequestInv'
      BY <2>1, <2>2, <2>3, <2>4, <3>2 DEF PreviewInv, RequestInv, Latest
    <3>5. LatestPictureShown'
      BY <2>1, <3>2 DEF LatestPictureShown, Underway
    <3> QED
      BY <3>3, <3>4, <3>5 DEF PreviewInv
  <2>5. CASE queue[1].id # generation
    <3>1. worker' = Resting
      BY <1>4, <2>2, <2>5 DEF TakeTask
    <3>2. PreviewTypes' /\ CacheInv'
      BY <2>1, <2>2, <3>1 DEF PreviewInv, PreviewTypes, CacheInv, WorkerType, Resting
    <3>3. RequestInv'
      BY <2>1, <2>2, <3>1 DEF PreviewInv, RequestInv, Latest, Resting
    <3>4. Underway => Underway'
      <4>1. ASSUME NEW i \in DOMAIN queue, queue[i].id = generation PROVE Underway'
        <5>1. i - 1 \in DOMAIN queue' /\ queue'[i - 1].id = generation
          BY <2>2, <2>5, <4>1
        <5> QED
          BY <2>1, <5>1 DEF Underway
      <4> QED
        BY <2>1, <4>1 DEF Underway
    <3>5. LatestPictureShown'
      BY <2>1, <3>4 DEF PreviewInv, LatestPictureShown
    <3> QED
      BY <3>2, <3>3, <3>5 DEF PreviewInv
  <2> QED
    BY <2>4, <2>5
<1>5. CASE CheckDecoded
  <2>1. /\ worker.stage = "decoded"
        /\ UNCHANGED <<generation, shown, cache, queue, closures, wanted, overtaken>>
    BY <1>5 DEF CheckDecoded
  <2>2. /\ worker' \in WorkerType /\ worker'.stage \in {"insert", "stored"}
        /\ worker'.id = worker.id /\ worker'.picture = worker.picture
        /\ worker'.stage = "insert" => worker.picture \notin Broken
    BY <1>1, <1>5 DEF CheckDecoded, WorkerType
  <2>3. worker.picture \in Pictures
    BY <2>1 DEF PreviewInv, RequestInv
  <2>4. PreviewTypes' /\ CacheInv'
    BY <2>1, <2>2, <2>3 DEF PreviewInv, PreviewTypes, CacheInv
  <2>5. RequestInv'
    BY <2>1, <2>2 DEF PreviewInv, RequestInv, Latest
  <2>6. LatestPictureShown'
    BY <2>1, <2>2 DEF PreviewInv, LatestPictureShown, Underway
  <2> QED
    BY <2>4, <2>5, <2>6 DEF PreviewInv
<1>6. CASE StoreDecoded
  <2>1. /\ worker.stage = "insert" /\ cache' = Cached(cache, worker.picture)
        /\ UNCHANGED <<generation, shown, queue, closures, wanted, overtaken>>
    BY <1>6 DEF StoreDecoded
  <2>2. /\ worker' \in WorkerType /\ worker'.stage = "stored"
        /\ worker'.id = worker.id /\ worker'.picture = worker.picture
    BY <1>1, <1>6 DEF StoreDecoded, WorkerType
  <2>3. cache' \in Seq(Pictures \ Broken)
    BY <2>1, CachedInSeq DEF PreviewInv, CacheInv
  <2>4. PreviewTypes' /\ CacheInv'
    BY <2>1, <2>2, <2>3 DEF PreviewInv, PreviewTypes, CacheInv
  <2>5. RequestInv'
    BY <2>1, <2>2 DEF PreviewInv, RequestInv, Latest
  <2>6. LatestPictureShown'
    BY <2>1, <2>2 DEF PreviewInv, LatestPictureShown, Underway
  <2> QED
    BY <2>4, <2>5, <2>6 DEF PreviewInv
<1>7. CASE PostClosure
  <2>1. /\ worker.stage = "stored" /\ worker' = Resting
        /\ UNCHANGED <<generation, shown, cache, queue, wanted, overtaken>>
    BY <1>7 DEF PostClosure
  <2>2. worker.picture \in Pictures /\ worker.id \in Nat /\ Latest(worker)
    BY <1>1, <2>1 DEF PreviewInv, RequestInv, WorkerType
  <2>3. worker' \in WorkerType /\ worker'.stage = "rest"
    BY <2>1 DEF WorkerType, Resting
  <2>4. CASE worker.id = generation
    <3>1. [id |-> worker.id, picture |-> worker.picture] \in TaskType
      BY <2>2 DEF TaskType
    <3>2. PICK task \in TaskType : task.id = worker.id /\ task.picture = worker.picture
                                   /\ closures' = Append(closures, task)
      BY <1>7, <2>4, <3>1 DEF PostClosure
    <3>3. /\ Len(closures) \in Nat /\ DOMAIN closures = 1..Len(closures)
          /\ closures' \in Seq(TaskType) /\ Len(closures') = Len(closures) + 1
          /\ \A i \in 1..Len(closures) : closures'[i] = closures[i]
          /\ closures'[Len(closures) + 1] = task
      BY <1>1, <3>2, AppendProperties, LenProperties
    <3>4. DOMAIN closures' = 1..(Len(closures) + 1)
      BY <3>3, LenProperties
    <3>5. PreviewTypes' /\ CacheInv'
      BY <2>1, <2>3, <3>3 DEF PreviewInv, PreviewTypes, CacheInv
    <3>6. \A i \in DOMAIN closures' : Latest(closures[i])'
      <4>1. ASSUME NEW i \in 1..Len(closures) PROVE Latest(closures[i])'
        BY <2>1, <3>3, <4>1 DEF PreviewInv, RequestInv, Latest
      <4>2. ASSUME NEW i \in DOMAIN closures', i = Len(closures) + 1 PROVE Latest(closures[i])'
        BY <2>1, <2>2, <3>2, <3>3, <4>2 DEF Latest
      <4> QED
        BY <3>3, <3>4, <4>1, <4>2
    <3>7. RequestInv'
      BY <2>1, <2>3, <3>6 DEF PreviewInv, RequestInv, Latest
    <3>8. Underway'
      BY <2>1, <2>4, <3>2, <3>3, <3>4 DEF Underway
    <3> QED
      BY <3>5, <3>7, <3>8 DEF PreviewInv, LatestPictureShown
  <2>5. CASE worker.id # generation
    <3>1. closures' = closures
      BY <1>7, <2>5 DEF PostClosure
    <3>2. PreviewTypes' /\ CacheInv'
      BY <2>1, <2>3, <3>1 DEF PreviewInv, PreviewTypes, CacheInv
    <3>3. RequestInv'
      BY <2>1, <2>3, <3>1 DEF PreviewInv, RequestInv, Latest
    <3>4. LatestPictureShown'
      BY <2>1, <2>5, <3>1 DEF PreviewInv, LatestPictureShown, Underway
    <3> QED
      BY <3>2, <3>3, <3>4 DEF PreviewInv
  <2> QED
    BY <2>4, <2>5
<1> QED
  BY <1>3, <1>4, <1>5, <1>6, <1>7

LEMMA InvInit == PreviewInit => PreviewInv
<1> SUFFICES ASSUME PreviewInit PROVE PreviewInv
  OBVIOUS
<1>1. PreviewTypes
  BY EmptySeq DEF PreviewInit, PreviewTypes, WorkerType, Resting
<1>2. CacheInv
  BY EmptySeq DEF PreviewInit, CacheInv, Resting
<1>3. RequestInv
  BY DEF PreviewInit, RequestInv, Resting
<1>4. LatestPictureShown
  BY DEF PreviewInit, LatestPictureShown
<1> QED
  BY <1>1, <1>2, <1>3, <1>4 DEF PreviewInv

\* Whatever order the worker, its loads of the counter and the closures come in, the
\* preview ends up with the picture of the latest request (start_preview_worker), for any
\* number of requests and any size of the cache.
THEOREM PreviewShowsLatest == PreviewSpec => []LatestPictureShown
<1>1. PreviewInit => PreviewInv
  BY InvInit
<1>2. PreviewInv /\ [PreviewNext]_previewVars => PreviewInv'
  <2>1. CASE UNCHANGED previewVars
    BY <2>1 DEF previewVars, PreviewInv, PreviewTypes, CacheInv, RequestInv, Latest, LatestPictureShown, Underway
  <2>2. ASSUME PreviewInv, PreviewNext PROVE PreviewInv'
    BY <2>2, WindowStep, WorkerStep DEF PreviewNext
  <2> QED
    BY <2>1, <2>2
<1>3. PreviewInv => LatestPictureShown
  BY DEF PreviewInv
<1> QED
  BY <1>1, <1>2, <1>3, PTL DEF PreviewSpec
=============================================================================
