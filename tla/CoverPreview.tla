---------------------------- MODULE CoverPreview ----------------------------
(***************************************************************************)
(* The cover preview: the window asks for a picture, a worker thread       *)
(* decodes it, a closure on the event loop shows it.  A counter of         *)
(* requests, read by the worker without a lock between its steps, keeps    *)
(* the answers to earlier requests out; a cache spares the worker the      *)
(* pictures shown lately.  What the window asks for follows from the game  *)
(* the user chooses and from the page the choice is made on.               *)
(***************************************************************************)
EXTENDS Naturals, Sequences

CONSTANTS
  Art,          \* game -> [kind |-> "file" | "embedded" | "none", picture |-> ...]
  Broken,       \* pictures that cannot be decoded
  CacheSize,    \* PreviewCache.capacity, 6 in the code
  MaxRequests   \* bound on preview_generation

VARIABLES
  generation,   \* preview_generation
  shown,        \* the window's cover_preview
  cache,        \* PreviewCache.entries, the oldest first
  queue,        \* the channel to the worker: tasks [id, picture]
  worker,       \* the task the worker is at, with its stage
  closures,     \* closures posted to the event loop: [id, picture]
  wanted,       \* history: what the window is to show in the end
  overtaken     \* history: the preview was blanked while the latest request was under way

previewVars == <<generation, shown, cache, queue, worker, closures, wanted, overtaken>>

NoImage == "no image"
Resting == [stage |-> "rest", id |-> 0, picture |-> NoImage]

PreviewInit ==
  /\ generation = 0 /\ shown = NoImage /\ cache = <<>>
  /\ queue = <<>> /\ worker = Resting /\ closures = <<>>
  /\ wanted = NoImage /\ overtaken = FALSE

Decoded(picture) == IF picture \in Broken THEN NoImage ELSE picture

\* The cache without a picture, which it holds once at most.
Without(pictures, picture) ==
  IF \E i \in DOMAIN pictures : pictures[i] = picture
  THEN LET i == CHOOSE i \in DOMAIN pictures : pictures[i] = picture
       IN SubSeq(pictures, 1, i - 1) \o SubSeq(pictures, i + 1, Len(pictures))
  ELSE pictures

\* PreviewCache::get and insert put the picture at the end; the oldest goes.
Cached(pictures, picture) ==
  LET kept == Append(Without(pictures, picture), picture)
  IN IF Len(kept) > CacheSize THEN Tail(kept) ELSE kept

------------------------------------------------------------------------------
(* The event loop *)

InCache(picture) == \E i \in DOMAIN cache : cache[i] = picture

\* request_preview_source, after the counter moved.
RequestPreview(picture) ==
  /\ wanted' = Decoded(picture)
  /\ IF InCache(picture)
     THEN shown' = picture /\ cache' = Cached(cache, picture) /\ UNCHANGED queue
     ELSE /\ queue' = Append(queue, [id |-> generation + 1, picture |-> picture])
          /\ UNCHANGED <<shown, cache>>

\* set_cover_preview(Image::default())
BlankPreview == shown' = NoImage /\ wanted' = NoImage /\ UNCHANGED <<cache, queue>>

\* Nothing is asked for: a request under way was dropped by the counter.
LeavePreview == wanted' = shown /\ UNCHANGED <<shown, cache, queue>>

\* clear_romx_cover, clear_embedded_cover_choices and each request move the counter.
Counted == generation' = generation + 1 /\ overtaken' = FALSE

\* choose_rom: the preview is blanked, then the covers found are offered.
ChooseOnGamePage(g) ==
  /\ Counted
  /\ IF Art[g].kind = "none" THEN BlankPreview
     ELSE \/ RequestPreview(Art[g].picture)
          \/ BlankPreview                                 \* the inspection failed

\* select_payload_entrypoint: apply_payload_profile offers the covers found.
ChooseEntrypoint(g) ==
  /\ Counted
  /\ IF Art[g].kind = "embedded" THEN RequestPreview(Art[g].picture) ELSE LeavePreview

\* select_lpl_rom and refresh_lpl_preview: the item's cover file, else the covers inside
\* the game.
ChooseInPlaylist(g) ==
  /\ Counted
  /\ IF Art[g].kind # "none" THEN RequestPreview(Art[g].picture)
     ELSE \/ LeavePreview                                 \* a profile without covers
          \/ BlankPreview                                 \* no profile

ChooseGame(g) ==
  /\ generation < MaxRequests
  /\ ChooseOnGamePage(g) \/ ChooseEntrypoint(g) \/ ChooseInPlaylist(g)
  /\ UNCHANGED <<worker, closures>>

\* The latest request is still under way.
Underway ==
  \/ \E i \in DOMAIN queue : queue[i].id = generation
  \/ \E i \in DOMAIN closures : closures[i].id = generation
  \/ worker.stage # "rest" /\ worker.id = generation

\* show_romx_preview: a container without a cover, or one that cannot be read, blanks the
\* preview and leaves the counter alone.
PreviewRomx(g) ==
  /\ \/ /\ Art[g].kind = "embedded" /\ generation < MaxRequests
        /\ Counted /\ RequestPreview(Art[g].picture)
     \/ BlankPreview /\ overtaken' = Underway /\ UNCHANGED generation
  /\ UNCHANGED <<worker, closures>>

\* LplWorkspace::reset drops requests and pictures; the window keeps what it shows.
ResetWorkspace ==
  /\ generation < MaxRequests
  /\ Counted /\ cache' = <<>> /\ wanted' = shown
  /\ UNCHANGED <<shown, queue, worker, closures>>

\* Defect: the closure shows what it has.
IsLatest_Always(id) == TRUE

\* The closure looks at the counter once more.
IsLatest(id) == id = generation

ClosureRuns ==
  /\ closures # <<>>
  /\ shown' = IF IsLatest(Head(closures).id) THEN Decoded(Head(closures).picture) ELSE shown
  /\ closures' = Tail(closures)
  /\ UNCHANGED <<generation, cache, queue, worker, wanted, overtaken>>

------------------------------------------------------------------------------
(* The worker *)

TakeTask ==
  /\ worker.stage = "rest" /\ queue # <<>>
  /\ worker' = IF Head(queue).id = generation
               THEN [stage |-> "decoded", id |-> Head(queue).id, picture |-> Head(queue).picture]
               ELSE Resting
  /\ queue' = Tail(queue)
  /\ UNCHANGED <<generation, shown, cache, closures, wanted, overtaken>>

\* The counter is read before the cache is locked.
CheckDecoded ==
  /\ worker.stage = "decoded"
  /\ worker' = [worker EXCEPT !.stage =
                   IF worker.id = generation /\ worker.picture \notin Broken THEN "insert" ELSE "stored"]
  /\ UNCHANGED <<generation, shown, cache, queue, closures, wanted, overtaken>>

StoreDecoded ==
  /\ worker.stage = "insert"
  /\ cache' = Cached(cache, worker.picture)
  /\ worker' = [worker EXCEPT !.stage = "stored"]
  /\ UNCHANGED <<generation, shown, queue, closures, wanted, overtaken>>

PostClosure ==
  /\ worker.stage = "stored"
  /\ closures' = IF worker.id = generation
                 THEN Append(closures, [id |-> worker.id, picture |-> worker.picture])
                 ELSE closures
  /\ worker' = Resting
  /\ UNCHANGED <<generation, shown, cache, queue, wanted, overtaken>>

PreviewNext ==
  \/ \E g \in DOMAIN Art : ChooseGame(g) \/ PreviewRomx(g)
  \/ ResetWorkspace
  \/ ClosureRuns \/ TakeTask \/ CheckDecoded \/ StoreDecoded \/ PostClosure

PreviewSpec == PreviewInit /\ [][PreviewNext]_previewVars

------------------------------------------------------------------------------
(* What the preview must show *)

\* Whatever order the worker, its loads of the counter and the closures come in, the
\* preview ends up with the picture of the latest request, never with that of an
\* earlier one that was slower (main.rs:236), but for a preview that was blanked without
\* moving the counter (show_romx_preview): the request under way fills it again.
LatestPictureShown == ~Underway /\ ~overtaken => shown = wanted
=============================================================================
