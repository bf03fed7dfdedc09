--------------------------- MODULE RomxCoreProofs ---------------------------
(***************************************************************************)
(* Theorems about the parts of romx-core: WriteEntries, for every request, *)
(* with any number of entries and saves and with any call failing;         *)
(* LibromxCalls, for every size, buffer and answer of libromx; PngCover,   *)
(* for every sequence of chunks; Registry, for every extension and every   *)
(* platform, however often a game is packed and loaded again.              *)
(***************************************************************************)
EXTENDS WriteEntries, LibromxCalls, PngCover, Registry, FiniteSetTheorems, SequenceTheorems,
        WellFoundedInduction, TLAPS

------------------------------------------------------------------------------
(* Writing a container. *)

\* What has been added once the call has come to a step.
Added ==
  CASE step = "region" -> {<<"payload", 0>>}
    [] step = "saves" -> {<<"payload", 0>>} \union (IF request.region THEN {<<"region", 0>>} ELSE {})
    [] step \in {"validate", "publish"} -> Asked

\* Until the stage is published the output is as it was; what is written directly is
\* complete when it holds all that was asked for.
ContentInv ==
  /\ step \in {"prepare", "inputs", "target", "write"} => stage = Nothing /\ output \in {Nothing, Old}
  /\ step \in {"region", "saves", "validate", "publish"} =>
       IF Staged THEN stage = Added /\ output \in {Nothing, Old} ELSE stage = Nothing /\ output = Added

\* What a call that has returned leaves.
DoneInv ==
  IF step = "done"
  THEN /\ stage = Nothing /\ inputs = {} /\ report \in {"ok", "err"}
       /\ Cardinality(stuck) <= 1
       /\ report = "ok" => stuck = {} /\ output = Asked
       /\ report = "err" /\ ~request.temporary => output \in {Nothing, Old}
  ELSE stuck = {} /\ report = "none"

WriteInv ==
  /\ request \in Requests
  /\ step \in {"prepare", "inputs", "target", "write", "region", "saves", "validate", "publish", "done"}
  /\ ContentInv /\ DoneInv

LEMMA RequestFields ==
  ASSUME request \in Requests
  PROVE  /\ request.temporary \in BOOLEAN /\ request.region \in BOOLEAN /\ request.saves \in Nat
         /\ request.capacity \in Nat
BY RequestAssumption

\* A call that stages nothing, and writes to no `.tmp` of its caller, adds the payload alone.
LEMMA DirectIsPayload ==
  ASSUME request \in Requests, ~Staged, ~request.temporary
  PROVE  ~request.region /\ request.saves = 0 /\ Asked = {<<"payload", 0>>}
<1>1. ~request.region /\ request.saves = 0
  BY RequestFields DEF Staged
<1>2. Saves = {}
  BY <1>1 DEF Saves
<1> QED
  BY <1>1, <1>2 DEF Asked

LEMMA WriteInitInv == WriteInit => WriteInv
BY DEF WriteInit, WriteInv, ContentInv, DoneInv

\* A call that ends with an error, before or after something was written.
LEMMA FailInv ==
  ASSUME WriteInv, step # "done", Fail, request' = request, stuck' = stuck,
         request.temporary \/ Staged \/ step = "write"
  PROVE  WriteInv'
<1>1. step' = "done" /\ report' = "err" /\ inputs' = {}
  BY DEF Fail, Finish, EndInputs
<1>2. stuck' = {} /\ Cardinality(stuck') <= 1
  BY FS_EmptySet DEF WriteInv, DoneInv
<1>3. stage' = Nothing
  BY DEF Fail, Drop, WriteInv, ContentInv
<1>4. ASSUME ~request.temporary PROVE output' \in {Nothing, Old}
  BY <1>4 DEF Fail, WriteInv, ContentInv
<1> QED
  BY <1>1, <1>2, <1>3, <1>4 DEF WriteInv, ContentInv, DoneInv

\* A step that adds the next part and goes on.
LEMMA AddInv ==
  ASSUME WriteInv, NEW parts, Add(parts), parts \intersect Old = {},
         request' = request, stuck' = stuck, report' = report,
         step \in {"write", "region", "saves"}, step' \in {"region", "saves", "validate"},
         step = "write" => parts = Added',
         step # "write" => Added' = Added \union parts /\ Added \intersect Old = {}
  PROVE  WriteInv'
<1>1. Staged' = Staged /\ Asked' = Asked
  BY DEF Staged, Asked, Saves
<1>2. DoneInv'
  BY DEF WriteInv, DoneInv
<1>3. CASE Staged
  BY <1>1, <1>2, <1>3 DEF Add, WriteInv, ContentInv, Nothing
<1>4. CASE ~Staged
  <2>1. stage' = Nothing
    BY <1>4 DEF Add, WriteInv, ContentInv
  <2>2. output' = Added'
    BY <1>4 DEF Add, WriteInv, ContentInv, Nothing
  <2> QED
    BY <1>1, <1>2, <1>4, <2>1, <2>2 DEF WriteInv, ContentInv
<1> QED
  BY <1>3, <1>4

LEMMA WriteStep ==
  ASSUME WriteInv, [WriteNext]_writeVars
  PROVE  WriteInv'
<1>1. CASE UNCHANGED writeVars
  BY <1>1 DEF writeVars, WriteInv, ContentInv, DoneInv, Added, Staged, Asked, Saves
<1>2. CASE Prepare
  <2>1. /\ request' = request /\ UNCHANGED <<stuck, stage, output>> /\ stuck = {}
        /\ stage = Nothing /\ output \in {Nothing, Old}
    BY <1>2 DEF Prepare, WriteInv, ContentInv, DoneInv
  <2>2. CASE step' = "inputs" /\ report' = report
    BY <1>2, <2>1, <2>2 DEF Prepare, WriteInv, ContentInv, DoneInv
  <2>3. CASE Finish("err")
    BY <2>1, <2>3, FS_EmptySet DEF Finish, EndInputs, WriteInv, ContentInv, DoneInv
  <2> QED
    BY <1>2, <2>2, <2>3 DEF Prepare
<1>3. CASE CreateInput
  <2>1. /\ request' = request /\ UNCHANGED <<stage, output>> /\ stuck = {} /\ report = "none"
        /\ stage = Nothing /\ output \in {Nothing, Old} /\ step = "inputs"
    BY <1>3 DEF CreateInput, WriteInv, ContentInv, DoneInv
  <2>2. CASE step' \in {"inputs", "target"} /\ report' = report /\ stuck' = stuck
    BY <2>1, <2>2 DEF WriteInv, ContentInv, DoneInv
  <2>3. ASSUME NEW i, Finish("err"), stuck' \in {stuck, stuck \union {i}} PROVE WriteInv'
    <3>1. stuck' = {} \/ stuck' = {i}
      BY <2>1, <2>3
    <3>2. Cardinality({}) = 0 /\ Cardinality({i}) = 1
      BY FS_EmptySet, FS_Singleton, Zenon
    <3>3. Cardinality(stuck') <= 1
      BY <3>1, <3>2
    <3> QED
      BY <2>1, <2>3, <3>3 DEF Finish, EndInputs, WriteInv, ContentInv, DoneInv
  <2> QED
    BY <1>3, <2>1, <2>2, <2>3 DEF CreateInput
<1>4. CASE ChooseTarget
  <2>1. /\ request' = request /\ UNCHANGED <<stuck, stage, output>> /\ stuck = {} /\ report = "none"
        /\ stage = Nothing /\ output \in {Nothing, Old}
    BY <1>4 DEF ChooseTarget, WriteInv, ContentInv, DoneInv
  <2>2. CASE step' = "write" /\ report' = report
    BY <2>1, <2>2 DEF WriteInv, ContentInv, DoneInv
  <2>3. CASE Finish("err")
    BY <2>1, <2>3, FS_EmptySet DEF Finish, EndInputs, WriteInv, ContentInv, DoneInv
  <2> QED
    BY <1>4, <2>2, <2>3 DEF ChooseTarget
<1>5. CASE WriteContainer
  <2>1. step = "write" /\ request' = request /\ stuck' = stuck
    BY <1>5 DEF WriteContainer
  <2>2. CASE Add({<<"payload", 0>>}) /\ step' = "region" /\ report' = report
    <3>1. {<<"payload", 0>>} \intersect Old = {}
      BY DEF Old
    <3>2. Added' = {<<"payload", 0>>}
      BY <2>2 DEF Added
    <3> QED
      BY <2>1, <2>2, <3>1, <3>2, AddInv
  <2>3. CASE Fail
    BY <2>1, <2>3, FailInv
  <2> QED
    BY <1>5, <2>2, <2>3 DEF WriteContainer
<1>6. CASE CopyRegion
  <2>1. step = "region" /\ request' = request /\ stuck' = stuck
    BY <1>6 DEF CopyRegion
  <2>2. Added = {<<"payload", 0>>} /\ Added \intersect Old = {}
    BY <2>1 DEF Added, Old
  <2>3. CASE ~request.region /\ step' = "saves" /\ UNCHANGED <<inputs, report, stage, output>>
    <3>1. Added' = Added
      BY <2>1, <2>2, <2>3 DEF Added
    <3> QED
      BY <2>1, <2>3, <3>1 DEF WriteInv, ContentInv, DoneInv, Staged
  <2>4. CASE request.region /\ Add({<<"region", 0>>}) /\ step' = "saves" /\ UNCHANGED <<inputs, report>>
    <3>1. Added' = Added \union {<<"region", 0>>}
      BY <2>1, <2>2, <2>4 DEF Added
    <3>2. {<<"region", 0>>} \intersect Old = {}
      BY DEF Old
    <3> QED
      BY <2>1, <2>2, <2>4, <3>1, <3>2, AddInv
  <2>5. CASE request.region /\ Fail
    <3>1. request.temporary \/ Staged
      BY <2>5, DirectIsPayload DEF WriteInv
    <3> QED
      BY <2>1, <2>5, <3>1, FailInv
  <2> QED
    BY <1>6, <2>3, <2>4, <2>5 DEF CopyRegion
<1>7. CASE WriteSaves
  <2>1. step = "saves" /\ request' = request /\ stuck' = stuck /\ Asked' = Asked
    BY <1>7 DEF WriteSaves, Asked, Saves
  <2>2. Added = {<<"payload", 0>>} \union (IF request.region THEN {<<"region", 0>>} ELSE {})
    BY <2>1 DEF Added
  <2>3. Asked = Added \union Saves
    BY <2>2 DEF Asked
  <2>4. Added \intersect Old = {} /\ Saves \intersect Old = {}
    BY <2>2 DEF Old, Saves
  <2>5. step' = "validate" => Added' = Added \union Saves
    BY <2>1, <2>3 DEF Added
  <2>6. CASE request.saves = 0 /\ step' = "validate" /\ UNCHANGED <<inputs, report, stage, output>>
    <3>1. Added' = Added
      BY <2>5, <2>6 DEF Saves
    <3> QED
      BY <2>1, <2>6, <3>1 DEF WriteInv, ContentInv, DoneInv, Staged
  <2>7. CASE Add(Saves) /\ step' = "validate" /\ UNCHANGED <<inputs, report>>
    BY <2>1, <2>4, <2>5, <2>7, AddInv
  <2>8. CASE request.saves > 0 /\ Fail
    <3>1. request.temporary \/ Staged
      BY <2>8, DirectIsPayload DEF WriteInv
    <3> QED
      BY <2>1, <2>8, <3>1, FailInv
  <2> QED
    BY <1>7, <2>6, <2>7, <2>8 DEF WriteSaves
<1>8. CASE ValidateStage
  <2>1. step = "validate" /\ request' = request /\ stuck' = stuck /\ Asked' = Asked
    BY <1>8 DEF ValidateStage, Asked, Saves
  <2>2. CASE step' = "publish" /\ UNCHANGED <<inputs, report, stage, output>>
    <3>1. Added' = Added
      BY <2>1, <2>2 DEF Added
    <3> QED
      BY <2>1, <2>2, <3>1 DEF WriteInv, ContentInv, DoneInv, Staged
  <2>3. CASE Staged /\ Fail
    BY <2>1, <2>3, FailInv
  <2> QED
    BY <1>8, <2>2, <2>3 DEF ValidateStage
<1>9. CASE Publish
  <2>1. step = "publish" /\ request' = request /\ stuck' = stuck /\ Asked' = Asked /\ stuck = {}
    BY <1>9 DEF Publish, PublishReady, Asked, Saves, WriteInv, DoneInv
  <2>2. Added = Asked
    BY <2>1 DEF Added
  <2>3. CASE Staged /\ Fail
    BY <2>1, <2>3, FailInv
  <2>4. CASE Finish("ok") /\ stage' = Nothing /\ output' = Asked
    BY <2>1, <2>4, FS_EmptySet DEF Finish, EndInputs, WriteInv, ContentInv, DoneInv
  <2>5. CASE ~Staged /\ Finish("ok") /\ UNCHANGED <<stage, output>>
    BY <2>1, <2>2, <2>4, <2>5 DEF WriteInv, ContentInv
  <2>6. CASE Staged /\ output' = stage /\ stage' = Nothing /\ Finish("ok")
    BY <2>1, <2>2, <2>4, <2>6 DEF WriteInv, ContentInv
  <2> QED
    BY <1>9, <2>3, <2>5, <2>6 DEF Publish
<1> QED
  BY <1>1, <1>2, <1>3, <1>4, <1>5, <1>6, <1>7, <1>8, <1>9 DEF WriteNext

LEMMA WriteAlways == WriteSpec => []WriteInv
BY WriteInitInv, WriteStep, PTL DEF WriteSpec

\* An output path never shows a container that lacks part of what was asked for
\* (write_path_entries stages what it adds to), and Ok means that all of it is there.
THEOREM OutputAlwaysComplete == WriteSpec => []OutputComplete
<1>1. WriteInv => OutputComplete
  <2> SUFFICES ASSUME WriteInv PROVE OutputComplete
    OBVIOUS
  <2>1. ASSUME ~request.temporary PROVE output \in {Nothing, Old, Asked}
    <3>1. CASE step \in {"region", "saves", "validate", "publish"} /\ ~Staged
      <4>1. output = Added
        BY <3>1 DEF WriteInv, ContentInv
      <4>2. ~request.region /\ Asked = {<<"payload", 0>>}
        BY <2>1, <3>1, DirectIsPayload DEF WriteInv
      <4>3. Added = Asked
        BY <3>1, <4>2 DEF Added
      <4> QED
        BY <4>1, <4>3
    <3>2. CASE ~(step \in {"region", "saves", "validate", "publish"} /\ ~Staged)
      BY <2>1, <3>2 DEF WriteInv, ContentInv, DoneInv
    <3> QED
      BY <3>1, <3>2
  <2>2. report = "ok" => output = Asked
    BY DEF WriteInv, DoneInv
  <2> QED
    BY <2>1, <2>2 DEF OutputComplete
<1> QED
  BY <1>1, WriteAlways, PTL

\* A call that fails leaves the output as it was, whichever step failed, but for a
\* caller's own `.tmp`, and at most one input outlives it (Drop of StagedOutput and
\* TempInput).
THEOREM FailureAlwaysLeavesNothing == WriteSpec => []FailureLeavesNothing
<1>1. WriteInv => FailureLeavesNothing
  BY DEF WriteInv, DoneInv, FailureLeavesNothing
<1> QED
  BY <1>1, WriteAlways, PTL

------------------------------------------------------------------------------
(* The order of the entries.  That the entries can be sorted at all is an *)
(* induction over their number, done as the search for a least number of  *)
(* entries that cannot be: a sorted arrangement takes one entry more.     *)

\* A set of numbers has a least one.
LEMMA LeastNumber ==
  ASSUME NEW T, T \subseteq Nat, T # {}
  PROVE  \E m \in T : \A k \in T : m <= k
<1> DEFINE R == {ss \in Nat \X Nat : ss[1] < ss[2]}
<1>1. IsWellFoundedOn(R, Nat)
  BY NatLessThanWellFounded DEF OpToRel
<1> HIDE DEF R
<1>2. PICK m \in T : \A k \in T : ~ (<<k, m>> \in R)
  BY <1>1, WFMin
<1> SUFFICES ASSUME NEW k \in T PROVE m <= k
  OBVIOUS
<1>3. m \in Nat /\ k \in Nat /\ <<k, m>> \notin R
  BY <1>2
<1>4. ~(k < m)
  BY <1>3 DEF R
<1> QED
  BY <1>3, <1>4

\* Entries can be compared: Precedes is a strict order of classes of equals.
LEMMA PrecedesOrder ==
  ASSUME NEW x \in Entries, NEW y \in Entries, NEW z \in Entries
  PROVE  /\ ~Precedes(x, y) \/ ~Precedes(y, x)
         /\ ~Precedes(y, x) /\ ~Precedes(z, y) => ~Precedes(z, x)
<1>1. /\ x.path[1] \in Nat /\ x.path[2] \in Nat /\ x.entrypoint \in BOOLEAN
      /\ y.path[1] \in Nat /\ y.path[2] \in Nat /\ y.entrypoint \in BOOLEAN
      /\ z.path[1] \in Nat /\ z.path[2] \in Nat /\ z.entrypoint \in BOOLEAN
  BY DEF Entries
<1> QED
  BY <1>1 DEF Precedes, Before

\* A sorted arrangement of the first k entries.
InOrder(s, k, p) ==
  p \in Bijection(1..k, 1..k) /\ \A i, j \in 1..k : i < j => ~Precedes(s[p[j]], s[p[i]])

\* One entry more goes before the first of those that it precedes.
LEMMA Insertion ==
  ASSUME NEW s \in Seq(Entries), NEW k \in Nat, k + 1 <= Len(s), NEW p, InOrder(s, k, p)
  PROVE  \E r : InOrder(s, k + 1, r)
<1> DEFINE new == s[k + 1]
           J == {j \in 1..k : Precedes(new, s[p[j]])}
<1>1. \A i \in 1..(k + 1) : s[i] \in Entries
  <2>1. Len(s) \in Nat /\ s \in [1..Len(s) -> Entries]
    OBVIOUS
  <2> QED
    BY <2>1
<1>2. /\ p \in [1..k -> 1..k] /\ (\A i, j \in 1..k : p[i] = p[j] => i = j)
      /\ \A t \in 1..k : \E i \in 1..k : p[i] = t
  BY DEF InOrder, Bijection, Injection, Surjection, IsInjective
<1>3. \A i, j \in 1..k : i < j => ~Precedes(s[p[j]], s[p[i]])
  BY DEF InOrder
<1>4. PICK q \in 1..(k + 1) :
        /\ \A i \in 1..k : i < q => ~Precedes(new, s[p[i]])
        /\ \A i \in 1..k : q <= i => ~Precedes(s[p[i]], new)
  <2>1. CASE J = {}
    BY <2>1
  <2>2. CASE J # {}
    <3>0. J \subseteq Nat /\ J \subseteq 1..k
      OBVIOUS
    <3>1. PICK q \in J : \A j \in J : q <= j
      <4> HIDE DEF J
      <4> QED
        BY <2>2, <3>0, LeastNumber, Zenon
    <3>2. \A i \in 1..k : i < q => ~Precedes(new, s[p[i]])
      BY <3>1
    <3>3. ASSUME NEW i \in 1..k, q <= i PROVE ~Precedes(s[p[i]], new)
      <4>1. Precedes(new, s[p[q]]) /\ q \in 1..k
        BY <3>1
      <4>2. s[p[q]] \in Entries /\ s[p[i]] \in Entries /\ new \in Entries
        <5>1. p[q] \in 1..k /\ p[i] \in 1..k /\ k + 1 \in 1..(k + 1) /\ 1..k \subseteq 1..(k + 1)
          <6>1. p[q] \in 1..k /\ p[i] \in 1..k
            BY <1>2, <4>1
          <6> QED
            BY <6>1
        <5> HIDE DEF J
        <5> QED
          BY <1>1, <5>1
      <4>3. ~Precedes(s[p[q]], new)
        BY <4>1, <4>2, PrecedesOrder
      <4>4. CASE q = i
        BY <4>3, <4>4
      <4>5. CASE q < i
        <5>1. ~Precedes(s[p[i]], s[p[q]])
          BY <1>3, <4>1, <4>5
        <5> QED
          BY <4>2, <4>3, <5>1, PrecedesOrder
      <4> QED
        BY <3>3, <4>1, <4>4, <4>5
    <3>4. q \in 1..(k + 1)
      BY <3>0, <3>1
    <3> HIDE DEF J, new
    <3> QED
      BY <3>2, <3>3, <3>4
  <2> QED
    BY <2>1, <2>2
<1> DEFINE r == [i \in 1..(k + 1) |-> IF i < q THEN p[i] ELSE IF i = q THEN k + 1 ELSE p[i - 1]]
<1> HIDE DEF new, J
<1>5. \A i \in 1..(k + 1) :
        /\ i < q => i \in 1..k /\ r[i] = p[i]
        /\ i = q => r[i] = k + 1
        /\ q < i => i - 1 \in 1..k /\ r[i] = p[i - 1]
  OBVIOUS
<1>6. r \in [1..(k + 1) -> 1..(k + 1)]
  <2>1. \A i \in 1..(k + 1) : r[i] \in 1..(k + 1)
    <3> HIDE DEF r
    <3> SUFFICES ASSUME NEW i \in 1..(k + 1) PROVE r[i] \in 1..(k + 1)
      OBVIOUS
    <3>1. \A j \in 1..k : p[j] \in 1..(k + 1)
      BY <1>2
    <3>2. i < q \/ i = q \/ q < i
      OBVIOUS
    <3>3. k + 1 \in 1..(k + 1)
      OBVIOUS
    <3> QED
      BY <1>5, <3>1, <3>2, <3>3
  <2>2. r = [i \in 1..(k + 1) |-> r[i]]
    OBVIOUS
  <2> HIDE DEF r
  <2> QED
    BY <2>1, <2>2
<1> HIDE DEF r
<1>7. \A i, j \in 1..(k + 1) : r[i] = r[j] => i = j
  <2> SUFFICES ASSUME NEW i \in 1..(k + 1), NEW j \in 1..(k + 1), r[i] = r[j] PROVE i = j
    OBVIOUS
  <2> DEFINE a == IF i < q THEN i ELSE i - 1
             b == IF j < q THEN j ELSE j - 1
  <2>1. i # q => a \in 1..k /\ r[i] = p[a] /\ p[a] \in 1..k
    BY <1>2, <1>5
  <2>2. j # q => b \in 1..k /\ r[j] = p[b] /\ p[b] \in 1..k
    BY <1>2, <1>5
  <2>3. (i = q => r[i] = k + 1) /\ (j = q => r[j] = k + 1)
    BY <1>5
  <2>4. CASE i # q /\ j # q
    <3>1. a = b
      BY <1>2, <2>1, <2>2, <2>4
    <3> QED
      BY <2>4, <3>1
  <2>5. CASE i = q \/ j = q
    <3> HIDE DEF a, b
    <3> QED
      BY <2>1, <2>2, <2>3, <2>5
  <2> QED
    BY <2>4, <2>5
<1>8. ASSUME NEW t \in 1..(k + 1) PROVE \E i \in 1..(k + 1) : r[i] = t
  <2>1. CASE t = k + 1
    BY <1>5, <2>1
  <2>2. CASE t \in 1..k
    <3>1. PICK i \in 1..k : p[i] = t
      BY <1>2, <2>2
    <3>2. CASE i < q
      <4>1. i \in 1..(k + 1)
        OBVIOUS
      <4> QED
        BY <1>5, <3>1, <3>2, <4>1
    <3>3. CASE q <= i
      <4>1. i + 1 \in 1..(k + 1) /\ q < i + 1 /\ (i + 1) - 1 = i
        BY <3>3
      <4> QED
        BY <1>5, <3>1, <4>1
    <3> QED
      BY <3>2, <3>3
  <2> QED
    BY <2>1, <2>2
<1>9. ASSUME NEW i \in 1..(k + 1), NEW j \in 1..(k + 1), i < j PROVE ~Precedes(s[r[j]], s[r[i]])
  <2>1. CASE j < q
    BY <1>3, <1>5, <1>9, <2>1
  <2>2. CASE j = q
    BY <1>4, <1>5, <1>9, <2>2 DEF new
  <2>3. CASE q < j
    <3>1. j - 1 \in 1..k /\ r[j] = p[j - 1] /\ q <= j - 1
      BY <1>5, <2>3
    <3>2. CASE i < q
      <4>1. i \in 1..k /\ r[i] = p[i] /\ i < j - 1
        BY <1>5, <3>1, <3>2
      <4> QED
        BY <1>3, <3>1, <4>1
    <3>3. CASE i = q
      BY <1>4, <1>5, <3>1, <3>3 DEF new
    <3>4. CASE q < i
      <4>1. i - 1 \in 1..k /\ r[i] = p[i - 1] /\ i - 1 < j - 1
        BY <1>5, <1>9, <3>4
      <4> QED
        BY <1>3, <3>1, <4>1
    <3> QED
      BY <3>2, <3>3, <3>4
  <2> QED
    BY <2>1, <2>2, <2>3
<1>10. InOrder(s, k + 1, r)
  BY <1>6, <1>7, <1>8, <1>9 DEF InOrder, Bijection, Injection, Surjection, IsInjective
<1> QED
  BY <1>10

\* All entries can be arranged.
LEMMA AllInOrder ==
  ASSUME NEW s \in Seq(Entries)
  PROVE  \E p : InOrder(s, Len(s), p)
<1> DEFINE Unsorted == {k \in 0..Len(s) : ~\E p : InOrder(s, k, p)}
<1>1. Len(s) \in Nat
  OBVIOUS
<1>2. InOrder(s, 0, [i \in 1..0 |-> i])
  BY DEF InOrder, Bijection, Injection, Surjection, IsInjective
<1>3. Unsorted = {}
  <2> SUFFICES ASSUME Unsorted # {} PROVE FALSE
    OBVIOUS
  <2>0. Unsorted \subseteq Nat
    BY <1>1
  <2>1. PICK m \in Unsorted : \A k \in Unsorted : m <= k
    <3> HIDE DEF Unsorted
    <3> QED
      BY <2>0, LeastNumber, Zenon
  <2>2. m # 0
    BY <1>2, <2>1
  <2>3. m - 1 \in 0..Len(s) /\ m - 1 \notin Unsorted /\ (m - 1) + 1 = m /\ m <= Len(s) /\ m - 1 \in Nat
    BY <1>1, <2>1, <2>2
  <2>4. PICK p : InOrder(s, m - 1, p)
    BY <2>3
  <2>5. \E r : InOrder(s, m, r)
    <3> DEFINE k == m - 1
    <3>1. k \in Nat /\ k + 1 = m /\ k + 1 <= Len(s) /\ InOrder(s, k, p)
      BY <2>3, <2>4
    <3> HIDE DEF k
    <3> QED
      BY <3>1, Insertion
  <2> QED
    BY <2>1, <2>5
<1> QED
  BY <1>1, <1>3

\* The order of the entries exists, so that Normalized is one of their orders, and sorted.
LEMMA NormalizedIsSorted ==
  ASSUME request.entries \in Seq(Entries)
  PROVE  Normalized \in Orders(request.entries) /\ Sorted(Normalized)
<1> DEFINE s == request.entries
           n == Len(s)
<1>1. n \in Nat /\ DOMAIN s = 1..n
  OBVIOUS
<1>2. PICK p : InOrder(s, n, p)
  BY AllInOrder
<1> HIDE DEF s, n
<1> DEFINE o == [i \in DOMAIN s |-> s[p[i]]]
<1>3. o \in Orders(s)
  BY <1>1, <1>2 DEF InOrder, Orders
<1>4. Sorted(o)
  <2>1. Len(o) = n
    BY <1>1
  <2> SUFFICES ASSUME NEW i \in 1..(n - 1) PROVE ~Precedes(o[i + 1], o[i])
    BY <2>1 DEF Sorted
  <2>2. i \in 1..n /\ i + 1 \in 1..n /\ i < i + 1
    BY <1>1
  <2>3. o[i] = s[p[i]] /\ o[i + 1] = s[p[i + 1]]
    BY <1>1, <2>2
  <2> QED
    BY <1>2, <2>2, <2>3 DEF InOrder
<1> HIDE DEF o
<1> QED
  BY <1>3, <1>4 DEF Normalized, s

\* What is accepted and sorted has its entrypoint first, and no two paths that are equal.
LEMMA NormalizedInOrder ==
  ASSUME request.entries \in Seq(Entries), Acceptable, order' = Normalized
  PROVE  EntriesInOrder'
<1> DEFINE s == request.entries
           n == Len(s)
           o == Normalized
<1>1. n \in Nat /\ DOMAIN s = 1..n /\ \A i \in 1..n : s[i] \in Entries
  OBVIOUS
<1>2. o \in Orders(s) /\ Sorted(o)
  BY NormalizedIsSorted
<1>3. /\ \A i \in 1..n : s[i].format # "unknown"
      /\ Cardinality({i \in 1..n : s[i].entrypoint}) = 1
      /\ \A i \in 1..(n - 1) : o[i].path[2] # o[i + 1].path[2]
  BY DEF Acceptable, Collides
<1> HIDE DEF s, n, o
<1>4. PICK p \in Bijection(1..n, 1..n) : o = [i \in 1..n |-> s[p[i]]]
  BY <1>1, <1>2 DEF Orders
<1>5. Len(o) = n /\ \A i \in 1..n : p[i] \in 1..n /\ o[i] = s[p[i]] /\ o[i] \in Entries
  <2>1. p \in [1..n -> 1..n]
    BY <1>4 DEF Bijection, Injection
  <2>2. Len(o) = n
    BY <1>1, <1>4
  <2> QED
    BY <1>1, <1>4, <2>1, <2>2
<1>6. PICK e : {i \in 1..n : s[i].entrypoint} = {e}
  <2> DEFINE E == {i \in 1..n : s[i].entrypoint}
  <2>1. IsFiniteSet(E)
    <3>1. IsFiniteSet(1..n)
      BY <1>1, FS_Interval
    <3>2. E \subseteq 1..n
      OBVIOUS
    <3> QED
      BY <3>1, <3>2, FS_Subset
  <2>2. Cardinality(E) = 1
    BY <1>3
  <2> HIDE DEF E
  <2>3. \E e : E = {e}
    BY <2>1, <2>2, FS_Singleton, Zenon
  <2> QED
    BY <2>3 DEF E
<1>7. e \in 1..n /\ s[e].entrypoint /\ \A i \in 1..n : s[i].entrypoint => i = e
  BY <1>6
<1>8. \A i, j \in 1..n : p[i] = p[j] => i = j
  BY <1>4 DEF Bijection, Injection, IsInjective
<1>9. \A i \in 1..(n - 1) : ~Precedes(o[i + 1], o[i])
  BY <1>2, <1>5 DEF Sorted
<1>10. PICK k \in 1..n : p[k] = e
  BY <1>4, <1>7 DEF Bijection, Surjection
<1>11. k = 1
  <2> SUFFICES ASSUME k # 1 PROVE FALSE
    OBVIOUS
  <2>1. k - 1 \in 1..(n - 1) /\ k - 1 \in 1..n /\ (k - 1) + 1 = k
    BY <1>1
  <2>2. ~Precedes(o[k], o[k - 1])
    BY <1>9, <2>1
  <2>3. o[k].entrypoint
    BY <1>5, <1>7, <1>10
  <2>4. o[k - 1].entrypoint
    BY <2>2, <2>3 DEF Precedes
  <2>5. p[k - 1] = e
    BY <1>5, <1>7, <2>1, <2>4
  <2> QED
    BY <1>8, <1>10, <2>1, <2>5
<1>12. 1 \in 1..n /\ o[1].entrypoint
  BY <1>5, <1>7, <1>10, <1>11
<1>13. ASSUME NEW i \in 2..n PROVE ~o[i].entrypoint /\ o[i].format # "unknown"
  <2>1. i \in 1..n /\ i # 1
    BY <1>1
  <2>2. p[i] # e
    BY <1>8, <1>10, <1>11, <2>1
  <2> QED
    BY <1>3, <1>5, <1>7, <2>1, <2>2
<1>14. ASSUME NEW i \in 2..(n - 1) PROVE Before(o[i].path, o[i + 1].path)
  <2>1. i \in 1..(n - 1) /\ i \in 2..n /\ i + 1 \in 2..n /\ i \in 1..n /\ i + 1 \in 1..n
    BY <1>1
  <2>2. ~o[i].entrypoint /\ ~o[i + 1].entrypoint
    BY <1>13, <2>1
  <2>3. o[i] \in Entries /\ o[i + 1] \in Entries
    BY <1>5, <2>1
  <2>4. o[i].path \in Nat \X Nat /\ o[i + 1].path \in Nat \X Nat
    BY <2>3 DEF Entries
  <2>5. o[i].entrypoint \in BOOLEAN /\ o[i + 1].entrypoint \in BOOLEAN
    BY <2>3 DEF Entries
  <2>6. ~Precedes(o[i + 1], o[i]) /\ o[i].path[2] # o[i + 1].path[2]
    BY <1>3, <1>9, <2>1
  <2>7. ~Before(o[i + 1].path, o[i].path)
    BY <2>2, <2>5, <2>6 DEF Precedes
  <2>8. ASSUME NEW x \in Nat \X Nat, NEW y \in Nat \X Nat, x[2] # y[2], ~Before(y, x) PROVE Before(x, y)
    BY <2>8 DEF Before
  <2> QED
    BY <2>4, <2>6, <2>7, <2>8
<1> QED
  BY <1>5, <1>12, <1>13, <1>14 DEF EntriesInOrder, o

\* libromx gets the entries in the order that the format asks for (writer.rs, sort_by):
\* for every set of entries that is accepted, of whatever size.
THEOREM EntriesAlwaysInOrder == WriteSpec => []EntriesInOrder
<1> DEFINE Inv == request \in Requests /\ EntriesInOrder
<1>1. WriteInit => Inv
  BY DEF WriteInit, EntriesInOrder
<1>2. Inv /\ [WriteNext]_writeVars => Inv'
  <2> SUFFICES ASSUME Inv, [WriteNext]_writeVars PROVE Inv'
    OBVIOUS
  <2>1. request' = request
    BY DEF WriteNext, writeVars, Prepare, CreateInput, ChooseTarget, WriteContainer, CopyRegion, WriteSaves,
           ValidateStage, Publish
  <2>2. request.entries \in Seq(Entries)
    BY RequestAssumption
  <2>3. ASSUME order' = order PROVE EntriesInOrder'
    BY <2>3, Zenon DEF EntriesInOrder
  <2>4. ASSUME Acceptable /\ order' = Normalized PROVE EntriesInOrder'
    BY <2>2, <2>4, NormalizedInOrder
  <2>5. order' = order \/ (Acceptable /\ order' = Normalized)
    BY DEF WriteNext, writeVars, Prepare, CreateInput, ChooseTarget, WriteContainer, CopyRegion, WriteSaves,
           ValidateStage, Publish
  <2> QED
    BY <2>1, <2>3, <2>4, <2>5
<1> QED
  BY <1>1, <1>2, PTL DEF WriteSpec

------------------------------------------------------------------------------
(* Calls to libromx. *)

LEMMA BytesIsSeq ==
  ASSUME NEW first \in Nat, NEW n \in Nat
  PROVE  Bytes(first, n) \in Seq(Nat) /\ Len(Bytes(first, n)) = n
<1> DEFINE s == Bytes(first, n)
<1>1. s \in [1..n -> Nat]
  BY DEF Bytes
<1> HIDE DEF s
<1>2. s \in Seq(Nat)
  BY <1>1, SeqDef
<1>3. Len(s) \in Nat /\ 1..Len(s) = 1..n
  BY <1>1, <1>2, LenProperties
<1>4. Len(s) = n
  BY <1>3
<1> QED
  BY <1>2, <1>4 DEF s

\* What is read in two rounds is what one round would have read.
LEMMA BytesConcat ==
  ASSUME NEW a \in Nat, NEW n \in Nat
  PROVE  Bytes(0, a) \o Bytes(a, n) = Bytes(0, a + n)
<1> DEFINE s == Bytes(0, a)
           t == Bytes(a, n)
           u == Bytes(0, a + n)
<1>1. s \in Seq(Nat) /\ Len(s) = a /\ t \in Seq(Nat) /\ Len(t) = n /\ u \in Seq(Nat) /\ Len(u) = a + n
  <2>1. 0 \in Nat /\ a + n \in Nat
    OBVIOUS
  <2>2. s \in Seq(Nat) /\ Len(s) = a
    BY <2>1, BytesIsSeq
  <2>3. t \in Seq(Nat) /\ Len(t) = n
    BY BytesIsSeq
  <2>4. u \in Seq(Nat) /\ Len(u) = a + n
    BY <2>1, BytesIsSeq
  <2> QED
    BY <2>2, <2>3, <2>4
<1>2. /\ \A k \in 1..a : s[k] = k
      /\ \A k \in 1..n : t[k] = a + k
      /\ \A k \in 1..a + n : u[k] = k
  BY DEF Bytes
<1> HIDE DEF s, t, u
<1>3. /\ s \o t \in Seq(Nat) /\ Len(s \o t) = Len(s) + Len(t)
      /\ \A i \in 1..Len(s) + Len(t) : (s \o t)[i] = IF i <= Len(s) THEN s[i] ELSE t[i - Len(s)]
  BY <1>1, ConcatProperties
<1>4. Len(s \o t) = Len(u)
  BY <1>1, <1>3
<1>5. ASSUME NEW i \in 1..Len(u) PROVE (s \o t)[i] = u[i]
  <2>1. i \in 1..a + n /\ (s \o t)[i] = IF i <= a THEN s[i] ELSE t[i - a]
    BY <1>1, <1>3
  <2>2. CASE i <= a
    BY <1>2, <2>1, <2>2
  <2>3. CASE i > a
    <3>1. i - a \in 1..n
      BY <2>1, <2>3
    <3> QED
      BY <1>2, <2>1, <2>3, <3>1
  <2> QED
    BY <2>1, <2>2, <2>3
<1>6. s \o t = u
  BY <1>1, <1>3, <1>4, <1>5, SeqEqual
<1> QED
  BY <1>6 DEF s, t, u

LEMMA BytesAppend ==
  ASSUME NEW a \in Nat
  PROVE  Append(Bytes(0, a), a + 1) = Bytes(0, a + 1)
<1> DEFINE s == Bytes(0, a)
           u == Bytes(0, a + 1)
<1>1. s \in Seq(Nat) /\ Len(s) = a /\ u \in Seq(Nat) /\ Len(u) = a + 1
  <2>1. a + 1 \in Nat
    OBVIOUS
  <2> QED
    BY <2>1, BytesIsSeq
<1>2. (\A k \in 1..a : s[k] = k) /\ (\A k \in 1..a + 1 : u[k] = k)
  BY DEF Bytes
<1> HIDE DEF s, u
<1>3. /\ Append(s, a + 1) \in Seq(Nat) /\ Len(Append(s, a + 1)) = Len(s) + 1
      /\ \A i \in 1..Len(s) : Append(s, a + 1)[i] = s[i]
      /\ Append(s, a + 1)[Len(s) + 1] = a + 1
  BY <1>1, AppendProperties
<1>4. \A i \in 1..Len(u) : Append(s, a + 1)[i] = u[i]
  BY <1>1, <1>2, <1>3
<1>5. Append(s, a + 1) = u
  BY <1>1, <1>3, <1>4, SeqEqual
<1> QED
  BY <1>5 DEF s, u

\* Nothing has been collected before the first call, and a text or a cursor collects at
\* the end only.
CallsInv ==
  /\ call \in {"none", "sought"} \union Streams \union Lists \union Texts \union Cursors
  /\ size \in Nat /\ offset \in Nat
  /\ returned \in {"none", "ok", "err"}
  /\ call = "none" => offset = 0 /\ sink = <<>> /\ returned = "none"
  /\ call \in Texts \union Cursors /\ returned = "none" => sink = <<>>
  /\ ReadsExact

LEMMA CallsInitInv == CallsInit => CallsInv
BY DEF CallsInit, CallsInv, ReadsExact, Streams, Lists, Texts, Cursors

LEMMA OpenInv ==
  ASSUME CallsInv, NEW n \in Nat, NEW kind \in Streams \union Lists \union Texts \union Cursors,
         OpenHandle(kind, n)
  PROVE  CallsInv'
<1>1. /\ call' = kind /\ offset' = 0 /\ sink' = <<>> /\ returned' \in {"none", "err"}
      /\ size' \in Nat
  BY DEF OpenHandle, CallsInv
<1>2. Bytes(0, 0) = <<>>
  BY DEF Bytes
<1> QED
  BY <1>1, <1>2 DEF CallsInv, ReadsExact, Streams, Lists, Texts, Cursors

LEMMA ReadRoundInv ==
  ASSUME CallsInv, NEW kind \in Streams, ReadRound(kind)
  PROVE  CallsInv'
<1>1. call = kind /\ call' = call /\ returned = "none" /\ size' = size
  BY DEF ReadRound, Running, GiveBack, Continue
<1>2. sink = Bytes(0, offset) /\ offset <= size /\ size \in Nat /\ offset \in Nat
  BY <1>1 DEF CallsInv, ReadsExact
<1>3. CASE returned' = "err" /\ UNCHANGED <<offset, sink>>
  BY <1>1, <1>2, <1>3 DEF CallsInv, ReadsExact, Streams, Lists, Texts, Cursors
<1>4. CASE offset >= size /\ returned' = "ok" /\ UNCHANGED <<offset, sink>>
  <2>1. offset = size
    BY <1>2, <1>4
  <2> QED
    BY <1>1, <1>2, <1>4, <2>1 DEF CallsInv, ReadsExact, Streams, Lists, Texts, Cursors
<1>5. ASSUME NEW read \in 0..(Request + 1), ValidRead(read), offset < size, returned' = returned,
             sink' = sink \o Bytes(offset, read), offset' = offset + read
      PROVE  CallsInv'
  <2>1. Request \in Nat /\ Request <= size - offset
    BY <1>2, <1>5, LibromxAssumption DEF Request, Least
  <2>2. read \in Nat /\ read <= size - offset
    BY <1>2, <1>5, <2>1 DEF ValidRead
  <2>3. sink' = Bytes(0, offset')
    BY <1>2, <1>5, <2>2, BytesConcat
  <2>4. offset' \in Nat /\ offset' <= size'
    BY <1>1, <1>2, <1>5, <2>2
  <2> QED
    BY <1>1, <1>2, <1>5, <2>3, <2>4 DEF CallsInv, ReadsExact, Streams, Lists, Texts, Cursors
<1> QED
  BY <1>3, <1>4, <1>5 DEF ReadRound, GiveBack, Continue

LEMMA ListEntriesInv ==
  ASSUME CallsInv, ListEntries
  PROVE  CallsInv'
<1>1. call \in Lists /\ call' = call /\ returned = "none" /\ size' = size
  BY DEF ListEntries, Running, GiveBack, Continue
<1>2. sink = Bytes(0, offset) /\ offset <= size /\ size \in Nat /\ offset \in Nat
  BY <1>1 DEF CallsInv, ReadsExact
<1>3. CASE returned' = "err" /\ UNCHANGED <<offset, sink>>
  BY <1>1, <1>2, <1>3 DEF CallsInv, ReadsExact, Streams, Lists, Texts, Cursors
<1>4. CASE offset = size /\ returned' = "ok" /\ UNCHANGED <<offset, sink>>
  BY <1>1, <1>2, <1>4 DEF CallsInv, ReadsExact, Streams, Lists, Texts, Cursors
<1>5. CASE /\ offset < size /\ returned' = returned
           /\ sink' = Append(sink, offset + 1) /\ offset' = offset + 1
  <2>1. sink' = Bytes(0, offset')
    BY <1>2, <1>5, BytesAppend
  <2>2. offset' \in Nat /\ offset' <= size'
    BY <1>1, <1>2, <1>5
  <2> QED
    BY <1>1, <1>2, <1>5, <2>1, <2>2 DEF CallsInv, ReadsExact, Streams, Lists, Texts, Cursors
<1> QED
  BY <1>3, <1>4, <1>5 DEF ListEntries, GiveBack, Continue

LEMMA TextInv ==
  ASSUME CallsInv, AskSize \/ CopyText
  PROVE  CallsInv'
<1>1. call \in Texts /\ call' = call /\ returned = "none" /\ sink = <<>> /\ size \in Nat /\ offset \in Nat
  BY DEF AskSize, CopyText, Running, GiveBack, Continue, CallsInv
<1>2. CASE AskSize
  <2>1. sink' = sink /\ size' \in Nat /\ offset' \in Nat /\ returned' \in {"none", "ok", "err"}
    BY <1>1, <1>2, LibromxAssumption DEF AskSize, GiveBack, Continue
  <2> QED
    BY <1>1, <2>1 DEF CallsInv, ReadsExact, Streams, Lists, Texts, Cursors
<1>3. CASE CopyText
  <2>1. size' = size /\ offset' = offset /\ returned' \in {"ok", "err"}
    BY <1>3 DEF CopyText, GiveBack
  <2>2. Len(sink') <= size
    <3>1. CASE sink' = sink
      BY <1>1, <3>1
    <3>2. ASSUME NEW n \in 0..(MaxSize + 1), Fits(n), sink' = Bytes(0, n) PROVE Len(sink') <= size
      <4>1. n \in Nat
        BY LibromxAssumption
      <4> QED
        BY <3>2, <4>1, BytesIsSeq DEF Fits
    <3> QED
      BY <1>3, <3>1, <3>2 DEF CopyText
  <2> QED
    BY <1>1, <2>1, <2>2 DEF CallsInv, ReadsExact, Streams, Lists, Texts, Cursors
<1> QED
  BY <1>2, <1>3

LEMMA CursorInv ==
  ASSUME CallsInv, NEW kind \in Cursors, CursorSeek(kind) \/ CursorRead(kind)
  PROVE  CallsInv'
<1>1. call = kind /\ returned = "none" /\ sink = <<>> /\ size \in Nat /\ offset \in Nat /\ size' = size
  BY DEF CursorSeek, CursorRead, Running, CallsInv
<1>2. CASE CursorSeek(kind)
  <2>1. ASSUME NEW value \in 0..(Word - 1), NEW delta \in StartOffset(value),
               offset' = Moves(0, delta), sink' = <<value>>, call' = "sought", returned' = "ok"
        PROVE  CallsInv'
    <3>1. delta = value /\ value \in Nat
      BY LibromxAssumption DEF StartOffset
    <3>2. offset' = value
      BY <2>1, <3>1 DEF Moves
    <3> QED
      BY <1>1, <2>1, <3>1, <3>2 DEF CallsInv, ReadsExact, Streams, Lists, Texts, Cursors
  <2>2. CASE GiveBack("err") /\ UNCHANGED <<offset, sink>>
    BY <1>1, <2>2 DEF GiveBack, CallsInv, ReadsExact, Streams, Lists, Texts, Cursors
  <2> QED
    BY <1>2, <2>1, <2>2 DEF CursorSeek
<1>3. CASE CursorRead(kind)
  <2>1. offset' = offset /\ call' = call /\ returned' \in {"ok", "err"}
    BY <1>3 DEF CursorRead, GiveBack
  <2>2. Len(sink') <= size
    <3>1. CASE sink' = sink
      BY <1>1, <3>1
    <3>2. ASSUME NEW n \in 0..(size + 1), CursorFits(n), sink' = Bytes(offset, n) PROVE Len(sink') <= size
      BY <1>1, <3>2, BytesIsSeq DEF CursorFits
    <3> QED
      BY <1>3, <3>1, <3>2 DEF CursorRead
  <2> QED
    BY <1>1, <2>1, <2>2 DEF CallsInv, ReadsExact, Streams, Lists, Texts, Cursors
<1> QED
  BY <1>2, <1>3

LEMMA CallsStepInv ==
  ASSUME CallsInv, [CallsNext]_callVars
  PROVE  CallsInv'
<1>1. CASE UNCHANGED callVars
  BY <1>1 DEF callVars, CallsInv, ReadsExact
<1>2. CASE CallsStep
  <2>1. \/ \E kind \in Streams : ReadRound(kind)
        \/ ListEntries \/ AskSize \/ CopyText
        \/ \E kind \in Cursors : CursorSeek(kind) \/ CursorRead(kind)
    BY <1>2 DEF CallsStep, ReadEntry, ReadRegion, ReadBundleEntry, PayloadSeek, PayloadRead, VfsSeek,
       VfsRead, MutableSeek, MutableRead, Streams, Cursors
  <2> QED
    BY <2>1, ReadRoundInv, ListEntriesInv, TextInv, CursorInv
<1>3. ASSUME NEW n \in 0..MaxSize,
             \/ OpenReader(n) \/ OpenMetadata(n) \/ OpenVfs(n) \/ OpenPayload(n)
             \/ OpenMutableFile(n) \/ OpenBundle(n)
      PROVE  CallsInv'
  <2>1. \E kind \in Streams \union Lists \union Texts \union Cursors : OpenHandle(kind, n)
    BY <1>3 DEF OpenReader, OpenMetadata, OpenVfs, OpenPayload, OpenMutableFile, OpenBundle,
       Streams, Lists, Texts, Cursors
  <2>2. n \in Nat
    BY LibromxAssumption
  <2> QED
    BY <2>1, <2>2, OpenInv
<1> QED
  BY <1>1, <1>2, <1>3 DEF CallsNext

\* Whatever libromx answers, for every size, chunk and width of an offset, what a wrapper
\* has collected is a prefix of the data, and Ok means all of it; no buffer is handed on
\* with more than its room, and a seek that succeeds is where the caller said.
THEOREM ReadsAlwaysExact == CallsSpec => []ReadsExact
<1>1. CallsInv => ReadsExact
  BY DEF CallsInv
<1> QED
  BY <1>1, CallsInitInv, CallsStepInv, PTL DEF CallsSpec

------------------------------------------------------------------------------
(* Checking a cover. *)

\* What the flags say of the chunks read so far: nothing in them is against the grammar.
FlagsInv ==
  /\ sawIdat \in BOOLEAN /\ endedIdat \in BOOLEAN /\ sawPlte \in BOOLEAN /\ sawIend \in BOOLEAN
  /\ info <=> Len(chunks) > 0
  /\ info => chunks[1].type = "IHDR" /\ HeaderInRange(chunks[1]) /\ color = chunks[1].header
  /\ sawIend => /\ info /\ chunks[Len(chunks)].type = "IEND" /\ sawIdat
                /\ color = 3 => sawPlte
  /\ sawPlte => \E i \in 1..Len(chunks) : chunks[i].type = "PLTE"
  /\ sawIdat => \E i \in 1..Len(chunks) : chunks[i].type = "IDAT"
  /\ endedIdat => \E i, k \in 1..Len(chunks) : i < k /\ chunks[i].type = "IDAT" /\ chunks[k].type # "IDAT"
  /\ sawIdat /\ ~endedIdat /\ ~sawIend => chunks[Len(chunks)].type = "IDAT"

ChunksInv ==
  /\ \A i \in 1..Len(chunks) :
       /\ chunks[i].type = "IHDR" => i = 1
       /\ chunks[i].type \notin {"CRIT", "bad"} /\ ~chunks[i].damaged
       /\ chunks[i].type = "PLTE" => sawPlte /\ color \notin {0, 4} /\ chunks[i].length = "palette"
       /\ chunks[i].type = "IDAT" => sawIdat
       /\ chunks[i].type = "IEND" => i = Len(chunks) /\ sawIend /\ chunks[i].length = "zero"
  /\ \A i, j \in 1..Len(chunks) : chunks[i].type = "PLTE" =>
       /\ chunks[j].type = "PLTE" => i = j
       /\ chunks[j].type = "IDAT" => i < j
  /\ \A i, j \in 1..Len(chunks) : chunks[i].type = "IDAT" /\ chunks[j].type = "IDAT" =>
       \A k \in i..j : chunks[k].type = "IDAT"

PngInv ==
  /\ verdict \in {"reading", "accepted", "refused"}
  /\ verdict = "reading" => chunks \in Seq(PngChunk) /\ FlagsInv /\ ChunksInv
  /\ AcceptsExactlyPng

LEMMA PngInitInv == PngInit => PngInv
<1> SUFFICES ASSUME PngInit PROVE PngInv
  OBVIOUS
<1>1. /\ chunks \in Seq(PngChunk) /\ Len(chunks) = 0 /\ verdict = "reading"
      /\ info = FALSE /\ sawIdat = FALSE /\ endedIdat = FALSE /\ sawPlte = FALSE /\ sawIend = FALSE
  BY DEF PngInit
<1>2. FlagsInv
  <2>1. ~info /\ ~sawIdat /\ ~endedIdat /\ ~sawPlte /\ ~sawIend
    BY <1>1, Zenon
  <2>2. sawIdat \in BOOLEAN /\ endedIdat \in BOOLEAN /\ sawPlte \in BOOLEAN /\ sawIend \in BOOLEAN
    BY <1>1, Zenon
  <2>3. ~(Len(chunks) > 0)
    BY <1>1
  <2> QED
    BY <2>1, <2>2, <2>3, Zenon DEF FlagsInv
<1>3. ChunksInv
  BY <1>1 DEF ChunksInv
<1> QED
  BY <1>1, <1>2, <1>3 DEF PngInv, AcceptsExactlyPng

\* A chunk that is taken keeps the flags what they say.
LEMMA TakenChunk ==
  ASSUME FlagsInv, ChunksInv, chunks \in Seq(PngChunk), ~sawIend,
         NEW chunk \in PngChunk, ~Refused(chunk), chunks' = Append(chunks, chunk),
         info' = TRUE,
         color' = IF chunk.type = "IHDR" THEN chunk.header ELSE color,
         sawPlte' = (sawPlte \/ chunk.type = "PLTE"),
         sawIdat' = (sawIdat \/ chunk.type = "IDAT"),
         sawIend' = (chunk.type = "IEND"),
         endedIdat' = (endedIdat \/ (sawIdat /\ chunk.type \notin {"IDAT", "IEND"}))
  PROVE  chunks' \in Seq(PngChunk) /\ FlagsInv' /\ ChunksInv'
<1> DEFINE n == Len(chunks)
<1>1. /\ chunks' \in Seq(PngChunk) /\ n \in Nat /\ Len(chunks') = n + 1
      /\ \A i \in 1..n : chunks'[i] = chunks[i]
      /\ chunks'[n + 1] = chunk
  BY AppendProperties, LenProperties
<1> HIDE DEF n
<1>2. /\ sawIdat \in BOOLEAN /\ endedIdat \in BOOLEAN /\ sawPlte \in BOOLEAN /\ sawIend \in BOOLEAN
      /\ chunk.type \in ChunkTypes /\ chunk.damaged \in BOOLEAN
  BY DEF FlagsInv, PngChunk
<1>3. /\ sawPlte' <=> sawPlte \/ chunk.type = "PLTE"
      /\ sawIdat' <=> sawIdat \/ chunk.type = "IDAT"
      /\ sawIend' <=> chunk.type = "IEND"
      /\ endedIdat' <=> endedIdat \/ (sawIdat /\ chunk.type \notin {"IDAT", "IEND"})
      /\ info'
  BY <1>2, Zenon
<1>4. /\ sawIdat' \in BOOLEAN /\ endedIdat' \in BOOLEAN /\ sawPlte' \in BOOLEAN /\ sawIend' \in BOOLEAN
  BY <1>2, Zenon
<1>5. /\ ~chunk.damaged /\ chunk.type \notin {"bad", "CRIT"}
      /\ ~info => chunk.type = "IHDR" /\ HeaderInRange(chunk)
      /\ info => chunk.type # "IHDR"
      /\ chunk.type = "PLTE" => ~sawPlte /\ ~sawIdat /\ color \notin {0, 4} /\ chunk.length = "palette"
      /\ chunk.type = "IDAT" => ~endedIdat
      /\ chunk.type = "IEND" => chunk.length = "zero" /\ sawIdat /\ (color = 3 => sawPlte)
  BY DEF Refused, PlteAllowed, IdatAllowed, IendAllowed
<1>6. (info <=> n > 0) /\ (info => color' = color) /\ (~info => n = 0 /\ color' = chunk.header)
  BY <1>1, <1>5 DEF FlagsInv, n
<1>7. \A i \in 1..n + 1 : i \in 1..n \/ i = n + 1
  BY <1>1
<1>8. 1 \in 1..n + 1 /\ n + 1 \in 1..n + 1 /\ 1..n \subseteq 1..n + 1
  BY <1>1
<1>9. FlagsInv'
  <2>1. info' <=> Len(chunks') > 0
    BY <1>1, <1>3
  <2>2. chunks'[1].type = "IHDR" /\ HeaderInRange(chunks'[1]) /\ color' = chunks'[1].header
    <3>1. CASE info
      <4>1. 1 \in 1..n /\ chunks'[1] = chunks[1]
        BY <1>1, <1>6, <3>1
      <4> QED
        BY <1>6, <3>1, <4>1 DEF FlagsInv
    <3>2. CASE ~info
      <4>1. chunks'[1] = chunk
        BY <1>1, <1>6, <3>2
      <4> QED
        BY <1>5, <1>6, <3>2, <4>1
    <3> QED
      BY <3>1, <3>2
  <2>3. sawIend' => /\ info' /\ chunks'[Len(chunks')].type = "IEND" /\ sawIdat'
                    /\ color' = 3 => sawPlte'
    BY <1>1, <1>3, <1>5, <1>6
  <2>4. sawPlte' => \E i \in 1..Len(chunks') : chunks'[i].type = "PLTE"
    BY <1>1, <1>3, <1>8 DEF FlagsInv, n
  <2>5. sawIdat' => \E i \in 1..Len(chunks') : chunks'[i].type = "IDAT"
    BY <1>1, <1>3, <1>8 DEF FlagsInv, n
  <2>6. endedIdat' => \E i, k \in 1..Len(chunks') :
                       i < k /\ chunks'[i].type = "IDAT" /\ chunks'[k].type # "IDAT"
    <3>1. CASE endedIdat
      <4>1. PICK i, k \in 1..n : i < k /\ chunks[i].type = "IDAT" /\ chunks[k].type # "IDAT"
        BY <3>1 DEF FlagsInv, n
      <4> QED
        BY <1>1, <1>8, <4>1
    <3>2. CASE sawIdat /\ chunk.type \notin {"IDAT", "IEND"}
      <4>1. PICK i \in 1..n : chunks[i].type = "IDAT"
        BY <3>2 DEF FlagsInv, n
      <4>2. i < n + 1
        BY <1>1
      <4> QED
        BY <1>1, <1>8, <3>2, <4>1, <4>2
    <3> QED
      BY <1>3, <3>1, <3>2
  <2>7. sawIdat' /\ ~endedIdat' /\ ~sawIend' => chunks'[Len(chunks')].type = "IDAT"
    BY <1>1, <1>3
  <2> QED
    BY <1>4, <2>1, <2>2, <2>3, <2>4, <2>5, <2>6, <2>7 DEF FlagsInv
<1>10. ChunksInv'
  <2>1. ASSUME NEW i \in 1..n + 1
        PROVE  /\ chunks'[i].type = "IHDR" => i = 1
               /\ chunks'[i].type \notin {"CRIT", "bad"} /\ ~chunks'[i].damaged
               /\ chunks'[i].type = "PLTE" =>
                    sawPlte' /\ color' \notin {0, 4} /\ chunks'[i].length = "palette"
               /\ chunks'[i].type = "IDAT" => sawIdat'
               /\ chunks'[i].type = "IEND" => i = n + 1 /\ sawIend' /\ chunks'[i].length = "zero"
    <3>1. CASE i \in 1..n
      <4>1. /\ chunks[i].type = "IHDR" => i = 1
            /\ chunks[i].type \notin {"CRIT", "bad"} /\ ~chunks[i].damaged
            /\ chunks[i].type = "PLTE" => sawPlte /\ color \notin {0, 4} /\ chunks[i].length = "palette"
            /\ chunks[i].type = "IDAT" => sawIdat
            /\ chunks[i].type # "IEND"
        BY <3>1 DEF ChunksInv, n
      <4>2. info
        BY <1>1, <1>6, <3>1
      <4> QED
        BY <1>1, <1>3, <1>6, <3>1, <4>1, <4>2
    <3>2. CASE i = n + 1
      BY <1>1, <1>3, <1>5, <1>6, <3>2
    <3> QED
      BY <1>7, <3>1, <3>2
  <2>2. ASSUME NEW i \in 1..n + 1, NEW j \in 1..n + 1, chunks'[i].type = "PLTE"
        PROVE  (chunks'[j].type = "PLTE" => i = j) /\ (chunks'[j].type = "IDAT" => i < j)
    <3>1. CASE i \in 1..n /\ j \in 1..n
      BY <1>1, <2>2, <3>1 DEF ChunksInv, n
    <3>2. CASE i \in 1..n /\ j = n + 1
      <4>1. sawPlte
        BY <1>1, <2>2, <3>2 DEF ChunksInv, n
      <4> QED
        BY <1>1, <1>5, <3>2, <4>1
    <3>3. CASE i = n + 1 /\ j \in 1..n
      <4>1. chunks[j].type \notin {"PLTE", "IDAT"}
        BY <1>1, <1>5, <2>2, <3>3 DEF ChunksInv, n
      <4> QED
        BY <1>1, <3>3, <4>1
    <3>4. CASE i = n + 1 /\ j = n + 1
      BY <1>1, <2>2, <3>4
    <3> QED
      BY <1>7, <3>1, <3>2, <3>3, <3>4
  <2>3. ASSUME NEW i \in 1..n + 1, NEW j \in 1..n + 1, NEW k \in i..j,
               chunks'[i].type = "IDAT", chunks'[j].type = "IDAT"
        PROVE  chunks'[k].type = "IDAT"
    <3>1. k \in 1..n + 1
      BY <1>1
    <3>2. CASE k = n + 1
      BY <1>1, <2>3, <3>2
    <3>3. CASE k \in 1..n /\ j \in 1..n
      <4>1. i \in 1..n
        BY <1>1, <3>3
      <4> QED
        BY <1>1, <2>3, <3>3, <4>1 DEF ChunksInv, n
    <3>4. CASE k \in 1..n /\ j = n + 1
      <4>1. i \in 1..n /\ n \in 1..n /\ k \in i..n
        BY <1>1, <3>4
      <4>2. chunk.type = "IDAT" /\ chunks[i].type = "IDAT"
        BY <1>1, <2>3, <3>4, <4>1
      <4>3. sawIdat /\ ~endedIdat
        BY <1>5, <4>1, <4>2 DEF ChunksInv, n
      <4>4. chunks[n].type = "IDAT"
        BY <4>3 DEF FlagsInv, n
      <4>5. chunks[k].type = "IDAT"
        BY <4>1, <4>2, <4>4 DEF ChunksInv, n
      <4> QED
        BY <1>1, <3>4, <4>5
    <3> QED
      BY <1>7, <3>1, <3>2, <3>3, <3>4
  <2> QED
    BY <1>1, <2>1, <2>2, <2>3 DEF ChunksInv
<1> QED
  BY <1>1, <1>9, <1>10

\* A chunk that is refused makes the whole one that is not well-formed, whatever follows.
LEMMA RefusedChunk ==
  ASSUME FlagsInv, ChunksInv, chunks \in Seq(PngChunk), ~sawIend,
         NEW chunk \in PngChunk, Refused(chunk), chunks' = Append(chunks, chunk)
  PROVE  ~WellFormed'
<1> SUFFICES ASSUME WellFormed' PROVE FALSE
  OBVIOUS
<1> DEFINE n == Len(chunks)
           m == n + 1
<1>1. /\ n \in Nat /\ Len(chunks') = m
      /\ \A i \in 1..n : chunks'[i] = chunks[i]
      /\ chunks'[m] = chunk
  BY AppendProperties, LenProperties
<1>2. 1 \in 1..m /\ m \in 1..m /\ m \in Nat /\ \A i \in 1..n : i \in 1..m /\ i < m /\ i # m
  BY <1>1
<1>3. (n = 0 <=> m = 1) /\ (n = 0 => 1..n = {}) /\ (n # 0 => 1 \in 1..n)
  BY <1>1
<1>4. n = Len(chunks)
  OBVIOUS
<1> HIDE DEF n, m
<1>0. Len(chunks') = m
  BY <1>1
<1>5. /\ \A i \in 1..m : /\ chunks'[i].type = "IHDR" => i = 1
                         /\ chunks'[i].type \notin {"CRIT", "bad"} /\ ~chunks'[i].damaged
                         /\ chunks'[i].type = "PLTE" => chunks'[i].length = "palette"
                         /\ chunks'[i].type = "IEND" => chunks'[i].length = "zero"
      /\ chunks'[1].type = "IHDR" /\ HeaderInRange(chunks'[1])
      /\ \E i \in 1..m : chunks'[i].type = "IDAT"
  BY <1>0, <1>2 DEF WellFormed, Of
<1>5a. \A i, j \in 1..m : chunks'[i].type = "PLTE" =>
         (chunks'[j].type = "PLTE" => i = j) /\ (chunks'[j].type = "IDAT" => i < j)
  BY <1>0 DEF WellFormed, Of
<1>5b. \A i, j \in 1..m : chunks'[i].type = "IDAT" /\ chunks'[j].type = "IDAT" =>
         \A k \in i..j : chunks'[k].type = "IDAT"
  BY <1>0 DEF WellFormed, Of
<1>5c. /\ chunks'[1].header = 3 => \E i \in 1..m : chunks'[i].type = "PLTE"
       /\ chunks'[1].header \in {0, 4} => \A i \in 1..m : chunks'[i].type # "PLTE"
  BY <1>0 DEF WellFormed, Of
<1>6. info => chunks'[1] = chunks[1] /\ n # 0
  BY <1>1, <1>3, <1>4 DEF FlagsInv
<1>7. CASE chunk.damaged \/ chunk.type \in {"bad", "CRIT"}
  BY <1>1, <1>2, <1>5, <1>7
<1>8. CASE ~info /\ (chunk.type # "IHDR" \/ ~HeaderInRange(chunk))
  <2>1. n = 0
    BY <1>1, <1>4, <1>8 DEF FlagsInv
  <2>2. chunks'[1] = chunk
    BY <1>1, <1>3, <2>1
  <2> QED
    BY <1>5, <1>8, <2>2
<1>9. CASE info /\ chunk.type = "IHDR"
  BY <1>1, <1>2, <1>3, <1>5, <1>6, <1>9
<1>10. ASSUME chunk.type = "PLTE", ~PlteAllowed(chunk) PROVE FALSE
  <2>1. chunk.length = "palette" /\ chunks'[1].header \notin {0, 4}
    BY <1>1, <1>2, <1>5, <1>10, <1>5c
  <2>2. CASE sawPlte
    <3>1. PICK i \in 1..n : chunks[i].type = "PLTE"
      BY <1>4, <2>2 DEF FlagsInv
    <3>2. i \in 1..m /\ i # m /\ chunks'[i].type = "PLTE" /\ chunks'[m].type = "PLTE"
      BY <1>1, <1>2, <1>10, <3>1
    <3> QED
      BY <1>2, <1>5a, <3>2
  <2>3. CASE sawIdat
    <3>1. PICK i \in 1..n : chunks[i].type = "IDAT"
      BY <1>4, <2>3 DEF FlagsInv
    <3>2. i \in 1..m /\ i < m /\ chunks'[i].type = "IDAT" /\ chunks'[m].type = "PLTE"
      BY <1>1, <1>2, <1>10, <3>1
    <3>3. m < i
      BY <1>2, <1>5a, <3>2
    <3> QED
      BY <1>1, <1>2, <3>2, <3>3
  <2>4. CASE color \in {0, 4}
    <3>1. CASE info
      BY <1>6, <2>1, <2>4, <3>1 DEF FlagsInv
    <3>2. CASE ~info
      BY <1>8, <1>10, <3>2
    <3> QED
      BY <3>1, <3>2
  <2> QED
    BY <1>10, <2>1, <2>2, <2>3, <2>4 DEF PlteAllowed
<1>11. ASSUME chunk.type = "IDAT", endedIdat PROVE FALSE
  <2>1. PICK i, k \in 1..n : i < k /\ chunks[i].type = "IDAT" /\ chunks[k].type # "IDAT"
    BY <1>4, <1>11 DEF FlagsInv
  <2>2. /\ i \in 1..m /\ k \in i..m /\ chunks'[i].type = "IDAT" /\ chunks'[m].type = "IDAT"
        /\ chunks'[k].type # "IDAT"
    BY <1>1, <1>2, <1>11, <2>1
  <2>3. \A l \in i..m : chunks'[l].type = "IDAT"
    BY <1>2, <1>5b, <2>2, Zenon
  <2> QED
    BY <2>2, <2>3
<1>12. ASSUME chunk.type = "IEND", ~IendAllowed(chunk) PROVE FALSE
  <2>1. chunk.length = "zero"
    BY <1>1, <1>2, <1>5, <1>12
  <2>2. \A i \in 1..m : i \in 1..n \/ i = m
    BY <1>1 DEF m
  <2>3. CASE ~sawIdat
    <3>1. PICK i \in 1..m : chunks'[i].type = "IDAT"
      BY <1>5
    <3>2. i \in 1..n /\ chunks[i].type = "IDAT"
      BY <1>1, <1>12, <2>2, <3>1
    <3> QED
      BY <1>4, <2>3, <3>2 DEF ChunksInv
  <2>4. CASE color = 3 /\ ~sawPlte
    <3>1. info
      BY <1>8, <1>12
    <3>2. chunks'[1].header = 3
      BY <1>6, <2>4, <3>1 DEF FlagsInv
    <3>3. PICK i \in 1..m : chunks'[i].type = "PLTE"
      BY <1>5c, <3>2
    <3>4. i \in 1..n /\ chunks[i].type = "PLTE"
      BY <1>1, <1>12, <2>2, <3>3
    <3> QED
      BY <1>4, <2>4, <3>4 DEF ChunksInv
  <2> QED
    BY <1>12, <2>1, <2>3, <2>4 DEF IendAllowed
<1> QED
  BY <1>7, <1>8, <1>9, <1>10, <1>11, <1>12 DEF Refused, IdatAllowed

\* At the end of the bytes the flags decide.
LEMMA EndVerdict ==
  ASSUME FlagsInv, ChunksInv, chunks \in Seq(PngChunk)
  PROVE  sawIend <=> WellFormed
<1> DEFINE n == Len(chunks)
<1>1. n \in Nat /\ n = Len(chunks) /\ (n > 0 => 1 \in 1..n /\ n \in 1..n) /\ (n > 0 <=> chunks # <<>>)
  BY LenProperties, EmptySeq
<1> HIDE DEF n
<1>2. ASSUME sawIend PROVE WellFormed
  <2>1. n > 0 /\ chunks # <<>> /\ 1 \in 1..n /\ n \in 1..n
    BY <1>1, <1>2 DEF FlagsInv
  <2>2. Of("IHDR") = {1} /\ Of("IEND") = {Len(chunks)}
    BY <1>1, <1>2, <2>1 DEF FlagsInv, ChunksInv, Of
  <2>3. Of("CRIT") = {} /\ Of("bad") = {} /\ \A i \in 1..Len(chunks) : ~chunks[i].damaged
    BY DEF ChunksInv, Of
  <2>4. Of("IDAT") # {}
    BY <1>2 DEF FlagsInv, Of
  <2>5. \A i, j \in Of("IDAT") : \A k \in i..j : k \in Of("IDAT")
    <3> SUFFICES ASSUME NEW i \in Of("IDAT"), NEW j \in Of("IDAT"), NEW k \in i..j PROVE k \in Of("IDAT")
      OBVIOUS
    <3>1. i \in 1..n /\ j \in 1..n /\ chunks[i].type = "IDAT" /\ chunks[j].type = "IDAT"
      BY <1>1 DEF Of
    <3>2. k \in 1..n
      BY <1>1, <3>1
    <3>3. chunks[k].type = "IDAT"
      BY <1>1, <3>1 DEF ChunksInv
    <3> QED
      BY <1>1, <3>2, <3>3 DEF Of
  <2>6. /\ \A i, j \in Of("PLTE") : i = j
        /\ \A i \in Of("PLTE"), j \in Of("IDAT") : i < j
    BY DEF ChunksInv, Of
  <2>7. /\ HeaderInRange(chunks[1])
        /\ chunks[1].header = 3 => Of("PLTE") # {}
        /\ chunks[1].header \in {0, 4} => Of("PLTE") = {}
    BY <1>2 DEF FlagsInv, ChunksInv, Of
  <2>8. /\ \A i \in Of("PLTE") : chunks[i].length = "palette"
        /\ \A i \in Of("IEND") : chunks[i].length = "zero"
    BY DEF ChunksInv, Of
  <2> QED
    BY <2>1, <2>2, <2>3, <2>4, <2>5, <2>6, <2>7, <2>8 DEF WellFormed
<1>3. ASSUME WellFormed PROVE sawIend
  <2>1. n \in Of("IEND")
    BY <1>1, <1>3 DEF WellFormed
  <2> QED
    BY <1>1, <2>1 DEF ChunksInv, Of
<1> QED
  BY <1>2, <1>3

LEMMA PngStepInv ==
  ASSUME PngInv, [PngNext]_pngVars
  PROVE  PngInv'
<1>1. CASE UNCHANGED pngVars
  BY <1>1 DEF pngVars, PngInv, FlagsInv, ChunksInv, AcceptsExactlyPng, WellFormed, Of
<1>2. CASE ReadChunk
  <2>1. verdict = "reading" /\ ~sawIend /\ chunks \in Seq(PngChunk) /\ FlagsInv /\ ChunksInv
    BY <1>2 DEF ReadChunk, PngInv
  <2>2. PICK chunk \in PngChunk :
          /\ chunks' = Append(chunks, chunk)
          /\ \/ Refused(chunk) /\ verdict' = "refused" /\ UNCHANGED flags
             \/ /\ ~Refused(chunk)
                /\ info' = TRUE
                /\ color' = IF chunk.type = "IHDR" THEN chunk.header ELSE color
                /\ sawPlte' = (sawPlte \/ chunk.type = "PLTE")
                /\ sawIdat' = (sawIdat \/ chunk.type = "IDAT")
                /\ sawIend' = (chunk.type = "IEND")
                /\ endedIdat' = (endedIdat \/ (sawIdat /\ chunk.type \notin {"IDAT", "IEND"}))
                /\ UNCHANGED verdict
    BY <1>2, Zenon DEF ReadChunk
  <2>3. CASE Refused(chunk)
    <3>1. ~WellFormed' /\ verdict' = "refused"
      BY <2>1, <2>2, <2>3, RefusedChunk
    <3> QED
      BY <3>1 DEF PngInv, AcceptsExactlyPng
  <2>4. CASE ~Refused(chunk)
    <3>1. chunks' \in Seq(PngChunk) /\ FlagsInv' /\ ChunksInv'
      BY <2>1, <2>2, <2>4, TakenChunk, Zenon
    <3>2. verdict' = "reading"
      BY <2>1, <2>2, <2>4
    <3> QED
      BY <3>1, <3>2 DEF PngInv, AcceptsExactlyPng
  <2> QED
    BY <2>3, <2>4
<1>3. CASE EndOfBytes
  <2>1. verdict = "reading" /\ chunks \in Seq(PngChunk) /\ FlagsInv /\ ChunksInv
    BY <1>3 DEF EndOfBytes, PngInv
  <2>2. sawIend <=> WellFormed
    BY <2>1, EndVerdict
  <2>3. PICK trailing \in BOOLEAN :
          /\ trailing => sawIend
          /\ verdict' = IF sawIend /\ ~trailing /\ sawIdat THEN "accepted" ELSE "refused"
          /\ chunks' = IF trailing THEN Append(chunks, [type |-> "bad"]) ELSE chunks
    BY <1>3 DEF EndOfBytes
  <2>4. CASE trailing
    <3> DEFINE last == [type |-> "bad"]
               n == Len(chunks)
    <3>1. chunks \in Seq(PngChunk \union {last}) /\ last \in PngChunk \union {last}
      BY <2>1, SeqMonotonic
    <3>2. chunks' = Append(chunks, last) /\ verdict' = "refused"
      BY <2>3, <2>4
    <3> HIDE DEF last
    <3>3. n \in Nat /\ Len(chunks') = n + 1 /\ chunks'[n + 1] = last
      BY <3>1, <3>2, AppendProperties, LenProperties
    <3>4. Len(chunks') \in 1..Len(chunks') /\ chunks'[Len(chunks')].type = "bad"
      BY <3>3 DEF last
    <3>5. ~WellFormed'
      BY <3>4 DEF WellFormed, Of
    <3> QED
      BY <3>2, <3>5 DEF PngInv, AcceptsExactlyPng
  <2>5. CASE ~trailing
    <3>1. chunks' = chunks /\ (WellFormed' <=> WellFormed)
      <4>1. chunks' = chunks
        BY <2>3, <2>5
      <4>2. WellFormed' <=> WellFormed
        BY <4>1 DEF WellFormed, Of
      <4> QED
        BY <4>1, <4>2
    <3>2. sawIend => sawIdat
      BY <2>1 DEF FlagsInv
    <3>3. verdict' = IF sawIend THEN "accepted" ELSE "refused"
      BY <2>3, <2>5, <3>2
    <3> QED
      BY <2>2, <3>1, <3>3 DEF PngInv, AcceptsExactlyPng
  <2> QED
    BY <2>4, <2>5
<1> QED
  BY <1>1, <1>2, <1>3 DEF PngNext

\* The check of a cover, chunk by chunk with its five flags (validate_png_bytes), accepts
\* exactly the files that are well-formed as a whole, however many chunks they have.
THEOREM CheckIsTheGrammar == PngSpec => []AcceptsExactlyPng
<1>1. PngInv => AcceptsExactlyPng
  BY DEF PngInv
<1> QED
  BY <1>1, PngInitInv, PngStepInv, PTL DEF PngSpec

------------------------------------------------------------------------------
(* The registry. *)

\* The two tables of formats agree: every extension that is accepted has an id, which
\* leads back to it.
LEMMA FormatThereAndBack ==
  \A ext \in SupportedExtensions : FormatExtension(FormatId(ext)) = ext
<1> DEFINE Back(ext) == FormatExtension(FormatId(ext)) = ext
<1> USE DEF FormatExtension, FormatId, IdOf, NameAt, FormatIds, FormatNames
<1>1. Back("gb") /\ Back("gbc") /\ Back("gba") /\ Back("nes") /\ Back("unf") /\ Back("unif") /\ Back("fds")
  OBVIOUS
<1>2. Back("sfc") /\ Back("smc") /\ Back("nds") /\ Back("3ds") /\ Back("cci") /\ Back("cxi") /\ Back("app")
  OBVIOUS
<1>3. Back("iso") /\ Back("cso") /\ Back("zso") /\ Back("chd") /\ Back("pbp") /\ Back("cdi")
  OBVIOUS
<1>4. Back("gcm") /\ Back("wbfs") /\ Back("rvz") /\ Back("wia") /\ Back("wad")
  OBVIOUS
<1>5. Back("cue") /\ Back("gdi") /\ Back("m3u") /\ Back("ccd") /\ Back("mds") /\ Back("toc")
  OBVIOUS
<1>6. Back("bin") /\ Back("wav") /\ Back("flac") /\ Back("img") /\ Back("mdf")
  OBVIOUS
<1>7. Back("sbi") /\ Back("sub") /\ Back("ecm") /\ Back("z64") /\ Back("n64") /\ Back("v64")
  OBVIOUS
<1>8. Back("md") /\ Back("gen") /\ Back("smd") /\ Back("32x") /\ Back("sms") /\ Back("gg") /\ Back("pce")
  OBVIOUS
<1>9. Back("elf") /\ Back("prx") /\ Back("msu") /\ Back("pcm") /\ Back("zip")
  OBVIOUS
<1> HIDE DEF Back
<1>10. \A ext \in SupportedExtensions : Back(ext)
  BY <1>1, <1>2, <1>3, <1>4, <1>5, <1>6, <1>7, <1>8, <1>9 DEF SupportedExtensions
<1> QED
  BY <1>10 DEF Back

\* The ids of the table of platforms.
RegisteredIds == (1..8) \union (16..22) \union {32, 33} \union (48..50) \union {64, 65, 80} \union (96..98)

\* Only those names have an id.
LEMMA IdIsRegistered ==
  ASSUME NEW name, PlatformId(name) # 0
  PROVE  PlatformId(name) \in RegisteredIds
<1>1. \A known \in DOMAIN PlatformIds : PlatformIds[known] \in RegisteredIds
  BY DEF PlatformIds, RegisteredIds
<1> QED
  BY <1>1 DEF PlatformId, IdOf

\* Every id has a name of its own.
LEMMA NameLeadsBack == \A id \in RegisteredIds : PlatformId(PlatformName(id)) = id
<1> DEFINE Back(id) == PlatformId(PlatformName(id)) = id
<1>1. Back(1) /\ Back(2) /\ Back(3) /\ Back(4)
  BY DEF PlatformName, NameAt, PlatformNames, PlatformId, IdOf, PlatformIds
<1>2. Back(5) /\ Back(6) /\ Back(7) /\ Back(8)
  BY DEF PlatformName, NameAt, PlatformNames, PlatformId, IdOf, PlatformIds
<1>3. Back(16) /\ Back(17) /\ Back(18) /\ Back(19)
  BY DEF PlatformName, NameAt, PlatformNames, PlatformId, IdOf, PlatformIds
<1>4. Back(20) /\ Back(21) /\ Back(22) /\ Back(32) /\ Back(33)
  BY DEF PlatformName, NameAt, PlatformNames, PlatformId, IdOf, PlatformIds
<1>5. Back(48) /\ Back(49) /\ Back(50) /\ Back(64)
  BY DEF PlatformName, NameAt, PlatformNames, PlatformId, IdOf, PlatformIds
<1>6. Back(65) /\ Back(80) /\ Back(96) /\ Back(97) /\ Back(98)
  BY DEF PlatformName, NameAt, PlatformNames, PlatformId, IdOf, PlatformIds
<1> HIDE DEF Back
<1>7. \A id \in RegisteredIds : Back(id)
  BY <1>1, <1>2, <1>3, <1>4, <1>5, <1>6 DEF RegisteredIds
<1> QED
  BY <1>7 DEF Back

\* The page knows that name.
LEMMA NameIsKnown == \A id \in RegisteredIds : PlatformName(id) \in PagePlatforms
<1> DEFINE Known(id) == PlatformName(id) \in PagePlatforms
<1>1. Known(1) /\ Known(2) /\ Known(3) /\ Known(4)
  BY DEF PlatformName, NameAt, PlatformNames, PagePlatforms, LplPlatforms
<1>2. Known(5) /\ Known(6) /\ Known(7) /\ Known(8)
  BY DEF PlatformName, NameAt, PlatformNames, PagePlatforms, LplPlatforms
<1>3. Known(16) /\ Known(17) /\ Known(18) /\ Known(19)
  BY DEF PlatformName, NameAt, PlatformNames, PagePlatforms, LplPlatforms
<1>4. Known(20) /\ Known(21) /\ Known(22) /\ Known(32) /\ Known(33)
  BY DEF PlatformName, NameAt, PlatformNames, PagePlatforms, LplPlatforms
<1>5. Known(48) /\ Known(49) /\ Known(50) /\ Known(64)
  BY DEF PlatformName, NameAt, PlatformNames, PagePlatforms, LplPlatforms
<1>6. Known(65) /\ Known(80) /\ Known(96) /\ Known(97) /\ Known(98)
  BY DEF PlatformName, NameAt, PlatformNames, PagePlatforms, LplPlatforms
<1> HIDE DEF Known
<1>7. \A id \in RegisteredIds : Known(id)
  BY <1>1, <1>2, <1>3, <1>4, <1>5, <1>6 DEF RegisteredIds
<1> QED
  BY <1>7 DEF Known

\* What has an id has a name of its own, which the page knows and which has that id.
LEMMA PlatformThereAndBack ==
  ASSUME NEW name, PlatformId(name) # 0
  PROVE  /\ PlatformName(PlatformId(name)) # "none"
         /\ PlatformName(PlatformId(name)) \in PagePlatforms
         /\ PlatformId(PlatformName(PlatformId(name))) = PlatformId(name)
<1>1. "none" \notin PagePlatforms
  BY DEF PagePlatforms, LplPlatforms
<1> QED
  BY <1>1, IdIsRegistered, NameLeadsBack, NameIsKnown

\* The writer has an id for every extension, one with a name.
LEMMA InferredIsRegistered ==
  ASSUME NEW ext
  PROVE  PlatformName(InferPlatformId(ext)) # "none"
<1>1. PlatformId("gb") = 1
  BY DEF PlatformId, IdOf, PlatformIds
<1>2. \E name : InferPlatformId(ext) = IF PlatformId(name) = 0 THEN 1 ELSE PlatformId(name)
  BY DEF InferPlatformId
<1>3. \E name : PlatformId(name) # 0 /\ InferPlatformId(ext) = PlatformId(name)
  BY <1>1, <1>2
<1> QED
  BY <1>3, PlatformThereAndBack

\* The format that a Game Boy's payload is given is one that is accepted, and no descriptor.
LEMMA ClassifiedFormat ==
  ASSUME NEW ext \in SupportedExtensions, NEW cgb \in BOOLEAN
  PROVE  /\ ClassifyGb(ext, cgb) \in SupportedExtensions
         /\ ClassifyGb(ext, cgb) \in DOMAIN Descriptors <=> ext \in DOMAIN Descriptors
BY DEF ClassifyGb, SupportedExtensions, Descriptors

\* The footer of a platform and of a format that is accepted, as it is read back.
LEMMA FooterReadBack ==
  ASSUME NEW name, NEW format \in SupportedExtensions
  PROVE  LET footer == Footer(PlatformId(name), format) IN
         /\ PlatformName(footer.platform) # "none"
         /\ PlatformId(name) # 0 => footer.platform = PlatformId(name)
         /\ FormatExtension(footer.format) = format
         /\ footer.launch # 1 <=> format \in DOMAIN Descriptors
<1>1. LaunchFormat(format) # 1 <=> format \in DOMAIN Descriptors
  BY DEF LaunchFormat, Descriptors
<1> QED
  BY <1>1, PlatformThereAndBack, InferredIsRegistered, FormatThereAndBack DEF Footer

\* The pack page and the planner both have a name for the platform that was picked.
Planned ==
  /\ PlatformId(picked.platform) # 0
  /\ picked.set \/ {picked.platform, PlatformName(PlatformId(picked.platform))} \subseteq LplPlatforms

\* The footer is readable, and while the planner has a name for the platform the page
\* shows it, under the name that was picked or under its own.
RegistryInv ==
  /\ picked \in [platform : PagePlatforms \union {"none"}, ext : SupportedExtensions,
                 cgb : BOOLEAN, set : BOOLEAN]
  /\ FootersReadable
  /\ Planned => /\ page \in {picked.platform, PlatformName(PlatformId(picked.platform))}
                /\ container # None => container.platform = PlatformId(picked.platform)

\* It holds of what the user may choose.
LEMMA RegistryInitInv == RegistryInit => RegistryInv
BY DEF RegistryInit, RegistryInv, FootersReadable

\* The page hands on the id of the platform that was picked.
LEMMA PageHandsOn ==
  ASSUME RegistryInv, Planned
  PROVE  /\ page \in PagePlatforms /\ PagePlatform = page
         /\ PlatformId(page) = PlatformId(picked.platform)
         /\ ~picked.set => page \in LplPlatforms /\ picked.platform \in LplPlatforms
<1>1. PlatformId("none") = 0
  BY DEF PlatformId, IdOf, PlatformIds
<1>2. picked.platform \in PagePlatforms
  BY <1>1 DEF RegistryInv, Planned
<1> QED
  BY <1>2, PlatformThereAndBack DEF RegistryInv, Planned, PagePlatform

\* Every way of packing keeps it, and so does loading.
LEMMA RegistryNextInv ==
  ASSUME RegistryInv, [RegistryNext]_registryVars
  PROVE  RegistryInv'
<1>1. CASE PackSetFooter
  <2>1. /\ container' = Footer(PlatformId(PagePlatform), picked.ext) /\ picked.set
        /\ UNCHANGED <<picked, page>>
    BY <1>1 DEF PackSetFooter
  <2>2. ClassifyGb(picked.ext, FALSE) = picked.ext
    BY DEF ClassifyGb
  <2>3. FootersReadable'
    BY <2>1, <2>2, FooterReadBack DEF FootersReadable, RegistryInv
  <2>4. Planned => container'.platform = PlatformId(picked.platform)
    BY <2>1, FooterReadBack, PageHandsOn DEF RegistryInv, Planned
  <2> QED
    BY <2>1, <2>3, <2>4 DEF RegistryInv, Planned
<1>2. CASE PackSingleFooter
  <2> DEFINE format == ClassifyGb(picked.ext, picked.cgb)
             name == LplPlatform(PagePlatform, "none", format, "none")
  <2>1. /\ container' = Footer(PlatformId(name), format) /\ ~picked.set
        /\ UNCHANGED <<picked, page>>
    BY <1>2 DEF PackSingleFooter
  <2>2. format \in SupportedExtensions /\ (format \in DOMAIN Descriptors <=> picked.ext \in DOMAIN Descriptors)
    BY ClassifiedFormat DEF RegistryInv
  <2>3. format = ClassifyGb(picked.ext, picked.cgb /\ ~picked.set)
    BY <2>1 DEF RegistryInv
  <2>4. Planned => PlatformId(name) = PlatformId(picked.platform)
    BY <2>1, PageHandsOn DEF LplPlatform
  <2> HIDE DEF format, name
  <2>5. FootersReadable'
    BY <2>1, <2>2, <2>3, FooterReadBack DEF FootersReadable
  <2>6. Planned => container'.platform = PlatformId(picked.platform)
    BY <2>1, <2>2, <2>4, FooterReadBack DEF Planned
  <2> QED
    BY <2>1, <2>5, <2>6 DEF RegistryInv, Planned
<1>3. CASE PackItemFooter
  <2> DEFINE format == ClassifyGb(picked.ext, picked.cgb)
  <2>1. PICK database, playlist \in Markers \union {"none"} :
          container' = Footer(PlatformId(LplPlatform(picked.platform, database, format, playlist)), format)
    BY <1>3 DEF PackItemFooter
  <2> DEFINE name == LplPlatform(picked.platform, database, format, playlist)
  <2>2. ~picked.set /\ UNCHANGED <<picked, page>>
    BY <1>3 DEF PackItemFooter
  <2>3. format \in SupportedExtensions /\ (format \in DOMAIN Descriptors <=> picked.ext \in DOMAIN Descriptors)
    BY ClassifiedFormat DEF RegistryInv
  <2>4. format = ClassifyGb(picked.ext, picked.cgb /\ ~picked.set)
    BY <2>2 DEF RegistryInv
  <2>5. Planned => PlatformId(name) = PlatformId(picked.platform)
    BY <2>2, PageHandsOn DEF LplPlatform
  <2> HIDE DEF format, name
  <2>6. FootersReadable'
    BY <2>1, <2>2, <2>3, <2>4, FooterReadBack DEF FootersReadable, name
  <2>7. Planned => container'.platform = PlatformId(picked.platform)
    BY <2>1, <2>3, <2>5, FooterReadBack DEF Planned, name
  <2> QED
    BY <2>2, <2>6, <2>7 DEF RegistryInv, Planned
<1>4. CASE LoadFooter
  <2>1. container # None /\ container' = None /\ picked' = [picked EXCEPT !.set = FALSE]
    BY <1>4 DEF LoadFooter
  <2>2. Planned => page' = PlatformName(PlatformId(picked.platform))
    BY <1>4, PlatformThereAndBack DEF LoadFooter, RegistryInv, Planned
  <2>3. /\ picked'.platform = picked.platform /\ ~picked'.set
        /\ picked' \in [platform : PagePlatforms \union {"none"}, ext : SupportedExtensions,
                       cgb : BOOLEAN, set : BOOLEAN]
    BY <2>1 DEF RegistryInv
  <2>4. Planned' => Planned
    BY <2>3 DEF Planned
  <2>5. FootersReadable'
    BY <2>1 DEF FootersReadable
  <2> QED
    BY <2>1, <2>2, <2>3, <2>4, <2>5 DEF RegistryInv
<1>5. CASE UNCHANGED registryVars
  BY <1>5 DEF registryVars, RegistryInv, FootersReadable, Planned
<1> QED
  BY <1>1, <1>2, <1>3, <1>4, <1>5 DEF RegistryNext

\* The tables hold on the way of a platform.
LEMMA RegistryInvAlways == RegistrySpec => []RegistryInv
BY RegistryInitInv, RegistryNextInv, PTL DEF RegistrySpec

\* FootersReadable: whichever of the pages packed a game, and however often it was loaded
\* and packed again, its footer's ids are in the tables, and lead back to the format that
\* was packed (lib.rs, writer.rs, lpl.rs, main.rs).
THEOREM FootersAlwaysReadable == RegistrySpec => []FootersReadable
<1>1. RegistryInv => FootersReadable
  BY DEF RegistryInv
<1> QED
  BY <1>1, RegistryInvAlways, PTL

\* PlatformKept: the id in the footer is that of the platform the user picked, unless the
\* planner's own list (lpl.rs) is without it: then only a set that is packed from the
\* files that were chosen (main.rs) keeps it, not the same set once it was loaded.
THEOREM PlatformAlwaysKept == RegistrySpec => []PlatformKept
<1>1. RegistryInv => PlatformKept
  BY DEF RegistryInv, PlatformKept, Planned
<1> QED
  BY <1>1, RegistryInvAlways, PTL
=============================================================================
