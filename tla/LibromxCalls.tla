---------------------------- MODULE LibromxCalls ----------------------------
(***************************************************************************)
(* The safe wrappers of romx-core around libromx: chunked reads, buffers   *)
(* that are asked for twice, counted lists, and cursors.  libromx itself   *)
(* is external and not trusted: a call may fail, report a size of zero or  *)
(* one that exceeds what was asked for, or change its mind between two     *)
(* calls.  A byte is its position in the data; Word - 1 is the largest     *)
(* u64, Word \div 2 - 1 the largest i64.                                   *)
(***************************************************************************)
EXTENDS Integers, Sequences

CONSTANTS
  MaxSize,  \* bound on the size of an entry, a buffer or a list
  Chunk,    \* the size of the copy buffer (1 MiB in the code)
  Word      \* number of values of a u64

ASSUME LibromxAssumption == Chunk \in Nat \ {0} /\ MaxSize \in Nat /\ Word \in Nat

VARIABLES
  call,     \* the wrapper at work
  size,     \* the size the caller expects, the capacity offered, or the count
  offset,   \* how far it has come
  sink,     \* what it has written or collected
  returned, \* "none", "ok" or "err"
  called    \* flips with every call to libromx, also one that changes nothing here

callVars == <<call, size, offset, sink, returned, called>>

Streams == {"entry", "region", "bundle"}
Cursors == {"payload", "vfs", "mutable"}
Lists == {"entries", "objects"}
Texts == {"json", "string"}

CallsInit == call = "none" /\ size = 0 /\ offset = 0 /\ sink = <<>> /\ returned = "none"
             /\ called = FALSE

Running(kind) == call = kind /\ returned = "none"
GiveBack(outcome) == returned' = outcome /\ UNCHANGED call
Continue == UNCHANGED <<call, returned>>

\* Bytes first + 1 .. first + n of the data.
Bytes(first, n) == [k \in 1..n |-> first + k]

------------------------------------------------------------------------------
(* Opening: NonNull::new refuses a null handle that comes with ROMX_OK. *)

\* check(code) and NonNull::new.
Opened(code, null) == code = "ok" /\ ~null

OpenHandle(kind, n) ==
  /\ call = "none"
  /\ \E code \in {"ok", "error"}, null \in BOOLEAN :
       \/ /\ Opened(code, null)
          /\ call' = kind /\ size' = n
          /\ UNCHANGED <<offset, sink, returned, called>>
       \/ /\ ~Opened(code, null)
          /\ call' = kind /\ returned' = "err" /\ UNCHANGED <<size, offset, sink, called>>

OpenReader(n) == \E kind \in {"entry", "region"} \union Lists : OpenHandle(kind, n)
OpenMetadata(n) == \E kind \in Texts : OpenHandle(kind, n)
OpenVfs(n) == OpenHandle("vfs", n)
OpenPayload(n) == OpenHandle("payload", n)
OpenMutableFile(n) == OpenHandle("mutable", n)
OpenBundle(n) == OpenHandle("bundle", n)

------------------------------------------------------------------------------
(* Chunked reads. *)

Least(a, b) == IF a < b THEN a ELSE b
Request == Least(size - offset, Chunk)

\* Defects: a read of nothing goes on, a read of too much is written out.
ValidRead_Zero(read) == read <= Request
ValidRead_Long(read) == read # 0

\* A read of nothing, or of more than was asked for, is an error.
ValidRead(read) == read # 0 /\ read <= Request

\* One round of the loop: libromx may report any size; the bytes up to Request are in
\* the buffer, those beyond it are not the entry's.
ReadRound(kind) ==
  /\ Running(kind)
  /\ \/ /\ offset < size
        /\ \E read \in 0..(Request + 1) :
             \/ /\ ValidRead(read)
                /\ sink' = sink \o Bytes(offset, read)
                /\ offset' = offset + read
                /\ Continue
             \/ /\ ~ValidRead(read)
                /\ GiveBack("err") /\ UNCHANGED <<offset, sink>>
     \/ offset < size /\ GiveBack("err") /\ UNCHANGED <<offset, sink>>
     \/ offset >= size /\ GiveBack("ok") /\ UNCHANGED <<offset, sink>>
  /\ UNCHANGED size

ReadEntry == ReadRound("entry")
ReadRegion == ReadRound("region")
ReadBundleEntry == ReadRound("bundle")

\* Reader::entries, mutable_object: every index below the count, or an error.
ListEntries ==
  /\ \E kind \in Lists : Running(kind)
  /\ \/ /\ offset < size
        /\ sink' = Append(sink, offset + 1) /\ offset' = offset + 1
        /\ Continue
     \/ (offset < size \/ offset = 0) /\ GiveBack("err") /\ UNCHANGED <<offset, sink>>
     \/ offset = size /\ GiveBack("ok") /\ UNCHANGED <<offset, sink>>
  /\ UNCHANGED size

------------------------------------------------------------------------------
(* copy_c_buffer: the size is asked for, then the bytes. *)

\* The length the second call reports may not exceed the capacity it was given.
Fits(n) == n <= size

\* The first call asks for the size; an empty text needs no second one.
AskSize ==
  /\ (\E kind \in Texts : Running(kind)) /\ offset = 0
  /\ \/ \E n \in 0..MaxSize :
          /\ size' = n
          /\ \/ n = 0 /\ GiveBack("ok") /\ UNCHANGED offset
             \/ n # 0 /\ offset' = 1 /\ Continue
     \/ GiveBack("err") /\ UNCHANGED <<size, offset>>
  /\ UNCHANGED sink

CopyText ==
  /\ (\E kind \in Texts : Running(kind)) /\ offset = 1
  /\ \/ \E n \in 0..(MaxSize + 1) :
          \/ Fits(n) /\ sink' = Bytes(0, n) /\ GiveBack("ok")
          \/ ~Fits(n) /\ GiveBack("err") /\ UNCHANGED sink
     \/ GiveBack("err") /\ UNCHANGED sink
  /\ UNCHANGED <<size, offset>>

------------------------------------------------------------------------------
(* Cursors, whose position is libromx's. *)

\* i64::try_from: no offset at all when the value is too large.
StartOffset(value) == IF value < Word \div 2 THEN {value} ELSE {}

\* libromx moves to where the offset leads from the origin, unless that is negative.
Moves(base, delta) == IF base + delta < 0 THEN 0 ELSE base + delta

\* SeekFrom::Start, whose u64 the C interface takes as an i64.
CursorSeek(kind) ==
  /\ Running(kind)
  /\ \E value \in 0..(Word - 1) :
       \/ \E delta \in StartOffset(value) :
            /\ offset' = Moves(0, delta)
            /\ sink' = <<value>>
            /\ call' = "sought" /\ returned' = "ok"
       \/ StartOffset(value) = {} /\ GiveBack("err") /\ UNCHANGED <<offset, sink>>
  /\ UNCHANGED size

\* A read larger than the caller's buffer is an error.
CursorFits(n) == n <= size

\* An empty buffer is not passed on; else libromx reads, or says so.
CursorRead(kind) ==
  /\ Running(kind)
  /\ \/ size = 0 /\ GiveBack("ok") /\ UNCHANGED sink
     \/ /\ size # 0
        /\ \E n \in 0..(size + 1) :
             \/ CursorFits(n) /\ sink' = Bytes(offset, n) /\ GiveBack("ok")
             \/ ~CursorFits(n) /\ GiveBack("err") /\ UNCHANGED sink
     \/ size # 0 /\ GiveBack("err") /\ UNCHANGED sink
  /\ UNCHANGED <<size, offset>>

PayloadSeek == CursorSeek("payload")
PayloadRead == CursorRead("payload")
VfsSeek == CursorSeek("vfs")
VfsRead == CursorRead("vfs")
MutableSeek == CursorSeek("mutable")
MutableRead == CursorRead("mutable")

------------------------------------------------------------------------------

CallsStep ==
  /\ called' = ~called
  /\ \/ ReadEntry \/ ReadRegion \/ ReadBundleEntry \/ ListEntries \/ AskSize \/ CopyText
     \/ PayloadSeek \/ PayloadRead \/ VfsSeek \/ VfsRead \/ MutableSeek \/ MutableRead

CallsNext ==
  \/ \E n \in 0..MaxSize :
       OpenReader(n) \/ OpenMetadata(n) \/ OpenVfs(n) \/ OpenPayload(n)
         \/ OpenMutableFile(n) \/ OpenBundle(n)
  \/ CallsStep

CallsFairness == WF_callVars(CallsStep)
CallsSpec == CallsInit /\ [][CallsNext]_callVars /\ CallsFairness

------------------------------------------------------------------------------
(* Properties. *)

\* Whatever libromx answers, what a read or a list has collected is a prefix of the
\* data: no byte twice, none left out, none beyond what was asked for; Ok means all of
\* it.  No buffer is handed on with more bytes than the room it offered, and a seek that
\* reports success leaves the cursor where the caller said, for every u64.
ReadsExact ==
  /\ call \in Streams \union Lists =>
       /\ sink = Bytes(0, offset) /\ offset <= size
       /\ returned = "ok" => offset = size
  /\ call \in Texts \union Cursors => Len(sink) <= size
  /\ call = "sought" => sink = <<offset>>

\* A wrapper that was called returns: libromx cannot keep it in its loop by reading
\* nothing, again and again.
CallsReturn == call # "none" ~> returned # "none"
=============================================================================
