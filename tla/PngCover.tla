------------------------------ MODULE PngCover ------------------------------
(***************************************************************************)
(* validate_png_bytes, the check every cover passes before it is packed,   *)
(* one chunk at a time.  A chunk is its type, the length of its data as    *)
(* the check tells lengths apart, and whether it fits the file and its CRC *)
(* is right; the bytes are abstracted.                                     *)
(***************************************************************************)
EXTENDS Naturals, Sequences

CONSTANT MaxChunks  \* bound on the number of chunks read

\* "ANCI" is any ancillary type, "CRIT" an unknown critical one, "bad" no type at all.
ChunkTypes == {"IHDR", "PLTE", "IDAT", "IEND", "ANCI", "CRIT", "bad"}
\* "zero", "palette" (a multiple of three up to 768) or "other".
Lengths == {"zero", "palette", "other"}

VARIABLES
  color,      \* colour type of the IHDR
  info,       \* info.is_some()
  sawIdat, endedIdat, sawPlte, sawIend,  \* the flags of that name
  chunks,     \* the chunks read so far
  verdict     \* "reading", "accepted" or "refused"

pngVars == <<color, info, sawIdat, endedIdat, sawPlte, sawIend, chunks, verdict>>
flags == <<color, info, sawIdat, endedIdat, sawPlte, sawIend>>

PngInit ==
  /\ color = 0 /\ info = FALSE
  /\ sawIdat = FALSE /\ endedIdat = FALSE /\ sawPlte = FALSE /\ sawIend = FALSE
  /\ chunks = <<>> /\ verdict = "reading"

\* validate_png_ihdr: the dimensions, methods and depth of the header are in range.
HeaderInRange(chunk) == chunk.header \in {0, 2, 3, 4, 6}

\* Defect: IDAT chunks that are not consecutive are taken.
IdatAllowed_Anywhere == TRUE

\* No IDAT after another chunk has followed the first ones.
IdatAllowed == ~endedIdat

PlteAllowed(chunk) ==
  ~sawPlte /\ ~sawIdat /\ color \notin {0, 4} /\ chunk.length = "palette"
IendAllowed(chunk) == chunk.length = "zero" /\ sawIdat /\ (color = 3 => sawPlte)

\* What the loop refuses of the next chunk.
Refused(chunk) ==
  \/ chunk.damaged \/ chunk.type = "bad"
  \/ ~info /\ (chunk.type # "IHDR" \/ ~HeaderInRange(chunk))
  \/ info /\ chunk.type = "IHDR"
  \/ chunk.type = "PLTE" /\ ~PlteAllowed(chunk)
  \/ chunk.type = "IDAT" /\ ~IdatAllowed
  \/ chunk.type = "IEND" /\ ~IendAllowed(chunk)
  \/ chunk.type = "CRIT"

PngChunk == [type : ChunkTypes, length : Lengths, header : {0, 2, 3, 7}, damaged : BOOLEAN]

\* The chunks that differ in what is looked at: a header's fields, a palette's length.
Plain(chunk) ==
  /\ chunk.type # "IHDR" => chunk.header = 0
  /\ chunk.type \notin {"PLTE", "IEND"} => chunk.length = "other"
  /\ chunk.damaged => chunk.type = "ANCI"

\* One round of the loop.
ReadChunk ==
  /\ verdict = "reading" /\ ~sawIend /\ Len(chunks) < MaxChunks
  /\ \E chunk \in PngChunk :
       /\ Plain(chunk)
       /\ chunks' = Append(chunks, chunk)
       /\ \/ Refused(chunk) /\ verdict' = "refused" /\ UNCHANGED flags
          \/ /\ ~Refused(chunk)
             /\ info' = TRUE
             /\ color' = IF chunk.type = "IHDR" THEN chunk.header ELSE color
             /\ sawPlte' = (sawPlte \/ chunk.type = "PLTE")
             /\ sawIdat' = (sawIdat \/ chunk.type = "IDAT")
             /\ sawIend' = (chunk.type = "IEND")
             /\ endedIdat' = (endedIdat \/ (sawIdat /\ chunk.type \notin {"IDAT", "IEND"}))
             /\ UNCHANGED verdict

\* The bytes end, or something follows the IEND.
EndOfBytes ==
  /\ verdict = "reading"
  /\ \E trailing \in BOOLEAN :
       /\ trailing => sawIend
       /\ verdict' = IF sawIend /\ ~trailing /\ sawIdat THEN "accepted" ELSE "refused"
       /\ chunks' = IF trailing THEN Append(chunks, [type |-> "bad"]) ELSE chunks
  /\ UNCHANGED flags

PngNext == ReadChunk \/ EndOfBytes
PngSpec == PngInit /\ [][PngNext]_pngVars

------------------------------------------------------------------------------
(* The grammar of a PNG file, stated of the whole sequence. *)

Of(type) == {i \in 1..Len(chunks) : chunks[i].type = type}

WellFormed ==
  /\ chunks # <<>> /\ Of("IHDR") = {1} /\ Of("IEND") = {Len(chunks)}
  /\ Of("CRIT") = {} /\ Of("bad") = {}
  /\ \A i \in 1..Len(chunks) : ~chunks[i].damaged
  /\ Of("IDAT") # {}
  /\ \A i, j \in Of("IDAT") : \A k \in i..j : k \in Of("IDAT")
  /\ \A i, j \in Of("PLTE") : i = j
  /\ \A i \in Of("PLTE"), j \in Of("IDAT") : i < j
  /\ HeaderInRange(chunks[1])
  /\ chunks[1].header = 3 => Of("PLTE") # {}
  /\ chunks[1].header \in {0, 4} => Of("PLTE") = {}
  /\ \A i \in Of("PLTE") : chunks[i].length = "palette"
  /\ \A i \in Of("IEND") : chunks[i].length = "zero"

\* The chunk-by-chunk check and its flags accept exactly the covers that are well-formed
\* as a whole.
AcceptsExactlyPng == verdict # "reading" => (verdict = "accepted" <=> WellFormed)
=============================================================================
