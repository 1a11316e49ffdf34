------------------------------- MODULE RtsaFile -------------------------------
(***************************************************************************)
(* RtsaSource (file_source.rs): opening an RTSA recording - the chain of   *)
(* sub-streams, the scan that indexes its SAMP chunks, the metadata, the   *)
(* detour of a compressed recording through RTSAFileTool - and then        *)
(* reading, seeking and resetting, for the whole stream or for one of its  *)
(* sub-streams.                                                            *)
(*                                                                         *)
(* A file is a sequence of cells: a chunk header is one cell, and so is    *)
(* each value of a payload and each byte of anything else.  Offsets count  *)
(* cells from 0.  The files and RTSAFileTool are external.                 *)
(***************************************************************************)
EXTENDS Integers, Sequences, SequencesExt, FiniteSets, FiniteSetsExt

CONSTANTS
  Files,               \* the recordings there are to open
  Counts,              \* what a caller asks a read for
  ToolTime,            \* when RTSAFileTool runs
  MaxSeeks,            \* bounds seeks and resets
  \* How far open looks for a chunk, in cells
  TailWindow,          \* find_dsft_tail: before the end of the file
  NearBefore, Near,    \* find_strt_near_stream, find_dsfh_near_stream: from there, that many
  HeadBefore, HeadSize,\* find_dsfh_chunk, around the head and the midpoint
  Search,              \* broad_search_for_chunk: SEARCH_CHUNK_SIZE
  StrmBefore, Strm,    \* process_strh_based_structure
  ScanAhead,           \* how far that scans for SAMP chunks
  Small                \* a header found by its signature is of a smaller chunk

(***************************************************************************)
(* A file: its cells, and for the properties what it was written with and  *)
(* has not lost (MCRtsaFile).                                              *)
(*                                                                         *)
(* A chunk's header is a cell with its id, its size in cells (0: less than *)
(* a header) and its fields.  SAMP: stream, sub, payload, type, depth      *)
(* (values a sample), packed (compression > 0), num.  STRT: stream_offset, *)
(* the heads of four chains, num_samples, end_time.  STRM: stream,         *)
(* start_time.  SSTR, ANTA, MDTT, SPRV: nr, next (SSTR: rate).  DSFT:      *)
(* stream_offset.  DSFH: creation.                                         *)
(***************************************************************************)

VARIABLES
  file,                \* the recording
  opened,              \* "no" | "failed" | "raw" (reverse order, no SAMP chunks) | "indexed"
  samp_chunk_offsets, samp_chunk_start_samples,
  iq_stream_id,
  metadata,            \* what of it the properties are about
  current_sample_index,
  chunk_scan_hint,
  position,            \* of the reader
  result,              \* of the last call
  \* for the properties, since the last open, seek or reset
  filter,              \* the sub-stream all reads asked for, or "none" or "mixed"
  origin, played,      \* where they began and what they returned
  seeks

reader_vars == <<current_sample_index, chunk_scan_hint, position>>
index_vars  == <<file, opened, samp_chunk_offsets, samp_chunk_start_samples, iq_stream_id,
                 metadata>>
ghost_vars  == <<filter, origin, played, seeks>>
vars == <<index_vars, reader_vars, result, ghost_vars>>

Least(a, b) == IF a < b THEN a ELSE b
Larger(a, b) == IF a > b THEN a ELSE b
Whole == 0             \* a read of whatever sub-stream comes

Nothing  == [is |-> "nothing"]
Failed   == [is |-> "error"]
AtEnd(sub) == [is |-> "end", sub |-> sub]
Fresh == -1            \* no read since then
Mixed == -2
Data(kind, cells) == [is |-> kind, cells |-> cells]
-----------------------------------------------------------------------------
(* Opening *)

Cell(f, at) == f.cells[at + 1]
Known == {"DSFH", "STRM", "SAMP", "SSTR", "ANTA", "MDTT", "SPRV", "STRT", "DSFT"}
NoChunk == [id |-> "none"]

\* The offsets from..end - 1 where a signature is.
Signatures(f, id, from, end) ==
  {at \in 0..Len(f.cells) - 1 : from <= at /\ at < end /\ Cell(f, at).id = id}

Window(f, id, offset, before, size) ==
  Signatures(f, id, Larger(offset - before, 0), Larger(offset - before, 0) + size)

find_dsft_tail(f) ==
  LET tails == Signatures(f, "DSFT", Len(f.cells) - TailWindow, Len(f.cells))
  IN  IF tails = {} THEN NoChunk ELSE Cell(f, Max(tails))

\* From the head of the file, in whole pieces.
broad_search_for_chunk(f, bound) ==
  Signatures(f, "DSFH", 0, ((bound - 1) \div Search + 1) * Search)

find_dsfh_chunk(f, bound) ==
  LET around(pos) == Signatures(f, "DSFH", pos - HeadBefore, Least(pos + HeadSize, bound))
  IN  CASE around(0) # {}            -> around(0)
        [] around(0) = {} /\ around(bound \div 2) # {} -> around(bound \div 2)
        [] OTHER                     -> broad_search_for_chunk(f, bound)

find_dsfh_near_stream(f, area) ==
  LET near == Window(f, "DSFH", area, NearBefore, Near)
      all  == IF near # {} /\ Cell(f, Min(near)).size < Small THEN near
              ELSE find_dsfh_chunk(f, 2 * area)
  IN  IF all = {} THEN NoChunk ELSE Cell(f, Min(all))

find_strt_near_stream(f, area) ==
  LET near == Window(f, "STRT", area, NearBefore, Near)
  IN  IF near = {} THEN NoChunk ELSE Cell(f, Min(near))

\* The first offset in from..end that starts with a known ID, or end.
resync_to_chunk_id(f, from, end) ==
  Min({end} \cup {at \in from..end - 1 : Cell(f, at).id \in Known})

\* Whether a header can be stepped over.
Sound(f, at) == Cell(f, at).id \in Known /\ Cell(f, at).size > 0

\* The offsets of the SAMP chunks from start to end.
scan_for_samp_chunks(f, start, end) ==
  LET stop == Least(end, Len(f.cells))
      found[at \in Nat] ==
        IF at >= stop THEN << >>
        ELSE IF ~Sound(f, at) THEN found[resync_to_chunk_id(f, at + 1, stop)]
        ELSE (IF Cell(f, at).id = "SAMP" THEN <<at>> ELSE << >>) \o found[at + Cell(f, at).size]
  IN  found[start]

\* The cells of a backward-linked chain; a bad link or one already followed ends it.
Chain(f, id, head) ==
  LET walk[visited \in SUBSET Nat, at \in Nat] ==
        IF at \in visited \cup {0} \/ at >= Len(f.cells) \/ Cell(f, at).id # id THEN visited
        ELSE walk[visited \cup {at}, Cell(f, at).next]
  IN  {Cell(f, at) : at \in walk[{}, head]}

parse_sstr_chain(f, strt) == Chain(f, "SSTR", strt.sub_stream_offset)
parse_anta_chain(f, strt) == Chain(f, "ANTA", strt.antenna_offset)
parse_mdtt_chain(f, strt) == Chain(f, "MDTT", strt.metadata_offset)
parse_sprv_tree(f, strt)  == Chain(f, "SPRV", strt.preview_offset)

\* STRT says where everything is.
process_strt_based_structure(f, strt, area) ==
  LET at == strt.stream_offset
  IN  [strt |-> strt,
       strm |-> IF at < Len(f.cells) /\ Cell(f, at).id = "STRM" THEN Cell(f, at) ELSE NoChunk,
       offsets |-> scan_for_samp_chunks(f, at, area),
       sub_streams |-> parse_sstr_chain(f, strt), antennas |-> parse_anta_chain(f, strt),
       definitions |-> parse_mdtt_chain(f, strt), previews |-> parse_sprv_tree(f, strt)]

\* Without STRT, STRM is looked for and there are no chains.
process_strh_based_structure(f, area) ==
  LET near == Window(f, "STRM", area, StrmBefore, Strm)
      first == Cell(f, Min(near))
  IN  [strt |-> NoChunk,
       strm |-> IF near # {} /\ first.size \in 1..Small - 1 THEN first ELSE NoChunk,
       offsets |-> scan_for_samp_chunks(f, area, area + ScanAhead),
       sub_streams |-> {}, antennas |-> {}, definitions |-> {}, previews |-> {}]

\* parse_rtsa_with_tail: dsfh and area are the header's and where the tail says the stream is.
Parsed(f) ==
  LET tail == find_dsft_tail(f)
      area == IF tail = NoChunk THEN 0 ELSE tail.stream_offset
      strt == find_strt_near_stream(f, area)
      found == CASE area = 0 -> [strm |-> NoChunk]
                 [] area > 0 /\ strt # NoChunk -> process_strt_based_structure(f, strt, area)
                 [] OTHER -> process_strh_based_structure(f, area)
  IN  [area |-> area, dsfh |-> IF area = 0 THEN NoChunk ELSE find_dsfh_near_stream(f, area)]
        @@ found

SampsOf(f, p) == SelectSeq(p.offsets, LAMBDA at : Cell(f, at).stream = p.strm.stream)

\* The sub-stream of the stream's first SAMP chunk.
FirstSub(f, p) == {s \in p.sub_streams : s.nr = Cell(f, Head(SampsOf(f, p))).sub}

\* Whether there is what open needs: the header, the stream, and its sub-stream or raw samples.
HasMetadata(f, p) ==
  /\ p.dsfh # NoChunk /\ p.strm # NoChunk
  /\ IF SampsOf(f, p) # << >> THEN FirstSub(f, p) # {}
     ELSE p.strt # NoChunk \/ p.offsets = << >>

\* The samples the chunks at these offsets declare.
Sum(f, offsets) ==
  LET sum[k \in 0..Len(offsets)] == IF k = 0 THEN 0 ELSE sum[k - 1] + Cell(f, offsets[k]).num
  IN  sum[Len(offsets)]

\* The first sample of each chunk, counted within its stream and sub-stream.
StartSamples(f, offsets) ==
  [k \in DOMAIN offsets |->
     LET same(at) == /\ Cell(f, at).stream = Cell(f, offsets[k]).stream
                     /\ Cell(f, at).sub = Cell(f, offsets[k]).sub
     IN  Sum(f, SelectSeq(SubSeq(offsets, 1, k - 1), same))]

\* The sample count: STRT's, or the chunks'; of a raw recording, what its values hold.
TotalOf(f, p) ==
  IF p.offsets = << >> THEN p.area \div 2
  ELSE IF SampsOf(f, p) # << >> /\ p.strt # NoChunk /\ p.strt.num_samples > 0
  THEN p.strt.num_samples
  ELSE Sum(f, SampsOf(f, p))

\* The sub-stream's rate, or that of any that has one.
RateOf(f, p) ==
  LET first == IF SampsOf(f, p) = << >> THEN {} ELSE {s.rate : s \in FirstSub(f, p)}
  IN  Max({0} \cup IF first \ {0} # {} THEN first ELSE {s.rate : s \in p.sub_streams})

\* STRM's start, or else the file's creation; STRT's duration behind STRM's start, or else the
\* samples' at their rate.
TimesOf(f, p) ==
  LET creation == p.dsfh.creation
      start == IF p.strm.start_time > 0 THEN p.strm.start_time ELSE creation
      told  == SampsOf(f, p) # << >> /\ p.strt # NoChunk /\ p.strt.end_time > 0
      total == TotalOf(f, p)
  IN  [creation |-> creation, start |-> start,
       end |-> IF told THEN p.strm.start_time + p.strt.end_time
               ELSE IF RateOf(f, p) > 0 /\ total > 0 THEN start + total \div RateOf(f, p)
               ELSE 0]

\* The times of a recording RTSAFileTool has converted: its own DSFH is of the conversion.
Restored(converted, times) ==
  IF converted.start = converted.creation
  THEN [creation |-> times.creation, start |-> times.creation,
        end |-> times.creation + Larger(converted.end - converted.start, 0)]
  ELSE [converted EXCEPT !.creation = times.creation]

IsCompressedIq(f, p) ==
  \E k \in DOMAIN p.offsets :
    LET samp == Cell(f, p.offsets[k]) IN samp.payload = "iq" /\ samp.packed

\* What RTSAFileTool writes.
Unpacked(f) == [f EXCEPT !.cells = [k \in DOMAIN @ |->
                  CASE @[k].id = "SAMP" -> [@[k] EXCEPT !.packed = FALSE]
                    [] @[k].id = "DSFH" -> [@[k] EXCEPT !.creation = ToolTime]
                    [] OTHER -> @[k]]]

\* build_comprehensive_metadata, with the times it has found.
Metadata(f, p, times) ==
  [total |-> TotalOf(f, p), times |-> times,
   sub_streams |-> {s.nr : s \in p.sub_streams}, antennas |-> {a.nr : a \in p.antennas},
   definitions |-> {d.nr : d \in p.definitions}, previews |-> {v.nr : v \in p.previews}]

Refuse == /\ opened' = "failed" /\ result' = Failed
          /\ UNCHANGED <<file, iq_stream_id, samp_chunk_offsets, samp_chunk_start_samples, metadata>>

\* What open_internal leaves when it succeeds on f, with the times it found.
Accept(f, p, times) ==
  /\ file' = f /\ opened' = IF p.offsets = << >> THEN "raw" ELSE "indexed"
  /\ iq_stream_id' = p.strm.stream
  /\ samp_chunk_offsets' = p.offsets /\ samp_chunk_start_samples' = StartSamples(f, p.offsets)
  /\ metadata' = Metadata(f, p, times)
  /\ result' = Nothing

\* RtsaSource::open; tool says what becomes of a call of RTSAFileTool.
open(tool) ==
  /\ opened = "no"
  /\ LET p == Parsed(file)
         plain == Unpacked(file)
         q == Parsed(plain)
     IN  IF ~HasMetadata(file, p) THEN Refuse
         ELSE IF ~IsCompressedIq(file, p) THEN Accept(file, p, TimesOf(file, p))
         ELSE IF tool # "converts" THEN Refuse
         ELSE Accept(plain, q, Restored(TimesOf(plain, q), TimesOf(file, p)))
  /\ UNCHANGED <<reader_vars, ghost_vars>>
-----------------------------------------------------------------------------
(* Reading *)

Samp(k) == Cell(file, samp_chunk_offsets[k])
Start(k) == samp_chunk_start_samples[k]
End(k) == Start(k) + Samp(k).num

\* Whether a read of sub at index holds chunk k's sample.
Holds(k, index, sub) ==
  /\ Samp(k).stream = iq_stream_id /\ sub \in {Whole, Samp(k).sub}
  /\ index \in Start(k)..End(k) - 1

\* The chunk a read at index is served from: the first from the hint on, or else the first; one
\* past the last if there is none.
NextChunk(index, hint, sub) ==
  LET held  == {k \in DOMAIN samp_chunk_offsets : Holds(k, index, sub)}
      ahead == {k \in held : k >= hint}
  IN  Min((IF ahead # {} THEN ahead ELSE held) \cup {Len(samp_chunk_offsets) + 1})

kind(samp) ==
  CASE samp.payload = "iq" /\ samp.type \in {"f32", "i16"} -> "iq"
    [] samp.payload = "spectra" /\ samp.type = "f32" -> "spectra"
    [] OTHER -> "unsupported"

\* The cells of a sample; a value of a type nobody knows has no width.
sample_stride(samp) == IF samp.type = "unknown" THEN 0 ELSE samp.depth

DataStart(k, index) == samp_chunk_offsets[k] + 1 + (index - Start(k)) * sample_stride(Samp(k))

\* The whole samples behind index that the chunk's size leaves room for.
Fits(k, index) ==
  LET payload == samp_chunk_offsets[k] + Samp(k).size - DataStart(k, index)
  IN  IF payload <= 0 \/ sample_stride(Samp(k)) = 0 THEN 0 ELSE payload \div sample_stride(Samp(k))

\* Mutant: the chunk's size is not looked at.
ToRead_declared(k, index, n) == Least(n, End(k) - index)

ToRead(k, index, n) ==
  LET declared == Least(n, End(k) - index)
  IN  IF Samp(k).packed THEN declared ELSE Least(declared, Fits(k, index))

\* Whether a read of n samples fails in chunk k: not pairs, no complete sample, packed, cut off.
Refuses(k, index, n) ==
  LET samp == Samp(k)
  IN  \/ kind(samp) = "iq" /\ samp.depth # 2
      \/ ~samp.packed /\ n > 0 /\ ToRead(k, index, n) = 0
      \/ samp.packed /\ samp.type = "f32" /\ kind(samp) # "unsupported"
      \/ /\ kind(samp) # "unsupported"
         /\ DataStart(k, index) + ToRead(k, index, n) * sample_stride(samp) > Len(file.cells)

Skips(k, index, n) == kind(Samp(k)) = "unsupported" /\ ~Refuses(k, index, n)

\* Where a read ends up: chunks it cannot decode are skipped whole.
Settled(index, hint, sub, n) ==
  LET at[i \in Nat, h \in Nat] ==
        LET k == NextChunk(i, h, sub)
        IN  IF k > Len(samp_chunk_offsets) THEN [index |-> i, hint |-> h, chunk |-> 0]
            ELSE IF Skips(k, i, n) THEN at[End(k), k]
            ELSE [index |-> i, hint |-> k, chunk |-> k]
  IN  at[index, hint]

Cells(from, count) == SubSeq(file.cells, from + 1, from + count)

Advanced(index, count, n) == index + count

\* read_raw_iq_samples.
RawRead(n) ==
  LET count == Least(n, metadata.total - current_sample_index)
  IN  /\ IF count <= 0
         THEN result' = AtEnd(Whole) /\ UNCHANGED current_sample_index
         ELSE /\ result' = Data("iq", Cells(2 * current_sample_index, 2 * count))
              /\ current_sample_index' = Advanced(current_sample_index, count, count)
      /\ UNCHANGED chunk_scan_hint

ChunkRead(at, n, sub) ==
  /\ chunk_scan_hint' = at.hint
  /\ \/ at.chunk = 0
        /\ result' = AtEnd(sub) /\ current_sample_index' = at.index
     \/ at.chunk # 0 /\ Refuses(at.chunk, at.index, n)
        /\ result' = Failed /\ current_sample_index' = at.index
     \/ at.chunk # 0 /\ ~Refuses(at.chunk, at.index, n)
        /\ LET count == ToRead(at.chunk, at.index, n)
           IN  /\ result' = Data(kind(Samp(at.chunk)),
                                 Cells(DataStart(at.chunk, at.index),
                                       count * sample_stride(Samp(at.chunk))))
               /\ current_sample_index' = Advanced(at.index, count, n)

IndexedRead(n, sub) ==
  \E at \in {Settled(current_sample_index, chunk_scan_hint, sub, n)} : ChunkRead(at, n, sub)

read_samples(n, sub) ==
  /\ IF opened = "raw" THEN RawRead(n) ELSE opened = "indexed" /\ IndexedRead(n, sub)
  /\ position' = Fresh
  /\ filter' = IF filter \in {Fresh, sub} THEN sub ELSE Mixed
  /\ played' = IF result'.is \in {"iq", "spectra"} THEN played \o result'.cells ELSE played
  /\ UNCHANGED <<index_vars, origin, seeks>>
-----------------------------------------------------------------------------
(* Seeking *)

\* Mutant: the hint is kept over a seek.
HintAfterSeek_kept == chunk_scan_hint

\* The seek may have moved behind the hint.
HintAfterSeek == 1

Replay(index) ==
  /\ seeks < MaxSeeks /\ seeks' = seeks + 1
  /\ current_sample_index' = index /\ chunk_scan_hint' = HintAfterSeek
  /\ filter' = Fresh /\ origin' = index /\ played' = << >> /\ result' = Nothing
  /\ UNCHANGED index_vars

SoughtChunk(index) ==
  LET held == {k \in DOMAIN samp_chunk_offsets : Holds(k, index, Whole)}
  IN  IF held = {} THEN 0 ELSE Min(held)

seek_to_sample(index) ==
  /\ opened \in {"raw", "indexed"} /\ index < metadata.total
  /\ \/ opened = "raw" /\ position' = 2 * index
     \/ opened = "indexed" /\ SoughtChunk(index) # 0
        /\ position' = DataStart(SoughtChunk(index), index)
  /\ Replay(index)

\* Out of bounds, or in no chunk: nothing moves.
SeekFails(index) ==
  /\ opened \in {"raw", "indexed"} /\ seeks < MaxSeeks /\ seeks' = seeks + 1
  /\ index >= metadata.total \/ (opened = "indexed" /\ SoughtChunk(index) = 0)
  /\ result' = Failed /\ UNCHANGED <<index_vars, reader_vars, filter, origin, played>>

reset ==
  /\ opened \in {"raw", "indexed"}
  /\ LET samps == SelectSeq(samp_chunk_offsets, LAMBDA at : Cell(file, at).stream = iq_stream_id)
     IN  position' = IF samps = << >> THEN 0 ELSE Head(samps) + 1
  /\ Replay(0)
-----------------------------------------------------------------------------
Init ==
  /\ file \in Files /\ opened = "no"
  /\ samp_chunk_offsets = << >> /\ samp_chunk_start_samples = << >> /\ iq_stream_id = 0
  /\ metadata = [total |-> 0]
  /\ current_sample_index = 0 /\ chunk_scan_hint = 1 /\ position = Fresh
  /\ result = Nothing
  /\ filter = Fresh /\ origin = 0 /\ played = << >> /\ seeks = 0

Subs == {Whole} \cup {Samp(k).sub : k \in DOMAIN samp_chunk_offsets}

Next ==
  \/ \E tool \in {"missing", "fails", "leaves it packed", "converts"} : open(tool)
  \/ \E n \in Counts, sub \in Subs : read_samples(n, sub)
  \/ \E index \in 0..metadata.total : seek_to_sample(index) \/ SeekFails(index)
  \/ reset

Spec == Init /\ [][Next]_vars
-----------------------------------------------------------------------------
(* Properties *)

\* The cursor and the hint stay within the index.
TypeOK ==
  /\ opened \in {"no", "failed", "raw", "indexed"}
  /\ chunk_scan_hint \in 1..Len(samp_chunk_offsets) + 1
  /\ opened = "raw" => current_sample_index \in 0..metadata.total
  /\ opened = "indexed" =>
       current_sample_index \in 0..Max({0} \cup {End(k) : k \in DOMAIN samp_chunk_offsets})

\* A whole recording opens; of one that opens, the chunks are indexed once each and in order,
\* wherever they lie, whatever is between them and whatever their payloads look like, and each
\* chain is followed to its end, its damage or where it closes on itself.
IndexIsExact ==
  /\ opened = "failed" => file.may_fail
  /\ opened \in {"raw", "indexed"} =>
       /\ samp_chunk_offsets = file.samps
       /\ \A chain \in DOMAIN file.chains : metadata[chain] = file.chains[chain]

\* What the recording holds of a sub-stream, cell by cell.
Held(sub) ==
  LET payload(k) == LET samp == Samp(k)
                    IN  Cells(samp_chunk_offsets[k] + 1,
                              Least(samp.num * sample_stride(samp), samp.size - 1))
      mine == SelectSeq([k \in DOMAIN samp_chunk_offsets |-> k],
                        LAMBDA k : /\ Samp(k).stream = iq_stream_id /\ Samp(k).sub = sub
                                   /\ kind(Samp(k)) # "unsupported")
  IN  IF opened = "raw" THEN Cells(0, 2 * metadata.total)
      ELSE FoldSeq(LAMBDA k, all : payload(k) \o all, << >>, mine)

OneSubStream == Cardinality(Subs) <= 2

\* Reading a sub-stream, or a recording that has one, gives what it holds without a hole, a
\* repeat or a foreign cell, however the reads are sized and whatever chunks lie between: from
\* its start when nobody sought, and to its end when the reads come to it.
PlaybackIsGapless ==
  opened \in {"raw", "indexed"} /\ (filter > Whole \/ (filter = Whole /\ OneSubStream)) =>
    LET held == Held(IF filter = Whole THEN Max(Subs) ELSE filter)
    IN  \E skip \in 0..Len(held) - Len(played) :
          /\ played = SubSeq(held, skip + 1, skip + Len(played))
          /\ origin = 0 => skip = 0
          /\ result.is = "end" /\ played # << >> => skip + Len(played) = Len(held)

\* A chunk is found from the hint wherever it would be found by looking from the first, as long
\* as the caller keeps to one sub-stream, or to none.
HintIsOnlyAHint ==
  opened = "indexed" /\ filter # Mixed =>
    LET sub == IF filter = Fresh THEN Whole ELSE filter
    IN  NextChunk(current_sample_index, chunk_scan_hint, sub)
          = NextChunk(current_sample_index, 1, sub)

\* After a seek the reader stands where the next unfiltered read begins, in the same chunk.
SeekAgreesWithRead ==
  position # Fresh =>
    CASE opened = "raw" -> position = 2 * current_sample_index
      [] opened = "indexed" ->
           LET k == NextChunk(current_sample_index, chunk_scan_hint, Whole)
           IN  k \in DOMAIN samp_chunk_offsets => position = DataStart(k, current_sample_index)

\* A read that reports the end has nothing left to read, even when reads of one sub-stream have
\* moved the cursor and the hint past chunks of another.
EndIsTheEnd ==
  result.is = "end" /\ opened = "indexed" =>
    \A k \in DOMAIN samp_chunk_offsets :
      /\ Samp(k).stream = iq_stream_id /\ result.sub \in {Whole, Samp(k).sub}
      => End(k) <= current_sample_index

\* A recording keeps its own times, also when RTSAFileTool has rewritten it - unless it gives its
\* duration and not its start, which puts its end before its start.
TimesAreTheRecordings ==
  opened \in {"raw", "indexed"} /\ (file.begun > 0 \/ ~file.timed) =>
    LET start == IF file.begun > 0 THEN file.begun ELSE file.created
    IN  metadata.times = [creation |-> file.created, start |-> start,
                          end |-> IF file.lasted > 0 THEN start + file.lasted ELSE 0]
=============================================================================
