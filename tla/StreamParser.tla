---------------------------- MODULE StreamParser ----------------------------
(***************************************************************************)
(* Framing of the RTSA HTTP stream (http_streaming.rs: scan_packet_header  *)
(* and StreamParser): chunks of any length are buffered, packets are found *)
(* by their JSON header and cut by the size it declares, and what cannot   *)
(* be framed or decoded is skipped.                                        *)
(*                                                                         *)
(* A byte is a record of what the scan tells apart (c) and of the packet   *)
(* of the stream it belongs to (of).  A header is two bytes, its opening   *)
(* brace and the rest; only a whole header of one packet parses as one.    *)
(* The sample values are not modelled, nor are the statistics; IQ pairs    *)
(* take two bytes and other values one.  The server is external.           *)
(***************************************************************************)
EXTENDS Integers, Sequences, SequencesExt, FiniteSetsExt

CONSTANTS
  Scripts(_),          \* of a format: the streams of packets a server may send
  Chunks,              \* lengths of the chunks the body arrives in
  MaxUsize,            \* usize::MAX
  MaxFramesPerBlock,   \* MAX_FRAMES_PER_BLOCK
  MaxBinaryPayload,    \* MAX_BINARY_PAYLOAD
  MaxJsonBuffer,       \* MAX_JSON_BUFFER
  CompactThreshold,    \* COMPACT_THRESHOLD
  MaxResets            \* bounds replaced connections

ParserAssumption ==
  /\ Chunks \subseteq Nat \ {0} /\ MaxResets \in Nat
  /\ MaxFramesPerBlock \in Nat
  /\ MaxBinaryPayload \in Nat /\ MaxUsize \in Nat /\ MaxBinaryPayload <= MaxUsize
  /\ MaxJsonBuffer \in Nat /\ CompactThreshold \in Nat \ {0}

VARIABLES
  \* external
  script,      \* the packets of this connection, in order
  sent,        \* bytes of it that arrived
  resets,
  \* StreamParser
  format,
  buffer, consumed, skip_bytes,
  \* a call
  recovering,  \* whether the caller uses process_data_recovering
  pc,          \* "idle" | "parsing" | "failed": the caller has an Err to reconnect on
  items,       \* what the call has found
  got,         \* what the calls on this connection have returned
  last         \* for the properties: the last packet an item was made of

vars == <<script, sent, resets, format, buffer, consumed, skip_bytes,
          recovering, pc, items, got, last>>
-----------------------------------------------------------------------------
(* The wire.  A packet is a record: valid (its header is a PacketMetadata), payload, *)
(* samples, compressed, readable (a JSON document's values are numbers), separator   *)
(* and body, the payload bytes that follow.                                          *)

Open == "{"
Terminators == {"RS", "LF"}

Bytes(chars, i) == [k \in 1..Len(chars) |-> [c |-> chars[k], of |-> i]]
Wire(s) ==
  FlattenSeq([i \in 1..Len(s) |-> Bytes(<<Open, "json">> \o s[i].separator \o s[i].body, i)])

\* The candidate header buf[i..j - 1] parses as the metadata of a packet.
Parses(buf, i, j) ==
  /\ j = i + 2
  /\ buf[i + 1] = [c |-> "json", of |-> buf[i].of]
  /\ script[buf[i].of].valid

-----------------------------------------------------------------------------
(* scan_packet_header *)

Candidates(buf)   == {i \in 1..Len(buf) : buf[i].c = Open}
EndsAfter(buf, i) == {j \in i..Len(buf) : buf[j].c \in Terminators}

\* Mutant: past a candidate that failed, the scan goes on behind its terminator.
HeadersIn_coarse(buf) ==
  {i \in Candidates(buf) :
     /\ EndsAfter(buf, i) # {} /\ Parses(buf, i, Min(EndsAfter(buf, i)))
     /\ \A k \in Candidates(buf) : k < i => \E j \in EndsAfter(buf, k) : j < i}

\* Every candidate is tried, one byte past the last; the header is the first that parses.
HeadersIn(buf) ==
  {i \in Candidates(buf) : EndsAfter(buf, i) # {} /\ Parses(buf, i, Min(EndsAfter(buf, i)))}

\* Mutant: a run of separator bytes is skipped.
payload_start_run(buf, i) ==
  LET end == Min(EndsAfter(buf, i))
  IN  Max({j \in end..Len(buf) : \A k \in end..j : buf[k].c \in Terminators})

\* One byte of separator, or the line feed and record separator of the real wire.
payload_start(buf, i) ==
  LET end == Min(EndsAfter(buf, i))
  IN  IF buf[end].c = "LF" /\ end < Len(buf) /\ buf[end + 1].c = "RS" THEN end + 1 ELSE end

scan_packet_header(buf) ==
  IF HeadersIn(buf) # {}
  THEN LET h == Min(HeadersIn(buf))
       IN  [found |-> TRUE, packet |-> buf[h].of, payload_start |-> payload_start(buf, h)]
  ELSE LET waiting == {i \in Candidates(buf) : EndsAfter(buf, i) = {}}
       IN  [found |-> FALSE,
            skippable |-> IF waiting = {} THEN Len(buf) ELSE Min(waiting) - 1]
-----------------------------------------------------------------------------
(* What a header says of its payload *)

Multiplied(n, k) == IF n * k > MaxUsize THEN {} ELSE {n * k}

\* The declared size, or nothing: it overflows, or is compressed without a byte length.
calculate_binary_size(m) ==
  CASE m.payload = "iq"         -> Multiplied(m.samples, 2)
    [] m.payload = "spectra"    -> IF m.compressed THEN {} ELSE Multiplied(m.samples, 1)
    [] m.payload = "categories" -> Multiplied(IF m.samples = 0 THEN 1 ELSE m.samples, 1)

-----------------------------------------------------------------------------
(* What becomes of the payload bytes *)

parse_iq_samples(data) == [k \in 1..Len(data) \div 2 |-> <<data[2 * k - 1], data[2 * k]>>]
parse_spectrum_samples(data) == [k \in 1..Len(data) |-> <<data[k]>>]
parse_binary_samples(m, data) ==
  IF m.payload = "iq" THEN parse_iq_samples(data) ELSE parse_spectrum_samples(data)

\* Compression is refused for every shape whose layout is not documented, and only
\* what calculate_binary_size could frame gets this far.
spectra_wavelet_grid(m) ==
  m.payload = "spectra" /\ m.samples \in 1..MaxFramesPerBlock
decompress_spectrum_data(m) == spectra_wavelet_grid(m)
Decodes(m) == m.payload = "iq" \/ (m.compressed => decompress_spectrum_data(m))

\* parse_json_samples: the values of the document are numbers.
ReadsDocument(m) == m.readable

\* What is lost with a packet that is dropped whole.
Undecoded(m) == IF m.payload = "iq" THEN "Lost" ELSE "Skipped"
-----------------------------------------------------------------------------
pending == SubSeq(buffer, consumed + 1, Len(buffer))

consume_buffer(n) ==
  LET front == consumed + n
  IN  IF front >= Len(buffer) THEN buffer' = << >> /\ consumed' = 0
      ELSE IF front >= CompactThreshold
           THEN buffer' = SubSeq(buffer, front + 1, Len(buffer)) /\ consumed' = 0
           ELSE consumed' = front /\ UNCHANGED buffer

Init ==
  /\ format \in {"json", "binary"} /\ script \in Scripts(format)
  /\ recovering \in BOOLEAN
  /\ sent = 0 /\ resets = 0 /\ buffer = << >> /\ consumed = 0 /\ skip_bytes = 0
  /\ pc = "idle" /\ items = << >> /\ got = << >> /\ last = 0

still == UNCHANGED <<script, resets, format, recovering>>

\* parse_buffered, up to its loop: the tail of a rejected payload is not buffered.
Receive(n) ==
  /\ pc = "idle" /\ sent + n <= Len(Wire(script))
  /\ sent' = sent + n
  /\ LET data == SubSeq(Wire(script), sent + 1, sent + n)
         skip == IF skip_bytes < n THEN skip_bytes ELSE n
     IN  /\ skip_bytes' = skip_bytes - skip
         /\ IF skip > 0 /\ skip = n
            THEN UNCHANGED <<buffer, pc>>
            ELSE buffer' = buffer \o SubSeq(data, skip + 1, n) /\ pc' = "parsing"
  /\ still /\ UNCHANGED <<consumed, items, got, last>>

\* The call returns: its items, or (process_data) an Err if there is a loss among them.
Returns(list) ==
  /\ pc' = "idle" /\ items' = << >>
  /\ got' = IF ~recovering /\ \E k \in 1..Len(list) : list[k].kind # "Packet"
            THEN Append(got, [kind |-> "Err"]) ELSE got \o list

Fails == pc' = "failed" /\ items' = << >> /\ got' = Append(got, [kind |-> "Err"])

\* Whether parsing stops at what was just found.
Ends(kind) == kind # "Packet" /\ ~recovering

Finds(kind, i, samples) ==
  LET item == [kind |-> kind, of |-> i, samples |-> samples]
  IN  /\ last' = i
      /\ IF Ends(kind) THEN Returns(Append(items, item))
                       ELSE items' = Append(items, item) /\ UNCHANGED <<pc, got>>

scan == scan_packet_header(pending)
metadata == script[scan.packet]

\* How long an unterminated header is waited for.
Endless(waiting) == waiting > MaxJsonBuffer

\* No header, or none that ended: what no header can begin in is spent.
AwaitHeader ==
  /\ pc = "parsing" /\ ~scan.found
  /\ consume_buffer(scan.skippable)
  /\ IF Endless(Len(pending) - scan.skippable) THEN Fails ELSE Returns(items)
  /\ still /\ UNCHANGED <<sent, skip_bytes, last>>

\* The samples are in the header's document.
ParseDocument ==
  /\ pc = "parsing" /\ scan.found /\ format = "json"
  /\ consume_buffer(scan.payload_start)
  /\ Finds(IF ReadsDocument(metadata) THEN "Packet" ELSE Undecoded(metadata), scan.packet, << >>)
  /\ still /\ UNCHANGED <<sent, skip_bytes>>

Framed == pc = "parsing" /\ scan.found /\ format = "binary"
Expected == calculate_binary_size(metadata)
binary_end == scan.payload_start + Min(Expected)

\* Only the header of a packet without a size is skipped.
SkipUnsized ==
  /\ Framed /\ Expected = {}
  /\ consume_buffer(scan.payload_start)
  /\ Finds(Undecoded(metadata), scan.packet, << >>)
  /\ still /\ UNCHANGED <<sent, skip_bytes>>

\* Mutant: the part that is here is skipped again.
StillToCome_all(expected, here) == expected

\* What is to be skipped of a payload after what is here.
StillToCome(expected, here) == IF here > expected THEN 0 ELSE expected - here

SkipOverCap ==
  /\ Framed /\ Expected # {} /\ Min(Expected) > MaxBinaryPayload
  /\ skip_bytes' = StillToCome(Min(Expected), Len(pending) - scan.payload_start)
  /\ consume_buffer(Len(pending))
  /\ Finds("Lost", scan.packet, << >>)
  /\ still /\ UNCHANGED sent

IsHere(end) == Len(pending) >= end

AwaitPayload ==
  /\ Framed /\ Expected # {} /\ Min(Expected) <= MaxBinaryPayload
  /\ ~IsHere(binary_end)
  /\ Returns(items)
  /\ still /\ UNCHANGED <<sent, buffer, consumed, skip_bytes, last>>

ParsePayload ==
  /\ Framed /\ Expected # {} /\ Min(Expected) <= MaxBinaryPayload
  /\ IsHere(binary_end)
  /\ consume_buffer(binary_end)
  /\ IF Decodes(metadata)
     THEN Finds("Packet", scan.packet,
                parse_binary_samples(metadata, SubSeq(pending, scan.payload_start + 1, binary_end)))
     ELSE Finds(Undecoded(metadata), scan.packet, << >>)
  /\ still /\ UNCHANGED <<sent, skip_bytes>>

\* reset, with what it forgets of the old connection.
Forgets == buffer' = << >> /\ consumed' = 0 /\ skip_bytes' = 0

\* The connection is replaced, between two calls.
Reset ==
  /\ pc # "parsing" /\ resets < MaxResets
  /\ Forgets
  /\ script' \in Scripts(format) /\ sent' = 0 /\ resets' = resets + 1
  /\ pc' = "idle" /\ items' = << >> /\ got' = << >> /\ last' = 0
  /\ UNCHANGED <<format, recovering>>

\* The server has sent everything and the caller has taken it.
Over ==
  /\ \/ pc = "idle" /\ \A n \in Chunks : sent + n > Len(Wire(script))
     \/ pc = "failed"
  /\ resets = MaxResets
  /\ UNCHANGED vars

Next ==
  \/ \E n \in Chunks : Receive(n)
  \/ AwaitHeader \/ ParseDocument \/ SkipUnsized \/ SkipOverCap
  \/ AwaitPayload \/ ParsePayload
  \/ Reset
  \/ Over

Spec == Init /\ [][Next]_vars
-----------------------------------------------------------------------------
(* Properties *)

Known == 1..Len(script)

\* The parser's variables hold what their types say and no call leaves items behind.
TypeOK ==
  /\ script \in Scripts(format) /\ sent \in 0..Len(Wire(script)) /\ resets \in 0..MaxResets
  /\ format \in {"json", "binary"} /\ recovering \in BOOLEAN
  /\ \A k \in 1..Len(buffer) : buffer[k].of \in Known
  /\ consumed \in 0..Len(buffer) /\ (consumed = Len(buffer) => buffer = << >>)
  /\ skip_bytes \in 0..MaxUsize
  /\ pc \in {"idle", "parsing", "failed"} /\ (pc # "parsing" => items = << >>)
  /\ last \in {0} \cup Known

\* What a packet should come out as, whatever chunks it arrives in.
Outcome(m) ==
  CASE format = "json"  -> IF ReadsDocument(m) THEN "Packet" ELSE Undecoded(m)
    [] format = "binary" ->
         LET size == calculate_binary_size(m)
         IN  IF size = {} THEN Undecoded(m)
             ELSE IF Min(size) > MaxBinaryPayload THEN "Lost"
             ELSE IF Decodes(m) THEN "Packet" ELSE Undecoded(m)

Entries == got \o items
IsItem(e) == e.kind # "Err"
ItemsOf(list) == SelectSeq(list, IsItem)

\* However the body is cut into chunks and whatever garbage stands between the packets,
\* each packet comes out once, in the order of the wire, as what its header makes it
\* and with the samples of its own payload: none is read at an offset or out of another's bytes.
PacketsAreTheWires ==
  LET list == ItemsOf(Entries)
  IN  /\ \A k \in 1..Len(list) :
           LET m == script[list[k].of]
           IN  /\ m.valid /\ list[k].kind = Outcome(m)
               /\ list[k].kind = "Packet" /\ format = "binary" =>
                    /\ FlattenSeq(list[k].samples) = Bytes(m.body, list[k].of)
                    /\ m.payload # "categories" => Len(list[k].samples) = m.samples
      /\ \A k \in 1..Len(list) - 1 : list[k].of < list[k + 1].of

\* Between two packets the caller got with no loss and no Err between them, the server
\* sent nothing else that has a header: process_data_recovering puts each loss where its
\* samples are missing, and process_data's Err stands for all that it threw away.
NoSilentHole ==
  LET At(k) == IF k = 0 THEN 0 ELSE got[k].of
      Told(k) == k = 0 \/ IsItem(got[k])
  IN  \A k \in 0..Len(got) - 1 :
        Told(k) /\ IsItem(got[k + 1])
          => \A j \in At(k) + 1 .. got[k + 1].of - 1 : ~script[j].valid

\* The bytes of packet i that have not arrived.
Missing(i) == Len(SelectSeq(SubSeq(Wire(script), sent + 1, Len(Wire(script))),
                            LAMBDA b : b.of = i))

\* A packet that has arrived whole has come out, at the latest when the call returns, unless
\* process_data returned at a loss in front of it: no chunk boundary leaves one waiting.
NothingIsHeldBack ==
  pc = "idle" /\ (got # << >> => IsItem(Last(got)))
    => \A i \in Known : script[i].valid /\ Missing(i) = 0 => i <= last

IsOverCap(i) ==
  /\ i # 0 /\ format = "binary" /\ calculate_binary_size(script[i]) # {}
  /\ Min(calculate_binary_size(script[i])) > MaxBinaryPayload

\* A payload over the cap is skipped to its end, over any number of chunks, and not a byte
\* of the next packet with it.  When the chunk ended between the line feed and the record
\* separator, the separator is counted as payload and the last byte is left to the scan.
SkipIsExact ==
  /\ skip_bytes > 0 => IsOverCap(last)
  /\ IsOverCap(last) =>
       \/ skip_bytes = Missing(last)
       \/ /\ script[last].separator = <<"LF", "RS">>
          /\ Missing(last) > 0 /\ skip_bytes = Missing(last) - 1

\* Between the calls of process_data_recovering the buffer holds no more than one packet
\* may need: a header that does not end, a body that does not come and consumed bytes are bounded.
BufferIsBounded ==
  /\ consumed < CompactThreshold
  /\ recovering /\ pc = "idle" =>
       Len(pending) <= MaxJsonBuffer + Max(Chunks) + MaxBinaryPayload

\* What is handed on are the wire's packets, however it was cut into chunks.
PacketsComeAsSent == TypeOK /\ PacketsAreTheWires

\* A packet that is not handed on is told of, and one that can be is not held back.
NothingIsMissed == NoSilentHole /\ NothingIsHeldBack

\* Skipped payloads and the buffer end where they must.
SkipsAndBufferAreExact == SkipIsExact /\ BufferIsBounded
=============================================================================
