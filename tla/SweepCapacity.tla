--------------------------- MODULE SweepCapacity ---------------------------
(***************************************************************************)
(* How large HttpSource's sample buffer gets (http_source.rs: work,        *)
(* fetch_samples, buffer_capacity, catch_up_headroom, refill_capacity).    *)
(* A sweep takes every chunk queued in the bounded channel, so after a     *)
(* stall it delivers a whole channel's worth at once; the trim must sit    *)
(* far enough above the refill target that a sweep begun below the target  *)
(* never has to discard what it fetched.                                   *)
(*                                                                         *)
(* Only lengths are modelled.  The stream has a fixed sample width, packet *)
(* headers take no bytes (which only makes more samples fit into a chunk), *)
(* and every byte belongs to an IQ packet.                                 *)
(***************************************************************************)
EXTENDS Integers

CONSTANTS
  BufferSize,      \* buffer_size
  CapacityFactor,  \* PACKET_CAPACITY_FACTOR
  MaxItems,        \* max_items of the connected writer
  ChannelDepth,    \* CHUNK_CHANNEL_DEPTH
  MaxFetches,      \* MAX_FETCHES_PER_WORK
  BytesPerSample,  \* stream_format.iq_bytes_per_sample()
  ChunkSizes,      \* bytes in a chunk of the HTTP body
  PacketLens       \* samples in a packet

ASSUME SizesAssumption ==
  /\ BufferSize \in Nat /\ MaxItems \in Nat
  /\ CapacityFactor \in Nat \ {0}
  /\ ChannelDepth \in Nat \ {0} /\ MaxFetches \in Nat \ {0}
  /\ BytesPerSample \in Nat \ {0}
  /\ ChunkSizes \subseteq Nat \ {0}
  /\ PacketLens \subseteq Nat \ {0}

VARIABLES
  buffered,            \* sample_buffer.len()
  max_packet_samples, max_chunk_bytes, downstream_capacity, overflow_samples,
  part, got,           \* the parser holds got bytes of a packet of part samples
  pc, o_len, fetches, refill_cap, refill_below,
  left,                \* bytes of this sweep's chunks not yet parsed
  \* about the current sweep, for the properties
  start, total, over   \* length at its start, its bytes, samples of a packet begun before it

vars == <<buffered, max_packet_samples, max_chunk_bytes, downstream_capacity,
          overflow_samples, part, got, pc, o_len, fetches, refill_cap, refill_below,
          left, start, total, over>>

TypeOK ==
  /\ buffered \in Nat /\ overflow_samples \in Nat
  /\ max_packet_samples \in Nat /\ max_chunk_bytes \in Nat
  /\ downstream_capacity \in Nat
  /\ part \in Nat /\ got \in Nat
  /\ pc \in {"idle", "refill", "sweep"}
  /\ o_len \in Nat /\ fetches \in Nat
  /\ refill_cap \in Nat /\ refill_below \in Nat
  /\ left \in Nat /\ start \in Nat /\ total \in Nat /\ over \in Nat

Init ==
  /\ buffered = 0 /\ overflow_samples = 0
  /\ max_packet_samples = 0 /\ max_chunk_bytes = 0 /\ downstream_capacity = 0
  /\ part = 0 /\ got = 0
  /\ pc = "idle" /\ o_len = 0 /\ fetches = 0 /\ refill_cap = 0 /\ refill_below = 0
  /\ left = 0 /\ start = 0 /\ total = 0 /\ over = 0
-----------------------------------------------------------------------------
Smaller(a, b) == IF a < b THEN a ELSE b
Larger(a, b) == IF a < b THEN b ELSE a

refill_capacity(packet, downstream) ==
  Larger(Larger(Larger(2 * BufferSize, 1), CapacityFactor * packet),
         downstream + packet)

div_ceil(a, b) == (a + b - 1) \div b

\* Mutant: room only for the packet that was under way when the sweep began.
catch_up_headroom_packet(packet, chunk) == packet

catch_up_headroom(packet, chunk) ==
  IF chunk = 0 THEN 0
  ELSE div_ceil(ChannelDepth * chunk, BytesPerSample) + packet

buffer_capacity(packet, chunk, downstream) ==
  refill_capacity(packet, downstream) + catch_up_headroom(packet, chunk)
-----------------------------------------------------------------------------
\* work() is called with room samples free downstream.  It learns the size of
\* the downstream buffer once and computes its refill target.
WorkBegins(room) ==
  LET downstream == IF downstream_capacity = 0 THEN MaxItems ELSE downstream_capacity
      cap        == refill_capacity(max_packet_samples, downstream)
  IN  /\ pc = "idle"
      /\ downstream_capacity' = downstream
      /\ refill_cap' = cap
      /\ refill_below' = Smaller(Larger(cap \div 2, room), cap)
      /\ pc' = "refill" /\ o_len' = room /\ fetches' = 0
      /\ UNCHANGED <<buffered, max_packet_samples, max_chunk_bytes, overflow_samples,
                     part, got, left, start, total, over>>

\* restart_pending: a new stream, an empty buffer.
Restart ==
  /\ pc = "idle"
  /\ buffered' = 0 /\ part' = 0 /\ got' = 0
  /\ UNCHANGED <<max_packet_samples, max_chunk_bytes, downstream_capacity,
                 overflow_samples, pc, o_len, fetches, refill_cap, refill_below,
                 left, start, total, over>>

note_chunk(chunk) == Larger(max_chunk_bytes, chunk)

\* One sweep drains up to ChannelDepth chunks, the largest of chunk bytes;
\* the size is noted before any of it is parsed.
FetchBegins(chunk, bytes) ==
  /\ pc = "refill"
  /\ buffered < refill_below /\ fetches < MaxFetches
  /\ bytes <= ChannelDepth * chunk
  /\ max_chunk_bytes' = note_chunk(chunk)
  /\ pc' = "sweep" /\ fetches' = fetches + 1
  /\ left' = bytes /\ total' = bytes /\ start' = buffered /\ over' = 0
  /\ UNCHANGED <<buffered, max_packet_samples, downstream_capacity, overflow_samples,
                 part, got, o_len, refill_cap, refill_below>>

\* A packet of n samples is complete: it is queued, and the oldest samples go
\* if that exceeds the capacity.
PacketCompletes(n) ==
  LET need     == n * BytesPerSample - got
      widest   == Larger(max_packet_samples, n)
      grown    == buffered + n
      capacity == buffer_capacity(widest, max_chunk_bytes, downstream_capacity)
      overflow == IF grown > capacity THEN grown - capacity ELSE 0
  IN  /\ pc = "sweep"
      /\ got > 0 => n = part
      /\ need <= left
      /\ left' = left - need
      /\ got' = 0 /\ part' = 0
      /\ over' = IF got > 0 THEN n ELSE over
      /\ max_packet_samples' = widest
      /\ buffered' = grown - overflow
      /\ overflow_samples' = overflow_samples + overflow
      /\ UNCHANGED <<max_chunk_bytes, downstream_capacity, pc, o_len, fetches,
                     refill_cap, refill_below, start, total>>

\* What is left of the sweep is less than the packet it belongs to (of n
\* samples); the parser keeps it.
FetchEnds(n) ==
  /\ pc = "sweep"
  /\ got > 0 => n = part
  /\ got + left < n * BytesPerSample
  /\ got' = got + left
  /\ part' = IF got + left > 0 THEN n ELSE 0
  /\ left' = 0
  /\ pc' = "refill"
  /\ UNCHANGED <<buffered, max_packet_samples, max_chunk_bytes, downstream_capacity,
                 overflow_samples, o_len, fetches, refill_cap, refill_below,
                 start, total, over>>

\* A sweep that fails is given up with what the parser holds; work() returns.
FetchFails ==
  /\ pc = "sweep"
  /\ got' = 0 /\ part' = 0 /\ left' = 0
  /\ pc' = "idle"
  /\ UNCHANGED <<buffered, max_packet_samples, max_chunk_bytes, downstream_capacity,
                 overflow_samples, o_len, fetches, refill_cap, refill_below,
                 start, total, over>>

copied(room) == Smaller(buffered, room)

\* copy_out and produce: work() may leave the refill loop early when a fetch
\* found nothing.
Produce ==
  /\ pc = "refill"
  /\ buffered' = buffered - copied(o_len)
  /\ pc' = "idle"
  /\ UNCHANGED <<max_packet_samples, max_chunk_bytes, downstream_capacity,
                 overflow_samples, part, got, o_len, fetches, refill_cap, refill_below,
                 left, start, total, over>>

Next ==
  \/ \E room \in 0..MaxItems : WorkBegins(room)
  \/ Restart
  \/ \E chunk \in ChunkSizes : \E bytes \in 0..(ChannelDepth * chunk) :
        FetchBegins(chunk, bytes)
  \/ \E n \in PacketLens : PacketCompletes(n) \/ FetchEnds(n)
  \/ FetchFails
  \/ Produce

Spec == Init /\ [][Next]_vars
-----------------------------------------------------------------------------
\* A stream of fixed sample width never loses a sample to the buffer's own
\* trim, however long the consumer stalled, whatever sizes chunks and packets
\* turn out to have (catch_up_headroom: "A sweep now always fits").
NeverTrims == overflow_samples = 0

\* The buffer is bounded by what it has seen: one refill target and one
\* channel's worth of chunks.
BufferIsBounded ==
  buffered <= buffer_capacity(max_packet_samples, max_chunk_bytes, downstream_capacity)

\* Why: within a sweep, the samples added are those of a packet begun before
\* it, and others that came whole out of its bytes.
SweepAccount ==
  /\ refill_below <= refill_cap
  /\ refill_cap <= refill_capacity(max_packet_samples, downstream_capacity)
  /\ got <= part * BytesPerSample
  /\ pc = "sweep" =>
       /\ start <= refill_cap
       /\ left <= total /\ total <= ChannelDepth * max_chunk_bytes
       /\ max_chunk_bytes > 0
       /\ over <= max_packet_samples
       /\ got > 0 => over = 0 /\ buffered = start /\ left = total
       /\ start + over <= buffered
       /\ (buffered - start - over) * BytesPerSample <= total - left

\* NeverTrims and BufferIsBounded are not inductive by themselves: how far the
\* buffer has grown in the middle of a sweep depends on what the sweep holds.

Inv == TypeOK /\ SweepAccount /\ NeverTrims /\ BufferIsBounded
=============================================================================
