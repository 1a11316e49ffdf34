------------------------- MODULE StreamIntakeProofs -------------------------
(***************************************************************************)
(* Of what becomes of the chunks of the HTTP body.                         *)
(*                                                                         *)
(* SweepCapacity: a fixed-width stream never loses samples to the trim,    *)
(* for every buffer size, channel depth, chunk size, packet length and     *)
(* sample width.                                                           *)
(*                                                                         *)
(* LinkCheck: a verdict on the path is right, and stands; the statistics   *)
(* tell the verdict and the health there are; for every set of rates and   *)
(* paths, size of the server's buffer, depth of the channel, settle time,  *)
(* window, tolerance, and number of retunes, restarts and gaps.            *)
(***************************************************************************)
EXTENDS MCStreamIntake, SequenceTheorems, WellFoundedInduction, TLAPS

\* Rounding up: x whole samples that fit into t bytes fit into div_ceil(t, b).
LEMMA WholeSamplesFit ==
  ASSUME NEW b \in Nat \ {0}, NEW x \in Int, NEW t \in Nat, x * b <= t
  PROVE  x <= div_ceil(t, b) /\ div_ceil(t, b) \in Nat
<1> DEFINE q == (t + b - 1) \div b
           r == (t + b - 1) % b
<1>1. q \in Int /\ r \in 0..(b - 1) /\ t + b - 1 = b * q + r
  BY SMT
<1>2. b * q >= t
  BY <1>1
<1> HIDE DEF q, r
<1>3. q >= x
  <2>1. SUFFICES ASSUME q <= x - 1 PROVE FALSE
    BY <1>1
  <2>2. b * q <= b * (x - 1)
    BY <1>1, <2>1, SMT
  <2>3. b * (x - 1) = x * b - b
    BY SMT
  <2> QED BY <1>1, <1>2, <2>2, <2>3
<1>4. q >= 0
  <2>1. SUFFICES ASSUME q <= -1 PROVE FALSE
    BY <1>1
  <2>2. b * q <= b * (-1)
    BY <1>1, <2>1, SMT
  <2> QED BY <1>1, <1>2, <2>2
<1> QED BY <1>1, <1>3, <1>4 DEF div_ceil, q

\* A larger product of the same factor.
LEMMA ProductGrows ==
  ASSUME NEW k \in Nat, NEW a \in Nat, NEW b \in Nat, a <= b
  PROVE  k * a \in Nat /\ k * b \in Nat /\ k * a <= k * b
BY SMT

LEMMA CeilGrows ==
  ASSUME NEW s \in Nat, NEW t \in Nat, NEW b \in Nat \ {0}, s <= t
  PROVE  div_ceil(s, b) \in Nat /\ div_ceil(t, b) \in Nat
         /\ div_ceil(s, b) <= div_ceil(t, b)
<1> DEFINE q == (s + b - 1) \div b
           r == (s + b - 1) % b
<1>1. q \in Int /\ r \in 0..(b - 1) /\ s + b - 1 = b * q + r
  BY SMT
<1>2. q * b <= t + b - 1
  BY <1>1, SMT
<1> DEFINE p == (t + b - 1) \div b
           u == (t + b - 1) % b
<1>3. p \in Int /\ u \in 0..(b - 1) /\ t + b - 1 = b * p + u
  BY SMT
<1> HIDE DEF p, q, r, u
<1>4. q <= p
  <2>1. SUFFICES ASSUME p <= q - 1 PROVE FALSE
    BY <1>1, <1>3
  <2>2. b * p <= b * (q - 1)
    BY <1>1, <1>3, <2>1, SMT
  <2>3. b * (q - 1) = q * b - b
    BY <1>1, SMT
  <2> QED BY <1>1, <1>2, <1>3, <2>2, <2>3
<1>5. 0 * b <= s
  OBVIOUS
<1> QED BY <1>4, <1>5, WholeSamplesFit DEF div_ceil, p, q

\* The capacities grow with everything they depend on.
LEMMA CapacityGrows ==
  ASSUME NEW p \in Nat, NEW pp \in Nat, p <= pp,
         NEW c \in Nat, NEW cc \in Nat, c <= cc,
         NEW w \in Nat, NEW ww \in Nat, w <= ww
  PROVE  /\ refill_capacity(p, w) \in Nat /\ refill_capacity(pp, ww) \in Nat
         /\ refill_capacity(p, w) <= refill_capacity(pp, ww)
         /\ buffer_capacity(p, c, w) \in Nat /\ buffer_capacity(pp, cc, ww) \in Nat
         /\ buffer_capacity(p, c, w) <= buffer_capacity(pp, cc, ww)
<1>1. BufferSize \in Nat /\ CapacityFactor \in Nat /\ ChannelDepth \in Nat
      /\ BytesPerSample \in Nat \ {0}
  BY SizesAssumption
<1>2. /\ CapacityFactor * p \in Nat /\ CapacityFactor * pp \in Nat
      /\ CapacityFactor * p <= CapacityFactor * pp
  BY <1>1, ProductGrows
<1>3. /\ refill_capacity(p, w) \in Nat /\ refill_capacity(pp, ww) \in Nat
      /\ refill_capacity(p, w) <= refill_capacity(pp, ww)
  BY <1>1, <1>2 DEF refill_capacity, Larger
<1>4. /\ ChannelDepth * c \in Nat /\ ChannelDepth * cc \in Nat
      /\ ChannelDepth * c <= ChannelDepth * cc
  BY <1>1, ProductGrows
<1>5. /\ div_ceil(ChannelDepth * c, BytesPerSample) \in Nat
      /\ div_ceil(ChannelDepth * cc, BytesPerSample) \in Nat
      /\ div_ceil(ChannelDepth * c, BytesPerSample)
           <= div_ceil(ChannelDepth * cc, BytesPerSample)
  BY <1>1, <1>4, CeilGrows
<1>6. /\ catch_up_headroom(p, c) \in Nat /\ catch_up_headroom(pp, cc) \in Nat
      /\ catch_up_headroom(p, c) <= catch_up_headroom(pp, cc)
  BY <1>5 DEF catch_up_headroom
<1> QED BY <1>3, <1>6 DEF buffer_capacity

LEMMA WorkBeginsStep ==
  ASSUME Inv, NEW room \in 0..MaxItems, WorkBegins(room)
  PROVE  Inv'
<1>1. MaxItems \in Nat /\ room \in Nat /\ TypeOK
  BY SizesAssumption DEF Inv
<1> DEFINE w == IF downstream_capacity = 0 THEN MaxItems ELSE downstream_capacity
           cap == refill_capacity(max_packet_samples, w)
<1>2. w \in Nat /\ downstream_capacity <= w
  BY <1>1 DEF TypeOK
<1>3a. max_packet_samples \in Nat /\ max_chunk_bytes \in Nat /\ downstream_capacity \in Nat
       /\ max_packet_samples <= max_packet_samples /\ max_chunk_bytes <= max_chunk_bytes
  BY <1>1 DEF TypeOK
<1> HIDE DEF w
<1>3. /\ cap \in Nat
      /\ buffer_capacity(max_packet_samples, max_chunk_bytes, downstream_capacity)
           <= buffer_capacity(max_packet_samples, max_chunk_bytes, w)
      /\ buffer_capacity(max_packet_samples, max_chunk_bytes, downstream_capacity) \in Nat
      /\ buffer_capacity(max_packet_samples, max_chunk_bytes, w) \in Nat
  BY <1>2, <1>3a, CapacityGrows
<1>4. /\ downstream_capacity' = w /\ refill_cap' = cap
      /\ refill_below' = Smaller(Larger(cap \div 2, room), cap)
      /\ UNCHANGED <<buffered, max_packet_samples, max_chunk_bytes, overflow_samples,
                     part, got, left, start, total, over>>
      /\ pc' = "refill" /\ o_len' = room /\ fetches' = 0
  BY DEF WorkBegins, w
<1> HIDE DEF cap
<1>5. refill_below' \in Nat /\ refill_below' <= refill_cap'
  BY <1>1, <1>3, <1>4 DEF Smaller, Larger
<1>6. TypeOK'
  BY <1>1, <1>2, <1>3, <1>4, <1>5 DEF TypeOK
<1>7. SweepAccount'
  BY <1>4, <1>5, <1>3 DEF Inv, SweepAccount, cap
<1>8. BufferIsBounded'
  BY <1>1, <1>3, <1>4 DEF Inv, BufferIsBounded, TypeOK
<1> QED BY <1>4, <1>6, <1>7, <1>8 DEF Inv, NeverTrims

LEMMA FetchBeginsStep ==
  ASSUME Inv, NEW chunk \in ChunkSizes, NEW bytes \in 0..(ChannelDepth * chunk),
         FetchBegins(chunk, bytes)
  PROVE  Inv'
<1>1. /\ chunk \in Nat /\ chunk > 0 /\ ChannelDepth \in Nat /\ TypeOK
      /\ BytesPerSample \in Nat
  BY SizesAssumption DEF Inv
<1>2. /\ max_chunk_bytes' = Larger(max_chunk_bytes, chunk)
      /\ pc' = "sweep" /\ fetches' = fetches + 1
      /\ left' = bytes /\ total' = bytes /\ start' = buffered /\ over' = 0
      /\ buffered < refill_below
      /\ UNCHANGED <<buffered, max_packet_samples, downstream_capacity, overflow_samples,
                     part, got, o_len, refill_cap, refill_below>>
  BY DEF FetchBegins, note_chunk
<1>3. /\ max_chunk_bytes' \in Nat /\ max_chunk_bytes' > 0
      /\ chunk <= max_chunk_bytes' /\ max_chunk_bytes <= max_chunk_bytes'
  BY <1>1, <1>2 DEF Larger, TypeOK
<1>4. bytes \in Nat /\ bytes <= ChannelDepth * max_chunk_bytes'
  <2>1. /\ ChannelDepth * chunk \in Nat /\ ChannelDepth * max_chunk_bytes' \in Nat
        /\ ChannelDepth * chunk <= ChannelDepth * max_chunk_bytes'
    BY <1>1, <1>3, ProductGrows
  <2> QED BY <2>1
<1>5. TypeOK'
  BY <1>1, <1>2, <1>3, <1>4 DEF TypeOK
<1>6. SweepAccount'
  <2>1. (buffered' - start' - over') * BytesPerSample = 0 /\ total' - left' = 0
    BY <1>1, <1>2, <1>4 DEF TypeOK
  <2> QED BY <1>1, <1>2, <1>3, <1>4, <2>1 DEF Inv, SweepAccount, TypeOK
<1>7. BufferIsBounded'
  <2>1. /\ buffer_capacity(max_packet_samples, max_chunk_bytes, downstream_capacity) \in Nat
        /\ buffer_capacity(max_packet_samples, max_chunk_bytes', downstream_capacity) \in Nat
        /\ buffer_capacity(max_packet_samples, max_chunk_bytes, downstream_capacity)
             <= buffer_capacity(max_packet_samples, max_chunk_bytes', downstream_capacity)
    <3>1. /\ max_packet_samples \in Nat /\ max_chunk_bytes \in Nat
          /\ downstream_capacity \in Nat
          /\ max_packet_samples <= max_packet_samples
          /\ downstream_capacity <= downstream_capacity
      BY <1>1 DEF TypeOK
    <3> QED BY <1>3, <3>1, CapacityGrows
  <2> QED BY <1>1, <1>2, <2>1 DEF Inv, BufferIsBounded, TypeOK
<1> QED BY <1>2, <1>5, <1>6, <1>7 DEF Inv, NeverTrims

\* Taking away and putting back.
LEMMA Balance ==
  ASSUME NEW g \in Int, NEW s \in Int, NEW o \in Int, NEW r \in Int, r = g - s - o
  PROVE  g = s + o + r /\ (r >= 0 => s + o <= g)
OBVIOUS

\* The step the capacity is for.
LEMMA PacketCompletesStep ==
  ASSUME Inv, NEW n \in PacketLens, PacketCompletes(n)
  PROVE  Inv'
<1> DEFINE need     == n * BytesPerSample - got
           widest   == Larger(max_packet_samples, n)
           grown    == buffered + n
           capacity == buffer_capacity(widest, max_chunk_bytes, downstream_capacity)
           x        == (buffered + n) - (start + over')
<1>1. /\ n \in Nat /\ n > 0 /\ ChannelDepth \in Nat /\ TypeOK
      /\ BytesPerSample \in Nat \ {0} /\ n * BytesPerSample \in Nat
  BY SizesAssumption, SMT DEF Inv
<1>2. /\ got > 0 => n = part
      /\ need <= left /\ left' = left - need /\ got' = 0 /\ part' = 0
      /\ over' = (IF got > 0 THEN n ELSE over)
      /\ max_packet_samples' = widest /\ pc = "sweep" /\ pc' = "sweep"
      /\ UNCHANGED <<max_chunk_bytes, downstream_capacity, o_len, fetches,
                     refill_cap, refill_below, start, total>>
  BY DEF PacketCompletes
<1>3. /\ widest \in Nat /\ max_packet_samples <= widest /\ n <= widest
  BY <1>1 DEF TypeOK, Larger
<1> HIDE DEF widest
<1>4. need >= 0
  BY <1>1, <1>2 DEF Inv, SweepAccount, TypeOK
<1>5. left' \in Nat /\ left' <= total
  BY <1>1, <1>2, <1>4 DEF Inv, SweepAccount, TypeOK
<1>6. over' \in Nat /\ over' <= widest
  BY <1>1, <1>2, <1>3 DEF Inv, SweepAccount, TypeOK
<1>7. x \in Nat /\ x * BytesPerSample <= total - left'
  <2>1. CASE got > 0
    <3>1. x = 0
      BY <1>1, <1>2, <2>1 DEF Inv, SweepAccount, TypeOK
    <3> QED BY <3>1, <1>1, <1>2, <1>5 DEF TypeOK
  <2>2. CASE ~(got > 0)
    <3> DEFINE y == buffered - start - over
    <3>1. y \in Nat /\ y * BytesPerSample <= total - left /\ x = y + n
      BY <1>1, <1>2, <2>2 DEF Inv, SweepAccount, TypeOK
    <3> HIDE DEF x, y
    <3>2. (y + n) * BytesPerSample = y * BytesPerSample + n * BytesPerSample
      BY <3>1, <1>1, SMT
    <3>3. need = n * BytesPerSample
      BY <1>1, <2>2 DEF TypeOK
    <3>4. y * BytesPerSample \in Nat
      BY <3>1, <1>1, SMT
    <3> QED BY <1>1, <1>2, <3>1, <3>2, <3>3, <3>4 DEF TypeOK
  <2> QED BY <2>1, <2>2
<1>8. /\ capacity \in Nat
      /\ capacity = refill_capacity(widest, downstream_capacity)
                      + div_ceil(ChannelDepth * max_chunk_bytes, BytesPerSample) + widest
      /\ refill_cap <= refill_capacity(widest, downstream_capacity)
      /\ refill_capacity(widest, downstream_capacity) \in Nat
  <2>1. /\ capacity \in Nat /\ refill_capacity(widest, downstream_capacity) \in Nat
        /\ refill_capacity(max_packet_samples, downstream_capacity) \in Nat
        /\ refill_capacity(max_packet_samples, downstream_capacity)
             <= refill_capacity(widest, downstream_capacity)
    <3>1. /\ max_packet_samples \in Nat /\ max_chunk_bytes \in Nat
          /\ downstream_capacity \in Nat
          /\ max_chunk_bytes <= max_chunk_bytes
          /\ downstream_capacity <= downstream_capacity
      BY <1>1 DEF TypeOK
    <3> QED BY <1>3, <3>1, CapacityGrows
  <2>2. max_chunk_bytes \in Nat /\ max_chunk_bytes # 0 /\ refill_cap \in Nat
    BY <1>1, <1>2 DEF Inv, SweepAccount, TypeOK
  <2>3. ChannelDepth * max_chunk_bytes \in Nat /\ 0 * BytesPerSample <= ChannelDepth * max_chunk_bytes
    BY <1>1, <2>2, SMT
  <2>4. div_ceil(ChannelDepth * max_chunk_bytes, BytesPerSample) \in Nat
    <3>1. 0 \in Int
      OBVIOUS
    <3> QED BY ONLY <1>1, <2>3, <3>1, WholeSamplesFit
  <2>5. capacity = refill_capacity(widest, downstream_capacity)
                     + (div_ceil(ChannelDepth * max_chunk_bytes, BytesPerSample) + widest)
    BY <2>2 DEF buffer_capacity, catch_up_headroom
  <2> HIDE DEF capacity
  <2> QED BY <1>3, <2>1, <2>2, <2>4, <2>5 DEF Inv, SweepAccount
<1>9. x <= div_ceil(ChannelDepth * max_chunk_bytes, BytesPerSample)
      /\ div_ceil(ChannelDepth * max_chunk_bytes, BytesPerSample) \in Nat
  <2>1. ChannelDepth * max_chunk_bytes \in Nat
    BY <1>1, SMT DEF TypeOK
  <2>2. x * BytesPerSample <= ChannelDepth * max_chunk_bytes
    <3>1. total <= ChannelDepth * max_chunk_bytes /\ total \in Nat
      BY <1>1, <1>2 DEF Inv, SweepAccount, TypeOK
    <3>2. x * BytesPerSample \in Int
      BY <1>1, <1>7, SMT
    <3> HIDE DEF x
    <3> QED BY <1>5, <1>7, <2>1, <3>1, <3>2
  <2>3. x \in Int /\ BytesPerSample \in Nat \ {0}
    BY <1>1, <1>7
  <2> HIDE DEF x
  <2> QED BY ONLY <2>1, <2>2, <2>3, WholeSamplesFit
<1>10. grown <= capacity
  <2>a. grown \in Int /\ start \in Nat /\ over' \in Nat
    BY <1>1, <1>6 DEF TypeOK
  <2>b. x \in Nat
    BY <1>7
  <2>c. start + over' + x = buffered + n
    <3>1. x = (buffered + n) - (start + over')
      OBVIOUS
    <3>2. (buffered + n) \in Int /\ (start + over') \in Int /\ x \in Int
      BY <2>a, <2>b, <1>1 DEF TypeOK
    <3> HIDE DEF x
    <3>3. (start + over') + x = buffered + n
      BY <3>1, <3>2
    <3> QED BY <2>a, <3>3
  <2>1. grown = start + over' + x /\ start \in Nat
    BY <2>a, <2>c
  <2> HIDE DEF x, grown
  <2>2. start <= refill_cap /\ refill_cap \in Nat
    BY <1>1, <1>2 DEF Inv, SweepAccount, TypeOK
  <2> HIDE DEF capacity
  <2> QED BY <1>3, <1>6, <1>7, <1>8, <1>9, <2>1, <2>2
<1>11. buffered' = grown /\ overflow_samples' = overflow_samples
  <2>1. grown \in Nat /\ ~(grown > capacity)
    BY <1>1, <1>8, <1>10 DEF TypeOK
  <2>2. /\ buffered' = grown - (IF grown > capacity THEN grown - capacity ELSE 0)
        /\ overflow_samples' = overflow_samples
                                 + (IF grown > capacity THEN grown - capacity ELSE 0)
    BY DEF PacketCompletes, widest
  <2> HIDE DEF grown, capacity
  <2> QED BY <1>1, <2>1, <2>2 DEF TypeOK
<1>12. TypeOK'
  BY <1>1, <1>2, <1>3, <1>5, <1>6, <1>11 DEF TypeOK
<1>13. SweepAccount'
  <2>1. got' <= part' * BytesPerSample
    BY <1>1, <1>2, SMT
  <2>2. refill_cap' <= refill_capacity(max_packet_samples, downstream_capacity)'
        /\ refill_below' <= refill_cap'
    BY <1>2, <1>8 DEF Inv, SweepAccount
  <2>3. /\ (buffered' - start' - over') * BytesPerSample <= total' - left'
        /\ start' + over' <= buffered'
    <3>1. buffered' - start' - over' = x /\ start \in Nat /\ start' = start /\ total' = total
      BY <1>2, <1>11, <1>1 DEF TypeOK
    <3>2. buffered' \in Nat /\ over' \in Nat
      BY <1>6, <1>12 DEF TypeOK
    <3>3. x >= 0 /\ x * BytesPerSample <= total' - left'
      BY <1>7, <3>1
    <3> HIDE DEF x, grown
    <3>4. (buffered' - start' - over') * BytesPerSample <= total' - left'
      BY <3>1, <3>3
    <3>5. start' + over' <= buffered'
      <4>1. start' \in Int /\ x \in Int /\ x = buffered' - start' - over'
        BY <3>1, <1>7
      <4>2. buffered' \in Int /\ over' \in Int
        BY <3>2
      <4> QED BY <4>1, <4>2, <3>3, Balance
    <3> QED BY <3>4, <3>5
  <2>4. /\ start' <= refill_cap' /\ left' <= total'
        /\ total' <= ChannelDepth * max_chunk_bytes' /\ max_chunk_bytes' > 0
        /\ over' <= max_packet_samples' /\ ~(got' > 0)
    BY <1>2, <1>5, <1>6 DEF Inv, SweepAccount
  <2> QED BY <2>1, <2>2, <2>3, <2>4 DEF SweepAccount
<1>14. BufferIsBounded'
  BY <1>2, <1>10, <1>11 DEF BufferIsBounded
<1> QED BY <1>11, <1>12, <1>13, <1>14 DEF Inv, NeverTrims

LEMMA FetchEndsStep ==
  ASSUME Inv, NEW n \in PacketLens, FetchEnds(n)
  PROVE  Inv'
<1>1. n \in Nat /\ n > 0 /\ BytesPerSample \in Nat /\ n * BytesPerSample \in Nat /\ TypeOK
  BY SizesAssumption, SMT DEF Inv
<1>2. /\ got + left < n * BytesPerSample
      /\ got' = got + left /\ left' = 0 /\ pc' = "refill"
      /\ part' = (IF got + left > 0 THEN n ELSE 0)
      /\ UNCHANGED <<buffered, max_packet_samples, max_chunk_bytes, downstream_capacity,
                     overflow_samples, o_len, fetches, refill_cap, refill_below,
                     start, total, over>>
  BY DEF FetchEnds
<1>3. TypeOK'
  BY <1>1, <1>2 DEF TypeOK
<1>4. got' <= part' * BytesPerSample
  BY <1>1, <1>2 DEF TypeOK
<1>5. SweepAccount'
  BY <1>2, <1>4 DEF Inv, SweepAccount
<1> QED BY <1>2, <1>3, <1>5 DEF Inv, NeverTrims, BufferIsBounded

\* Actions that drop samples, or the parser's.
LEMMA OtherSteps ==
  ASSUME Inv, Restart \/ FetchFails \/ Produce
  PROVE  Inv'
<1>1. BytesPerSample \in Nat /\ TypeOK
  BY SizesAssumption DEF Inv
<1>2. buffer_capacity(max_packet_samples, max_chunk_bytes, downstream_capacity) \in Nat
  BY <1>1, CapacityGrows DEF TypeOK
<1>3. CASE Restart
  <2>1. buffered' = 0 /\ got' = 0 /\ part' = 0 /\ pc # "sweep"
        /\ UNCHANGED <<max_packet_samples, max_chunk_bytes, downstream_capacity,
                 overflow_samples, pc, o_len, fetches, refill_cap, refill_below,
                 left, start, total, over>>
    BY <1>3 DEF Restart
  <2>2. SweepAccount'
    BY <1>1, <2>1 DEF Inv, SweepAccount
  <2> QED BY <1>1, <1>2, <2>1, <2>2 DEF Inv, TypeOK, NeverTrims, BufferIsBounded
<1>4. CASE FetchFails
  <2>1. got' = 0 /\ part' = 0 /\ left' = 0 /\ pc' = "idle"
        /\ UNCHANGED <<buffered, max_packet_samples, max_chunk_bytes, downstream_capacity,
                 overflow_samples, o_len, fetches, refill_cap, refill_below,
                 start, total, over>>
    BY <1>4 DEF FetchFails
  <2>2. SweepAccount'
    BY <1>1, <2>1 DEF Inv, SweepAccount
  <2> QED BY <1>1, <2>1, <2>2 DEF Inv, TypeOK, NeverTrims, BufferIsBounded
<1>5. CASE Produce
  <2>1. buffered' = buffered - Smaller(buffered, o_len) /\ pc' = "idle"
        /\ UNCHANGED <<max_packet_samples, max_chunk_bytes, downstream_capacity,
                 overflow_samples, part, got, o_len, fetches, refill_cap, refill_below,
                 left, start, total, over>>
    BY <1>5 DEF Produce, copied
  <2>2. buffered' \in Nat /\ buffered' <= buffered
    BY <1>1, <2>1 DEF TypeOK, Smaller
  <2>3. SweepAccount'
    BY <2>1 DEF Inv, SweepAccount
  <2>4. BufferIsBounded'
    BY <1>1, <1>2, <2>1, <2>2 DEF Inv, TypeOK, BufferIsBounded
  <2> QED BY <1>1, <2>1, <2>2, <2>3, <2>4 DEF Inv, TypeOK, NeverTrims
<1> QED BY <1>3, <1>4, <1>5

\* The invariant holds in every reachable state of work() and fetch_samples().
THEOREM InvIsInvariant == Spec => []Inv
<1>1. Init => Inv
  <2> SUFFICES ASSUME Init PROVE Inv
    OBVIOUS
  <2>1. TypeOK
    BY DEF Init, TypeOK
  <2>2. refill_capacity(0, 0) \in Nat /\ buffer_capacity(0, 0, 0) \in Nat
    BY CapacityGrows
  <2>3. 0 * BytesPerSample = 0
    BY SizesAssumption
  <2> QED BY <2>1, <2>2, <2>3 DEF Init, Inv, SweepAccount, NeverTrims, BufferIsBounded
<1>2. Inv /\ [Next]_vars => Inv'
  <2> SUFFICES ASSUME Inv, [Next]_vars PROVE Inv'
    OBVIOUS
  <2>1. ASSUME NEW room \in 0..MaxItems, WorkBegins(room) PROVE Inv'
    BY <2>1, WorkBeginsStep
  <2>2. ASSUME NEW chunk \in ChunkSizes, NEW bytes \in 0..(ChannelDepth * chunk),
               FetchBegins(chunk, bytes)
        PROVE Inv'
    BY <2>2, FetchBeginsStep
  <2>3. ASSUME NEW n \in PacketLens, PacketCompletes(n) PROVE Inv'
    BY <2>3, PacketCompletesStep
  <2>4. ASSUME NEW n \in PacketLens, FetchEnds(n) PROVE Inv'
    BY <2>4, FetchEndsStep
  <2>5. CASE Restart \/ FetchFails \/ Produce
    BY <2>5, OtherSteps
  <2>6. CASE UNCHANGED vars
    BY <2>6 DEF vars, Inv, TypeOK, SweepAccount, NeverTrims, BufferIsBounded
  <2> QED BY <2>1, <2>2, <2>3, <2>4, <2>5, <2>6 DEF Next
<1> QED BY <1>1, <1>2, PTL DEF Spec

\* The trim never discards a sample of a fixed-width stream, whatever the
\* sizes of buffers, chunks and packets.
THEOREM SamplesAreNeverTrimmed == Spec => []NeverTrims
<1>1. Inv => NeverTrims
  BY DEF Inv
<1> QED BY <1>1, InvIsInvariant, PTL

\* The buffer stays below one refill target and one channel of chunks.
THEOREM BufferStaysBounded == Spec => []BufferIsBounded
<1>1. Inv => BufferIsBounded
  BY DEF Inv
<1> QED BY <1>1, InvIsInvariant, PTL
-----------------------------------------------------------------------------
(***************************************************************************)
(* The link check.                                                         *)
(***************************************************************************)
LinkMeters ==
  [opened : Nat, mark : Int, last : Int, counted : Nat, closed : BOOLEAN,
   consumer_limited : BOOLEAN, rates : SUBSET Rates, at_mark : Nat, at_last : Nat]

\* An open window of meter m, of samples of the one rate r.
WindowIsTrue(m, r) ==
  /\ m \in LinkMeters /\ ~m.closed /\ m.opened <= now
  /\ m.mark = -1 \/ (m.mark \in 0..now /\ m.mark - m.opened >= Settle)
  /\ m.last = -1 \/ (m.mark # -1 /\ m.last \in Nat /\ m.last - m.mark \in 0..Window - 1)
  /\ m.last = -1 => m.counted = 0 /\ m.rates = {}
  /\ m.last # -1 => m.counted = m.at_last - m.at_mark
  /\ m.rates \subseteq {r}

\* The meter has been told of the first n bytes that arrived, and of no more.
IsToldOf(m, n) == m.mark # -1 => n = IF m.last = -1 THEN m.at_mark ELSE m.at_last

LinkTypes ==
  /\ now \in 0..MaxTime /\ device_rate \in Rates /\ path \in Paths
  /\ server \in Seq(Rates) /\ Len(server) <= ServerBuffer
  /\ channel \in Seq(Rates) /\ Len(channel) <= LinkDepth /\ arrived \in Nat
  /\ stream_active \in BOOLEAN /\ measurable \in BOOLEAN
  /\ link_device_rate \in Rates \cup {0}

HealthTypes ==
  /\ drops \in Nat /\ probes \in SUBSET (1..drops) /\ answered \in 0..drops
  /\ stats.device_health = answered /\ stats.device_health_drops = answered

StatsType ==
  stats = [link_budget |-> stats.link_budget, restart_pending |-> stats.restart_pending,
           device_health |-> stats.device_health,
           device_health_drops |-> stats.device_health_drops]

\* A check c, the device's rate being r and n bytes having left the channel: what it
\* measures is of one rate and exact, what it found is of the rate, or there was nothing
\* to find out.
CheckIsTrue(c, r, n) ==
  \/ c.is = "unmeasured" /\ ~stream_active
  \/ /\ c \in [is : {"measuring"}, meter : LinkMeters] /\ measurable
     /\ WindowIsTrue(c.meter, r)
     /\ stream_active => IsToldOf(c.meter, n)
  \/ /\ c.is = "done" /\ measurable = (c.verdict # Link!NoVerdict)
     /\ c.verdict.rate \in {r, 0} /\ (c.verdict # Link!NoVerdict => c.verdict.rate \in Rates)

\* What the statistics of check c say of the link.
BudgetIsTold(c, told) ==
  /\ c.is = "done" => told = c.verdict
  /\ c.is = "measuring" /\ c.meter.mark # -1 => told = Link!NoVerdict
  /\ ~measurable => told = Link!NoVerdict

LinkInv ==
  /\ LinkTypes /\ HealthTypes /\ StatsType
  /\ CheckIsTrue(link_check, link_device_rate, arrived - Len(channel))
  /\ BudgetIsTold(link_check, stats.link_budget)

\* The link's assumptions on its constants, one by one.
LEMMA LinkConstants ==
  /\ Rates \subseteq Nat \ {0} /\ Paths \subseteq Nat \ {0}
  /\ ServerBuffer \in Nat /\ LinkDepth \in Nat \ {0}
  /\ Settle \in Nat /\ Window \in Nat \ {0} /\ MaxTime \in Nat
BY LinkIsAssumed DEF Link!LinkAssumption

\* A nonempty set of naturals has a least element.
LEMMA FirstExists ==
  ASSUME NEW I \in SUBSET Nat, I # {}
  PROVE  \E i \in I : \A j \in I : i <= j
<1>1. PICK i \in I : \A j \in I : ~(<<j, i>> \in OpToRel(<, Nat))
  BY NatLessThanWellFounded, WFMin
<1>2. \A j \in I : ~(j < i)
  BY <1>1 DEF OpToRel
<1> QED
  BY <1>2

\* Rates of which no two neighbours differ are all the same.
LEMMA OneRateThroughout ==
  ASSUME NEW s \in Seq(Nat), s # << >>, \A k \in 1..Len(s) - 1 : s[k] = s[k + 1]
  PROVE  \A i \in 1..Len(s) : s[i] = s[1]
<1> DEFINE I == {i \in 1..Len(s) : s[i] # s[1]}
<1>1. SUFFICES ASSUME I # {} PROVE FALSE
  OBVIOUS
<1>2. I \in SUBSET Nat
  OBVIOUS
<1>3. PICK i \in I : \A j \in I : i <= j
  BY <1>1, <1>2, FirstExists
<1>4. i \in 2..Len(s)
  BY <1>3
<1>5. i - 1 \in 1..Len(s) - 1
  BY <1>4
<1>6. s[i - 1] = s[1]
  BY <1>3, <1>4, <1>5
<1>7. s[i - 1] = s[i]
  BY <1>4, <1>5
<1> QED
  BY <1>3, <1>6, <1>7

\* The packets of a sweep in which note_device_rate sees no change.
LEMMA SweepOfOneRate ==
  ASSUME NEW bytes \in Seq(Rates), bytes # << >>, link_device_rate \in Rates \cup {0}
  PROVE  /\ Link!Last(bytes) \in Rates
         /\ ~Link!RateMoves(bytes) =>
              /\ Link!ToSet(bytes) \subseteq {Link!Last(bytes)}
              /\ link_device_rate \in {Link!Last(bytes), 0}
<1>1. /\ bytes \in Seq(Nat) /\ Len(bytes) \in Nat \ {0}
      /\ \A k \in 1..Len(bytes) : bytes[k] \in Rates
  <2>1. Rates \subseteq Nat
    BY LinkConstants
  <2>2. bytes \in Seq(Nat)
    BY <2>1, SeqMonotonic
  <2>3. Len(bytes) \in Nat \ {0}
    BY EmptySeq, LenProperties
  <2> QED
    BY <2>2, <2>3, ElementOfSeq
<1>2. Link!Last(bytes) = bytes[Len(bytes)] /\ Link!Last(bytes) \in Rates
  BY <1>1 DEF Link!Last
<1>3. SUFFICES ASSUME ~Link!RateMoves(bytes)
               PROVE  /\ Link!ToSet(bytes) \subseteq {Link!Last(bytes)}
                      /\ link_device_rate \in {Link!Last(bytes), 0}
  BY <1>2
<1>4. CASE link_device_rate = 0
  <2>1. \A k \in 1..Len(bytes) - 1 : bytes[k] = bytes[k + 1]
    BY <1>3, <1>4 DEF Link!RateMoves, Link!None
  <2>2. \A i \in 1..Len(bytes) : bytes[i] = bytes[1]
    BY <1>1, <2>1, OneRateThroughout
  <2> QED
    BY <1>1, <1>2, <1>4, <2>2 DEF Link!ToSet
<1>5. CASE link_device_rate # 0
  <2> DEFINE s == <<link_device_rate>> \o bytes
  <2>1. link_device_rate \in Nat /\ <<link_device_rate>> \in Seq(Nat)
        /\ Len(<<link_device_rate>>) = 1 /\ <<link_device_rate>>[1] = link_device_rate
    BY LinkConstants
  <2>2. /\ s \in Seq(Nat) /\ Len(s) = Len(bytes) + 1 /\ s[1] = link_device_rate
        /\ \A k \in 1..Len(bytes) : s[k + 1] = bytes[k]
    <3>1. s \in Seq(Nat) /\ Len(s) = 1 + Len(bytes)
      BY <1>1, <2>1, ConcatProperties
    <3>2. \A k \in 1..Len(s) :
            s[k] = IF k <= 1 THEN <<link_device_rate>>[k] ELSE bytes[k - 1]
      BY <1>1, <2>1, <3>1, ConcatProperties
    <3> HIDE DEF s
    <3> QED
      BY <1>1, <2>1, <3>1, <3>2
  <2>3. \A k \in 1..Len(s) - 1 : s[k] = s[k + 1]
    BY <1>3, <1>5 DEF Link!RateMoves, Link!None
  <2> HIDE DEF s
  <2>4. s # << >>
    BY <1>1, <2>2
  <2>5. \A i \in 1..Len(s) : s[i] = s[1]
    BY <2>2, <2>3, <2>4, OneRateThroughout
  <2>6. \A k \in 1..Len(bytes) : bytes[k] = link_device_rate
    <3>1. TAKE k \in 1..Len(bytes)
    <3>2. k + 1 \in 1..Len(s)
      BY <1>1, <2>2
    <3> QED
      BY <2>2, <2>5, <3>2
  <2> QED
    BY <1>1, <1>2, <2>6 DEF Link!ToSet
<1> QED
  BY <1>4, <1>5

\* A window that is opened now has nothing to be wrong about.
LEMMA ArmedIsTrue ==
  ASSUME LinkTypes, NEW r
  PROVE  /\ Link!armed \in [is : {"measuring"}, meter : LinkMeters]
         /\ WindowIsTrue(Link!armed.meter, r) /\ Link!armed.meter.mark = -1
<1>1. now \in Nat
  BY LinkConstants DEF LinkTypes
<1>2. Link!starting_at(now) \in LinkMeters
  BY <1>1 DEF Link!starting_at, LinkMeters
<1>3. WindowIsTrue(Link!starting_at(now), r)
  BY <1>1, <1>2 DEF Link!starting_at, WindowIsTrue
<1> QED
  BY <1>2, <1>3 DEF Link!armed, Link!starting_at

\* What one sweep does to a meter that is true: it ends its window, or is true of one
\* sweep more.
LEMMA ObservedIsTrue ==
  ASSUME LinkTypes, NEW m, NEW r, NEW bytes \in Seq(Rates),
         WindowIsTrue(m, r), IsToldOf(m, arrived - Len(bytes)),
         m.mark = -1 \/ Link!ToSet(bytes) \subseteq {r},
         NEW n, n = Link!observe(m, now, bytes, arrived)
  PROVE  /\ n \in LinkMeters
         /\ ~n.closed => WindowIsTrue(n, r) /\ IsToldOf(n, arrived)
<1>1. /\ now \in Nat /\ arrived \in Nat /\ Len(bytes) \in Nat
      /\ Settle \in Nat /\ Window \in Nat \ {0}
  BY LinkConstants, LenProperties DEF LinkTypes
<1>2. /\ m \in LinkMeters /\ ~m.closed
      /\ m.opened \in Nat /\ m.mark \in Int /\ m.last \in Int /\ m.counted \in Nat
      /\ m.at_mark \in Nat /\ m.at_last \in Nat /\ m.rates \in SUBSET Rates
      /\ m.opened <= now
  BY DEF WindowIsTrue, LinkMeters
<1>3. CASE now - m.opened < Settle
  <2>1. n = m
    BY <1>3, Zenon DEF Link!observe
  <2>2. m.mark = -1
    <3>1. m.mark = -1 \/ (m.mark \in 0..now /\ m.mark - m.opened >= Settle)
      BY Zenon DEF WindowIsTrue
    <3> QED
      BY <1>1, <1>2, <1>3, <3>1
  <2> QED
    BY <1>2, <2>1, <2>2 DEF IsToldOf
<1>4. CASE now - m.opened >= Settle /\ m.mark = -1
  <2>1. n = [m EXCEPT !.mark = now, !.at_mark = arrived]
    <3>1. ~(now - m.opened < Settle) /\ m.mark < 0
      BY <1>1, <1>2, <1>4
    <3>2. n = Link!Marked(m, now, bytes, arrived)
      BY <1>2, <3>1, Zenon DEF Link!observe
    <3> QED
      BY <3>2, Zenon DEF Link!Marked
  <2>2. n \in LinkMeters
    <3>1. now \in Int /\ arrived \in Nat
      BY <1>1
    <3>2. PICK k : k = [m EXCEPT !.mark = now]
      OBVIOUS
    <3>3. k \in LinkMeters
      BY <1>2, <3>1, <3>2 DEF LinkMeters
    <3>4. n = [k EXCEPT !.at_mark = arrived]
      BY <2>1, <3>2
    <3> QED
      BY <3>1, <3>3, <3>4 DEF LinkMeters
  <2>3. /\ n.closed = m.closed /\ n.opened = m.opened /\ n.mark = now /\ n.last = m.last
        /\ n.counted = m.counted /\ n.rates = m.rates /\ n.at_mark = arrived
    BY <1>2, <2>1 DEF LinkMeters
  <2>4. n.last = -1
    BY <1>4, <2>3 DEF WindowIsTrue
  <2>5. WindowIsTrue(n, r)
    BY <1>1, <1>2, <1>4, <2>2, <2>3, <2>4 DEF WindowIsTrue
  <2> QED
    BY <2>2, <2>3, <2>4, <2>5 DEF IsToldOf
<1>5. CASE now - m.opened >= Settle /\ m.mark # -1
  <2>1. m.mark \in 0..now /\ m.mark - m.opened >= Settle
    BY <1>5 DEF WindowIsTrue
  <2>2. CASE now - m.mark >= Window
    <3>1. n = [m EXCEPT !.closed = TRUE]
      <4>1. now - m.opened \in Int /\ now - m.mark \in Int
        BY <1>1, <1>2
      <4>2. ~(now - m.opened < Settle)
        BY <1>1, <1>5, <4>1
      <4>3. ~(m.mark < 0)
        BY <1>1, <2>1
      <4> QED
        BY <1>2, <2>2, <4>2, <4>3, Zenon DEF Link!observe
    <3>2. n \in LinkMeters /\ n.closed
      BY <1>2, <3>1 DEF LinkMeters
    <3> QED
      BY <3>2
  <2>3. CASE now - m.mark < Window
    <3>1. n = [m EXCEPT !.counted = m.counted + Len(bytes), !.last = now,
                        !.rates = m.rates \cup Link!ToSet(bytes), !.at_last = arrived]
      <4>1. n = Link!Counting(m, now, bytes, arrived)
        <5>1. now - m.opened \in Int /\ now - m.mark \in Int
          BY <1>1, <1>2
        <5>2. ~(now - m.opened < Settle)
          BY <1>1, <1>5, <5>1
        <5>3. ~(m.mark < 0)
          BY <1>1, <2>1
        <5>4. ~(now - m.mark >= Window)
          BY <1>1, <2>3, <5>1
        <5>5. ~m.closed
          BY <1>2
        <5> QED
          BY <5>2, <5>3, <5>4, <5>5, Zenon DEF Link!observe
      <4> QED
        BY <4>1 DEF Link!Counting
    <3>2. Link!ToSet(bytes) \subseteq Rates
      BY ElementOfSeq, LenProperties DEF Link!ToSet
    <3>3. n \in LinkMeters
      <4>5. m.rates \cup Link!ToSet(bytes) \in SUBSET Rates
        BY <1>2, <3>2
      <4>1. /\ now \in Int /\ arrived \in Nat /\ m.counted + Len(bytes) \in Nat
            /\ m.rates \cup Link!ToSet(bytes) \in SUBSET Rates
        BY <1>1, <1>2, <4>5
      <4>2. PICK k : k = [m EXCEPT !.counted = m.counted + Len(bytes), !.last = now]
        OBVIOUS
      <4>3. k \in LinkMeters
        BY <1>2, <4>1, <4>2 DEF LinkMeters
      <4>4. n = [k EXCEPT !.rates = m.rates \cup Link!ToSet(bytes), !.at_last = arrived]
        BY <3>1, <4>2
      <4> QED
        BY <4>1, <4>3, <4>4 DEF LinkMeters
    <3>4. /\ n.closed = m.closed /\ n.opened = m.opened /\ n.mark = m.mark /\ n.last = now
          /\ n.counted = m.counted + Len(bytes) /\ n.at_last = arrived
          /\ n.at_mark = m.at_mark /\ n.rates = m.rates \cup Link!ToSet(bytes)
      BY <1>2, <3>1 DEF LinkMeters
    <3>5. n.rates \subseteq {r}
      BY <1>5, <3>4 DEF WindowIsTrue
    <3>6. n.counted = n.at_last - n.at_mark
      <4>1. CASE m.last = -1
        <5>1. m.counted = 0 /\ arrived - Len(bytes) = m.at_mark
          BY <1>5, <4>1 DEF WindowIsTrue, IsToldOf
        <5> QED
          BY <1>1, <1>2, <3>4, <5>1
      <4>2. CASE m.last # -1
        <5>1. m.counted = m.at_last - m.at_mark /\ arrived - Len(bytes) = m.at_last
          BY <1>5, <4>2 DEF WindowIsTrue, IsToldOf
        <5> QED
          BY <1>1, <1>2, <3>4, <5>1
      <4> QED
        BY <4>1, <4>2
    <3>7. now - m.mark \in 0..Window - 1 /\ now # -1
      BY <1>1, <2>1, <2>3
    <3>8. WindowIsTrue(n, r)
      BY <1>2, <1>5, <2>1, <3>3, <3>4, <3>5, <3>6, <3>7, <1>1 DEF WindowIsTrue
    <3> QED
      BY <3>3, <3>4, <3>7, <3>8 DEF IsToldOf
  <2> QED
    BY <1>1, <2>1, <2>2, <2>3
<1> QED
  BY <1>1, <1>2, <1>3, <1>4, <1>5

\* A check that measures, after its meter has seen a sweep.
LEMMA MeasuredIsTrue ==
  ASSUME LinkTypes, NEW c, NEW r, NEW bytes \in Seq(Rates), NEW full,
         c \in [is : {"measuring"}, meter : LinkMeters],
         WindowIsTrue(c.meter, r), IsToldOf(c.meter, arrived - Len(bytes)),
         c.meter.mark = -1 \/ Link!ToSet(bytes) \subseteq {r},
         NEW d, d = Link!Measured(c, bytes, full)
  PROVE  /\ d \in [is : {"measuring"}, meter : LinkMeters]
         /\ ~d.meter.closed => WindowIsTrue(d.meter, r) /\ IsToldOf(d.meter, arrived)
<1>1. PICK m : m = Link!observe(c.meter, now, bytes, arrived)
  OBVIOUS
<1>2. m \in LinkMeters /\ (~m.closed => WindowIsTrue(m, r) /\ IsToldOf(m, arrived))
  BY <1>1, ObservedIsTrue
<1>3. PICK n : n = IF full THEN Link!note_consumer_limited(m, now) ELSE m
  OBVIOUS
<1>4. n = m \/ n = [m EXCEPT !.consumer_limited = TRUE]
  BY <1>3 DEF Link!note_consumer_limited
<1>5. /\ n \in LinkMeters
      /\ \A f \in {"opened", "mark", "last", "counted", "closed", "rates", "at_mark",
                    "at_last"} : n[f] = m[f]
  BY <1>2, <1>4 DEF LinkMeters
<1>6. ~n.closed => WindowIsTrue(n, r) /\ IsToldOf(n, arrived)
  <2>1. /\ n.opened = m.opened /\ n.mark = m.mark /\ n.last = m.last
        /\ n.counted = m.counted /\ n.closed = m.closed /\ n.rates = m.rates
        /\ n.at_mark = m.at_mark /\ n.at_last = m.at_last
    BY <1>5
  <2> QED
    BY <1>2, <1>5, <2>1 DEF WindowIsTrue, IsToldOf
<1>7. d = [c EXCEPT !.meter = n]
  BY <1>1, <1>3 DEF Link!Measured
<1>8. d \in [is : {"measuring"}, meter : LinkMeters] /\ d.meter = n
  BY <1>5, <1>7
<1> QED
  BY <1>6, <1>8

\* The check after a sweep's report, and what the statistics then say of it: the window
\* goes on, or ends in a verdict of the sweep's last rate, or starts over.
LEMMA ReportedIsTrue ==
  ASSUME LinkTypes, measurable, NEW r \in Rates, NEW d, NEW told, NEW e,
         d \in [is : {"measuring"}, meter : LinkMeters],
         ~d.meter.closed => WindowIsTrue(d.meter, r) /\ IsToldOf(d.meter, arrived),
         e = Link!report_link_budget(d, r)
  PROVE  /\ CheckIsTrue(e, r, arrived)
         /\ e.is # "measuring" => e = Link!Done(Link!judge(r, d.meter)) /\ e.is = "done"
<1>1. r # 0
  BY LinkConstants
<1>2. d.is = "measuring"
  OBVIOUS
<1>3. CASE ~d.meter.closed
  <2>1. e = d
    BY <1>3, Zenon DEF Link!report_link_budget
  <2> QED
    BY <1>2, <1>3, <2>1 DEF CheckIsTrue
<1>4. CASE d.meter.closed /\ (d.meter.consumer_limited \/ ~Link!finish(d.meter))
  <2>1. e = Link!armed
    BY <1>2, <1>4, Zenon DEF Link!report_link_budget
  <2>2. /\ Link!armed \in [is : {"measuring"}, meter : LinkMeters]
        /\ WindowIsTrue(Link!armed.meter, r) /\ Link!armed.meter.mark = -1
    BY ArmedIsTrue
  <2>3. Link!armed.is = "measuring"
    BY <2>2
  <2> QED
    BY <2>1, <2>2, <2>3 DEF CheckIsTrue, IsToldOf
<1>5. CASE d.meter.closed /\ ~(d.meter.consumer_limited \/ ~Link!finish(d.meter))
  <2>1. e = Link!Done(Link!judge(r, d.meter))
    BY <1>1, <1>2, <1>5, Zenon DEF Link!report_link_budget, Link!None
  <2>2. PICK v : v = Link!judge(r, d.meter)
    OBVIOUS
  <2>3. v.rate = r
    BY <2>2 DEF Link!judge
  <2>4. v # Link!NoVerdict
    BY <1>1, <2>3 DEF Link!NoVerdict
  <2>5. e.is = "done" /\ e.verdict = v
    BY <2>1, <2>2 DEF Link!Done
  <2>6. CheckIsTrue(e, r, arrived)
    BY <2>3, <2>4, <2>5 DEF CheckIsTrue
  <2> QED
    BY <2>1, <2>5, <2>6
<1> QED
  BY <1>3, <1>4, <1>5

\* The statistics change one field at a time.
LEMMA StatsFields ==
  ASSUME StatsType
  PROVE  /\ \A b : [stats EXCEPT !.link_budget = b] =
                 [link_budget |-> b, restart_pending |-> stats.restart_pending,
                  device_health |-> stats.device_health,
                  device_health_drops |-> stats.device_health_drops]
         /\ \A b : [stats EXCEPT !.restart_pending = b] =
                 [link_budget |-> stats.link_budget, restart_pending |-> b,
                  device_health |-> stats.device_health,
                  device_health_drops |-> stats.device_health_drops]
         /\ \A h : [stats EXCEPT !.device_health = h, !.device_health_drops = h] =
                 [link_budget |-> stats.link_budget, restart_pending |-> stats.restart_pending,
                  device_health |-> h, device_health_drops |-> h]
<1>1. PICK l, p, h, d : stats = [link_budget |-> l, restart_pending |-> p,
                                 device_health |-> h, device_health_drops |-> d]
  BY DEF StatsType
<1>2. ASSUME NEW b
      PROVE  [stats EXCEPT !.link_budget = b] =
               [link_budget |-> b, restart_pending |-> p, device_health |-> h,
                device_health_drops |-> d]
  BY <1>1
<1>4. ASSUME NEW b
      PROVE  [stats EXCEPT !.restart_pending = b] =
               [link_budget |-> l, restart_pending |-> b, device_health |-> h,
                device_health_drops |-> d]
  BY <1>1
<1>5. ASSUME NEW b
      PROVE  [stats EXCEPT !.device_health = b, !.device_health_drops = b] =
               [link_budget |-> l, restart_pending |-> p, device_health |-> b,
                device_health_drops |-> b]
  <2>1. PICK s : s = [stats EXCEPT !.device_health = b]
    OBVIOUS
  <2>2. s = [link_budget |-> l, restart_pending |-> p, device_health |-> b,
             device_health_drops |-> d]
    BY <1>1, <2>1
  <2>3. [stats EXCEPT !.device_health = b, !.device_health_drops = b] =
          [s EXCEPT !.device_health_drops = b]
    BY <2>1
  <2> QED
    BY <2>2, <2>3
<1>3. stats.link_budget = l /\ stats.restart_pending = p /\ stats.device_health = h
      /\ stats.device_health_drops = d
  BY <1>1
<1> QED
  BY <1>2, <1>3, <1>4, <1>5

\* What note_device_rate leaves to be measured: a window of the sweep's own rate, or one
\* that begins with it.
LEMMA NotedIsTrue ==
  ASSUME LinkInv, stream_active, channel # << >>, NEW r, r = Link!Last(channel),
         NEW c, c = Link!note_device_rate(channel)
  PROVE  /\ CheckIsTrue(c, r, arrived - Len(channel))
         /\ c.is = "measuring" =>
              /\ c \in [is : {"measuring"}, meter : LinkMeters] /\ measurable
              /\ WindowIsTrue(c.meter, r) /\ IsToldOf(c.meter, arrived - Len(channel))
              /\ c.meter.mark = -1 \/ Link!ToSet(channel) \subseteq {r}
         /\ c.is \in {"measuring", "done"}
         /\ BudgetIsTold(c, Link!VerdictOf(c))
<1>1. /\ LinkTypes /\ channel \in Seq(Rates) /\ link_device_rate \in Rates \cup {0}
      /\ CheckIsTrue(link_check, link_device_rate, arrived - Len(channel))
  BY DEF LinkInv, LinkTypes
<1>2. /\ r \in Rates
      /\ ~Link!RateMoves(channel) =>
           Link!ToSet(channel) \subseteq {r} /\ link_device_rate \in {r, 0}
  BY <1>1, SweepOfOneRate
<1>3. link_check.is \in {"measuring", "done"}
  BY <1>1 DEF CheckIsTrue
<1>4. link_check.is = "measuring" =>
        /\ link_check \in [is : {"measuring"}, meter : LinkMeters] /\ measurable
        /\ WindowIsTrue(link_check.meter, link_device_rate)
        /\ IsToldOf(link_check.meter, arrived - Len(channel))
  BY <1>1 DEF CheckIsTrue
<1>5. link_check.is = "done" =>
        /\ measurable = (link_check.verdict # Link!NoVerdict)
        /\ link_check.verdict.rate \in {link_device_rate, 0}
        /\ link_check.verdict # Link!NoVerdict => link_check.verdict.rate \in Rates
  BY <1>1 DEF CheckIsTrue
<1>6. CASE Link!RateMoves(channel) /\ Link!Rearms(link_check)
  <2>1. c = Link!armed
    BY <1>6, Zenon DEF Link!note_device_rate
  <2>2. /\ c \in [is : {"measuring"}, meter : LinkMeters]
        /\ WindowIsTrue(c.meter, r) /\ c.meter.mark = -1
    BY <1>1, <2>1, ArmedIsTrue
  <2>3. c.is = "measuring"
    BY <2>2
  <2>4. measurable
    BY <1>4, <1>5, <1>6 DEF Link!Rearms
  <2>5. CheckIsTrue(c, r, arrived - Len(channel)) /\ IsToldOf(c.meter, arrived - Len(channel))
    BY <2>2, <2>4 DEF CheckIsTrue, IsToldOf
  <2>6. BudgetIsTold(c, Link!VerdictOf(c))
    BY <2>2, <2>3, <2>4 DEF BudgetIsTold
  <2> QED
    BY <2>2, <2>3, <2>4, <2>5, <2>6
<1>7. CASE ~(Link!RateMoves(channel) /\ Link!Rearms(link_check))
  <2>1. c = link_check
    BY <1>7, Zenon DEF Link!note_device_rate
  <2>2. CASE c.is = "measuring"
    <3>1. ~Link!RateMoves(channel)
      BY <1>7, <2>1, <2>2 DEF Link!Rearms
    <3>2. /\ c \in [is : {"measuring"}, meter : LinkMeters] /\ measurable
          /\ WindowIsTrue(c.meter, link_device_rate)
          /\ IsToldOf(c.meter, arrived - Len(channel))
      BY <1>4, <2>1, <2>2
    <3>3. link_device_rate = r \/ (0 \notin Rates /\ link_device_rate = 0)
      BY <1>2, <3>1, LinkConstants
    <3>4. WindowIsTrue(c.meter, r)
      <4>1. c.meter.rates \subseteq {r}
        BY <3>2, <3>3 DEF WindowIsTrue, LinkMeters
      <4> QED
        BY <3>2, <4>1 DEF WindowIsTrue
    <3>5. CheckIsTrue(c, r, arrived - Len(channel))
      BY <3>2, <3>4 DEF CheckIsTrue
    <3>6. Link!VerdictOf(c) = Link!NoVerdict
      BY <2>2 DEF Link!VerdictOf
    <3>7. BudgetIsTold(c, Link!VerdictOf(c))
      BY <2>2, <3>6 DEF BudgetIsTold
    <3> QED
      BY <1>2, <2>2, <3>1, <3>2, <3>4, <3>5, <3>7
  <2>3. CASE c.is = "done"
    <3>1. /\ measurable = (c.verdict # Link!NoVerdict)
          /\ c.verdict.rate \in {link_device_rate, 0}
          /\ c.verdict # Link!NoVerdict => c.verdict.rate \in Rates
      BY <1>5, <2>1, <2>3
    <3>2. CASE c.verdict = Link!NoVerdict
      <4>1. c.verdict.rate = 0
        BY <3>2 DEF Link!NoVerdict
      <4>2. CheckIsTrue(c, r, arrived - Len(channel))
        BY <2>3, <3>1, <4>1 DEF CheckIsTrue
      <4>3. Link!VerdictOf(c) = c.verdict
        BY <2>3 DEF Link!VerdictOf
      <4>4. BudgetIsTold(c, Link!VerdictOf(c))
        BY <2>3, <3>2, <4>3 DEF BudgetIsTold
      <4> QED
        BY <2>3, <4>2, <4>4
    <3>3. CASE c.verdict # Link!NoVerdict
      <4>1. ~Link!RateMoves(channel)
        BY <1>7, <2>1, <2>3, <3>3 DEF Link!Rearms
      <4>2. c.verdict.rate \in {r, 0}
        BY <1>2, <3>1, <4>1
      <4>3. CheckIsTrue(c, r, arrived - Len(channel))
        BY <2>3, <3>1, <4>2 DEF CheckIsTrue
      <4>4. Link!VerdictOf(c) = c.verdict
        BY <2>3 DEF Link!VerdictOf
      <4>5. BudgetIsTold(c, Link!VerdictOf(c))
        BY <2>3, <3>1, <3>3, <4>4 DEF BudgetIsTold
      <4> QED
        BY <2>3, <4>3, <4>5
    <3> QED
      BY <3>2, <3>3
  <2> QED
    BY <1>3, <2>1, <2>2, <2>3
<1> QED
  BY <1>6, <1>7

\* fetch_samples takes what is in the channel.
LEMMA SweepStep ==
  ASSUME LinkInv, NEW gap \in BOOLEAN, Link!Sweep(gap)
  PROVE  LinkInv'
<1>1. /\ stream_active /\ channel # << >> /\ channel' = << >> /\ stream_active' = stream_active
      /\ link_device_rate' = Link!Last(channel)
      /\ UNCHANGED <<now, device_rate, path, server, trouble, arrived, measurable>>
      /\ Link!CountGap(gap)
  BY DEF Link!Sweep
<1>2. /\ LinkTypes /\ HealthTypes /\ StatsType /\ channel \in Seq(Rates) /\ arrived \in Nat
  BY DEF LinkInv, LinkTypes
<1>3. PICK r : r = Link!Last(channel)
  OBVIOUS
<1>4. PICK c : c = Link!note_device_rate(channel)
  OBVIOUS
<1>5. PICK full : full = (Len(channel) >= LinkDepth)
  OBVIOUS
<1>6. PICK d : d = Link!Measured(c, channel, full)
  OBVIOUS
<1>7. PICK e : e = Link!report_link_budget(d, r)
  OBVIOUS
<1>8. PICK snapshot : snapshot = [stats EXCEPT !.link_budget = Link!VerdictOf(c)]
  OBVIOUS
<1>9. /\ link_check' = e
      /\ stats' = Link!Published(snapshot, d, e)
  BY <1>3, <1>4, <1>5, <1>6, <1>7, <1>8 DEF Link!Sweep, Link!Refreshed
<1>10. r \in Rates
  BY <1>1, <1>2, <1>3, SweepOfOneRate DEF LinkTypes
<1>11. /\ CheckIsTrue(c, r, arrived - Len(channel))
       /\ c.is = "measuring" =>
            /\ c \in [is : {"measuring"}, meter : LinkMeters] /\ measurable
            /\ WindowIsTrue(c.meter, r) /\ IsToldOf(c.meter, arrived - Len(channel))
            /\ c.meter.mark = -1 \/ Link!ToSet(channel) \subseteq {r}
       /\ c.is \in {"measuring", "done"}
       /\ BudgetIsTold(c, Link!VerdictOf(c))
  BY <1>1, <1>3, <1>4, NotedIsTrue
<1>12. /\ snapshot = [link_budget |-> Link!VerdictOf(c),
                      restart_pending |-> stats.restart_pending,
                      device_health |-> stats.device_health,
                      device_health_drops |-> stats.device_health_drops]
  BY <1>2, <1>8, StatsFields
<1>13. \A b : [snapshot EXCEPT !.link_budget = b] =
               [link_budget |-> b, restart_pending |-> stats.restart_pending,
                device_health |-> stats.device_health,
                device_health_drops |-> stats.device_health_drops]
  BY <1>12
<1>14. /\ CheckIsTrue(e, r, arrived)
       /\ \E b : /\ stats' = [link_budget |-> b, restart_pending |-> stats.restart_pending,
                               device_health |-> stats.device_health,
                               device_health_drops |-> stats.device_health_drops]
                 /\ BudgetIsTold(e, b)
  <2>1. CASE c.is = "measuring"
    <3>1. /\ d \in [is : {"measuring"}, meter : LinkMeters] /\ measurable
          /\ ~d.meter.closed => WindowIsTrue(d.meter, r) /\ IsToldOf(d.meter, arrived)
      BY <1>2, <1>6, <1>11, <2>1, MeasuredIsTrue
    <3>2. PICK v : v = Link!judge(r, d.meter)
      OBVIOUS
    <3>3. /\ CheckIsTrue(e, r, arrived)
          /\ e.is # "measuring" => e = Link!Done(v) /\ e.is = "done"
      BY <1>2, <1>7, <1>10, <3>1, <3>2, ReportedIsTrue
    <3>4. d.is = "measuring"
      BY <3>1
    <3>5. Link!VerdictOf(c) = Link!NoVerdict
      BY <2>1 DEF Link!VerdictOf
    <3>6. CASE e.is = "measuring"
      <4>1. stats' = snapshot
        BY <1>9, <3>6 DEF Link!Published
      <4>2. BudgetIsTold(e, Link!NoVerdict)
        BY <3>6 DEF BudgetIsTold
      <4> QED
        BY <1>12, <3>3, <3>5, <4>1, <4>2
    <3>7. CASE e.is # "measuring"
      <4>1. e.is = "done" /\ e.verdict = v
        BY <3>3, <3>7 DEF Link!Done
      <4>2. stats' = [snapshot EXCEPT !.link_budget = v]
        BY <1>9, <3>4, <4>1 DEF Link!Published
      <4>3. BudgetIsTold(e, v)
        BY <3>1, <4>1 DEF BudgetIsTold
      <4> QED
        BY <1>13, <3>3, <4>2, <4>3
    <3> QED
      BY <3>6, <3>7
  <2>2. CASE c.is = "done"
    <3>1. d = c
      BY <1>6, <2>2 DEF Link!Measured
    <3>2. e = c
      BY <1>7, <2>2, <3>1 DEF Link!report_link_budget
    <3>3. stats' = snapshot
      BY <1>9, <2>2, <3>1 DEF Link!Published
    <3>4. CheckIsTrue(e, r, arrived)
      BY <1>11, <2>2, <3>2 DEF CheckIsTrue
    <3> QED
      BY <1>11, <1>12, <3>2, <3>3, <3>4
  <2> QED
    BY <1>11, <2>1, <2>2
<1>15. PICK b : /\ stats' = [link_budget |-> b, restart_pending |-> stats.restart_pending,
                             device_health |-> stats.device_health,
                             device_health_drops |-> stats.device_health_drops]
                /\ BudgetIsTold(e, b)
  BY <1>14
<1>16. StatsType' /\ stats'.link_budget = b
       /\ stats'.device_health = stats.device_health
       /\ stats'.device_health_drops = stats.device_health_drops
  BY <1>15 DEF StatsType
<1>17. LinkTypes'
  <2>1. channel' \in Seq(Rates) /\ Len(channel') = 0 /\ LinkDepth \in Nat
    BY <1>1, LinkConstants
  <2>2. link_device_rate' \in Rates
    BY <1>1, <1>3, <1>10
  <2> QED
    BY <1>1, <1>2, <2>1, <2>2 DEF LinkTypes
<1>18. HealthTypes'
  <2>1. drops \in Nat /\ probes \in SUBSET (1..drops) /\ answered \in 0..drops
    BY <1>2 DEF HealthTypes
  <2>2. drops' \in Nat /\ drops' >= drops /\ (gap => drops' = drops + 1)
    BY <1>1, <2>1 DEF Link!CountGap
  <2>3. probes' \in SUBSET (1..drops')
    <3>1. probes' = probes \/ (gap /\ probes' = probes \cup {drops'})
      BY <1>1 DEF Link!CountGap
    <3>2. PICK n : n = drops'
      OBVIOUS
    <3>3. 1..drops \subseteq 1..n /\ (gap => n \in 1..n)
      BY <2>1, <2>2, <3>2
    <3> QED
      BY <2>1, <3>1, <3>2, <3>3
  <2>4. answered' = answered
    BY <1>1 DEF Link!CountGap
  <2> QED
    BY <1>2, <1>16, <2>1, <2>2, <2>3, <2>4 DEF HealthTypes
<1>19. arrived' - Len(channel') = arrived
  BY <1>1, <1>2
<1>20. CheckIsTrue(e, r, arrived)'
  BY <1>1, <1>14 DEF CheckIsTrue, WindowIsTrue, IsToldOf
<1>21. BudgetIsTold(e, b)'
  BY <1>1, <1>15 DEF BudgetIsTold
<1> QED
  BY <1>1, <1>3, <1>9, <1>16, <1>17, <1>18, <1>19, <1>20, <1>21 DEF LinkInv

\* What LinkInv says of the check does not change when nothing of the check does and no
\* byte is lost.
LEMMA CheckStays ==
  ASSUME LinkInv, now' >= now, LinkTypes', HealthTypes', StatsType',
         UNCHANGED <<stream_active, measurable, link_check, link_device_rate>>,
         stream_active => arrived' - Len(channel') = arrived - Len(channel),
         stats'.link_budget = stats.link_budget
  PROVE  LinkInv'
<1>1. now \in Nat /\ now' \in Nat
  BY LinkConstants DEF LinkInv, LinkTypes
<1>2. PICK c, r, n, n2, b :
        /\ c = link_check /\ r = link_device_rate /\ n = arrived - Len(channel)
        /\ n2 = (arrived - Len(channel))' /\ b = stats.link_budget
  OBVIOUS
<1>3. CheckIsTrue(c, r, n) /\ BudgetIsTold(c, b)
  BY <1>2 DEF LinkInv
<1>4. stream_active => n2 = n
  BY <1>2
<1>5. c \in [is : {"measuring"}, meter : LinkMeters] /\ WindowIsTrue(c.meter, r)
        => WindowIsTrue(c.meter, r)'
  <2> SUFFICES ASSUME c \in [is : {"measuring"}, meter : LinkMeters], WindowIsTrue(c.meter, r)
               PROVE  WindowIsTrue(c.meter, r)'
    OBVIOUS
  <2>1. PICK m : m = c.meter
    OBVIOUS
  <2>2. m \in LinkMeters /\ m.opened \in Nat /\ m.mark \in Int
    BY <2>1 DEF LinkMeters
  <2>3. m.opened <= now /\ (m.mark = -1 \/ (m.mark \in 0..now /\ m.mark - m.opened >= Settle))
    BY <2>1 DEF WindowIsTrue
  <2>4. m.opened <= now' /\ (m.mark = -1 \/ (m.mark \in 0..now' /\ m.mark - m.opened >= Settle))
    BY <1>1, <2>2, <2>3
  <2>5. WindowIsTrue(m, r)'
    BY <2>1, <2>4 DEF WindowIsTrue
  <2> QED
    BY <2>1, <2>5
<1>6. CheckIsTrue(c, r, n2)'
  <2>1. CASE c.is = "unmeasured" /\ ~stream_active
    BY <2>1 DEF CheckIsTrue
  <2>2. CASE /\ c \in [is : {"measuring"}, meter : LinkMeters] /\ measurable
             /\ WindowIsTrue(c.meter, r)
             /\ stream_active => IsToldOf(c.meter, n)
    <3>1. stream_active' => IsToldOf(c.meter, n2)
      BY <1>4, <2>2
    <3> QED
      BY <1>5, <2>2, <3>1 DEF CheckIsTrue
  <2>3. CASE /\ c.is = "done" /\ measurable = (c.verdict # Link!NoVerdict)
             /\ c.verdict.rate \in {r, 0}
             /\ (c.verdict # Link!NoVerdict => c.verdict.rate \in Rates)
    BY <2>3 DEF CheckIsTrue
  <2> QED
    BY <1>3, <2>1, <2>2, <2>3 DEF CheckIsTrue
<1>7. BudgetIsTold(c, b)'
  BY <1>3 DEF BudgetIsTold
<1> QED
  BY <1>2, <1>6, <1>7 DEF LinkInv

\* A tick: what the channel has no room for stays with the server, which drops what it
\* cannot hold.
LEMMA TickStep == LinkInv /\ Link!Tick => LinkInv'
<1> SUFFICES ASSUME LinkInv, Link!Tick PROVE LinkInv'
  OBVIOUS
<1>1. /\ now \in 0..MaxTime /\ device_rate \in Rates /\ path \in Paths
      /\ server \in Seq(Rates) /\ channel \in Seq(Rates) /\ arrived \in Nat
      /\ stream_active \in BOOLEAN /\ Len(channel) \in Nat /\ Len(channel) <= LinkDepth
  BY LenProperties DEF LinkInv, LinkTypes
<1>2. device_rate \in Nat /\ path \in Nat /\ LinkDepth \in Nat /\ ServerBuffer \in Nat
      /\ MaxTime \in Nat
  BY <1>1, LinkConstants
<1>3. PICK due : due = server \o [k \in 1..device_rate |-> device_rate]
  OBVIOUS
<1>4. due \in Seq(Rates) /\ Len(due) \in Nat
  <2>1. [k \in 1..device_rate |-> device_rate] \in Seq(Rates)
    BY <1>1, <1>2, IsASeq
  <2> QED
    BY <1>1, <1>3, <2>1, ConcatProperties, LenProperties
<1>5. PICK moved : moved = IF stream_active
                           THEN Link!Least(Link!Least(path, Len(due)), LinkDepth - Len(channel))
                           ELSE 0
  OBVIOUS
<1>6. /\ moved \in 0..Len(due) /\ Len(channel) + moved <= LinkDepth
      /\ ~stream_active => moved = 0
  BY <1>1, <1>2, <1>4, <1>5 DEF Link!Least
<1>7. /\ channel' = channel \o SubSeq(due, 1, moved) /\ arrived' = arrived + moved
      /\ server' = SubSeq(due, moved + 1, Link!Least(Len(due), moved + ServerBuffer))
      /\ now < MaxTime /\ now' = now + 1
      /\ UNCHANGED <<device_rate, path, trouble, stream_active, measurable, link_check,
                     link_device_rate, drops, next_gap_report, probes, answered, stats>>
  BY <1>3, <1>5 DEF Link!Tick, Link!check_vars, Link!health_vars
<1>8. SubSeq(due, 1, moved) \in Seq(Rates) /\ Len(SubSeq(due, 1, moved)) = moved
  BY <1>4, <1>6, SubSeqProperties
<1>9. channel' \in Seq(Rates) /\ Len(channel') = Len(channel) + moved
  BY <1>1, <1>7, <1>8, ConcatProperties
<1>10. server' \in Seq(Rates) /\ Len(server') <= ServerBuffer
  <2>1. PICK top : top = Link!Least(Len(due), moved + ServerBuffer)
    OBVIOUS
  <2>2. top \in Nat /\ top <= Len(due) /\ top <= moved + ServerBuffer
    BY <1>2, <1>4, <1>6, <2>1 DEF Link!Least
  <2>3. moved + 1 \in Int /\ top \in Int /\ moved <= top
        /\ moved + 1..top \subseteq 1..Len(due)
    BY <1>2, <1>4, <1>6, <2>1, <2>2 DEF Link!Least
  <2>4. \A i \in moved + 1..top : due[i] \in Rates
    BY <1>4, <2>3, ElementOfSeq
  <2>5. /\ SubSeq(due, moved + 1, top) \in Seq(Rates)
        /\ Len(SubSeq(due, moved + 1, top)) =
             IF moved + 1 <= top THEN top - (moved + 1) + 1 ELSE 0
    BY <2>3, <2>4, SubSeqProperties
  <2> QED
    <3>1. Len(SubSeq(due, moved + 1, top)) <= ServerBuffer
      BY <1>2, <1>4, <1>6, <2>2, <2>3, <2>5
    <3>2. server' = SubSeq(due, moved + 1, top)
      BY <1>7, <2>1
    <3> QED
      BY <2>5, <3>1, <3>2
<1>11. LinkTypes'
  <2>1. arrived' \in Nat /\ now' \in 0..MaxTime /\ Len(channel') <= LinkDepth
    BY <1>1, <1>2, <1>4, <1>6, <1>7, <1>9
  <2> QED
    BY <1>7, <1>9, <1>10, <2>1 DEF LinkInv, LinkTypes
<1>12. HealthTypes' /\ StatsType'
  BY <1>7 DEF LinkInv, HealthTypes, StatsType
<1>13. arrived' - Len(channel') = arrived - Len(channel)
  <2>1. arrived' = arrived + moved /\ Len(channel') = Len(channel) + moved
    BY <1>7, <1>9
  <2>2. moved \in Int
    BY <1>4, <1>6
  <2>3. (arrived + moved) - (Len(channel) + moved) = arrived - Len(channel)
    BY <1>1, <2>2
  <2> QED
    BY <2>1, <2>3, Zenon
<1>14. now' >= now
  BY <1>1, <1>7
<1> QED
  BY <1>7, <1>11, <1>12, <1>13, <1>14, CheckStays

\* The device is retuned; nothing of the source notices.
LEMMA RetuneStep == LinkInv /\ Link!Retune => LinkInv'
<1> SUFFICES ASSUME LinkInv, Link!Retune PROVE LinkInv'
  OBVIOUS
<1>1. /\ device_rate' \in Rates
      /\ UNCHANGED <<now, path, server, channel, arrived, stream_active, measurable, link_check,
                     link_device_rate, drops, next_gap_report, probes, answered, stats>>
  BY DEF Link!Retune, Link!check_vars, Link!health_vars
<1>2. LinkTypes' /\ HealthTypes' /\ StatsType' /\ now' >= now
  BY <1>1 DEF LinkInv, LinkTypes, HealthTypes, StatsType
<1> QED
  BY <1>1, <1>2, CheckStays

\* A stream is opened on a check that was not done.
LEMMA OpenedIsTrue ==
  ASSUME LinkTypes, NEW c, NEW r, NEW n, c.is # "done", NEW e, e = Link!Opened(c)
  PROVE  /\ \/ e = Link!armed /\ measurable
            \/ e = Link!Done(Link!NoVerdict) /\ ~measurable
         /\ CheckIsTrue(e, r, n) /\ e.is # "unmeasured"
         /\ e.is = "measuring" => e.meter.mark = -1
<1>1. e = IF measurable THEN Link!armed ELSE Link!Done(Link!NoVerdict)
  BY DEF Link!Opened, Link!NeedsCheck
<1>2. CASE measurable
  <2>1. e \in [is : {"measuring"}, meter : LinkMeters] /\ WindowIsTrue(e.meter, r)
        /\ e.meter.mark = -1
    BY <1>1, <1>2, ArmedIsTrue
  <2>2. e.is = "measuring"
    BY <2>1
  <2> QED
    BY <1>1, <1>2, <2>1, <2>2 DEF CheckIsTrue, IsToldOf
<1>3. CASE ~measurable
  <2>1. e.is = "done" /\ e.verdict = Link!NoVerdict /\ e.verdict.rate = 0
    BY <1>1, <1>3 DEF Link!Done, Link!NoVerdict
  <2>2. measurable = FALSE
    BY <1>3 DEF LinkTypes
  <2>3. CheckIsTrue(e, r, n)
    BY <1>3, <2>1, <2>2 DEF CheckIsTrue
  <2> QED
    BY <1>1, <1>3, <2>1, <2>3
<1> QED
  BY <1>2, <1>3

\* The stream starts: a check that is not done is armed, one that is stands.
LEMMA StartStep == LinkInv /\ Link!start_stream => LinkInv'
<1> SUFFICES ASSUME LinkInv, Link!start_stream PROVE LinkInv'
  OBVIOUS
<1>1. /\ ~stream_active /\ stream_active' = TRUE /\ link_check' = Link!Opened(link_check)
      /\ channel' = << >>
      /\ UNCHANGED <<now, device_rate, path, server, trouble, arrived, measurable,
                     link_device_rate, drops, next_gap_report, probes, answered, stats>>
  BY DEF Link!start_stream, Link!health_vars
<1>2. LinkTypes' /\ HealthTypes' /\ StatsType'
  <2>1. << >> \in Seq(Rates) /\ Len(<< >>) = 0 /\ LinkDepth \in Nat
    BY LinkConstants
  <2> QED
    BY <1>1, <2>1 DEF LinkInv, LinkTypes, HealthTypes, StatsType
<1>3. PICK c, r, n, b, e :
        /\ c = link_check /\ r = link_device_rate /\ n = (arrived - Len(channel))'
        /\ b = stats.link_budget /\ e = Link!Opened(c)
  OBVIOUS
<1>4. LinkTypes /\ CheckIsTrue(c, r, arrived - Len(channel)) /\ BudgetIsTold(c, b)
  BY <1>3 DEF LinkInv
<1>5. CheckIsTrue(e, r, n)' /\ BudgetIsTold(e, b)'
  <2>1. CASE c.is = "done"
    <3>1. e = c
      BY <1>3, <2>1 DEF Link!Opened, Link!NeedsCheck
    <3>2. /\ measurable = (c.verdict # Link!NoVerdict) /\ c.verdict.rate \in {r, 0}
          /\ (c.verdict # Link!NoVerdict => c.verdict.rate \in Rates)
      BY <1>4, <2>1 DEF CheckIsTrue
    <3>3. CheckIsTrue(e, r, n)'
      BY <1>1, <2>1, <3>1, <3>2 DEF CheckIsTrue
    <3> QED
      BY <1>1, <1>4, <2>1, <3>1, <3>3 DEF BudgetIsTold
  <2>2. CASE c.is # "done"
    <3>1. /\ \/ e = Link!armed /\ measurable
             \/ e = Link!Done(Link!NoVerdict) /\ ~measurable
          /\ CheckIsTrue(e, r, n) /\ e.is # "unmeasured"
          /\ e.is = "measuring" => e.meter.mark = -1
      BY <1>3, <1>4, <2>2, OpenedIsTrue
    <3>2. CheckIsTrue(e, r, n)'
      <4>1. CASE e.is = "done"
        BY <1>1, <3>1, <4>1 DEF CheckIsTrue
      <4>2. CASE e.is # "done"
        <5>1. /\ e \in [is : {"measuring"}, meter : LinkMeters] /\ measurable
              /\ WindowIsTrue(e.meter, r)
          BY <3>1, <4>2 DEF CheckIsTrue
        <5>2. e.meter.mark = -1 /\ WindowIsTrue(e.meter, r)'
          BY <1>1, <3>1, <5>1 DEF WindowIsTrue
        <5> QED
          BY <1>1, <5>1, <5>2 DEF CheckIsTrue, IsToldOf
      <4> QED
        BY <4>1, <4>2
    <3>3. BudgetIsTold(e, b)'
      <4>1. e.is = "done" => e.verdict = Link!NoVerdict /\ ~measurable
        <5>1. Link!armed.is = "measuring"
          BY DEF Link!armed
        <5> QED
          BY <3>1, <5>1 DEF Link!Done
      <4> QED
        BY <1>1, <1>4, <3>1, <4>1 DEF BudgetIsTold
    <3> QED
      BY <3>2, <3>3
  <2> QED
    BY <2>1, <2>2
<1> QED
  BY <1>1, <1>2, <1>3, <1>5 DEF LinkInv

\* The connection ends; the check waits for the next one as it is.
LEMMA EndStep == LinkInv /\ Link!StreamEnds => LinkInv'
<1> SUFFICES ASSUME LinkInv, Link!StreamEnds PROVE LinkInv'
  OBVIOUS
<1>1. /\ stream_active /\ stream_active' = FALSE /\ channel' = << >>
      /\ UNCHANGED <<now, device_rate, path, server, arrived, measurable, link_check,
                     link_device_rate, drops, next_gap_report, probes, answered, stats>>
  BY DEF Link!StreamEnds, Link!health_vars
<1>2. LinkTypes' /\ HealthTypes' /\ StatsType'
  <2>1. << >> \in Seq(Rates) /\ Len(<< >>) = 0 /\ LinkDepth \in Nat
    BY LinkConstants
  <2>2. HealthTypes' /\ StatsType'
    BY <1>1 DEF LinkInv, HealthTypes, StatsType
  <2>3. stream_active' \in BOOLEAN /\ measurable' \in BOOLEAN
    BY <1>1 DEF LinkInv, LinkTypes
  <2> QED
    BY <1>1, <2>1, <2>2, <2>3 DEF LinkInv, LinkTypes
<1>3. PICK c, r, n, n2, b :
        /\ c = link_check /\ r = link_device_rate /\ n = arrived - Len(channel)
        /\ n2 = (arrived - Len(channel))' /\ b = stats.link_budget
  OBVIOUS
<1>4. CheckIsTrue(c, r, n) /\ BudgetIsTold(c, b)
  BY <1>3 DEF LinkInv
<1>5. CheckIsTrue(c, r, n2)'
  <2>1. CASE c.is = "done"
    BY <1>1, <1>4, <2>1 DEF CheckIsTrue
  <2>2. CASE c.is # "done"
    <3>1. /\ c \in [is : {"measuring"}, meter : LinkMeters] /\ measurable
          /\ WindowIsTrue(c.meter, r)
      BY <1>1, <1>4, <2>2 DEF CheckIsTrue
    <3>2. WindowIsTrue(c.meter, r)'
      BY <1>1, <3>1 DEF WindowIsTrue
    <3> QED
      BY <1>1, <3>1, <3>2 DEF CheckIsTrue
  <2> QED
    BY <2>1, <2>2
<1>6. BudgetIsTold(c, b)'
  BY <1>1, <1>4 DEF BudgetIsTold
<1> QED
  BY <1>1, <1>2, <1>3, <1>5, <1>6 DEF LinkInv

\* A restart is asked for.
LEMMA RequestStep == LinkInv /\ Link!RequestRestart => LinkInv'
<1> SUFFICES ASSUME LinkInv, Link!RequestRestart PROVE LinkInv'
  OBVIOUS
<1>1. /\ stats' = [stats EXCEPT !.restart_pending = TRUE]
      /\ UNCHANGED <<now, device_rate, path, server, channel, arrived, stream_active, measurable,
                     link_check, link_device_rate, drops, next_gap_report, probes, answered>>
  BY DEF Link!RequestRestart, Link!check_vars, Link!health_vars
<1>2. stats' = [link_budget |-> stats.link_budget, restart_pending |-> TRUE,
                device_health |-> stats.device_health,
                device_health_drops |-> stats.device_health_drops]
  BY <1>1, StatsFields DEF LinkInv
<1>3. /\ StatsType' /\ stats'.link_budget = stats.link_budget
      /\ stats'.device_health = stats.device_health
      /\ stats'.device_health_drops = stats.device_health_drops
  BY <1>2 DEF StatsType
<1>4. HealthTypes' /\ LinkTypes' /\ now' >= now
  BY <1>1, <1>3 DEF LinkInv, HealthTypes, LinkTypes
<1> QED
  BY <1>1, <1>3, <1>4, CheckStays

\* A restart is served: what was found was of the old configuration.
LEMMA RestartStep == LinkInv /\ Link!Restart => LinkInv'
<1> SUFFICES ASSUME LinkInv, Link!Restart PROVE LinkInv'
  OBVIOUS
<1>1. /\ stats' = [stats EXCEPT !.restart_pending = FALSE]
      /\ channel' = << >> /\ server' = << >> /\ device_rate' \in Rates
      /\ \/ stream_active' = TRUE /\ link_check' = Link!Opened(Link!Unmeasured)
         \/ stream_active' = FALSE /\ link_check' = Link!Unmeasured
      /\ UNCHANGED <<now, path, arrived, measurable, link_device_rate,
                     drops, next_gap_report, probes, answered>>
  BY DEF Link!Restart, Link!health_vars
<1>2. stats' = [link_budget |-> stats.link_budget, restart_pending |-> FALSE,
                device_health |-> stats.device_health,
                device_health_drops |-> stats.device_health_drops]
  BY <1>1, StatsFields DEF LinkInv
<1>3. /\ StatsType' /\ stats'.link_budget = stats.link_budget
      /\ stats'.device_health = stats.device_health
      /\ stats'.device_health_drops = stats.device_health_drops
  BY <1>2 DEF StatsType
<1>4. HealthTypes'
  BY <1>1, <1>3 DEF LinkInv, HealthTypes
<1>5. LinkTypes'
  <2>1. << >> \in Seq(Rates) /\ Len(<< >>) = 0 /\ LinkDepth \in Nat /\ ServerBuffer \in Nat
    BY LinkConstants
  <2>2. stream_active' \in BOOLEAN
    BY <1>1
  <2> QED
    BY <1>1, <2>1, <2>2 DEF LinkInv, LinkTypes
<1>6. PICK r, n, b, e :
        /\ r = link_device_rate /\ n = (arrived - Len(channel))' /\ b = stats.link_budget
        /\ e = link_check'
  OBVIOUS
<1>7. Link!Unmeasured.is = "unmeasured"
  BY DEF Link!Unmeasured
<1>8. ~measurable => b = Link!NoVerdict
  BY <1>6 DEF LinkInv, BudgetIsTold
<1>9. CheckIsTrue(e, r, n)' /\ BudgetIsTold(e, b)'
  <2>1. CASE stream_active' = FALSE /\ e = Link!Unmeasured
    BY <1>1, <1>7, <1>8, <2>1 DEF CheckIsTrue, BudgetIsTold
  <2>2. CASE stream_active' = TRUE /\ e = Link!Opened(Link!Unmeasured)
    <3>1. /\ \/ e = Link!armed /\ measurable
             \/ e = Link!Done(Link!NoVerdict) /\ ~measurable
          /\ CheckIsTrue(e, r, n) /\ e.is # "unmeasured"
          /\ e.is = "measuring" => e.meter.mark = -1
      BY <1>7, <2>2, OpenedIsTrue DEF LinkInv
    <3>2. CheckIsTrue(e, r, n)'
      <4>1. CASE e.is = "done"
        BY <1>1, <3>1, <4>1 DEF CheckIsTrue
      <4>2. CASE e.is # "done"
        <5>1. /\ e \in [is : {"measuring"}, meter : LinkMeters] /\ measurable
              /\ WindowIsTrue(e.meter, r)
          BY <3>1, <4>2 DEF CheckIsTrue
        <5>2. e.meter.mark = -1 /\ WindowIsTrue(e.meter, r)'
          BY <1>1, <3>1, <5>1 DEF WindowIsTrue
        <5> QED
          BY <1>1, <5>1, <5>2 DEF CheckIsTrue, IsToldOf
      <4> QED
        BY <4>1, <4>2
    <3>3. e.is = "done" => e.verdict = Link!NoVerdict /\ ~measurable
      <4>1. Link!armed.is = "measuring"
        BY DEF Link!armed
      <4> QED
        BY <3>1, <4>1 DEF Link!Done
    <3>4. BudgetIsTold(e, b)'
      BY <1>1, <1>8, <3>1, <3>3 DEF BudgetIsTold
    <3> QED
      BY <3>2, <3>4
  <2> QED
    BY <1>1, <1>6, <2>1, <2>2
<1> QED
  BY <1>1, <1>3, <1>4, <1>5, <1>6, <1>9 DEF LinkInv

\* A probe's answer is put into the statistics unless that of a later gap is there.
LEMMA AnswerStep == ASSUME LinkInv, NEW d, Link!Answer(d) PROVE LinkInv'
<1>1. /\ d \in probes /\ probes' = probes \ {d}
      /\ stats' = IF stats.device_health_drops <= d
                  THEN [stats EXCEPT !.device_health = d, !.device_health_drops = d] ELSE stats
      /\ answered' = IF d > answered THEN d ELSE answered
      /\ UNCHANGED <<now, device_rate, path, server, channel, arrived, stream_active, measurable,
                     link_check, link_device_rate, drops>>
  BY DEF Link!Answer, Link!Stands, Link!net_vars, Link!check_vars
<1>2. /\ drops \in Nat /\ probes \in SUBSET (1..drops) /\ answered \in 0..drops
      /\ stats.device_health = answered /\ stats.device_health_drops = answered
  BY DEF LinkInv, HealthTypes
<1>3. d \in 1..drops /\ d \in Nat /\ answered \in Nat
  BY <1>1, <1>2
<1>4. /\ StatsType' /\ stats'.link_budget = stats.link_budget
      /\ stats'.device_health = answered' /\ stats'.device_health_drops = answered'
  <2>1. CASE answered <= d
    <3>1. stats' = [link_budget |-> stats.link_budget, restart_pending |-> stats.restart_pending,
                    device_health |-> d, device_health_drops |-> d]
      BY <1>1, <1>2, <2>1, StatsFields DEF LinkInv
    <3>2. answered' = d
      BY <1>1, <1>3, <2>1
    <3> QED
      BY <3>1, <3>2 DEF StatsType
  <2>2. CASE ~(answered <= d)
    <3>1. stats' = stats /\ answered' = answered
      BY <1>1, <1>2, <1>3, <2>2
    <3> QED
      BY <1>2, <3>1 DEF LinkInv, StatsType
  <2> QED
    BY <2>1, <2>2
<1>5. HealthTypes'
  <2>1. answered' \in 0..drops /\ probes' \in SUBSET (1..drops)
    BY <1>1, <1>2, <1>3
  <2> QED
    BY <1>1, <1>2, <1>4, <2>1 DEF HealthTypes
<1>6. LinkTypes' /\ now' >= now
  BY <1>1 DEF LinkInv, LinkTypes
<1> QED
  BY <1>1, <1>4, <1>5, <1>6, CheckStays

\* A probe is not answered.
LEMMA NoAnswerStep == ASSUME LinkInv, NEW d, Link!NoAnswer(d) PROVE LinkInv'
<1>1. /\ probes' = probes \ {d}
      /\ UNCHANGED <<now, device_rate, path, server, channel, arrived, stream_active, measurable,
                     link_check, link_device_rate, drops, answered, stats>>
  BY DEF Link!NoAnswer, Link!net_vars, Link!check_vars
<1>2. HealthTypes'
  BY <1>1 DEF LinkInv, HealthTypes
<1>3. LinkTypes' /\ StatsType' /\ now' >= now
  BY <1>1 DEF LinkInv, LinkTypes, StatsType
<1> QED
  BY <1>1, <1>2, <1>3, CheckStays

\* A step that changes nothing of the link.
LEMMA LinkRests == LinkInv /\ UNCHANGED link_vars => LinkInv'
<1> SUFFICES ASSUME LinkInv, UNCHANGED link_vars PROVE LinkInv'
  OBVIOUS
<1>1. UNCHANGED <<now, device_rate, path, server, channel, arrived, stream_active, measurable,
                  link_check, link_device_rate, drops, probes, answered, stats>>
  BY DEF link_vars
<1>2. LinkTypes' /\ HealthTypes' /\ StatsType' /\ now' >= now
  BY <1>1 DEF LinkInv, LinkTypes, HealthTypes, StatsType
<1> QED
  BY <1>1, <1>2, CheckStays

LEMMA LinkInit == Link!Init => LinkInv
<1> SUFFICES ASSUME Link!Init PROVE LinkInv
  OBVIOUS
<1>1. LinkTypes
  <2>1. << >> \in Seq(Rates) /\ Len(<< >>) = 0 /\ LinkDepth \in Nat /\ ServerBuffer \in Nat
        /\ MaxTime \in Nat
    BY LinkConstants
  <2>2. /\ now = 0 /\ device_rate \in Rates /\ path \in Paths /\ server = << >>
        /\ channel = << >> /\ arrived = 0 /\ link_device_rate = 0
    BY DEF Link!Init, Link!None
  <2>3. stream_active \in BOOLEAN /\ measurable \in BOOLEAN
    BY DEF Link!Init
  <2> QED
    BY <2>1, <2>2, <2>3 DEF LinkTypes
<1>2. stats = [link_budget |-> Link!NoVerdict, restart_pending |-> FALSE,
               device_health |-> 0, device_health_drops |-> 0]
  BY DEF Link!Init, Link!NoStats, Link!None
<1>3. HealthTypes
  BY <1>2 DEF Link!Init, HealthTypes
<1>4. StatsType /\ stats.link_budget = Link!NoVerdict
  BY <1>2 DEF StatsType
<1>5. link_check.is = "unmeasured" /\ ~stream_active
  BY DEF Link!Init, Link!Unmeasured
<1> QED
  BY <1>1, <1>3, <1>4, <1>5 DEF LinkInv, CheckIsTrue, BudgetIsTold

LEMMA LinkStep == LinkInv /\ Link!Next => LinkInv'
<1> SUFFICES ASSUME LinkInv, Link!Next PROVE LinkInv'
  OBVIOUS
<1>1. CASE Link!Over
  <2>1. UNCHANGED link_vars
    BY <1>1 DEF Link!Over, Link!vars, Link!net_vars, Link!check_vars, Link!health_vars, link_vars
  <2> QED
    BY <2>1, LinkRests
<1>2. ASSUME NEW d \in probes, Link!Answer(d) \/ Link!NoAnswer(d) PROVE LinkInv'
  BY <1>2, AnswerStep, NoAnswerStep
<1>3. ASSUME NEW gap \in BOOLEAN, Link!Sweep(gap) PROVE LinkInv'
  BY <1>3, SweepStep
<1> QED
  BY <1>1, <1>2, <1>3, TickStep, RetuneStep, StartStep, EndStep, RequestStep, RestartStep
  DEF Link!Next

\* What the invariant says in the properties' words.
LEMMA LinkIsTrue ==
  ASSUME LinkInv
  PROVE  Link!StatsAreCurrent /\ Link!TypeOK /\ Link!CountIsExact /\ Link!WindowIsOfOneRate
<1>1. PICK c, r, n, b : /\ c = link_check /\ r = link_device_rate
                        /\ n = arrived - Len(channel) /\ b = stats.link_budget
  OBVIOUS
<1>2. CheckIsTrue(c, r, n) /\ BudgetIsTold(c, b) /\ LinkTypes /\ HealthTypes
  BY <1>1 DEF LinkInv
<1>3. c.is = "measuring" =>
        /\ c \in [is : {"measuring"}, meter : LinkMeters] /\ measurable
        /\ WindowIsTrue(c.meter, r)
  BY <1>2 DEF CheckIsTrue
<1>4. c.is = "done" =>
        /\ measurable = (c.verdict # Link!NoVerdict) /\ c.verdict.rate \in {r, 0}
  BY <1>2 DEF CheckIsTrue
<1>5. c.is \in {"unmeasured", "measuring", "done"} /\ (c.is = "unmeasured" => ~stream_active)
  BY <1>2 DEF CheckIsTrue
<1>6. c.is = "measuring" =>
        /\ ~c.meter.closed /\ c.meter.opened \in 0..now
        /\ c.meter.mark \in Int /\ c.meter.last \in Int /\ c.meter.opened \in Int
        /\ c.meter.mark = -1 \/ (c.meter.mark \in 0..now /\ c.meter.mark - c.meter.opened >= Settle)
        /\ c.meter.last = -1 \/ (c.meter.mark # -1 /\ c.meter.last \in Nat
                                 /\ c.meter.last - c.meter.mark \in 0..Window - 1)
  BY <1>2, <1>3, LinkConstants DEF WindowIsTrue, LinkMeters, LinkTypes
<1>7. Link!StatsTellTheVerdict
  <2>1. c.is = "measuring" /\ c.meter.mark >= 0 => c.meter.mark # -1
    BY <1>6
  <2> QED
    BY <1>1, <1>2, <2>1 DEF BudgetIsTold, Link!StatsTellTheVerdict
<1>8. Link!HealthIsLatest
  BY <1>2 DEF HealthTypes, Link!HealthIsLatest
<1>9. Link!CountIsExact
  <2>1. c.is = "measuring" /\ c.meter.last >= 0 => c.meter.last # -1
    BY <1>6
  <2> QED
    BY <1>1, <1>3, <2>1 DEF WindowIsTrue, Link!CountIsExact
<1>10. Link!WindowIsOfOneRate
  BY <1>1, <1>3, <1>4 DEF WindowIsTrue, Link!WindowIsOfOneRate
<1>11. Link!TypeOK
  <2>1. c.is = "measuring" =>
          /\ c.meter.mark = -1 => c.meter.counted = 0
          /\ c.meter.mark >= 0 => c.meter.mark - c.meter.opened >= Settle
          /\ c.meter.last >= 0 => c.meter.last - c.meter.mark \in 0..Window - 1
    <3>1. c.is = "measuring" /\ c.meter.mark = -1 => c.meter.last = -1 /\ c.meter.counted = 0
      BY <1>3, <1>6 DEF WindowIsTrue
    <3> QED
      BY <1>6, <3>1
  <2>2. stats.device_health_drops \in 0..drops /\ probes \subseteq 1..drops
    BY <1>2 DEF HealthTypes
  <2>3. CASE c.is = "unmeasured"
    BY <1>1, <1>2, <1>5, <2>2, <2>3 DEF LinkTypes, Link!TypeOK, Link!None
  <2>4. CASE c.is = "measuring"
    BY <1>1, <1>2, <1>3, <1>6, <2>1, <2>2, <2>4 DEF LinkTypes, Link!TypeOK, Link!None
  <2>5. CASE c.is = "done"
    BY <1>1, <1>2, <1>4, <2>2, <2>5 DEF LinkTypes, Link!TypeOK, Link!None
  <2> QED
    BY <1>5, <2>3, <2>4, <2>5
<1> QED
  BY <1>7, <1>8, <1>9, <1>10, <1>11 DEF Link!StatsAreCurrent

-----------------------------------------------------------------------------
(***************************************************************************)
(* What the link check says of the path.                                   *)
(***************************************************************************)
\* Up to when meter m has counted.
Since(m) == IF m.last = -1 THEN m.mark ELSE m.last

\* What a meter has counted is all that the path carries, or at least all that the device
\* sends at rate r, unless the consumer was in the way.
CountFits(m, r) ==
  \/ m.consumer_limited
  \/ IF path < r THEN m.counted = path * (Since(m) - m.mark)
                 ELSE m.counted >= r * (Since(m) - m.mark)

\* So is what has arrived since, unless the channel is full or a packet of another rate is
\* in it: then the next sweep ends the window or starts another.
ChannelFits(m, r) ==
  \/ Len(channel) = LinkDepth
  \/ \E k \in 1..Len(channel) : channel[k] # r
  \/ IF path < r THEN Len(channel) = path * (now - Since(m))
                 ELSE Len(channel) >= r * (now - Since(m))

\* PathIsJudgedRightly, of one verdict.
RightVerdict(v) ==
  v # Link!NoVerdict =>
    /\ v.short = (path * 100 < v.rate * Tolerance)
    /\ v.short /\ v.fit # Link!None =>
         v.fit \in Link!Ladder(v.rate) /\ v.fit <= path /\ 2 * v.fit > path
    /\ v.short /\ v.fit = Link!None => \A n \in Link!Ladder(v.rate) : n > path

PathIsTold(c, r) ==
  /\ c.is = "measuring" /\ c.meter.mark # -1 =>
       r \in Rates /\ CountFits(c.meter, r) /\ (stream_active => ChannelFits(c.meter, r))
  /\ c.is = "done" => RightVerdict(c.verdict)

\* The steps of the ladder.
Halvings == {1, 2, 4, 8, 16, 32, 64, 128, 256, 512}

LEMMA Powers ==
  /\ 2^0 = 1 /\ 2^1 = 2 /\ 2^2 = 4 /\ 2^3 = 8 /\ 2^4 = 16
  /\ 2^5 = 32 /\ 2^6 = 64 /\ 2^7 = 128 /\ 2^8 = 256 /\ 2^9 = 512
BY SMT

LEMMA PowerIsHalving == ASSUME NEW k \in 0..9 PROVE 2^k \in Halvings
<1>a. k \in {0, 1, 2, 3, 4, 5, 6, 7, 8, 9}
  OBVIOUS
<1>0. CASE k = 0
  BY <1>0, Powers, Zenon DEF Halvings
<1>1. CASE k = 1
  BY <1>1, Powers, Zenon DEF Halvings
<1>2. CASE k = 2
  BY <1>2, Powers, Zenon DEF Halvings
<1>3. CASE k = 3
  BY <1>3, Powers, Zenon DEF Halvings
<1>4. CASE k = 4
  BY <1>4, Powers, Zenon DEF Halvings
<1>5. CASE k = 5
  BY <1>5, Powers, Zenon DEF Halvings
<1>6. CASE k = 6
  BY <1>6, Powers, Zenon DEF Halvings
<1>7. CASE k = 7
  BY <1>7, Powers, Zenon DEF Halvings
<1>8. CASE k = 8
  BY <1>8, Powers, Zenon DEF Halvings
<1>9. CASE k = 9
  BY <1>9, Powers, Zenon DEF Halvings
<1> QED
  BY <1>a, <1>0, <1>1, <1>2, <1>3, <1>4, <1>5, <1>6, <1>7, <1>8, <1>9

LEMMA HalvingIsPower == ASSUME NEW h \in Halvings PROVE \E k \in 0..9 : 2^k = h
<1>1. {0, 1, 2, 3, 4, 5, 6, 7, 8, 9} \subseteq 0..9
  OBVIOUS
<1>2. h \in {2^0, 2^1, 2^2, 2^3, 2^4, 2^5, 2^6, 2^7, 2^8, 2^9}
  BY Powers, Zenon DEF Halvings
<1>3. \E k \in {0, 1, 2, 3, 4, 5, 6, 7, 8, 9} : 2^k = h
  BY <1>2, Zenon
<1> QED
  BY <1>1, <1>3, Zenon

\* Above each rung but the highest is one of twice its rate.
LEMMA LadderDoubles ==
  ASSUME NEW rate \in Nat \ {0}, NEW n \in Link!Ladder(rate), n # rate
  PROVE  2 * n \in Link!Ladder(rate)
<1>1. n \in 1..rate
  BY DEF Link!Ladder
<1>2. PICK k \in 0..9 : n * 2^k = rate
  BY DEF Link!Ladder
<1>3. PICK h \in Halvings : h = 2^k
  BY PowerIsHalving
<1>4. n * h = rate
  BY <1>2, <1>3
<1>5. \E g \in Halvings : (2 * n) * g = rate /\ 2 * n \in 1..rate
  BY <1>1, <1>4 DEF Halvings
<1>6. PICK g \in Halvings : (2 * n) * g = rate /\ 2 * n \in 1..rate
  BY <1>5
<1>7. PICK j \in 0..9 : 2^j = g
  BY HalvingIsPower
<1> QED
  BY <1>6, <1>7 DEF Link!Ladder

\* A nonempty set of the naturals up to n has a greatest element, and Max is it.
LEMMA GreatestExists ==
  ASSUME NEW n \in Nat, NEW I \in SUBSET (1..n), I # {}
  PROVE  Link!Max(I) \in I /\ \A j \in I : j <= Link!Max(I)
<1> DEFINE K == {k \in Nat : \A j \in I : j <= k}
<1>1. n \in K /\ K \in SUBSET Nat
  OBVIOUS
<1>2. PICK k \in K : \A m \in K : k <= m
  BY <1>1, FirstExists
<1>3. k \in I
  <2>1. SUFFICES ASSUME k \notin I PROVE FALSE
    OBVIOUS
  <2>2. PICK i \in I : i <= k
    BY <1>2
  <2>3. k - 1 \in Nat
    BY <2>2, <1>2
  <2>4. \A j \in I : j <= k - 1
    BY <1>2, <2>1
  <2> QED
    BY <1>2, <2>3, <2>4
<1>4. \E x \in I : \A y \in I : x >= y
  BY <1>2, <1>3
<1>5. PICK x : x = Link!Max(I)
  OBVIOUS
<1>6. x \in I /\ \A y \in I : x >= y
  BY <1>4, <1>5 DEF Link!Max
<1> QED
  BY <1>5, <1>6

LEMMA Cancel ==
  ASSUME NEW a \in Int, NEW b \in Int, NEW s \in Nat \ {0}
  PROVE  (a * s < b * s) <=> (a < b)
<1>1. ASSUME a < b PROVE a * s < b * s
  <2>1. (a + 1) * s <= b * s
    BY <1>1, SMT
  <2>2. (a + 1) * s = a * s + s
    BY SMT
  <2> QED
    BY <2>1, <2>2
<1>2. ASSUME b <= a PROVE b * s <= a * s
  BY <1>2, SMT
<1> QED
  BY <1>1, <1>2

\* A window in which the count fits is judged rightly.
LEMMA JudgedRightly ==
  ASSUME NEW r \in Rates, NEW m \in LinkMeters, path \in Paths,
         ~m.consumer_limited, m.last # -1, m.last > m.mark, CountFits(m, r),
         NEW v, v = Link!judge(r, m)
  PROVE  RightVerdict(v)
<1>1. r \in Nat \ {0} /\ path \in Nat \ {0} /\ Tolerance \in 1..100
  BY LinkIsAssumed DEF Link!LinkAssumption
<1>2. PICK span : span = m.last - m.mark
  OBVIOUS
<1>3. m.mark \in Int /\ m.last \in Int /\ m.counted \in Nat
  BY DEF LinkMeters
<1>4. span \in Nat \ {0}
  BY <1>2, <1>3
<1>5. PICK counted : counted = m.counted
  OBVIOUS
<1>6. counted \in Nat
  BY <1>3, <1>5
<1>7. IF path < r THEN counted = path * span ELSE counted >= r * span
  BY <1>2, <1>5 DEF CountFits, Since
<1>8. PICK fits : fits = {n \in Link!Ladder(r) : n * span <= counted}
  OBVIOUS
<1>9. PICK short : short = (counted * 100 < r * span * Tolerance)
  OBVIOUS
<1>10. /\ v.rate = r /\ v.short = short
       /\ v.fit = IF short /\ fits # {} THEN Link!Max(fits) ELSE 0
  BY <1>2, <1>5, <1>8, <1>9 DEF Link!judge, Link!None
<1>11. short <=> path * 100 < r * Tolerance
  <2>1. CASE path < r
    <3>1. counted * 100 = (path * 100) * span
      BY <1>1, <1>4, <1>7, <2>1, SMT
    <3>2. r * span * Tolerance = (r * Tolerance) * span
      BY <1>1, <1>4, SMT
    <3>3. path * 100 \in Int /\ r * Tolerance \in Int
      BY <1>1
    <3> QED
      BY <1>4, <1>9, <3>1, <3>2, <3>3, Cancel
  <2>2. CASE r <= path
    <3>1. r * Tolerance <= r * 100 /\ r * Tolerance \in Nat
      BY <1>1, SMT
    <3>2. ~(path * 100 < r * Tolerance)
      BY <1>1, <2>2, <3>1
    <3>3. counted >= r * span /\ r * span \in Nat
      BY <1>1, <1>4, <1>7, <2>2
    <3>4. r * span * Tolerance <= r * span * 100 /\ r * span * Tolerance \in Nat
      <4>1. PICK x \in Nat : x = r * span
        BY <3>3
      <4>2. x * Tolerance <= x * 100 /\ x * Tolerance \in Nat
        BY <1>1, SMT
      <4> QED
        BY <4>1, <4>2
    <3>5. ~(counted * 100 < r * span * Tolerance)
      BY <1>6, <3>3, <3>4
    <3> QED
      BY <1>9, <3>2, <3>5
  <2> QED
    BY <1>1, <2>1, <2>2
<1>12. ASSUME short PROVE /\ path < r
                          /\ \A n \in Link!Ladder(r) : n * span <= counted <=> n <= path
  <2>1. r * Tolerance <= r * 100 /\ r * Tolerance \in Nat
    BY <1>1, SMT
  <2>2. path < r
    BY <1>1, <1>11, <1>12, <2>1
  <2>3. counted = path * span
    BY <1>7, <2>2
  <2>4. ASSUME NEW n \in Link!Ladder(r) PROVE n * span <= counted <=> n <= path
    <3>1. n \in Nat
      BY <1>1 DEF Link!Ladder
    <3>2. (path * span < n * span) <=> (path < n)
      BY <1>1, <1>4, <3>1, Cancel
    <3>3. path * span \in Int /\ n * span \in Int
      BY <1>1, <1>4, <3>1
    <3> QED
      BY <1>1, <2>3, <3>1, <3>2, <3>3
  <2> QED
    BY <2>2, <2>4
<1>13. fits \in SUBSET (1..r)
  BY <1>8 DEF Link!Ladder
<1>14. ASSUME short, v.fit # 0
       PROVE  v.fit \in Link!Ladder(r) /\ v.fit <= path /\ 2 * v.fit > path
  <2>1. fits # {} /\ v.fit = Link!Max(fits)
    BY <1>10, <1>14
  <2>2. v.fit \in fits /\ \A n \in fits : n <= v.fit
    BY <1>1, <1>13, <2>1, GreatestExists
  <2>3. v.fit \in Link!Ladder(r) /\ v.fit <= path /\ v.fit \in Nat
    BY <1>8, <1>12, <1>13, <1>14, <2>2
  <2>4. SUFFICES ASSUME 2 * v.fit <= path PROVE FALSE
    BY <1>1, <2>3
  <2>5. v.fit # r
    BY <1>1, <1>12, <1>14, <2>3
  <2>6. 2 * v.fit \in Link!Ladder(r)
    BY <1>1, <2>3, <2>5, LadderDoubles
  <2>7. 2 * v.fit \in fits
    BY <1>8, <1>12, <1>14, <2>4, <2>6
  <2>8. v.fit \in 1..r
    BY <1>13, <2>2
  <2> QED
    BY <2>2, <2>7, <2>8
<1>15. ASSUME short, v.fit = 0 PROVE \A n \in Link!Ladder(r) : n > path
  <2>1. fits = {}
    <3>1. SUFFICES ASSUME fits # {} PROVE FALSE
      OBVIOUS
    <3>2. Link!Max(fits) \in fits
      BY <1>1, <1>13, <3>1, GreatestExists
    <3> QED
      BY <1>10, <1>13, <1>15, <3>1, <3>2
  <2>2. TAKE n \in Link!Ladder(r)
  <2>3. ~(n <= path) /\ n \in Nat
    BY <1>8, <1>12, <1>15, <2>1 DEF Link!Ladder
  <2> QED
    BY <1>1, <2>3
<1>16. v.short = (path * 100 < v.rate * Tolerance)
  <2>1. (counted * 100 < r * span * Tolerance) = (path * 100 < r * Tolerance)
    <3>1. PICK x, y, a, b : /\ x = counted * 100 /\ y = r * span * Tolerance
                            /\ a = path * 100 /\ b = r * Tolerance
      OBVIOUS
    <3>2. (x < y) <=> (a < b)
      BY <1>9, <1>11, <3>1, Zenon
    <3>3. (x < y) = (a < b)
      BY <3>2
    <3> QED
      BY <3>1, <3>3
  <2> QED
    BY <1>9, <1>10, <2>1
<1> QED
  BY <1>10, <1>14, <1>15, <1>16 DEF RightVerdict, Link!None

\* Once a sweep is counted nothing of the channel is left, and the window fits up to now.
LEMMA ObservedFits ==
  ASSUME LinkTypes, NEW m, NEW r \in Rates, WindowIsTrue(m, r),
         IsToldOf(m, arrived - Len(channel)),
         m.mark # -1 => CountFits(m, r) /\ ChannelFits(m, r),
         m.mark = -1 \/ Link!ToSet(channel) \subseteq {r},
         NEW n, n = Link!observe(m, now, channel, arrived),
         NEW w, w = IF Len(channel) >= LinkDepth THEN Link!note_consumer_limited(n, now) ELSE n
  PROVE  /\ w \in LinkMeters
         /\ w.closed => CountFits(w, r)
         /\ ~w.closed /\ w.mark # -1 => CountFits(w, r) /\ Since(w) = now
<1>1. /\ now \in Nat /\ arrived \in Nat /\ channel \in Seq(Rates) /\ Len(channel) \in Nat
      /\ Settle \in Nat /\ Window \in Nat \ {0} /\ LinkDepth \in Nat /\ Len(channel) <= LinkDepth
      /\ r \in Nat \ {0} /\ path \in Nat \ {0}
  BY LinkConstants, LenProperties DEF LinkTypes
<1>2. /\ m \in LinkMeters /\ ~m.closed
      /\ m.opened \in Nat /\ m.mark \in Int /\ m.last \in Int /\ m.counted \in Nat
      /\ m.opened <= now
  BY DEF WindowIsTrue, LinkMeters
<1>3. n \in LinkMeters /\ (~n.closed => WindowIsTrue(n, r))
  BY <1>1, ObservedIsTrue
<1>4. w = n \/ w = [n EXCEPT !.consumer_limited = TRUE]
  BY DEF Link!note_consumer_limited
<1>5. /\ w \in LinkMeters /\ w.closed = n.closed /\ w.mark = n.mark /\ w.last = n.last
      /\ w.counted = n.counted /\ (n.consumer_limited => w.consumer_limited)
  BY <1>3, <1>4 DEF LinkMeters
<1>6. CountFits(n, r) => CountFits(w, r)
  BY <1>5 DEF CountFits, Since
<1>7. Since(w) = Since(n)
  BY <1>5 DEF Since
<1>8. CASE now - m.opened < Settle
  <2>1. n = m
    BY <1>8, Zenon DEF Link!observe
  <2>2. m.mark = -1
    <3>1. m.mark = -1 \/ (m.mark \in 0..now /\ m.mark - m.opened >= Settle)
      BY Zenon DEF WindowIsTrue
    <3> QED
      BY <1>1, <1>2, <1>8, <3>1
  <2> QED
    BY <1>2, <1>5, <2>1, <2>2
<1>9. CASE now - m.opened >= Settle /\ m.mark = -1
  <2>1. n = [m EXCEPT !.mark = now, !.at_mark = arrived]
    <3>1. ~(now - m.opened < Settle) /\ m.mark < 0
      BY <1>1, <1>2, <1>9
    <3>2. n = Link!Marked(m, now, channel, arrived)
      BY <1>2, <3>1, Zenon DEF Link!observe
    <3> QED
      BY <3>2, Zenon DEF Link!Marked
  <2>2. n.closed = m.closed /\ n.mark = now /\ n.last = m.last /\ n.counted = m.counted
    BY <1>2, <2>1 DEF LinkMeters
  <2>3. m.last = -1 /\ m.counted = 0
    BY <1>9 DEF WindowIsTrue
  <2>4. Since(n) = now /\ Since(n) - n.mark = 0
    BY <1>1, <2>2, <2>3 DEF Since
  <2>5. CountFits(n, r)
    BY <1>1, <2>2, <2>3, <2>4 DEF CountFits
  <2> QED
    BY <1>2, <1>5, <1>6, <1>7, <2>2, <2>4, <2>5
<1>10. CASE now - m.opened >= Settle /\ m.mark # -1
  <2>1. m.mark \in 0..now /\ CountFits(m, r) /\ ChannelFits(m, r)
    BY <1>10 DEF WindowIsTrue
  <2>2. CASE now - m.mark >= Window
    <3>1. n = [m EXCEPT !.closed = TRUE]
      <4>1. now - m.opened \in Int /\ now - m.mark \in Int
        BY <1>1, <1>2
      <4>2. ~(now - m.opened < Settle)
        BY <1>1, <1>10, <4>1
      <4>3. ~(m.mark < 0)
        BY <1>1, <2>1
      <4> QED
        BY <1>2, <2>2, <4>2, <4>3, Zenon DEF Link!observe
    <3>2. /\ n.closed /\ n.mark = m.mark /\ n.last = m.last /\ n.counted = m.counted
          /\ n.consumer_limited = m.consumer_limited
      BY <1>2, <3>1 DEF LinkMeters
    <3>3. CountFits(n, r)
      BY <2>1, <3>2 DEF CountFits, Since
    <3> QED
      BY <1>5, <1>6, <3>2, <3>3
  <2>3. CASE now - m.mark < Window
    <3>1. n = [m EXCEPT !.counted = m.counted + Len(channel), !.last = now,
                        !.rates = m.rates \cup Link!ToSet(channel), !.at_last = arrived]
      <4>1. n = Link!Counting(m, now, channel, arrived)
        <5>1. now - m.opened \in Int /\ now - m.mark \in Int
          BY <1>1, <1>2
        <5>2. ~(now - m.opened < Settle)
          BY <1>1, <1>10, <5>1
        <5>3. ~(m.mark < 0)
          BY <1>1, <2>1
        <5>4. ~(now - m.mark >= Window)
          BY <1>1, <2>3, <5>1
        <5>5. ~m.closed
          BY <1>2
        <5> QED
          BY <5>2, <5>3, <5>4, <5>5, Zenon DEF Link!observe
      <4> QED
        BY <4>1 DEF Link!Counting
    <3>2. /\ n.closed = m.closed /\ n.mark = m.mark /\ n.last = now
          /\ n.counted = m.counted + Len(channel) /\ n.consumer_limited = m.consumer_limited
      BY <1>2, <3>1 DEF LinkMeters
    <3>3. now # -1 /\ Since(n) = now
      BY <1>1, <3>2 DEF Since
    <3>4. CASE Len(channel) = LinkDepth
      <4>1. Len(channel) >= LinkDepth
        BY <1>1, <3>4
      <4>2. ~n.closed /\ n.mark >= 0 /\ now >= n.mark
        BY <1>1, <1>2, <2>1, <3>2
      <4>3. w = [n EXCEPT !.consumer_limited = TRUE]
        BY <4>1, <4>2 DEF Link!note_consumer_limited
      <4>4. w.consumer_limited
        BY <1>3, <4>3 DEF LinkMeters
      <4>5. CountFits(w, r)
        BY <4>4 DEF CountFits
      <4> QED
        BY <1>5, <1>7, <3>3, <4>2, <4>5
    <3>5. CASE Len(channel) # LinkDepth
      <4>1. ~\E k \in 1..Len(channel) : channel[k] # r
        <5>1. \A x \in Link!ToSet(channel) : x = r
          BY <1>10, Zenon
        <5>2. DOMAIN channel = 1..Len(channel)
          BY <1>1, LenProperties
        <5>3. \A k \in 1..Len(channel) : channel[k] \in Link!ToSet(channel)
          BY <5>2, Zenon DEF Link!ToSet
        <5> QED
          BY <5>1, <5>3, Zenon
      <4>2. PICK s : s = Since(m)
        OBVIOUS
      <4>3. s \in Int
        BY <1>2, <4>2 DEF Since
      <4>4. IF path < r THEN Len(channel) = path * (now - s) ELSE Len(channel) >= r * (now - s)
        BY <2>1, <3>5, <4>1, <4>2 DEF ChannelFits
      <4>5. CountFits(n, r)
        <5>1. CASE m.consumer_limited
          BY <3>2, <5>1 DEF CountFits
        <5>2. CASE ~m.consumer_limited
          <6>1. IF path < r THEN m.counted = path * (s - m.mark)
                            ELSE m.counted >= r * (s - m.mark)
            BY <2>1, <4>2, <5>2 DEF CountFits
          <6>2. PICK x : x = m.mark
            OBVIOUS
          <6>3. x \in Int
            BY <1>2, <6>2
          <6>4. /\ path * (s - x) + path * (now - s) = path * (now - x)
                /\ r * (s - x) + r * (now - s) = r * (now - x)
            BY <1>1, <4>3, <6>3, SMT
          <6>5. /\ path * (s - x) \in Int /\ path * (now - s) \in Int
                /\ r * (s - x) \in Int /\ r * (now - s) \in Int
            BY <1>1, <4>3, <6>3
          <6>6. CASE path < r
            <7>1. n.counted = path * (now - x)
              BY <1>1, <1>2, <3>2, <4>4, <6>1, <6>2, <6>4, <6>5, <6>6
            <7> QED
              BY <3>2, <3>3, <6>2, <6>6, <7>1 DEF CountFits
          <6>7. CASE ~(path < r)
            <7>1. n.counted >= r * (now - x)
              <8>1. m.counted >= r * (s - x) /\ Len(channel) >= r * (now - s)
                BY <4>4, <6>1, <6>2, <6>7
              <8>2. PICK a, b, z : a = r * (s - x) /\ b = r * (now - s) /\ z = r * (now - x)
                OBVIOUS
              <8>3. a \in Int /\ b \in Int /\ z = a + b
                BY <6>4, <6>5, <8>2
              <8>4. m.counted >= a /\ Len(channel) >= b
                BY <8>1, <8>2
              <8>5. m.counted + Len(channel) >= z
                BY <1>1, <1>2, <8>3, <8>4
              <8> QED
                BY <3>2, <8>2, <8>5
            <7> QED
              BY <3>2, <3>3, <6>2, <6>7, <7>1 DEF CountFits
          <6> QED
            BY <6>6, <6>7
        <5> QED
          BY <5>1, <5>2
      <4> QED
        BY <1>2, <1>5, <1>6, <1>7, <3>2, <3>3, <4>5
    <3> QED
      BY <3>4, <3>5
  <2> QED
    BY <1>1, <2>1, <2>2, <2>3
<1> QED
  BY <1>1, <1>2, <1>8, <1>9, <1>10

\* A sweep: what it found of the path is right, and the next window or the rest of this one
\* goes on from here.
LEMMA SweepJudges ==
  ASSUME LinkInv, PathIsTold(link_check, link_device_rate), NEW gap \in BOOLEAN,
         Link!Sweep(gap)
  PROVE  PathIsTold(link_check, link_device_rate)'
<1>1. /\ stream_active /\ channel # << >> /\ channel' = << >> /\ stream_active' = stream_active
      /\ link_device_rate' = Link!Last(channel)
      /\ UNCHANGED <<now, device_rate, path, server, trouble, arrived, measurable>>
  BY DEF Link!Sweep
<1>2. /\ LinkTypes /\ channel \in Seq(Rates) /\ arrived \in Nat /\ now \in Nat /\ path \in Paths
      /\ link_device_rate \in Rates \cup {0} /\ path \in Nat
  BY LinkConstants DEF LinkInv, LinkTypes
<1>3. PICK r : r = Link!Last(channel)
  OBVIOUS
<1>4. PICK c : c = Link!note_device_rate(channel)
  OBVIOUS
<1>5. PICK full : full = (Len(channel) >= LinkDepth)
  OBVIOUS
<1>6. PICK d : d = Link!Measured(c, channel, full)
  OBVIOUS
<1>7. PICK e : e = Link!report_link_budget(d, r)
  OBVIOUS
<1>8. link_check' = e
  BY <1>3, <1>4, <1>5, <1>6, <1>7 DEF Link!Sweep
<1>9. /\ r \in Rates
      /\ ~Link!RateMoves(channel) => link_device_rate \in {r, 0}
  BY <1>1, <1>2, <1>3, SweepOfOneRate
<1>10. /\ c.is = "measuring" =>
            /\ c \in [is : {"measuring"}, meter : LinkMeters] /\ measurable
            /\ WindowIsTrue(c.meter, r) /\ IsToldOf(c.meter, arrived - Len(channel))
            /\ c.meter.mark = -1 \/ Link!ToSet(channel) \subseteq {r}
       /\ c.is \in {"measuring", "done"}
  BY <1>1, <1>3, <1>4, NotedIsTrue
<1>11. PathIsTold(c, r)
  <2>1. CASE c = link_check
    <3>1. CASE c.is = "measuring" /\ c.meter.mark # -1
      <4>1. link_device_rate \in Rates
        BY <2>1, <3>1 DEF PathIsTold
      <4>2. ~Link!RateMoves(channel)
        <5>1. SUFFICES ASSUME Link!RateMoves(channel) PROVE FALSE
          OBVIOUS
        <5>2. Link!note_device_rate(channel) = Link!armed
          BY <2>1, <3>1, <5>1 DEF Link!note_device_rate, Link!Rearms
        <5>3. Link!armed.meter.mark = -1
          BY <1>2, ArmedIsTrue
        <5> QED
          BY <1>4, <3>1, <5>2, <5>3
      <4>3. link_device_rate = r
        BY <1>9, <4>1, <4>2, LinkConstants
      <4> QED
        BY <2>1, <4>3
    <3>2. CASE ~(c.is = "measuring" /\ c.meter.mark # -1)
      BY <2>1, <3>2 DEF PathIsTold
    <3> QED
      BY <3>1, <3>2
  <2>2. CASE c = Link!armed
    <3>1. Link!armed.meter.mark = -1 /\ Link!armed.is = "measuring"
      BY <1>2, ArmedIsTrue
    <3> QED
      BY <2>2, <3>1 DEF PathIsTold
  <2> QED
    BY <1>4, <2>1, <2>2 DEF Link!note_device_rate
<1>12. CASE c.is = "done"
  <2>1. d = c
    BY <1>6, <1>12 DEF Link!Measured
  <2>2. e = c
    BY <1>7, <1>12, <2>1 DEF Link!report_link_budget
  <2>3. RightVerdict(c.verdict)
    BY <1>11, <1>12 DEF PathIsTold
  <2>4. RightVerdict(c.verdict)'
    BY <1>1, <2>3 DEF RightVerdict
  <2>5. PathIsTold(e, r)'
    BY <1>12, <2>2, <2>4 DEF PathIsTold
  <2> QED
    BY <1>1, <1>3, <1>8, <2>5
<1>13. CASE c.is = "measuring"
  <2>1. PICK m : m = c.meter
    OBVIOUS
  <2>2. PICK n : n = Link!observe(m, now, channel, arrived)
    OBVIOUS
  <2>3. PICK w : w = IF Len(channel) >= LinkDepth THEN Link!note_consumer_limited(n, now) ELSE n
    OBVIOUS
  <2>4. /\ WindowIsTrue(m, r) /\ IsToldOf(m, arrived - Len(channel))
        /\ m.mark = -1 \/ Link!ToSet(channel) \subseteq {r}
        /\ c \in [is : {"measuring"}, meter : LinkMeters]
    BY <1>10, <1>13, <2>1
  <2>5. m.mark # -1 => CountFits(m, r) /\ ChannelFits(m, r)
    BY <1>1, <1>11, <1>13, <2>1 DEF PathIsTold
  <2>6. /\ w \in LinkMeters
        /\ w.closed => CountFits(w, r)
        /\ ~w.closed /\ w.mark # -1 => CountFits(w, r) /\ Since(w) = now
    BY <1>2, <1>9, <2>2, <2>3, <2>4, <2>5, ObservedFits
  <2>7. d = [c EXCEPT !.meter = w]
    BY <1>5, <1>6, <1>13, <2>1, <2>2, <2>3 DEF Link!Measured
  <2>8. d \in [is : {"measuring"}, meter : LinkMeters] /\ d.meter = w /\ d.is = "measuring"
    BY <2>4, <2>6, <2>7
  <2>9. CASE e = d /\ ~w.closed
    <3>1. ASSUME w.mark # -1 PROVE CountFits(w, r)' /\ ChannelFits(w, r)'
      <4>1. CountFits(w, r)'
        BY <1>1, <2>6, <2>9, <3>1 DEF CountFits, Since
      <4>2. Since(w) = now /\ Len(channel') = 0 /\ now - now = 0
        BY <1>1, <1>2, <2>6, <2>9, <3>1
      <4>3. r \in Nat /\ path' \in Nat /\ path' * 0 = 0 /\ r * 0 = 0
        BY <1>1, <1>2, <1>9, LinkConstants
      <4>4. Since(w)' = now'
        BY <1>1, <4>2 DEF Since
      <4>5. IF path' < r THEN Len(channel') = path' * (now' - Since(w)')
                         ELSE Len(channel') >= r * (now' - Since(w)')
        BY <1>1, <1>2, <4>2, <4>3, <4>4
      <4>6. ChannelFits(w, r)'
        BY <4>5 DEF ChannelFits
      <4> QED
        BY <4>1, <4>6
    <3>2. PathIsTold(e, r)'
      BY <1>9, <2>8, <2>9, <3>1 DEF PathIsTold
    <3> QED
      BY <1>1, <1>3, <1>8, <3>2
  <2>10. CASE e = Link!armed
    <3>1. Link!armed.meter.mark = -1 /\ Link!armed.is = "measuring"
      BY <1>2, ArmedIsTrue
    <3>2. PathIsTold(e, r)'
      BY <2>10, <3>1 DEF PathIsTold
    <3> QED
      BY <1>1, <1>3, <1>8, <3>2
  <2>11. CASE /\ e = Link!Done(Link!judge(r, w)) /\ w.closed /\ ~w.consumer_limited
              /\ Link!finish(w)
    <3>1. PICK v : v = Link!judge(r, w)
      OBVIOUS
    <3>2. w.last > w.mark /\ w.last # -1
      BY <2>11, <2>6 DEF Link!finish, LinkMeters
    <3>3. RightVerdict(v)
      BY <1>2, <1>9, <2>6, <2>11, <3>1, <3>2, JudgedRightly
    <3>4. RightVerdict(v)'
      BY <1>1, <3>3 DEF RightVerdict
    <3>5. e.is = "done" /\ e.verdict = v
      BY <2>11, <3>1 DEF Link!Done
    <3>6. PathIsTold(e, r)'
      BY <3>4, <3>5 DEF PathIsTold
    <3> QED
      BY <1>1, <1>3, <1>8, <3>6
  <2> QED
    BY <1>7, <2>8, <2>9, <2>10, <2>11, Zenon DEF Link!report_link_budget
<1> QED
  BY <1>10, <1>12, <1>13

\* A tick: the path carries what it can of what there is, and there is at least what the
\* device sends.
LEMMA TickFits ==
  ASSUME LinkInv, PathIsTold(link_check, link_device_rate), Link!Tick
  PROVE  PathIsTold(link_check, link_device_rate)'
<1>1. /\ now \in 0..MaxTime /\ device_rate \in Rates /\ path \in Paths
      /\ server \in Seq(Rates) /\ channel \in Seq(Rates) /\ arrived \in Nat
      /\ stream_active \in BOOLEAN /\ Len(channel) \in Nat /\ Len(channel) <= LinkDepth
      /\ Len(server) \in Nat
  BY LenProperties DEF LinkInv, LinkTypes
<1>2. /\ device_rate \in Nat \ {0} /\ path \in Nat \ {0} /\ LinkDepth \in Nat
      /\ MaxTime \in Nat /\ now \in Nat
  BY <1>1, LinkConstants
<1>3. PICK sent_now : sent_now = [k \in 1..device_rate |-> device_rate]
  OBVIOUS
<1>4. PICK due : due = server \o sent_now
  OBVIOUS
<1>5. /\ sent_now \in Seq(Rates) /\ Len(sent_now) = device_rate
      /\ \A k \in 1..device_rate : sent_now[k] = device_rate
  BY <1>1, <1>2, <1>3, IsASeq, LenProperties
<1>6. /\ due \in Seq(Rates) /\ Len(due) = Len(server) + device_rate
      /\ due[Len(due)] = device_rate
  <2>1. due \in Seq(Rates) /\ Len(due) = Len(server) + device_rate
    BY <1>1, <1>4, <1>5, ConcatProperties
  <2>2. due[Len(due)] = sent_now[Len(due) - Len(server)]
    BY <1>1, <1>2, <1>4, <1>5, <2>1, ConcatProperties
  <2>3. Len(due) - Len(server) = device_rate /\ device_rate \in 1..device_rate
    BY <1>1, <1>2, <2>1
  <2> QED
    BY <1>5, <2>1, <2>2, <2>3
<1>7. PICK moved : moved = IF stream_active
                           THEN Link!Least(Link!Least(path, Len(due)), LinkDepth - Len(channel))
                           ELSE 0
  OBVIOUS
<1>8. moved \in 0..Len(due) /\ Len(channel) + moved <= LinkDepth
  BY <1>1, <1>2, <1>6, <1>7 DEF Link!Least
<1>9. /\ channel' = channel \o SubSeq(due, 1, moved)
      /\ now' = now + 1
      /\ UNCHANGED <<device_rate, path, stream_active, measurable, link_check, link_device_rate>>
  BY <1>3, <1>4, <1>7 DEF Link!Tick, Link!check_vars
<1>10. /\ SubSeq(due, 1, moved) \in Seq(Rates) /\ Len(SubSeq(due, 1, moved)) = moved
       /\ \A k \in 1..moved : SubSeq(due, 1, moved)[k] = due[k]
  BY <1>6, <1>8, SubSeqProperties, ElementOfSeq
<1>11. /\ Len(channel') = Len(channel) + moved
       /\ \A k \in 1..Len(channel) : channel'[k] = channel[k]
       /\ \A k \in 1..moved : channel'[Len(channel) + k] = due[k]
  <2>1. /\ Len(channel') = Len(channel) + moved
        /\ \A k \in 1..Len(channel) + moved :
             channel'[k] = IF k <= Len(channel) THEN channel[k]
                           ELSE SubSeq(due, 1, moved)[k - Len(channel)]
    BY <1>1, <1>9, <1>10, ConcatProperties
  <2>2. \A k \in 1..Len(channel) : channel'[k] = channel[k]
    BY <1>1, <1>8, <2>1
  <2>3. \A k \in 1..moved : channel'[Len(channel) + k] = due[k]
    <3>1. TAKE k \in 1..moved
    <3>2. Len(channel) + k \in 1..Len(channel) + moved /\ ~(Len(channel) + k <= Len(channel))
          /\ (Len(channel) + k) - Len(channel) = k
      BY <1>1, <1>8
    <3> QED
      BY <1>10, <2>1, <3>2
  <2> QED
    BY <2>1, <2>2, <2>3
<1>12. PICK m, r, s : m = link_check.meter /\ r = link_device_rate /\ s = Since(m)
  OBVIOUS
<1>13. ASSUME link_check.is = "measuring", m.mark # -1, stream_active, r \in Rates,
              CountFits(m, r), ChannelFits(m, r)
       PROVE  ChannelFits(m, r)'
  <2>1. r \in Nat \ {0}
    BY <1>13, LinkConstants
  <2>2. Since(m)' = s
    BY <1>12 DEF Since
  <2>3. s \in Int
    <3>1. m \in LinkMeters
      BY <1>12, <1>13 DEF LinkInv, CheckIsTrue
    <3> QED
      BY <1>12, <3>1 DEF Since, LinkMeters
  <2>4. CASE Len(channel) = LinkDepth
    <3>1. moved = 0
      BY <1>1, <1>8, <2>4
    <3>2. Len(channel') = LinkDepth
      BY <1>1, <1>11, <2>4, <3>1
    <3> QED
      BY <3>2 DEF ChannelFits
  <2>5. CASE \E k \in 1..Len(channel) : channel[k] # r
    <3>1. PICK k \in 1..Len(channel) : channel[k] # r
      BY <2>5
    <3>2. k \in 1..Len(channel') /\ channel'[k] # r
      BY <1>1, <1>8, <1>11, <3>1
    <3> QED
      BY <3>2 DEF ChannelFits
  <2>6. CASE IF path < r THEN Len(channel) = path * (now - s) ELSE Len(channel) >= r * (now - s)
    <3>1. CASE moved = LinkDepth - Len(channel)
      <4>1. Len(channel') = LinkDepth
        BY <1>1, <1>2, <1>11, <3>1
      <4> QED
        BY <4>1 DEF ChannelFits
    <3>2. CASE \E k \in 1..moved : due[k] # r
      <4>1. PICK k \in 1..moved : due[k] # r
        BY <3>2
      <4>2. Len(channel) + k \in 1..Len(channel') /\ channel'[Len(channel) + k] # r
        BY <1>1, <1>8, <1>11, <4>1
      <4> QED
        BY <4>2 DEF ChannelFits
    <3>3. CASE moved # LinkDepth - Len(channel) /\ \A k \in 1..moved : due[k] = r
      <4>1. moved = path \/ (moved = Len(due) /\ moved <= path)
        BY <1>1, <1>2, <1>6, <1>7, <1>13, <3>3 DEF Link!Least
      <4>2. moved = Len(due) => moved >= r
        <5>1. SUFFICES ASSUME moved = Len(due) PROVE moved >= r
          OBVIOUS
        <5>2. Len(due) \in 1..moved
          BY <1>1, <1>2, <1>6, <5>1
        <5>3. device_rate = r
          BY <1>6, <3>3, <5>2
        <5> QED
          BY <1>1, <1>2, <1>6, <5>1, <5>3
      <4>3. moved \in Nat /\ Len(channel') = Len(channel) + moved
        BY <1>1, <1>6, <1>8, <1>11
      <4>4. /\ path * ((now + 1) - s) = path * (now - s) + path
            /\ r * ((now + 1) - s) = r * (now - s) + r
        BY <1>2, <2>1, <2>3, SMT
      <4>5. path * (now - s) \in Int /\ r * (now - s) \in Int
        BY <1>2, <2>1, <2>3
      <4>6. CASE path < r
        <5>1. moved = path
          BY <1>2, <2>1, <4>1, <4>2, <4>3, <4>6
        <5>2. Len(channel') = path * ((now + 1) - s)
          BY <1>1, <1>2, <2>6, <4>3, <4>4, <4>5, <4>6, <5>1
        <5>3. Len(channel') = path' * (now' - Since(m)')
          <6>1. PICK t, u, w : t = now' /\ u = Since(m)' /\ w = path'
            OBVIOUS
          <6>2. t = now + 1 /\ u = s /\ w = path
            BY <1>9, <2>2, <6>1
          <6>3. Len(channel') = w * (t - u)
            BY <5>2, <6>2, Zenon
          <6> QED
            BY <6>1, <6>3, Zenon
        <5> QED
          BY <1>9, <4>6, <5>3 DEF ChannelFits
      <4>7. CASE ~(path < r)
        <5>1. moved >= r
          BY <1>2, <2>1, <4>1, <4>2, <4>3, <4>7
        <5>2. Len(channel') >= r * ((now + 1) - s)
          BY <1>1, <1>2, <2>1, <2>6, <4>3, <4>4, <4>5, <4>7, <5>1
        <5>3. Len(channel') >= r * (now' - Since(m)')
          <6>1. PICK t, u : t = now' /\ u = Since(m)'
            OBVIOUS
          <6>2. t = now + 1 /\ u = s
            BY <1>9, <2>2, <6>1
          <6>3. Len(channel') >= r * (t - u)
            BY <5>2, <6>2, Zenon
          <6> QED
            BY <6>1, <6>3, Zenon
        <5> QED
          BY <1>9, <4>7, <5>3 DEF ChannelFits
      <4> QED
        BY <4>6, <4>7
    <3> QED
      BY <3>1, <3>2, <3>3
  <2> QED
    BY <1>12, <1>13, <2>4, <2>5, <2>6 DEF ChannelFits
<1>14. CASE link_check.is = "measuring" /\ m.mark # -1
  <2>1. r \in Rates /\ CountFits(m, r) /\ (stream_active => ChannelFits(m, r))
    BY <1>12, <1>14 DEF PathIsTold
  <2>2. CountFits(m, r)'
    BY <1>9, <2>1 DEF CountFits, Since
  <2>3. stream_active' => ChannelFits(m, r)'
    BY <1>9, <1>13, <1>14, <2>1
  <2>4. link_check.is # "done"
    BY <1>14
  <2>5. PathIsTold(link_check, r)'
    BY <1>9, <1>12, <2>1, <2>2, <2>3, <2>4 DEF PathIsTold
  <2> QED
    BY <1>9, <1>12, <2>5
<1>15. CASE ~(link_check.is = "measuring" /\ m.mark # -1)
  <2>1. link_check.is = "done" => RightVerdict(link_check.verdict)'
    BY <1>9 DEF PathIsTold, RightVerdict
  <2> QED
    BY <1>9, <1>12, <1>15, <2>1 DEF PathIsTold
<1> QED
  BY <1>14, <1>15

\* What else leaves the check, the channel and the clock alone.
LEMMA OthersFit ==
  ASSUME PathIsTold(link_check, link_device_rate),
         UNCHANGED <<now, path, channel, stream_active, link_check, link_device_rate>>
  PROVE  PathIsTold(link_check, link_device_rate)'
BY DEF PathIsTold, CountFits, ChannelFits, Since, RightVerdict

\* A start, a restart and the end of the stream: a window that goes on has not begun.
LEMMA StreamsFit ==
  ASSUME LinkInv, PathIsTold(link_check, link_device_rate),
         Link!start_stream \/ Link!StreamEnds \/ Link!Restart
  PROVE  PathIsTold(link_check, link_device_rate)'
<1>1. LinkTypes
  BY DEF LinkInv
<1>2. path' = path /\ link_device_rate' = link_device_rate
  BY DEF Link!start_stream, Link!StreamEnds, Link!Restart
<1>3. PICK e, r : e = link_check' /\ r = link_device_rate
  OBVIOUS
<1>4. \A v : RightVerdict(v) => RightVerdict(v)'
  BY <1>2 DEF RightVerdict
<1>5. RightVerdict(Link!NoVerdict)'
  BY DEF RightVerdict
<1>6. /\ Link!armed.is = "measuring" /\ Link!armed.meter.mark = -1
      /\ Link!Done(Link!NoVerdict).is = "done"
      /\ Link!Done(Link!NoVerdict).verdict = Link!NoVerdict
      /\ Link!Unmeasured.is = "unmeasured"
  BY <1>1, ArmedIsTrue DEF Link!Done, Link!Unmeasured
<1>7. CASE e \in {Link!armed, Link!Done(Link!NoVerdict), Link!Unmeasured}
  <2>1. PathIsTold(e, r)'
    BY <1>5, <1>6, <1>7 DEF PathIsTold
  <2> QED
    BY <1>2, <1>3, <2>1
<1>8. CASE e = link_check /\ link_check.is = "done"
  <2>1. RightVerdict(e.verdict)'
    BY <1>4, <1>8 DEF PathIsTold
  <2>2. PathIsTold(e, r)'
    BY <1>8, <2>1 DEF PathIsTold
  <2> QED
    BY <1>2, <1>3, <2>2
<1>9. CASE Link!StreamEnds
  <2>1. link_check' = link_check /\ stream_active' = FALSE
    BY <1>9 DEF Link!StreamEnds
  <2>2. e.is = "measuring" /\ e.meter.mark # -1 => r \in Rates /\ CountFits(e.meter, r)'
    BY <1>2, <1>3, <2>1 DEF PathIsTold, CountFits, Since
  <2>3. e.is = "done" => RightVerdict(e.verdict)'
    BY <1>3, <1>4, <2>1 DEF PathIsTold
  <2>4. PathIsTold(e, r)'
    BY <2>1, <2>2, <2>3 DEF PathIsTold
  <2> QED
    BY <1>2, <1>3, <2>4
<1> QED
  BY <1>3, <1>7, <1>8, <1>9
  DEF Link!start_stream, Link!Restart, Link!Opened, Link!NeedsCheck

\* No step of the link makes it judge the path wrongly.
LEMMA PathStep ==
  LinkInv /\ PathIsTold(link_check, link_device_rate) /\ Link!Next
    => PathIsTold(link_check, link_device_rate)'
<1> SUFFICES ASSUME LinkInv, PathIsTold(link_check, link_device_rate), Link!Next
             PROVE  PathIsTold(link_check, link_device_rate)'
  OBVIOUS
<1>1. CASE Link!Retune \/ Link!RequestRestart \/ Link!Over
  <2>1. UNCHANGED <<now, path, channel, stream_active, link_check, link_device_rate>>
    BY <1>1 DEF Link!Retune, Link!RequestRestart, Link!Over, Link!vars, Link!net_vars,
                Link!check_vars
  <2> QED
    BY <2>1, OthersFit
<1>2. ASSUME NEW d \in probes, Link!Answer(d) \/ Link!NoAnswer(d)
      PROVE  PathIsTold(link_check, link_device_rate)'
  <2>1. UNCHANGED <<now, path, channel, stream_active, link_check, link_device_rate>>
    BY <1>2 DEF Link!Answer, Link!NoAnswer, Link!net_vars, Link!check_vars
  <2> QED
    BY <2>1, OthersFit
<1>3. ASSUME NEW gap \in BOOLEAN, Link!Sweep(gap)
      PROVE  PathIsTold(link_check, link_device_rate)'
  BY <1>3, SweepJudges
<1> QED
  BY <1>1, <1>2, <1>3, TickFits, StreamsFit DEF Link!Next

\* The invariant: the check is true and what it measures tells of the path.
LinkIsRight == LinkInv /\ PathIsTold(link_check, link_device_rate)

\* The link's invariant (HttpSource's link_check, its meter, and the statistics) holds beside
\* the other components, which leave the link alone.
THEOREM LinkStaysRight == MCSpec => [](component = "link" => LinkIsRight)
<1> DEFINE P == component = "link" => LinkIsRight
<1>1. MCInit => P
  <2> SUFFICES ASSUME Link!Init PROVE LinkIsRight
    BY DEF MCInit
  <2>1. link_check.is = "unmeasured"
    BY DEF Link!Init, Link!Unmeasured
  <2> QED
    BY <2>1, LinkInit DEF LinkIsRight, PathIsTold
<1>2. P /\ [BufferMoves \/ ParserMoves \/ LinkMoves]_<<component, vars, parser_vars, link_vars>>
      => P'
  <2> SUFFICES ASSUME P, component' = "link",
                      [BufferMoves \/ ParserMoves \/ LinkMoves]_<<component, vars, parser_vars,
                                                                 link_vars>>
               PROVE  LinkIsRight'
    OBVIOUS
  <2>1. CASE LinkMoves
    BY <2>1, LinkStep, PathStep DEF LinkMoves, LinkIsRight
  <2>2. CASE BufferMoves \/ ParserMoves
    BY <2>2 DEF BufferMoves, ParserMoves
  <2>3. CASE UNCHANGED <<component, vars, parser_vars, link_vars>>
    <3>1. LinkInv /\ PathIsTold(link_check, link_device_rate) /\ UNCHANGED link_vars
      BY <2>3 DEF LinkIsRight
    <3>2. UNCHANGED <<now, path, channel, stream_active, link_check, link_device_rate>>
      BY <3>1 DEF link_vars
    <3> QED
      BY <3>1, <3>2, LinkRests, OthersFit DEF LinkIsRight
  <2> QED
    BY <2>1, <2>2, <2>3
<1> QED
  BY <1>1, <1>2, PTL DEF MCSpec

\* The consumer reads the verdict of the window that was measured last and the health of
\* the latest gap a probe answered for: no refresh, report, answer or restart of
\* HttpSource leaves it with another (StreamStats, refresh_stats_snapshot, note_gap).
THEOREM StatsStayCurrent == MCSpec => []StatsAreCurrent
<1>1. (component = "link" => LinkIsRight) => StatsAreCurrent
  BY LinkIsTrue DEF StatsAreCurrent, LinkIsRight
<1> QED
  BY <1>1, LinkStaysRight, PTL

\* A verdict on the path is right: its window counts exactly what arrived, all of it at the
\* one rate the verdict is of, whoever retunes the device; it blames the path only when it is
\* too slow, never the consumer, clears it only when it is fast enough, and recommends the
\* fastest rate of the ladder that the path carries (ThroughputMeter, report_link_budget,
\* LinkBudgetVerdict::judge).
THEOREM VerdictIsAlwaysRight == MCSpec => []VerdictIsRight
<1>1. (component = "link" => LinkIsRight) => VerdictIsRight
  <2> SUFFICES ASSUME component = "link", LinkIsRight PROVE Link!VerdictIsRight
    BY DEF VerdictIsRight
  <2>1. Link!TypeOK /\ Link!CountIsExact /\ Link!WindowIsOfOneRate
    BY LinkIsTrue DEF LinkIsRight
  <2>2. link_check.is = "done" => RightVerdict(link_check.verdict)
    BY DEF LinkIsRight, PathIsTold
  <2>3. Link!PathIsJudgedRightly
    BY <2>2 DEF RightVerdict, Link!PathIsJudgedRightly
  <2> QED
    BY <2>1, <2>3 DEF Link!VerdictIsRight
<1> QED
  BY <1>1, LinkStaysRight, PTL

\* A verdict is replaced only when the device reports another rate or the consumer has
\* asked for a restart: reconnects, further sweeps and probes leave it (LinkCheck,
\* note_device_rate, start_stream).
THEOREM VerdictAlwaysStands == MCSpec => VerdictStands
<1>1. ASSUME component = "link" => LinkIsRight,
             [BufferMoves \/ ParserMoves \/ LinkMoves]_<<component, vars, parser_vars, link_vars>>
      PROVE  [component = "link" => Link!VerdictStands]_link_vars
  <2> SUFFICES ASSUME component = "link", link_check.is = "done", link_check' # link_check
               PROVE  \/ link_device_rate' # link_device_rate \/ Link!RateMoves(channel)
                      \/ stats.restart_pending /\ ~stats'.restart_pending
    BY DEF Link!VerdictStands
  <2>1. Link!Next
    <3>1. ~BufferMoves
      BY DEF BufferMoves, link_vars
    <3>2. ~ParserMoves
      BY DEF ParserMoves, link_vars
    <3>3. ~UNCHANGED <<component, vars, parser_vars, link_vars>>
      BY DEF link_vars
    <3> QED
      BY <1>1, <3>1, <3>2, <3>3 DEF LinkMoves
  <2>2. CASE Link!start_stream
    BY <2>2 DEF Link!start_stream, Link!Opened, Link!NeedsCheck
  <2>3. CASE Link!Restart
    <3>1. stats.restart_pending /\ stats' = [stats EXCEPT !.restart_pending = FALSE]
      BY <2>3 DEF Link!Restart
    <3>2. stats'.restart_pending = FALSE
      BY <1>1, <3>1, StatsFields DEF LinkIsRight, LinkInv
    <3> QED
      BY <3>1, <3>2
  <2>4. ASSUME NEW gap \in BOOLEAN, Link!Sweep(gap), ~Link!RateMoves(channel) PROVE FALSE
    <3>1. PICK full : full = (Len(channel) >= LinkDepth)
      OBVIOUS
    <3>2. Link!note_device_rate(channel) = link_check
      BY <2>4, Zenon DEF Link!note_device_rate
    <3>3. Link!Measured(link_check, channel, full) = link_check
      BY DEF Link!Measured
    <3>4. Link!report_link_budget(link_check, Link!Last(channel)) = link_check
      BY DEF Link!report_link_budget
    <3> QED
      BY <2>4, <3>1, <3>2, <3>3, <3>4 DEF Link!Sweep
  <2>5. ~Link!Tick /\ ~Link!Retune /\ ~Link!StreamEnds /\ ~Link!RequestRestart /\ ~Link!Over
        /\ \A d : ~Link!Answer(d) /\ ~Link!NoAnswer(d)
    BY DEF Link!Tick, Link!Retune, Link!StreamEnds, Link!RequestRestart, Link!Over, Link!Answer,
           Link!NoAnswer, Link!vars, Link!net_vars, Link!check_vars, Link!health_vars
  <2> QED
    BY <2>1, <2>2, <2>3, <2>4, <2>5 DEF Link!Next
<1> QED
  BY <1>1, LinkStaysRight, PTL DEF MCSpec, VerdictStands
=============================================================================
