---------------------------- MODULE NativeReads ----------------------------
(***************************************************************************)
(* Reading IQ from the vendor SDK's packet queue (native_sdk.rs:           *)
(* read_samples_within, read_samples_dual_within, stop_streaming) and the  *)
(* loop unified_source.rs puts around it (read_samples_deadline).  The SDK *)
(* chooses how long packets are; the tail a caller had no room for is      *)
(* carried over, because a consumed packet is gone.                        *)
(*                                                                         *)
(* The device numbers the samples it takes.  It flags the next packet that *)
(* has samples after it lost some; packets may also be empty, or unusable  *)
(* (an odd stride, or more samples than any real packet has).  SDK calls   *)
(* may fail.  The caller keeps what a failed read appended to its buffer,  *)
(* and asks take_overrun once after each read.                             *)
(***************************************************************************)
EXTENDS Integers, Sequences

CONSTANTS
  Geometries,   \* what a packet header declares
  NoGeometry,   \* IqGeometry::from_packet gives None
  PacketLens,   \* samples in a packet
  ReadSizes,    \* max_samples of a read
  QueueDepth,   \* packets the SDK holds
  MaxSamples,   \* bounds the samples taken
  MaxErrors,    \* bounds the SDK calls that fail
  MaxSessions   \* bounds the starts

ASSUME ReadsAssumption ==
  /\ NoGeometry \in Geometries
  /\ PacketLens \subseteq Nat /\ ReadSizes \subseteq Nat
  /\ QueueDepth \in Nat /\ MaxSamples \in Nat /\ MaxErrors \in Nat
  /\ MaxSessions \in Nat \ {0}

VARIABLES
  \* external: the SDK's queue, the last sample taken, whether any were lost
  \* since the last packet with samples
  queue, taken, lost,
  \* NativeSdkSource
  stream_active, read_mode,
  carry,            \* sample_buffer ("mono") and dual_sample_buffer ("dual")
  observed,         \* observed_{sample_rate,bandwidth,center_frequency}_hz
  overrun_pending,
  \* a read in progress
  pc, mode, max_samples, by_deadline,   \* what was called
  buffer,                               \* what it has appended
  remaining, got_packet, read_geometry, inner,   \* the call of read_samples_within
  \* for the properties
  previous, told,   \* last sample the caller has; overruns since the read that got it
  twice,            \* a packet was copied out and not consumed
  began,            \* last sample taken before this session
  errors, session

sdk    == <<queue, taken, lost>>
source == <<stream_active, read_mode, carry, observed, overrun_pending>>
call   == <<mode, max_samples, by_deadline>>
within == <<remaining, got_packet, read_geometry, inner>>
ghosts == <<previous, told, twice, began, errors, session>>
vars   == <<sdk, source, pc, call, buffer, within, ghosts>>

Modes == {"mono", "dual"}
Sample == [number : Nat, geo : Geometries]
Packet == [samples : Seq(Sample), geo : Geometries, warned : BOOLEAN,
           shape : {"iq", "stride", "huge"}]

TypeOK ==
  /\ queue \in Seq(Packet) /\ Len(queue) <= QueueDepth
  /\ taken \in 0..MaxSamples /\ lost \in BOOLEAN
  /\ stream_active \in BOOLEAN /\ read_mode \in Modes \cup {"none"}
  /\ carry \in [Modes -> Seq(Sample)]
  /\ \A m \in Modes : carry[m] # <<>> => read_mode = m
  /\ observed \in Geometries /\ overrun_pending \in BOOLEAN
  /\ pc \in {"idle", "begin", "poll", "end", "returned"}
  /\ mode \in Modes /\ max_samples \in ReadSizes \cup {0} /\ by_deadline \in BOOLEAN
  /\ buffer \in Seq(Sample) /\ Len(buffer) <= max_samples
  /\ remaining \in 0..max_samples /\ inner \in 0..max_samples
  /\ got_packet \in BOOLEAN /\ read_geometry \in Geometries
  /\ previous \in 0..taken /\ told \in BOOLEAN /\ twice \in BOOLEAN
  /\ began \in 0..taken
  /\ errors \in 0..MaxErrors /\ session \in 1..MaxSessions

Init ==
  /\ queue = <<>> /\ taken = 0 /\ lost = FALSE
  /\ stream_active = TRUE /\ read_mode = "none"
  /\ carry = [m \in Modes |-> <<>>]
  /\ observed = NoGeometry /\ overrun_pending = FALSE
  /\ pc = "idle" /\ mode = "mono" /\ max_samples = 0 /\ by_deadline = FALSE
  /\ buffer = <<>>
  /\ remaining = 0 /\ got_packet = FALSE /\ read_geometry = NoGeometry /\ inner = 0
  /\ previous = 0 /\ told = FALSE /\ twice = FALSE /\ began = 0
  /\ errors = 0 /\ session = 1
-----------------------------------------------------------------------------
\* The SDK queues a packet.
PacketArrives(len, geo, shape) ==
  /\ stream_active
  /\ Len(queue) < QueueDepth /\ taken + len <= MaxSamples
  /\ queue' = Append(queue,
       [samples |-> [i \in 1..len |-> [number |-> taken + i, geo |-> geo]],
        geo |-> geo, warned |-> lost /\ len > 0, shape |-> shape])
  /\ taken' = taken + len
  /\ lost' = (lost /\ len = 0)
  /\ UNCHANGED <<source, pc, call, buffer, within, ghosts>>

\* The device drops a sample it took.
DeviceLoses ==
  /\ stream_active /\ taken < MaxSamples
  /\ taken' = taken + 1 /\ lost' = TRUE
  /\ UNCHANGED <<queue, source, pc, call, buffer, within, ghosts>>

SdkFails == errors < MaxErrors /\ errors' = errors + 1
-----------------------------------------------------------------------------
\* Mutant: the two read paths may be mixed.
Latched_not(m) == TRUE

\* The first read of a stream decides which path the stream is read by.
Latched(m) == read_mode \in {"none", m}

ReadBegins(m, wanted, deadline) ==
  /\ pc = "idle" /\ stream_active /\ Latched(m)
  /\ deadline => m = "mono"
  /\ pc' = "begin"
  /\ mode' = m /\ max_samples' = wanted /\ by_deadline' = deadline
  /\ read_mode' = m /\ buffer' = <<>>
  /\ UNCHANGED <<sdk, stream_active, carry, observed, overrun_pending, within, ghosts>>

\* plan_read, split_packet: what of len samples goes to the caller.
ToCaller(len, room) == IF len < room THEN len ELSE room

\* A call of read_samples_within is served from what was carried over, and only
\* if nothing was, from packets.
WithinBegins ==
  LET wanted == max_samples - Len(buffer)
      n      == ToCaller(Len(carry[mode]), wanted)
  IN  /\ pc = "begin"
      /\ buffer' = buffer \o SubSeq(carry[mode], 1, n)
      /\ carry' = [carry EXCEPT ![mode] = SubSeq(@, n + 1, Len(@))]
      /\ remaining' = wanted - n /\ inner' = n
      /\ got_packet' = FALSE /\ read_geometry' = NoGeometry
      /\ pc' = IF n > 0 \/ wanted = 0 THEN "end" ELSE "poll"
      /\ UNCHANGED <<sdk, stream_active, read_mode, observed, overrun_pending, call, ghosts>>

\* It ends when it has all it wanted; with the queue empty, once it has a packet
\* or has waited long enough;
WithinEnds ==
  /\ pc = "poll" /\ (remaining = 0 \/ queue = <<>>)
  /\ pc' = "end"
  /\ UNCHANGED <<sdk, source, call, buffer, within, ghosts>>

\* Mutant: packets are taken whatever they declare.
NewGeometry_never(geo) == FALSE

NewGeometry(geo) == got_packet /\ read_geometry # geo

\* before a packet of another geometry, which it leaves in the queue;
WithinStops ==
  /\ pc = "poll" /\ remaining > 0 /\ queue # <<>>
  /\ NewGeometry(Head(queue).geo)
  /\ pc' = "end"
  /\ UNCHANGED <<sdk, source, call, buffer, within, ghosts>>

\* or with an error of the SDK's.
GetPacketFails ==
  /\ pc = "poll" /\ remaining > 0
  /\ SdkFails
  /\ pc' = "returned"
  /\ UNCHANGED <<sdk, source, call, buffer, within, previous, told, twice, began, session>>

\* The packet at the head of the queue is consumed and the call goes on at next,
\* or consuming it fails, which leaves it there.
ConsumeGoingOnAt(next) ==
  \/ queue' = Tail(queue) /\ pc' \in next /\ UNCHANGED errors
  \/ SdkFails /\ UNCHANGED queue /\ pc' = "returned"

HeadIs(shapes, lens) ==
  /\ pc = "poll" /\ remaining > 0 /\ queue # <<>>
  /\ ~NewGeometry(Head(queue).geo)
  /\ Head(queue).shape \in shapes /\ Len(Head(queue).samples) \in lens

\* A packet of samples: what the caller has room for, the rest is carried over.
Takes(m) ==
  LET packet == Head(queue)
      len    == Len(packet.samples)
      n      == ToCaller(len, remaining)
  IN  /\ mode = m /\ HeadIs({"iq"}, Nat \ {0})
      /\ overrun_pending' = (overrun_pending \/ packet.warned)
      /\ buffer' = buffer \o SubSeq(packet.samples, 1, n)
      /\ carry' = [carry EXCEPT ![m] = @ \o SubSeq(packet.samples, n + 1, len)]
      /\ remaining' = remaining - n /\ inner' = inner + n
      /\ got_packet' = TRUE /\ observed' = packet.geo /\ read_geometry' = packet.geo
      /\ ConsumeGoingOnAt({"poll"})
      /\ twice' = (twice \/ pc' = "returned")
      /\ UNCHANGED <<taken, lost, stream_active, read_mode, call, previous, told, began, session>>

\* In a dual read a sample is a pair of floats of both channels.
TakePacket == Takes("mono")
TakePairs == Takes("dual")

\* Nothing in it.
SkipEmptyPacket ==
  /\ HeadIs({"iq"}, {0})
  /\ got_packet' = TRUE
  /\ ConsumeGoingOnAt({"poll"})
  /\ UNCHANGED <<taken, lost, source, call, buffer, remaining, read_geometry, inner,
                 previous, told, twice, began, session>>

\* Mutant: what is skipped was no loss.
SkipIsLoss_not == overrun_pending

SkipIsLoss == TRUE

\* Its samples cannot be read: a mono read skips it, a dual read returns what it
\* has, or an error.
SkipPacket ==
  /\ HeadIs({"stride"}, Nat \ {0})
  /\ overrun_pending' = SkipIsLoss /\ got_packet' = TRUE
  /\ ConsumeGoingOnAt(IF mode = "mono" THEN {"poll"} ELSE {"end", "returned"})
  /\ UNCHANGED <<taken, lost, stream_active, read_mode, carry, observed, call, buffer,
                 remaining, read_geometry, inner, previous, told, twice, began, session>>

\* It claims more samples than there can be: consumed, and an error.
RejectPacket ==
  /\ HeadIs({"huge"}, Nat \ {0})
  /\ overrun_pending' = TRUE /\ got_packet' = TRUE
  /\ ConsumeGoingOnAt({"returned"})
  /\ UNCHANGED <<taken, lost, stream_active, read_mode, carry, observed, call, buffer,
                 remaining, read_geometry, inner, previous, told, twice, began, session>>

\* read_samples and read_samples_dual return what the call did.  A deadline read
\* calls again, unless it has all it wanted, a call found nothing more, or its
\* time is over.
ReadReturns ==
  /\ pc = "end" /\ pc' = "returned"
  /\ UNCHANGED <<sdk, source, call, buffer, within, ghosts>>

ReadGoesOn ==
  /\ pc = "end" /\ by_deadline
  /\ Len(buffer) < max_samples /\ (inner > 0 \/ buffer = <<>>)
  /\ pc' = "begin"
  /\ UNCHANGED <<sdk, source, call, buffer, within, ghosts>>

take_overrun ==
  /\ pc = "returned" /\ pc' = "idle"
  /\ overrun_pending' = FALSE
  /\ told' = (overrun_pending \/ (told /\ buffer = <<>>))
  /\ previous' = IF buffer = <<>> THEN previous ELSE buffer[Len(buffer)].number
  /\ buffer' = <<>> /\ max_samples' = 0
  /\ remaining' = 0 /\ got_packet' = FALSE /\ read_geometry' = NoGeometry /\ inner' = 0
  /\ UNCHANGED <<sdk, stream_active, read_mode, carry, observed, mode, by_deadline,
                 twice, began, errors, session>>

Cleared == [m \in Modes |-> <<>>]

\* The device is stopped, disconnected and closed, and the SDK's queue goes with
\* it (a close that fails is not modelled); whatever they return, so does the
\* state of the stream.
stop_streaming ==
  /\ pc = "idle" /\ stream_active
  /\ stream_active' = FALSE
  /\ carry' = Cleared /\ read_mode' = "none"
  /\ observed' = NoGeometry /\ overrun_pending' = FALSE
  /\ queue' = <<>>
  /\ UNCHANGED <<taken, lost, pc, call, buffer, within, ghosts>>

start_streaming ==
  /\ pc = "idle" /\ ~stream_active
  /\ session < MaxSessions /\ session' = session + 1
  /\ stream_active' = TRUE
  /\ lost' = FALSE
  /\ previous' = 0 /\ told' = FALSE /\ twice' = FALSE /\ began' = taken
  /\ UNCHANGED <<queue, taken, read_mode, carry, observed, overrun_pending, pc, call, buffer,
                 within, errors>>

Next ==
  \/ \E len \in PacketLens, geo \in Geometries, shape \in {"iq", "stride", "huge"} :
        (len = 0 => shape = "iq") /\ PacketArrives(len, geo, shape)
  \/ DeviceLoses
  \/ \E m \in Modes, wanted \in ReadSizes, deadline \in BOOLEAN : ReadBegins(m, wanted, deadline)
  \/ WithinBegins \/ WithinEnds \/ WithinStops
  \/ TakePacket \/ TakePairs \/ SkipEmptyPacket \/ SkipPacket \/ RejectPacket \/ GetPacketFails
  \/ ReadReturns \/ ReadGoesOn \/ take_overrun
  \/ stop_streaming \/ start_streaming

Spec == Init /\ [][Next]_vars
-----------------------------------------------------------------------------
Delivered == (IF previous = 0 THEN <<>> ELSE <<previous>>)
               \o [i \in DOMAIN buffer |-> buffer[i].number]

\* The samples of a session reach the caller in the order they were taken and
\* none reaches it twice, whatever was carried over between reads: "mixing the
\* two read paths would silently punch time-gaps into both outputs".
ReadsInOrder ==
  pc = "returned" /\ ~twice =>
    \A i \in 2..Len(Delivered) : Delivered[i - 1] < Delivered[i]

\* No sample of an earlier session does.
ReadsAreFresh ==
  pc = "returned" => \A i \in DOMAIN buffer : buffer[i].number > began

\* A hole in or before a read is reported by it, or by the reads since the one
\* before it: a packet that is consumed and not delivered "is a loss, counted as
\* one".
LossesAreTold ==
  pc = "returned" /\ ~overrun_pending /\ ~told =>
    \A i \in 2..Len(Delivered) : Delivered[i] <= Delivered[i - 1] + 1

\* What the source says of the samples a call returned is what their packets
\* declared: "each returned buffer, including a carried packet tail, has one
\* frequency mapping".
OneMapping ==
  pc = "returned" /\ ~by_deadline =>
    \A i \in DOMAIN buffer : buffer[i].geo = observed

\* "A read never spans a frequency or sample-rate change", a deadline read
\* neither.
ReadsNeverSpanRetunes ==
  pc = "returned" => \A i \in DOMAIN buffer : buffer[i].geo = buffer[1].geo

\* Each sample of a session comes once, in order, and none of another session does.
SamplesComeOnce == TypeOK /\ ReadsInOrder /\ ReadsAreFresh
=============================================================================
