--------------------------- MODULE SpectranReads ---------------------------
(***************************************************************************)
(* SpectranSource over HTTP (unified_source.rs): the reader task, which    *)
(* keeps a /stream connection open and puts each packet on a bounded       *)
(* channel, and the caller, who assembles reads from the channel, asks     *)
(* after each one whether it follows a gap (take_overrun), and stops and   *)
(* starts the source.                                                      *)
(*                                                                         *)
(* The device numbers the samples it captures; a sample carries the number *)
(* and the frequency and rate its packet declares (Undeclared for none).   *)
(* Losses skip numbers.  That the DropDetector sees a lost packet is what  *)
(* module DropDetector shows; here it is taken to.  Packets are dated and  *)
(* not empty.                                                              *)
(***************************************************************************)
EXTENDS Integers, Sequences

CONSTANTS
  Packets,        \* shapes of packets: [len, freq, rate]
  FreqBand,       \* 1.0 (Hz)
  RateBand,       \* rate_moved: a rate move above 1/RateBand of the rate
  ChannelDepth,   \* 100 chunks
  MaxReconnects,  \* MAX_RECONNECT_ATTEMPTS, or 0 without auto_reconnect
  MaxErrors,      \* MAX_CONSECUTIVE_STREAM_ERRORS
  ReadSizes,      \* max_samples of a read
  MaxSamples,     \* bounds the samples captured
  MaxSessions     \* bounds how often the source is started

Undeclared == 0

ASSUME PacketsAssumption ==
  /\ Packets \subseteq [len : Nat \ {0}, freq : Nat, rate : Nat]
  /\ FreqBand \in Nat /\ RateBand \in Nat
  /\ ChannelDepth \in Nat \ {0} /\ MaxErrors \in Nat \ {0} /\ MaxReconnects \in Nat
  /\ ReadSizes \subseteq Nat \ {0}
  /\ MaxSamples \in Nat /\ MaxSessions \in Nat \ {0}

VARIABLES
  \* the reader task
  reader,                 \* "connecting" | "streaming" | "ended" | "none"
  attempts,               \* reconnects
  consecutive_errors,
  flag_overrun_after_gap, delivered_any,
  last_seen, drops,       \* drop_detector: last sample observed (0: none), drops()
  \* the channel
  receiver,               \* http_receiver.is_some()
  channel,
  \* the source
  sample_buffer, sample_buffer_freq_hz, sample_buffer_rate_hz, sample_buffer_after_gap,
  pending_overrun, cumulative_drops,
  last_read_frequency_hz, last_read_sample_rate_hz,
  \* read_samples_deadline in progress
  pc, max_samples, batch, batch_freq_hz, batch_rate_hz,
  \* for the properties
  captured,               \* number of the last sample the device captured
  previous,               \* number of the last sample the caller has (0: none)
  session

reader_vars == <<reader, attempts, consecutive_errors, flag_overrun_after_gap,
                 delivered_any, last_seen, drops>>
stash_vars  == <<sample_buffer, sample_buffer_freq_hz, sample_buffer_rate_hz,
                 sample_buffer_after_gap>>
read_vars   == <<pc, max_samples, batch, batch_freq_hz, batch_rate_hz>>
told_vars   == <<pending_overrun, cumulative_drops, last_read_frequency_hz,
                 last_read_sample_rate_hz>>
vars == <<reader_vars, receiver, channel, stash_vars, read_vars, told_vars,
          captured, previous, session>>

Sample == [number : 1..MaxSamples,
           freq : {p.freq : p \in Packets}, rate : {p.rate : p \in Packets}]

TypeOK ==
  /\ reader \in {"connecting", "streaming", "ended", "none"}
  /\ attempts \in 0..MaxReconnects /\ consecutive_errors \in 0..(MaxErrors - 1)
  /\ flag_overrun_after_gap \in BOOLEAN /\ delivered_any \in BOOLEAN
  /\ last_seen \in 0..captured /\ drops \in Nat
  /\ receiver \in BOOLEAN /\ (reader \in {"connecting", "streaming"} => receiver)
  /\ Len(channel) <= ChannelDepth
  /\ \A i \in DOMAIN channel :
        channel[i] \in [samples : Seq(Sample), dropped : BOOLEAN, drops : Nat]
  /\ sample_buffer \in Seq(Sample)
  /\ sample_buffer_freq_hz \in Nat /\ sample_buffer_rate_hz \in Nat
  /\ sample_buffer_after_gap \in BOOLEAN
  /\ pending_overrun \in BOOLEAN /\ cumulative_drops \in Nat
  /\ last_read_frequency_hz \in Nat /\ last_read_sample_rate_hz \in Nat
  /\ pc \in {"idle", "reading", "boundary", "returned"}
  /\ max_samples \in ReadSizes \cup {0} /\ batch \in Seq(Sample)
  /\ Len(batch) <= max_samples
  /\ batch_freq_hz \in Nat /\ batch_rate_hz \in Nat
  /\ captured \in 0..MaxSamples /\ previous \in 0..captured
  /\ session \in 1..MaxSessions

\* new(): init_http_source has spawned the reader task.
Init ==
  /\ reader = "connecting" /\ attempts = 0 /\ consecutive_errors = 0
  /\ flag_overrun_after_gap = FALSE /\ delivered_any = FALSE
  /\ last_seen = 0 /\ drops = 0
  /\ receiver = TRUE /\ channel = <<>>
  /\ sample_buffer = <<>> /\ sample_buffer_freq_hz = 0 /\ sample_buffer_rate_hz = 0
  /\ sample_buffer_after_gap = FALSE
  /\ pending_overrun = FALSE /\ cumulative_drops = 0
  /\ last_read_frequency_hz = 0 /\ last_read_sample_rate_hz = 0
  /\ pc = "idle" /\ max_samples = 0 /\ batch = <<>>
  /\ batch_freq_hz = 0 /\ batch_rate_hz = 0
  /\ captured = 0 /\ previous = 0 /\ session = 1
-----------------------------------------------------------------------------
Distance(a, b) == IF a < b THEN b - a ELSE a - b

\* Whether two declared frequencies, or two declared rates, differ.
frequency_moved(a, b) ==
  a # Undeclared /\ b # Undeclared /\ Distance(a, b) > FreqBand
rate_moved(a, b) ==
  a # Undeclared /\ b # Undeclared /\ RateBand * Distance(a, b) > a

\* should_reconnect, with the attempts already spent.
MayReconnect(spent) == spent < MaxReconnects

\* start_stream succeeds.
StreamStarts ==
  /\ reader = "connecting"
  /\ reader' = "streaming" /\ consecutive_errors' = 0
  /\ UNCHANGED <<attempts, flag_overrun_after_gap, delivered_any, last_seen, drops,
                 receiver, channel, stash_vars, read_vars, told_vars,
                 captured, previous, session>>

\* start_stream fails: another attempt after a pause, or the task ends.
StreamFailsToStart ==
  /\ reader = "connecting"
  /\ \/ /\ MayReconnect(attempts)
        /\ attempts' = attempts + 1
        /\ flag_overrun_after_gap' = delivered_any
        /\ UNCHANGED reader
     \/ /\ ~MayReconnect(attempts)
        /\ reader' = "ended"
        /\ UNCHANGED <<attempts, flag_overrun_after_gap>>
  /\ UNCHANGED <<consecutive_errors, delivered_any, last_seen, drops, receiver, channel,
                 stash_vars, read_vars, told_vars, captured, previous, session>>

\* Whether the DropDetector sees a gap before the next sample captured.
GapSeen == last_seen # 0 /\ last_seen # captured

\* A packet goes onto the channel, once there is room for it.
PacketArrives(p) ==
  LET samples == [i \in 1..p.len |->
                    [number |-> captured + i, freq |-> p.freq, rate |-> p.rate]]
      count   == IF GapSeen THEN drops + 1 ELSE drops
  IN  /\ reader = "streaming"
      /\ Len(channel) < ChannelDepth
      /\ captured + p.len <= MaxSamples
      /\ captured' = captured + p.len
      /\ last_seen' = captured'
      /\ drops' = count
      /\ channel' = Append(channel, [samples |-> samples, drops |-> count,
                                     dropped |-> GapSeen \/ flag_overrun_after_gap])
      /\ flag_overrun_after_gap' = (GapSeen /\ flag_overrun_after_gap)
      /\ delivered_any' = TRUE /\ consecutive_errors' = 0
      /\ UNCHANGED <<reader, attempts, receiver, stash_vars, read_vars, told_vars,
                     previous, session>>

\* Samples are captured and never reach the reader.
PacketIsLost ==
  /\ reader = "streaming"
  /\ captured < MaxSamples
  /\ captured' = captured + 1
  /\ UNCHANGED <<reader_vars, receiver, channel, stash_vars, read_vars, told_vars,
                 previous, session>>

\* A packet that cannot be parsed, but not yet too many in a row.
PacketFailsToParse ==
  /\ reader = "streaming"
  /\ captured < MaxSamples /\ consecutive_errors + 1 < MaxErrors
  /\ captured' = captured + 1
  /\ consecutive_errors' = consecutive_errors + 1
  /\ UNCHANGED <<reader, attempts, flag_overrun_after_gap, delivered_any, last_seen,
                 drops, receiver, channel, stash_vars, read_vars, told_vars,
                 previous, session>>

\* The connection is given up; what is captured meanwhile is lost.  It may have
\* lasted long enough (healthy) to earn the attempts back.
StreamEnds(healthy) ==
  LET spent == IF healthy THEN 0 ELSE attempts
  IN  /\ reader = "streaming"
      /\ captured < MaxSamples
      /\ captured' = captured + 1
      /\ \/ /\ MayReconnect(spent)
            /\ attempts' = spent + 1
            /\ reader' = "connecting"
            /\ last_seen' = 0
            /\ flag_overrun_after_gap' = TRUE
         \/ /\ ~MayReconnect(spent)
            /\ attempts' = spent
            /\ reader' = "ended"
            /\ UNCHANGED <<last_seen, flag_overrun_after_gap>>
      /\ UNCHANGED <<consecutive_errors, delivered_any, drops, receiver, channel,
                     stash_vars, read_vars, told_vars, previous, session>>
-----------------------------------------------------------------------------
\* Mutant: a read that starts from the stash never reports its gap.
OverrunOfStash_never(n) == FALSE

\* A read takes n stashed samples: whether that puts it behind a gap, and
\* whether what it leaves is behind one.
OverrunOfStash(n) == n > 0 /\ sample_buffer_after_gap

AfterGapLeft(n) == n = 0 /\ sample_buffer_after_gap

\* read_samples_deadline starts with what is stashed.
ReadBegins(wanted) ==
  LET n == IF Len(sample_buffer) < wanted THEN Len(sample_buffer) ELSE wanted
  IN  /\ pc = "idle" /\ receiver
      /\ pc' = "reading" /\ max_samples' = wanted
      /\ batch' = SubSeq(sample_buffer, 1, n)
      /\ sample_buffer' = SubSeq(sample_buffer, n + 1, Len(sample_buffer))
      /\ batch_freq_hz' = IF n > 0 THEN sample_buffer_freq_hz ELSE Undeclared
      /\ batch_rate_hz' = IF n > 0 THEN sample_buffer_rate_hz ELSE Undeclared
      /\ pending_overrun' = (pending_overrun \/ OverrunOfStash(n))
      /\ sample_buffer_after_gap' = AfterGapLeft(n)
      /\ UNCHANGED <<reader_vars, receiver, channel, sample_buffer_freq_hz,
                     sample_buffer_rate_hz, cumulative_drops, last_read_frequency_hz,
                     last_read_sample_rate_hz, captured, previous, session>>

\* Whether a chunk may not be added to the batch: what breaks is on its boundary.
Retuned(s) ==
  frequency_moved(batch_freq_hz, s.freq) \/ rate_moved(batch_rate_hz, s.rate)

\* Mutant: a gap does not end a read.
BreaksBatch_retuned(chunk) == batch # <<>> /\ Retuned(chunk.samples[1])

BreaksBatch(chunk) == batch # <<>> /\ (chunk.dropped \/ Retuned(chunk.samples[1]))

\* The chunk is stashed for the next read, and this one ends.
ReadStopsBefore ==
  LET chunk == Head(channel)
  IN  /\ pc = "reading" /\ Len(batch) < max_samples /\ channel # <<>>
      /\ BreaksBatch(chunk)
      /\ channel' = Tail(channel)
      /\ sample_buffer' = sample_buffer \o chunk.samples
      /\ sample_buffer_freq_hz' = chunk.samples[1].freq
      /\ sample_buffer_rate_hz' = chunk.samples[1].rate
      /\ sample_buffer_after_gap' = (sample_buffer_after_gap \/ chunk.dropped)
      /\ cumulative_drops' = chunk.drops
      /\ pc' = "boundary"
      /\ UNCHANGED <<reader_vars, receiver, max_samples, batch, batch_freq_hz,
                     batch_rate_hz, pending_overrun, last_read_frequency_hz,
                     last_read_sample_rate_hz, captured, previous, session>>

Declared(first, otherwise) == IF first # Undeclared THEN first ELSE otherwise

\* The chunk is added to the batch, and what is left over is stashed.
ReadTakes ==
  LET chunk == Head(channel)
      first == chunk.samples[1]
      room  == max_samples - Len(batch)
      n     == IF Len(chunk.samples) <= room THEN Len(chunk.samples) ELSE room
      over  == SubSeq(chunk.samples, n + 1, Len(chunk.samples))
  IN  /\ pc = "reading" /\ Len(batch) < max_samples /\ channel # <<>>
      /\ ~BreaksBatch(chunk)
      /\ channel' = Tail(channel)
      /\ pending_overrun' = (pending_overrun \/ chunk.dropped)
      /\ cumulative_drops' = chunk.drops
      /\ batch_freq_hz' = Declared(batch_freq_hz, first.freq)
      /\ batch_rate_hz' = Declared(batch_rate_hz, first.rate)
      /\ batch' = batch \o SubSeq(chunk.samples, 1, n)
      /\ IF over # <<>>
         THEN /\ sample_buffer' = sample_buffer \o over
              /\ sample_buffer_freq_hz' = batch_freq_hz'
              /\ sample_buffer_rate_hz' = batch_rate_hz'
         ELSE UNCHANGED <<sample_buffer, sample_buffer_freq_hz, sample_buffer_rate_hz>>
      /\ UNCHANGED <<reader_vars, receiver, sample_buffer_after_gap, pc, max_samples,
                     last_read_frequency_hz, last_read_sample_rate_hz,
                     captured, previous, session>>

\* The read is full, or stopped at a boundary, or nothing more comes before
\* its deadline (or at all: the reader task has ended).
ReadIsOver ==
  \/ pc = "boundary"
  \/ pc = "reading" /\ (Len(batch) = max_samples \/ channel = <<>>)

ReadReturns ==
  /\ ReadIsOver /\ batch # <<>>
  /\ pc' = "returned"
  /\ last_read_frequency_hz' = Declared(batch_freq_hz, last_read_frequency_hz)
  /\ last_read_sample_rate_hz' = batch_rate_hz
  /\ UNCHANGED <<reader_vars, receiver, channel, stash_vars, max_samples, batch,
                 batch_freq_hz, batch_rate_hz, pending_overrun, cumulative_drops,
                 captured, previous, session>>

\* TimedOut or StreamClosed.
ReadFails ==
  /\ ReadIsOver /\ batch = <<>>
  /\ pc' = "idle"
  /\ UNCHANGED <<reader_vars, receiver, channel, stash_vars, max_samples, batch,
                 batch_freq_hz, batch_rate_hz, told_vars, captured, previous, session>>

\* As documented, once per read.
take_overrun ==
  /\ pc = "returned"
  /\ pending_overrun' = FALSE
  /\ previous' = batch[Len(batch)].number
  /\ pc' = "idle" /\ batch' = <<>>
  /\ UNCHANGED <<reader_vars, receiver, channel, stash_vars, max_samples, batch_freq_hz,
                 batch_rate_hz, cumulative_drops, last_read_frequency_hz,
                 last_read_sample_rate_hz, captured, session>>

\* The reader task is aborted and the receiver dropped.
stop_streaming ==
  /\ pc = "idle" /\ (receiver \/ reader # "none")
  /\ receiver' = FALSE /\ channel' = <<>> /\ reader' = "none"
  /\ UNCHANGED <<attempts, consecutive_errors, flag_overrun_after_gap, delivered_any,
                 last_seen, drops, stash_vars, read_vars, told_vars,
                 captured, previous, session>>

\* start_streaming without a reader task: init_http_source spawns a new one, or
\* fails (the server is away, or refuses the tuning).
start_streaming(connects) ==
  /\ pc = "idle" /\ reader \in {"ended", "none"}
  /\ session < MaxSessions
  /\ session' = session + 1 /\ previous' = 0
  /\ sample_buffer' = <<>> /\ pending_overrun' = FALSE
  /\ IF connects
     THEN /\ reader' = "connecting" /\ attempts' = 0 /\ consecutive_errors' = 0
          /\ flag_overrun_after_gap' = FALSE /\ delivered_any' = FALSE
          /\ last_seen' = 0 /\ drops' = 0
          /\ receiver' = TRUE /\ channel' = <<>>
     ELSE UNCHANGED <<reader_vars, receiver, channel>>
  /\ UNCHANGED <<sample_buffer_freq_hz, sample_buffer_rate_hz, sample_buffer_after_gap,
                 read_vars, cumulative_drops, last_read_frequency_hz,
                 last_read_sample_rate_hz, captured>>

Next ==
  \/ StreamStarts \/ StreamFailsToStart
  \/ \E p \in Packets : PacketArrives(p)
  \/ PacketIsLost \/ PacketFailsToParse
  \/ \E healthy \in BOOLEAN : StreamEnds(healthy)
  \/ \E n \in ReadSizes : ReadBegins(n)
  \/ ReadStopsBefore \/ ReadTakes \/ ReadReturns \/ ReadFails
  \/ take_overrun
  \/ stop_streaming \/ \E connects \in BOOLEAN : start_streaming(connects)

Spec == Init /\ [][Next]_vars
-----------------------------------------------------------------------------
FollowsGap(sample) == previous # 0 /\ sample.number # previous + 1

\* A read is one piece of the stream: no sample is missing inside it, none is
\* repeated (read_samples_deadline puts a gap "on a boundary rather than inside
\* this block").
ReadsAreWhole ==
  pc = "returned" =>
    \A i \in 2..Len(batch) : batch[i].number = batch[i - 1].number + 1

\* One frequency and one rate describe all of a read: those the source then
\* gives for it are the ones its packets declared (capture_frequency_hz: "one
\* value describes the whole buffer").
LabelsAreTrue ==
  pc = "returned" =>
    \A i \in DOMAIN batch :
      /\ ~frequency_moved(last_read_frequency_hz, batch[i].freq)
      /\ ~rate_moved(last_read_sample_rate_hz, batch[i].rate)

\* A read that does not continue the one before it says so, whatever happened in
\* between: lost packets, reconnects, chunks stashed by earlier reads.
GapsAreReported ==
  pc = "returned" /\ FollowsGap(batch[1]) => pending_overrun

\* The overrun belongs to the read that starts at the gap and to no other,
\* as long as the source has been started once.
OverrunsAreGaps ==
  pc = "returned" /\ session = 1 /\ previous # 0 /\ pending_overrun
    => FollowsGap(batch[1])

\* Reads are single contiguous pieces under the label they were given, whatever
\* the reader task lost and however the stash split its chunks.
ReadsAreTrue == TypeOK /\ ReadsAreWhole /\ LabelsAreTrue

\* A read that follows a gap says so, and one that says so follows a gap.
LossesAreFlagged == GapsAreReported /\ OverrunsAreGaps
=============================================================================
