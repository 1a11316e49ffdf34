---------------------------- MODULE StreamBreaks ----------------------------
(***************************************************************************)
(* HttpSource's sample buffer and the breaks it holds against the samples  *)
(* queued in it (http_source.rs): work() refills the buffer in sweeps of   *)
(* parsed packets, trims it at its capacity, copies a run out, reports the *)
(* breaks that run carries and only then publishes it.  Reconnects and     *)
(* restarts interrupt this.                                                *)
(*                                                                         *)
(* The source has a StreamBreakSink (without one the bookkeeping is inert) *)
(* and streams a format with no fixed sample width, for which the buffer   *)
(* capacity is the refill capacity: the one case in which a sweep can      *)
(* outgrow it.  Timestamps are off by a whole sample or not at all; what   *)
(* counts as "off" is DropDetector's subject.                              *)
(***************************************************************************)
EXTENDS StreamTypes, FiniteSets

CONSTANTS
  BufferSize,      \* buffer_size
  CapacityFactor,  \* PACKET_CAPACITY_FACTOR
  Downstream,      \* downstream_capacity: the connected writer's max_items
  MaxFetches       \* MAX_FETCHES_PER_WORK

ASSUME CapacityAssumption ==
  /\ BufferSize \in Nat /\ Downstream \in Nat
  /\ CapacityFactor \in Nat \ {0} /\ MaxFetches \in Nat \ {0}

VARIABLES
  \* HttpSource
  sample_buffer, pending_breaks, epoch, published_geometry, produced,
  max_packet_samples,
  last_end,        \* drop_detector.last_end: <<>> when unseeded, <<t>> otherwise
  \* work() in progress
  pc, o_len, fetches, fetched, copied,
  \* the consumer: the sink's record and the samples it can see
  sink, out,
  \* the server
  end, sent

source == <<sample_buffer, pending_breaks, epoch, published_geometry, produced,
            max_packet_samples, last_end>>
working == <<pc, o_len, fetches, fetched, copied>>
consumer == <<sink, out>>
server == <<end, sent>>
vars == <<source, working, consumer, server>>

Break == [at : Nat, kind : {"gap", "initial", "retune"}, geo : Geometry]

Gap(at) == [at |-> at, kind |-> "gap", geo |-> NoGeometry]

TypeOK ==
  /\ sample_buffer \in Seq(Sample)
  /\ pending_breaks \in Seq(Break)
  /\ epoch \in Geometry /\ published_geometry \in Geometry
  /\ produced \in Nat /\ max_packet_samples \in Nat
  /\ last_end \in {<<>>} \cup {<<t>> : t \in {end}}
  /\ pc \in {"idle", "refill", "sweep", "copy", "publish"}
  /\ o_len \in 0..Downstream /\ fetches \in 0..MaxFetches /\ fetched \in BOOLEAN
  /\ copied \in Seq(Sample)
  /\ sink \in Seq(Break) /\ out \in Seq(Sample)
  /\ end \in Int /\ sent \in Nat

Init ==
  /\ sample_buffer = <<>> /\ pending_breaks = <<>>
  /\ epoch = NoGeometry /\ published_geometry = NoGeometry
  /\ produced = 0 /\ max_packet_samples = 0 /\ last_end = <<>>
  /\ pc = "idle" /\ o_len = 0 /\ fetches = 0 /\ fetched = FALSE /\ copied = <<>>
  /\ sink = <<>> /\ out = <<>>
  /\ end = 0 /\ sent = 0
-----------------------------------------------------------------------------
(* Buffer sizes *)

refill_capacity(max_packet) ==
  Larger(Larger(Larger(2 * BufferSize, 1), CapacityFactor * max_packet),
         Downstream + max_packet)

buffer_capacity(max_packet) == refill_capacity(max_packet)

refill_below ==
  LET cap == refill_capacity(max_packet_samples)
  IN  Smaller(Larger(cap \div 2, o_len), cap)
-----------------------------------------------------------------------------
(* The break queue *)

note_break(pending, at, kind, geo) ==
  LET b == [at |-> at, kind |-> kind, geo |-> geo]
  IN  IF kind = "gap" /\ pending # <<>> /\ pending[Len(pending)] = b
      THEN pending
      ELSE Append(pending, b)

\* Mutant: any queued gap stands for the next one.
note_gap_once(pending, at) ==
  IF \E i \in 1..Len(pending) : pending[i].kind = "gap" THEN pending
  ELSE Append(pending, Gap(at))

note_gap(pending, at) == note_break(pending, at, "gap", NoGeometry)

Rebase(pending, by) ==
  [i \in 1..Len(pending) |-> [pending[i] EXCEPT !.at = Larger(@ - by, 0)]]

\* The elements of s at the indices I, in their order.
Picked(s, I) ==
  [i \in 1..Cardinality(I) |->
     s[CHOOSE j \in I : Cardinality({k \in I : k < j}) = i - 1]]

\* The breaks a trim retains: not the gaps that the rebase brings to the hole.
Retained(pending, discarded) ==
  {i \in 1..Len(pending) : pending[i].at > discarded \/ pending[i].kind # "gap"}

\* Mutant: the hole is queued behind the breaks that follow it.
note_trim_behind(pending, discarded) ==
  Append(Picked(Rebase(pending, discarded), Retained(pending, discarded)), Gap(0))

note_trim(pending, discarded) ==
  <<Gap(0)>> \o Picked(Rebase(pending, discarded), Retained(pending, discarded))

\* Whether a packet declaring g is reported, and as what.
GeometryNews(announced, g) ==
  CASE ~Declared(g)                         -> {}
    [] Declared(g) /\ ~Declared(announced)  -> {"initial"}
    [] OTHER -> IF Moved(announced, g) THEN {"retune"} ELSE {}

note_geometry(pending, at, news, g) ==
  IF news = {} THEN pending ELSE note_break(pending, at, CHOOSE k \in news : TRUE, g)

\* Mutant: the epoch follows every packet.
EpochAfter_creeping(announced, news, g) == IF Declared(g) THEN g ELSE announced

\* The epoch moves only with an announcement, so a creep is measured from
\* what the consumer believes.
EpochAfter(announced, news, g) == IF news = {} THEN announced ELSE g
-----------------------------------------------------------------------------
(* work(): refill *)

\* cleanup_stream: parser and detector forget the old stream, and what the
\* device takes before the next one opens is never seen.
cleanup_stream ==
  /\ last_end' = <<>>
  /\ sent < MaxSamples /\ sent' = sent + 1
  /\ end' = end + 1

WorkBegins(room) ==
  /\ pc = "idle"
  /\ pc' = "refill" /\ o_len' = room /\ fetches' = 0
  /\ UNCHANGED <<source, fetched, copied, consumer, server>>

\* restart_pending was set: the stream is torn down, the buffer and its
\* breaks dropped (note_buffer_cleared), and work goes on.
WorkRestarts(room) ==
  /\ pc = "idle"
  /\ cleanup_stream
  /\ sample_buffer' = <<>>
  /\ pending_breaks' = <<Gap(0)>>
  /\ epoch' = published_geometry
  /\ pc' = "refill" /\ o_len' = room /\ fetches' = 0
  /\ UNCHANGED <<published_geometry, produced, max_packet_samples,
                 fetched, copied, consumer>>

FetchBegins ==
  /\ pc = "refill"
  /\ Len(sample_buffer) < refill_below /\ fetches < MaxFetches
  /\ pc' = "sweep" /\ fetches' = fetches + 1 /\ fetched' = FALSE
  /\ UNCHANGED <<source, o_len, copied, consumer, server>>

\* process_advanced_stream_data, one IQ packet: a jump of the timestamps
\* (forward or backward) is a gap, a moved geometry is announced, the samples
\* are queued, and the oldest go if that overfills the buffer.
IqPacket(t0, n, g) ==
  LET first    == IF t0 = end THEN sent ELSE sent + 1
      at       == Len(sample_buffer)
      jumped   == last_end # <<>> /\ last_end # <<t0>>
      gapped   == IF jumped THEN note_gap(pending_breaks, at) ELSE pending_breaks
      news     == GeometryNews(epoch, g)
      noted    == note_geometry(gapped, at, news, g)
      widest   == Larger(max_packet_samples, n)
      grown    == sample_buffer \o PacketSamples(t0, first, n, g)
      overflow == Larger(Len(grown) - buffer_capacity(widest), 0)
  IN  /\ pc = "sweep"
      /\ first + n <= MaxSamples
      /\ last_end' = <<t0 + n>>
      /\ epoch' = EpochAfter(epoch, news, g)
      /\ max_packet_samples' = widest
      /\ sample_buffer' = SubSeq(grown, overflow + 1, Len(grown))
      /\ pending_breaks' = IF overflow > 0 THEN note_trim(noted, overflow) ELSE noted
      /\ fetched' = (fetched \/ n > 0)
      /\ end' = t0 + n /\ sent' = first + n
      /\ UNCHANGED <<published_geometry, produced, pc, o_len, fetches, copied, consumer>>

\* A framed IQ packet of n samples that does not decode: note_lost_packet.
LostPacket(n) ==
  /\ pc = "sweep"
  /\ sent + n <= MaxSamples
  /\ pending_breaks' = note_gap(pending_breaks, Len(sample_buffer))
  /\ last_end' = <<>>
  /\ end' = end + n /\ sent' = sent + n
  /\ UNCHANGED <<sample_buffer, epoch, published_geometry, produced,
                 max_packet_samples, working, consumer>>

FetchEnds ==
  /\ pc = "sweep"
  /\ pc' = IF fetched THEN "refill" ELSE "copy"
  /\ UNCHANGED <<source, o_len, fetches, fetched, copied, consumer, server>>

\* The fetch failed.  fetch_samples tears the stream down itself when the
\* reader ended, and work() does so (again): the second gap collapses into
\* the first.  work() returns without producing; the buffer stays.
FetchFails ==
  /\ pc = "sweep"
  /\ cleanup_stream
  /\ pending_breaks' = note_gap(note_gap(pending_breaks, Len(sample_buffer)),
                                Len(sample_buffer))
  /\ pc' = "idle" /\ o_len' = 0 /\ fetches' = 0 /\ fetched' = FALSE
  /\ UNCHANGED <<sample_buffer, epoch, published_geometry, produced,
                 max_packet_samples, copied, consumer>>
-----------------------------------------------------------------------------
(* work(): copy out, report, publish *)

\* copy_out takes what fits off the front of the buffer.
CopyOut ==
  LET n == Smaller(Len(sample_buffer), o_len)
  IN  /\ \/ pc = "copy"
         \/ pc = "refill" /\ (Len(sample_buffer) >= refill_below \/ fetches = MaxFetches)
      /\ copied' = SubSeq(sample_buffer, 1, n)
      /\ sample_buffer' = SubSeq(sample_buffer, n + 1, Len(sample_buffer))
      /\ pc' = "publish"
      /\ UNCHANGED <<pending_breaks, epoch, published_geometry, produced,
                     max_packet_samples, last_end, o_len, fetches, fetched,
                     consumer, server>>

Due == pending_breaks # <<>> /\ pending_breaks[1].at < Len(copied)

\* Mutant: one break at a time.
FrontRun_single == 1

\* The breaks at the front of the queue that share one offset.
FrontRun ==
  CHOOSE k \in 1..Len(pending_breaks) :
    /\ \A i \in 1..k : pending_breaks[i].at = pending_breaks[1].at
    /\ k < Len(pending_breaks) => pending_breaks[k+1].at # pending_breaks[1].at

Latest(I) == CHOOSE i \in I : \A j \in I : j <= i

\* What the geometries reported at one index amount to.
GeometryKind(geos) ==
  IF \E i \in geos : pending_breaks[i].kind = "initial" THEN "initial" ELSE "retune"

\* One boundary of publish_breaks: at most one gap, then at most one
\* geometry, the last one, which stays "initial" if the run's first word on
\* geometry is among them.
ReportBoundary ==
  LET at   == produced + pending_breaks[1].at
      gap  == \E i \in 1..FrontRun : pending_breaks[i].kind = "gap"
      geos == {i \in 1..FrontRun : pending_breaks[i].kind # "gap"}
      told == pending_breaks[Latest(geos)].geo
  IN  /\ pc = "publish" /\ Due
      /\ pending_breaks' = SubSeq(pending_breaks, FrontRun + 1, Len(pending_breaks))
      /\ published_geometry' = IF geos = {} THEN published_geometry ELSE told
      /\ sink' = sink \o (IF gap /\ at # 0 THEN <<Gap(at)>> ELSE <<>>)
                      \o (IF geos = {} THEN <<>>
                          ELSE <<[at |-> at, kind |-> GeometryKind(geos), geo |-> told]>>)
      /\ UNCHANGED <<sample_buffer, epoch, produced, max_packet_samples, last_end,
                     working, out, server>>

\* The rest of publish_breaks, then output.produce.
Publish ==
  /\ pc = "publish" /\ ~Due
  /\ pending_breaks' = Rebase(pending_breaks, Len(copied))
  /\ produced' = produced + Len(copied)
  /\ out' = out \o copied
  /\ copied' = <<>>
  /\ pc' = "idle" /\ o_len' = 0 /\ fetches' = 0 /\ fetched' = FALSE
  /\ UNCHANGED <<sample_buffer, epoch, published_geometry, max_packet_samples,
                 last_end, sink, server>>

Next ==
  \/ \E room \in 0..Downstream : WorkBegins(room) \/ WorkRestarts(room)
  \/ FetchBegins
  \/ \E skew \in Skews, n \in PacketLens, g \in Geometries : IqPacket(end + skew, n, g)
  \/ \E n \in PacketLens \ {0} : LostPacket(n)
  \/ FetchEnds
  \/ FetchFails
  \/ CopyOut
  \/ ReportBoundary
  \/ Publish

Spec == Init /\ [][Next]_vars
-----------------------------------------------------------------------------
(* Properties *)

\* The queue is ordered by offset and every break in it lies within the
\* samples the source still holds: the loop of publish_breaks, which stops at
\* the first offset beyond the run, would otherwise skip a break that is due.
QueueInOrder ==
  /\ \A i, j \in 1..Len(pending_breaks) :
        i < j => pending_breaks[i].at <= pending_breaks[j].at
  /\ \A i \in 1..Len(pending_breaks) :
        pending_breaks[i].at <= Len(copied) + Len(sample_buffer)

\* Guarantee 2 of stream_break.rs: breaks reach the sink in index order, an
\* index is never revisited, and never one the consumer already holds.
IndexNeverRevisited ==
  [][\A i \in (Len(sink) + 1)..Len(sink') :
        /\ sink'[i].at >= Len(out)
        /\ \A j \in 1..Len(sink) : sink[j].at < sink'[i].at]_vars

\* The run's first word on geometry is "initial" and no later one is, however
\* trims, restarts and reconnects merged or dropped what was queued.
InitialComesOnceAndFirst ==
  \A i \in 1..Len(sink) : sink[i].kind # "gap" =>
     (sink[i].kind = "initial" <=> \A j \in 1..(i-1) : sink[j].kind = "gap")

\* What the sink has, and what it will be told, at output indices.
Reported ==
  sink \o [i \in 1..Len(pending_breaks) |->
             [pending_breaks[i] EXCEPT !.at = produced + @]]

\* The geometry in force at index k, if it was before and breaks are reported.
WordAt(breaks, k, before) ==
  LET news == {i \in 1..Len(breaks) : breaks[i].kind # "gap" /\ breaks[i].at <= k}
  IN  IF news = {} THEN before ELSE breaks[Latest(news)].geo

\* The geometry in force at output index k, as far as it has been reported
\* or is held for reporting.
AnnouncedAt(k) == WordAt(Reported, k, NoGeometry)

GapAt(k) == k > 0 /\ \E i \in 1..Len(Reported) : Reported[i] = Gap(k)

Held == copied \o sample_buffer

\* A restart leaves the baseline at what the consumer was told and a trim
\* cannot separate the two: the epoch new packets are compared with is the
\* last geometry that is queued or was published.
EpochIsLastWord == epoch = AnnouncedAt(Len(out) + Len(Held))

\* How the offsets stand for labels.  A break at an offset labels the sample
\* there; the breaks behind the last sample are the label of the next one.
Labels(samples, base) ==
  [i \in 1..Len(samples) |->
     [s   |-> samples[i],
      gap |-> GapAt(base + i - 1),
      ann |-> AnnouncedAt(base + i - 1)]]

Contract == INSTANCE BreakContract WITH
  out   <- Labels(out, 0),
  queue <- Labels(Held, Len(out)),
  tail  <- [gap |-> GapAt(Len(out) + Len(Held)),
            ann |-> AnnouncedAt(Len(out) + Len(Held))]

\* Every hole between samples the consumer gets next to each other is reported
\* at the index of the second, and nothing else is (stream_break.rs, Gap).
GapsAreExact == Contract!GapsAreExact

\* No sample reaches the consumer under a geometry out of tolerance with its
\* own packet's, however slowly the geometry crept (Initial and Retune).
GeometryIsTold == Contract!GeometryIsTold

\* The offset queue, its rebasing and merging, the detector and the reconnect
\* and restart paths together implement the labelled stream of BreakContract:
\* the consumer sees every gap and every retune at its exact index.
ImplementsContract == Contract!Spec

\* What the publishing loop relies on, however fetches, trims, reconnects and
\* restarts interleave: the queue is in order, the first geometry told is the
\* initial one, and new packets are compared with the last word on geometry.
QueueIsWellFormed ==
  TypeOK /\ QueueInOrder /\ InitialComesOnceAndFirst /\ EpochIsLastWord
=============================================================================
