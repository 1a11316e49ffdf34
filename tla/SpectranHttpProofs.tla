-------------------------- MODULE SpectranHttpProofs --------------------------
(***************************************************************************)
(* SpectranSource over HTTP.  What its reads return is true and what is    *)
(* lost between them is told, for every set of packets and of read sizes,  *)
(* depth of the channel, number of reconnects, errors, samples and starts. *)
(* Device, shared tuning and configuration agree, as far as the code can   *)
(* know, for every set of settings and values, number of reconnects,       *)
(* server restarts and starts.                                             *)
(***************************************************************************)
EXTENDS MCSpectranHttp, SequenceTheorems, TLAPS

\* Of a sequence of samples: it is one piece of what the device captured, of one
\* frequency and rate, and none of it is later than n.
Run(s) == \A i \in 1..Len(s) : s[i].number = s[1].number + (i - 1)
Uniform(s) == \A i \in 1..Len(s) : s[i].freq = s[1].freq /\ s[i].rate = s[1].rate
UpTo(s, n) == \A i \in 1..Len(s) : s[i].number <= n

LastOf(s) == s[Len(s)].number

\* Samples that declare a frequency or a rate declare the one they are labelled with.
Fits(s, freq, rate) ==
  \A i \in 1..Len(s) :
    /\ freq = Undeclared => s[i].freq = Undeclared
    /\ rate = Undeclared => s[i].rate = Undeclared
    /\ ~frequency_moved(freq, s[i].freq) /\ ~rate_moved(rate, s[i].rate)

Chunk == [samples : Seq(Sample), dropped : BOOLEAN, drops : Nat]

\* The last sample the caller has, the one in the stash included, and the one in the
\* first k chunks of the channel included (0: none).
InHand == IF batch # <<>> THEN LastOf(batch) ELSE previous
Pulled == IF sample_buffer # <<>> THEN LastOf(sample_buffer) ELSE InHand
Queued(k) == IF k = 0 THEN Pulled ELSE LastOf(channel[k].samples)

CallsAreInStep ==
  /\ pc = "idle" => batch = <<>>
  /\ pc # "idle" => max_samples # 0 /\ receiver
  /\ pc = "reading" /\ Len(batch) < max_samples => sample_buffer = <<>>
  /\ pc = "reading" /\ batch = <<>> => batch_freq_hz = Undeclared /\ batch_rate_hz = Undeclared
  /\ pc \in {"boundary", "returned"} => batch # <<>>
  /\ ~receiver => channel = <<>>

IsWhole(chunk) ==
  /\ chunk.samples # <<>> /\ Run(chunk.samples)
  /\ Uniform(chunk.samples) /\ UpTo(chunk.samples, captured)

ChannelIsWhole == channel \in Seq(Chunk) /\ \A k \in 1..Len(channel) : IsWhole(channel[k])

HeldIsWhole ==
  /\ Run(batch) /\ UpTo(batch, captured)
  /\ Run(sample_buffer) /\ UpTo(sample_buffer, captured)

LabelsFit ==
  /\ Fits(batch, batch_freq_hz, batch_rate_hz)
  /\ Fits(sample_buffer, sample_buffer_freq_hz, sample_buffer_rate_hz)
  /\ pc = "returned" => Fits(batch, last_read_frequency_hz, last_read_sample_rate_hz)

\* A chunk is marked exactly if it does not go on where the one before it ended.
ChunksAreFlagged ==
  \A k \in 1..Len(channel) :
    Queued(k - 1) # 0 =>
      (channel[k].dropped <=> channel[k].samples[1].number # Queued(k - 1) + 1)

\* What the reader task remembers is enough to mark the next chunk.
ReaderKnows ==
  reader \in {"connecting", "streaming"} =>
    /\ delivered_any <=> Queued(Len(channel)) # 0
    /\ last_seen # 0 => last_seen = Queued(Len(channel)) /\ ~flag_overrun_after_gap
    /\ last_seen = 0 /\ Queued(Len(channel)) # 0 =>
         flag_overrun_after_gap /\ Queued(Len(channel)) < captured
    /\ reader = "connecting" => last_seen = 0

\* What is stashed goes on where the caller is, or is marked.
StashFollows ==
  /\ session = 1 /\ sample_buffer_after_gap => sample_buffer # <<>>
  /\ sample_buffer # <<>> /\ InHand # 0 =>
       IF sample_buffer[1].number # InHand + 1 THEN sample_buffer_after_gap
                                               ELSE session = 1 => ~sample_buffer_after_gap

BatchFollows ==
  /\ batch = <<>> => ~pending_overrun
  /\ batch # <<>> /\ previous # 0 =>
       IF FollowsGap(batch[1]) THEN pending_overrun ELSE session = 1 => ~pending_overrun

Inv ==
  /\ TypeOK /\ CallsAreInStep /\ ChannelIsWhole /\ HeldIsWhole /\ LabelsFit
  /\ ChunksAreFlagged /\ ReaderKnows /\ StashFollows /\ BatchFollows
-----------------------------------------------------------------------------
(***************************************************************************)
(* Sequences of samples.                                                   *)
(***************************************************************************)
\* The numbers of two samples of a run, counted from where a part of it starts.
LEMMA Apart ==
  ASSUME NEW a \in Int, NEW n \in Int, NEW i \in Int, NEW x, NEW y,
         x = a + ((n + i) - 1), y = a + ((n + 1) - 1)
  PROVE  x = y + (i - 1)
OBVIOUS

\* Packets are not empty, and declare numbers.
LEMMA PacketsAre ==
  ASSUME NEW p \in Packets
  PROVE  p.len \in Nat /\ p.len > 0 /\ p.freq \in Nat /\ p.rate \in Nat
BY PacketsAssumption

\* A sample has a number of the device's, and declares numbers.
LEMMA SamplesAre ==
  ASSUME NEW x \in Sample
  PROVE  x.number \in Nat /\ x.number > 0 /\ x.number <= MaxSamples /\ x.freq \in Nat /\ x.rate \in Nat
<1>1. x.number \in 1..MaxSamples /\ MaxSamples \in Nat
  BY PacketsAssumption DEF Sample
<1>2. PICK p \in Packets : x.freq = p.freq
  BY DEF Sample
<1>3. PICK q \in Packets : x.rate = q.rate
  BY DEF Sample
<1> QED
  BY <1>1, <1>2, <1>3, PacketsAre

\* So do those of a sequence, its last one included.
LEMMA SequencesAre ==
  ASSUME NEW s \in Seq(Sample)
  PROVE  /\ Len(s) \in Nat /\ (s = <<>> <=> Len(s) = 0)
         /\ \A i \in 1..Len(s) :
              /\ s[i] \in Sample /\ s[i].number \in Nat /\ s[i].number > 0
              /\ s[i].freq \in Nat /\ s[i].rate \in Nat
         /\ s # <<>> => LastOf(s) \in Nat /\ LastOf(s) > 0 /\ LastOf(s) <= MaxSamples
<1>1. Len(s) \in Nat /\ (s = <<>> <=> Len(s) = 0) /\ \A i \in 1..Len(s) : s[i] \in Sample
  OBVIOUS
<1>2. s # <<>> => Len(s) \in 1..Len(s)
  BY <1>1
<1> QED
  BY <1>1, <1>2, SamplesAre DEF LastOf

\* s is p and then t.
Cut(s, p, t) ==
  /\ s \in Seq(Sample) /\ p \in Seq(Sample) /\ t \in Seq(Sample)
  /\ Len(s) = Len(p) + Len(t)
  /\ \A i \in 1..Len(p) : s[i] = p[i]
  /\ \A i \in 1..Len(t) : s[Len(p) + i] = t[i]

\* A sequence is cut into the samples a read takes and those it leaves.
LEMMA SplitIsCut ==
  ASSUME NEW s \in Seq(Sample), NEW n \in 0..Len(s)
  PROVE  Cut(s, SubSeq(s, 1, n), SubSeq(s, n + 1, Len(s))) /\ Len(SubSeq(s, 1, n)) = n
<1>1. SubSeq(s, 1, n) \in Seq(Sample) /\ Len(SubSeq(s, 1, n)) = n
      /\ \A i \in 1..n : s[i] = SubSeq(s, 1, n)[i]
  OBVIOUS
<1>2. /\ SubSeq(s, n + 1, Len(s)) \in Seq(Sample) /\ Len(SubSeq(s, n + 1, Len(s))) = Len(s) - n
      /\ \A i \in 1..(Len(s) - n) : s[n + i] = SubSeq(s, n + 1, Len(s))[i]
  OBVIOUS
<1>3. Len(s) \in Nat /\ Len(s) = n + (Len(s) - n)
  OBVIOUS
<1> QED
  BY <1>1, <1>2, <1>3 DEF Cut

\* What is appended to a read makes one sequence with it.
LEMMA JoinIsCut ==
  ASSUME NEW p \in Seq(Sample), NEW t \in Seq(Sample)
  PROVE  Cut(p \o t, p, t)
BY ConcatProperties DEF Cut

\* What holds of each sample of s holds of those of p and t, and the other way round.
LEMMA CutEach ==
  ASSUME NEW s, NEW p, NEW t, Cut(s, p, t)
  PROVE  /\ \A n : UpTo(s, n) <=> UpTo(p, n) /\ UpTo(t, n)
         /\ \A f, r : Fits(s, f, r) <=> Fits(p, f, r) /\ Fits(t, f, r)
<1>1. /\ Len(p) \in Nat /\ Len(t) \in Nat /\ Len(s) = Len(p) + Len(t)
      /\ \A i \in 1..Len(p) : s[i] = p[i] /\ i \in 1..Len(s)
      /\ \A i \in 1..Len(t) : s[Len(p) + i] = t[i] /\ Len(p) + i \in 1..Len(s)
  BY DEF Cut
<1>2. \A i \in 1..Len(s) : \/ i \in 1..Len(p) /\ s[i] = p[i]
                           \/ i - Len(p) \in 1..Len(t) /\ s[i] = t[i - Len(p)]
  <2> TAKE i \in 1..Len(s)
  <2>1. CASE i <= Len(p)
    BY <1>1, <2>1
  <2>2. CASE i > Len(p)
    <3>1. i - Len(p) \in 1..Len(t) /\ Len(p) + (i - Len(p)) = i
      BY <1>1, <2>2
    <3> QED
      BY <1>1, <3>1
  <2> QED
    BY <1>1, <2>1, <2>2
<1>3. \A n : UpTo(s, n) <=> UpTo(p, n) /\ UpTo(t, n)
  BY <1>1, <1>2, Zenon DEF UpTo
<1>4. \A f, r : Fits(s, f, r) <=> Fits(p, f, r) /\ Fits(t, f, r)
  <2>1. ASSUME NEW f, NEW r, Fits(s, f, r) PROVE Fits(p, f, r) /\ Fits(t, f, r)
    BY <1>1, <2>1 DEF Fits
  <2>2. ASSUME NEW f, NEW r, Fits(p, f, r), Fits(t, f, r) PROVE Fits(s, f, r)
    <3> SUFFICES ASSUME NEW i \in 1..Len(s)
                 PROVE  /\ f = Undeclared => s[i].freq = Undeclared
                        /\ r = Undeclared => s[i].rate = Undeclared
                        /\ ~frequency_moved(f, s[i].freq) /\ ~rate_moved(r, s[i].rate)
      BY DEF Fits
    <3> QED
      BY <1>2, <2>2 DEF Fits
  <2> QED
    BY <2>1, <2>2
<1> QED
  BY <1>3, <1>4

\* A piece is one piece in each of its parts, and parts that go on from each other are
\* one piece.
LEMMA CutRuns ==
  ASSUME NEW s, NEW p, NEW t, Cut(s, p, t)
  PROVE  /\ p = <<>> => s = t
         /\ t = <<>> => s = p
         /\ p # <<>> => s # <<>> /\ s[1] = p[1]
         /\ t # <<>> => s # <<>> /\ LastOf(s) = LastOf(t)
         /\ Run(s) => /\ Run(p) /\ Run(t)
                      /\ p # <<>> /\ t # <<>> => t[1].number = LastOf(p) + 1
         /\ Run(p) /\ Run(t) /\ (p # <<>> /\ t # <<>> => t[1].number = LastOf(p) + 1) => Run(s)
<1>1. /\ Len(p) \in Nat /\ Len(t) \in Nat /\ Len(s) = Len(p) + Len(t)
      /\ s \in Seq(Sample) /\ p \in Seq(Sample) /\ t \in Seq(Sample)
      /\ \A i \in 1..Len(p) : s[i] = p[i] /\ i \in 1..Len(s)
      /\ \A i \in 1..Len(t) : s[Len(p) + i] = t[i] /\ Len(p) + i \in 1..Len(s)
  BY DEF Cut
<1>2. /\ s = <<>> <=> Len(s) = 0
      /\ p = <<>> <=> Len(p) = 0
      /\ t = <<>> <=> Len(t) = 0
  BY <1>1, SequencesAre
<1>3. /\ \A i \in 1..Len(s) : s[i].number \in Nat
      /\ \A i \in 1..Len(p) : p[i].number \in Nat
      /\ \A i \in 1..Len(t) : t[i].number \in Nat
  BY <1>1, SequencesAre
<1>4. p = <<>> => s = t
  <2> HAVE p = <<>>
  <2>1. Len(s) = Len(t) /\ \A i \in 1..Len(t) : s[i] = t[i]
    BY <1>1, <1>2
  <2> QED
    BY <1>1, <2>1, SeqEqual
<1>5. t = <<>> => s = p
  <2> HAVE t = <<>>
  <2>1. Len(s) = Len(p) /\ \A i \in 1..Len(p) : s[i] = p[i]
    BY <1>1, <1>2
  <2> QED
    BY <1>1, <2>1, SeqEqual
<1>6. p # <<>> => s # <<>> /\ s[1] = p[1]
  BY <1>1, <1>2
<1>7. t # <<>> => s # <<>> /\ LastOf(s) = LastOf(t)
  <2> HAVE t # <<>>
  <2>1. Len(t) \in 1..Len(t) /\ Len(s) # 0
    BY <1>1, <1>2
  <2> QED
    BY <1>1, <1>2, <2>1 DEF LastOf
<1>8. ASSUME Run(s)
      PROVE  Run(p) /\ Run(t) /\ (p # <<>> /\ t # <<>> => t[1].number = LastOf(p) + 1)
  <2>1. Run(p)
    <3> SUFFICES ASSUME NEW i \in 1..Len(p) PROVE p[i].number = p[1].number + (i - 1)
      BY DEF Run
    <3>1. 1 \in 1..Len(p)
      BY <1>1
    <3> QED
      BY <1>1, <1>8, <3>1 DEF Run
  <2>2. \A i \in 1..Len(t) : t[i].number = s[1].number + ((Len(p) + i) - 1)
    BY <1>1, <1>8 DEF Run
  <2>3. Run(t)
    <3> SUFFICES ASSUME NEW i \in 1..Len(t) PROVE t[i].number = t[1].number + (i - 1)
      BY DEF Run
    <3>1. 1 \in 1..Len(t) /\ 1 \in 1..Len(s)
      BY <1>1
    <3>2. /\ t[i].number = s[1].number + ((Len(p) + i) - 1)
          /\ t[1].number = s[1].number + ((Len(p) + 1) - 1)
      BY <2>2, <3>1
    <3>3. s[1].number \in Nat /\ t[1].number \in Nat /\ t[i].number \in Nat /\ Len(p) \in Nat /\ i \in Nat
      BY <1>1, <1>3, <3>1
    <3>4. PICK a, x, y, n : a = s[1].number /\ x = t[i].number /\ y = t[1].number /\ n = Len(p)
      OBVIOUS
    <3>5. a \in Int /\ n \in Int /\ i \in Int /\ x = a + ((n + i) - 1) /\ y = a + ((n + 1) - 1)
      BY <3>2, <3>3, <3>4
    <3>6. x = y + (i - 1)
      BY <3>5, Apart
    <3> QED
      BY <3>4, <3>6
  <2>4. ASSUME p # <<>>, t # <<>> PROVE t[1].number = LastOf(p) + 1
    <3>1. 1 \in 1..Len(t) /\ 1 \in 1..Len(s) /\ Len(p) \in 1..Len(p)
      BY <1>1, <1>2, <2>4
    <3>2. t[1].number = s[1].number + ((Len(p) + 1) - 1)
      BY <2>2, <3>1
    <3>3. LastOf(p) = s[1].number + (Len(p) - 1)
      BY <1>1, <1>8, <3>1 DEF Run, LastOf
    <3> QED
      BY <1>1, <1>3, <3>1, <3>2, <3>3
  <2> QED
    BY <2>1, <2>3, <2>4
<1>9. ASSUME Run(p), Run(t), p # <<>> /\ t # <<>> => t[1].number = LastOf(p) + 1
      PROVE  Run(s)
  <2>1. CASE p = <<>> \/ t = <<>>
    BY <1>4, <1>5, <1>9, <2>1
  <2>2. CASE p # <<>> /\ t # <<>>
    <3>1. 1 \in 1..Len(p) /\ 1 \in 1..Len(t) /\ Len(p) \in 1..Len(p)
      BY <1>1, <1>2, <2>2
    <3>2. s[1] = p[1] /\ LastOf(p) = p[1].number + (Len(p) - 1) /\ p[1].number \in Nat
      BY <1>1, <1>3, <1>9, <3>1 DEF Run, LastOf
    <3>3. t[1].number = LastOf(p) + 1
      BY <1>9, <2>2
    <3> SUFFICES ASSUME NEW i \in 1..Len(s) PROVE s[i].number = s[1].number + (i - 1)
      BY DEF Run
    <3>4. CASE i <= Len(p)
      BY <1>1, <1>9, <3>2, <3>4 DEF Run
    <3>5. CASE i > Len(p)
      <4>1. i - Len(p) \in 1..Len(t) /\ Len(p) + (i - Len(p)) = i
        BY <1>1, <3>5
      <4>2. s[i].number = t[1].number + ((i - Len(p)) - 1)
        BY <1>1, <1>9, <4>1 DEF Run
      <4>3. t[1].number = p[1].number + (Len(p) - 1) + 1
        BY <3>2, <3>3
      <4>4. Len(p) \in Nat /\ i \in Nat /\ p[1].number \in Nat
        BY <1>1, <3>2
      <4> QED
        BY <3>2, <4>2, <4>3, <4>4
    <3> QED
      BY <1>1, <3>4, <3>5
  <2> QED
    BY <2>1, <2>2
<1> QED
  BY <1>4, <1>5, <1>6, <1>7, <1>8, <1>9
-----------------------------------------------------------------------------
(***************************************************************************)
(* The state, and steps that leave most of it alone.                       *)
(***************************************************************************)
\* The channel holds chunks that are not empty.
LEMMA ChannelIs ==
  ASSUME Inv
  PROVE  /\ Len(channel) \in Nat
         /\ \A k \in 1..Len(channel) :
              /\ channel[k] \in Chunk /\ channel[k].samples \in Seq(Sample)
              /\ channel[k].samples # <<>> /\ channel[k].dropped \in BOOLEAN
              /\ channel[k].drops \in Nat
<1>1. channel \in Seq(Chunk) /\ \A k \in 1..Len(channel) : channel[k].samples # <<>>
  BY DEF Inv, ChannelIsWhole, IsWhole
<1>2. Len(channel) \in Nat /\ \A k \in 1..Len(channel) : channel[k] \in Chunk
  BY <1>1
<1>3. \A c \in Chunk : c.samples \in Seq(Sample) /\ c.dropped \in BOOLEAN /\ c.drops \in Nat
  BY DEF Chunk
<1> QED
  BY <1>1, <1>2, <1>3

\* Where the caller is, with the stash and the channel, is a sample's number or 0.
LEMMA PlacesAre ==
  ASSUME Inv
  PROVE  /\ InHand \in Nat /\ Pulled \in Nat /\ \A k \in 0..Len(channel) : Queued(k) \in Nat
         /\ batch # <<>> => InHand # 0
         /\ sample_buffer # <<>> => Pulled # 0
         /\ \A k \in 1..Len(channel) : Queued(k) # 0
<1>1. batch \in Seq(Sample) /\ sample_buffer \in Seq(Sample) /\ previous \in Nat
  BY DEF Inv, TypeOK
<1>2. InHand \in Nat /\ (batch # <<>> => InHand # 0)
  BY <1>1, SequencesAre DEF InHand
<1>3. Pulled \in Nat /\ (sample_buffer # <<>> => Pulled # 0)
  BY <1>1, <1>2, SequencesAre DEF Pulled
<1>4. \A k \in 1..Len(channel) : Queued(k) \in Nat /\ Queued(k) # 0
  BY ChannelIs, SequencesAre DEF Queued
<1>5. \A k \in 0..Len(channel) : Queued(k) \in Nat
  BY <1>3, <1>4, ChannelIs DEF Queued
<1> QED
  BY <1>2, <1>3, <1>4, <1>5

\* Samples that were captured stay captured.
LEMMA UpToMore ==
  ASSUME NEW s \in Seq(Sample), NEW m \in Nat, NEW n \in Nat, m <= n, UpTo(s, m)
  PROVE  UpTo(s, n)
<1>1. \A i \in 1..Len(s) : s[i].number \in Nat
  BY SequencesAre
<1> QED
  BY <1>1 DEF UpTo

\* The last of a piece is no later than any of it may be.
LEMMA LastIsUpTo ==
  ASSUME NEW s \in Seq(Sample), NEW n, UpTo(s, n), s # <<>>
  PROVE  LastOf(s) <= n
<1>1. Len(s) \in 1..Len(s)
  BY SequencesAre
<1> QED
  BY <1>1 DEF UpTo, LastOf

\* A step of the device or of the reader task.
CallerWaits ==
  /\ UNCHANGED <<receiver, stash_vars, read_vars, told_vars, previous, session>>
  /\ captured' \in Nat /\ captured <= captured'

\* What the caller holds stays whole, labelled and marked.
LEMMA CallerKeeps ==
  ASSUME Inv, CallerWaits, ~receiver => channel' = <<>>
  PROVE  /\ CallsAreInStep' /\ HeldIsWhole' /\ LabelsFit' /\ StashFollows' /\ BatchFollows'
         /\ InHand' = InHand /\ Pulled' = Pulled
<1>0. /\ UNCHANGED <<receiver, batch, pc, max_samples, sample_buffer, batch_freq_hz,
                     batch_rate_hz, sample_buffer_freq_hz, sample_buffer_rate_hz, previous, session,
                     sample_buffer_after_gap, last_read_frequency_hz, last_read_sample_rate_hz,
                     pending_overrun>>
      /\ captured \in Nat /\ captured' \in Nat /\ captured <= captured'
  BY PacketsAssumption DEF CallerWaits, stash_vars, read_vars, told_vars, Inv, TypeOK
<1>1. CallsAreInStep'
  BY <1>0 DEF Inv, CallsAreInStep
<1>2. HeldIsWhole'
  <2>1. batch \in Seq(Sample) /\ sample_buffer \in Seq(Sample)
    BY DEF Inv, TypeOK
  <2>2. UpTo(batch, captured') /\ UpTo(sample_buffer, captured')
    BY <1>0, <2>1, UpToMore DEF Inv, HeldIsWhole
  <2> QED
    BY <1>0, <2>2 DEF Inv, HeldIsWhole, UpTo, Run
<1>3. LabelsFit'
  BY <1>0 DEF Inv, LabelsFit, Fits, frequency_moved, rate_moved
<1>4. InHand' = InHand /\ Pulled' = Pulled
  BY <1>0 DEF InHand, Pulled
<1>5. StashFollows'
  BY <1>0, <1>4 DEF Inv, StashFollows
<1>6. BatchFollows'
  BY <1>0 DEF Inv, BatchFollows, FollowsGap
<1> QED
  BY <1>1, <1>2, <1>3, <1>4, <1>5, <1>6

\* Such a step that puts nothing on the channel.
ReaderOnly == CallerWaits /\ UNCHANGED channel

\* So does all of the channel.
LEMMA ReaderLeavesCaller ==
  ASSUME Inv, ReaderOnly
  PROVE  /\ CallsAreInStep' /\ ChannelIsWhole' /\ HeldIsWhole' /\ LabelsFit' /\ ChunksAreFlagged'
         /\ StashFollows' /\ BatchFollows'
         /\ \A k \in 0..Len(channel) : Queued(k)' = Queued(k)
<1>0. CallerWaits /\ UNCHANGED channel /\ captured \in Nat /\ captured' \in Nat /\ captured <= captured'
  BY PacketsAssumption DEF ReaderOnly, CallerWaits, Inv, TypeOK
<1>1. /\ CallsAreInStep' /\ HeldIsWhole' /\ LabelsFit' /\ StashFollows' /\ BatchFollows'
      /\ InHand' = InHand /\ Pulled' = Pulled
  <2>1. ~receiver => channel' = <<>>
    BY <1>0 DEF Inv, CallsAreInStep
  <2> QED
    BY <1>0, <2>1, CallerKeeps
<1>2. ChannelIsWhole'
  <2>1. \A k \in 1..Len(channel) : UpTo(channel[k].samples, captured')
    BY <1>0, ChannelIs, UpToMore DEF Inv, ChannelIsWhole, IsWhole
  <2> QED
    BY <1>0, <2>1 DEF Inv, ChannelIsWhole, IsWhole, Run, Uniform, UpTo
<1>3. \A k \in 0..Len(channel) : Queued(k)' = Queued(k)
  BY <1>0, <1>1 DEF Queued
<1>4. ChunksAreFlagged'
  <2>1. \A k \in 1..Len(channel) : Queued(k - 1)' = Queued(k - 1)
    BY <1>3, ChannelIs
  <2> QED
    BY <1>0, <2>1 DEF Inv, ChunksAreFlagged
<1> QED
  BY <1>1, <1>2, <1>3, <1>4

\* new(): nothing is held, and the reader task has delivered nothing.
LEMMA InitGivesInv == Init => Inv
<1> SUFFICES ASSUME Init PROVE Inv
  OBVIOUS
<1> USE PacketsAssumption DEF Init
<1>1. TypeOK
  <2>1. 0 \in 0..MaxReconnects /\ 0 \in 0..(MaxErrors - 1) /\ 1 \in 1..MaxSessions
    OBVIOUS
  <2>2. Len(channel) <= ChannelDepth /\ DOMAIN channel = {}
    OBVIOUS
  <2>3. captured \in 0..MaxSamples /\ last_seen \in 0..captured /\ previous \in 0..captured
    OBVIOUS
  <2>4. Len(batch) <= max_samples /\ batch \in Seq(Sample) /\ sample_buffer \in Seq(Sample)
    OBVIOUS
  <2> QED
    BY <2>1, <2>2, <2>3, <2>4 DEF TypeOK
<1>2. CallsAreInStep
  BY DEF CallsAreInStep
<1>3. ChannelIsWhole /\ HeldIsWhole
  BY DEF ChannelIsWhole, HeldIsWhole, Run, UpTo
<1>4. LabelsFit
  BY DEF LabelsFit, Fits
<1>5. Queued(Len(channel)) = 0
  BY DEF Queued, Pulled, InHand
<1>6. ChunksAreFlagged /\ ReaderKnows
  BY <1>5 DEF ChunksAreFlagged, ReaderKnows
<1>7. StashFollows /\ BatchFollows
  BY DEF StashFollows, BatchFollows
<1> QED
  BY <1>1, <1>2, <1>3, <1>4, <1>6, <1>7 DEF Inv

\* start_stream succeeds: what the reader remembers is what it remembered.
LEMMA StreamStartsStep ==
  ASSUME Inv, StreamStarts
  PROVE  Inv'
<1>1. ReaderOnly
  BY PacketsAssumption DEF Inv, TypeOK, StreamStarts, ReaderOnly, CallerWaits
<1>2. TypeOK'
  BY PacketsAssumption DEF Inv, TypeOK, StreamStarts, stash_vars, read_vars, told_vars
<1>3. ReaderKnows'
  BY ReaderLeavesCaller, <1>1, ChannelIs DEF Inv, ReaderKnows, StreamStarts
<1> QED
  BY <1>1, <1>2, <1>3, ReaderLeavesCaller DEF Inv

\* start_stream fails: the next chunk is marked if anything was delivered before.
LEMMA StreamFailsToStartStep ==
  ASSUME Inv, StreamFailsToStart
  PROVE  Inv'
<1>1. ReaderOnly
  BY PacketsAssumption DEF Inv, TypeOK, StreamFailsToStart, ReaderOnly, CallerWaits
<1>2. TypeOK'
  BY PacketsAssumption DEF Inv, TypeOK, StreamFailsToStart, stash_vars, read_vars, told_vars, MayReconnect
<1>3. ReaderKnows'
  BY ReaderLeavesCaller, <1>1, ChannelIs DEF Inv, ReaderKnows, StreamFailsToStart
<1> QED
  BY <1>1, <1>2, <1>3, ReaderLeavesCaller DEF Inv

\* The reader has put nothing on the channel later than what the device captured.
LEMMA QueuedIsCaptured ==
  ASSUME Inv
  PROVE  captured \in Nat /\ \A k \in 0..Len(channel) : Queued(k) <= captured
<1>0. /\ captured \in Nat /\ previous \in Nat /\ previous <= captured
      /\ batch \in Seq(Sample) /\ sample_buffer \in Seq(Sample)
      /\ UpTo(batch, captured) /\ UpTo(sample_buffer, captured)
      /\ \A k \in 1..Len(channel) : UpTo(channel[k].samples, captured)
  <2>1. /\ captured \in 0..MaxSamples /\ previous \in 0..captured
        /\ batch \in Seq(Sample) /\ sample_buffer \in Seq(Sample)
    BY DEF Inv, TypeOK
  <2>2. captured \in Nat /\ previous \in Nat /\ previous <= captured
    BY <2>1, PacketsAssumption
  <2>3. UpTo(batch, captured) /\ UpTo(sample_buffer, captured)
    BY DEF Inv, HeldIsWhole
  <2>4. \A k \in 1..Len(channel) : UpTo(channel[k].samples, captured)
    BY DEF Inv, ChannelIsWhole, IsWhole
  <2> QED
    BY <2>1, <2>2, <2>3, <2>4
<1>1. InHand <= captured
  BY <1>0, LastIsUpTo DEF InHand
<1>2. Pulled <= captured
  BY <1>0, <1>1, LastIsUpTo DEF Pulled
<1>3. \A k \in 1..Len(channel) : LastOf(channel[k].samples) <= captured
  BY <1>0, ChannelIs, LastIsUpTo
<1> QED
  BY <1>0, <1>2, <1>3, ChannelIs DEF Queued

\* Samples are lost: the detector remembers an older sample than the last captured.
LEMMA LossStep ==
  ASSUME Inv, PacketIsLost \/ PacketFailsToParse
  PROVE  Inv'
<1>0. UNCHANGED <<reader, attempts, flag_overrun_after_gap, delivered_any, last_seen, drops>>
      /\ reader = "streaming" /\ captured < MaxSamples /\ captured' = captured + 1
      /\ consecutive_errors' \in 0..(MaxErrors - 1)
      /\ UNCHANGED <<receiver, channel, stash_vars, read_vars, told_vars, previous, session>>
  <2>1. consecutive_errors \in 0..(MaxErrors - 1)
    BY DEF Inv, TypeOK
  <2>2. CASE PacketIsLost
    BY <2>1, <2>2 DEF PacketIsLost, reader_vars
  <2>3. CASE PacketFailsToParse
    <3>1. consecutive_errors' \in 0..(MaxErrors - 1)
      BY <2>1, <2>3, PacketsAssumption DEF PacketFailsToParse
    <3> QED
      BY <2>3, <3>1 DEF PacketFailsToParse
  <2> QED
    BY <2>2, <2>3
<1>a. captured \in 0..MaxSamples /\ captured' \in 0..MaxSamples /\ captured <= captured'
      /\ last_seen \in 0..captured /\ previous \in 0..captured
  <2>1. captured \in 0..MaxSamples /\ last_seen \in 0..captured /\ previous \in 0..captured
    BY DEF Inv, TypeOK
  <2> QED
    BY <1>0, <2>1, PacketsAssumption
<1>1. ReaderOnly
  BY <1>0, <1>a DEF ReaderOnly, CallerWaits
<1>b. last_seen' \in 0..captured' /\ previous' \in 0..captured'
  BY <1>0, <1>a
<1>2. TypeOK'
  BY <1>0, <1>a, <1>b DEF Inv, TypeOK, stash_vars, read_vars, told_vars
<1>3. ReaderKnows'
  <2>1. Queued(Len(channel))' = Queued(Len(channel)) /\ Queued(Len(channel)) \in Nat /\ captured \in Nat
    BY <1>1, ReaderLeavesCaller, PlacesAre, ChannelIs, QueuedIsCaptured, <1>0
  <2> QED
    BY <1>0, <2>1 DEF Inv, ReaderKnows
<1> QED
  BY <1>1, <1>2, <1>3, ReaderLeavesCaller DEF Inv

\* The connection is lost: the detector is reset, and the next chunk is marked.
LEMMA StreamEndsStep ==
  ASSUME Inv, NEW healthy \in BOOLEAN, StreamEnds(healthy)
  PROVE  Inv'
<1>0. /\ UNCHANGED <<delivered_any, drops, consecutive_errors>>
      /\ reader = "streaming" /\ captured < MaxSamples /\ captured' = captured + 1
      /\ attempts' \in 0..MaxReconnects
      /\ \/ reader' = "connecting" /\ last_seen' = 0 /\ flag_overrun_after_gap' = TRUE
         \/ reader' = "ended" /\ UNCHANGED <<last_seen, flag_overrun_after_gap>>
      /\ UNCHANGED <<receiver, channel, stash_vars, read_vars, told_vars, previous, session>>
  BY PacketsAssumption DEF Inv, TypeOK, StreamEnds, MayReconnect
<1>a. captured \in 0..MaxSamples /\ captured' \in 0..MaxSamples /\ captured <= captured'
      /\ last_seen \in 0..captured /\ previous \in 0..captured
  <2>1. captured \in 0..MaxSamples /\ last_seen \in 0..captured /\ previous \in 0..captured
    BY DEF Inv, TypeOK
  <2> QED
    BY <1>0, <2>1, PacketsAssumption
<1>1. ReaderOnly
  BY <1>0, <1>a DEF ReaderOnly, CallerWaits
<1>b. last_seen' \in 0..captured' /\ previous' \in 0..captured'
  BY <1>0, <1>a
<1>2. TypeOK'
  BY <1>0, <1>a, <1>b DEF Inv, TypeOK, stash_vars, read_vars, told_vars
<1>3. ReaderKnows'
  <2>1. /\ Queued(Len(channel))' = Queued(Len(channel)) /\ Queued(Len(channel)) \in Nat /\ captured \in Nat
        /\ Queued(Len(channel)) <= captured
    BY <1>1, ReaderLeavesCaller, PlacesAre, ChannelIs, QueuedIsCaptured, <1>0
  <2> QED
    BY <1>0, <2>1 DEF Inv, ReaderKnows
<1> QED
  BY <1>1, <1>2, <1>3, ReaderLeavesCaller DEF Inv

\* A chunk is put on the channel: it is marked exactly if it does not go on where the one
\* before it, or the caller, is.
LEMMA PacketArrivesStep ==
  ASSUME Inv, NEW p \in Packets, PacketArrives(p)
  PROVE  Inv'
<1> DEFINE samples == [i \in 1..p.len |-> [number |-> captured + i, freq |-> p.freq, rate |-> p.rate]]
           count == IF GapSeen THEN drops + 1 ELSE drops
           new == [samples |-> samples, drops |-> count, dropped |-> GapSeen \/ flag_overrun_after_gap]
<1> PICK last \in Nat : last = Len(channel)
  BY ChannelIs
<1>0. /\ reader = "streaming" /\ Len(channel) < ChannelDepth /\ captured + p.len <= MaxSamples
      /\ captured' = captured + p.len /\ last_seen' = captured'
      /\ drops' = count /\ channel' = Append(channel, new)
      /\ flag_overrun_after_gap' = (GapSeen /\ flag_overrun_after_gap)
      /\ delivered_any' = TRUE /\ consecutive_errors' = 0
      /\ UNCHANGED <<reader, attempts, receiver, stash_vars, read_vars, told_vars, previous, session>>
  BY DEF PacketArrives
<1>1. /\ p.len \in Nat /\ p.len > 0 /\ p.freq \in Nat /\ p.rate \in Nat
      /\ captured \in Nat /\ last_seen \in Nat /\ MaxSamples \in Nat /\ last \in Nat
      /\ last_seen <= captured /\ drops \in Nat /\ previous \in 0..captured
  BY PacketsAre, ChannelIs, PacketsAssumption DEF Inv, TypeOK
<1>2. samples \in Seq(Sample)
  <2>1. ASSUME NEW i \in 1..p.len
        PROVE  [number |-> captured + i, freq |-> p.freq, rate |-> p.rate] \in Sample
    <3>1. captured + i \in 1..MaxSamples
      BY <1>0, <1>1
    <3> QED
      BY <3>1 DEF Sample
  <2> QED
    BY <1>1, <2>1
<1>3. /\ Len(samples) = p.len /\ samples # <<>>
      /\ \A i \in 1..p.len : samples[i].number = captured + i /\ samples[i].freq = p.freq
                             /\ samples[i].rate = p.rate
  BY <1>1
<1> HIDE DEF samples
<1>4. /\ samples[1].number = captured + 1 /\ LastOf(samples) = captured'
      /\ Run(samples) /\ Uniform(samples) /\ UpTo(samples, captured')
  <2>1. 1 \in 1..p.len /\ p.len \in 1..p.len
    BY <1>1
  <2>2. samples[1].number = captured + 1 /\ LastOf(samples) = captured'
    BY <1>0, <1>3, <2>1 DEF LastOf
  <2>3. Run(samples)
    <3> SUFFICES ASSUME NEW i \in 1..p.len PROVE samples[i].number = samples[1].number + (i - 1)
      BY <1>3 DEF Run
    <3>1. samples[i].number = captured + i
      BY <1>3
    <3> QED
      BY <1>1, <2>2, <3>1
  <2>4. Uniform(samples)
    BY <1>3, <2>1 DEF Uniform
  <2>5. UpTo(samples, captured')
    BY <1>0, <1>1, <1>3 DEF UpTo
  <2> QED
    BY <2>2, <2>3, <2>4, <2>5
<1>5. new \in Chunk /\ new.samples = samples /\ new.dropped = (GapSeen \/ flag_overrun_after_gap)
  <2>1. count \in Nat /\ (GapSeen \/ flag_overrun_after_gap) \in BOOLEAN
    BY <1>1
  <2> QED
    BY <1>2, <2>1 DEF Chunk
<1> HIDE DEF new, count
<1>6. /\ channel' \in Seq(Chunk) /\ Len(channel') = last + 1
      /\ \A k \in 1..last : channel'[k] = channel[k]
      /\ channel'[last + 1] = new
  BY <1>0, <1>1, <1>5, ChannelIs DEF Inv, ChannelIsWhole
<1>7. CallerWaits /\ receiver
  <2>1. captured' \in Nat /\ captured <= captured'
    BY <1>0, <1>1
  <2>2. receiver
    BY <1>0 DEF Inv, TypeOK
  <2> QED
    BY <1>0, <2>1, <2>2 DEF CallerWaits
<1>8. /\ CallsAreInStep' /\ HeldIsWhole' /\ LabelsFit' /\ StashFollows' /\ BatchFollows'
      /\ InHand' = InHand /\ Pulled' = Pulled
  BY <1>7, CallerKeeps
<1>9. /\ \A k \in 0..last : Queued(k)' = Queued(k)
      /\ Queued(last + 1)' = captured'
  BY <1>1, <1>4, <1>5, <1>6, <1>8 DEF Queued
<1>10. ChannelIsWhole'
  <2>1. ASSUME NEW k \in 1..last PROVE IsWhole(channel[k])'
    <3>1. channel[k]' = channel[k] /\ channel[k].samples \in Seq(Sample) /\ IsWhole(channel[k])
      BY <1>6, ChannelIs DEF Inv, ChannelIsWhole
    <3>2. UpTo(channel[k].samples, captured')
      BY <1>0, <1>1, <3>1, UpToMore DEF IsWhole
    <3> QED
      BY <3>1, <3>2 DEF IsWhole, Run, Uniform, UpTo
  <2>2. IsWhole(channel[last + 1])'
    <3>1. channel[last + 1]' = new
      BY <1>6
    <3> QED
      BY <1>3, <1>4, <1>5, <3>1 DEF IsWhole, Run, Uniform, UpTo
  <2>3. \A k \in 1..(last + 1) : IsWhole(channel[k])'
    BY <1>1, <2>1, <2>2
  <2> QED
    BY <1>6, <2>3 DEF ChannelIsWhole
<1>11. Queued(last) # 0 => (new.dropped <=> Queued(last) # captured)
  <2> USE DEF Inv, ReaderKnows, GapSeen
  <2>1. Queued(last) \in Nat /\ Queued(last) <= captured
    BY <1>1, PlacesAre, QueuedIsCaptured
  <2>2. CASE last_seen # 0
    <3>1. Queued(last) = last_seen /\ ~flag_overrun_after_gap
      BY <1>0, <2>2
    <3>2. new.dropped <=> last_seen # captured
      BY <1>5, <2>2, <3>1
    <3> QED
      BY <3>1, <3>2
  <2>3. CASE last_seen = 0
    <3>1. Queued(last) # 0 => flag_overrun_after_gap /\ Queued(last) < captured
      BY <1>0, <2>3
    <3>2. Queued(last) # 0 => new.dropped = TRUE
      BY <1>5, <3>1
    <3> QED
      BY <1>1, <2>1, <3>1, <3>2
  <2> QED
    BY <2>2, <2>3
<1>12. ChunksAreFlagged'
  <2>1. ASSUME NEW k \in 1..last, Queued(k - 1)' # 0
        PROVE  channel[k].dropped' <=> channel[k].samples[1].number' # Queued(k - 1)' + 1
    <3>1. k - 1 \in 0..last
      BY <1>1
    <3>2. channel[k]' = channel[k] /\ Queued(k - 1)' = Queued(k - 1)
      BY <1>6, <1>9, <3>1
    <3> QED
      BY <2>1, <3>2 DEF Inv, ChunksAreFlagged
  <2>2. ASSUME Queued(last)' # 0
        PROVE  new.dropped <=> new.samples[1].number # Queued(last)' + 1
    <3>1. Queued(last)' = Queued(last) /\ Queued(last) \in Nat
      BY <1>1, <1>9, PlacesAre
    <3>2. new.samples[1].number = captured + 1
      BY <1>4, <1>5
    <3> QED
      BY <1>1, <1>11, <2>2, <3>1, <3>2
  <2>3. ASSUME NEW k \in 1..(last + 1), Queued(k - 1)' # 0
        PROVE  channel[k].dropped' <=> channel[k].samples[1].number' # Queued(k - 1)' + 1
    <3>1. CASE k \in 1..last
      BY <2>1, <2>3, <3>1
    <3>2. CASE k = last + 1
      <4>1. channel[k]' = new /\ k - 1 = last
        BY <1>1, <1>6, <3>2
      <4> QED
        BY <2>2, <2>3, <4>1
    <3> QED
      BY <1>1, <3>1, <3>2
  <2> QED
    BY <1>6, <2>3 DEF ChunksAreFlagged
<1>13. ReaderKnows'
  <2>1. Queued(Len(channel))' = captured' /\ captured' \in Nat /\ captured' # 0
    BY <1>0, <1>1, <1>6, <1>9
  <2>2. ~flag_overrun_after_gap'
    BY <1>0, <1>1 DEF Inv, ReaderKnows, GapSeen
  <2> QED
    BY <1>0, <2>1, <2>2 DEF ReaderKnows
<1>14. TypeOK'
  <2>1. captured' \in 0..MaxSamples /\ previous' \in 0..captured' /\ last_seen' \in 0..captured'
    BY <1>0, <1>1
  <2>2. Len(channel') <= ChannelDepth /\ \A i \in DOMAIN channel' : channel'[i] \in Chunk
    BY <1>0, <1>1, <1>6, PacketsAssumption
  <2>3. flag_overrun_after_gap' \in BOOLEAN /\ delivered_any' \in BOOLEAN /\ drops' \in Nat
        /\ consecutive_errors' \in 0..(MaxErrors - 1)
    <3>1. flag_overrun_after_gap' \in BOOLEAN
      BY <1>0, Zenon DEF GapSeen, Inv, TypeOK
    <3>2. delivered_any' \in BOOLEAN
      BY <1>0
    <3>3. drops' \in Nat
      BY <1>0, <1>1 DEF count
    <3>4. consecutive_errors' \in 0..(MaxErrors - 1)
      BY <1>0, PacketsAssumption
    <3> QED
      BY <3>1, <3>2, <3>3, <3>4
  <2> QED
    BY <1>0, <2>1, <2>2, <2>3 DEF Inv, TypeOK, stash_vars, read_vars, told_vars, Chunk
<1> QED
  BY <1>8, <1>10, <1>12, <1>13, <1>14 DEF Inv
-----------------------------------------------------------------------------
(***************************************************************************)
(* Steps of the caller.                                                    *)
(***************************************************************************)
\* The caller takes nothing off the channel, and has what it had, wherever it keeps it.
LEMMA CallerLeavesReader ==
  ASSUME Inv, UNCHANGED <<reader_vars, channel, captured>>, Pulled' = Pulled
  PROVE  ChannelIsWhole' /\ ChunksAreFlagged' /\ ReaderKnows'
<1>0. UNCHANGED <<reader, delivered_any, last_seen, flag_overrun_after_gap, channel, captured>>
  BY DEF reader_vars
<1>1. \A k \in 0..Len(channel) : Queued(k)' = Queued(k)
  BY <1>0 DEF Queued
<1>2. ChannelIsWhole'
  BY <1>0 DEF Inv, ChannelIsWhole, IsWhole, Run, Uniform, UpTo
<1>3. \A k \in 1..Len(channel) : Queued(k - 1)' = Queued(k - 1)
  BY <1>1, ChannelIs
<1>4. ChunksAreFlagged'
  BY <1>0, <1>3 DEF Inv, ChunksAreFlagged
<1>5. Len(channel) \in Nat /\ Len(channel)' = Len(channel)
      /\ Queued(Len(channel))' = Queued(Len(channel))
  BY <1>0, <1>1, ChannelIs DEF Queued
<1>6. ReaderKnows'
  BY <1>0, <1>5 DEF Inv, ReaderKnows
<1> QED
  BY <1>2, <1>4, <1>6

\* It takes the first chunk, and the last sample of it is then the last it has.
LEMMA HeadLeaves ==
  ASSUME Inv, UNCHANGED <<reader_vars, captured>>, channel # <<>>, channel' = Tail(channel),
         Pulled' = LastOf(channel[1].samples)
  PROVE  /\ ChannelIsWhole' /\ ChunksAreFlagged' /\ ReaderKnows'
         /\ Len(channel') <= Len(channel) /\ \A k \in 1..Len(channel') : channel'[k] \in Chunk
<1>0. UNCHANGED <<reader, delivered_any, last_seen, flag_overrun_after_gap, captured>>
  BY DEF reader_vars
<1>1. PICK n \in Nat : Len(channel) = n + 1
  <2>1. Len(channel) \in Nat /\ Len(channel) # 0
    BY ChannelIs DEF Inv, ChannelIsWhole
  <2> QED
    BY <2>1
<1>2. /\ channel' \in Seq(Chunk) /\ Len(channel') = n
      /\ \A k \in 1..n : channel'[k] = channel[k + 1]
  BY <1>1 DEF Inv, ChannelIsWhole
<1>3. \A k \in 0..n : Queued(k)' = Queued(k + 1) /\ k + 1 \in 1..Len(channel)
  BY <1>1, <1>2 DEF Queued
<1>4. ChannelIsWhole'
  <2>1. ASSUME NEW k \in 1..n PROVE IsWhole(channel[k])'
    <3>1. channel[k]' = channel[k + 1] /\ IsWhole(channel[k + 1])
      BY <1>1, <1>2 DEF Inv, ChannelIsWhole
    <3> QED
      BY <1>0, <3>1 DEF IsWhole, Run, Uniform, UpTo
  <2> QED
    BY <1>2, <2>1 DEF ChannelIsWhole
<1>5. ChunksAreFlagged'
  <2>1. ASSUME NEW k \in 1..n, Queued(k - 1)' # 0
        PROVE  channel[k].dropped' <=> channel[k].samples[1].number' # Queued(k - 1)' + 1
    <3>1. k - 1 \in 0..n /\ (k - 1) + 1 = k /\ k + 1 \in 1..Len(channel) /\ (k + 1) - 1 = k
      BY <1>1
    <3>2. channel[k]' = channel[k + 1] /\ Queued(k - 1)' = Queued(k)
      BY <1>2, <1>3, <3>1
    <3>3. Queued((k + 1) - 1) # 0 =>
            (channel[k + 1].dropped <=> channel[k + 1].samples[1].number # Queued((k + 1) - 1) + 1)
      BY <3>1 DEF Inv, ChunksAreFlagged
    <3> QED
      BY <2>1, <3>1, <3>2, <3>3
  <2> QED
    BY <1>2, <2>1 DEF ChunksAreFlagged
<1>6. ReaderKnows'
  <2>1. Queued(Len(channel))' = Queued(Len(channel))
    BY <1>1, <1>2, <1>3
  <2> QED
    BY <1>0, <2>1 DEF Inv, ReaderKnows
<1>7. Len(channel') <= Len(channel)
  BY <1>1, <1>2
<1>8. \A k \in 1..Len(channel') : channel'[k] \in Chunk
  BY <1>2
<1> QED
  BY <1>4, <1>5, <1>6, <1>7, <1>8

\* A read in progress, of what was pulled so far: the last of it is where it is.
LEMMA PulledIs ==
  ASSUME Inv
  PROVE  /\ batch = <<>> => InHand = previous
         /\ batch # <<>> => InHand = LastOf(batch)
         /\ sample_buffer = <<>> => Pulled = InHand
         /\ sample_buffer # <<>> => Pulled = LastOf(sample_buffer)
BY DEF InHand, Pulled

\* A read starts from the stash: the stash's mark goes to it, with its first sample.
LEMMA ReadBeginsStep ==
  ASSUME Inv, NEW wanted \in ReadSizes, ReadBegins(wanted)
  PROVE  Inv'
<1> DEFINE m == IF Len(sample_buffer) < wanted THEN Len(sample_buffer) ELSE wanted
<1>0. /\ pc = "idle" /\ receiver
      /\ pc' = "reading" /\ max_samples' = wanted
      /\ batch' = SubSeq(sample_buffer, 1, m)
      /\ sample_buffer' = SubSeq(sample_buffer, m + 1, Len(sample_buffer))
      /\ batch_freq_hz' = IF m > 0 THEN sample_buffer_freq_hz ELSE Undeclared
      /\ batch_rate_hz' = IF m > 0 THEN sample_buffer_rate_hz ELSE Undeclared
      /\ pending_overrun' = (pending_overrun \/ (m > 0 /\ sample_buffer_after_gap))
      /\ sample_buffer_after_gap' = (m = 0 /\ sample_buffer_after_gap)
      /\ UNCHANGED <<reader_vars, receiver, channel, sample_buffer_freq_hz,
                     sample_buffer_rate_hz, cumulative_drops, last_read_frequency_hz,
                     last_read_sample_rate_hz, captured, previous, session>>
  BY DEF ReadBegins, OverrunOfStash, AfterGapLeft
<1>1. sample_buffer \in Seq(Sample) /\ Len(sample_buffer) \in Nat /\ wanted \in Nat /\ wanted > 0
  BY PacketsAssumption DEF Inv, TypeOK
<1>2. m \in 0..Len(sample_buffer) /\ m <= wanted /\ (m < wanted => m = Len(sample_buffer))
      /\ (m = 0 => Len(sample_buffer) = 0)
  BY <1>1
<1>3. PICK n \in 0..Len(sample_buffer) : n = m
  BY <1>2
<1> HIDE DEF m
<1>4. Cut(sample_buffer, batch', sample_buffer') /\ Len(batch') = n
  BY <1>0, <1>1, <1>3, SplitIsCut
<1>5. /\ batch = <<>> /\ ~pending_overrun /\ Run(sample_buffer) /\ UpTo(sample_buffer, captured)
      /\ Fits(sample_buffer, sample_buffer_freq_hz, sample_buffer_rate_hz)
  BY <1>0 DEF Inv, CallsAreInStep, HeldIsWhole, LabelsFit, BatchFollows
<1>6. PICK b, r : b = batch' /\ r = sample_buffer'
  OBVIOUS
<1>7. /\ Cut(sample_buffer, b, r) /\ b \in Seq(Sample) /\ r \in Seq(Sample)
      /\ Len(b) = n /\ Len(sample_buffer) = n + Len(r) /\ Len(r) \in Nat
      /\ (b = <<>> <=> n = 0) /\ (r = <<>> <=> Len(r) = 0) /\ (sample_buffer = <<>> <=> Len(sample_buffer) = 0)
  BY <1>1, <1>4, <1>6, SequencesAre DEF Cut
<1>8. /\ UpTo(b, captured) /\ UpTo(r, captured)
      /\ Fits(b, sample_buffer_freq_hz, sample_buffer_rate_hz)
      /\ Fits(r, sample_buffer_freq_hz, sample_buffer_rate_hz)
  BY <1>5, <1>7, CutEach
<1>9. /\ Run(b) /\ Run(r)
      /\ b = <<>> => sample_buffer = r
      /\ r = <<>> => sample_buffer = b
      /\ b # <<>> => sample_buffer # <<>> /\ sample_buffer[1] = b[1]
      /\ r # <<>> => sample_buffer # <<>> /\ LastOf(sample_buffer) = LastOf(r)
      /\ b # <<>> /\ r # <<>> => r[1].number = LastOf(b) + 1
  BY <1>5, <1>7, CutRuns
<1>10. /\ InHand' = IF b # <<>> THEN LastOf(b) ELSE previous
       /\ Pulled' = IF r # <<>> THEN LastOf(r) ELSE InHand'
  BY <1>0, <1>6 DEF InHand, Pulled, LastOf
<1>11. Pulled' = Pulled
  BY <1>5, <1>7, <1>9, <1>10, PulledIs
<1>12. ChannelIsWhole' /\ ChunksAreFlagged' /\ ReaderKnows'
  BY <1>0, <1>11, CallerLeavesReader
<1>13. TypeOK'
  <2>1. /\ Len(b) <= wanted /\ batch_freq_hz' \in Nat /\ batch_rate_hz' \in Nat
        /\ pending_overrun' \in BOOLEAN /\ sample_buffer_after_gap' \in BOOLEAN
    BY <1>0, <1>2, <1>3, <1>7 DEF Inv, TypeOK, Undeclared
  <2> QED
    BY <1>0, <1>6, <1>7, <2>1 DEF Inv, TypeOK, reader_vars
<1>14. CallsAreInStep'
  <2>1. Len(b) < wanted => r = <<>>
    BY <1>1, <1>2, <1>3, <1>7
  <2>2. b = <<>> => batch_freq_hz' = Undeclared /\ batch_rate_hz' = Undeclared
    BY <1>0, <1>3, <1>7
  <2>3. Len(batch)' = Len(b) /\ max_samples' = wanted /\ wanted # 0
    BY <1>0, <1>1, <1>6
  <2>4. receiver /\ receiver' /\ pc' = "reading"
    BY <1>0
  <2> QED
    BY <1>6, <2>1, <2>2, <2>3, <2>4 DEF CallsAreInStep
<1>15. HeldIsWhole'
  BY <1>0, <1>6, <1>8, <1>9 DEF HeldIsWhole, Run, UpTo
<1>16. LabelsFit'
  <2>1. Fits(b, batch_freq_hz', batch_rate_hz')
    <3>1. CASE n > 0
      BY <1>0, <1>3, <1>8, <3>1
    <3>2. CASE n = 0
      BY <1>7, <3>2 DEF Fits
    <3> QED
      BY <3>1, <3>2
  <2>2. Fits(batch', batch_freq_hz', batch_rate_hz')
        /\ Fits(sample_buffer', sample_buffer_freq_hz', sample_buffer_rate_hz')
    BY <1>0, <1>6, <1>8, <2>1
  <2> QED
    BY <1>0, <2>2 DEF LabelsFit, Fits, frequency_moved, rate_moved
<1>17. StashFollows'
  <2>1. CASE n = 0
    <3>1. sample_buffer = <<>> /\ r = <<>>
      BY <1>2, <1>3, <1>7, <2>1
    <3>2. session = 1 => ~sample_buffer_after_gap
      BY <3>1 DEF Inv, StashFollows
    <3> QED
      BY <1>0, <1>6, <3>1, <3>2 DEF StashFollows
  <2>2. CASE n > 0
    <3>a. m # 0
      BY <1>3, <2>2
    <3>1. ~sample_buffer_after_gap'
      BY <1>0, <3>a, Zenon
    <3>2. r # <<>> => r[1].number = InHand' + 1
      BY <1>7, <1>9, <1>10, <2>2
    <3> QED
      BY <1>6, <3>1, <3>2 DEF StashFollows
  <2> QED
    BY <2>1, <2>2
<1>18. BatchFollows'
  <2>1. CASE n = 0
    <3>a. ~(m > 0) /\ b = <<>>
      BY <1>3, <1>7, <2>1
    <3>1. ~pending_overrun' /\ b = <<>>
      BY <1>0, <1>5, <3>a, Zenon
    <3> QED
      BY <1>6, <3>1 DEF BatchFollows
  <2>2. CASE n > 0
    <3>1. pending_overrun' <=> sample_buffer_after_gap
      BY <1>0, <1>3, <1>5, <2>2
    <3>2. sample_buffer # <<>> /\ b # <<>> /\ b[1] = sample_buffer[1] /\ InHand = previous
      BY <1>5, <1>7, <1>9, <2>2, PulledIs
    <3>3. previous # 0 =>
            IF b[1].number # previous + 1 THEN pending_overrun' ELSE session = 1 => ~pending_overrun'
      BY <3>1, <3>2 DEF Inv, StashFollows
    <3> QED
      BY <1>0, <1>6, <3>2, <3>3 DEF BatchFollows, FollowsGap
  <2> QED
    BY <2>1, <2>2
<1> QED
  BY <1>12, <1>13, <1>14, <1>15, <1>16, <1>17, <1>18 DEF Inv

\* The first chunk of the channel goes on where the caller is, or is marked.
LEMMA HeadIs ==
  ASSUME Inv, channel # <<>>
  PROVE  /\ Head(channel) = channel[1]
         /\ channel[1].samples \in Seq(Sample) /\ channel[1].samples # <<>>
         /\ channel[1].dropped \in BOOLEAN /\ channel[1].drops \in Nat
         /\ Run(channel[1].samples) /\ Uniform(channel[1].samples)
         /\ UpTo(channel[1].samples, captured)
         /\ Pulled # 0 => (channel[1].dropped <=> channel[1].samples[1].number # Pulled + 1)
         /\ 1 \in 1..Len(channel[1].samples)
<1>1. 1 \in 1..Len(channel) /\ Head(channel) = channel[1]
  BY DEF Inv, ChannelIsWhole
<1>2. IsWhole(channel[1])
  BY <1>1 DEF Inv, ChannelIsWhole
<1>3. channel[1].samples \in Seq(Sample) /\ channel[1].dropped \in BOOLEAN /\ channel[1].drops \in Nat
  BY <1>1, ChannelIs
<1>4. Queued(1 - 1) = Pulled
  BY DEF Queued
<1>5. Pulled # 0 => (channel[1].dropped <=> channel[1].samples[1].number # Pulled + 1)
  BY <1>1, <1>4 DEF Inv, ChunksAreFlagged
<1>6. Len(channel[1].samples) \in Nat /\ Len(channel[1].samples) # 0
  BY <1>2, <1>3, SequencesAre DEF IsWhole
<1>7. 1 \in 1..Len(channel[1].samples)
  BY <1>6
<1> QED
  BY <1>1, <1>2, <1>3, <1>5, <1>7 DEF IsWhole

\* What fits a label fits the label its frequency or rate completes.
LEMMA FitsDeclared ==
  ASSUME NEW s \in Seq(Sample), NEW f \in Nat, NEW r \in Nat, NEW x, NEW y, Fits(s, f, r)
  PROVE  Fits(s, Declared(f, x), Declared(r, y))
<1> SUFFICES ASSUME NEW i \in 1..Len(s)
             PROVE  /\ Declared(f, x) = Undeclared => s[i].freq = Undeclared
                    /\ Declared(r, y) = Undeclared => s[i].rate = Undeclared
                    /\ ~frequency_moved(Declared(f, x), s[i].freq)
                    /\ ~rate_moved(Declared(r, y), s[i].rate)
  BY DEF Fits
<1>1. /\ f = Undeclared => s[i].freq = Undeclared
      /\ r = Undeclared => s[i].rate = Undeclared
      /\ ~frequency_moved(f, s[i].freq) /\ ~rate_moved(r, s[i].rate)
  BY DEF Fits
<1>2. CASE f = Undeclared
  BY <1>1, <1>2 DEF Declared, frequency_moved, rate_moved
<1>3. CASE f # Undeclared
  BY <1>1, <1>3 DEF Declared, frequency_moved, rate_moved
<1> QED
  BY <1>2, <1>3

\* Samples of one frequency and rate, not moved from those of a label, fit what the label
\* becomes with them.
LEMMA UniformFits ==
  ASSUME NEW s \in Seq(Sample), Uniform(s), s # <<>>, NEW f \in Nat, NEW r \in Nat,
         ~frequency_moved(f, s[1].freq), ~rate_moved(r, s[1].rate)
  PROVE  Fits(s, Declared(f, s[1].freq), Declared(r, s[1].rate))
<1>1. 1 \in 1..Len(s) /\ s[1].freq \in Nat /\ s[1].rate \in Nat
  BY SequencesAre
<1>2. PICK a \in Nat : a = s[1].freq
  BY <1>1
<1>3. PICK b \in Nat : b = s[1].rate
  BY <1>1
<1>4. FreqBand \in Nat /\ RateBand \in Nat
  BY PacketsAssumption
<1>5. Distance(a, a) = 0 /\ Distance(b, b) = 0 /\ RateBand * 0 = 0
  BY <1>4 DEF Distance
<1>6. ~frequency_moved(a, a) /\ ~rate_moved(b, b)
  BY <1>4, <1>5 DEF frequency_moved, rate_moved
<1>7. ~frequency_moved(Declared(f, a), a) /\ ~rate_moved(Declared(r, b), b)
  BY <1>2, <1>3, <1>6 DEF Declared
<1>8. /\ Declared(f, a) = Undeclared => a = Undeclared
      /\ Declared(r, b) = Undeclared => b = Undeclared
  BY DEF Declared
<1>9. \A i \in 1..Len(s) : s[i].freq = a /\ s[i].rate = b
  BY <1>2, <1>3 DEF Uniform
<1> QED
  BY <1>2, <1>3, <1>7, <1>8, <1>9 DEF Fits

\* A read ends before a chunk: the stash, empty until then, takes the chunk and its mark.
LEMMA ReadStopsBeforeStep ==
  ASSUME Inv, ReadStopsBefore
  PROVE  Inv'
<1>1. PICK s, d, k : s = channel[1].samples /\ d = channel[1].dropped /\ k = channel[1].drops
  OBVIOUS
<1>2. /\ s \in Seq(Sample) /\ s # <<>> /\ d \in BOOLEAN /\ k \in Nat
      /\ Run(s) /\ Uniform(s) /\ UpTo(s, captured)
      /\ Pulled # 0 => (d <=> s[1].number # Pulled + 1)
      /\ Head(channel) = channel[1] /\ channel # <<>>
  BY <1>1, HeadIs DEF ReadStopsBefore
<1>3. /\ pc = "reading" /\ Len(batch) < max_samples /\ batch # <<>>
      /\ channel' = Tail(channel) /\ sample_buffer' = sample_buffer \o s
      /\ sample_buffer_freq_hz' = s[1].freq /\ sample_buffer_rate_hz' = s[1].rate
      /\ sample_buffer_after_gap' = (sample_buffer_after_gap \/ d)
      /\ cumulative_drops' = k /\ pc' = "boundary"
      /\ UNCHANGED <<reader_vars, receiver, max_samples, batch, batch_freq_hz,
                     batch_rate_hz, pending_overrun, last_read_frequency_hz,
                     last_read_sample_rate_hz, captured, previous, session>>
  BY <1>1, <1>2 DEF ReadStopsBefore, BreaksBatch
<1>4. sample_buffer = <<>> /\ sample_buffer' = s
  <2>1. sample_buffer = <<>>
    BY <1>3 DEF Inv, CallsAreInStep
  <2> QED
    BY <1>2, <1>3, <2>1
<1>5. InHand' = InHand /\ Pulled = InHand /\ Pulled' = LastOf(s)
  BY <1>2, <1>3, <1>4 DEF InHand, Pulled, LastOf
<1>6. /\ ChannelIsWhole' /\ ChunksAreFlagged' /\ ReaderKnows'
      /\ Len(channel') <= Len(channel) /\ \A i \in 1..Len(channel') : channel'[i] \in Chunk
  <2>1. Pulled' = LastOf(channel[1].samples) /\ UNCHANGED <<reader_vars, captured>>
    BY <1>1, <1>3, <1>5
  <2> QED
    BY <1>2, <1>3, <2>1, HeadLeaves
<1>7. s[1].freq \in Nat /\ s[1].rate \in Nat
  BY <1>2, SequencesAre
<1>8. TypeOK'
  <2>1. sample_buffer_after_gap' \in BOOLEAN
    BY <1>2, <1>3 DEF Inv, TypeOK
  <2>2. channel' \in Seq(Chunk) /\ Len(channel') <= ChannelDepth
    BY <1>6, PacketsAssumption, ChannelIs DEF ChannelIsWhole, Inv, TypeOK
  <2>3. \A i \in DOMAIN channel' : channel'[i] \in Chunk
    BY <2>2
  <2> QED
    BY <1>2, <1>3, <1>4, <1>7, <2>1, <2>2, <2>3 DEF Inv, TypeOK, reader_vars, Chunk
<1>9. CallsAreInStep'
  BY <1>3 DEF Inv, CallsAreInStep
<1>10. HeldIsWhole'
  BY <1>2, <1>3, <1>4 DEF Inv, HeldIsWhole, Run, UpTo
<1>11. LabelsFit'
  <2>1. Undeclared \in Nat /\ ~frequency_moved(Undeclared, s[1].freq) /\ ~rate_moved(Undeclared, s[1].rate)
        /\ Declared(Undeclared, s[1].freq) = s[1].freq /\ Declared(Undeclared, s[1].rate) = s[1].rate
    BY DEF Undeclared, frequency_moved, rate_moved, Declared
  <2>2. Fits(s, s[1].freq, s[1].rate)
    BY <1>2, <2>1, UniformFits
  <2> QED
    BY <1>3, <1>4, <2>2 DEF Inv, LabelsFit, Fits, frequency_moved, rate_moved
<1>12. StashFollows'
  <2>1. InHand # 0
    BY <1>3, PlacesAre
  <2>2. d <=> s[1].number # InHand + 1
    BY <1>2, <1>5, <2>1
  <2>3. session = 1 => ~sample_buffer_after_gap
    BY <1>4 DEF Inv, StashFollows
  <2>4. IF s[1].number # InHand + 1 THEN sample_buffer_after_gap'
                                    ELSE session = 1 => ~sample_buffer_after_gap'
    BY <1>3, <2>2, <2>3
  <2> QED
    BY <1>2, <1>3, <1>4, <1>5, <2>4 DEF StashFollows
<1>13. BatchFollows'
  BY <1>3 DEF Inv, BatchFollows, FollowsGap
<1> QED
  BY <1>6, <1>8, <1>9, <1>10, <1>11, <1>12, <1>13 DEF Inv

\* A read takes a chunk that goes on where it is, or that is its first, and stashes the rest.
LEMMA ReadTakesStep ==
  ASSUME Inv, ReadTakes
  PROVE  Inv'
<1>1. PICK s, d, k : s = channel[1].samples /\ d = channel[1].dropped /\ k = channel[1].drops
  OBVIOUS
<1>2. /\ s \in Seq(Sample) /\ s # <<>> /\ d \in BOOLEAN /\ k \in Nat
      /\ Run(s) /\ Uniform(s) /\ UpTo(s, captured)
      /\ Pulled # 0 => (d <=> s[1].number # Pulled + 1)
      /\ Head(channel) = channel[1] /\ channel # <<>>
  BY <1>1, HeadIs DEF ReadTakes
<1> DEFINE m == IF Len(s) <= max_samples - Len(batch) THEN Len(s) ELSE max_samples - Len(batch)
<1>3. /\ pc = "reading" /\ Len(batch) < max_samples
      /\ batch # <<>> => /\ ~d /\ ~frequency_moved(batch_freq_hz, s[1].freq)
                         /\ ~rate_moved(batch_rate_hz, s[1].rate)
      /\ channel' = Tail(channel)
      /\ pending_overrun' = (pending_overrun \/ d) /\ cumulative_drops' = k
      /\ batch_freq_hz' = Declared(batch_freq_hz, s[1].freq)
      /\ batch_rate_hz' = Declared(batch_rate_hz, s[1].rate)
      /\ batch' = batch \o SubSeq(s, 1, m)
      /\ IF SubSeq(s, m + 1, Len(s)) # <<>>
         THEN /\ sample_buffer' = sample_buffer \o SubSeq(s, m + 1, Len(s))
              /\ sample_buffer_freq_hz' = batch_freq_hz'
              /\ sample_buffer_rate_hz' = batch_rate_hz'
         ELSE UNCHANGED <<sample_buffer, sample_buffer_freq_hz, sample_buffer_rate_hz>>
      /\ UNCHANGED <<reader_vars, receiver, sample_buffer_after_gap, pc, max_samples,
                     last_read_frequency_hz, last_read_sample_rate_hz,
                     captured, previous, session>>
  BY <1>1, <1>2 DEF ReadTakes, BreaksBatch, Retuned
<1>4. /\ batch \in Seq(Sample) /\ Len(batch) \in Nat /\ max_samples \in Nat /\ Len(s) \in Nat /\ Len(s) > 0
      /\ (batch = <<>> <=> Len(batch) = 0)
  <2>a. batch \in Seq(Sample) /\ max_samples \in ReadSizes \cup {0}
    BY DEF Inv, TypeOK
  <2>1. batch \in Seq(Sample) /\ max_samples \in Nat
    BY <2>a, PacketsAssumption
  <2>2. Len(s) \in Nat /\ Len(s) # 0
    BY <1>2, SequencesAre
  <2> QED
    BY <2>1, <2>2, SequencesAre
<1>5. PICK n \in 0..Len(s) : n = m
  BY <1>3, <1>4
<1>6. n > 0 /\ n \in Nat /\ Len(batch) + n <= max_samples
      /\ (Len(batch) + n < max_samples => n = Len(s))
  BY <1>3, <1>4, <1>5
<1> HIDE DEF m
<1>7. PICK t, r, b : t = SubSeq(s, 1, n) /\ r = SubSeq(s, n + 1, Len(s)) /\ b = batch \o t
  OBVIOUS
<1>8. Cut(s, t, r) /\ Len(t) = n
  BY <1>2, <1>5, <1>7, SplitIsCut
<1>9. /\ t \in Seq(Sample) /\ r \in Seq(Sample) /\ Len(s) = n + Len(r) /\ Len(r) \in Nat
      /\ t # <<>> /\ (r = <<>> <=> Len(r) = 0)
  BY <1>6, <1>8, SequencesAre DEF Cut
<1>10. Cut(b, batch, t) /\ b \in Seq(Sample) /\ Len(b) = Len(batch) + n
  BY <1>4, <1>7, <1>8, <1>9, JoinIsCut DEF Cut
<1>11. sample_buffer = <<>>
  BY <1>3 DEF Inv, CallsAreInStep
<1>12. batch' = b /\ sample_buffer' = r
       /\ (r # <<>> => sample_buffer_freq_hz' = batch_freq_hz' /\ sample_buffer_rate_hz' = batch_rate_hz')
       /\ (r = <<>> => UNCHANGED <<sample_buffer_freq_hz, sample_buffer_rate_hz>>)
  <2>1. batch' = b
    BY <1>3, <1>5, <1>7
  <2>2. CASE r # <<>>
    BY <1>3, <1>5, <1>7, <1>9, <1>11, <2>1, <2>2
  <2>3. CASE r = <<>>
    BY <1>3, <1>5, <1>7, <1>11, <2>1, <2>3
  <2> QED
    BY <2>1, <2>2, <2>3
<1>13. /\ Run(t) /\ Run(r) /\ s[1] = t[1]
       /\ r # <<>> => r[1].number = LastOf(t) + 1 /\ LastOf(s) = LastOf(r)
       /\ r = <<>> => s = t
       /\ UpTo(t, captured) /\ UpTo(r, captured)
  BY <1>2, <1>8, <1>9, CutRuns, CutEach
<1>14. batch # <<>> => /\ Pulled = LastOf(batch) /\ Pulled # 0 /\ s[1].number = LastOf(batch) + 1
                       /\ b[1] = batch[1]
  <2> HAVE batch # <<>>
  <2>1. Pulled = LastOf(batch) /\ InHand # 0 /\ Pulled = InHand
    BY <1>11, PulledIs, PlacesAre
  <2>2. ~d
    BY <1>3
  <2>3. b[1] = batch[1]
    BY <1>10, CutRuns
  <2> QED
    BY <1>2, <2>1, <2>2, <2>3
<1>15. batch = <<>> => b = t /\ ~pending_overrun /\ Pulled = previous
  BY <1>10, <1>11, CutRuns, PulledIs DEF Inv, BatchFollows
<1>16. b # <<>> /\ LastOf(b) = LastOf(t) /\ Run(b) /\ UpTo(b, captured)
  <2>1. Run(batch) /\ UpTo(batch, captured)
    BY DEF Inv, HeldIsWhole
  <2>2. batch # <<>> /\ t # <<>> => t[1].number = LastOf(batch) + 1
    BY <1>13, <1>14
  <2> QED
    BY <1>9, <1>10, <1>13, <2>1, <2>2, CutRuns, CutEach
<1>17. /\ InHand' = LastOf(t) /\ Pulled' = LastOf(s)
  <2>1. InHand' = LastOf(b)
    BY <1>12, <1>16 DEF InHand, LastOf
  <2>2. Pulled' = IF r # <<>> THEN LastOf(r) ELSE InHand'
    BY <1>12 DEF Pulled, LastOf
  <2> QED
    BY <1>13, <1>16, <2>1, <2>2
<1>18. /\ ChannelIsWhole' /\ ChunksAreFlagged' /\ ReaderKnows'
       /\ Len(channel') <= Len(channel) /\ \A i \in 1..Len(channel') : channel'[i] \in Chunk
  <2>1. Pulled' = LastOf(channel[1].samples) /\ UNCHANGED <<reader_vars, captured>>
    BY <1>1, <1>3, <1>17
  <2> QED
    BY <1>2, <1>3, <2>1, HeadLeaves
<1>19. /\ batch_freq_hz \in Nat /\ batch_rate_hz \in Nat /\ batch_freq_hz' \in Nat /\ batch_rate_hz' \in Nat
       /\ sample_buffer_freq_hz' \in Nat /\ sample_buffer_rate_hz' \in Nat
  <2>1. s[1].freq \in Nat /\ s[1].rate \in Nat
    BY <1>2, <1>4, SequencesAre
  <2>2. batch_freq_hz \in Nat /\ batch_rate_hz \in Nat /\ sample_buffer_freq_hz \in Nat
        /\ sample_buffer_rate_hz \in Nat
    BY DEF Inv, TypeOK
  <2>3. batch_freq_hz' \in Nat /\ batch_rate_hz' \in Nat
    BY <1>3, <2>1, <2>2 DEF Declared
  <2> QED
    BY <1>12, <2>2, <2>3
<1>20. TypeOK'
  <2>1. pending_overrun' \in BOOLEAN
    BY <1>2, <1>3 DEF Inv, TypeOK
  <2>2. channel' \in Seq(Chunk) /\ Len(channel') <= ChannelDepth
    BY <1>18, PacketsAssumption, ChannelIs DEF ChannelIsWhole, Inv, TypeOK
  <2>3. \A i \in DOMAIN channel' : channel'[i] \in Chunk
    BY <2>2
  <2>4. Len(batch') <= max_samples' /\ batch' \in Seq(Sample) /\ sample_buffer' \in Seq(Sample)
    BY <1>3, <1>6, <1>9, <1>10, <1>12
  <2> QED
    BY <1>2, <1>3, <1>19, <2>1, <2>2, <2>3, <2>4 DEF Inv, TypeOK, reader_vars, Chunk
<1>21. CallsAreInStep'
  <2>1. Len(b) < max_samples => r = <<>>
    BY <1>6, <1>9, <1>10
  <2>2. ~receiver => channel' = <<>>
    BY <1>2, <1>3 DEF Inv, CallsAreInStep
  <2>3. max_samples # 0 /\ receiver
    BY <1>3 DEF Inv, CallsAreInStep
  <2> QED
    BY <1>3, <1>12, <1>16, <2>1, <2>2, <2>3 DEF CallsAreInStep
<1>22. HeldIsWhole'
  BY <1>3, <1>12, <1>13, <1>16 DEF HeldIsWhole, Run, UpTo
<1>23. LabelsFit'
  <2>1. ~frequency_moved(batch_freq_hz, s[1].freq) /\ ~rate_moved(batch_rate_hz, s[1].rate)
    <3>1. CASE batch # <<>>
      BY <1>3, <3>1
    <3>2. CASE batch = <<>>
      BY <1>3, <3>2 DEF Inv, CallsAreInStep, frequency_moved, rate_moved
    <3> QED
      BY <3>1, <3>2
  <2>2. Fits(s, batch_freq_hz', batch_rate_hz')
    BY <1>2, <1>3, <1>19, <2>1, UniformFits
  <2>3. Fits(t, batch_freq_hz', batch_rate_hz') /\ Fits(r, batch_freq_hz', batch_rate_hz')
    BY <1>8, <2>2, CutEach
  <2>4. Fits(batch, batch_freq_hz', batch_rate_hz')
    <3>1. Fits(batch, batch_freq_hz, batch_rate_hz)
      BY DEF Inv, LabelsFit
    <3> QED
      BY <1>3, <1>4, <1>19, <3>1, FitsDeclared
  <2>5. Fits(b, batch_freq_hz', batch_rate_hz')
    BY <1>10, <2>3, <2>4, CutEach
  <2>6. Fits(r, sample_buffer_freq_hz', sample_buffer_rate_hz')
    <3>1. CASE r = <<>>
      BY <3>1 DEF Fits
    <3>2. CASE r # <<>>
      BY <1>12, <2>3, <3>2
    <3> QED
      BY <3>1, <3>2
  <2>7. PICK f, g, h, i : /\ f = batch_freq_hz' /\ g = batch_rate_hz'
                          /\ h = sample_buffer_freq_hz' /\ i = sample_buffer_rate_hz'
    OBVIOUS
  <2>8. Fits(b, f, g) /\ Fits(r, h, i)
    BY <2>5, <2>6, <2>7
  <2> QED
    BY <1>3, <1>12, <2>7, <2>8 DEF LabelsFit, Fits, frequency_moved, rate_moved
<1>24. StashFollows'
  <2>1. session = 1 => ~sample_buffer_after_gap
    BY <1>11 DEF Inv, StashFollows
  <2>2. r # <<>> => r[1].number = InHand' + 1
    BY <1>13, <1>17
  <2> QED
    BY <1>3, <1>12, <2>1, <2>2 DEF StashFollows
<1>25. BatchFollows'
  <2>1. ASSUME previous # 0
        PROVE  IF b[1].number # previous + 1 THEN pending_overrun'
                                             ELSE session = 1 => ~pending_overrun'
    <3>1. CASE batch # <<>>
      <4>1. pending_overrun' <=> pending_overrun
        <5>1. ~d
          BY <1>3, <3>1
        <5> QED
          BY <1>3, <5>1, Zenon
      <4> QED
        BY <1>14, <2>1, <3>1, <4>1 DEF Inv, BatchFollows, FollowsGap
    <3>2. CASE batch = <<>>
      <4>1. pending_overrun' <=> d
        BY <1>3, <1>15, <3>2, Zenon
      <4>2. b[1] = s[1] /\ (d <=> s[1].number # previous + 1)
        BY <1>2, <1>13, <1>15, <2>1, <3>2
      <4> QED
        BY <4>1, <4>2
    <3> QED
      BY <3>1, <3>2
  <2> QED
    BY <1>3, <1>12, <1>16, <2>1 DEF BatchFollows, FollowsGap
<1> QED
  BY <1>18, <1>20, <1>21, <1>22, <1>23, <1>24, <1>25 DEF Inv

\* A read returns under the label its samples fit.
LEMMA ReadReturnsStep ==
  ASSUME Inv, ReadReturns
  PROVE  Inv'
<1>1. /\ pc \in {"reading", "boundary"} /\ batch # <<>> /\ pc' = "returned"
      /\ last_read_frequency_hz' = Declared(batch_freq_hz, last_read_frequency_hz)
      /\ last_read_sample_rate_hz' = batch_rate_hz
      /\ UNCHANGED <<reader_vars, receiver, channel, stash_vars, max_samples, batch,
                     batch_freq_hz, batch_rate_hz, pending_overrun, cumulative_drops,
                     captured, previous, session>>
  BY DEF ReadReturns, ReadIsOver
<1>2. InHand' = InHand /\ Pulled' = Pulled
  BY <1>1 DEF InHand, Pulled, stash_vars
<1>3. ChannelIsWhole' /\ ChunksAreFlagged' /\ ReaderKnows'
  BY <1>1, <1>2, CallerLeavesReader
<1>4. batch \in Seq(Sample) /\ batch_freq_hz \in Nat /\ batch_rate_hz \in Nat /\ last_read_frequency_hz \in Nat
  BY DEF Inv, TypeOK
<1>5. TypeOK'
  <2>1. last_read_frequency_hz' \in Nat /\ last_read_sample_rate_hz' \in Nat
    BY <1>1, <1>4 DEF Declared
  <2> QED
    BY <1>1, <2>1 DEF Inv, TypeOK, reader_vars, stash_vars
<1>6. CallsAreInStep'
  BY <1>1 DEF Inv, CallsAreInStep, stash_vars
<1>7. HeldIsWhole'
  BY <1>1 DEF Inv, HeldIsWhole, Run, UpTo, stash_vars
<1>8. LabelsFit'
  <2>1. Fits(batch, batch_freq_hz, batch_rate_hz)
    BY DEF Inv, LabelsFit
  <2>2. Declared(batch_rate_hz, batch_rate_hz) = batch_rate_hz
    BY DEF Declared
  <2>3. Fits(batch, last_read_frequency_hz', last_read_sample_rate_hz')
    BY <1>1, <1>4, <2>1, <2>2, FitsDeclared
  <2>4. PICK f, g : f = last_read_frequency_hz' /\ g = last_read_sample_rate_hz'
    OBVIOUS
  <2>5. Fits(batch, f, g)
    BY <2>3, <2>4
  <2> QED
    BY <1>1, <2>4, <2>5 DEF Inv, LabelsFit, Fits, frequency_moved, rate_moved, stash_vars
<1>9. StashFollows' /\ BatchFollows'
  BY <1>1, <1>2 DEF Inv, StashFollows, BatchFollows, FollowsGap, stash_vars
<1> QED
  BY <1>3, <1>5, <1>6, <1>7, <1>8, <1>9 DEF Inv

\* A read that fails has taken nothing.
LEMMA ReadFailsStep ==
  ASSUME Inv, ReadFails
  PROVE  Inv'
<1>1. /\ batch = <<>> /\ pc' = "idle"
      /\ UNCHANGED <<reader_vars, receiver, channel, stash_vars, max_samples, batch,
                     batch_freq_hz, batch_rate_hz, told_vars, captured, previous, session>>
  BY DEF ReadFails
<1>2. InHand' = InHand /\ Pulled' = Pulled
  BY <1>1 DEF InHand, Pulled, stash_vars
<1>3. ChannelIsWhole' /\ ChunksAreFlagged' /\ ReaderKnows'
  BY <1>1, <1>2, CallerLeavesReader
<1>4. TypeOK'
  BY <1>1 DEF Inv, TypeOK, reader_vars, stash_vars, told_vars
<1>5. CallsAreInStep'
  BY <1>1 DEF Inv, CallsAreInStep
<1>6. HeldIsWhole'
  BY <1>1 DEF Inv, HeldIsWhole, Run, UpTo, stash_vars
<1>7. LabelsFit'
  BY <1>1 DEF Inv, LabelsFit, Fits, frequency_moved, rate_moved, stash_vars
<1>8. StashFollows' /\ BatchFollows'
  BY <1>1, <1>2 DEF Inv, StashFollows, BatchFollows, FollowsGap, stash_vars, told_vars
<1> QED
  BY <1>3, <1>4, <1>5, <1>6, <1>7, <1>8 DEF Inv

\* take_overrun clears the mark of the read that is over.
LEMMA TakeOverrunStep ==
  ASSUME Inv, take_overrun
  PROVE  Inv'
<1>1. /\ pc = "returned" /\ pending_overrun' = FALSE /\ previous' = LastOf(batch)
      /\ pc' = "idle" /\ batch' = <<>>
      /\ UNCHANGED <<reader_vars, receiver, channel, stash_vars, max_samples, batch_freq_hz,
                     batch_rate_hz, cumulative_drops, last_read_frequency_hz,
                     last_read_sample_rate_hz, captured, session>>
  BY DEF take_overrun, LastOf
<1>2. batch # <<>> /\ batch \in Seq(Sample) /\ UpTo(batch, captured) /\ max_samples \in Nat
  <2>1. max_samples \in ReadSizes \cup {0}
    BY DEF Inv, TypeOK
  <2>2. max_samples \in Nat
    BY <2>1, PacketsAssumption
  <2> QED
    BY <1>1, <2>2 DEF Inv, CallsAreInStep, TypeOK, HeldIsWhole
<1>3. InHand' = InHand /\ Pulled' = Pulled
  <2>1. InHand' = InHand
    BY <1>1, <1>2 DEF InHand
  <2> QED
    BY <1>1, <2>1 DEF Pulled, stash_vars
<1>4. ChannelIsWhole' /\ ChunksAreFlagged' /\ ReaderKnows'
  BY <1>1, <1>3, CallerLeavesReader
<1>5. TypeOK'
  <2>1. previous' \in Nat /\ previous' <= captured /\ captured \in Nat
    BY <1>1, <1>2, LastIsUpTo, SequencesAre, QueuedIsCaptured
  <2>2. previous' \in 0..captured'
    BY <1>1, <2>1
  <2>3. batch' \in Seq(Sample) /\ Len(batch') <= max_samples'
    BY <1>1, <1>2
  <2> QED
    BY <1>1, <2>2, <2>3 DEF Inv, TypeOK, reader_vars, stash_vars
<1>6. CallsAreInStep'
  BY <1>1 DEF Inv, CallsAreInStep
<1>7. HeldIsWhole'
  BY <1>1 DEF Inv, HeldIsWhole, Run, UpTo, stash_vars
<1>8. LabelsFit'
  BY <1>1 DEF Inv, LabelsFit, Fits, frequency_moved, rate_moved, stash_vars
<1>9. StashFollows'
  BY <1>1, <1>3 DEF Inv, StashFollows, stash_vars
<1>10. BatchFollows'
  BY <1>1 DEF BatchFollows
<1> QED
  BY <1>4, <1>5, <1>6, <1>7, <1>8, <1>9, <1>10 DEF Inv

\* stop_streaming empties the channel and leaves the stash.
LEMMA StopStreamingStep ==
  ASSUME Inv, stop_streaming
  PROVE  Inv'
<1>1. /\ pc = "idle" /\ receiver' = FALSE /\ channel' = <<>> /\ reader' = "none"
      /\ UNCHANGED <<attempts, consecutive_errors, flag_overrun_after_gap, delivered_any,
                     last_seen, drops, stash_vars, read_vars, told_vars,
                     captured, previous, session>>
  BY DEF stop_streaming
<1>2. InHand' = InHand
  BY <1>1 DEF InHand, read_vars
<1>3. ChannelIsWhole' /\ ChunksAreFlagged' /\ ReaderKnows'
  BY <1>1 DEF ChannelIsWhole, ChunksAreFlagged, ReaderKnows
<1>4. TypeOK'
  <2>1. Len(channel') <= ChannelDepth /\ DOMAIN channel' = {}
    BY <1>1, PacketsAssumption
  <2> QED
    BY <1>1, <2>1 DEF Inv, TypeOK, stash_vars, read_vars, told_vars
<1>5. CallsAreInStep'
  BY <1>1 DEF Inv, CallsAreInStep, read_vars
<1>6. HeldIsWhole'
  BY <1>1 DEF Inv, HeldIsWhole, Run, UpTo, stash_vars, read_vars
<1>7. LabelsFit'
  BY <1>1 DEF Inv, LabelsFit, Fits, frequency_moved, rate_moved, stash_vars, read_vars, told_vars
<1>8. StashFollows' /\ BatchFollows'
  BY <1>1, <1>2 DEF Inv, StashFollows, BatchFollows, FollowsGap, stash_vars, read_vars, told_vars
<1> QED
  BY <1>3, <1>4, <1>5, <1>6, <1>7, <1>8 DEF Inv

\* start_streaming drops the stash; the caller starts anew, whether it connects or not.
LEMMA StartStreamingStep ==
  ASSUME Inv, NEW connects \in BOOLEAN, start_streaming(connects)
  PROVE  Inv'
<1>1. /\ pc = "idle" /\ reader \in {"ended", "none"} /\ session < MaxSessions
      /\ session' = session + 1 /\ previous' = 0
      /\ sample_buffer' = <<>> /\ pending_overrun' = FALSE
      /\ IF connects
         THEN /\ reader' = "connecting" /\ attempts' = 0 /\ consecutive_errors' = 0
              /\ flag_overrun_after_gap' = FALSE /\ delivered_any' = FALSE
              /\ last_seen' = 0 /\ drops' = 0
              /\ receiver' = TRUE /\ channel' = <<>>
         ELSE UNCHANGED <<reader_vars, receiver, channel>>
      /\ UNCHANGED <<sample_buffer_freq_hz, sample_buffer_rate_hz, sample_buffer_after_gap,
                     read_vars, cumulative_drops, last_read_frequency_hz,
                     last_read_sample_rate_hz, captured>>
  BY DEF start_streaming
<1>2. batch = <<>> /\ batch' = <<>> /\ pc' = "idle"
  BY <1>1 DEF Inv, CallsAreInStep, read_vars
<1>3. InHand' = 0 /\ Pulled' = 0
  BY <1>1, <1>2 DEF InHand, Pulled
<1>4. session' \in 1..MaxSessions /\ session' # 1 /\ captured \in Nat
  <2>1. session \in 1..MaxSessions
    BY DEF Inv, TypeOK
  <2> QED
    BY <1>1, <2>1, PacketsAssumption, QueuedIsCaptured
<1>5. ChannelIsWhole' /\ ChunksAreFlagged'
  <2>1. CASE connects
    BY <1>1, <2>1 DEF ChannelIsWhole, ChunksAreFlagged
  <2>2. CASE ~connects
    <3>1. channel' = channel /\ captured' = captured
      BY <1>1, <2>2
    <3>2. ChannelIsWhole'
      BY <3>1 DEF Inv, ChannelIsWhole, IsWhole, Run, Uniform, UpTo
    <3>3. \A k \in 1..Len(channel) : Queued(k - 1)' # 0 => Queued(k - 1)' = Queued(k - 1)
      BY <1>3, <3>1 DEF Queued
    <3> QED
      BY <3>1, <3>2, <3>3 DEF Inv, ChunksAreFlagged
  <2> QED
    BY <2>1, <2>2
<1>6. ReaderKnows'
  <2>1. CASE connects
    <3>1. Queued(Len(channel))' = 0
      BY <1>1, <1>3, <2>1 DEF Queued
    <3> QED
      BY <1>1, <2>1, <3>1 DEF ReaderKnows
  <2>2. CASE ~connects
    BY <1>1, <2>2 DEF ReaderKnows, reader_vars
  <2> QED
    BY <2>1, <2>2
<1>7. TypeOK'
  <2>1. 0 \in 0..MaxReconnects /\ 0 \in 0..(MaxErrors - 1) /\ 0 \in 0..captured
    BY <1>4, PacketsAssumption
  <2>2. /\ reader' \in {"connecting", "streaming", "ended", "none"}
        /\ attempts' \in 0..MaxReconnects /\ consecutive_errors' \in 0..(MaxErrors - 1)
        /\ flag_overrun_after_gap' \in BOOLEAN /\ delivered_any' \in BOOLEAN
        /\ last_seen' \in 0..captured' /\ drops' \in Nat
        /\ receiver' \in BOOLEAN /\ (reader' \in {"connecting", "streaming"} => receiver')
    <3>1. CASE connects
      <4>1. /\ reader' = "connecting" /\ attempts' = 0 /\ consecutive_errors' = 0
            /\ flag_overrun_after_gap' = FALSE /\ delivered_any' = FALSE
            /\ last_seen' = 0 /\ drops' = 0 /\ receiver' = TRUE
        BY <1>1, <3>1
      <4>2. captured' = captured
        BY <1>1
      <4> QED
        BY <2>1, <4>1, <4>2
    <3>2. CASE ~connects
      BY <1>1, <3>2 DEF Inv, TypeOK, reader_vars
    <3> QED
      BY <3>1, <3>2
  <2>3. /\ Len(channel') <= ChannelDepth
        /\ \A i \in DOMAIN channel' :
              channel'[i] \in [samples : Seq(Sample), dropped : BOOLEAN, drops : Nat]
    <3>1. CASE connects
      BY <1>1, <3>1, PacketsAssumption
    <3>2. CASE ~connects
      BY <1>1, <3>2 DEF Inv, TypeOK
    <3> QED
      BY <3>1, <3>2
  <2>4. /\ sample_buffer' \in Seq(Sample) /\ previous' \in 0..captured' /\ captured' \in 0..MaxSamples
        /\ pending_overrun' \in BOOLEAN
    <3>1. captured \in 0..MaxSamples /\ <<>> \in Seq(Sample)
      BY DEF Inv, TypeOK
    <3>2. captured' = captured /\ previous' = 0 /\ sample_buffer' = <<>> /\ pending_overrun' = FALSE
      BY <1>1
    <3> QED
      BY <2>1, <3>1, <3>2
  <2>5. /\ sample_buffer_freq_hz' \in Nat /\ sample_buffer_rate_hz' \in Nat
        /\ sample_buffer_after_gap' \in BOOLEAN /\ cumulative_drops' \in Nat
        /\ last_read_frequency_hz' \in Nat /\ last_read_sample_rate_hz' \in Nat
    BY <1>1 DEF Inv, TypeOK
  <2>6. /\ pc' \in {"idle", "reading", "boundary", "returned"}
        /\ max_samples' \in ReadSizes \cup {0} /\ batch' \in Seq(Sample)
        /\ Len(batch') <= max_samples' /\ batch_freq_hz' \in Nat /\ batch_rate_hz' \in Nat
    BY <1>1 DEF Inv, TypeOK, read_vars
  <2> QED
    BY <1>4, <2>2, <2>3, <2>4, <2>5, <2>6 DEF TypeOK
<1>8. CallsAreInStep'
  BY <1>1, <1>2 DEF Inv, CallsAreInStep
<1>9. HeldIsWhole'
  BY <1>1, <1>2 DEF HeldIsWhole, Run, UpTo
<1>10. LabelsFit'
  BY <1>1, <1>2 DEF LabelsFit, Fits
<1>11. StashFollows' /\ BatchFollows'
  BY <1>1, <1>2, <1>4 DEF StashFollows, BatchFollows
<1> QED
  BY <1>5, <1>6, <1>7, <1>8, <1>9, <1>10, <1>11 DEF Inv

\* Steps of others change nothing.
LEMMA StutterStep ==
  ASSUME Inv, UNCHANGED vars
  PROVE  Inv'
<1>1. UNCHANGED <<reader_vars, receiver, channel, stash_vars, read_vars, told_vars,
                  captured, previous, session>>
  BY DEF vars
<1>2. InHand' = InHand /\ Pulled' = Pulled
  BY <1>1 DEF InHand, Pulled, stash_vars, read_vars
<1>3. ChannelIsWhole' /\ ChunksAreFlagged' /\ ReaderKnows'
  BY <1>1, <1>2, CallerLeavesReader
<1>4. TypeOK'
  BY <1>1 DEF Inv, TypeOK, reader_vars, stash_vars, read_vars, told_vars
<1>5. CallsAreInStep'
  BY <1>1 DEF Inv, CallsAreInStep, stash_vars, read_vars
<1>6. HeldIsWhole'
  BY <1>1 DEF Inv, HeldIsWhole, Run, UpTo, stash_vars, read_vars
<1>7. LabelsFit'
  BY <1>1 DEF Inv, LabelsFit, Fits, frequency_moved, rate_moved, stash_vars, read_vars, told_vars
<1>8. StashFollows' /\ BatchFollows'
  BY <1>1, <1>2 DEF Inv, StashFollows, BatchFollows, FollowsGap, stash_vars, read_vars, told_vars
<1> QED
  BY <1>3, <1>4, <1>5, <1>6, <1>7, <1>8 DEF Inv

\* So every step keeps all of it.
LEMMA NextKeepsInv == Inv /\ [Next]_vars => Inv'
<1> SUFFICES ASSUME Inv, [Next]_vars PROVE Inv'
  OBVIOUS
<1>1. CASE StreamStarts
  BY <1>1, StreamStartsStep
<1>2. CASE StreamFailsToStart
  BY <1>2, StreamFailsToStartStep
<1>3. CASE \E p \in Packets : PacketArrives(p)
  BY <1>3, PacketArrivesStep
<1>4. CASE PacketIsLost \/ PacketFailsToParse
  BY <1>4, LossStep
<1>5. CASE \E healthy \in BOOLEAN : StreamEnds(healthy)
  BY <1>5, StreamEndsStep
<1>6. CASE \E n \in ReadSizes : ReadBegins(n)
  BY <1>6, ReadBeginsStep
<1>7. CASE ReadStopsBefore
  BY <1>7, ReadStopsBeforeStep
<1>8. CASE ReadTakes
  BY <1>8, ReadTakesStep
<1>9. CASE ReadReturns
  BY <1>9, ReadReturnsStep
<1>10. CASE ReadFails
  BY <1>10, ReadFailsStep
<1>11. CASE take_overrun
  BY <1>11, TakeOverrunStep
<1>12. CASE stop_streaming
  BY <1>12, StopStreamingStep
<1>13. CASE \E connects \in BOOLEAN : start_streaming(connects)
  BY <1>13, StartStreamingStep
<1>14. CASE UNCHANGED vars
  BY <1>14, StutterStep
<1> QED
  BY <1>1, <1>2, <1>3, <1>4, <1>5, <1>6, <1>7, <1>8, <1>9, <1>10, <1>11, <1>12, <1>13, <1>14
  DEF Next

\* Chunks, stash and read stay whole, labelled and marked, wherever the caller and the reader
\* task are: the inductive invariant of read_samples_deadline and the task that feeds it.
THEOREM ReadsStayInOrder == Spec => []Inv
BY InitGivesInv, NextKeepsInv, PTL DEF Spec

\* A returned read is a run, and fits the label it was returned with.
LEMMA InvGivesReadsAreTrue == Inv => ReadsAreTrue
<1> SUFFICES ASSUME Inv PROVE ReadsAreTrue
  OBVIOUS
<1>1. TypeOK /\ batch \in Seq(Sample)
  BY DEF Inv, TypeOK
<1>2. ReadsAreWhole
  <2> SUFFICES ASSUME NEW i \in 2..Len(batch)
               PROVE  batch[i].number = batch[i - 1].number + 1
    BY DEF ReadsAreWhole
  <2>1. i \in 1..Len(batch) /\ i - 1 \in 1..Len(batch) /\ 1 \in 1..Len(batch) /\ i \in Nat
    BY <1>1, SequencesAre
  <2>2. /\ batch[i].number = batch[1].number + (i - 1)
        /\ batch[i - 1].number = batch[1].number + ((i - 1) - 1)
    BY <2>1 DEF Inv, HeldIsWhole, Run
  <2>3. batch[1].number \in Nat
    BY <1>1, <2>1, SequencesAre
  <2>4. PICK a, x, y : a = batch[1].number /\ x = batch[i].number /\ y = batch[i - 1].number
    OBVIOUS
  <2>5. a \in Nat /\ x = a + (i - 1) /\ y = a + ((i - 1) - 1)
    BY <2>2, <2>3, <2>4
  <2>6. x = y + 1
    BY <2>1, <2>5
  <2> QED
    BY <2>4, <2>6
<1>3. LabelsAreTrue
  <2>1. DOMAIN batch = 1..Len(batch)
    BY <1>1
  <2> QED
    BY <2>1 DEF Inv, LabelsFit, Fits, LabelsAreTrue
<1> QED
  BY <1>1, <1>2, <1>3 DEF ReadsAreTrue

\* Whatever is lost, wherever the reader task reconnects, and however a read splits the
\* chunks it takes, what read_samples_deadline returns is one piece of the stream, under one
\* frequency and rate that its packets declared.
THEOREM ReadsAreAlwaysTrue == Spec => []ReadsAreTrue
BY ReadsStayInOrder, InvGivesReadsAreTrue, PTL

\* A returned read follows the one before it, or is marked.
LEMMA InvGivesLossesAreFlagged == Inv => LossesAreFlagged
<1> SUFFICES ASSUME Inv, pc = "returned", previous # 0
             PROVE  /\ FollowsGap(batch[1]) => pending_overrun
                    /\ session = 1 /\ pending_overrun => FollowsGap(batch[1])
  BY DEF LossesAreFlagged, GapsAreReported, OverrunsAreGaps, FollowsGap
<1>1. batch # <<>>
  BY DEF Inv, CallsAreInStep
<1>2. IF FollowsGap(batch[1]) THEN pending_overrun ELSE session = 1 => ~pending_overrun
  BY <1>1 DEF Inv, BatchFollows
<1> QED
  BY <1>2

\* take_overrun answers yes for every read that does not go on where the one before it
\* ended, and, until the source is started again, for no other.
THEOREM LossesAreAlwaysFlagged == Spec => []LossesAreFlagged
BY ReadsStayInOrder, InvGivesLossesAreFlagged, PTL
-----------------------------------------------------------------------------
(***************************************************************************)
(* The tuning.                                                             *)
(***************************************************************************)
\* What a setter has on its way is what it has published, and what it had changed
\* until then was what the source was configured to.
IntentIsPublished ==
  http_tuning # Tuning!None /\ setting # Tuning!None /\ ~set_failed => http_tuning = setting

\* A server that is down is back on its mission before anybody can tune it.
DownIsUntuned == tuned => up

TuningInv == Tuning!TuningIsKept /\ IntentIsPublished /\ DownIsUntuned

USE TuningAssumption DEF Tuning!TuningAssumption

\* Whatever becomes of a request, the device is on a tuning, and only a server that
\* is up is tuned.
LEMMA RequestsTune ==
  ASSUME TuningInv, up' = up, NEW tuple \in Tuning!Tuning, Tuning!Applies(tuple) \/ Tuning!NothingArrives
  PROVE  device' \in Tuning!Tuning /\ tuned' \in BOOLEAN /\ DownIsUntuned'
<1> USE DEF TuningInv, Tuning!TuningIsKept, Tuning!TypeOK, DownIsUntuned
<1>1. CASE Tuning!Applies(tuple)
  <2>1. tuned' \in BOOLEAN
    BY <1>1, Zenon DEF Tuning!Applies
  <2> QED BY <1>1, <2>1 DEF Tuning!Applies
<1>2. CASE Tuning!NothingArrives
  BY <1>2 DEF Tuning!NothingArrives
<1> QED BY <1>1, <1>2

\* A server that dies or boots leaves the tuning the source knows alone.
LEMMA ServerSteps ==
  ASSUME TuningInv, Tuning!ServerDies \/ Tuning!ServerBoots
  PROVE  TuningInv'
<1> USE DEF TuningInv, Tuning!TuningIsKept, Tuning!TypeOK, Tuning!TuningHolds, IntentIsPublished, DownIsUntuned,
            Tuning!reader_vars, Tuning!caller_vars, Tuning!bound_vars
<1>1. CASE Tuning!ServerDies
  <2>1. up' \in BOOLEAN /\ live' \in BOOLEAN /\ tuned' \in BOOLEAN
    BY <1>1, Zenon DEF Tuning!ServerDies
  <2> QED BY <1>1, <2>1 DEF Tuning!ServerDies
<1>2. CASE Tuning!ServerBoots
  BY <1>2 DEF Tuning!ServerBoots
<1> QED BY <1>1, <1>2

\* Streams that open, fail and are lost touch no tuning.
LEMMA StreamSteps ==
  ASSUME TuningInv, \/ Tuning!StreamOpens \/ Tuning!StreamFailsToOpen
              \/ \E healthy \in BOOLEAN : Tuning!StreamIsLost(healthy)
  PROVE  TuningInv'
<1> USE DEF TuningInv, Tuning!TuningIsKept, Tuning!TypeOK, Tuning!TuningHolds, IntentIsPublished, DownIsUntuned,
            Tuning!reader_vars, Tuning!caller_vars, Tuning!bound_vars
<1>1. CASE Tuning!StreamOpens
  BY <1>1 DEF Tuning!StreamOpens
<1>2. CASE Tuning!StreamFailsToOpen
  BY <1>2 DEF Tuning!StreamFailsToOpen, Tuning!MayReconnect
<1>3. ASSUME NEW healthy \in BOOLEAN, Tuning!StreamIsLost(healthy) PROVE TuningInv'
  <2>1. live' \in BOOLEAN
    BY <1>3, Zenon DEF Tuning!StreamIsLost
  <2>2. Tuning!Spent(healthy) \in 0..TuningReconnects
    BY DEF Tuning!Spent
  <2>3. tuning_attempts' \in 0..TuningReconnects /\ tuning_reader' \in {"pausing", "ended"}
    BY <1>3, <2>2 DEF Tuning!StreamIsLost, Tuning!MayReconnect
  <2>4. healthy_losses' \in 0..MaxHealthy
    BY <1>3 DEF Tuning!StreamIsLost
  <2> QED BY <1>3, <2>1, <2>3, <2>4 DEF Tuning!StreamIsLost
<1> QED BY <1>1, <1>2, <1>3

\* A restored tuning is the shared one, or the reader is known to have raced.
LEMMA RestoreSteps ==
  ASSUME TuningInv, Tuning!TuningIsCopied \/ Tuning!TuningIsRestored
  PROVE  TuningInv'
<1> USE DEF TuningInv, Tuning!TuningIsKept, Tuning!TypeOK, Tuning!TuningHolds, IntentIsPublished, DownIsUntuned,
            Tuning!reader_vars, Tuning!caller_vars, Tuning!bound_vars
<1>1. CASE Tuning!TuningIsCopied
  BY <1>1 DEF Tuning!TuningIsCopied
<1>2. CASE Tuning!TuningIsRestored
  <2>1. CASE Tuning!Applies(desired) /\ raced' = (desired # http_tuning)
    <3>1. raced' \in BOOLEAN
      BY <2>1, Zenon
    <3>2. ~raced' => device' = http_tuning
      BY <2>1 DEF Tuning!Applies
    <3> QED BY <1>2, <2>1, <3>1, <3>2 DEF Tuning!TuningIsRestored, Tuning!Applies
  <2>2. CASE Tuning!NothingArrives /\ UNCHANGED raced
    BY <1>2, <2>2 DEF Tuning!TuningIsRestored, Tuning!NothingArrives
  <2> QED BY <1>2, <2>1, <2>2 DEF Tuning!TuningIsRestored
<1> QED BY <1>1, <1>2

\* A setter that begins changes configuration and shared tuning alike, and one that
\* succeeds has sent what it published.
LEMMA SetterSteps ==
  ASSUME TuningInv, \/ \E request \in Requests : Tuning!SetBegins(request[1], request[2])
              \/ Tuning!SetSucceeds \/ Tuning!SetFails
  PROVE  TuningInv'
<1> USE DEF TuningInv, Tuning!TuningIsKept, Tuning!TypeOK, Tuning!TuningHolds, IntentIsPublished, DownIsUntuned,
            Tuning!reader_vars, Tuning!caller_vars, Tuning!bound_vars
<1>1. ASSUME NEW request \in Requests, Tuning!SetBegins(request[1], request[2]) PROVE TuningInv'
  <2> DEFINE field == request[1]
             value == request[2]
  <2>1. field \in Fields /\ value \in Values
    OBVIOUS
  <2>2. \A t \in Tuning!Tuning : [t EXCEPT ![field] = value] \in Tuning!Tuning
    BY <2>1 DEF Tuning!Tuning
  <2>3. setting' \in Tuning!Tuning /\ setting' # Tuning!None
    BY <1>1, <2>2 DEF Tuning!SetBegins
  <2>4. /\ http_tuning' \in Tuning!Tuning \cup {Tuning!None}
        /\ http_tuning' # Tuning!None <=> http_tuning # Tuning!None
    BY <1>1, <2>2 DEF Tuning!SetBegins, Tuning!publish_tuning
  <2>5. http_tuning # Tuning!None /\ ~set_failed => http_tuning' = setting'
    BY <1>1 DEF Tuning!SetBegins, Tuning!publish_tuning
  <2> QED BY <1>1, <2>3, <2>4, <2>5 DEF Tuning!SetBegins
<1>2. CASE Tuning!SetSucceeds
  <2>1. raced' \in BOOLEAN /\ (~set_failed => ~raced')
    BY <1>2 DEF Tuning!SetSucceeds
  <2> QED BY <1>2, <2>1 DEF Tuning!SetSucceeds, Tuning!Applies
<1>3. CASE Tuning!SetFails
  <2>1. device' \in Tuning!Tuning /\ tuned' \in BOOLEAN /\ DownIsUntuned'
    <3>1. up' = up /\ setting \in Tuning!Tuning /\ (Tuning!Applies(setting) \/ Tuning!NothingArrives)
      BY <1>3 DEF Tuning!SetFails
    <3> QED BY <3>1, RequestsTune
  <2>2. set_failed' /\ set_failed' \in BOOLEAN
    BY <1>3, Zenon DEF Tuning!SetFails
  <2> QED BY <1>3, <2>1, <2>2 DEF Tuning!SetFails
<1> QED BY <1>1, <1>2, <1>3

\* A stop leaves nothing shared, and a start shares what it has tuned to.
LEMMA SessionSteps ==
  ASSUME TuningInv, Tuning!stop_streaming \/ Tuning!start_streaming \/ Tuning!start_fails
  PROVE  TuningInv'
<1> USE DEF TuningInv, Tuning!TuningIsKept, Tuning!TypeOK, Tuning!TuningHolds, IntentIsPublished, DownIsUntuned,
            Tuning!reader_vars, Tuning!caller_vars, Tuning!bound_vars
<1>1. CASE Tuning!stop_streaming
  <2>1. live' \in BOOLEAN
    BY <1>1, Zenon DEF Tuning!stop_streaming
  <2>2. device' \in Tuning!Tuning /\ tuned' \in BOOLEAN /\ DownIsUntuned'
    <3>1. up' = up /\ desired \in Tuning!Tuning /\ (Tuning!Applies(desired) \/ Tuning!NothingArrives)
      BY <1>1 DEF Tuning!stop_streaming
    <3> QED BY <3>1, RequestsTune
  <2> QED BY <1>1, <2>1, <2>2 DEF Tuning!stop_streaming
<1>2. CASE Tuning!start_streaming
  <2>1. live' \in BOOLEAN /\ set_failed' \in BOOLEAN /\ raced' \in BOOLEAN
    BY <1>2, Zenon DEF Tuning!start_streaming
  <2> QED BY <1>2, <2>1 DEF Tuning!start_streaming, Tuning!Applies
<1>3. CASE Tuning!start_fails
  <2>1. device' \in Tuning!Tuning /\ tuned' \in BOOLEAN /\ DownIsUntuned'
    <3>1. up' = up /\ config \in Tuning!Tuning /\ (Tuning!Applies(config) \/ Tuning!NothingArrives)
      BY <1>3 DEF Tuning!start_fails
    <3> QED BY <3>1, RequestsTune
  <2>2. Tuning!TuningHolds'
    BY <1>3 DEF Tuning!start_fails, Tuning!Applies, Tuning!NothingArrives
  <2> QED BY <1>3, <2>1, <2>2 DEF Tuning!start_fails
<1> QED BY <1>1, <1>2, <1>3

\* Between the caller's calls device, shared tuning and configuration are one tuning,
\* unless a setter failed, the server restarted and nobody has tuned it since, or the
\* reader restored a tuning that was replaced while it did.
THEOREM TuningIsAlwaysKept == Tuning!Spec => []TuningIsKept
<1>1. Tuning!Init => TuningInv
  <2> SUFFICES ASSUME Tuning!Init PROVE TuningInv
    OBVIOUS
  <2>1. /\ up \in BOOLEAN /\ live \in BOOLEAN /\ set_failed \in BOOLEAN
        /\ raced \in BOOLEAN /\ tuned \in BOOLEAN
    BY Zenon DEF Tuning!Init
  <2> QED BY <2>1 DEF Tuning!Init, TuningInv, Tuning!TuningIsKept, Tuning!TypeOK, Tuning!TuningHolds, IntentIsPublished,
                      DownIsUntuned
<1>2. TuningInv /\ [Tuning!Next]_Tuning!vars => TuningInv'
  <2> SUFFICES ASSUME TuningInv, [Tuning!Next]_Tuning!vars PROVE TuningInv'
    OBVIOUS
  <2>1. CASE Tuning!ServerDies \/ Tuning!ServerBoots
    BY <2>1, ServerSteps
  <2>2. CASE \/ Tuning!StreamOpens \/ Tuning!StreamFailsToOpen
             \/ \E healthy \in BOOLEAN : Tuning!StreamIsLost(healthy)
    BY <2>2, StreamSteps
  <2>3. CASE Tuning!TuningIsCopied \/ Tuning!TuningIsRestored
    BY <2>3, RestoreSteps
  <2>4. CASE \/ \E request \in Requests : Tuning!SetBegins(request[1], request[2])
             \/ Tuning!SetSucceeds \/ Tuning!SetFails
    BY <2>4, SetterSteps
  <2>5. CASE Tuning!stop_streaming \/ Tuning!start_streaming \/ Tuning!start_fails
    BY <2>5, SessionSteps
  <2>6. CASE UNCHANGED Tuning!vars
    BY <2>6 DEF Tuning!vars, Tuning!reader_vars, Tuning!caller_vars, Tuning!bound_vars, TuningInv, Tuning!TuningIsKept, Tuning!TypeOK,
                Tuning!TuningHolds, IntentIsPublished, DownIsUntuned
  <2> QED BY <2>1, <2>2, <2>3, <2>4, <2>5, <2>6 DEF Tuning!Next, Tuning!ReaderSteps
<1>3. TuningInv => TuningIsKept
  BY DEF TuningInv, TuningIsKept
<1> QED BY <1>1, <1>2, <1>3, PTL DEF Tuning!Spec
-----------------------------------------------------------------------------
\* Whichever of the two moves, the other stands still.
LEMMA EachMovesByItself == MCSpec => Spec /\ Tuning!Spec
<1>1. MCInit => Init /\ Tuning!Init
  BY DEF MCInit
<1>2. [ReadsMove \/ TuningMoves]_<<part, vars, tuning_vars>>
        => [Next]_vars /\ [Tuning!Next]_Tuning!vars
  <2>1. UNCHANGED tuning_vars => UNCHANGED Tuning!vars
    BY DEF tuning_vars, Tuning!vars, Tuning!reader_vars, Tuning!caller_vars, Tuning!bound_vars
  <2> QED
    BY <2>1 DEF ReadsMove, TuningMoves
<1> QED
  BY <1>1, <1>2, PTL DEF MCSpec, Spec, Tuning!Spec

\* All of it holds of the source whose two halves run side by side.
THEOREM SourceIsTrue == MCSpec => [](TuningIsKept /\ ReadsAreTrue /\ LossesAreFlagged)
BY EachMovesByItself, TuningIsAlwaysKept, ReadsAreAlwaysTrue, LossesAreAlwaysFlagged, PTL
=============================================================================
