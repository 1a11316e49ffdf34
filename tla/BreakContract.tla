--------------------------- MODULE BreakContract ---------------------------
(***************************************************************************)
(* What a consumer of HttpSource with a StreamBreakSink is promised        *)
(* (stream_break.rs, "The contract"), without queues of offsets: every     *)
(* sample carries a label that says whether a gap is reported immediately  *)
(* before it and which geometry the consumer has last been told at it.     *)
(* StreamBreaks, the source's bookkeeping, is checked to implement this.   *)
(***************************************************************************)
EXTENDS StreamTypes

VARIABLES
  out,     \* labelled samples the consumer can see
  queue,   \* labelled samples received and not yet produced
  tail,    \* label the next sample to be queued will carry at least
  end,     \* sample clock at which the last packet ended
  sent     \* the number of the last sample the server gave one

vars == <<out, queue, tail, end, sent>>

Label == [gap : BOOLEAN, ann : Geometry]
Labelled == [s : Sample, gap : BOOLEAN, ann : Geometry]

TypeOK ==
  /\ out \in Seq(Labelled)
  /\ queue \in Seq(Labelled)
  /\ tail \in Label
  /\ end \in Int
  /\ sent \in Nat

Init ==
  /\ out = <<>>
  /\ queue = <<>>
  /\ tail = [gap |-> FALSE, ann |-> NoGeometry]
  /\ end = 0
  /\ sent = 0

\* Nothing precedes the first sample of the run, so no gap is reported there.
HasPredecessor == out # <<>> \/ queue # <<>>

\* The last word on geometry the consumer has had.
Told == IF out = <<>> THEN NoGeometry ELSE out[Len(out)].ann

\* Mutant: only a centre that moves is announced.
Announced_center(ann, g) ==
  IF Declared(g) /\ (~Declared(ann) \/ Distance(ann.center, g.center) > CenterChange)
  THEN g ELSE ann

\* What a packet declaring g announces, given what was announced before it.
Announced(ann, g) ==
  IF Declared(g) /\ (~Declared(ann) \/ Moved(ann, g)) THEN g ELSE ann

\* Mutant: the hole a trim makes is not marked.
Discard_unmarked(q, d) == SubSeq(q, d + 1, Len(q))

\* Samples leave the front of the queue unseen: the first one that stays now
\* follows a hole, unless nothing was ever produced before it.
Discard(q, d) ==
  [i \in 1..(Len(q) - d) |->
     IF i = 1 /\ d > 0 THEN [q[d + 1] EXCEPT !.gap = out # <<>>] ELSE q[i + d]]

\* A packet of n samples stamped t0 is queued; the source may give up the d
\* oldest queued samples to make room.
Arrive(t0, n, g, d) ==
  LET first == IF t0 = end THEN sent ELSE sent + 1
      gap   == tail.gap \/ (HasPredecessor /\ t0 # end)
      ann   == Announced(tail.ann, g)
      s     == PacketSamples(t0, first, n, g)
      new   == [j \in 1..n |-> [s |-> s[j], gap |-> gap /\ j = 1, ann |-> ann]]
      grown == queue \o new
  IN  /\ first + n <= MaxSamples
      /\ d < Len(grown) \/ d = 0
      /\ queue' = Discard(grown, d)
      /\ tail' = [gap |-> gap /\ n = 0, ann |-> ann]
      /\ end' = t0 + n
      /\ sent' = first + n
      /\ UNCHANGED out

\* Samples are lost between the server and the queue.
Lose(n) ==
  /\ sent + n <= MaxSamples
  /\ tail' = [tail EXCEPT !.gap = HasPredecessor]
  /\ end' = end + n
  /\ sent' = sent + n
  /\ UNCHANGED <<out, queue>>

\* The queue is thrown away whole: the next sample follows what was produced,
\* and is labelled against what the consumer was told of that.
Clear ==
  /\ sent < MaxSamples
  /\ queue' = <<>>
  /\ tail' = [gap |-> out # <<>>, ann |-> Told]
  /\ end' = end + 1
  /\ sent' = sent + 1
  /\ UNCHANGED out

Produce(n) ==
  /\ out' = out \o SubSeq(queue, 1, n)
  /\ queue' = SubSeq(queue, n + 1, Len(queue))
  /\ UNCHANGED <<tail, end, sent>>

Next ==
  \/ \E skew \in Skews, n \in PacketLens, g \in Geometries, d \in 0..Len(queue) :
        Arrive(end + skew, n, g, d)
  \/ \E n \in (PacketLens \cup {1}) \ {0} : Lose(n)
  \/ Clear
  \/ \E n \in 1..Len(queue) : Produce(n)

Spec == Init /\ [][Next]_vars
-----------------------------------------------------------------------------
\* Labelled samples in which a gap stands exactly where the next sample is not
\* the one the device took after the last, and never before the first.
GapsIn(S) ==
  \A i \in 1..Len(S) : S[i].gap <=> i > 1 /\ ~Contiguous(S[i-1].s, S[i].s)

\* Labelled samples each of which, if its packet declared a geometry, stands
\* under an announced geometry within tolerance of its own.
GeometryIn(S) ==
  \A i \in 1..Len(S) :
     Declared(S[i].s.geo) => Declared(S[i].ann) /\ ~Moved(S[i].ann, S[i].s.geo)

\* The promise about time (stream_break.rs, Gap): every discontinuity between
\* two samples the consumer gets next to each other is reported at its exact
\* index, and no other is.
GapsAreExact == GapsIn(out)

\* The promise about meaning (stream_break.rs, Initial and Retune): no sample
\* reaches the consumer under a stale geometry, however slowly it crept.
GeometryIsTold == GeometryIn(out)
-----------------------------------------------------------------------------
\* The strengthening that makes both inductive: the same of what is still
\* queued, and what the tail label stands for.
Stream == out \o queue

OrderedIn(S) ==
  \A i, j \in 1..Len(S) : i < j => S[i].s.nr < S[j].s.nr

TailIsExact ==
  /\ Stream = <<>> => ~tail.gap
  /\ Stream # <<>> =>
       LET last == Stream[Len(Stream)].s
       IN  /\ last.nr <= sent
           /\ tail.gap <=> last.nr < sent
           /\ ~tail.gap => last.t + 1 = end

Inv ==
  /\ TypeOK
  /\ OrderedIn(Stream) /\ GapsIn(Stream) /\ GeometryIn(Stream)
  /\ TailIsExact
=============================================================================
