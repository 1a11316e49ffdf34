---------------------------- MODULE StreamTypes ----------------------------
(***************************************************************************)
(* What the modules about HttpSource's output share: the samples, the      *)
(* geometry a packet declares for them, and when two samples follow one    *)
(* another.                                                                *)
(*                                                                         *)
(* A sample is [t, nr, geo]: t is the sample clock of the packet timestamp *)
(* it arrived under (in sample periods), nr numbers what the server sent   *)
(* (lost samples and every jump of the timestamps take a number of their   *)
(* own), geo is the geometry its packet declared.  Only t and geo are      *)
(* visible to the code; nr is how the properties know what really          *)
(* happened.                                                               *)
(***************************************************************************)
EXTENDS Integers, Sequences

CONSTANTS
  Geometries,     \* the [center, rate] pairs a packet header may declare
  CenterChange,   \* CENTER_CHANGE_HZ: a centre move above this is a retune
  RateBand,       \* 1 / RATE_CHANGE_BAND: a rate move above 1/RateBand is one
  Skews,          \* timestamp errors a packet may arrive with; 0 is in sequence
  PacketLens,     \* samples in one packet
  MaxSamples      \* bound: how many numbers the server gives out

ASSUME GeometriesAssumption ==
  Geometries \subseteq [center : Int, rate : Nat]

ASSUME ToleranceAssumption == CenterChange \in Nat /\ RateBand \in Nat

ASSUME TrafficAssumption ==
  /\ Skews \subseteq Int
  /\ PacketLens \subseteq Nat
  /\ MaxSamples \in Nat

Geometry == [center : Int, rate : Nat]

\* A header with neither sampleFrequency nor a duration yields rate 0; the
\* same value stands for "no geometry yet" in the Option fields of the source.
NoGeometry == [center |-> 0, rate |-> 0]

Declared(g) == g.rate > 0

Distance(a, b) == IF a < b THEN b - a ELSE a - b

\* http_streaming.rs rate_moved: |current - previous| / previous > 10 %.
rate_moved(previous, current) ==
  RateBand * Distance(previous, current) > previous

\* The test of note_geometry: centre or rate outside the tolerance around
\* the geometry that was last announced.
Moved(announced, g) ==
  \/ Distance(announced.center, g.center) > CenterChange
  \/ rate_moved(announced.rate, g.rate)

Sample == [t : Int, nr : Nat, geo : Geometry]

\* b is the very next sample the device took after a.
Contiguous(a, b) == b.t = a.t + 1 /\ b.nr = a.nr + 1

\* The n samples of a packet stamped t0, the first of them number first + 1.
PacketSamples(t0, first, n, g) ==
  [j \in 1..n |-> [t |-> t0 + j - 1, nr |-> first + j, geo |-> g]]

Smaller(a, b) == IF a < b THEN a ELSE b
Larger(a, b) == IF a < b THEN b ELSE a
=============================================================================
