---------------------------- MODULE DropDetector ----------------------------
(***************************************************************************)
(* DropDetector of http_streaming.rs: decides from packet timestamps alone *)
(* whether one packet follows the previous one.  HttpSource keeps one for  *)
(* its whole life; each run of SpectranSource's HTTP reader task makes its *)
(* own.                                                                    *)
(*                                                                         *)
(* Times are integers in units of the server's timestamp print resolution  *)
(* (1 us), seconds and f64 in the code; the decay of the jitter peak       *)
(* rounds down.  Option<f64> is <<>> or <<x>>.                             *)
(***************************************************************************)
EXTENDS Integers, Sequences

CONSTANTS
  Tolerance,        \* DropDetector::tolerance, the cap
  ResolutionFloor,  \* RESOLUTION_FLOOR
  DecayNum, DecayDen,  \* JITTER_DECAY = 999 / 1000
  Durations,        \* true durations of the packets a server may send
  Jumps,            \* true distance between a packet and the one before it
  Rounding,         \* how far a printed timestamp may be from the true one
  MaxPackets        \* bound: packets in a run

ASSUME ParameterAssumption ==
  /\ Tolerance \in Nat /\ ResolutionFloor \in Nat
  /\ DecayNum \in Nat /\ DecayDen \in Nat \ {0} /\ DecayNum <= DecayDen
  /\ Durations \subseteq Nat /\ Jumps \subseteq Int
  /\ Rounding \in Nat /\ MaxPackets \in Nat

\* Timestamps are printed finely enough for the packets they stamp: at 1 us
\* resolution, packets longer than 14 us.  Both roundings of a boundary fit
\* under the floor and the cap.
ResolutionAssumption ==
  /\ \A d \in Durations : d > 14 * Rounding /\ d > ResolutionFloor + 2 * Rounding
  /\ 2 * Rounding <= ResolutionFloor
  /\ 2 * Rounding <= Tolerance

ASSUME ResolutionAssumption

VARIABLES
  last_end, last_duration, jitter, drops, backward_steps, cumulative_gap,
  result,   \* what observe returned for the last packet
  clock,    \* where, on the server's clock, the last packet truly ended
  packets,  \* how many packets have arrived
  truth     \* [seeded, dated, jump, dur, prev]: what really happened

detector == <<last_end, last_duration, jitter, drops, backward_steps, cumulative_gap>>
vars == <<detector, result, clock, packets, truth>>

Results == {"none", "continuous", "drop", "backward"}

Option(S) == {x \in Seq(S) : Len(x) \in {0, 1}}

TypeOK ==
  /\ last_end \in Option(Int)
  /\ last_duration \in Option(Nat \ {0})
  /\ jitter \in 0..Tolerance
  /\ drops \in Nat /\ backward_steps \in Nat /\ cumulative_gap \in Nat
  /\ result \in Results
  /\ clock \in Int /\ packets \in 0..MaxPackets
  /\ truth \in [seeded : BOOLEAN, jump : Int, dur : Nat, prev : Nat]

Unknown == [seeded |-> FALSE, jump |-> 0, dur |-> 0, prev |-> 0]

Init ==
  /\ last_end = <<>> /\ last_duration = <<>> /\ jitter = 0
  /\ drops = 0 /\ backward_steps = 0 /\ cumulative_gap = 0
  /\ result = "none" /\ clock = 0 /\ packets = 0 /\ truth = Unknown
-----------------------------------------------------------------------------
Smaller(a, b) == IF a < b THEN a ELSE b
Larger(a, b) == IF a < b THEN b ELSE a
Abs(x) == IF x < 0 THEN -x ELSE x

\* A packet's own duration, when its timestamps give one.
duration_of(start, stop) == IF stop > start THEN <<stop - start>> ELSE <<>>

Shortest(last, this) ==
  IF last = <<>> THEN this
  ELSE IF this = <<>> THEN last
  ELSE <<Smaller(last[1], this[1])>>

\* Mutant: the margin over the jitter is not held below a packet.
tolerance_for4_unbounded(this) ==
  LET shortest == Shortest(last_duration, this)
  IN  IF shortest = <<>> THEN 4 * Tolerance
      ELSE Smaller(Larger(Larger(16 * jitter, 2 * shortest[1]), 4 * ResolutionFloor),
                   4 * Tolerance)

\* Mutant: only what has been seen is tolerated.
tolerance_for4_unfloored(this) == Smaller(16 * jitter, 4 * Tolerance)

\* Four times the tolerance for a packet of this duration: 4 * jitter, kept
\* between 1/2 and 3/4 of the shorter packet, above the resolution of the
\* timestamps and below the cap.  (Times four, to stay in integers.)
tolerance_for4(this) ==
  LET shortest == Shortest(last_duration, this)
  IN  IF shortest = <<>> THEN 4 * Tolerance
      ELSE Smaller(Larger(Larger(Smaller(16 * jitter, 3 * shortest[1]),
                                 2 * shortest[1]),
                          4 * ResolutionFloor),
                   4 * Tolerance)

Classify(gap, this) ==
  IF 4 * gap > tolerance_for4(this) THEN "drop"
  ELSE IF 4 * (-gap) > tolerance_for4(this) THEN "backward"
  ELSE "continuous"

observe(start, stop) ==
  LET this    == duration_of(start, stop)
      gap     == start - last_end[1]
      verdict == IF last_end = <<>> THEN "continuous" ELSE Classify(gap, this)
  IN  /\ result' = verdict
      /\ drops' = IF verdict = "drop" THEN drops + 1 ELSE drops
      /\ cumulative_gap' = IF verdict = "drop" THEN cumulative_gap + gap
                           ELSE cumulative_gap
      /\ backward_steps' = IF verdict = "backward" THEN backward_steps + 1
                           ELSE backward_steps
      /\ jitter' = IF last_end # <<>> /\ verdict = "continuous"
                   THEN Larger((jitter * DecayNum) \div DecayDen, Abs(gap))
                   ELSE jitter
      /\ last_end' = <<stop>>
      /\ last_duration' = this
-----------------------------------------------------------------------------
\* A packet of true duration dur arrives, its start jump away from where the
\* last one truly ended: 0 in sequence, above it signal is missing, below it
\* the clock stepped back.  Both timestamps are printed with an error.
Packet(dur, jump, e1, e2) ==
  LET start == clock + jump
      stop  == start + dur
  IN  /\ packets < MaxPackets /\ packets' = packets + 1
      /\ observe(start + e1, stop + e2)
      /\ clock' = stop
      /\ truth' = [seeded |-> last_end # <<>> /\ last_duration # <<>>,
                   jump |-> jump, dur |-> dur, prev |-> truth.dur]

\* A packet whose header gives no duration: it ends where it starts.
Undated(dur) ==
  /\ packets < MaxPackets /\ packets' = packets + 1
  /\ observe(clock, clock)
  /\ clock' = clock + dur
  /\ truth' = [Unknown EXCEPT !.dur = dur]

\* A reconnect or a lost packet: the calibration and the totals stay.
resync ==
  /\ last_end' = <<>> /\ last_duration' = <<>>
  /\ result' = "none" /\ truth' = Unknown
  /\ UNCHANGED <<jitter, drops, backward_steps, cumulative_gap, clock, packets>>

reset ==
  /\ last_end' = <<>> /\ last_duration' = <<>> /\ jitter' = 0
  /\ drops' = 0 /\ backward_steps' = 0 /\ cumulative_gap' = 0
  /\ result' = "none" /\ truth' = Unknown
  /\ UNCHANGED <<clock, packets>>

Errors == -Rounding..Rounding

Next ==
  \/ \E dur \in Durations, jump \in Jumps, e1, e2 \in Errors : Packet(dur, jump, e1, e2)
  \/ \E dur \in Durations : Undated(dur)
  \/ resync
  \/ reset

Spec == Init /\ [][Next]_vars
-----------------------------------------------------------------------------
\* However noisy the timestamps have been, a hole at least as long as the
\* shorter of the packets around it (a lost packet, that is) is reported as a
\* drop, and a step back that long as a backward step.
WholePacketsShow ==
  truth.seeded =>
    /\ truth.jump >= Smaller(truth.prev, truth.dur) => result = "drop"
    /\ -truth.jump >= Smaller(truth.prev, truth.dur) => result = "backward"

\* Print rounding alone never raises an alarm.
SequenceIsQuiet ==
  truth.seeded /\ truth.jump = 0 => result = "continuous"

\* What makes them inductive: the detector's memory is the truth up to the
\* rounding of two timestamps.
Near(a, b, r) == Abs(a - b) <= r

MemoryIsTrue ==
  /\ last_duration # <<>> => last_end # <<>>
  /\ last_duration # <<>> =>
       /\ truth.dur \in Durations
       /\ Near(last_end[1], clock, Rounding)
       /\ Near(last_duration[1], truth.dur, 2 * Rounding)

Inv ==
  TypeOK /\ MemoryIsTrue /\ WholePacketsShow /\ SequenceIsQuiet
=============================================================================
