------------------------- MODULE DropDetectorProofs -------------------------
(***************************************************************************)
(* The detector's two promises for every packet length, rounding, cap and  *)
(* jitter history within ResolutionAssumption.                             *)
(***************************************************************************)
EXTENDS DropDetector, TLAPS

\* The decay of the jitter peak never raises it: with den >= num,
\* 0 <= (j * num) \div den <= j.
LEMMA DecayShrinks ==
  ASSUME NEW j \in Nat
  PROVE  (j * DecayNum) \div DecayDen \in 0..j
<1> DEFINE q == (j * DecayNum) \div DecayDen
           r == (j * DecayNum) % DecayDen
<1>1. DecayNum \in Nat /\ DecayDen \in Nat /\ DecayDen > 0 /\ DecayNum <= DecayDen
  BY ParameterAssumption
<1>2. j * DecayNum \in Nat /\ j * DecayNum <= j * DecayDen
  BY <1>1, SMT
<1>3. q \in Int /\ r \in 0..(DecayDen - 1) /\ j * DecayNum = DecayDen * q + r
  BY <1>1, <1>2, SMT
<1>4. q >= 0
  BY <1>1, <1>2, <1>3, SMT
<1>5. q <= j
  <2>1. SUFFICES ASSUME q >= j + 1 PROVE FALSE
    BY <1>3
  <2>2. DecayDen * q >= DecayDen * (j + 1)
    BY <1>1, <1>3, <2>1, SMT
  <2>3. DecayDen * (j + 1) > j * DecayDen
    BY <1>1, SMT
  <2> QED BY <1>1, <1>2, <1>3, <2>2, <2>3, SMT
<1> QED BY <1>3, <1>4, <1>5

\* Classify, for a gap measured between two roundings of a true distance
\* jump and durations measured to within two roundings.
LEMMA ClassifyIsSound ==
  ASSUME NEW jump \in Int, NEW gap \in Int, NEW d \in Durations, NEW p \in Durations,
         NEW dm \in Nat, NEW pm \in Nat,
         last_duration = <<pm>>, jitter \in Int,
         Near(gap, jump, 2 * Rounding),
         Near(dm, d, 2 * Rounding), Near(pm, p, 2 * Rounding)
  PROVE  /\ jump >= Smaller(p, d) => Classify(gap, <<dm>>) = "drop"
         /\ -jump >= Smaller(p, d) => Classify(gap, <<dm>>) = "backward"
         /\ jump = 0 => Classify(gap, <<dm>>) = "continuous"
<1> DEFINE low == Smaller(pm, dm)
           tol == tolerance_for4(<<dm>>)
<1>1. /\ d \in Nat /\ p \in Nat /\ Rounding \in Nat
      /\ ResolutionFloor \in Nat /\ Tolerance \in Nat
      /\ d > 14 * Rounding /\ p > 14 * Rounding
      /\ d > ResolutionFloor + 2 * Rounding /\ p > ResolutionFloor + 2 * Rounding
      /\ 2 * Rounding <= ResolutionFloor /\ 2 * Rounding <= Tolerance
  BY ParameterAssumption, ResolutionAssumption DEF ResolutionAssumption
<1>2. Shortest(last_duration, <<dm>>) = <<low>>
  BY DEF Shortest
<1>3. tol = Smaller(Larger(Larger(Smaller(16 * jitter, 3 * low), 2 * low),
                           4 * ResolutionFloor),
                    4 * Tolerance)
  <2>1. Shortest(last_duration, <<dm>>) # <<>> /\ Shortest(last_duration, <<dm>>)[1] = low
    BY <1>2
  <2> HIDE DEF low
  <2> QED BY <2>1 DEF tolerance_for4
<1>4. /\ low \in Nat
      /\ low <= Smaller(p, d) + 2 * Rounding
      /\ low >= Smaller(p, d) - 2 * Rounding
      /\ Smaller(p, d) \in {p, d}
  BY <1>1 DEF Smaller, Near, Abs
<1>5. tol \in Int
  BY <1>1, <1>3, <1>4 DEF Smaller, Larger
<1>6. tol <= Larger(3 * low, 4 * ResolutionFloor)
  BY <1>1, <1>3, <1>4 DEF Smaller, Larger
<1>7. tol >= 8 * Rounding
  BY <1>1, <1>3, <1>4 DEF Smaller, Larger
<1>8. jump - 2 * Rounding <= gap /\ gap <= jump + 2 * Rounding
  BY <1>1 DEF Near, Abs
<1>9. ASSUME jump >= Smaller(p, d) PROVE 4 * gap > tol
  BY <1>1, <1>4, <1>5, <1>6, <1>8, <1>9 DEF Larger
<1>10. ASSUME -jump >= Smaller(p, d) PROVE 4 * (-gap) > tol /\ ~(4 * gap > tol)
  BY <1>1, <1>4, <1>5, <1>6, <1>7, <1>8, <1>10 DEF Larger
<1>11. ASSUME jump = 0 PROVE ~(4 * gap > tol) /\ ~(4 * (-gap) > tol)
  BY <1>1, <1>5, <1>7, <1>8, <1>11
<1> QED BY <1>9, <1>10, <1>11 DEF Classify

\* An optional value is absent or a value.
LEMMA OptionCases ==
  ASSUME NEW S, NEW x \in Option(S)
  PROVE  x = <<>> \/ \E y \in S : x = <<y>>
<1>1. x \in Seq(S) /\ Len(x) \in {0, 1}
  BY DEF Option
<1>2. CASE Len(x) = 0
  BY <1>1, <1>2
<1>3. CASE Len(x) = 1
  <2>1. x[1] \in S /\ x = <<x[1]>>
    BY <1>1, <1>3
  <2> QED BY <2>1
<1> QED BY <1>1, <1>2, <1>3

\* Whatever the history, the tolerance lies between nothing and the cap.
LEMMA ToleranceIsCapped ==
  ASSUME TypeOK, NEW this \in Option(Nat \ {0})
  PROVE  tolerance_for4(this) \in 0..(4 * Tolerance)
<1> DEFINE shortest == Shortest(last_duration, this)
<1>1. Tolerance \in Nat /\ ResolutionFloor \in Nat /\ jitter \in Nat
  BY ParameterAssumption DEF TypeOK
<1>2. shortest = <<>> \/ \E x \in Nat : shortest = <<x>>
  <2>1. /\ last_duration = <<>> \/ \E x \in Nat \ {0} : last_duration = <<x>>
        /\ this = <<>> \/ \E x \in Nat \ {0} : this = <<x>>
    BY OptionCases DEF TypeOK
  <2> QED BY <2>1 DEF Shortest, Smaller
<1>3. CASE shortest = <<>>
  BY <1>1, <1>3 DEF tolerance_for4
<1>4. CASE \E x \in Nat : shortest = <<x>>
  <2>1. PICK x \in Nat : shortest = <<x>>
    BY <1>4
  <2>2. tolerance_for4(this) =
          Smaller(Larger(Larger(Smaller(16 * jitter, 3 * x), 2 * x),
                         4 * ResolutionFloor),
                  4 * Tolerance)
    <3>1. shortest # <<>> /\ shortest[1] = x
      BY <2>1
    <3> QED BY <3>1 DEF tolerance_for4
  <2> QED BY <1>1, <2>2 DEF Smaller, Larger
<1> QED BY <1>2, <1>3, <1>4

\* What observe leaves behind, whatever the timestamps say.
LEMMA ObserveType ==
  ASSUME TypeOK, NEW start \in Int, NEW stop \in Int, observe(start, stop)
  PROVE  /\ last_end' = <<stop>>
         /\ last_duration' \in Option(Nat \ {0})
         /\ jitter' \in 0..Tolerance
         /\ drops' \in Nat /\ backward_steps' \in Nat /\ cumulative_gap' \in Nat
         /\ result' \in Results
<1> DEFINE this    == duration_of(start, stop)
           gap     == start - last_end[1]
           verdict == IF last_end = <<>> THEN "continuous" ELSE Classify(gap, this)
<1>1. this \in Option(Nat \ {0})
  BY DEF duration_of, Option
<1>2. last_end # <<>> => gap \in Int
  BY DEF TypeOK, Option
<1>3. Tolerance \in Nat /\ tolerance_for4(this) \in 0..(4 * Tolerance)
  BY <1>1, ToleranceIsCapped, ParameterAssumption
<1>4. verdict \in {"continuous", "drop", "backward"}
  BY DEF Classify
<1>5. last_end # <<>> /\ verdict = "drop" => gap > 0
  BY <1>2, <1>3 DEF Classify
<1>6. last_end # <<>> /\ verdict = "continuous" => Abs(gap) \in 0..Tolerance
  BY <1>2, <1>3, SMTT(30) DEF Classify, Abs
<1>7. (jitter * DecayNum) \div DecayDen \in 0..Tolerance
  <2>1. jitter \in Nat /\ jitter <= Tolerance
    BY DEF TypeOK
  <2> QED BY <2>1, <1>3, DecayShrinks
<1>8. jitter' \in 0..Tolerance
  <2> HIDE DEF verdict, gap
  <2> QED BY <1>3, <1>6, <1>7 DEF observe, TypeOK, Larger, verdict, gap
<1>9. cumulative_gap' \in Nat
  BY <1>2, <1>5 DEF observe, TypeOK
<1>10. last_end' = <<stop>> /\ last_duration' = this
  BY DEF observe
<1>11. drops' \in Nat /\ backward_steps' \in Nat /\ result' \in Results
  BY <1>4 DEF observe, TypeOK, Results
<1> QED BY <1>1, <1>8, <1>9, <1>10, <1>11

\* A packet with honest timestamps keeps the detector's memory true and is
\* classified by what really happened before it.
LEMMA PacketStep ==
  ASSUME Inv, NEW d \in Durations, NEW jump \in Jumps,
         NEW e1 \in Errors, NEW e2 \in Errors, Packet(d, jump, e1, e2)
  PROVE  Inv'
<1> DEFINE start == clock + jump + e1
           stop  == clock + jump + d + e2
<1>1. /\ d \in Nat /\ jump \in Int /\ Rounding \in Nat /\ clock \in Int
      /\ e1 \in Int /\ -Rounding <= e1 /\ e1 <= Rounding
      /\ e2 \in Int /\ -Rounding <= e2 /\ e2 <= Rounding
      /\ d > 14 * Rounding
  BY ParameterAssumption, ResolutionAssumption
     DEF ResolutionAssumption, Errors, Inv, TypeOK
<1>2. /\ start \in Int /\ stop \in Int /\ stop - start \in Nat \ {0}
      /\ duration_of(start, stop) = <<stop - start>>
      /\ Near(stop - start, d, 2 * Rounding)
  BY <1>1 DEF duration_of, Near, Abs
<1>3. observe(start, stop)
  <2>1. start = clock + jump + e1 /\ stop = (clock + jump) + d + e2
    OBVIOUS
  <2> QED BY <2>1 DEF Packet
<1>4. /\ last_end' = <<stop>> /\ last_duration' = <<stop - start>>
      /\ clock' = clock + jump + d
      /\ truth' = [seeded |-> last_end # <<>> /\ last_duration # <<>>,
                   jump |-> jump, dur |-> d, prev |-> truth.dur]
  BY <1>2, <1>3 DEF Packet, observe
<1>5. TypeOK'
  <2>1. truth' \in [seeded : BOOLEAN, jump : Int, dur : Nat, prev : Nat]
    BY <1>1, <1>4 DEF Inv, TypeOK
  <2>2. clock' \in Int /\ packets' \in 0..MaxPackets
    BY <1>1, <1>4, ParameterAssumption DEF Packet, Inv, TypeOK
  <2>3. last_end' \in Option(Int)
    BY <1>2, <1>4 DEF Option
  <2> QED BY <1>2, <1>3, <2>1, <2>2, <2>3, ObserveType DEF Inv, TypeOK
<1>6. MemoryIsTrue'
  <2>1. Near(stop, clock', Rounding)
    BY <1>1, <1>4 DEF Near, Abs
  <2> QED BY <1>2, <1>4, <2>1 DEF MemoryIsTrue
<1>7. CASE truth'.seeded
  <2> DEFINE gap == start - last_end[1]
             p   == truth.dur
  <2>1. last_end # <<>> /\ last_duration # <<>>
    BY <1>4, <1>7
  <2>2. /\ p \in Durations
        /\ Near(last_end[1], clock, Rounding)
        /\ Near(last_duration[1], p, 2 * Rounding)
    BY <2>1 DEF Inv, MemoryIsTrue
  <2>3. last_end[1] \in Int /\ last_duration = <<last_duration[1]>>
                /\ last_duration[1] \in Nat
    BY <2>1, OptionCases DEF Inv, TypeOK
  <2>4. gap \in Int /\ Near(gap, jump, 2 * Rounding)
    BY <1>1, <2>2, <2>3 DEF Near, Abs
  <2>5. result' = Classify(gap, <<stop - start>>)
    BY <1>2, <1>3, <2>1 DEF observe
  <2>6. jitter \in Int /\ stop - start \in Nat
    BY <1>2, ParameterAssumption DEF Inv, TypeOK
  <2>7. /\ jump >= Smaller(p, d) => result' = "drop"
        /\ -jump >= Smaller(p, d) => result' = "backward"
        /\ jump = 0 => result' = "continuous"
    <3> HIDE DEF gap, p, start, stop
    <3> QED BY <1>1, <1>2, <2>2, <2>3, <2>4, <2>5, <2>6, ClassifyIsSound
  <2> QED BY <1>4, <1>5, <1>6, <2>7 DEF Inv, WholePacketsShow, SequenceIsQuiet
<1>8. CASE ~truth'.seeded
  BY <1>5, <1>6, <1>8 DEF Inv, WholePacketsShow, SequenceIsQuiet
<1> QED BY <1>7, <1>8

LEMMA UndatedStep ==
  ASSUME Inv, NEW d \in Durations, Undated(d)
  PROVE  Inv'
<1>1. clock \in Int /\ d \in Nat
  BY ParameterAssumption DEF Inv, TypeOK
<1>2. observe(clock, clock) /\ last_end' = <<clock>> /\ last_duration' = <<>>
  BY <1>1 DEF Undated, observe, duration_of
<1>3. truth' = [Unknown EXCEPT !.dur = d] /\ ~truth'.seeded
  BY DEF Undated, Unknown
<1>4. TypeOK'
  <2>1. truth' \in [seeded : BOOLEAN, jump : Int, dur : Nat, prev : Nat]
    <3>1. truth' = [seeded |-> FALSE, jump |-> 0, dur |-> d, prev |-> 0]
      BY <1>3 DEF Unknown
    <3> QED BY <1>1, <3>1
  <2>2. clock' \in Int /\ packets' \in 0..MaxPackets
    BY <1>1, ParameterAssumption DEF Undated, Inv, TypeOK
  <2>3. last_end' \in Option(Int)
    BY <1>1, <1>2 DEF Option
  <2> QED BY <1>1, <1>2, <2>1, <2>2, <2>3, ObserveType DEF Inv, TypeOK
<1> QED BY <1>2, <1>3, <1>4 DEF Inv, MemoryIsTrue, WholePacketsShow, SequenceIsQuiet

\* Forgetting the last packet, with or without the calibration and totals.
LEMMA ForgetStep ==
  ASSUME Inv, resync \/ reset
  PROVE  Inv'
<1>1. ~truth'.seeded /\ last_duration' = <<>> /\ last_end' = <<>>
  BY DEF resync, reset, Unknown
<1>2. TypeOK'
  <2>1. truth' = [seeded |-> FALSE, jump |-> 0, dur |-> 0, prev |-> 0]
    BY DEF resync, reset, Unknown
  <2>2. truth' \in [seeded : BOOLEAN, jump : Int, dur : Nat, prev : Nat]
    BY <2>1
  <2>3. last_end' \in Option(Int) /\ last_duration' \in Option(Nat \ {0})
    BY <1>1 DEF Option
  <2>4. /\ jitter' \in 0..Tolerance
        /\ drops' \in Nat /\ backward_steps' \in Nat /\ cumulative_gap' \in Nat
        /\ clock' \in Int /\ packets' \in 0..MaxPackets
    BY ParameterAssumption, SMTT(30) DEF resync, reset, Inv, TypeOK
  <2>5. result' \in Results
    BY DEF resync, reset, Results
  <2> QED BY <2>2, <2>3, <2>4, <2>5 DEF TypeOK
<1> QED BY <1>1, <1>2 DEF Inv, MemoryIsTrue, WholePacketsShow, SequenceIsQuiet

\* Inv is inductive.
THEOREM InvIsInvariant == Spec => []Inv
<1>1. Init => Inv
  BY ParameterAssumption
     DEF Init, Inv, TypeOK, MemoryIsTrue, WholePacketsShow, SequenceIsQuiet,
         Unknown, Option, Results
<1>2. Inv /\ [Next]_vars => Inv'
  <2> SUFFICES ASSUME Inv, [Next]_vars PROVE Inv'
    OBVIOUS
  <2>1. ASSUME NEW d \in Durations, NEW jump \in Jumps,
               NEW e1 \in Errors, NEW e2 \in Errors, Packet(d, jump, e1, e2)
        PROVE  Inv'
    BY <2>1, PacketStep
  <2>2. ASSUME NEW d \in Durations, Undated(d) PROVE Inv'
    BY <2>2, UndatedStep
  <2>3. ASSUME resync \/ reset PROVE Inv'
    BY <2>3, ForgetStep
  <2>4. CASE UNCHANGED vars
    BY <2>4 DEF vars, detector, Inv, TypeOK, MemoryIsTrue, WholePacketsShow,
                SequenceIsQuiet
  <2> QED BY <2>1, <2>2, <2>3, <2>4 DEF Next
<1> QED BY <1>1, <1>2, PTL DEF Spec

\* However noisy the timestamps have been, a lost packet is reported as a drop
\* and a clock stepping back by a packet as a backward step (DropDetector's
\* PACKET_CEILING), for every packet length and rounding within the resolution.
THEOREM LostPacketsAreReported == Spec => []WholePacketsShow
BY InvIsInvariant, PTL DEF Inv

\* The rounding of printed timestamps alone never reports a drop
\* (RESOLUTION_FLOOR and PACKET_FRACTION).
THEOREM RoundingIsNotReported == Spec => []SequenceIsQuiet
BY InvIsInvariant, PTL DEF Inv
=============================================================================
