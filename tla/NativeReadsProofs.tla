------------------------- MODULE NativeReadsProofs -------------------------
(***************************************************************************)
(* Proofs about NativeReads: what a caller gets of the SDK's queue, for    *)
(* any packets and any reads.                                              *)
(*                                                                         *)
(* Between the device and the caller a sample is in the queue, in what was *)
(* carried over, in the buffer of the read, or it is the last one the      *)
(* caller has.  The invariant says that those four stay in this order,     *)
(* that what is carried over is the rest of the packet the last sample     *)
(* came from, and that whatever is missing between two of them is told by  *)
(* a flag that is still to be read.                                        *)
(***************************************************************************)
EXTENDS NativeReads, SequenceTheorems, TLAPS

\* Of a sequence of samples, or of two.
Rising(s) == \A i, j \in 1..Len(s) : i < j => s[i].number < s[j].number
Precede(s, t) == \A i \in 1..Len(s) : \A j \in 1..Len(t) : s[i].number < t[j].number
Consecutive(s) == \A i \in 1..Len(s) : s[i].number = s[1].number + (i - 1)
Between(s, low, high) == \A i \in 1..Len(s) : low < s[i].number /\ s[i].number <= high
AllOf(s, geo) == \A i \in 1..Len(s) : s[i].geo = geo
Follow(x, s) == \A i \in 1..Len(s) : x < s[i].number

LastOf(s) == s[Len(s)].number

NothingIsCarried == \A m \in Modes : carry[m] = <<>>

\* The last sample of the caller's, the read's counted.
LastRead == IF buffer = <<>> THEN previous ELSE LastOf(buffer)

\* The calls of a read: what is wanted is what is not there yet, and nothing is
\* carried over while packets are taken.
CallsAreInStep ==
  /\ pc = "idle" => buffer = <<>> /\ remaining = 0 /\ inner = 0
  /\ pc # "idle" => stream_active /\ read_mode = mode
  /\ pc = "poll" => Len(buffer) + remaining = max_samples /\ inner <= Len(buffer)
  /\ pc = "poll" /\ remaining > 0 => carry[mode] = <<>>
  /\ ~stream_active => queue = <<>> /\ NothingIsCarried

SamplesAreOfSession ==
  /\ previous = 0 \/ previous > began
  /\ Between(buffer, began, taken)
  /\ \A m \in Modes : Between(carry[m], began, taken)
  /\ \A i \in 1..Len(queue) : Between(queue[i].samples, began, taken)

PacketsAreWhole ==
  \A i \in 1..Len(queue) :
     /\ Consecutive(queue[i].samples) /\ AllOf(queue[i].samples, queue[i].geo)
     /\ \A j \in 1..Len(queue) : i < j => Precede(queue[i].samples, queue[j].samples)

InOrder ==
  ~twice =>
  /\ Rising(buffer) /\ Follow(previous, buffer)
  /\ \A m \in Modes :
        /\ Follow(previous, carry[m]) /\ Precede(buffer, carry[m])
        /\ \A i \in 1..Len(queue) : Precede(carry[m], queue[i].samples)
  /\ \A i \in 1..Len(queue) : Follow(previous, queue[i].samples) /\ Precede(buffer, queue[i].samples)

\* What is carried over comes next.
CarryIsNext ==
  \A m \in Modes :
     carry[m] # <<>> =>
       /\ LastRead # 0 /\ carry[m][1].number = LastRead + 1
       /\ Consecutive(carry[m]) /\ AllOf(carry[m], observed)

\* An overrun the caller will be told of, or was since its last sample.
Excused == overrun_pending \/ (told /\ buffer = <<>>)

\* Everything up to number is with the caller, or to be carried to it, or its loss
\* is told.
Reached(number) ==
  IF NothingIsCarried
    THEN LastRead = 0 \/ number <= LastRead \/ Excused
    ELSE \E m \in Modes : carry[m] # <<>> /\ number <= LastOf(carry[m])

\* The first k packets of the queue end with number, or have nothing in them and it is
\* with the caller.
Complete(k, number) ==
  \/ \E i \in 1..k : /\ queue[i].samples # <<>> /\ LastOf(queue[i].samples) = number
                     /\ \A j \in 1..k : j > i => queue[j].samples = <<>>
  \/ (\A i \in 1..k : queue[i].samples = <<>>) /\ Reached(number)

HolesAreFlagged ==
  \A x \in 0..taken :
    /\ \A k \in 1..Len(queue) :
          /\ queue[k].samples # <<>> /\ ~queue[k].warned
          /\ queue[k].samples[1].number = x + 1
          => Complete(k - 1, x)
    /\ stream_active /\ ~lost /\ x = taken => Complete(Len(queue), x)

HolesAreTold ==
  /\ ~overrun_pending =>
        \A i \in 1..Len(buffer) : i # 1 => buffer[i].number <= buffer[i - 1].number + 1
  /\ ~overrun_pending /\ ~told /\ buffer # <<>> /\ previous # 0 => buffer[1].number <= previous + 1

\* One call of read_samples_within takes packets of one geometry.
CallsHaveOneMapping ==
  ~by_deadline =>
    /\ pc = "begin" => buffer = <<>>
    /\ pc # "begin" => AllOf(buffer, observed)
    /\ pc = "poll" /\ buffer # <<>> => got_packet /\ read_geometry = observed

Inv ==
  /\ TypeOK /\ CallsAreInStep /\ SamplesAreOfSession /\ PacketsAreWhole
  /\ InOrder /\ CarryIsNext /\ HolesAreFlagged /\ HolesAreTold /\ CallsHaveOneMapping
-----------------------------------------------------------------------------
(***************************************************************************)
(* Sequences.                                                              *)
(***************************************************************************)
Numbered(s) == Len(s) \in Nat /\ \A i \in 1..Len(s) : s[i].number \in Nat

LEMMA SamplesAreNumbered ==
  ASSUME NEW s \in Seq(Sample)
  PROVE  Numbered(s)
<1>1. \A i \in 1..Len(s) : s[i] \in Sample
  OBVIOUS
<1>2. \A x \in Sample : x.number \in Nat
  BY DEF Sample
<1> QED
  BY <1>1, <1>2 DEF Numbered

LEMMA ConsecutiveIs ==
  ASSUME NEW s, Numbered(s), Consecutive(s)
  PROVE  /\ Rising(s)
         /\ \A i \in 1..Len(s) : s[i].number = s[1].number + (i - 1) /\ s[1].number \in Nat
BY DEF Numbered, Consecutive, Rising

\* Samples go from the front of s to the end of b: b2 and t are what becomes of
\* them.
Moved(b, s, b2, t) ==
  /\ Numbered(b) /\ Numbered(s) /\ Numbered(b2) /\ Numbered(t)
  /\ Len(b2) >= Len(b) /\ Len(b2) + Len(t) = Len(b) + Len(s)
  /\ \A i \in 1..Len(b) : b2[i] = b[i]
  /\ \A i \in 1..Len(b2) : i > Len(b) => b2[i] = s[i - Len(b)]
  /\ \A i \in 1..Len(t) : t[i] = s[i + (Len(b2) - Len(b))]

LEMMA SplitIs ==
  ASSUME NEW s \in Seq(Sample), NEW n \in 0..Len(s), NEW p, NEW t,
         p = SubSeq(s, 1, n), t = SubSeq(s, n + 1, Len(s))
  PROVE  /\ p \in Seq(Sample) /\ Len(p) = n /\ \A i \in 1..n : p[i] = s[i]
         /\ t \in Seq(Sample) /\ Len(t) = Len(s) - n /\ \A i \in 1..Len(t) : t[i] = s[i + n]
<1>1. p \in Seq(Sample) /\ Len(p) = n /\ \A i \in 1..n : p[i] = s[i]
  OBVIOUS
<1>2. t \in Seq(Sample) /\ Len(t) = Len(s) - n /\ \A i \in 1..Len(t) : t[i] = s[i + n]
  OBVIOUS
<1> QED
  BY <1>1, <1>2

LEMMA JoinIs ==
  ASSUME NEW u \in Seq(Sample), NEW v \in Seq(Sample), NEW s, s = u \o v
  PROVE  /\ s \in Seq(Sample) /\ Len(s) = Len(u) + Len(v)
         /\ \A i \in 1..Len(u) : s[i] = u[i]
         /\ \A i \in 1..Len(v) : s[Len(u) + i] = v[i]
BY ConcatProperties

LEMMA MovedBy ==
  ASSUME NEW b \in Seq(Sample), NEW s \in Seq(Sample), NEW n \in 0..Len(s), NEW p,
         NEW b2 \in Seq(Sample), NEW t \in Seq(Sample),
         Len(p) = n, \A i \in 1..n : p[i] = s[i],
         Len(t) = Len(s) - n, \A i \in 1..Len(t) : t[i] = s[i + n],
         Len(b2) = Len(b) + Len(p), \A i \in 1..Len(b) : b2[i] = b[i],
         \A i \in 1..Len(p) : b2[Len(b) + i] = p[i]
  PROVE  Moved(b, s, b2, t) /\ Len(b2) = Len(b) + n /\ Len(t) = Len(s) - n
<1>1. /\ Len(b) \in Nat /\ Len(s) \in Nat /\ Len(b2) = Len(b) + n /\ Len(b2) - Len(b) = n
      /\ Len(b2) >= Len(b) /\ Len(b2) + Len(t) = Len(b) + Len(s)
  OBVIOUS
<1>2. \A i \in 1..Len(b2) : i > Len(b) => b2[i] = s[i - Len(b)]
  <2> TAKE i \in 1..Len(b2)
  <2> HAVE i > Len(b)
  <2>1. i - Len(b) \in 1..n /\ Len(b) + (i - Len(b)) = i
    BY <1>1
  <2> QED
    BY <2>1
<1>3. Numbered(b) /\ Numbered(s) /\ Numbered(b2) /\ Numbered(t)
  BY SamplesAreNumbered
<1>4. \A i \in 1..Len(t) : t[i] = s[i + (Len(b2) - Len(b))]
  BY <1>1
<1> QED
  BY <1>1, <1>2, <1>3, <1>4, Zenon DEF Moved

\* What a call gives the caller, and what it leaves.
HandsOver(b, s, n, b2, t) ==
  /\ b2 \in Seq(Sample) /\ t \in Seq(Sample)
  /\ Moved(b, s, b2, t) /\ Len(b2) = Len(b) + n /\ Len(t) = Len(s) - n

LEMMA MovedIs ==
  ASSUME NEW b \in Seq(Sample), NEW s \in Seq(Sample), NEW n \in 0..Len(s)
  PROVE  HandsOver(b, s, n, b \o SubSeq(s, 1, n), SubSeq(s, n + 1, Len(s)))
<1> DEFINE p == SubSeq(s, 1, n)
           x == b \o p
           y == SubSeq(s, n + 1, Len(s))
<1>0. p = SubSeq(s, 1, n) /\ x = b \o p /\ y = SubSeq(s, n + 1, Len(s))
  OBVIOUS
<1> HIDE DEF p, x, y
<1>1. /\ p \in Seq(Sample) /\ Len(p) = n /\ \A i \in 1..n : p[i] = s[i]
  BY <1>0, SplitIs
<1>2. y \in Seq(Sample) /\ Len(y) = Len(s) - n /\ \A i \in 1..Len(y) : y[i] = s[i + n]
  BY <1>0, SplitIs
<1>3. /\ x \in Seq(Sample) /\ Len(x) = Len(b) + Len(p)
      /\ \A i \in 1..Len(b) : x[i] = b[i]
      /\ \A i \in 1..Len(p) : x[Len(b) + i] = p[i]
  BY <1>0, <1>1, JoinIs
<1>4. Moved(b, s, x, y) /\ Len(x) = Len(b) + n /\ Len(y) = Len(s) - n
  BY <1>1, <1>2, <1>3, MovedBy, Zenon
<1>5. HandsOver(b, s, n, x, y)
  BY <1>2, <1>3, <1>4, Zenon DEF HandsOver
<1> QED
  BY <1>5 DEF x, y, p

LEMMA EmptyIs ==
  ASSUME NEW S, NEW s \in Seq(S)
  PROVE  Len(s) \in Nat /\ (s = <<>> <=> Len(s) = 0)
OBVIOUS

\* Every sample of b2 was in b or s, every one of t in s.
LEMMA MovedFrom ==
  ASSUME NEW b, NEW s, NEW b2, NEW t, Moved(b, s, b2, t)
  PROVE  /\ \A i \in 1..Len(b2) :
              \/ i \in 1..Len(b) /\ b2[i] = b[i]
              \/ i > Len(b) /\ i - Len(b) \in 1..Len(s) /\ b2[i] = s[i - Len(b)]
         /\ \A i \in 1..Len(t) :
              i + (Len(b2) - Len(b)) \in 1..Len(s) /\ t[i] = s[i + (Len(b2) - Len(b))]
BY DEF Moved, Numbered

LEMMA MovedLengths ==
  ASSUME NEW b, NEW s, NEW b2, NEW t, Moved(b, s, b2, t)
  PROVE  /\ Len(b) \in Nat /\ Len(s) \in Nat /\ Len(b2) \in Nat /\ Len(t) \in Nat
         /\ Len(b2) >= Len(b) /\ Len(b2) + Len(t) = Len(b) + Len(s)
         /\ Numbered(b) /\ Numbered(s) /\ Numbered(b2) /\ Numbered(t)
BY DEF Moved, Numbered

LEMMA MovedKeepsOrder ==
  ASSUME NEW b, NEW s, NEW b2, NEW t, Moved(b, s, b2, t), Consecutive(s), Rising(b), Precede(b, s)
  PROVE  Rising(b2) /\ Precede(b2, t)
<1>0. /\ Len(b) \in Nat /\ Len(s) \in Nat /\ Len(b2) \in Nat /\ Len(t) \in Nat
      /\ Len(b2) >= Len(b) /\ Numbered(s)
  BY MovedLengths
<1>1. \A i, j \in 1..Len(s) : i < j => s[i].number < s[j].number
  BY <1>0, ConsecutiveIs DEF Rising
<1>2. /\ \A i \in 1..Len(b2) :
           \/ i \in 1..Len(b) /\ b2[i] = b[i]
           \/ i > Len(b) /\ i - Len(b) \in 1..Len(s) /\ b2[i] = s[i - Len(b)]
      /\ \A i \in 1..Len(t) :
           i + (Len(b2) - Len(b)) \in 1..Len(s) /\ t[i] = s[i + (Len(b2) - Len(b))]
  BY MovedFrom
<1>3. ASSUME NEW i \in 1..Len(b2), NEW j \in 1..Len(b2), i < j
      PROVE  b2[i].number < b2[j].number
  <2>1. CASE i \in 1..Len(b) /\ b2[i] = b[i]
    BY <2>1, <1>2, <1>3 DEF Rising, Precede
  <2>2. CASE i > Len(b) /\ i - Len(b) \in 1..Len(s) /\ b2[i] = s[i - Len(b)]
    <3>1. j - Len(b) \in 1..Len(s) /\ b2[j] = s[j - Len(b)] /\ i - Len(b) < j - Len(b)
      BY <2>2, <1>0, <1>2, <1>3
    <3> QED
      BY <2>2, <3>1, <1>1
  <2> QED
    BY <2>1, <2>2, <1>2, <1>3
<1>4. ASSUME NEW i \in 1..Len(b2), NEW j \in 1..Len(t)
      PROVE  b2[i].number < t[j].number
  <2>0. j + (Len(b2) - Len(b)) \in 1..Len(s) /\ t[j] = s[j + (Len(b2) - Len(b))]
    BY <1>2, <1>4
  <2>1. CASE i \in 1..Len(b) /\ b2[i] = b[i]
    BY <2>0, <2>1 DEF Precede
  <2>2. CASE i > Len(b) /\ i - Len(b) \in 1..Len(s) /\ b2[i] = s[i - Len(b)]
    <3>1. i - Len(b) < j + (Len(b2) - Len(b))
      BY <1>0, <1>4
    <3> QED
      BY <2>0, <2>2, <3>1, <1>1
  <2> QED
    BY <2>1, <2>2, <1>2, <1>4
<1> QED
  BY <1>3, <1>4 DEF Rising, Precede

LEMMA MovedKeepsEach ==
  ASSUME NEW b, NEW s, NEW b2, NEW t, Moved(b, s, b2, t)
  PROVE  /\ \A low, high : Between(b, low, high) /\ Between(s, low, high) =>
              Between(b2, low, high) /\ Between(t, low, high)
         /\ \A x : Follow(x, b) /\ Follow(x, s) => Follow(x, b2) /\ Follow(x, t)
         /\ \A geo : AllOf(s, geo) => AllOf(t, geo) /\ (AllOf(b, geo) => AllOf(b2, geo))
         /\ \A q : Precede(b, q) /\ Precede(s, q) => Precede(b2, q) /\ Precede(t, q)
<1>0. /\ \A i \in 1..Len(b2) :
           \/ i \in 1..Len(b) /\ b2[i] = b[i]
           \/ i > Len(b) /\ i - Len(b) \in 1..Len(s) /\ b2[i] = s[i - Len(b)]
      /\ \A i \in 1..Len(t) :
           i + (Len(b2) - Len(b)) \in 1..Len(s) /\ t[i] = s[i + (Len(b2) - Len(b))]
  BY MovedFrom
<1>1. \A low, high : Between(b, low, high) /\ Between(s, low, high) =>
              Between(b2, low, high) /\ Between(t, low, high)
  BY <1>0, Zenon DEF Between
<1>2. \A x : Follow(x, b) /\ Follow(x, s) => Follow(x, b2) /\ Follow(x, t)
  BY <1>0, Zenon DEF Follow
<1>3. \A geo : AllOf(s, geo) => AllOf(t, geo) /\ (AllOf(b, geo) => AllOf(b2, geo))
  BY <1>0 DEF AllOf
<1>4. \A q : Precede(b, q) /\ Precede(s, q) => Precede(b2, q) /\ Precede(t, q)
  BY <1>0, Zenon DEF Precede
<1> QED
  BY <1>1, <1>2, <1>3, <1>4

LEMMA MovedIsNext ==
  ASSUME NEW b, NEW s, NEW b2, NEW t, Moved(b, s, b2, t), Consecutive(s), Len(b2) > Len(b)
  PROVE  /\ Len(b2) > 0 /\ Len(s) > 0 /\ Consecutive(t)
         /\ Len(t) > 0 => t[1].number = LastOf(b2) + 1 /\ LastOf(t) = LastOf(s)
         /\ Len(t) = 0 => LastOf(b2) = LastOf(s)
         /\ LastOf(b2) \in Nat /\ s[1].number \in Nat /\ s[1].number <= LastOf(b2)
<1>0. /\ Len(b) \in Nat /\ Len(s) \in Nat /\ Len(b2) \in Nat /\ Len(t) \in Nat
      /\ Len(b2) >= Len(b) /\ Len(b2) + Len(t) = Len(b) + Len(s) /\ Numbered(s)
  BY MovedLengths
<1> DEFINE k == Len(b2) - Len(b)
<1>1. /\ k \in 1..Len(s) /\ 1 \in 1..Len(s) /\ Len(b2) \in 1..Len(b2) /\ Len(t) + k = Len(s)
      /\ ~(Len(b2) \in 1..Len(b))
  BY <1>0
<1>2. b2[Len(b2)] = s[k] /\ \A i \in 1..Len(t) : i + k \in 1..Len(s) /\ t[i] = s[i + k]
  BY <1>1, MovedFrom
<1>3. s[1].number \in Nat /\ \A i \in 1..Len(s) : s[i].number = s[1].number + (i - 1)
  BY <1>0, <1>1, ConsecutiveIs
<1> HIDE DEF k
<1>4. LastOf(b2) = s[1].number + (k - 1)
  BY <1>1, <1>2, <1>3 DEF LastOf
<1>5. \A i \in 1..Len(t) : t[i].number = s[1].number + ((i + k) - 1)
  BY <1>2, <1>3, Zenon
<1>6. Consecutive(t)
  <2> SUFFICES ASSUME NEW i \in 1..Len(t)
               PROVE  t[i].number = t[1].number + (i - 1)
    BY DEF Consecutive
  <2>1. 1 \in 1..Len(t)
    BY <1>0
  <2>2. t[i].number = s[1].number + ((i + k) - 1) /\ t[1].number = s[1].number + ((1 + k) - 1)
    BY <2>1, <1>5
  <2> QED
    BY <2>2, <1>0, <1>1, <1>3
<1>7. Len(t) > 0 => t[1].number = LastOf(b2) + 1
  <2> HAVE Len(t) > 0
  <2>1. 1 \in 1..Len(t)
    BY <1>0
  <2>2. t[1].number = s[1].number + ((1 + k) - 1)
    BY <2>1, <1>5
  <2> QED
    BY <2>2, <1>1, <1>3, <1>4
<1>8. Len(t) > 0 => LastOf(t) = LastOf(s)
  <2> HAVE Len(t) > 0
  <2>1. Len(t) \in 1..Len(t)
    BY <1>0
  <2> QED
    BY <2>1, <1>1, <1>2 DEF LastOf
<1>9. Len(t) = 0 => LastOf(b2) = LastOf(s)
  <2> HAVE Len(t) = 0
  <2>1. k = Len(s)
    BY <1>0, <1>1
  <2> QED
    BY <2>1, <1>2 DEF LastOf
<1>10. LastOf(b2) \in Nat /\ s[1].number <= LastOf(b2)
  BY <1>1, <1>3, <1>4
<1>11. Len(b2) > 0 /\ Len(s) > 0
  BY <1>0
<1> QED
  BY <1>3, <1>6, <1>7, <1>8, <1>9, <1>10, <1>11

\* Holes of b2 are those of b, and the one between b and s.
LEMMA MovedLeavesNoHole ==
  ASSUME NEW b, NEW s, NEW b2, NEW t, Moved(b, s, b2, t), Consecutive(s), Len(b2) > Len(b)
  PROVE  /\ Len(b) = 0 => b2[1] = s[1]
         /\ Len(b) > 0 => b2[1] = b[1]
         /\ \A i \in 1..Len(b2) :
              i # 1 => \/ i \in 1..Len(b) /\ i - 1 \in 1..Len(b) /\ b2[i] = b[i] /\ b2[i - 1] = b[i - 1]
                       \/ Len(b) > 0 /\ b2[i - 1].number = LastOf(b) /\ b2[i].number = s[1].number
                       \/ b2[i].number = b2[i - 1].number + 1
<1>0. /\ Len(b) \in Nat /\ Len(s) \in Nat /\ Len(b2) \in Nat /\ Len(t) \in Nat
      /\ Len(b2) >= Len(b) /\ Numbered(s)
  BY MovedLengths
<1>1. \A i \in 1..Len(b2) :
           \/ i \in 1..Len(b) /\ b2[i] = b[i]
           \/ i > Len(b) /\ i - Len(b) \in 1..Len(s) /\ b2[i] = s[i - Len(b)]
  BY MovedFrom
<1>2. Len(b) = 0 => b2[1] = s[1]
  <2> HAVE Len(b) = 0
  <2>1. 1 \in 1..Len(b2) /\ ~(1 \in 1..Len(b)) /\ 1 - Len(b) = 1
    BY <1>0
  <2> QED
    BY <2>1, <1>1
<1>3. Len(b) > 0 => b2[1] = b[1]
  <2> HAVE Len(b) > 0
  <2>1. 1 \in 1..Len(b2) /\ ~(1 > Len(b))
    BY <1>0
  <2> QED
    BY <2>1, <1>1
<1>4. ASSUME NEW i \in 1..Len(b2), i # 1
      PROVE  \/ i \in 1..Len(b) /\ i - 1 \in 1..Len(b) /\ b2[i] = b[i] /\ b2[i - 1] = b[i - 1]
             \/ Len(b) > 0 /\ b2[i - 1].number = LastOf(b) /\ b2[i].number = s[1].number
             \/ b2[i].number = b2[i - 1].number + 1
  <2>0. i - 1 \in 1..Len(b2)
    BY <1>0, <1>4
  <2>1. CASE i <= Len(b)
    <3>1. i \in 1..Len(b) /\ i - 1 \in 1..Len(b) /\ ~(i > Len(b)) /\ ~(i - 1 > Len(b))
      BY <1>0, <1>4, <2>1
    <3> QED
      BY <3>1, <2>0, <1>1
  <2>2. CASE i = Len(b) + 1
    <3>1. /\ Len(b) > 0 /\ i - 1 = Len(b) /\ i - Len(b) = 1 /\ ~(i - 1 > Len(b))
          /\ ~(i \in 1..Len(b))
      BY <1>0, <1>4, <2>2
    <3> QED
      BY <3>1, <2>0, <1>1 DEF LastOf
  <2>3. CASE i > Len(b) + 1
    <3>1. ~(i \in 1..Len(b)) /\ ~(i - 1 \in 1..Len(b))
      BY <1>0, <2>3
    <3>2. /\ b2[i] = s[i - Len(b)] /\ b2[i - 1] = s[(i - 1) - Len(b)]
          /\ i - Len(b) \in 1..Len(s) /\ (i - 1) - Len(b) \in 1..Len(s)
      BY <3>1, <2>0, <1>1
    <3>3. /\ b2[i].number = s[1].number + (i - Len(b) - 1) /\ s[1].number \in Nat
          /\ b2[i - 1].number = s[1].number + ((i - 1) - Len(b) - 1)
      BY <3>2, <1>0, ConsecutiveIs
    <3> QED
      BY <3>3, <1>0
  <2> QED
    BY <1>0, <2>1, <2>2, <2>3
<1> QED
  BY <1>2, <1>3, <1>4
-----------------------------------------------------------------------------
(***************************************************************************)
(* What holds at the start, and what TypeOK says of the parts.             *)
(***************************************************************************)
LEMMA StartingTyped ==
  ASSUME Init
  PROVE  TypeOK
<1>1. queue \in Seq(Packet) /\ buffer \in Seq(Sample) /\ Len(queue) = 0 /\ Len(buffer) = 0
  BY DEF Init
<1>2. carry \in [Modes -> Seq(Sample)] /\ \A m \in Modes : carry[m] = <<>>
  BY DEF Init
<1>3. /\ taken \in 0..MaxSamples /\ errors \in 0..MaxErrors /\ session \in 1..MaxSessions
      /\ previous \in 0..taken /\ began \in 0..taken
      /\ max_samples = 0 /\ remaining \in 0..max_samples /\ inner \in 0..max_samples
  BY ReadsAssumption DEF Init
<1>4. observed \in Geometries /\ read_geometry \in Geometries /\ 0 <= QueueDepth
  BY ReadsAssumption DEF Init
<1>5. /\ lost \in BOOLEAN /\ stream_active \in BOOLEAN /\ overrun_pending \in BOOLEAN
      /\ by_deadline \in BOOLEAN /\ got_packet \in BOOLEAN /\ told \in BOOLEAN /\ twice \in BOOLEAN
  BY DEF Init
<1>6. pc = "idle" /\ mode \in Modes /\ read_mode = "none"
  BY DEF Init, Modes
<1> QED
  BY <1>1, <1>2, <1>3, <1>4, <1>5, <1>6 DEF TypeOK

LEMMA Starting == Init => Inv
<1> SUFFICES ASSUME Init
             PROVE  Inv
  OBVIOUS
<1>1. TypeOK
  BY StartingTyped
<1> USE ReadsAssumption DEF Init
<1>2. CallsAreInStep /\ SamplesAreOfSession /\ PacketsAreWhole
  BY DEF CallsAreInStep, SamplesAreOfSession, PacketsAreWhole, Between
<1>3. InOrder
  BY DEF InOrder, Rising, Follow, Precede
<1>4. CarryIsNext
  BY DEF CarryIsNext
<1>5. NothingIsCarried /\ LastRead = 0
  BY DEF NothingIsCarried, LastRead
<1>6. HolesAreFlagged
  BY <1>5 DEF HolesAreFlagged, Complete, Reached
<1>7. HolesAreTold /\ CallsHaveOneMapping
  BY DEF HolesAreTold, CallsHaveOneMapping, AllOf
<1> QED
  BY <1>1, <1>2, <1>3, <1>4, <1>6, <1>7 DEF Inv

LEMMA PacketIs ==
  ASSUME NEW packet \in Packet
  PROVE  /\ packet.samples \in Seq(Sample) /\ packet.geo \in Geometries
         /\ packet.warned \in BOOLEAN
         /\ Len(packet.samples) \in Nat /\ (packet.samples = <<>> <=> Len(packet.samples) = 0)
BY DEF Packet

LEMMA QueueIs ==
  ASSUME TypeOK
  PROVE  /\ queue \in Seq(Packet) /\ Len(queue) \in Nat
         /\ \A i \in 1..Len(queue) :
              /\ queue[i] \in Packet /\ queue[i].samples \in Seq(Sample)
              /\ queue[i].geo \in Geometries /\ queue[i].warned \in BOOLEAN
              /\ Len(queue[i].samples) \in Nat
              /\ queue[i].samples = <<>> <=> Len(queue[i].samples) = 0
<1>1. queue \in Seq(Packet)
  BY DEF TypeOK
<1>2. Len(queue) \in Nat /\ \A i \in 1..Len(queue) : queue[i] \in Packet
  BY <1>1
<1> QED
  BY <1>1, <1>2, PacketIs

LEMMA PartsAre ==
  ASSUME TypeOK
  PROVE  /\ taken \in Nat /\ began \in Nat /\ previous \in Nat /\ max_samples \in Nat
         /\ remaining \in Nat /\ inner \in Nat
         /\ buffer \in Seq(Sample) /\ Len(buffer) \in Nat /\ (buffer = <<>> <=> Len(buffer) = 0)
         /\ \A m \in Modes : /\ carry[m] \in Seq(Sample) /\ Len(carry[m]) \in Nat
                             /\ carry[m] = <<>> <=> Len(carry[m]) = 0
<1>1. max_samples \in Nat
  BY ReadsAssumption DEF TypeOK
<1>2. taken \in Nat /\ began \in Nat /\ previous \in Nat
  BY ReadsAssumption DEF TypeOK
<1>3. remaining \in Nat /\ inner \in Nat
  BY <1>1 DEF TypeOK
<1>4. buffer \in Seq(Sample) /\ Len(buffer) \in Nat /\ (buffer = <<>> <=> Len(buffer) = 0)
  BY EmptyIs DEF TypeOK
<1>5. \A m \in Modes : carry[m] \in Seq(Sample)
  BY DEF TypeOK
<1> QED
  BY <1>1, <1>2, <1>3, <1>4, <1>5, EmptyIs
-----------------------------------------------------------------------------
(***************************************************************************)
(* Steps that move no sample.                                              *)
(***************************************************************************)
samples_at == <<queue, taken, lost, stream_active, carry, observed, buffer, previous, told, twice,
                began>>

\* The parts of Inv that only what samples_at lists, and overrun_pending, can disturb.
Flow == /\ SamplesAreOfSession /\ PacketsAreWhole /\ InOrder
        /\ CarryIsNext /\ HolesAreFlagged /\ HolesAreTold

LEMMA NothingMoves ==
  ASSUME Flow, UNCHANGED samples_at, overrun_pending => overrun_pending'
  PROVE  Flow'
<1> USE DEF samples_at
<1>1. SamplesAreOfSession' /\ PacketsAreWhole'
  BY DEF Flow, SamplesAreOfSession, PacketsAreWhole
<1>2. InOrder'
  BY DEF Flow, InOrder
<1>3. LastRead' = LastRead /\ NothingIsCarried' = NothingIsCarried
  BY DEF LastRead, NothingIsCarried
<1>4. CarryIsNext'
  BY <1>3 DEF Flow, CarryIsNext
<1>5. \A x : Reached(x) => Reached(x)'
  BY <1>3 DEF Reached, Excused
<1>6. \A k, x : Complete(k, x) => Complete(k, x)'
  BY <1>5 DEF Complete
<1>7. HolesAreFlagged'
  BY <1>6 DEF Flow, HolesAreFlagged
<1>8. HolesAreTold'
  BY DEF Flow, HolesAreTold
<1> QED
  BY <1>1, <1>2, <1>4, <1>7, <1>8 DEF Flow

LEMMA CallMoves ==
  ASSUME Inv, WithinEnds \/ WithinStops \/ ReadReturns \/ ReadGoesOn \/ GetPacketFails
  PROVE  Inv'
<1>1. /\ UNCHANGED <<sdk, source, call, buffer, within, previous, told, twice, began, session>>
      /\ pc # "idle" /\ errors' \in 0..MaxErrors
      /\ pc' \in {"begin", "end", "returned"} /\ (pc' = "begin" => by_deadline)
      /\ pc = "begin" => FALSE
  <2>1. UNCHANGED <<sdk, source, call, buffer, within, previous, told, twice, began, session>>
    BY DEF WithinEnds, WithinStops, ReadReturns, ReadGoesOn, GetPacketFails, ghosts
  <2>2. errors' \in 0..MaxErrors
    BY ReadsAssumption
       DEF Inv, TypeOK, WithinEnds, WithinStops, ReadReturns, ReadGoesOn, GetPacketFails, SdkFails,
           ghosts
  <2>3. pc # "idle" /\ pc # "begin" /\ pc' \in {"begin", "end", "returned"}
    BY DEF WithinEnds, WithinStops, ReadReturns, ReadGoesOn, GetPacketFails
  <2>4. pc' = "begin" => by_deadline
    BY DEF WithinEnds, WithinStops, ReadReturns, ReadGoesOn, GetPacketFails
  <2> QED
    BY <2>1, <2>2, <2>3, <2>4
<1> USE <1>1 DEF sdk, source, call, within
<1>2. TypeOK'
  BY DEF Inv, TypeOK
<1>3. CallsAreInStep'
  BY DEF Inv, CallsAreInStep, NothingIsCarried
<1>4. CallsHaveOneMapping'
  BY DEF Inv, CallsHaveOneMapping
<1>5. Flow'
  BY NothingMoves DEF samples_at, Inv, Flow
<1> QED
  BY <1>2, <1>3, <1>4, <1>5 DEF Inv, Flow

LEMMA Beginning ==
  ASSUME Inv, NEW m \in Modes, NEW wanted \in ReadSizes, NEW deadline \in BOOLEAN,
         ReadBegins(m, wanted, deadline)
  PROVE  Inv'
<1>1. /\ UNCHANGED <<sdk, stream_active, carry, observed, overrun_pending, within, ghosts>>
      /\ pc = "idle" /\ stream_active /\ pc' = "begin" /\ read_mode \in {"none", m}
      /\ mode' = m /\ max_samples' = wanted /\ by_deadline' = deadline
      /\ read_mode' = m /\ buffer' = <<>>
  BY DEF ReadBegins, Latched
<1>2. buffer = <<>> /\ UNCHANGED buffer
  BY <1>1 DEF Inv, CallsAreInStep
<1> USE <1>1, <1>2 DEF sdk, ghosts, within
<1>3. TypeOK'
  <2>1. Len(buffer) = 0 /\ wanted \in Nat
    BY ReadsAssumption
  <2>2. remaining' \in 0..max_samples' /\ inner' \in 0..max_samples'
    BY <2>1 DEF Inv, CallsAreInStep
  <2>3. \A x \in Modes : carry[x] # <<>> => read_mode' = x
    BY DEF Inv, TypeOK, Modes
  <2> QED
    BY <2>1, <2>2, <2>3 DEF Inv, TypeOK
<1>4. CallsAreInStep'
  BY DEF Inv, CallsAreInStep, NothingIsCarried
<1>5. CallsHaveOneMapping'
  BY DEF Inv, CallsHaveOneMapping
<1>6. Flow'
  BY NothingMoves DEF samples_at, Inv, Flow
<1> QED
  BY <1>3, <1>4, <1>5, <1>6 DEF Inv, Flow
-----------------------------------------------------------------------------
(***************************************************************************)
(* The device takes and loses samples.                                     *)
(***************************************************************************)
LEMMA BetweenGrows ==
  ASSUME NEW s, Numbered(s), NEW low \in Nat, NEW high \in Nat, NEW higher \in Nat,
         high <= higher, Between(s, low, high)
  PROVE  Between(s, low, higher)
BY DEF Numbered, Between

\* Samples numbered from above high on come after those numbered up to it.
LEMMA Follows ==
  ASSUME NEW s, Numbered(s), NEW t, NEW low \in Nat, NEW high \in Nat, Between(s, low, high),
         \A j \in 1..Len(t) : t[j].number \in Nat /\ t[j].number > high
  PROVE  Precede(s, t)
BY DEF Numbered, Between, Precede

LEMMA FlowIsNumbered ==
  ASSUME TypeOK
  PROVE  /\ Numbered(buffer) /\ \A m \in Modes : Numbered(carry[m])
         /\ \A i \in 1..Len(queue) : Numbered(queue[i].samples)
BY PartsAre, QueueIs, SamplesAreNumbered

LEMMA TakenGrows ==
  ASSUME Inv, taken' \in Nat, taken <= taken', UNCHANGED <<began, buffer, carry>>
  PROVE  /\ Between(buffer', began', taken')
         /\ \A m \in Modes : Between(carry'[m], began', taken')
         /\ \A i \in 1..Len(queue) : Between(queue[i].samples, began', taken')
<1> DEFINE high == taken
           higher == taken'
           low == began
<1>1. high \in Nat /\ higher \in Nat /\ high <= higher /\ low \in Nat
  BY PartsAre DEF Inv
<1>2. /\ Between(buffer, low, high) /\ \A m \in Modes : Between(carry[m], low, high)
      /\ \A i \in 1..Len(queue) : Between(queue[i].samples, low, high)
  BY DEF Inv, SamplesAreOfSession
<1>3. UNCHANGED <<buffer, carry>> /\ began' = low /\ taken' = higher
  OBVIOUS
<1>4. TypeOK
  BY DEF Inv
<1> HIDE DEF high, higher, low
<1>5. \A s : Numbered(s) /\ Between(s, low, high) => Between(s, low, higher)
  BY <1>1, BetweenGrows
<1> QED
  BY <1>2, <1>3, <1>4, <1>5, FlowIsNumbered

LEMMA Losing ==
  ASSUME Inv, DeviceLoses
  PROVE  Inv'
<1>1. /\ UNCHANGED <<queue, source, pc, call, buffer, within, ghosts>>
      /\ taken' = taken + 1 /\ taken' \in 0..MaxSamples /\ lost' = TRUE
  BY ReadsAssumption DEF Inv, TypeOK, DeviceLoses
<1> USE <1>1 DEF source, call, within, ghosts
<1>2. taken \in Nat /\ taken' \in Nat /\ taken <= taken' /\ taken' <= MaxSamples
  BY PartsAre DEF Inv
<1>3. TypeOK'
  <2>1. previous' \in 0..taken' /\ began' \in 0..taken'
    BY <1>2 DEF Inv, TypeOK
  <2> QED
    BY <2>1 DEF Inv, TypeOK
<1>4. CallsAreInStep' /\ CallsHaveOneMapping'
  BY DEF Inv, CallsAreInStep, CallsHaveOneMapping, NothingIsCarried
<1>5. SamplesAreOfSession'
  BY <1>2, TakenGrows DEF Inv, SamplesAreOfSession
<1>6. PacketsAreWhole' /\ InOrder' /\ HolesAreTold'
  BY DEF Inv, PacketsAreWhole, InOrder, HolesAreTold
<1>7. LastRead' = LastRead /\ NothingIsCarried' = NothingIsCarried
  BY DEF LastRead, NothingIsCarried
<1>8. CarryIsNext'
  BY <1>7 DEF Inv, CarryIsNext
<1>9. \A k, x : Complete(k, x) => Complete(k, x)'
  BY <1>7 DEF Complete, Reached, Excused
<1>10. HolesAreFlagged'
  <2> SUFFICES ASSUME NEW x \in 0..taken', NEW k \in 1..Len(queue),
                      queue[k].samples # <<>>, ~queue[k].warned,
                      queue[k].samples[1].number = x + 1
               PROVE  Complete(k - 1, x)'
    BY DEF HolesAreFlagged
  <2>1. 1 \in 1..Len(queue[k].samples)
    BY QueueIs DEF Inv
  <2>2. queue[k].samples[1].number <= taken
    BY <2>1 DEF Inv, SamplesAreOfSession, Between
  <2>3. x \in 0..taken
    BY <2>2, <1>2
  <2>4. Complete(k - 1, x)
    BY <2>3 DEF Inv, HolesAreFlagged
  <2> QED
    BY <2>4, <1>9
<1> QED
  BY <1>3, <1>4, <1>5, <1>6, <1>8, <1>10 DEF Inv

LEMMA FunctionIsSeq ==
  ASSUME NEW S, NEW n \in Nat, NEW f \in [1..n -> S]
  PROVE  f \in Seq(S) /\ Len(f) = n
OBVIOUS

\* The packet that arrives.
Arrived(n, len, geo, warned, shape) ==
  [samples |-> [i \in 1..len |-> [number |-> n + i, geo |-> geo]],
   geo |-> geo, warned |-> warned, shape |-> shape]

\* It holds the len samples from after the nth on.
HoldsNext(packet, n, len, geo, warned) ==
  /\ packet \in Packet /\ packet.geo = geo /\ packet.warned = warned
  /\ packet.samples \in Seq(Sample) /\ Len(packet.samples) = len
  /\ packet.samples = <<>> <=> len = 0
  /\ \A i \in 1..len : packet.samples[i].number = n + i /\ packet.samples[i].geo = geo

LEMMA ArrivedIs ==
  ASSUME NEW n \in Nat, NEW len \in Nat, NEW geo \in Geometries, NEW warned \in BOOLEAN,
         NEW shape \in {"iq", "stride", "huge"}
  PROVE  HoldsNext(Arrived(n, len, geo, warned, shape), n, len, geo, warned)
<1> DEFINE s == [i \in 1..len |-> [number |-> n + i, geo |-> geo]]
           packet == Arrived(n, len, geo, warned, shape)
<1>1. /\ s \in Seq(Sample) /\ Len(s) = len
      /\ \A i \in 1..len : s[i].number = n + i /\ s[i].geo = geo
  <2>1. \A i \in 1..len : [number |-> n + i, geo |-> geo] \in Sample
    BY DEF Sample
  <2>2. s \in [1..len -> Sample]
    BY <2>1
  <2>3. s \in Seq(Sample) /\ Len(s) = len
    BY <2>2, FunctionIsSeq
  <2>4. \A i \in 1..len : s[i].number = n + i /\ s[i].geo = geo
    OBVIOUS
  <2> QED
    BY <2>3, <2>4
<1>2. packet = [samples |-> s, geo |-> geo, warned |-> warned, shape |-> shape]
  BY DEF Arrived
<1> HIDE DEF s, packet
<1>3. packet.samples = s /\ packet.geo = geo /\ packet.warned = warned /\ packet \in Packet
  BY <1>1, <1>2 DEF Packet
<1>4. s = <<>> <=> len = 0
  BY <1>1, EmptyIs
<1>5. HoldsNext(packet, n, len, geo, warned)
  BY <1>1, <1>3, <1>4 DEF HoldsNext
<1> QED
  BY <1>5 DEF packet

LEMMA Arriving ==
  ASSUME Inv, NEW len \in PacketLens, NEW geo \in Geometries, NEW shape \in {"iq", "stride", "huge"},
         PacketArrives(len, geo, shape)
  PROVE  Inv'
<1> DEFINE p == Arrived(taken, len, geo, lost /\ len > 0, shape)
<1>a. PICK N \in Nat : N = Len(queue)
  BY QueueIs DEF Inv
<1>1. /\ stream_active /\ N < QueueDepth /\ taken + len <= MaxSamples
      /\ queue' = Append(queue, p) /\ taken' = taken + len
      /\ lost' = (lost /\ len = 0)
      /\ UNCHANGED <<source, pc, call, buffer, within, ghosts>>
  BY <1>a DEF PacketArrives, Arrived
<1>2. /\ len \in Nat /\ taken \in Nat /\ taken' \in Nat /\ taken <= taken' /\ taken' <= MaxSamples
      /\ N \in Nat /\ QueueDepth \in Nat /\ lost \in BOOLEAN /\ previous \in 0..taken
  BY <1>1, PartsAre, QueueIs, ReadsAssumption DEF Inv, TypeOK
<1>3. /\ p \in Packet /\ p.geo = geo /\ p.warned = (lost /\ len > 0)
      /\ p.samples \in Seq(Sample) /\ Len(p.samples) = len
      /\ p.samples = <<>> <=> len = 0
      /\ \A i \in 1..len : p.samples[i].number = taken + i /\ p.samples[i].geo = geo
  <2>1. (lost /\ len > 0) \in BOOLEAN
    OBVIOUS
  <2>2. len \in Nat
    BY <1>2
  <2>3. \A n \in Nat, w \in BOOLEAN : HoldsNext(Arrived(n, len, geo, w, shape), n, len, geo, w)
    BY <2>2, ArrivedIs
  <2>4. HoldsNext(p, taken, len, geo, lost /\ len > 0)
    BY <1>2, <2>1, <2>3
  <2> QED
    BY <2>4 DEF HoldsNext
<1> HIDE DEF p
<1>4. /\ queue' \in Seq(Packet) /\ Len(queue') = N + 1
      /\ \A i \in 1..N : queue'[i] = queue[i]
      /\ queue'[N + 1] = p
  BY <1>1, <1>3, <1>a, QueueIs, AppendProperties DEF Inv
<1> USE DEF source, call, within, ghosts
<1>5. TypeOK'
  <2>1. queue' \in Seq(Packet) /\ Len(queue') <= QueueDepth
    BY <1>1, <1>2, <1>4
  <2>2. taken' \in 0..MaxSamples /\ lost' \in BOOLEAN
    BY <1>1, <1>2
  <2>3. previous' \in 0..taken' /\ began' \in 0..taken'
    BY <1>1, <1>2 DEF Inv, TypeOK
  <2> QED
    BY <1>1, <2>1, <2>2, <2>3 DEF Inv, TypeOK
<1>6. CallsAreInStep' /\ CallsHaveOneMapping'
  BY <1>1 DEF Inv, CallsAreInStep, CallsHaveOneMapping, NothingIsCarried
<1>7. /\ Between(buffer', began', taken')
      /\ \A m \in Modes : Between(carry'[m], began', taken')
      /\ \A i \in 1..N : Between(queue[i].samples, began', taken')
  BY <1>1, <1>2, <1>a, TakenGrows
<1>8. \A i \in 1..Len(queue') : (i \in 1..N /\ queue'[i] = queue[i]) \/ (i = N + 1 /\ queue'[i] = p)
  BY <1>2, <1>4
<1>9. SamplesAreOfSession'
  <2>1. began' = began /\ began \in Nat /\ began <= taken
    BY <1>1, <1>2 DEF Inv, TypeOK
  <2>2. \A i \in 1..len : began < p.samples[i].number /\ p.samples[i].number <= taken'
    <3> TAKE i \in 1..len
    <3>1. p.samples[i].number = taken + i /\ taken' = taken + len /\ i \in 1..len
      BY <1>1, <1>3
    <3> QED
      BY <3>1, <2>1, <1>2
  <2>a. Between(p.samples, began', taken')
    BY <1>3, <2>1, <2>2 DEF Between
  <2>3. \A i \in 1..Len(queue') : Between(queue'[i].samples, began', taken')
    BY <1>7, <1>8, <2>a
  <2> QED
    BY <1>1, <1>7, <2>3 DEF Inv, SamplesAreOfSession
<1>10. \A j \in 1..Len(p.samples) : p.samples[j].number \in Nat /\ p.samples[j].number > taken
  BY <1>2, <1>3
<1>11. /\ Precede(buffer, p.samples) /\ Follow(previous, p.samples)
       /\ \A m \in Modes : Precede(carry[m], p.samples)
       /\ \A i \in 1..N : Precede(queue[i].samples, p.samples)
  <2>1. \A x : Numbered(x) /\ Between(x, began, taken) => Precede(x, p.samples)
    <3>1. began \in Nat
      BY PartsAre DEF Inv
    <3> QED
      BY <3>1, <1>2, <1>10, Follows
  <2>2. /\ Between(buffer, began, taken) /\ \A m \in Modes : Between(carry[m], began, taken)
        /\ \A i \in 1..N : Between(queue[i].samples, began, taken)
    BY <1>a DEF Inv, SamplesAreOfSession
  <2>3. /\ Numbered(buffer) /\ \A m \in Modes : Numbered(carry[m])
        /\ \A i \in 1..N : Numbered(queue[i].samples)
    BY <1>a, FlowIsNumbered DEF Inv
  <2>4. Follow(previous, p.samples)
    BY <1>2, <1>10 DEF Follow
  <2> QED
    BY <2>1, <2>2, <2>3, <2>4
<1>12. PacketsAreWhole'
  <2>1. Consecutive(p.samples) /\ AllOf(p.samples, p.geo)
    <3>1. Len(p.samples) = len /\ p.geo = geo
          /\ \A i \in 1..len : p.samples[i].number = taken + i /\ p.samples[i].geo = geo
      BY <1>3
    <3>2. AllOf(p.samples, p.geo)
      BY <3>1 DEF AllOf
    <3>3. ASSUME NEW i \in 1..len
          PROVE  p.samples[i].number = p.samples[1].number + (i - 1)
      <4>1. 1 \in 1..len
        BY <1>2
      <4>2. p.samples[1].number = taken + 1 /\ p.samples[i].number = taken + i
        BY <3>1, <4>1
      <4> QED
        BY <4>2, <1>2
    <3>4. Consecutive(p.samples)
      BY <3>1, <3>3 DEF Consecutive
    <3> QED
      BY <3>2, <3>4
  <2> SUFFICES ASSUME NEW i \in 1..Len(queue')
               PROVE  /\ Consecutive(queue'[i].samples) /\ AllOf(queue'[i].samples, queue'[i].geo)
                      /\ \A j \in 1..Len(queue') : i < j => Precede(queue'[i].samples, queue'[j].samples)
    BY DEF PacketsAreWhole
  <2>2. CASE i \in 1..N /\ queue'[i] = queue[i]
    <3>1. /\ Consecutive(queue[i].samples) /\ AllOf(queue[i].samples, queue[i].geo)
          /\ \A j \in 1..N : i < j => Precede(queue[i].samples, queue[j].samples)
      BY <2>2, <1>a DEF Inv, PacketsAreWhole
    <3> QED
      BY <2>2, <3>1, <1>8, <1>11
  <2>3. CASE i = N + 1 /\ queue'[i] = p
    <3>1. \A j \in 1..Len(queue') : ~(i < j)
      BY <2>3, <1>2, <1>4
    <3> QED
      BY <2>1, <2>3, <3>1
  <2> QED
    BY <2>2, <2>3, <1>8
<1>13. InOrder'
  <2> SUFFICES ASSUME ~twice
               PROVE  InOrder'
    BY <1>1 DEF InOrder
  <2>1. /\ Rising(buffer) /\ Follow(previous, buffer)
        /\ \A m \in Modes :
              /\ Follow(previous, carry[m]) /\ Precede(buffer, carry[m])
              /\ \A i \in 1..N : Precede(carry[m], queue[i].samples)
        /\ \A i \in 1..N : Follow(previous, queue[i].samples) /\ Precede(buffer, queue[i].samples)
    BY <1>a DEF Inv, InOrder
  <2>2. \A m \in Modes : \A i \in 1..Len(queue') : Precede(carry[m], queue'[i].samples)
    BY <2>1, <1>8, <1>11
  <2>3. \A i \in 1..Len(queue') : Follow(previous, queue'[i].samples) /\ Precede(buffer, queue'[i].samples)
    BY <2>1, <1>8, <1>11
  <2> QED
    BY <1>1, <2>1, <2>2, <2>3 DEF InOrder
<1>14. LastRead' = LastRead /\ NothingIsCarried' = NothingIsCarried
  BY <1>1 DEF LastRead, NothingIsCarried
<1>15. CarryIsNext' /\ HolesAreTold'
  BY <1>1, <1>14 DEF Inv, CarryIsNext, HolesAreTold
<1>16. \A x : Reached(x) => Reached(x)'
  BY <1>1, <1>14 DEF Reached, Excused
<1>17. ASSUME NEW k \in 0..N, NEW x, Complete(k, x)
       PROVE  Complete(k, x)'
  <2>1. \A i \in 1..k : queue'[i] = queue[i]
    BY <1>2, <1>4
  <2> QED
    BY <1>16, <1>17, <2>1 DEF Complete
<1>18. HolesAreFlagged'
  <2> SUFFICES ASSUME NEW x \in 0..taken'
               PROVE  /\ \A k \in 1..Len(queue') :
                            /\ queue'[k].samples # <<>> /\ ~queue'[k].warned
                            /\ queue'[k].samples[1].number = x + 1
                            => Complete(k - 1, x)'
                      /\ ~lost' /\ x = taken' => Complete(Len(queue), x)'
    BY DEF HolesAreFlagged
  <2>1. ASSUME NEW k \in 1..Len(queue'),
               queue'[k].samples # <<>>, ~queue'[k].warned, queue'[k].samples[1].number = x + 1
        PROVE  Complete(k - 1, x)'
    <3>1. CASE k \in 1..N /\ queue'[k] = queue[k]
      <4>1. queue[k].samples # <<>> /\ ~queue[k].warned /\ queue[k].samples[1].number = x + 1
        BY <2>1, <3>1
      <4>2. 1 \in 1..Len(queue[k].samples)
        BY <3>1, <4>1, <1>a, QueueIs DEF Inv
      <4>3. x \in 0..taken
        BY <3>1, <4>1, <4>2, <1>2, <1>a DEF Inv, SamplesAreOfSession, Between
      <4>4. Complete(k - 1, x) /\ k - 1 \in 0..N
        BY <3>1, <4>1, <4>3, <1>2, <1>a DEF Inv, HolesAreFlagged
      <4> QED
        BY <4>4, <1>17
    <3>2. CASE k = N + 1 /\ queue'[k] = p
      <4>1. len > 0 /\ ~lost
        BY <2>1, <3>2, <1>2, <1>3
      <4>2. x = taken
        BY <2>1, <3>2, <4>1, <1>2, <1>3
      <4>3. Complete(N, x) /\ N \in 0..N
        BY <4>1, <4>2, <1>1, <1>2, <1>a DEF Inv, HolesAreFlagged
      <4>4. k - 1 = N
        BY <3>2, <1>2
      <4> QED
        BY <4>3, <4>4, <1>17
    <3> QED
      BY <2>1, <3>1, <3>2, <1>8
  <2>2. ASSUME ~lost', x = taken'
        PROVE  Complete(Len(queue), x)'
    <3>1. CASE len = 0
      <4>1. ~lost /\ x = taken
        BY <2>2, <3>1, <1>1, <1>2
      <4>2. Complete(N, x) /\ N \in 0..N
        BY <4>1, <1>1, <1>2, <1>a DEF Inv, HolesAreFlagged
      <4>3. Complete(N, x)'
        BY <4>2, <1>17
      <4>4. \A i \in 1..(N + 1) : i \in 1..N \/ queue'[i].samples = <<>>
        BY <3>1, <1>2, <1>3, <1>4
      <4>5. \A i \in 1..N : i \in 1..(N + 1)
        BY <1>2
      <4> QED
        BY <4>3, <4>4, <4>5, <1>4 DEF Complete
    <3>2. CASE len > 0
      <4>1. queue'[N + 1].samples # <<>> /\ LastOf(queue'[N + 1].samples) = x /\ N + 1 \in 1..(N + 1)
        BY <2>2, <3>2, <1>1, <1>2, <1>3, <1>4 DEF LastOf
      <4> QED
        BY <4>1, <1>2, <1>4 DEF Complete
    <3> QED
      BY <3>1, <3>2, <1>2
  <2> QED
    BY <2>1, <2>2
<1> QED
  BY <1>5, <1>6, <1>9, <1>12, <1>13, <1>15, <1>18 DEF Inv
-----------------------------------------------------------------------------
(***************************************************************************)
(* A read is over, and a stream.                                           *)
(***************************************************************************)
LEMMA Returning ==
  ASSUME Inv, take_overrun
  PROVE  Inv'
<1>1. /\ pc = "returned" /\ pc' = "idle" /\ overrun_pending' = FALSE
      /\ told' = (overrun_pending \/ (told /\ buffer = <<>>))
      /\ previous' = IF buffer = <<>> THEN previous ELSE buffer[Len(buffer)].number
      /\ buffer' = <<>> /\ max_samples' = 0
      /\ remaining' = 0 /\ got_packet' = FALSE /\ read_geometry' = NoGeometry /\ inner' = 0
      /\ UNCHANGED <<sdk, stream_active, read_mode, carry, observed, mode, by_deadline,
                     twice, began, errors, session>>
  BY DEF take_overrun
<1>2. /\ taken \in Nat /\ previous \in 0..taken /\ Len(buffer) \in Nat /\ began \in Nat
      /\ buffer = <<>> <=> Len(buffer) = 0
  BY PartsAre DEF Inv, TypeOK
<1>3. buffer # <<>> => /\ Len(buffer) \in 1..Len(buffer) /\ previous' = LastOf(buffer)
                      /\ previous' \in 0..taken /\ began < previous'
  <2> HAVE buffer # <<>>
  <2>1. Len(buffer) \in 1..Len(buffer)
    BY <1>2
  <2>2. buffer[Len(buffer)].number \in Nat
    BY <2>1, FlowIsNumbered DEF Inv, Numbered
  <2>3. began < buffer[Len(buffer)].number /\ buffer[Len(buffer)].number <= taken
    BY <2>1 DEF Inv, SamplesAreOfSession, Between
  <2> QED
    BY <1>1, <1>2, <2>1, <2>2, <2>3 DEF LastOf
<1>4. previous' = LastRead /\ LastRead' = LastRead /\ NothingIsCarried' = NothingIsCarried
  BY <1>1, <1>3 DEF LastRead, NothingIsCarried
<1>5. Len(buffer') = 0 /\ buffer' \in Seq(Sample)
  BY <1>1
<1> USE DEF sdk
<1>6. TypeOK'
  <2>1. previous' \in 0..taken'
    BY <1>1, <1>2, <1>3
  <2>2. told' \in BOOLEAN
    BY <1>1 DEF Inv, TypeOK
  <2>3. max_samples' \in ReadSizes \cup {0} /\ remaining' \in 0..max_samples' /\ inner' \in 0..max_samples'
    BY <1>1
  <2>4. read_geometry' \in Geometries /\ Len(buffer') <= max_samples'
    BY <1>1, <1>5, ReadsAssumption
  <2> QED
    BY <1>1, <1>5, <2>1, <2>2, <2>3, <2>4 DEF Inv, TypeOK
<1>7. CallsAreInStep'
  BY <1>1 DEF Inv, CallsAreInStep, NothingIsCarried
<1>8. CallsHaveOneMapping'
  BY <1>1, <1>5 DEF Inv, CallsHaveOneMapping, AllOf
<1>9. SamplesAreOfSession' /\ PacketsAreWhole'
  <2>1. previous' = 0 \/ previous' > began'
    BY <1>1, <1>2, <1>3 DEF Inv, SamplesAreOfSession
  <2>2. Between(buffer', began', taken')
    BY <1>5 DEF Between
  <2>3. PacketsAreWhole'
    BY <1>1 DEF Inv, PacketsAreWhole
  <2> QED
    BY <1>1, <2>1, <2>2, <2>3 DEF Inv, SamplesAreOfSession
<1>10. InOrder'
  <2> SUFFICES ASSUME ~twice
               PROVE  InOrder'
    BY <1>1 DEF InOrder
  <2>1. \A x : Follow(previous, x) /\ Precede(buffer, x) => Follow(previous', x) /\ Precede(buffer', x)
    BY <1>1, <1>3, <1>5 DEF Follow, Precede, LastOf
  <2>2. Rising(buffer') /\ Follow(previous', buffer')
    BY <1>5 DEF Rising, Follow
  <2> QED
    BY <1>1, <2>1, <2>2 DEF Inv, InOrder
<1>11. CarryIsNext' /\ HolesAreTold'
  <2>1. CarryIsNext'
    BY <1>1, <1>4 DEF Inv, CarryIsNext
  <2>2. HolesAreTold'
    BY <1>1, <1>5 DEF HolesAreTold
  <2> QED
    BY <2>1, <2>2
<1>12. Excused => Excused'
  BY <1>1 DEF Excused
<1>13. \A k, x : Complete(k, x) => Complete(k, x)'
  BY <1>1, <1>4, <1>12 DEF Complete, Reached
<1>14. HolesAreFlagged'
  BY <1>1, <1>13 DEF Inv, HolesAreFlagged
<1> QED
  BY <1>6, <1>7, <1>8, <1>9, <1>10, <1>11, <1>14 DEF Inv

\* Nothing is under way.
Still == buffer = <<>> /\ queue = <<>> /\ NothingIsCarried

LEMMA StillFlow ==
  ASSUME Still', (previous = 0 \/ previous > began)', (stream_active => LastRead = 0)'
  PROVE  Flow'
<1>1. /\ Len(buffer') = 0 /\ Len(queue') = 0
      /\ \A m \in Modes : Len(carry'[m]) = 0 /\ carry'[m] = <<>>
  BY DEF Still, NothingIsCarried
<1>2. SamplesAreOfSession' /\ PacketsAreWhole'
  BY <1>1 DEF SamplesAreOfSession, PacketsAreWhole, Between
<1>3. InOrder'
  BY <1>1 DEF InOrder, Rising, Follow, Precede
<1>4. CarryIsNext'
  BY <1>1 DEF CarryIsNext
<1>5. HolesAreFlagged'
  BY <1>1 DEF HolesAreFlagged, Complete, Reached, Still
<1>6. HolesAreTold'
  BY <1>1 DEF HolesAreTold, Still
<1> QED
  BY <1>2, <1>3, <1>4, <1>5, <1>6 DEF Flow

LEMMA Ending ==
  ASSUME Inv, stop_streaming
  PROVE  Inv'
<1>1. /\ pc = "idle" /\ stream_active' = FALSE /\ carry' = [m \in Modes |-> <<>>]
      /\ read_mode' = "none" /\ observed' = NoGeometry /\ overrun_pending' = FALSE /\ queue' = <<>>
      /\ UNCHANGED <<taken, lost, pc, call, buffer, within, ghosts>>
  BY DEF stop_streaming, Cleared
<1> USE DEF call, within, ghosts
<1>2. /\ buffer = <<>> /\ buffer' = <<>> /\ remaining = 0 /\ inner = 0
      /\ \A m \in Modes : carry'[m] = <<>>
  BY <1>1 DEF Inv, CallsAreInStep
<1>3. TypeOK'
  <2>1. carry' \in [Modes -> Seq(Sample)] /\ queue' \in Seq(Packet) /\ Len(queue') = 0
    BY <1>1
  <2>2. Len(queue') <= QueueDepth /\ observed' \in Geometries
    BY <1>1, <2>1, ReadsAssumption
  <2> QED
    BY <1>1, <1>2, <2>1, <2>2 DEF Inv, TypeOK
<1>4. CallsAreInStep' /\ CallsHaveOneMapping'
  <2>1. CallsAreInStep'
    BY <1>1, <1>2 DEF Inv, CallsAreInStep, NothingIsCarried
  <2>2. Len(buffer') = 0
    BY <1>2
  <2> QED
    BY <1>1, <2>1, <2>2 DEF CallsHaveOneMapping, AllOf
<1>5. Still'
  BY <1>1, <1>2 DEF Still, NothingIsCarried
<1>6. (previous = 0 \/ previous > began)'
  BY <1>1 DEF Inv, SamplesAreOfSession
<1>7. (stream_active => LastRead = 0)'
  BY <1>1
<1>8. Flow'
  BY <1>5, <1>6, <1>7, StillFlow
<1> QED
  BY <1>3, <1>4, <1>8 DEF Inv, Flow

LEMMA Restarting ==
  ASSUME Inv, start_streaming
  PROVE  Inv'
<1>1. /\ pc = "idle" /\ ~stream_active /\ session < MaxSessions /\ session' = session + 1
      /\ stream_active' = TRUE /\ lost' = FALSE
      /\ previous' = 0 /\ told' = FALSE /\ twice' = FALSE /\ began' = taken
      /\ UNCHANGED <<queue, taken, read_mode, carry, observed, overrun_pending, pc, call, buffer,
                     within, errors>>
  BY DEF start_streaming
<1> USE DEF call, within
<1>2. /\ buffer = <<>> /\ queue = <<>> /\ NothingIsCarried
  BY <1>1 DEF Inv, CallsAreInStep
<1>3. TypeOK'
  <2>1. session' \in 1..MaxSessions /\ previous' \in 0..taken' /\ began' \in 0..taken'
    BY <1>1, PartsAre, ReadsAssumption DEF Inv, TypeOK
  <2> QED
    BY <1>1, <2>1 DEF Inv, TypeOK
<1>4. CallsAreInStep' /\ CallsHaveOneMapping'
  <2>1. CallsAreInStep'
    BY <1>1, <1>2 DEF Inv, CallsAreInStep, NothingIsCarried
  <2>2. Len(buffer') = 0 /\ buffer' = <<>>
    BY <1>1, <1>2
  <2> QED
    BY <1>1, <2>1, <2>2 DEF CallsHaveOneMapping, AllOf
<1>5. Still'
  BY <1>1, <1>2 DEF Still, NothingIsCarried
<1>6. (previous = 0 \/ previous > began)'
  BY <1>1
<1>7. (stream_active => LastRead = 0)'
  BY <1>1, <1>2 DEF LastRead
<1>8. Flow'
  BY <1>5, <1>6, <1>7, StillFlow
<1> QED
  BY <1>3, <1>4, <1>8 DEF Inv, Flow
-----------------------------------------------------------------------------
(***************************************************************************)
(* A packet is consumed.                                                   *)
(***************************************************************************)
LEMMA Consuming ==
  ASSUME TypeOK, queue # <<>>, queue' = Tail(queue)
  PROVE  /\ queue' \in Seq(Packet) /\ Len(queue') = Len(queue) - 1 /\ 1 \in 1..Len(queue)
         /\ Head(queue) = queue[1]
         /\ \A i \in 1..Len(queue') : queue'[i] = queue[i + 1] /\ i + 1 \in 1..Len(queue)
<1>1. queue \in Seq(Packet) /\ Len(queue) \in Nat
  BY QueueIs
<1> QED
  BY <1>1

LEMMA ConsumedKeepsPackets ==
  ASSUME Inv, queue # <<>>, queue' = Tail(queue)
  PROVE  PacketsAreWhole'
<1>1. \A i \in 1..Len(queue') : queue'[i] = queue[i + 1] /\ i + 1 \in 1..Len(queue)
  BY Consuming DEF Inv
<1>2. \A i, j \in 1..Len(queue') : i < j => i + 1 < j + 1
  BY Consuming, QueueIs DEF Inv
<1> QED
  BY <1>1, <1>2 DEF Inv, PacketsAreWhole

\* What the queue held up to number, it still does, or it is with the caller.
LEMMA ConsumedKeepsComplete ==
  ASSUME TypeOK, queue # <<>>, queue' = Tail(queue),
         NEW k \in 1..Len(queue), NEW x, Complete(k, x),
         queue[1].samples = <<>> /\ Reached(x) => Reached(x)',
         queue[1].samples # <<>> /\ LastOf(queue[1].samples) = x => Reached(x)'
  PROVE  Complete(k - 1, x)'
<1>0. Len(queue) \in Nat /\ k \in Nat /\ k > 0 /\ 1 \in 1..k
  BY QueueIs
<1>1. \A i \in 1..(k - 1) : i + 1 \in 1..k /\ queue'[i] = queue[i + 1]
  BY <1>0, Consuming
<1>2. CASE (\A i \in 1..k : queue[i].samples = <<>>) /\ Reached(x)
  BY <1>0, <1>1, <1>2 DEF Complete
<1>3. ASSUME NEW i \in 1..k, queue[i].samples # <<>>, LastOf(queue[i].samples) = x,
             \A j \in 1..k : j > i => queue[j].samples = <<>>
      PROVE  Complete(k - 1, x)'
  <2>1. CASE i = 1
    <3>1. \A j \in 1..(k - 1) : queue'[j].samples = <<>>
      <4> TAKE j \in 1..(k - 1)
      <4>1. j + 1 \in 1..k /\ queue'[j] = queue[j + 1] /\ j + 1 > i
        BY <1>0, <1>1, <2>1
      <4> QED
        BY <4>1, <1>3
    <3> QED
      BY <3>1, <2>1, <1>3 DEF Complete
  <2>2. CASE i # 1
    <3>1. i - 1 \in 1..(k - 1) /\ (i - 1) + 1 = i
      BY <2>2, <1>0
    <3>2. queue'[i - 1] = queue[i]
      BY <3>1, <1>1
    <3>3. \A j \in 1..(k - 1) : j > i - 1 => queue'[j].samples = <<>>
      <4> TAKE j \in 1..(k - 1)
      <4> HAVE j > i - 1
      <4>1. j + 1 \in 1..k /\ queue'[j] = queue[j + 1] /\ j + 1 > i
        BY <1>0, <1>1
      <4> QED
        BY <4>1, <1>3
    <3> QED
      BY <3>1, <3>2, <3>3, <1>3 DEF Complete
  <2> QED
    BY <2>1, <2>2
<1> QED
  BY <1>2, <1>3 DEF Complete

\* So holes stay flagged when the packets that are left are, and what was reached is.
LEMMA ConsumedKeepsHoles ==
  ASSUME Inv, queue # <<>>, queue' = Tail(queue), UNCHANGED <<taken, lost, stream_active>>,
         \A x \in 0..taken :
            /\ queue[1].samples = <<>> /\ Reached(x) => Reached(x)'
            /\ queue[1].samples # <<>> /\ LastOf(queue[1].samples) = x => Reached(x)'
  PROVE  HolesAreFlagged'
<1>0. PICK N \in Nat : N = Len(queue)
  BY QueueIs DEF Inv
<1>1. /\ Len(queue') = N - 1 /\ N >= 1
      /\ \A i \in 1..(N - 1) : queue'[i] = queue[i + 1] /\ i + 1 \in 1..N
  BY <1>0, Consuming DEF Inv
<1>2. ASSUME NEW k \in 1..N, NEW x \in 0..taken, Complete(k, x)
      PROVE  Complete(k - 1, x)'
  BY <1>0, <1>2, ConsumedKeepsComplete DEF Inv
<1> SUFFICES ASSUME NEW x \in 0..taken
             PROVE  /\ \A k \in 1..(N - 1) :
                          /\ queue'[k].samples # <<>> /\ ~queue'[k].warned
                          /\ queue'[k].samples[1].number = x + 1
                          => Complete(k - 1, x)'
                    /\ stream_active /\ ~lost /\ x = taken => Complete(N - 1, x)'
  BY <1>1 DEF HolesAreFlagged
<1>3. ASSUME NEW k \in 1..(N - 1), queue'[k].samples # <<>>, ~queue'[k].warned,
             queue'[k].samples[1].number = x + 1
      PROVE  Complete(k - 1, x)'
  <2>1. k \in 1..N /\ k + 1 \in 1..N /\ (k + 1) - 1 = k /\ queue'[k] = queue[k + 1]
    BY <1>0, <1>1
  <2>2. Complete(k, x)
    BY <1>0, <1>3, <2>1 DEF Inv, HolesAreFlagged
  <2> QED
    BY <2>1, <2>2, <1>2
<1>4. ASSUME stream_active, ~lost, x = taken
      PROVE  Complete(N - 1, x)'
  <2>1. Complete(N, x) /\ N \in 1..N
    BY <1>0, <1>1, <1>4 DEF Inv, HolesAreFlagged
  <2> QED
    BY <2>1, <1>2
<1> QED
  BY <1>3, <1>4

LEMMA NothingIsCarriedMeanwhile ==
  ASSUME Inv, pc = "poll", remaining > 0
  PROVE  NothingIsCarried
BY DEF Inv, CallsAreInStep, TypeOK, NothingIsCarried

LEMMA SkippedFlow ==
  ASSUME Inv, pc = "poll", remaining > 0, queue # <<>>, queue' = Tail(queue),
         overrun_pending => overrun_pending', queue[1].samples # <<>> => overrun_pending',
         UNCHANGED <<taken, lost, stream_active, carry, observed, buffer, previous, told, twice, began>>
  PROVE  Flow'
<1>1. \A i \in 1..Len(queue') : queue'[i] = queue[i + 1] /\ i + 1 \in 1..Len(queue)
  BY Consuming DEF Inv
<1>2. SamplesAreOfSession'
  BY <1>1 DEF Inv, SamplesAreOfSession
<1>3. PacketsAreWhole'
  BY ConsumedKeepsPackets
<1>4. InOrder'
  BY <1>1 DEF Inv, InOrder
<1>5. LastRead' = LastRead /\ NothingIsCarried' = NothingIsCarried
  BY DEF LastRead, NothingIsCarried
<1>6. CarryIsNext' /\ HolesAreTold'
  <2>1. CarryIsNext'
    BY <1>5 DEF Inv, CarryIsNext
  <2>2. HolesAreTold'
    BY DEF Inv, HolesAreTold
  <2> QED
    BY <2>1, <2>2
<1>7. \A x : Reached(x) => Reached(x)'
  BY <1>5 DEF Reached, Excused
<1>8. queue[1].samples # <<>> => \A x : Reached(x)'
  BY <1>5, NothingIsCarriedMeanwhile DEF Reached, Excused
<1>9. HolesAreFlagged'
  <2>1. \A x \in 0..taken :
            /\ queue[1].samples = <<>> /\ Reached(x) => Reached(x)'
            /\ queue[1].samples # <<>> /\ LastOf(queue[1].samples) = x => Reached(x)'
    BY <1>7, <1>8
  <2> QED
    BY <2>1, ConsumedKeepsHoles
<1> QED
  BY <1>2, <1>3, <1>4, <1>6, <1>9 DEF Flow

LEMMA Skipping ==
  ASSUME Inv, SkipEmptyPacket \/ SkipPacket \/ RejectPacket
  PROVE  Inv'
<1>1. /\ pc = "poll" /\ remaining > 0 /\ queue # <<>>
      /\ got_packet' = TRUE /\ overrun_pending' \in BOOLEAN
      /\ overrun_pending => overrun_pending'
      /\ Len(Head(queue).samples) # 0 => overrun_pending'
      /\ pc' \in {"poll", "end", "returned"} /\ errors' \in 0..MaxErrors
      /\ queue' = Tail(queue) \/ (UNCHANGED queue /\ pc' = "returned")
      /\ UNCHANGED <<taken, lost, stream_active, read_mode, carry, observed, call, buffer,
                     remaining, read_geometry, inner, previous, told, twice, began, session>>
  <2>1. overrun_pending \in BOOLEAN /\ errors \in 0..MaxErrors
    BY DEF Inv, TypeOK
  <2>2. SdkFails => errors' \in 0..MaxErrors
    BY <2>1, ReadsAssumption DEF SdkFails
  <2>3. CASE SkipEmptyPacket
    BY <2>1, <2>2, <2>3 DEF SkipEmptyPacket, HeadIs, ConsumeGoingOnAt, source
  <2>4. CASE SkipPacket
    BY <2>1, <2>2, <2>4 DEF SkipPacket, HeadIs, ConsumeGoingOnAt, SkipIsLoss
  <2>5. CASE RejectPacket
    BY <2>1, <2>2, <2>5 DEF RejectPacket, HeadIs, ConsumeGoingOnAt
  <2> QED
    BY <2>3, <2>4, <2>5
<1>2. Head(queue) = queue[1] /\ (queue[1].samples = <<>> <=> Len(queue[1].samples) = 0)
  BY <1>1, QueueIs DEF Inv
<1>3. TypeOK'
  <2>1. queue' \in Seq(Packet) /\ Len(queue') <= QueueDepth
    <3>1. queue \in Seq(Packet) /\ Len(queue) <= QueueDepth /\ Len(queue) \in Nat
      BY QueueIs DEF Inv, TypeOK
    <3>2. CASE queue' = Tail(queue)
      BY <3>1, <3>2, <1>1, Consuming, ReadsAssumption DEF Inv
    <3> QED
      BY <3>1, <3>2, <1>1
  <2> QED
    BY <1>1, <2>1 DEF Inv, TypeOK, call
<1>4. CallsAreInStep'
  BY <1>1 DEF Inv, CallsAreInStep, NothingIsCarried, call
<1>5. CallsHaveOneMapping'
  BY <1>1 DEF Inv, CallsHaveOneMapping, call
<1>6. Flow'
  <2>1. CASE queue' = Tail(queue)
    BY <2>1, <1>1, <1>2, SkippedFlow
  <2>2. CASE UNCHANGED queue
    BY <2>2, <1>1, NothingMoves DEF samples_at, Inv, Flow
  <2> QED
    BY <2>1, <2>2, <1>1
<1> QED
  BY <1>3, <1>4, <1>5, <1>6 DEF Inv, Flow
-----------------------------------------------------------------------------
(***************************************************************************)
(* Samples are handed to the caller, from what was carried over or from a  *)
(* packet, and the rest is carried over.                                   *)
(***************************************************************************)
HandedOver(s) ==
  /\ Moved(buffer, s, buffer', carry'[mode]) /\ Len(buffer') > Len(buffer)
  /\ buffer' \in Seq(Sample) /\ carry'[mode] \in Seq(Sample)
  /\ Consecutive(s) /\ Between(s, began, taken) /\ AllOf(s, observed')
  /\ mode \in Modes /\ \A m \in Modes : m # mode => carry'[m] = <<>>
  /\ UNCHANGED <<taken, lost, stream_active, mode, began, previous, told>>
  /\ overrun_pending => overrun_pending'

LEMMA HandedOverIs ==
  ASSUME Inv, NEW s, HandedOver(s)
  PROVE  /\ buffer' # <<>> /\ LastRead' = LastOf(buffer') /\ LastRead' # 0 /\ LastRead' \in Nat
         /\ Between(buffer', began', taken') /\ \A m \in Modes : Between(carry'[m], began', taken')
         /\ CarryIsNext'
         /\ LastOf(s) \in Nat /\ s[1].number \in Nat /\ s[1].number <= LastOf(s) + 1
         /\ \A x \in Nat : x <= LastOf(s) \/ x < s[1].number => Reached(x)'
<1>1. PICK b, b2, t : b = buffer /\ b2 = buffer' /\ t = carry'[mode]
  OBVIOUS
<1>2. /\ Moved(b, s, b2, t) /\ Len(b2) > Len(b) /\ b2 \in Seq(Sample) /\ t \in Seq(Sample)
      /\ Consecutive(s) /\ Between(s, began, taken) /\ AllOf(s, observed')
      /\ mode \in Modes /\ mode' = mode /\ \A m \in Modes : m # mode => carry'[m] = <<>>
      /\ began' = began /\ taken' = taken /\ began \in Nat /\ taken \in Nat
  BY <1>1, PartsAre DEF HandedOver, Inv
<1>3. /\ Len(b2) > 0 /\ Len(s) > 0 /\ Consecutive(t)
      /\ Len(t) > 0 => t[1].number = LastOf(b2) + 1 /\ LastOf(t) = LastOf(s)
      /\ Len(t) = 0 => LastOf(b2) = LastOf(s)
      /\ LastOf(b2) \in Nat /\ s[1].number \in Nat /\ s[1].number <= LastOf(b2)
  BY <1>2, MovedIsNext
<1>4. /\ Len(t) \in Nat /\ Len(b2) \in Nat /\ Len(s) \in Nat /\ Numbered(s) /\ Numbered(t)
      /\ b2 # <<>> /\ (t = <<>> <=> Len(t) = 0)
  BY <1>2, <1>3, MovedLengths, EmptyIs
<1>5. Between(b, began, taken)
  BY <1>1 DEF Inv, SamplesAreOfSession
<1>6. Between(b2, began, taken) /\ Between(t, began, taken)
  BY <1>2, <1>5, MovedKeepsEach
<1>7. AllOf(t, observed')
  BY <1>2, MovedKeepsEach
<1>8. LastRead' = LastOf(b2) /\ LastOf(b2) # 0
  <2>1. LastRead' = LastOf(b2)
    BY <1>1, <1>4 DEF LastRead
  <2>2. Len(b2) \in 1..Len(b2)
    BY <1>3, <1>4
  <2>3. began < LastOf(b2)
    BY <2>2, <1>6 DEF Between, LastOf
  <2> QED
    BY <2>1, <2>3, <1>2, <1>3
<1>9. \A m \in Modes : Between(carry'[m], began, taken)
  <2>1. Between(<<>>, began, taken)
    BY DEF Between
  <2> QED
    BY <2>1, <1>1, <1>2, <1>6
<1>10. CarryIsNext'
  <2> SUFFICES ASSUME NEW m \in Modes, carry'[m] # <<>>
               PROVE  /\ LastRead' # 0 /\ carry'[m][1].number = LastRead' + 1
                      /\ Consecutive(carry'[m]) /\ AllOf(carry'[m], observed')
    BY DEF CarryIsNext
  <2>1. carry'[m] = t /\ t # <<>>
    BY <1>1, <1>2
  <2>2. Len(t) > 0
    BY <2>1, <1>4
  <2> QED
    BY <2>1, <2>2, <1>3, <1>7, <1>8
<1>11. LastOf(s) \in Nat /\ s[1].number <= LastOf(s)
  <2>1. Len(s) \in 1..Len(s) /\ s[Len(s)].number = s[1].number + (Len(s) - 1)
    BY <1>2, <1>3, <1>4, ConsecutiveIs
  <2> QED
    BY <2>1, <1>3, <1>4 DEF LastOf
<1>12. ASSUME NEW x \in Nat, x <= LastOf(s) \/ x < s[1].number
       PROVE  Reached(x)'
  <2>0. x <= LastOf(s)
    BY <1>3, <1>11, <1>12
  <2>1. CASE t = <<>>
    <3>1. NothingIsCarried'
      BY <2>1, <1>1, <1>2 DEF NothingIsCarried
    <3>2. x <= LastRead'
      BY <2>0, <2>1, <1>3, <1>4, <1>8
    <3> QED
      BY <3>1, <3>2 DEF Reached
  <2>2. CASE t # <<>>
    <3>1. ~NothingIsCarried'
      BY <2>2, <1>1, <1>2 DEF NothingIsCarried
    <3>2. LastOf(t) = LastOf(s)
      BY <2>2, <1>3, <1>4
    <3>3. mode \in Modes /\ carry'[mode] # <<>> /\ x <= LastOf(carry'[mode])
      BY <2>0, <2>2, <3>2, <1>1, <1>2
    <3> QED
      BY <3>1, <3>3 DEF Reached
  <2> QED
    BY <2>1, <2>2
<1> QED
  BY <1>1, <1>2, <1>3, <1>4, <1>6, <1>8, <1>9, <1>10, <1>11, <1>12

\* Nothing is missing, unless its loss is told, when nothing is between what was read and s.
IsNext(s) ==
  \/ overrun_pending'
  \/ s[1].number <= LastRead + 1
  \/ buffer = <<>> /\ (previous = 0 \/ told)

LEMMA HandedOverLeavesNoHole ==
  ASSUME Inv, NEW s, HandedOver(s), IsNext(s)
  PROVE  HolesAreTold'
<1>1. PICK b, b2, t : b = buffer /\ b2 = buffer' /\ t = carry'[mode]
  OBVIOUS
<1>2. /\ Moved(b, s, b2, t) /\ Len(b2) > Len(b) /\ Consecutive(s)
      /\ previous' = previous /\ told' = told /\ (overrun_pending => overrun_pending')
      /\ Len(b) \in Nat /\ (b = <<>> <=> Len(b) = 0)
  BY <1>1, PartsAre DEF HandedOver, Inv
<1>3. /\ Len(b) = 0 => b2[1] = s[1]
      /\ Len(b) > 0 => b2[1] = b[1]
      /\ \A i \in 1..Len(b2) :
           i # 1 => \/ i \in 1..Len(b) /\ i - 1 \in 1..Len(b) /\ b2[i] = b[i] /\ b2[i - 1] = b[i - 1]
                    \/ Len(b) > 0 /\ b2[i - 1].number = LastOf(b) /\ b2[i].number = s[1].number
                    \/ b2[i].number = b2[i - 1].number + 1
  BY <1>2, MovedLeavesNoHole
<1>4. /\ ~overrun_pending => \A i \in 1..Len(b) : i # 1 => b[i].number <= b[i - 1].number + 1
      /\ ~overrun_pending /\ ~told /\ b # <<>> /\ previous # 0 => b[1].number <= previous + 1
  BY <1>1 DEF Inv, HolesAreTold
<1>5. Len(b) > 0 => LastRead = LastOf(b) /\ buffer # <<>>
  BY <1>1, <1>2 DEF LastRead
<1>6. Len(b) = 0 => LastRead = previous
  BY <1>1, <1>2 DEF LastRead
<1>7. ASSUME ~overrun_pending', NEW i \in 1..Len(b2), i # 1
      PROVE  b2[i].number <= b2[i - 1].number + 1
  <2>1. CASE i \in 1..Len(b) /\ i - 1 \in 1..Len(b) /\ b2[i] = b[i] /\ b2[i - 1] = b[i - 1]
    BY <2>1, <1>2, <1>4, <1>7
  <2>2. CASE Len(b) > 0 /\ b2[i - 1].number = LastOf(b) /\ b2[i].number = s[1].number
    BY <2>2, <1>5, <1>7 DEF IsNext
  <2>3. CASE b2[i].number = b2[i - 1].number + 1
    <3>1. Numbered(b2) /\ i - 1 \in 1..Len(b2)
      BY <1>2, <1>7, MovedLengths
    <3>2. b2[i - 1].number \in Nat
      BY <3>1 DEF Numbered
    <3> QED
      BY <2>3, <3>2
  <2> QED
    BY <1>3, <1>7, <2>1, <2>2, <2>3
<1>8. ASSUME ~overrun_pending', ~told, previous # 0
      PROVE  b2[1].number <= previous + 1
  <2>1. CASE Len(b) = 0
    BY <2>1, <1>1, <1>2, <1>3, <1>6, <1>8 DEF IsNext
  <2>2. CASE Len(b) > 0
    BY <2>2, <1>2, <1>3, <1>4, <1>8
  <2> QED
    BY <2>1, <2>2, <1>2
<1> QED
  BY <1>1, <1>2, <1>7, <1>8 DEF HolesAreTold

LEMMA NothingHandedOver ==
  ASSUME NEW b \in Seq(Sample), NEW s \in Seq(Sample), NEW b2 \in Seq(Sample), NEW t \in Seq(Sample),
         Moved(b, s, b2, t), Len(b2) = Len(b)
  PROVE  b2 = b /\ t = s
<1>1. Len(b) \in Nat /\ Len(s) \in Nat /\ Len(t) \in Nat /\ Len(t) = Len(s) /\ Len(b2) - Len(b) = 0
  BY MovedLengths
<1>2. \A i \in 1..Len(b) : b2[i] = b[i]
  BY DEF Moved
<1>3. \A i \in 1..Len(t) : t[i] = s[i]
  <2> TAKE i \in 1..Len(t)
  <2>1. i + (Len(b2) - Len(b)) = i
    BY <1>1
  <2> QED
    BY <2>1, MovedFrom
<1>4. b2 = b
  BY <1>2, SeqEqual
<1> QED
  BY <1>1, <1>3, <1>4, SeqEqual

\* A call is served from what was carried over.
LEMMA ServingIs ==
  ASSUME Inv, WithinBegins
  PROVE  \E n \in 0..Len(carry[mode]) :
           /\ n <= max_samples - Len(buffer)
           /\ n = 0 => Len(carry[mode]) = 0 \/ max_samples = Len(buffer)
           /\ buffer' \in Seq(Sample) /\ carry'[mode] \in Seq(Sample)
           /\ Moved(buffer, carry[mode], buffer', carry'[mode])
           /\ Len(buffer') = Len(buffer) + n /\ Len(carry'[mode]) = Len(carry[mode]) - n
           /\ \A m \in Modes : m # mode => carry[m] = <<>> /\ carry'[m] = <<>>
           /\ carry' \in [Modes -> Seq(Sample)]
           /\ remaining' = max_samples - Len(buffer) - n /\ inner' = n
           /\ pc = "begin" /\ pc' = IF n > 0 \/ max_samples = Len(buffer) THEN "end" ELSE "poll"
<1> DEFINE wanted == max_samples - Len(buffer)
           n == ToCaller(Len(carry[mode]), wanted)
<1>1. /\ pc = "begin"
      /\ buffer' = buffer \o SubSeq(carry[mode], 1, n)
      /\ carry' = [carry EXCEPT ![mode] = SubSeq(@, n + 1, Len(@))]
      /\ remaining' = wanted - n /\ inner' = n
      /\ pc' = IF n > 0 \/ wanted = 0 THEN "end" ELSE "poll"
  BY DEF WithinBegins
<1>2. /\ mode \in Modes /\ read_mode = mode /\ carry \in [Modes -> Seq(Sample)]
      /\ buffer \in Seq(Sample) /\ carry[mode] \in Seq(Sample)
      /\ Len(buffer) \in Nat /\ Len(carry[mode]) \in Nat /\ max_samples \in Nat
      /\ Len(buffer) <= max_samples
      /\ \A m \in Modes : carry[m] # <<>> => read_mode = m
  BY <1>1, PartsAre DEF Inv, TypeOK, CallsAreInStep
<1>3. wanted \in Nat /\ n \in 0..Len(carry[mode]) /\ n <= wanted
      /\ (n = 0 => Len(carry[mode]) = 0 \/ wanted = 0)
  BY <1>2 DEF ToCaller
<1>4. /\ carry'[mode] = SubSeq(carry[mode], n + 1, Len(carry[mode]))
      /\ \A m \in Modes : m # mode => carry'[m] = carry[m]
  BY <1>1, <1>2
<1> HIDE DEF n
<1>a. PICK b \in Seq(Sample), s \in Seq(Sample) : b = buffer /\ s = carry[mode]
  BY <1>2
<1>b. PICK b2, t, k : b2 = buffer' /\ t = carry'[mode] /\ k = n
  OBVIOUS
<1>5. b = buffer /\ s = carry[mode] /\ b2 = buffer' /\ t = carry'[mode] /\ k = n
  BY <1>a, <1>b
<1>6. k \in 0..Len(s) /\ b2 = b \o SubSeq(s, 1, k) /\ t = SubSeq(s, k + 1, Len(s))
  BY <1>1, <1>3, <1>4, <1>5
<1>7. /\ b2 \in Seq(Sample) /\ t \in Seq(Sample)
      /\ Moved(b, s, b2, t) /\ Len(b2) = Len(b) + k /\ Len(t) = Len(s) - k
  <2>1. HandsOver(b, s, k, b \o SubSeq(s, 1, k), SubSeq(s, k + 1, Len(s)))
    BY <1>6, MovedIs
  <2> QED
    BY <1>6, <2>1 DEF HandsOver
<1>8. carry' \in [Modes -> Seq(Sample)]
  <2>1. SubSeq(carry[mode], n + 1, Len(carry[mode])) \in Seq(Sample)
    BY <1>4, <1>5, <1>7
  <2> QED
    BY <2>1, <1>1, <1>2
<1>9. (wanted = 0 <=> max_samples = Len(buffer))
  BY <1>2
<1>10. \A m \in Modes : m # mode => carry[m] = <<>> /\ carry'[m] = <<>>
  BY <1>2, <1>4
<1>11. /\ n \in 0..Len(carry[mode])
       /\ n <= max_samples - Len(buffer)
       /\ n = 0 => Len(carry[mode]) = 0 \/ max_samples = Len(buffer)
       /\ remaining' = max_samples - Len(buffer) - n /\ inner' = n
       /\ pc = "begin" /\ pc' = IF n > 0 \/ max_samples = Len(buffer) THEN "end" ELSE "poll"
  BY <1>1, <1>3, <1>9
<1>12. /\ buffer' \in Seq(Sample) /\ carry'[mode] \in Seq(Sample)
       /\ Moved(buffer, carry[mode], buffer', carry'[mode])
       /\ Len(buffer') = Len(buffer) + n /\ Len(carry'[mode]) = Len(carry[mode]) - n
  BY <1>5, <1>7
<1> QED
  BY <1>8, <1>10, <1>11, <1>12

LEMMA ServedFlow ==
  ASSUME Inv, WithinBegins
  PROVE  Flow'
<1>1. PICK n \in 0..Len(carry[mode]) :
           /\ buffer' \in Seq(Sample) /\ carry'[mode] \in Seq(Sample)
           /\ Moved(buffer, carry[mode], buffer', carry'[mode])
           /\ Len(buffer') = Len(buffer) + n /\ Len(carry'[mode]) = Len(carry[mode]) - n
           /\ \A m \in Modes : m # mode => carry[m] = <<>> /\ carry'[m] = <<>>
           /\ carry' \in [Modes -> Seq(Sample)]
  BY ServingIs
<1>2. UNCHANGED <<queue, taken, lost, stream_active, observed, overrun_pending, mode, previous, told,
                  twice, began>>
  BY DEF WithinBegins, sdk, call, ghosts
<1>3. /\ mode \in Modes /\ carry \in [Modes -> Seq(Sample)] /\ carry[mode] \in Seq(Sample)
      /\ buffer \in Seq(Sample) /\ Len(buffer) \in Nat /\ Len(carry[mode]) \in Nat
      /\ carry[mode] = <<>> <=> Len(carry[mode]) = 0
  BY PartsAre DEF Inv, TypeOK
<1>4. CASE n = 0
  <2>1. buffer' = buffer /\ carry'[mode] = carry[mode]
    <3>1. PICK b \in Seq(Sample), s \in Seq(Sample), b2 \in Seq(Sample), t \in Seq(Sample) :
            b = buffer /\ s = carry[mode] /\ b2 = buffer' /\ t = carry'[mode]
      BY <1>1, <1>3
    <3>2. Moved(b, s, b2, t) /\ Len(b2) = Len(b)
      BY <3>1, <1>1, <1>3, <1>4
    <3>3. b2 = b /\ t = s
      BY <3>2, NothingHandedOver
    <3> QED
      BY <3>1, <3>3
  <2>2. \A m \in Modes : carry'[m] = carry[m]
    BY <2>1, <1>1
  <2>3. carry' = carry
    BY <2>2, <1>1, <1>3
  <2> QED
    BY <2>1, <2>3, <1>2, NothingMoves DEF samples_at, Inv, Flow
<1>5. CASE n > 0
  <2>1. PICK s : s = carry[mode]
    OBVIOUS
  <2>2. /\ carry[mode] # <<>> /\ LastRead # 0 /\ s[1].number = LastRead + 1
        /\ Consecutive(s) /\ AllOf(s, observed) /\ Between(s, began, taken)
    <3>1. carry[mode] # <<>>
      BY <1>3, <1>5
    <3>2. /\ LastRead # 0 /\ carry[mode][1].number = LastRead + 1
          /\ Consecutive(carry[mode]) /\ AllOf(carry[mode], observed)
      BY <3>1, <1>3 DEF Inv, CarryIsNext
    <3>3. Between(carry[mode], began, taken)
      BY <1>3 DEF Inv, SamplesAreOfSession
    <3> QED
      BY <2>1, <3>1, <3>2, <3>3, Zenon
  <2>3. HandedOver(s)
    BY <1>1, <1>2, <1>3, <1>5, <2>1, <2>2 DEF HandedOver
  <2>4. /\ Between(buffer', began', taken') /\ \A m \in Modes : Between(carry'[m], began', taken')
        /\ CarryIsNext' /\ LastOf(s) \in Nat
        /\ \A x \in Nat : x <= LastOf(s) \/ x < s[1].number => Reached(x)'
    BY <2>3, HandedOverIs
  <2>5. SamplesAreOfSession' /\ PacketsAreWhole'
    BY <2>4, <1>2 DEF Inv, SamplesAreOfSession, PacketsAreWhole
  <2>6. HolesAreTold'
    <3>1. s[1].number <= LastRead + 1
      <4>1. s[1].number \in Nat
        BY <2>3, HandedOverIs
      <4> QED
        BY <4>1, <2>2
    <3> QED
      <4>1. IsNext(s)
        BY <3>1 DEF IsNext
      <4> QED
        BY <2>3, <4>1, HandedOverLeavesNoHole
  <2>7. ASSUME NEW x \in 0..taken, Reached(x)
        PROVE  Reached(x)'
    <3>1. x \in Nat
      BY PartsAre DEF Inv
    <3>2. ~NothingIsCarried
      BY <2>2, <1>3 DEF NothingIsCarried
    <3>3. x <= LastOf(s)
      BY <3>2, <2>1, <2>7, <1>1 DEF Reached
    <3> QED
      BY <3>1, <3>3, <2>4
  <2>8. ASSUME NEW k, NEW x \in 0..taken, Complete(k, x)
        PROVE  Complete(k, x)'
    BY <2>7, <2>8, <1>2 DEF Complete
  <2>9. HolesAreFlagged'
    BY <2>8, <1>2 DEF Inv, HolesAreFlagged
  <2>10. InOrder'
    <3> SUFFICES ASSUME ~twice
                 PROVE  InOrder'
      BY <1>2 DEF InOrder
    <3>1. PICK b, b2, t : b = buffer /\ b2 = buffer' /\ t = carry'[mode]
      OBVIOUS
    <3>2. Moved(b, s, b2, t) /\ Consecutive(s)
      BY <1>1, <2>1, <2>2, <3>1
    <3>3. /\ Rising(b) /\ Precede(b, s) /\ Follow(previous, b) /\ Follow(previous, s)
          /\ \A i \in 1..Len(queue) : /\ Precede(b, queue[i].samples) /\ Precede(s, queue[i].samples)
                                      /\ Follow(previous, queue[i].samples)
      BY <1>3, <2>1, <3>1 DEF Inv, InOrder
    <3>4. Rising(b2) /\ Precede(b2, t)
      BY <3>2, <3>3, MovedKeepsOrder
    <3>5. Follow(previous, b2) /\ Follow(previous, t)
      BY <3>2, <3>3, MovedKeepsEach
    <3>6. \A i \in 1..Len(queue) : Precede(b2, queue[i].samples) /\ Precede(t, queue[i].samples)
      BY <3>2, <3>3, MovedKeepsEach
    <3>7. /\ Follow(previous, <<>>) /\ Precede(b2, <<>>) /\ \A q : Precede(<<>>, q)
      BY DEF Follow, Precede
    <3>8. \A m \in Modes :
            /\ Follow(previous, carry'[m]) /\ Precede(b2, carry'[m])
            /\ \A i \in 1..Len(queue) : Precede(carry'[m], queue[i].samples)
      BY <1>1, <3>1, <3>4, <3>5, <3>6, <3>7
    <3> QED
      BY <1>2, <3>1, <3>3, <3>4, <3>5, <3>6, <3>8 DEF InOrder
  <2> QED
    BY <2>4, <2>5, <2>6, <2>9, <2>10 DEF Flow
<1> QED
  BY <1>1, <1>3, <1>4, <1>5

LEMMA Serving ==
  ASSUME Inv, WithinBegins
  PROVE  Inv'
<1>1. PICK n \in 0..Len(carry[mode]) :
           /\ n <= max_samples - Len(buffer)
           /\ n = 0 => Len(carry[mode]) = 0 \/ max_samples = Len(buffer)
           /\ buffer' \in Seq(Sample) /\ carry'[mode] \in Seq(Sample)
           /\ Moved(buffer, carry[mode], buffer', carry'[mode])
           /\ Len(buffer') = Len(buffer) + n /\ Len(carry'[mode]) = Len(carry[mode]) - n
           /\ \A m \in Modes : m # mode => carry[m] = <<>> /\ carry'[m] = <<>>
           /\ carry' \in [Modes -> Seq(Sample)]
           /\ remaining' = max_samples - Len(buffer) - n /\ inner' = n
           /\ pc = "begin" /\ pc' = IF n > 0 \/ max_samples = Len(buffer) THEN "end" ELSE "poll"
  BY ServingIs
<1>2. /\ UNCHANGED <<sdk, stream_active, read_mode, observed, overrun_pending, call, ghosts>>
      /\ got_packet' = FALSE /\ read_geometry' = NoGeometry
  BY DEF WithinBegins
<1>3. /\ max_samples \in Nat /\ Len(buffer) \in Nat /\ Len(carry[mode]) \in Nat /\ n \in Nat
      /\ Len(buffer) <= max_samples /\ read_mode = mode /\ stream_active /\ mode \in Modes
  BY <1>1, PartsAre DEF Inv, TypeOK, CallsAreInStep
<1>4. /\ Len(buffer') <= max_samples /\ remaining' \in 0..max_samples /\ inner' \in 0..max_samples
      /\ Len(buffer') + remaining' = max_samples /\ inner' <= Len(buffer')
  <2>1. /\ Len(buffer') = Len(buffer) + n /\ n <= max_samples - Len(buffer)
        /\ remaining' = max_samples - Len(buffer) - n /\ inner' = n
    BY <1>1
  <2> QED
    BY <2>1, <1>3
<1> USE <1>2 DEF sdk, call, ghosts
<1>5. TypeOK'
  <2>1. \A m \in Modes : carry'[m] # <<>> => read_mode' = m
    BY <1>1, <1>3
  <2>2. pc' \in {"idle", "begin", "poll", "end", "returned"} /\ read_geometry' \in Geometries
    BY <1>1, ReadsAssumption
  <2> QED
    BY <1>1, <1>4, <2>1, <2>2 DEF Inv, TypeOK
<1>6. CallsAreInStep'
  <2>1. pc' = "poll" => Len(carry'[mode]) = 0
    BY <1>1, <1>3
  <2>2. pc' = "poll" => carry'[mode] = <<>>
    BY <1>1, <2>1
  <2>3. pc' # "idle"
    BY <1>1
  <2> QED
    BY <1>3, <1>4, <2>2, <2>3 DEF CallsAreInStep
<1>7. CallsHaveOneMapping'
  <2> SUFFICES ASSUME ~by_deadline
               PROVE  AllOf(buffer', observed) /\ (pc' = "poll" => buffer' = <<>>)
    BY <1>1 DEF CallsHaveOneMapping
  <2>1. buffer = <<>>
    BY <1>1 DEF Inv, CallsHaveOneMapping
  <2>2. AllOf(buffer, observed)
    BY <2>1 DEF AllOf
  <2>3. AllOf(carry[mode], observed)
    <3>1. carry[mode] = <<>> => AllOf(carry[mode], observed)
      BY DEF AllOf
    <3> QED
      BY <3>1, <1>3 DEF Inv, CarryIsNext
  <2>4. AllOf(buffer', observed)
    <3>1. PICK b, s, b2, t : b = buffer /\ s = carry[mode] /\ b2 = buffer' /\ t = carry'[mode]
      OBVIOUS
    <3>2. Moved(b, s, b2, t) /\ AllOf(b, observed) /\ AllOf(s, observed)
      BY <1>1, <2>2, <2>3, <3>1
    <3> QED
      BY <3>1, <3>2, MovedKeepsEach
  <2>5. pc' = "poll" => Len(buffer') = 0
    BY <1>1, <2>1
  <2> QED
    BY <1>1, <2>4, <2>5
<1>8. Flow'
  BY ServedFlow
<1> QED
  BY <1>5, <1>6, <1>7, <1>8 DEF Inv, Flow

\* A packet is taken.
TakingIs(m, packet, n) ==
  /\ mode = m /\ pc = "poll" /\ remaining > 0 /\ queue # <<>>
  /\ packet = queue[1] /\ packet \in Packet /\ packet.samples # <<>>
  /\ ~NewGeometry(packet.geo)
  /\ n \in 1..Len(packet.samples) /\ n <= remaining
  /\ n < remaining => n = Len(packet.samples)
  /\ overrun_pending' = (overrun_pending \/ packet.warned)
  /\ HandsOver(buffer, packet.samples, n, buffer', carry'[m])
  /\ carry' \in [Modes -> Seq(Sample)]
  /\ \A x \in Modes : carry[x] = <<>> /\ (x # m => carry'[x] = <<>>)
  /\ remaining' = remaining - n /\ inner' = inner + n
  /\ got_packet' = TRUE /\ observed' = packet.geo /\ read_geometry' = packet.geo
  /\ \/ queue' = Tail(queue) /\ pc' = "poll" /\ twice' = twice
     \/ queue' = queue /\ pc' = "returned" /\ twice' = TRUE
  /\ errors' \in 0..MaxErrors
  /\ UNCHANGED <<taken, lost, stream_active, read_mode, call, previous, told, began, session>>

LEMMA Taking ==
  ASSUME Inv, NEW m \in Modes, Takes(m)
  PROVE  \E packet, n : TakingIs(m, packet, n)
<1> DEFINE len == Len(Head(queue).samples)
           n == ToCaller(len, remaining)
<1>1. /\ mode = m /\ pc = "poll" /\ remaining > 0 /\ queue # <<>>
      /\ ~NewGeometry(Head(queue).geo) /\ len \in Nat \ {0}
      /\ overrun_pending' = (overrun_pending \/ Head(queue).warned)
      /\ buffer' = buffer \o SubSeq(Head(queue).samples, 1, n)
      /\ carry' = [carry EXCEPT ![m] = @ \o SubSeq(Head(queue).samples, n + 1, len)]
      /\ remaining' = remaining - n /\ inner' = inner + n
      /\ got_packet' = TRUE /\ observed' = Head(queue).geo /\ read_geometry' = Head(queue).geo
      /\ ConsumeGoingOnAt({"poll"})
      /\ twice' = (twice \/ pc' = "returned")
      /\ UNCHANGED <<taken, lost, stream_active, read_mode, call, previous, told, began, session>>
  BY DEF Takes, HeadIs
<1> HIDE DEF n
<1>2. PICK packet \in Packet, b \in Seq(Sample), s \in Seq(Sample) :
        packet = Head(queue) /\ b = buffer /\ s = packet.samples
  <2>1. Head(queue) \in Packet
    <3>1. queue \in Seq(Packet)
      BY QueueIs DEF Inv
    <3> QED
      BY <3>1, <1>1
  <2>2. Head(queue).samples \in Seq(Sample)
    BY <2>1, PacketIs
  <2> QED
    BY <2>1, <2>2, PartsAre DEF Inv
<1>a. PICK k : k = n
  OBVIOUS
<1>3. packet = queue[1]
  <2>1. queue \in Seq(Packet)
    BY QueueIs DEF Inv
  <2> QED
    BY <2>1, <1>1, <1>2
<1>4. /\ k \in 1..Len(s) /\ k <= remaining /\ (k < remaining => k = Len(s)) /\ packet.samples # <<>>
  <2>1. len = Len(s) /\ remaining \in Nat /\ len \in Nat \ {0} /\ remaining > 0
    BY <1>1, <1>2, PartsAre DEF Inv
  <2>2. n \in 1..len /\ n <= remaining /\ (n < remaining => n = len)
    BY <2>1 DEF ToCaller, n
  <2>3. packet.samples # <<>>
    BY <2>1, <1>2, PacketIs
  <2> QED
    BY <2>1, <2>2, <2>3, <1>2, <1>a
<1>5. HandsOver(b, s, k, b \o SubSeq(s, 1, k), SubSeq(s, k + 1, Len(s)))
  <2>1. k \in 0..Len(s)
    BY <1>4
  <2> QED
    BY <2>1, MovedIs
<1>6. NothingIsCarried /\ carry \in [Modes -> Seq(Sample)]
  BY <1>1, NothingIsCarriedMeanwhile DEF Inv, TypeOK
<1>7. PICK t \in Seq(Sample) : t = SubSeq(s, k + 1, Len(s))
  BY <1>5 DEF HandsOver
<1>8. /\ carry'[m] = t /\ \A x \in Modes : x # m => carry'[x] = carry[x]
      /\ carry' \in [Modes -> Seq(Sample)]
  <2>1. carry' = [carry EXCEPT ![m] = carry[m] \o t]
    BY <1>1, <1>2, <1>6, <1>7, <1>a
  <2>2. carry[m] = <<>>
    BY <1>6 DEF NothingIsCarried
  <2>3. <<>> \o t = t
    BY ConcatEmptySeq
  <2> QED
    BY <2>1, <2>2, <2>3, <1>6
<1>9. buffer' = b \o SubSeq(s, 1, k)
  BY <1>1, <1>2, <1>a
<1>10. HandsOver(buffer, packet.samples, k, buffer', carry'[m])
  BY <1>2, <1>5, <1>7, <1>8, <1>9
<1>11. /\ (queue' = Tail(queue) /\ pc' = "poll") \/ (queue' = queue /\ pc' = "returned")
       /\ errors' \in 0..MaxErrors
  <2>1. errors \in 0..MaxErrors /\ MaxErrors \in Nat
    BY ReadsAssumption DEF Inv, TypeOK
  <2>2. \/ queue' = Tail(queue) /\ pc' \in {"poll"} /\ errors' = errors
        \/ SdkFails /\ queue' = queue /\ pc' = "returned"
    BY <1>1 DEF ConsumeGoingOnAt
  <2>3. SdkFails => errors' \in 0..MaxErrors
    BY <2>1 DEF SdkFails
  <2> QED
    BY <2>1, <2>2, <2>3
<1>12. \/ queue' = Tail(queue) /\ pc' = "poll" /\ twice' = twice
       \/ queue' = queue /\ pc' = "returned" /\ twice' = TRUE
  BY <1>1, <1>11 DEF Inv, TypeOK
<1>13. \A x \in Modes : carry[x] = <<>> /\ (x # m => carry'[x] = <<>>)
  BY <1>6, <1>8 DEF NothingIsCarried
<1>14. ~NewGeometry(packet.geo)
  BY <1>1, <1>2
<1>15. TakingIs(m, packet, k)
  BY <1>1, <1>2, <1>a, <1>3, <1>4, <1>8, <1>10, <1>11, <1>12, <1>13, <1>14 DEF TakingIs
<1> QED
  BY <1>15

LEMMA TakenFlow ==
  ASSUME Inv, NEW m \in Modes, NEW packet, NEW n, TakingIs(m, packet, n)
  PROVE  Flow'
<1>1. PICK s : s = packet.samples
  OBVIOUS
<1>2. /\ mode = m /\ pc = "poll" /\ remaining > 0 /\ queue # <<>>
      /\ packet = queue[1] /\ packet \in Packet /\ s # <<>>
      /\ n \in 1..Len(s)
      /\ overrun_pending' = (overrun_pending \/ packet.warned)
      /\ HandsOver(buffer, s, n, buffer', carry'[m])
      /\ \A x \in Modes : carry[x] = <<>> /\ (x # m => carry'[x] = <<>>)
      /\ observed' = packet.geo
      /\ \/ queue' = Tail(queue) /\ twice' = twice
         \/ queue' = queue /\ twice' = TRUE
      /\ UNCHANGED <<taken, lost, stream_active, mode, previous, told, began>>
  BY <1>1 DEF TakingIs, call
<1>3. /\ s \in Seq(Sample) /\ 1 \in 1..Len(queue) /\ queue[1].samples = s /\ taken \in Nat /\ began \in Nat
      /\ Len(s) \in Nat /\ 1 \in 1..Len(s) /\ Len(queue) \in Nat
  <2>1. 1 \in 1..Len(queue)
    BY <1>2, QueueIs DEF Inv
  <2>2. s \in Seq(Sample) /\ Len(s) \in Nat
    BY <1>1, <1>2, PacketIs
  <2>3. 1 \in 1..Len(s)
    BY <1>2, <2>2
  <2> QED
    BY <2>1, <2>2, <2>3, <1>1, <1>2, PartsAre, QueueIs DEF Inv
<1>4. Consecutive(s) /\ AllOf(s, packet.geo) /\ Between(s, began, taken)
  BY <1>2, <1>3 DEF Inv, PacketsAreWhole, SamplesAreOfSession
<1>5. HandedOver(s)
  <2>1. /\ Moved(buffer, s, buffer', carry'[mode]) /\ buffer' \in Seq(Sample) /\ carry'[mode] \in Seq(Sample)
        /\ Len(buffer') = Len(buffer) + n
    BY <1>2 DEF HandsOver
  <2>2. Len(buffer') > Len(buffer)
    BY <2>1, <1>2, <1>3, PartsAre DEF Inv
  <2>3. AllOf(s, observed')
    BY <1>2, <1>4
  <2> QED
    BY <2>1, <2>2, <2>3, <1>2, <1>4 DEF HandedOver
<1>6. /\ Between(buffer', began', taken') /\ \A x \in Modes : Between(carry'[x], began', taken')
      /\ CarryIsNext' /\ LastOf(s) \in Nat /\ s[1].number \in Nat /\ s[1].number <= LastOf(s) + 1
      /\ \A x \in Nat : x <= LastOf(s) \/ x < s[1].number => Reached(x)'
  BY <1>5, HandedOverIs
<1>7. \A i \in 1..Len(queue') : \E j \in 1..Len(queue) : queue'[i] = queue[j]
  <2>1. CASE queue' = Tail(queue)
    BY <2>1, <1>2, Consuming DEF Inv
  <2>2. CASE queue' = queue
    BY <2>2
  <2> QED
    BY <2>1, <2>2, <1>2
<1>8. SamplesAreOfSession'
  <2>1. \A i \in 1..Len(queue') : Between(queue'[i].samples, began', taken')
    BY <1>2, <1>7 DEF Inv, SamplesAreOfSession
  <2> QED
    BY <2>1, <1>2, <1>6 DEF Inv, SamplesAreOfSession
<1>9. PacketsAreWhole'
  <2>1. CASE queue' = Tail(queue)
    BY <2>1, <1>2, ConsumedKeepsPackets
  <2>2. CASE queue' = queue
    BY <2>2 DEF Inv, PacketsAreWhole
  <2> QED
    BY <2>1, <2>2, <1>2
<1>10. InOrder'
  <2> SUFFICES ASSUME ~twice'
               PROVE  InOrder'
    BY DEF InOrder
  <2>1. ~twice /\ queue' = Tail(queue)
    BY <1>2
  <2>2. PICK b, b2, t : b = buffer /\ b2 = buffer' /\ t = carry'[m]
    OBVIOUS
  <2>3. Moved(b, s, b2, t) /\ Consecutive(s)
    BY <1>2, <1>4, <2>2 DEF HandsOver
  <2>4. /\ Rising(b) /\ Precede(b, s) /\ Follow(previous, b) /\ Follow(previous, s)
        /\ \A i \in 1..Len(queue) : Precede(b, queue[i].samples) /\ Follow(previous, queue[i].samples)
    BY <1>3, <2>1, <2>2 DEF Inv, InOrder
  <2>5. \A i \in 1..Len(queue') :
          /\ Precede(b, queue'[i].samples) /\ Precede(s, queue'[i].samples)
          /\ Follow(previous, queue'[i].samples)
    <3> TAKE i \in 1..Len(queue')
    <3>1. queue'[i] = queue[i + 1] /\ i + 1 \in 1..Len(queue) /\ 1 < i + 1
      <4>1. TypeOK /\ queue # <<>> /\ queue' = Tail(queue)
        BY <2>1, <1>2 DEF Inv
      <4>2. queue'[i] = queue[i + 1] /\ i + 1 \in 1..Len(queue)
        BY <4>1, Consuming
      <4> QED
        BY <4>2
    <3>2. Precede(queue[1].samples, queue[i + 1].samples)
      BY <3>1, <1>3 DEF Inv, PacketsAreWhole
    <3> QED
      BY <3>1, <3>2, <2>4, <1>3
  <2>6. Rising(b2) /\ Precede(b2, t)
    BY <2>3, <2>4, MovedKeepsOrder
  <2>7. Follow(previous, b2) /\ Follow(previous, t)
    BY <2>3, <2>4, MovedKeepsEach
  <2>8. \A i \in 1..Len(queue') : Precede(b2, queue'[i].samples) /\ Precede(t, queue'[i].samples)
    BY <2>3, <2>5, MovedKeepsEach
  <2>9. /\ Follow(previous, <<>>) /\ Precede(b2, <<>>) /\ \A q : Precede(<<>>, q)
    BY DEF Follow, Precede
  <2>10. \A x \in Modes :
            /\ Follow(previous, carry'[x]) /\ Precede(b2, carry'[x])
            /\ \A i \in 1..Len(queue') : Precede(carry'[x], queue'[i].samples)
    BY <1>2, <2>2, <2>6, <2>7, <2>8, <2>9
  <2> QED
    BY <1>2, <2>2, <2>5, <2>6, <2>7, <2>8, <2>10 DEF InOrder
<1>11. HolesAreFlagged'
  <2>1. ASSUME NEW x \in 0..taken, LastOf(s) = x
        PROVE  Reached(x)'
    <3>1. x \in Nat /\ x <= LastOf(s)
      BY <2>1, <1>3
    <3> QED
      BY <3>1, <1>6
  <2>2. CASE queue' = Tail(queue)
    <3>1. \A x \in 0..taken :
            /\ queue[1].samples = <<>> /\ Reached(x) => Reached(x)'
            /\ queue[1].samples # <<>> /\ LastOf(queue[1].samples) = x => Reached(x)'
      BY <2>1, <1>2, <1>3
    <3> QED
      BY <3>1, <2>2, <1>2, ConsumedKeepsHoles
  <2>3. CASE queue' = queue
    <3>1. PICK N \in Nat : N = Len(queue) /\ 1 \in 1..N
      BY <1>3
    <3>2. ASSUME NEW k \in 0..N, NEW x \in 0..taken, Complete(k, x), k = 0 => x < s[1].number
          PROVE  Complete(k, x)'
      <4>1. CASE k = 0
        <5>1. Reached(x)'
          <6>1. x \in Nat /\ x < s[1].number
            BY <3>2, <4>1, <1>3
          <6> QED
            BY <6>1, <1>6
        <5> QED
          BY <5>1, <4>1 DEF Complete
      <4>2. CASE k # 0
        <5>1. 1 \in 1..k /\ queue[1].samples # <<>>
          BY <4>2, <1>2, <1>3
        <5> QED
          BY <5>1, <2>3, <3>2 DEF Complete
      <4> QED
        BY <4>1, <4>2
    <3> SUFFICES ASSUME NEW x \in 0..taken
                 PROVE  /\ \A k \in 1..N :
                              /\ queue[k].samples # <<>> /\ ~queue[k].warned
                              /\ queue[k].samples[1].number = x + 1
                              => Complete(k - 1, x)'
                        /\ stream_active /\ ~lost /\ x = taken => Complete(N, x)'
      BY <2>3, <3>1, <1>2 DEF HolesAreFlagged
    <3>3. ASSUME NEW k \in 1..N, queue[k].samples # <<>>, ~queue[k].warned,
                 queue[k].samples[1].number = x + 1
          PROVE  Complete(k - 1, x)'
      <4>1. Complete(k - 1, x) /\ k - 1 \in 0..N
        BY <3>1, <3>3 DEF Inv, HolesAreFlagged
      <4>2. k - 1 = 0 => x < s[1].number
        BY <3>3, <1>3
      <4> QED
        BY <4>1, <4>2, <3>2
    <3>4. ASSUME stream_active, ~lost, x = taken
          PROVE  Complete(N, x)'
      <4>1. Complete(N, x) /\ N \in 0..N /\ N # 0
        BY <3>1, <3>4 DEF Inv, HolesAreFlagged
      <4> QED
        BY <4>1, <3>2
    <3> QED
      BY <3>3, <3>4
  <2> QED
    BY <2>2, <2>3, <1>2
<1>12. HolesAreTold'
  <2>1. IsNext(s)
    <3> SUFFICES ASSUME ~overrun_pending'
                 PROVE  IsNext(s)
      BY DEF IsNext
    <3>1. ~overrun_pending /\ ~queue[1].warned
      BY <1>2
    <3>2. PICK x : x = s[1].number - 1
      OBVIOUS
    <3>3. x \in 0..taken /\ s[1].number = x + 1
      <4>1. s[1].number \in Nat
        BY <1>6
      <4>2. began < s[1].number /\ s[1].number <= taken
        BY <1>3, <1>4 DEF Between
      <4> QED
        BY <4>1, <4>2, <3>2, <1>3
    <3>4. Complete(0, x)
      BY <3>1, <3>3, <1>2, <1>3 DEF Inv, HolesAreFlagged
    <3>5. Reached(x) /\ NothingIsCarried
      BY <3>4, <1>2 DEF Complete, NothingIsCarried
    <3>6. LastRead = 0 \/ x <= LastRead \/ (told /\ buffer = <<>>)
      BY <3>1, <3>5 DEF Reached, Excused
    <3>7. LastRead \in Nat /\ (buffer = <<>> => LastRead = previous)
      <4>1. CASE buffer = <<>>
        BY <4>1, PartsAre DEF Inv, LastRead
      <4>2. CASE buffer # <<>>
        <5>1. Len(buffer) \in 1..Len(buffer)
          BY <4>2, PartsAre DEF Inv
        <5>2. buffer[Len(buffer)].number \in Nat
          BY <5>1, FlowIsNumbered DEF Inv, Numbered
        <5> QED
          BY <5>2, <4>2 DEF LastRead, LastOf
      <4> QED
        BY <4>1, <4>2
    <3>8. buffer # <<>> => LastRead > 0
      <4> HAVE buffer # <<>>
      <4>1. Len(buffer) \in 1..Len(buffer)
        BY PartsAre DEF Inv
      <4>2. began < LastRead
        BY <4>1 DEF Inv, SamplesAreOfSession, Between, LastRead, LastOf
      <4> QED
        BY <4>2, <1>3, <3>7
    <3>9. CASE x <= LastRead
      BY <3>3, <3>7, <3>9, <1>6 DEF IsNext
    <3>10. CASE LastRead = 0
      BY <3>7, <3>8, <3>10 DEF IsNext
    <3>11. CASE told /\ buffer = <<>>
      BY <3>11 DEF IsNext
    <3> QED
      BY <3>6, <3>9, <3>10, <3>11
  <2> QED
    BY <2>1, <1>5, HandedOverLeavesNoHole
<1> QED
  BY <1>6, <1>8, <1>9, <1>10, <1>11, <1>12 DEF Flow

LEMMA TakingKeeps ==
  ASSUME Inv, NEW m \in Modes, Takes(m)
  PROVE  Inv'
<1>1. PICK packet, n : TakingIs(m, packet, n)
  BY Taking
<1>2. /\ mode = m /\ pc = "poll" /\ remaining > 0 /\ queue # <<>>
      /\ packet \in Packet /\ ~NewGeometry(packet.geo)
      /\ n \in 1..Len(packet.samples) /\ n <= remaining /\ (n < remaining => n = Len(packet.samples))
      /\ overrun_pending' = (overrun_pending \/ packet.warned)
      /\ HandsOver(buffer, packet.samples, n, buffer', carry'[m])
      /\ carry' \in [Modes -> Seq(Sample)]
      /\ \A x \in Modes : carry[x] = <<>> /\ (x # m => carry'[x] = <<>>)
      /\ remaining' = remaining - n /\ inner' = inner + n
      /\ got_packet' = TRUE /\ observed' = packet.geo /\ read_geometry' = packet.geo
      /\ \/ queue' = Tail(queue) /\ pc' = "poll" /\ twice' = twice
         \/ queue' = queue /\ pc' = "returned" /\ twice' = TRUE
      /\ errors' \in 0..MaxErrors
      /\ UNCHANGED <<taken, lost, stream_active, read_mode, call, previous, told, began, session>>
  BY <1>1 DEF TakingIs
<1>3. /\ packet.geo \in Geometries /\ packet.warned \in BOOLEAN /\ Len(packet.samples) \in Nat
  BY <1>2, PacketIs
<1>4. /\ max_samples \in Nat /\ Len(buffer) \in Nat /\ remaining \in Nat /\ inner \in Nat /\ n \in Nat
      /\ Len(buffer) + remaining = max_samples /\ inner <= Len(buffer)
      /\ stream_active /\ read_mode = mode
  BY <1>2, <1>3, PartsAre DEF Inv, CallsAreInStep
<1>5. /\ buffer' \in Seq(Sample) /\ Moved(buffer, packet.samples, buffer', carry'[m])
      /\ Len(buffer') = Len(buffer) + n /\ Len(carry'[m]) = Len(packet.samples) - n
  BY <1>2 DEF HandsOver
<1>6. /\ Len(buffer') + remaining' = max_samples /\ inner' <= Len(buffer')
      /\ Len(buffer') <= max_samples /\ remaining' \in 0..max_samples /\ inner' \in 0..max_samples
  <2>1. remaining' = remaining - n /\ inner' = inner + n /\ n <= remaining
    BY <1>2
  <2>2. Len(buffer') = Len(buffer) + n
    BY <1>5
  <2> QED
    BY <2>1, <2>2, <1>4
<1> USE DEF call
<1>7. TypeOK'
  <2>1. queue' \in Seq(Packet) /\ Len(queue') <= QueueDepth
    <3>1. queue \in Seq(Packet) /\ Len(queue) <= QueueDepth /\ Len(queue) \in Nat
      BY QueueIs DEF Inv, TypeOK
    <3>2. CASE queue' = Tail(queue)
      <4>1. TypeOK /\ queue # <<>> /\ queue' = Tail(queue)
        BY <3>2, <1>2 DEF Inv
      <4>2. queue' \in Seq(Packet) /\ Len(queue') = Len(queue) - 1
        BY <4>1, Consuming
      <4>3. QueueDepth \in Nat
        BY ReadsAssumption
      <4> QED
        BY <4>2, <4>3, <3>1
    <3> QED
      BY <3>1, <3>2, <1>2
  <2>2. \A x \in Modes : carry'[x] # <<>> => read_mode' = x
    BY <1>2, <1>4
  <2>3. /\ overrun_pending' \in BOOLEAN /\ observed' \in Geometries /\ read_geometry' \in Geometries
        /\ twice' \in BOOLEAN /\ pc' \in {"idle", "begin", "poll", "end", "returned"}
    BY <1>2, <1>3 DEF Inv, TypeOK
  <2> QED
    BY <1>2, <1>5, <1>6, <2>1, <2>2, <2>3 DEF Inv, TypeOK
<1>8. CallsAreInStep'
  <2>1. remaining' > 0 => Len(carry'[m]) = 0
    BY <1>2, <1>3, <1>4, <1>5
  <2>2. remaining' > 0 => carry'[m] = <<>>
    BY <2>1, <1>2
  <2>3. pc' # "idle" /\ stream_active' /\ read_mode' = mode' /\ mode' = m /\ UNCHANGED max_samples
    BY <1>2, <1>4
  <2> QED
    BY <1>6, <2>2, <2>3 DEF CallsAreInStep
<1>9. CallsHaveOneMapping'
  <2> SUFFICES ASSUME ~by_deadline
               PROVE  AllOf(buffer', packet.geo)
    BY <1>2 DEF CallsHaveOneMapping
  <2>1. PICK b, s, b2, t : b = buffer /\ s = packet.samples /\ b2 = buffer' /\ t = carry'[m]
    OBVIOUS
  <2>2. AllOf(b, packet.geo)
    <3>1. CASE buffer = <<>>
      BY <3>1, <2>1 DEF AllOf
    <3>2. CASE buffer # <<>>
      <4>1. got_packet /\ read_geometry = observed /\ AllOf(buffer, observed)
        BY <3>2, <1>2 DEF Inv, CallsHaveOneMapping
      <4>2. packet.geo = observed
        BY <4>1, <1>2 DEF NewGeometry
      <4> QED
        BY <4>1, <4>2, <2>1
    <3> QED
      BY <3>1, <3>2
  <2>3. AllOf(s, packet.geo)
    <3>1. packet = queue[1] /\ 1 \in 1..Len(queue)
      <4>1. 1 \in 1..Len(queue)
        BY <1>2, QueueIs DEF Inv
      <4> QED
        BY <4>1, <1>1 DEF TakingIs
    <3> QED
      BY <3>1, <2>1 DEF Inv, PacketsAreWhole
  <2>4. Moved(b, s, b2, t)
    BY <1>5, <2>1
  <2>5. AllOf(b2, packet.geo)
    BY <2>2, <2>3, <2>4, MovedKeepsEach
  <2> QED
    BY <2>1, <2>5
<1>10. Flow'
  BY <1>1, TakenFlow
<1> QED
  BY <1>7, <1>8, <1>9, <1>10 DEF Inv, Flow

LEMMA StutteringKeeps ==
  ASSUME Inv, UNCHANGED vars
  PROVE  Inv'
<1> USE DEF vars, sdk, source, call, within, ghosts
<1>1. TypeOK'
  BY DEF Inv, TypeOK
<1>2. CallsAreInStep' /\ CallsHaveOneMapping'
  BY DEF Inv, CallsAreInStep, CallsHaveOneMapping, NothingIsCarried
<1>3. Flow'
  BY NothingMoves DEF samples_at, Inv, Flow
<1> QED
  BY <1>1, <1>2, <1>3 DEF Inv, Flow
-----------------------------------------------------------------------------
(***************************************************************************)
(* What a reader of the stream may rely on.                                *)
(***************************************************************************)
\* Whatever packets come, whatever is read of them and whichever calls of the SDK fail, what
\* is queued, carried over, read and delivered stays in order, and holes stay flagged.
THEOREM StreamIsKept == Spec => []Inv
<1>1. Inv /\ [Next]_vars => Inv'
  <2> SUFFICES ASSUME Inv, [Next]_vars
               PROVE  Inv'
    OBVIOUS
  <2>1. CASE \E len \in PacketLens, geo \in Geometries, shape \in {"iq", "stride", "huge"} :
               (len = 0 => shape = "iq") /\ PacketArrives(len, geo, shape)
    BY <2>1, Arriving
  <2>2. CASE DeviceLoses
    BY <2>2, Losing
  <2>3. CASE \E m \in Modes, wanted \in ReadSizes, deadline \in BOOLEAN : ReadBegins(m, wanted, deadline)
    BY <2>3, Beginning
  <2>4. CASE WithinBegins
    BY <2>4, Serving
  <2>5. CASE WithinEnds \/ WithinStops \/ ReadReturns \/ ReadGoesOn \/ GetPacketFails
    BY <2>5, CallMoves
  <2>6. CASE TakePacket
    BY <2>6, TakingKeeps DEF TakePacket, Modes
  <2>7. CASE TakePairs
    BY <2>7, TakingKeeps DEF TakePairs, Modes
  <2>8. CASE SkipEmptyPacket \/ SkipPacket \/ RejectPacket
    BY <2>8, Skipping
  <2>9. CASE take_overrun
    BY <2>9, Returning
  <2>10. CASE stop_streaming
    BY <2>10, Ending
  <2>11. CASE start_streaming
    BY <2>11, Restarting
  <2>12. CASE UNCHANGED vars
    BY <2>12, StutteringKeeps
  <2> QED
    BY <2>1, <2>2, <2>3, <2>4, <2>5, <2>6, <2>7, <2>8, <2>9, <2>10, <2>11, <2>12 DEF Next
<1> QED
  BY Starting, <1>1, PTL DEF Spec

\* What was delivered before the read, and what the read delivers.
LEMMA DeliveredIs ==
  ASSUME TypeOK
  PROVE  /\ previous = 0 => /\ Len(Delivered) = Len(buffer)
                            /\ \A i \in 1..Len(buffer) : Delivered[i] = buffer[i].number
         /\ previous # 0 => /\ Len(Delivered) = Len(buffer) + 1 /\ Delivered[1] = previous
                            /\ \A i \in 1..Len(buffer) : Delivered[i + 1] = buffer[i].number
<1> DEFINE u == IF previous = 0 THEN <<>> ELSE <<previous>>
           v == [i \in DOMAIN buffer |-> buffer[i].number]
           d == Delivered
<1>1. d = u \o v
  BY DEF Delivered
<1>2. DOMAIN buffer = 1..Len(buffer) /\ Len(buffer) \in Nat
  BY PartsAre
<1>3. \A i \in 1..Len(buffer) : buffer[i].number \in Nat
  BY FlowIsNumbered DEF Numbered
<1>4. v \in Seq(Nat) /\ Len(v) = Len(buffer) /\ \A i \in 1..Len(buffer) : v[i] = buffer[i].number
  <2>1. v \in [1..Len(buffer) -> Nat] /\ \A i \in 1..Len(buffer) : v[i] = buffer[i].number
    BY <1>2, <1>3
  <2> QED
    BY <2>1, <1>2, FunctionIsSeq
<1>5. /\ u \in Seq(Nat) /\ (previous = 0 => Len(u) = 0)
      /\ previous # 0 => Len(u) = 1 /\ u[1] = previous
  BY PartsAre
<1> HIDE DEF u, v, d
<1>6. /\ Len(d) = Len(u) + Len(v)
      /\ \A i \in 1..Len(u) : d[i] = u[i]
      /\ \A i \in 1..Len(v) : d[Len(u) + i] = v[i]
  <2>1. u \in Seq(Nat) /\ v \in Seq(Nat)
    BY <1>4, <1>5
  <2> QED
    BY <1>1, <2>1, ConcatProperties
<1>7. d = Delivered
  BY DEF d
<1>8. ASSUME previous = 0
      PROVE  Len(d) = Len(buffer) /\ \A i \in 1..Len(buffer) : d[i] = buffer[i].number
  BY <1>2, <1>4, <1>5, <1>6, <1>8
<1>9. ASSUME previous # 0
      PROVE  /\ Len(d) = Len(buffer) + 1 /\ d[1] = previous
             /\ \A i \in 1..Len(buffer) : d[i + 1] = buffer[i].number
  <2>1. Len(u) = 1 /\ u[1] = previous /\ 1 \in 1..Len(u)
    BY <1>5, <1>9
  <2>2. Len(d) = Len(buffer) + 1 /\ d[1] = previous
    BY <2>1, <1>2, <1>4, <1>6
  <2>3. \A i \in 1..Len(buffer) : d[i + 1] = buffer[i].number
    <3> TAKE i \in 1..Len(buffer)
    <3>1. i \in 1..Len(v) /\ v[i] = buffer[i].number /\ Len(u) + i = i + 1
      BY <2>1, <1>2, <1>4
    <3> QED
      BY <3>1, <1>6
  <2> QED
    BY <2>2, <2>3
<1> QED
  BY <1>7, <1>8, <1>9

\* read_samples_within and read_samples_dual_within give the samples of a session once, in
\* the order they were taken, and none of a session before: what is carried over is given
\* before the queue is asked, and stop_streaming leaves nothing of it.
THEOREM EachSampleOnce == Spec => []SamplesComeOnce
<1>1. Inv => SamplesComeOnce
  <2> SUFFICES ASSUME Inv
               PROVE  SamplesComeOnce
    OBVIOUS
  <2>1. TypeOK
    BY DEF Inv
  <2>2. Len(buffer) \in Nat /\ DOMAIN buffer = 1..Len(buffer)
    BY <2>1, PartsAre
  <2>3. ReadsAreFresh
    BY <2>2 DEF Inv, SamplesAreOfSession, Between, ReadsAreFresh
  <2>4. ReadsInOrder
    <3> SUFFICES ASSUME ~twice, NEW i \in 2..Len(Delivered)
                 PROVE  Delivered[i - 1] < Delivered[i]
      BY DEF ReadsInOrder
    <3>1. Rising(buffer) /\ Follow(previous, buffer)
      BY DEF Inv, InOrder
    <3>2. CASE previous = 0
      <4>1. i \in 1..Len(buffer) /\ i - 1 \in 1..Len(buffer) /\ i - 1 < i
        BY <3>2, <2>1, <2>2, DeliveredIs
      <4>2. Delivered[i] = buffer[i].number /\ Delivered[i - 1] = buffer[i - 1].number
        BY <3>2, <4>1, <2>1, DeliveredIs
      <4> QED
        BY <4>1, <4>2, <3>1 DEF Rising
    <3>3. CASE previous # 0 /\ i = 2
      <4>0. Len(Delivered) = Len(buffer) + 1
        BY <3>3, <2>1, DeliveredIs
      <4>1. 1 \in 1..Len(buffer)
        BY <4>0, <3>3, <2>2
      <4>2. Delivered[1] = previous /\ Delivered[1 + 1] = buffer[1].number
        BY <3>3, <4>1, <2>1, DeliveredIs
      <4> QED
        BY <4>1, <4>2, <3>1, <3>3 DEF Follow
    <3>4. CASE previous # 0 /\ i # 2
      <4>1. PICK j \in 1..Len(buffer) : j = i - 1 /\ j - 1 \in 1..Len(buffer) /\ j - 1 < j
        <5>1. Len(Delivered) = Len(buffer) + 1
          BY <3>4, <2>1, DeliveredIs
        <5> QED
          BY <5>1, <3>4, <2>2
      <4>2. /\ Delivered[j + 1] = buffer[j].number /\ Delivered[(j - 1) + 1] = buffer[j - 1].number
            /\ j + 1 = i /\ (j - 1) + 1 = i - 1
        BY <3>4, <4>1, <2>1, DeliveredIs
      <4> QED
        BY <4>1, <4>2, <3>1 DEF Rising
    <3> QED
      BY <3>2, <3>3, <3>4
  <2> QED
    BY <2>1, <2>3, <2>4 DEF SamplesComeOnce
<1> QED
  BY <1>1, StreamIsKept, PTL

\* A hole in what the caller gets was flagged by the packet after it, or by the packet that
\* was skipped, and take_overrun tells of it with the first read past it or before.
THEOREM EachLossIsTold == Spec => []LossesAreTold
<1>1. Inv => LossesAreTold
  <2> SUFFICES ASSUME Inv, ~overrun_pending, ~told, NEW i \in 2..Len(Delivered)
               PROVE  Delivered[i] <= Delivered[i - 1] + 1
    BY DEF LossesAreTold
  <2>1. TypeOK
    BY DEF Inv
  <2>2. Len(buffer) \in Nat
    BY <2>1, PartsAre
  <2>3. /\ \A j \in 1..Len(buffer) : j # 1 => buffer[j].number <= buffer[j - 1].number + 1
        /\ buffer # <<>> /\ previous # 0 => buffer[1].number <= previous + 1
    BY DEF Inv, HolesAreTold
  <2>4. CASE previous = 0
    <3>1. i \in 1..Len(buffer) /\ i - 1 \in 1..Len(buffer) /\ i # 1
      BY <2>4, <2>1, <2>2, DeliveredIs
    <3>2. Delivered[i] = buffer[i].number /\ Delivered[i - 1] = buffer[i - 1].number
      BY <2>4, <3>1, <2>1, DeliveredIs
    <3> QED
      BY <3>1, <3>2, <2>3
  <2>5. CASE previous # 0 /\ i = 2
    <3>0. Len(Delivered) = Len(buffer) + 1
      BY <2>5, <2>1, DeliveredIs
    <3>1. 1 \in 1..Len(buffer) /\ buffer # <<>>
      BY <3>0, <2>5, <2>2
    <3>2. Delivered[1] = previous /\ Delivered[1 + 1] = buffer[1].number
      BY <2>5, <3>1, <2>1, DeliveredIs
    <3> QED
      BY <3>1, <3>2, <2>3, <2>5
  <2>6. CASE previous # 0 /\ i # 2
    <3>1. PICK j \in 1..Len(buffer) : j = i - 1 /\ j - 1 \in 1..Len(buffer) /\ j # 1
      <4>1. Len(Delivered) = Len(buffer) + 1
        BY <2>6, <2>1, DeliveredIs
      <4> QED
        BY <4>1, <2>6, <2>2
    <3>2. /\ Delivered[j + 1] = buffer[j].number /\ Delivered[(j - 1) + 1] = buffer[j - 1].number
          /\ j + 1 = i /\ (j - 1) + 1 = i - 1
      BY <2>6, <3>1, <2>1, DeliveredIs
    <3> QED
      BY <3>1, <3>2, <2>3
  <2> QED
    BY <2>4, <2>5, <2>6
<1> QED
  BY <1>1, StreamIsKept, PTL

\* What the source says of a read that is one call of read_samples_within is what the packets
\* its samples came in declared: a call ends before a packet of another geometry, and what is
\* carried over is given on its own.
THEOREM EachReadHasOneMapping == Spec => []OneMapping
<1>1. Inv => OneMapping
  <2> SUFFICES ASSUME Inv
               PROVE  OneMapping
    OBVIOUS
  <2>1. Len(buffer) \in Nat /\ DOMAIN buffer = 1..Len(buffer)
    BY PartsAre DEF Inv
  <2> QED
    BY <2>1 DEF Inv, CallsHaveOneMapping, AllOf, OneMapping
<1> QED
  BY <1>1, StreamIsKept, PTL
=============================================================================
